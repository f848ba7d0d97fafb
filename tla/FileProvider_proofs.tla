------------------------- MODULE FileProvider_proofs -------------------------
(***************************************************************************)
(* What holds of a file provider for every set of keys and calls, every    *)
(* bound, and any number of faults and crashes: the types, that a linked   *)
(* upload is never replaced and that Expire never removes one early.  And  *)
(* what holds as long as nothing has crashed or failed: every file is      *)
(* tracked, the loop wakes in time, and the items are bounded.             *)
(***************************************************************************)
EXTENDS FileProvider, FiniteSetTheorems, TLAPS

\* While Expire runs, the keys it still has to look at are cached, each is
\* listed once, and the one being removed is no longer listed: this is what
\* makes its reads of the cache map safe.
Expiring ==
  LET inExpire == \/ loop = "expire"
                  \/ loop \in {"unlinkMeta", "forget"} /\ back = "expire"
  IN inExpire =>
       /\ \A i \in 1..Len(todo) : todo[i] \in DOMAIN cache
       /\ \A i, j \in 1..Len(todo) : i # j => todo[i] # todo[j]
       /\ loop # "expire" => \A i \in 1..Len(todo) : todo[i] # victim

TypeInv == TypeOK /\ Expiring

----------------------------------------------------------------------------
\* A list of sorted keys holds each key of the cache once.
LEMMA SortedKeysType ==
  ASSUME NEW c, DOMAIN c \subseteq Keys, NEW s \in SortedKeys(c)
  PROVE  /\ s \in Seq(Keys)
         /\ \A i \in 1..Len(s) : s[i] \in DOMAIN c
         /\ \A i, j \in 1..Len(s) : i # j => s[i] # s[j]
<1>1. Cardinality(DOMAIN c) \in Nat
  BY KeysFinite, FS_Subset, FS_CardinalityType
<1>2. /\ s \in [1..Cardinality(DOMAIN c) -> DOMAIN c]
      /\ \A i, j \in 1..Cardinality(DOMAIN c) : i # j => s[i] # s[j]
  BY DEF SortedKeys, SetToSeqs
<1>3. s \in Seq(DOMAIN c) /\ Len(s) = Cardinality(DOMAIN c)
  BY <1>1, <1>2
<1>4. s \in Seq(Keys)
  BY <1>3
<1> QED  BY <1>2, <1>3, <1>4

\* The next expiry is -1 or that of a cached object.
LEMMA NextTimestampType ==
  ASSUME NEW c, DOMAIN c \subseteq Keys, \A k \in DOMAIN c : c[k] \in Nat,
         NEW s \in SortedKeys(c)
  PROVE  GetNextTimestamp(c, s) \in Nat \cup {-1}
<1>1. s \in Seq(Keys) /\ \A i \in 1..Len(s) : s[i] \in DOMAIN c
  BY SortedKeysType
<1>2. CASE s = <<>>  BY <1>2 DEF GetNextTimestamp
<1>3. CASE s # <<>>
  <2>1. 1 \in 1..Len(s)
    BY <1>1, <1>3
  <2> QED  BY <1>1, <1>3, <2>1 DEF GetNextTimestamp
<1> QED  BY <1>2, <1>3

\* Writing the metadata file, whole or interrupted, gives a metadata file.
LEMMA WriteMetaType ==
  ASSUME meta \in [Keys -> Metas], NEW k \in Keys, NEW c \in Calls, NEW e \in Nat,
         NEW m \in Calls \cup {NoCall}, WriteMeta(k, c, e, m)
  PROVE  meta' \in [Keys -> Metas]
<1>1. meta[k].open \ {c} \in SUBSET Calls
  BY DEF Metas
<1>2. [state |-> "whole", expires |-> e, md |-> m, open |-> meta[k].open \ {c}] \in Metas
  BY <1>1 DEF Metas
<1>3. [NoMeta EXCEPT !.state = "garbage", !.open = meta[k].open \ {c}] \in Metas
  BY <1>1 DEF Metas, NoMeta
<1> QED  BY <1>2, <1>3 DEF WriteMeta

\* Size is only ever taken of an upload, so a size is a natural number.
LEMMA SizeType ==
  ASSUME DiskTypeOK, NEW k \in Keys
  PROVE  SizeAt(k) \in Nat
BY SizeNat DEF DiskTypeOK, SizeAt

\* The initial state has the types.
LEMMA InitTypes == Init => TypeInv
<1> SUFFICES ASSUME Init PROVE TypeInv
  OBVIOUS
<1> USE DEF Init, DiskInit, LoopInit
<1>1. DiskTypeOK
  BY MaxFaultsNat DEF DiskTypeOK, NoMeta, Metas
<1>2. LoopTypeOK
  BY DEF LoopTypeOK, LoopStates
<1>3. Len(queue) <= QueueCap /\ now \in 1..MaxTime /\ crashes \in 0..MaxCrashes
  BY LimitsNat, MaxTimeNat
<1>4. /\ pc \in [Calls -> Running \cup {"idle", "done", "lost"}]
      /\ req \in [Calls -> [op : Operations, key : Keys, expires : Nat]]
      /\ save \in [Calls -> [expires : Nat, md : Calls \cup {NoCall}, created : BOOLEAN]]
      /\ got \in [Calls -> Calls \cup {NoCall}]
      /\ answer \in [Calls -> {"none", "stored", "updated", "failed", "missing", "found"}]
  OBVIOUS
<1>5. Expiring
  BY DEF Expiring
<1> QED  BY <1>1, <1>2, <1>3, <1>4, <1>5 DEF TypeInv, TypeOK

----------------------------------------------------------------------------
\* The types of what belongs to the calls.
CallTypeOK ==
  /\ pc \in [Calls -> Running \cup {"idle", "done", "lost"}]
  /\ req \in [Calls -> [op : Operations, key : Keys, expires : Nat]]
  /\ save \in [Calls -> [expires : Nat, md : Calls \cup {NoCall}, created : BOOLEAN]]
  /\ got \in [Calls -> Calls \cup {NoCall}]
  /\ answer \in [Calls -> {"none", "stored", "updated", "failed", "missing", "found"}]

QueueTypeOK == queue \in Seq(Objects) /\ Len(queue) <= QueueCap

\* A call at one of these places may go to another, and may return.
LEMMA GoToType ==
  ASSUME CallTypeOK, NEW c \in Calls, NEW w \in Running \cup {"idle", "done", "lost"},
         GoTo(c, w)
  PROVE  pc' \in [Calls -> Running \cup {"idle", "done", "lost"}]
BY DEF CallTypeOK, GoTo

\* A call that returns keeps the types of the calls.
LEMMA ReturnType ==
  ASSUME CallTypeOK, NEW c \in Calls,
         NEW r \in {"stored", "updated", "failed", "missing", "found"}, Return(c, r)
  PROVE  /\ pc' \in [Calls -> Running \cup {"idle", "done", "lost"}]
         /\ answer' \in [Calls -> {"none", "stored", "updated", "failed", "missing", "found"}]
BY DEF CallTypeOK, Return, GoTo

\* A call that goes on to save the metadata keeps the types of the calls.
LEMMA ToSaveType ==
  ASSUME CallTypeOK, NEW c \in Calls, NEW m \in Calls \cup {NoCall}, NEW b \in BOOLEAN,
         ToSave(c, m, b)
  PROVE  save' \in [Calls -> [expires : Nat, md : Calls \cup {NoCall}, created : BOOLEAN]]
BY DEF CallTypeOK, ToSave

\* The channel never holds more than its capacity.
LEMMA SendType ==
  ASSUME CallTypeOK, QueueTypeOK, NEW c \in Calls, Send(c)
  PROVE  QueueTypeOK'
<1>1. [key |-> Key(c), expires |-> req[c].expires] \in Objects
  BY DEF CallTypeOK, Key, Objects
<1> QED  BY <1>1, LimitsNat DEF QueueTypeOK, Send

\* A failing system call is counted within its bound.
LEMMA FaultType ==
  ASSUME faults \in 0..MaxFaults, Fault
  PROVE  faults' \in 0..MaxFaults
BY MaxFaultsNat DEF Fault

\* A step of a call keeps the types of the disk, the queue and the calls.
LEMMA CallTypes ==
  ASSUME DiskTypeOK, QueueTypeOK, CallTypeOK, now \in Nat,
         NEW c \in Calls, Start(c) \/ CallStep(c)
  PROVE  DiskTypeOK' /\ QueueTypeOK' /\ CallTypeOK'
<1> USE DEF diskVars
<1>0. Key(c) \in Keys
  BY DEF CallTypeOK, Key
<1>1. CASE Start(c)
  <2>1. PICK op \in Operations, k \in Keys, lifespan \in Lifespans :
          /\ req' = [req EXCEPT ![c] = [op |-> op, key |-> k, expires |-> now + lifespan]]
          /\ GoTo(c, CASE op = "GET" -> "open" [] op = "POST" -> "check" [] op = "PUT" -> "find")
    BY <1>1 DEF Start
  <2>2. (CASE op = "GET" -> "open" [] op = "POST" -> "check" [] op = "PUT" -> "find") \in Running
    BY OperationsType DEF Running
  <2>3. pc' \in [Calls -> Running \cup {"idle", "done", "lost"}]
    BY <2>1, <2>2, GoToType
  <2>4. req' \in [Calls -> [op : Operations, key : Keys, expires : Nat]]
    BY <2>1, LifespansNat DEF CallTypeOK
  <2> QED  BY <1>1, <2>3, <2>4 DEF Start, CallTypeOK, DiskTypeOK, QueueTypeOK
<1>2. CASE PutCheck(c)
  BY <1>2, GoToType DEF PutCheck, CallTypeOK, DiskTypeOK, QueueTypeOK, Running
<1>3. CASE PutCreate(c)
  <2>1. file' \in [Keys -> Calls \cup {NoCall}]
    BY <1>0, <1>3 DEF PutCreate, CreateFile, DiskTypeOK
  <2>2. faults' \in 0..MaxFaults
    BY <1>3, FaultType DEF PutCreate, DiskTypeOK
  <2>3. /\ pc' \in [Calls -> Running \cup {"idle", "done", "lost"}]
        /\ answer' \in [Calls -> {"none", "stored", "updated", "failed", "missing", "found"}]
    BY <1>3, GoToType, ReturnType DEF PutCreate, Running, CallTypeOK
  <2> QED  BY <1>3, <2>1, <2>2, <2>3 DEF PutCreate, DiskTypeOK, QueueTypeOK, CallTypeOK
<1>4. CASE PutWrite(c)
  <2>1. whole' \subseteq Calls /\ faults' \in 0..MaxFaults
    BY <1>4, FaultType DEF PutWrite, WriteFile, DiskTypeOK
  <2>2. pc' \in [Calls -> Running \cup {"idle", "done", "lost"}]
    BY <1>4, GoToType DEF PutWrite, Running
  <2>3. save' \in [Calls -> [expires : Nat, md : Calls \cup {NoCall}, created : BOOLEAN]]
    BY <1>4, ToSaveType DEF PutWrite
  <2> QED  BY <1>4, <2>1, <2>2, <2>3 DEF PutWrite, DiskTypeOK, QueueTypeOK, CallTypeOK
<1>5. CASE UpdateFind(c)
  <2>1. pc' \in [Calls -> Running \cup {"idle", "done", "lost"}]
    BY <1>5, GoToType DEF UpdateFind, Running
  <2>2. save' \in [Calls -> [expires : Nat, md : Calls \cup {NoCall}, created : BOOLEAN]]
    BY <1>5, ToSaveType DEF UpdateFind
  <2> QED  BY <1>5, <2>1, <2>2 DEF UpdateFind, DiskTypeOK, QueueTypeOK, CallTypeOK
<1>6. CASE UpdateAnnounce(c)
  <2>1. pc' \in [Calls -> Running \cup {"idle", "done", "lost"}]
    BY <1>6, GoToType DEF UpdateAnnounce, Running
  <2>2. QueueTypeOK'
    BY <1>6, SendType DEF UpdateAnnounce
  <2> QED  BY <1>6, <2>1, <2>2 DEF UpdateAnnounce, DiskTypeOK, CallTypeOK
<1>7. CASE UpdateLoad(c)
  <2>1. meta[Key(c)].md \in Calls \cup {NoCall}
    BY <1>0 DEF DiskTypeOK, Metas
  <2>2. /\ pc' \in [Calls -> Running \cup {"idle", "done", "lost"}]
        /\ answer' \in [Calls -> {"none", "stored", "updated", "failed", "missing", "found"}]
    BY <1>7, GoToType, ReturnType DEF UpdateLoad, Running, CallTypeOK
  <2>3. save' \in [Calls -> [expires : Nat, md : Calls \cup {NoCall}, created : BOOLEAN]]
    BY <1>7, <2>1, ToSaveType DEF UpdateLoad, CallTypeOK
  <2>4. faults' \in 0..MaxFaults
    BY <1>7, FaultType DEF UpdateLoad, DiskTypeOK
  <2> QED  BY <1>7, <2>2, <2>3, <2>4 DEF UpdateLoad, DiskTypeOK, QueueTypeOK, CallTypeOK
<1>8. CASE SaveCreate(c)
  <2>1. [NoMeta EXCEPT !.state = "empty", !.open = meta[Key(c)].open \cup {c}] \in Metas
    BY <1>0 DEF NoMeta, Metas, DiskTypeOK
  <2>2. meta' \in [Keys -> Metas]
    BY <1>0, <1>8, <2>1 DEF SaveCreate, TruncateMeta, DiskTypeOK
  <2>3. faults' \in 0..MaxFaults
    BY <1>8, FaultType DEF SaveCreate, DiskTypeOK
  <2>4. /\ pc' \in [Calls -> Running \cup {"idle", "done", "lost"}]
        /\ answer' \in [Calls -> {"none", "stored", "updated", "failed", "missing", "found"}]
    BY <1>8, GoToType, ReturnType DEF SaveCreate, Running, CallTypeOK
  <2> QED  BY <1>8, <2>2, <2>3, <2>4 DEF SaveCreate, DiskTypeOK, QueueTypeOK, CallTypeOK
<1>9. CASE SaveWrite(c)
  <2>1. meta' \in [Keys -> Metas]
    <3>1. save[c].expires \in Nat /\ save[c].md \in Calls \cup {NoCall}
      BY DEF CallTypeOK
    <3>2. CASE WriteMeta(Key(c), c, save[c].expires, save[c].md)
      BY <1>0, <3>1, <3>2, WriteMetaType DEF DiskTypeOK
    <3>3. CASE UnlinkMeta(Key(c))
      BY <1>0, <3>3 DEF UnlinkMeta, DiskTypeOK, NoMeta, Metas
    <3> QED  BY <1>9, <3>2, <3>3 DEF SaveWrite
  <2>2. faults' \in 0..MaxFaults
    BY <1>9, FaultType DEF SaveWrite, DiskTypeOK
  <2>3. /\ pc' \in [Calls -> Running \cup {"idle", "done", "lost"}]
        /\ answer' \in [Calls -> {"none", "stored", "updated", "failed", "missing", "found"}]
    BY <1>9, GoToType, ReturnType DEF SaveWrite, AfterSave, Running, CallTypeOK
  <2> QED  BY <1>9, <2>1, <2>2, <2>3 DEF SaveWrite, DiskTypeOK, QueueTypeOK, CallTypeOK
<1>10. CASE PutSend(c)
  <2>1. QueueTypeOK'
    BY <1>10, SendType DEF PutSend
  <2> QED  BY <1>10, <2>1, ReturnType DEF PutSend, DiskTypeOK, CallTypeOK
<1>11. CASE GetOpen(c)
  <2>1. got' \in [Calls -> Calls \cup {NoCall}]
    BY <1>0, <1>11 DEF GetOpen, CallTypeOK, DiskTypeOK
  <2>2. faults' \in 0..MaxFaults
    BY <1>11, FaultType DEF GetOpen, DiskTypeOK
  <2>3. /\ pc' \in [Calls -> Running \cup {"idle", "done", "lost"}]
        /\ answer' \in [Calls -> {"none", "stored", "updated", "failed", "missing", "found"}]
    BY <1>11, GoToType, ReturnType DEF GetOpen, Running, CallTypeOK
  <2> QED  BY <1>11, <2>1, <2>2, <2>3 DEF GetOpen, DiskTypeOK, QueueTypeOK, CallTypeOK
<1>12. CASE GetLoad(c)
  <2>1. faults' \in 0..MaxFaults
    BY <1>12, FaultType DEF GetLoad, DiskTypeOK
  <2> QED  BY <1>12, <2>1, ReturnType DEF GetLoad, DiskTypeOK, QueueTypeOK, CallTypeOK
<1> QED
  BY <1>1, <1>2, <1>3, <1>4, <1>5, <1>6, <1>7, <1>8, <1>9, <1>10, <1>11, <1>12 DEF CallStep

----------------------------------------------------------------------------
\* Expire starts on a list of cached keys, each listed once.
LEMMA StartExpireSafe ==
  ASSUME LoopTypeOK, now \in Nat, DOMAIN cache \subseteq Keys,
         NEW s \in SortedKeys(cache), StartExpire(s), UNCHANGED <<cache, victim>>
  PROVE  /\ todo' \in Seq(Keys) /\ deadline' \in Nat /\ loop' \in LoopStates
         /\ Expiring'
<1>1. /\ s \in Seq(Keys)
      /\ \A i \in 1..Len(s) : s[i] \in DOMAIN cache
      /\ \A i, j \in 1..Len(s) : i # j => s[i] # s[j]
  BY SortedKeysType
<1>2. todo' = s /\ deadline' = now /\ loop' = "expire"
  BY DEF StartExpire
<1> QED  BY <1>1, <1>2 DEF Expiring, LoopStates

\* What the rest of a list of keys inherits from the list.
LEMMA TailSafe ==
  ASSUME todo \in Seq(Keys), todo # <<>>, todo' = Tail(todo),
         \A i \in 1..Len(todo) : todo[i] \in DOMAIN cache,
         \A i, j \in 1..Len(todo) : i # j => todo[i] # todo[j]
  PROVE  /\ Head(todo) \in Keys /\ Head(todo) \in DOMAIN cache
         /\ todo' \in Seq(Keys)
         /\ \A i \in 1..Len(todo') : todo'[i] \in DOMAIN cache
         /\ \A i, j \in 1..Len(todo') : i # j => todo'[i] # todo'[j]
         /\ \A i \in 1..Len(todo') : todo'[i] # Head(todo)
<1>1. /\ Len(todo) \in Nat /\ Len(todo) >= 1 /\ Len(todo') = Len(todo) - 1
      /\ \A i \in 1..Len(todo') : todo'[i] = todo[i + 1]
  OBVIOUS
<1>2. Head(todo) = todo[1] /\ 1 \in 1..Len(todo)
  BY <1>1
<1>3. \A i \in 1..Len(todo') : i + 1 \in 1..Len(todo) /\ i + 1 # 1
  BY <1>1
<1>4. Head(todo) \in Keys /\ todo' \in Seq(Keys)
  OBVIOUS
<1> QED  BY <1>1, <1>2, <1>3, <1>4

\* What remains of the directory and of the size after an attempt to remove k.
LEMMA RemovalTypes ==
  ASSUME DiskTypeOK, currentSize \in Int, NEW k \in Keys,
         NEW from \in {"expire", "evictItems", "evictSize"},
         RemoveFile(k, from) \/ RemoveFails(k)
  PROVE  DiskTypeOK' /\ currentSize' \in Int /\ cache' = cache
<1>0. SizeAt(k) \in Nat
  BY SizeType
<1>1. currentSize' \in Int
  BY <1>0 DEF RemoveFile, RemoveFails
<1>2. faults' \in 0..MaxFaults
  BY FaultType DEF RemoveFile, RemoveFails, DiskTypeOK
<1>3. file' \in [Keys -> Calls \cup {NoCall}]
  BY DEF RemoveFile, RemoveFails, Unlink, DiskTypeOK
<1> QED  BY <1>1, <1>2, <1>3 DEF RemoveFile, RemoveFails, DiskTypeOK

\* The next wake-up is at a natural time.
LEMMA SleepType ==
  ASSUME now \in Nat, NEW t \in Nat \cup {-1}, Sleep(t)
  PROVE  wakeAt' \in Nat /\ loop' = "select"
BY BoundsNat DEF Sleep

\* Counting the size of an object, or failing to, keeps the types.
LEMMA CountType ==
  ASSUME DiskTypeOK, currentSize \in Int, NEW k \in Keys, Count(k)
  PROVE  currentSize' \in Int /\ faults' \in 0..MaxFaults
<1>1. SizeAt(k) \in Nat /\ faults \in 0..MaxFaults
  BY SizeType DEF DiskTypeOK
<1>2. currentSize' \in {currentSize, currentSize + SizeAt(k)}
  BY DEF Count
<1>3. faults' = faults \/ Fault
  BY DEF Count
<1> QED  BY <1>1, <1>2, <1>3, FaultType

\* A step of the loop keeps the types, and Expire within the cached keys.
LEMMA LoopTypes ==
  ASSUME DiskTypeOK, LoopTypeOK, QueueTypeOK, Expiring, now \in Nat, LoopStep
  PROVE  DiskTypeOK' /\ LoopTypeOK' /\ QueueTypeOK' /\ Expiring'
<1> USE DEF diskVars
<1>a. DOMAIN cache \subseteq Keys /\ (\A k \in DOMAIN cache : cache[k] \in Nat)
      /\ sorted \in Seq(Keys) /\ todo \in Seq(Keys) /\ victim \in Keys /\ currentSize \in Int
  BY DEF LoopTypeOK
<1>1. CASE ListFiles
  <2>1. faults' \in 0..MaxFaults
    BY <1>1, FaultType DEF ListFiles, DiskTypeOK
  <2>2. toScan' \subseteq Keys /\ loop' \in {"scan", "ended"}
    BY <1>1 DEF ListFiles, LoopTypeOK
  <2> QED  BY <1>1, <2>1, <2>2
           DEF ListFiles, DiskTypeOK, LoopTypeOK, QueueTypeOK, Expiring, LoopStates
<1>2. ASSUME NEW k \in Keys, ScanFile(k)
      PROVE  DiskTypeOK' /\ LoopTypeOK' /\ QueueTypeOK' /\ Expiring'
  <2>1. meta[k].expires \in Nat /\ SizeAt(k) \in Nat
    BY SizeType DEF DiskTypeOK, Metas
  <2>2. DOMAIN cache' \subseteq Keys /\ (\A j \in DOMAIN cache' : cache'[j] \in Nat)
    BY <1>2, <1>a, <2>1 DEF ScanFile, Cached
  <2>3. currentSize' \in Int /\ faults' \in 0..MaxFaults
    BY <1>2, <1>a, FaultType, CountType DEF ScanFile, DiskTypeOK
  <2> QED  BY <1>2, <2>2, <2>3 DEF ScanFile, DiskTypeOK, LoopTypeOK, QueueTypeOK, Expiring
<1>3. CASE EndScan
  <2>1. sorted' \in SortedKeys(cache) /\ StartExpire(sorted') /\ UNCHANGED <<cache, victim>>
    BY <1>3 DEF EndScan
  <2>2. sorted' \in Seq(Keys)
    BY <1>a, <2>1, SortedKeysType
  <2>3. todo' \in Seq(Keys) /\ deadline' \in Nat /\ loop' \in LoopStates /\ Expiring'
    BY <1>a, <2>1, StartExpireSafe
  <2> QED  BY <1>3, <2>2, <2>3 DEF EndScan, DiskTypeOK, LoopTypeOK, QueueTypeOK
<1>4. CASE ExpireKey
  <2>1. /\ loop = "expire" /\ todo # <<>> /\ todo' = Tail(todo) /\ nextTimestamp' = -1
        /\ RemoveFile(Head(todo), "expire") \/ RemoveFails(Head(todo))
        /\ UNCHANGED <<queue, sorted, toScan, deadline, wakeAt>>
    BY <1>4 DEF ExpireKey
  <2>2. /\ Head(todo) \in Keys
        /\ todo' \in Seq(Keys)
        /\ \A i \in 1..Len(todo') : todo'[i] \in DOMAIN cache
        /\ \A i, j \in 1..Len(todo') : i # j => todo'[i] # todo'[j]
        /\ \A i \in 1..Len(todo') : todo'[i] # Head(todo)
    BY <1>a, <2>1, TailSafe DEF Expiring
  <2>3. DiskTypeOK' /\ currentSize' \in Int /\ cache' = cache
    BY <1>a, <2>1, <2>2, RemovalTypes
  <2>4. \/ victim' = Head(todo) /\ back' = "expire" /\ loop' = "unlinkMeta"
        \/ UNCHANGED <<victim, back, loop>>
    BY <2>1 DEF RemoveFile, RemoveFails
  <2>5. LoopTypeOK'
    BY <2>1, <2>2, <2>3, <2>4 DEF LoopTypeOK, LoopStates
  <2>6. Expiring'
    BY <2>1, <2>2, <2>3, <2>4 DEF Expiring
  <2> QED  BY <2>1, <2>3, <2>5, <2>6 DEF QueueTypeOK
<1>5. CASE ExpireReturn
  <2>1. nextTimestamp' \in Nat \cup {-1}
    <3>1. CASE todo = <<>>  BY <1>5, <3>1 DEF ExpireReturn, LoopTypeOK
    <3>2. CASE todo # <<>>
      <4>1. Head(todo) \in DOMAIN cache
        BY <1>5, <1>a, <3>2 DEF ExpireReturn, Expiring
      <4> QED  BY <1>5, <1>a, <3>2, <4>1 DEF ExpireReturn
    <3> QED  BY <3>1, <3>2
  <2>2. wakeAt' \in Nat /\ loop' = "select"
    BY <1>5, <2>1, SleepType DEF ExpireReturn
  <2> QED
    BY <1>5, <2>1, <2>2
       DEF ExpireReturn, DiskTypeOK, LoopTypeOK, QueueTypeOK, Expiring, LoopStates
<1>6. CASE RemoveMetadata
  <2>0. NoMeta \in Metas
    BY DEF NoMeta, Metas
  <2>1. meta' \in [Keys -> Metas]
    BY <1>6, <1>a, <2>0 DEF RemoveMetadata, UnlinkMeta, DiskTypeOK
  <2>2. faults' \in 0..MaxFaults
    BY <1>6, FaultType DEF RemoveMetadata, DiskTypeOK
  <2>3. loop = "unlinkMeta" /\ loop' \in {"forget", back}
        /\ UNCHANGED <<file, whole, queue, cache, sorted, nextTimestamp, currentSize, toScan,
                       todo, deadline, victim, back, wakeAt>>
    BY <1>6 DEF RemoveMetadata
  <2>4. DiskTypeOK' /\ QueueTypeOK'
    BY <2>1, <2>2, <2>3 DEF DiskTypeOK, QueueTypeOK
  <2>5. LoopTypeOK'
    BY <2>3 DEF LoopTypeOK, LoopStates
  <2>6. Expiring'
    BY <2>3 DEF Expiring, LoopTypeOK
  <2> QED  BY <2>4, <2>5, <2>6
<1>7. CASE Forget
  <2>1. loop = "forget" /\ loop' = back
        /\ cache' = [k \in DOMAIN cache \ {victim} |-> cache[k]]
        /\ UNCHANGED <<queue, sorted, nextTimestamp, currentSize, toScan, todo, deadline,
                       victim, back, wakeAt>>
    BY <1>7 DEF Forget
  <2>2. LoopTypeOK'
    BY <1>a, <2>1 DEF LoopTypeOK, LoopStates
  <2>3. Expiring'
    BY <2>1 DEF Expiring, LoopTypeOK
  <2> QED  BY <1>7, <2>1, <2>2, <2>3 DEF Forget, DiskTypeOK, QueueTypeOK
<1>8. CASE WakeUp
  <2>1. sorted' \in SortedKeys(cache) /\ StartExpire(sorted') /\ UNCHANGED <<cache, victim>>
        /\ nextTimestamp' = GetNextTimestamp(cache, sorted')
    BY <1>8 DEF WakeUp
  <2>2. sorted' \in Seq(Keys) /\ nextTimestamp' \in Nat \cup {-1}
    BY <1>a, <2>1, SortedKeysType, NextTimestampType
  <2>3. todo' \in Seq(Keys) /\ deadline' \in Nat /\ loop' \in LoopStates /\ Expiring'
    BY <1>a, <2>1, StartExpireSafe
  <2> QED  BY <1>8, <2>2, <2>3 DEF WakeUp, DiskTypeOK, LoopTypeOK, QueueTypeOK
<1>9. CASE Add
  <2>1. Head(queue) \in Objects /\ queue' = Tail(queue) /\ queue # <<>>
    BY <1>9 DEF Add, QueueTypeOK
  <2>2. Head(queue).key \in Keys /\ Head(queue).expires \in Nat
    BY <2>1 DEF Objects
  <2>3. DOMAIN cache' \subseteq Keys /\ (\A j \in DOMAIN cache' : cache'[j] \in Nat)
    BY <1>9, <1>a, <2>2 DEF Add, Cached
  <2>4. currentSize' \in Int /\ faults' \in 0..MaxFaults
    BY <1>9, <1>a, <2>2, CountType DEF Add
  <2>5. sorted' \in Seq(Keys) /\ nextTimestamp' \in Nat \cup {-1}
    BY <1>9, <2>3, SortedKeysType, NextTimestampType DEF Add
  <2>6. QueueTypeOK'
    BY <2>1, LimitsNat DEF QueueTypeOK
  <2>7. LoopTypeOK'
    BY <1>9, <2>3, <2>4, <2>5, <2>6 DEF Add, LoopTypeOK, LoopStates, QueueTypeOK
  <2> QED  BY <1>9, <2>4, <2>6, <2>7 DEF Add, DiskTypeOK, Expiring
<1>10. ASSUME NEW from \in {"evictItems", "evictSize"}, loop = from, RemoveOldest(from)
       PROVE  DiskTypeOK' /\ LoopTypeOK' /\ QueueTypeOK' /\ Expiring'
  <2>1. /\ sorted # <<>>
        /\ RemoveFile(Last(sorted), from) \/ RemoveFails(Last(sorted))
        /\ sorted' = SubSeq(sorted, 1, IF Len(sorted) > 2 THEN Len(sorted) - 2 ELSE 0)
        /\ UNCHANGED <<queue, nextTimestamp, toScan, todo, deadline, wakeAt>>
    BY <1>10 DEF RemoveOldest
  <2>2. Last(sorted) \in Keys
    BY <1>a, <2>1 DEF Last
  <2>3. sorted' \in Seq(Keys)
    BY <1>a, <2>1
  <2>4. DiskTypeOK' /\ currentSize' \in Int /\ cache' = cache
    BY <1>a, <2>1, <2>2, RemovalTypes
  <2>5. \/ victim' = Last(sorted) /\ back' = from /\ loop' = "unlinkMeta"
        \/ UNCHANGED <<victim, back, loop>>
    BY <2>1 DEF RemoveFile, RemoveFails
  <2>6. LoopTypeOK'
    BY <2>1, <2>2, <2>3, <2>4, <2>5 DEF LoopTypeOK, LoopStates
  <2>7. Expiring'
    BY <1>10, <2>5 DEF Expiring
  <2> QED  BY <2>1, <2>4, <2>6, <2>7 DEF QueueTypeOK
<1>11. CASE Spin
  BY <1>11 DEF Spin, loopVars, DiskTypeOK, LoopTypeOK, QueueTypeOK, Expiring
<1>12. CASE EndEvictItems
  BY <1>12 DEF EndEvictItems, DiskTypeOK, LoopTypeOK, QueueTypeOK, Expiring, LoopStates
<1>13. CASE EndEvictSize
  <2>1. wakeAt' \in Nat /\ loop' = "select"
    BY <1>13, SleepType DEF EndEvictSize, LoopTypeOK
  <2> QED
    BY <1>13, <2>1
       DEF EndEvictSize, DiskTypeOK, LoopTypeOK, QueueTypeOK, Expiring, LoopStates
<1> QED
  BY <1>1, <1>2, <1>3, <1>4, <1>5, <1>6, <1>7, <1>8, <1>9, <1>10, <1>11, <1>12, <1>13
     DEF LoopStep, EvictItems, EvictSize

----------------------------------------------------------------------------
\* TypeOK, taken apart into the variables of the disk, of the loop, of the calls and the others.
LEMMA TypeParts ==
  TypeOK <=> /\ DiskTypeOK /\ LoopTypeOK /\ CallTypeOK
             /\ Len(queue) <= QueueCap /\ now \in 1..MaxTime /\ crashes \in 0..MaxCrashes
BY DEF TypeOK, CallTypeOK

\* The types and Expiring are inductive.
LEMMA StepTypes == TypeInv /\ [Next]_vars => TypeInv'
<1> SUFFICES ASSUME TypeInv, [Next]_vars PROVE TypeInv'
  OBVIOUS
<1> USE DEF callVars, diskVars, loopVars
<1>0. /\ DiskTypeOK /\ LoopTypeOK /\ CallTypeOK /\ QueueTypeOK /\ Expiring
      /\ now \in 1..MaxTime /\ crashes \in 0..MaxCrashes /\ now \in Nat
  BY TypeParts, LimitsNat DEF TypeInv, LoopTypeOK, QueueTypeOK
<1>1. ASSUME NEW c \in Calls, Request(c) PROVE TypeInv'
  <2>1. Start(c) \/ CallStep(c)
    BY <1>1 DEF Request
  <2>2. DiskTypeOK' /\ QueueTypeOK' /\ CallTypeOK'
    BY <1>0, <2>1, CallTypes
  <2>3. UNCHANGED <<now, loopVars, crashes>>
    BY <1>1 DEF Request
  <2>4. LoopTypeOK' /\ Expiring'
    BY <1>0, <2>2, <2>3 DEF LoopTypeOK, QueueTypeOK, Expiring
  <2> QED  BY <1>0, <2>2, <2>3, <2>4, TypeParts DEF TypeInv, QueueTypeOK, TypeOK, CallTypeOK
<1>2. CASE Loop
  <2>1. DiskTypeOK' /\ LoopTypeOK' /\ QueueTypeOK' /\ Expiring'
    BY <1>0, <1>2, LoopTypes DEF Loop
  <2>2. CallTypeOK' /\ UNCHANGED <<now, crashes>>
    BY <1>0, <1>2 DEF Loop, CallTypeOK
  <2> QED  BY <1>0, <2>1, <2>2 DEF TypeInv, TypeOK, CallTypeOK, QueueTypeOK
<1>3. CASE Tick
  <2>1. now' \in 1..MaxTime
    BY <1>0, <1>3, MaxTimeNat DEF Tick
  <2>2. UNCHANGED <<diskVars, queue, loopVars, callVars, crashes>>
    BY <1>3 DEF Tick
  <2>3. DiskTypeOK' /\ LoopTypeOK' /\ CallTypeOK' /\ QueueTypeOK' /\ Expiring'
    BY <1>0, <2>2 DEF DiskTypeOK, LoopTypeOK, CallTypeOK, QueueTypeOK, Expiring
  <2> QED  BY <1>0, <2>1, <2>2, <2>3 DEF TypeInv, TypeOK, CallTypeOK, QueueTypeOK
<1>4. CASE Crash
  <2>1. \A k \in Keys : [meta[k] EXCEPT !.open = {}] \in Metas
    BY <1>0 DEF DiskTypeOK, Metas
  <2>2. DiskTypeOK'
    BY <1>0, <1>4, <2>1 DEF Crash, DiskTypeOK
  <2>3. LoopTypeOK' /\ QueueTypeOK' /\ Expiring'
    BY <1>0, <1>4, LimitsNat DEF Crash, LoopTypeOK, LoopStates, QueueTypeOK, Expiring
  <2>4. CallTypeOK'
    BY <1>0, <1>4 DEF Crash, CallTypeOK
  <2>5. crashes' \in 0..MaxCrashes /\ now' = now
    BY <1>0, <1>4, LimitsNat DEF Crash
  <2> QED  BY <1>0, <2>2, <2>3, <2>4, <2>5 DEF TypeInv, TypeOK, CallTypeOK, QueueTypeOK
<1>5. CASE UNCHANGED vars
  BY <1>0, <1>5
     DEF vars, TypeInv, TypeOK, DiskTypeOK, LoopTypeOK, CallTypeOK, QueueTypeOK, Expiring
<1> QED  BY <1>1, <1>2, <1>3, <1>4, <1>5 DEF Next, Idle

\* The state of FileProvider keeps its types in every run, whatever fails or
\* crashes; in particular the channel add stays within its capacity and Expire
\* never looks up a key that is not in the cache.
THEOREM TypeCorrect == Spec => []TypeOK
<1>1. TypeInv => TypeOK
  BY DEF TypeInv
<1> QED  BY InitTypes, StepTypes, <1>1, PTL DEF Spec

----------------------------------------------------------------------------
\* A file appears by an exclusive create or disappears by an unlink.
NeverReplaced == \A k \in Keys : file'[k] \in {file[k], NoCall} \/ file[k] = NoCall

\* No step replaces an upload by another one.
LEMMA StepNeverReplaces == TypeInv /\ [Next]_vars => NeverReplaced \/ UNCHANGED vars
<1> SUFFICES ASSUME TypeInv, [Next]_vars PROVE NeverReplaced \/ UNCHANGED vars
  OBVIOUS
<1> USE DEF NeverReplaced, diskVars
<1>0. file \in [Keys -> Calls \cup {NoCall}]
  BY DEF TypeInv, TypeOK, DiskTypeOK
<1>1. ASSUME NEW c \in Calls, Request(c) PROVE NeverReplaced
  <2>1. CASE PutCreate(c)
    BY <1>0, <2>1 DEF PutCreate, CreateFile, Linked
  <2>2. CASE ~PutCreate(c)
    <3>1. UNCHANGED file
      BY <1>1, <2>2
         DEF Request, Start, CallStep, PutCheck, PutWrite, UpdateFind, UpdateAnnounce,
             UpdateLoad, SaveCreate, SaveWrite, PutSend, GetOpen, GetLoad
    <3> QED  BY <3>1
  <2> QED  BY <2>1, <2>2
<1>2. CASE Loop
  <2>1. ASSUME NEW k, NEW from, RemoveFile(k, from) \/ RemoveFails(k) PROVE NeverReplaced
    BY <1>0, <2>1 DEF RemoveFile, RemoveFails, Unlink
  <2>2. CASE ExpireKey
    BY <2>1, <2>2 DEF ExpireKey
  <2>3. CASE EvictItems \/ EvictSize
    BY <2>1, <2>3 DEF EvictItems, EvictSize, RemoveOldest, Spin
  <2>4. CASE ~(ExpireKey \/ EvictItems \/ EvictSize)
    <3>1. UNCHANGED file
      BY <1>2, <2>4
         DEF Loop, LoopStep, ListFiles, ScanFile, EndScan, ExpireReturn, RemoveMetadata,
             Forget, WakeUp, Add, EndEvictItems, EndEvictSize
    <3> QED  BY <3>1
  <2> QED  BY <2>2, <2>3, <2>4
<1>3. CASE Tick  BY <1>3 DEF Tick
<1>4. CASE Crash  BY <1>4 DEF Crash
<1> QED  BY <1>1, <1>2, <1>3, <1>4 DEF Next, Idle

\* Put, Update and the expiry loop never replace the upload linked under a key,
\* however many requests race for it and whatever fails or crashes.
THEOREM UploadsImmutable == Spec => Immutable
<1>1. TypeInv /\ [Next]_vars
      => [\A k \in Keys : file'[k] \in {file[k], NoCall} \/ file[k] = NoCall]_vars
  BY StepNeverReplaces DEF NeverReplaced
<1> QED  BY InitTypes, StepTypes, <1>1, PTL DEF Spec, Immutable

----------------------------------------------------------------------------
(***************************************************************************)
(* Why the expiry loop never removes an object early: every expiry that    *)
(* travels through the channel, the cache or the metadata on disk is one   *)
(* that some request for that very object asked for.                       *)
(***************************************************************************)

\* Some request asked for expiry e of key k.
Sourced(k, e) ==
  \E c \in Calls : /\ pc[c] # "idle"
                   /\ req[c].op \in {"POST", "PUT"}
                   /\ Key(c) = k
                   /\ req[c].expires = e

\* Where Put and Update are, as opposed to Get.
Storing == {"check", "create", "write", "find", "announce", "load", "truncate", "save",
            "enqueue"}

Requested ==
  \A c \in Calls :
    /\ pc[c] \in Storing => req[c].op \in {"POST", "PUT"}
    /\ pc[c] \in {"announce", "truncate", "save"} => save[c].expires = req[c].expires

CacheSourced == \A k \in DOMAIN cache : Sourced(k, cache[k])
QueueSourced == \A i \in 1..Len(queue) : Sourced(queue[i].key, queue[i].expires)
MetaSourced == \A k \in Keys : meta[k].state = "whole" => Sourced(k, meta[k].expires)

Traced == Requested /\ CacheSourced /\ QueueSourced /\ MetaSourced /\ deadline <= now

DueInv == TypeInv /\ Traced

----------------------------------------------------------------------------
\* In the beginning no expiry is known that was not asked for.
LEMMA InitTraced == Init => Traced
<1> SUFFICES ASSUME Init PROVE Traced
  OBVIOUS
<1> QED
  BY DEF Init, DiskInit, LoopInit, NoMeta, Traced, Requested, CacheSourced, QueueSourced,
         MetaSourced, Storing

\* A call only goes to places of its own method.
LEMMA StepRequested ==
  ASSUME DueInv, [Next]_vars
  PROVE  Requested'
<1> USE DEF DueInv, Traced, Requested, Storing, GoTo, Return, At, ToSave, callVars
<1>0. CallTypeOK
  BY TypeParts DEF TypeInv
<1>1. ASSUME NEW c \in Calls, Request(c) PROVE Requested'
  <2> USE DEF CallTypeOK
  <2>1. CASE Start(c)
    BY <1>0, <2>1, OperationsType DEF Start
  <2>2. CASE PutCheck(c) \/ PutCreate(c) \/ PutWrite(c)
    BY <1>0, <2>2 DEF PutCheck, PutCreate, PutWrite
  <2>3. CASE UpdateFind(c) \/ UpdateAnnounce(c) \/ UpdateLoad(c)
    BY <1>0, <2>3 DEF UpdateFind, UpdateAnnounce, UpdateLoad
  <2>4. CASE SaveCreate(c) \/ SaveWrite(c) \/ PutSend(c)
    BY <1>0, <2>4 DEF SaveCreate, SaveWrite, AfterSave, PutSend
  <2>5. CASE GetOpen(c) \/ GetLoad(c)
    BY <1>0, <2>5 DEF GetOpen, GetLoad
  <2> QED  BY <1>1, <2>1, <2>2, <2>3, <2>4, <2>5 DEF Request, CallStep
<1>2. CASE Loop  BY <1>2 DEF Loop
<1>3. CASE Tick  BY <1>3 DEF Tick
<1>4. CASE Crash  BY <1>0, <1>4 DEF Crash, CallTypeOK
<1>5. CASE UNCHANGED vars  BY <1>5 DEF vars
<1> QED  BY <1>1, <1>2, <1>3, <1>4, <1>5 DEF Next, Idle

\* What was asked for stays asked for: a call takes its key and its expiry once.
LEMMA SourcedStable ==
  ASSUME TypeInv, [Next]_vars, NEW k \in Keys, NEW e \in Nat, Sourced(k, e)
  PROVE  Sourced(k, e)'
<1> USE DEF GoTo, Return, At, callVars
<1>0. CallTypeOK
  BY TypeParts DEF TypeInv
<1>1. PICK d \in Calls : /\ pc[d] # "idle"
                         /\ req[d].op \in {"POST", "PUT"}
                         /\ Key(d) = k
                         /\ req[d].expires = e
  BY DEF Sourced
<1>2. pc'[d] # "idle" /\ req'[d] = req[d]
  <2>1. ASSUME NEW c \in Calls, Request(c) PROVE pc'[d] # "idle" /\ req'[d] = req[d]
    <3> USE DEF CallTypeOK
    <3>1. CASE Start(c)
      <4>1. c # d
        BY <1>1, <3>1 DEF Start
      <4> QED  BY <1>0, <1>1, <3>1, <4>1 DEF Start
    <3>2. CASE CallStep(c)
      <4>1. req' = req
        BY <3>2
           DEF CallStep, PutCheck, PutCreate, PutWrite, UpdateFind, UpdateAnnounce, UpdateLoad,
               SaveCreate, SaveWrite, PutSend, GetOpen, GetLoad
      <4>2. \E w \in Running \cup {"done"} : pc' = [pc EXCEPT ![c] = w]
        BY <3>2
           DEF CallStep, PutCheck, PutCreate, PutWrite, UpdateFind, UpdateAnnounce, UpdateLoad,
               SaveCreate, SaveWrite, AfterSave, PutSend, GetOpen, GetLoad, Running
      <4>3. "idle" \notin Running \cup {"done"}
        BY DEF Running
      <4> QED  BY <1>0, <1>1, <4>1, <4>2, <4>3
    <3> QED  BY <2>1, <3>1, <3>2 DEF Request
  <2>2. CASE Loop  BY <1>1, <2>2 DEF Loop
  <2>3. CASE Tick  BY <1>1, <2>3 DEF Tick
  <2>4. CASE Crash  BY <1>0, <1>1, <2>4 DEF Crash, CallTypeOK
  <2>5. CASE UNCHANGED vars  BY <1>1, <2>5 DEF vars
  <2> QED  BY <2>1, <2>2, <2>3, <2>4, <2>5 DEF Next, Idle
<1> QED  BY <1>1, <1>2 DEF Sourced, Key

\* The expiry of a call in one of the places of Put and Update is asked for.
LEMMA StoringSourced ==
  ASSUME Requested, NEW c \in Calls, pc[c] \in Storing
  PROVE  Sourced(Key(c), req[c].expires)
BY DEF Requested, Sourced, Storing

\* Each object of the channel was there before or was just sent by a call.
LEMMA QueueOrigin ==
  ASSUME QueueTypeOK, [Next]_vars, NEW i \in 1..Len(queue')
  PROVE  \/ \E j \in 1..Len(queue) : queue'[i] = queue[j]
         \/ \E c \in Calls : /\ pc[c] \in Storing
                             /\ queue'[i] = [key |-> Key(c), expires |-> req[c].expires]
<1> USE DEF QueueTypeOK
<1>1. CASE UNCHANGED queue  BY <1>1
<1>2. ASSUME NEW c \in Calls, Send(c), pc[c] \in Storing
      PROVE  \/ \E j \in 1..Len(queue) : queue'[i] = queue[j]
             \/ queue'[i] = [key |-> Key(c), expires |-> req[c].expires]
  BY <1>2 DEF Send
<1>3. CASE queue # <<>> /\ queue' = Tail(queue)
  <2>1. i + 1 \in 1..Len(queue) /\ queue'[i] = queue[i + 1]
    BY <1>3
  <2> QED  BY <2>1
<1>4. CASE queue' = <<>>  BY <1>4
<1>5. ASSUME NEW c \in Calls, Request(c) PROVE UNCHANGED queue \/ (Send(c) /\ pc[c] \in Storing)
  BY <1>5
     DEF Request, Start, CallStep, PutCheck, PutCreate, PutWrite, UpdateFind, UpdateAnnounce,
         UpdateLoad, SaveCreate, SaveWrite, PutSend, GetOpen, GetLoad, At, Storing
<1>6. CASE Loop
  <2>1. UNCHANGED queue \/ (queue # <<>> /\ queue' = Tail(queue))
    BY <1>6
       DEF Loop, LoopStep, ListFiles, ScanFile, EndScan, ExpireKey, ExpireReturn,
           RemoveMetadata, Forget, WakeUp, Add, EvictItems, EvictSize, RemoveOldest, Spin,
           EndEvictItems, EndEvictSize
  <2> QED  BY <2>1, <1>1, <1>3
<1> QED  BY <1>1, <1>2, <1>4, <1>5, <1>6 DEF Next, Tick, Crash, Idle, vars

\* Expiries enter the channel only from Put and Update.
LEMMA StepQueue ==
  ASSUME DueInv, [Next]_vars
  PROVE  QueueSourced'
<1> USE DEF DueInv, Traced
<1>0. QueueTypeOK /\ CallTypeOK /\ TypeInv
  BY TypeParts DEF TypeInv, LoopTypeOK, QueueTypeOK
<1>1. ASSUME NEW i \in 1..Len(queue'), NEW k, NEW e,
             k = queue'[i].key, e = queue'[i].expires
      PROVE  Sourced(k, e)'
  <2>1. CASE \E j \in 1..Len(queue) : queue'[i] = queue[j]
    <3>0. PICK j \in 1..Len(queue) : queue'[i] = queue[j]
      BY <2>1
    <3>1. queue[j] \in Objects /\ k = queue[j].key /\ e = queue[j].expires
      BY <1>0, <1>1, <3>0 DEF QueueTypeOK
    <3>2. Sourced(queue[j].key, queue[j].expires)
      BY DEF QueueSourced
    <3>3. k \in Keys /\ e \in Nat
      BY <3>1 DEF Objects
    <3>4. Sourced(k, e)
      BY <3>1, <3>2
    <3> QED  BY <1>0, <3>3, <3>4, SourcedStable
  <2>2. ASSUME NEW c \in Calls, pc[c] \in Storing,
               queue'[i] = [key |-> Key(c), expires |-> req[c].expires]
        PROVE  Sourced(k, e)'
    <3>1. k = Key(c) /\ e = req[c].expires
      BY <1>1, <2>2
    <3>2. k \in Keys /\ e \in Nat
      BY <1>0, <3>1 DEF CallTypeOK, Key
    <3>3. Sourced(k, e)
      BY <2>2, <3>1, StoringSourced
    <3> QED  BY <1>0, <3>2, <3>3, SourcedStable
  <2> QED  BY <1>0, <2>1, <2>2, QueueOrigin
<1> QED  BY <1>1 DEF QueueSourced, Sourced

\* The expiry of a cached object is the one it had, that of its metadata when
\* the directory is scanned, or that of the object taken from the channel.
LEMMA CacheOrigin ==
  ASSUME TypeInv, [Next]_vars, NEW k \in DOMAIN cache'
  PROVE  \/ k \in DOMAIN cache /\ cache'[k] = cache[k]
         \/ k \in Keys /\ Loadable(k) /\ cache'[k] = meta[k].expires
         \/ queue # <<>> /\ k = Head(queue).key /\ cache'[k] = Head(queue).expires
<1>1. CASE UNCHANGED cache  BY <1>1
<1>2. CASE cache' = [j \in {} |-> 0]  BY <1>2
<1>3. ASSUME NEW j \in Keys, ScanFile(j), Loadable(j)
      PROVE  \/ k \in DOMAIN cache /\ cache'[k] = cache[k]
             \/ k = j /\ cache'[k] = meta[j].expires
  BY <1>3 DEF ScanFile, Cached
<1>4. CASE Add  BY <1>4 DEF Add, Cached
<1>5. CASE Forget  BY <1>5 DEF Forget
<1>6. CASE Loop
  <2>1. \/ UNCHANGED cache \/ Add \/ Forget
        \/ \E j \in Keys : ScanFile(j) /\ Loadable(j)
    BY <1>6
       DEF Loop, LoopStep, ListFiles, ScanFile, EndScan, ExpireKey, ExpireReturn, RemoveFile,
           RemoveFails, RemoveMetadata, WakeUp, EvictItems, EvictSize, RemoveOldest, Spin,
           loopVars, EndEvictItems, EndEvictSize
  <2> QED  BY <2>1, <1>1, <1>3, <1>4, <1>5
<1>7. ASSUME NEW c \in Calls, Request(c) PROVE UNCHANGED cache
  BY <1>7 DEF Request, loopVars
<1> QED  BY <1>1, <1>2, <1>6, <1>7 DEF Next, Tick, Crash, Idle, vars, loopVars

\* Every step keeps the expiries of the cache among those asked for.
LEMMA StepCache ==
  ASSUME DueInv, [Next]_vars
  PROVE  CacheSourced'
<1> USE DEF DueInv, Traced
<1>0. LoopTypeOK /\ DiskTypeOK /\ TypeInv
  BY TypeParts DEF TypeInv
<1>1. ASSUME NEW k \in DOMAIN cache', NEW e, e = cache'[k]
      PROVE  Sourced(k, e)'
  <2>1. CASE k \in DOMAIN cache /\ cache'[k] = cache[k]
    <3>1. k \in Keys /\ e \in Nat /\ Sourced(k, e)
      BY <1>0, <1>1, <2>1 DEF LoopTypeOK, CacheSourced
    <3> QED  BY <1>0, <3>1, SourcedStable
  <2>2. CASE k \in Keys /\ Loadable(k) /\ cache'[k] = meta[k].expires
    <3>1. e \in Nat /\ Sourced(k, e)
      BY <1>0, <1>1, <2>2 DEF DiskTypeOK, Metas, Loadable, MetaSourced
    <3> QED  BY <1>0, <2>2, <3>1, SourcedStable
  <2>3. CASE queue # <<>> /\ k = Head(queue).key /\ cache'[k] = Head(queue).expires
    <3>1. Head(queue) = queue[1] /\ 1 \in 1..Len(queue) /\ queue[1] \in Objects
      BY <1>0, <2>3 DEF LoopTypeOK
    <3>2. k \in Keys /\ e \in Nat /\ Sourced(k, e)
      BY <1>1, <2>3, <3>1 DEF Objects, QueueSourced
    <3> QED  BY <1>0, <3>2, SourcedStable
  <2> QED  BY <1>0, <2>1, <2>2, <2>3, CacheOrigin
<1> QED  BY <1>1 DEF CacheSourced, Sourced

\* A whole metadata file is the one that was there or was just written by a
\* call, with the expiry of its request.
LEMMA MetaOrigin ==
  ASSUME TypeInv, Requested, [Next]_vars, NEW k \in Keys, meta'[k].state = "whole"
  PROVE  \/ meta[k].state = "whole" /\ meta'[k].expires = meta[k].expires
         \/ \E c \in Calls : /\ pc[c] \in Storing /\ Key(c) = k
                             /\ meta'[k].expires = req[c].expires
<1>0. meta \in [Keys -> Metas] /\ victim \in Keys
  BY DEF TypeInv, TypeOK, DiskTypeOK, LoopTypeOK
<1>1. CASE UNCHANGED meta  BY <1>1
<1>2. ASSUME NEW j \in Keys, UnlinkMeta(j)
      PROVE  meta[k].state = "whole" /\ meta'[k].expires = meta[k].expires
  BY <1>0, <1>2 DEF UnlinkMeta, NoMeta
<1>3. ASSUME NEW c \in Calls, TruncateMeta(Key(c), c)
      PROVE  meta[k].state = "whole" /\ meta'[k].expires = meta[k].expires
  BY <1>0, <1>3 DEF TruncateMeta, NoMeta
<1>4. ASSUME NEW c \in Calls, At(c, "save"), WriteMeta(Key(c), c, save[c].expires, save[c].md)
      PROVE  \/ meta[k].state = "whole" /\ meta'[k].expires = meta[k].expires
             \/ pc[c] \in Storing /\ Key(c) = k /\ meta'[k].expires = req[c].expires
  <2>1. save[c].expires = req[c].expires /\ pc[c] \in Storing
    BY <1>4 DEF At, Requested, Storing
  <2>2. CASE UNCHANGED meta  BY <2>2
  <2>3. ASSUME NEW new, meta' = [meta EXCEPT ![Key(c)] = new],
               new.state = "garbage" \/ new.expires = save[c].expires
        PROVE  \/ meta[k].state = "whole" /\ meta'[k].expires = meta[k].expires
               \/ pc[c] \in Storing /\ Key(c) = k /\ meta'[k].expires = req[c].expires
    BY <1>0, <2>1, <2>3
  <2>4. UNCHANGED meta
        \/ \E new : /\ meta' = [meta EXCEPT ![Key(c)] = new]
                    /\ new.state = "garbage" \/ new.expires = save[c].expires
    BY <1>4 DEF WriteMeta, NoMeta
  <2> QED  BY <2>2, <2>3, <2>4
<1>5. ASSUME NEW c \in Calls, Request(c)
      PROVE  \/ UNCHANGED meta
             \/ TruncateMeta(Key(c), c)
             \/ At(c, "save") /\ WriteMeta(Key(c), c, save[c].expires, save[c].md)
             \/ UnlinkMeta(Key(c))
  BY <1>5
     DEF Request, Start, CallStep, PutCheck, PutCreate, PutWrite, UpdateFind, UpdateAnnounce,
         UpdateLoad, SaveCreate, SaveWrite, PutSend, GetOpen, GetLoad, diskVars
<1>6. ASSUME NEW c \in Calls PROVE Key(c) \in Keys
  BY TypeParts DEF TypeInv, CallTypeOK, Key
<1>7. CASE Loop
  <2>1. UNCHANGED meta \/ UnlinkMeta(victim)
    BY <1>7
       DEF Loop, LoopStep, ListFiles, ScanFile, EndScan, ExpireKey, ExpireReturn, RemoveFile,
           RemoveFails, RemoveMetadata, Forget, WakeUp, Add, EvictItems, EvictSize,
           RemoveOldest, Spin, EndEvictItems, EndEvictSize, diskVars
  <2> QED  BY <2>1, <1>0, <1>1, <1>2
<1>8. CASE Crash
  <2>1. meta'[k] = [meta[k] EXCEPT !.open = {}] /\ meta[k] \in Metas
    BY <1>0, <1>8 DEF Crash
  <2> QED  BY <2>1 DEF Metas
<1> QED
  BY <1>1, <1>2, <1>3, <1>4, <1>5, <1>6, <1>7, <1>8 DEF Next, Tick, Idle, vars, diskVars

\* Every step keeps the expiries of the metadata files among those asked for.
LEMMA StepMeta ==
  ASSUME DueInv, [Next]_vars
  PROVE  MetaSourced'
<1> USE DEF DueInv, Traced
<1>0. DiskTypeOK /\ CallTypeOK /\ TypeInv
  BY TypeParts DEF TypeInv
<1>1. ASSUME NEW k \in Keys, meta'[k].state = "whole", NEW e, e = meta'[k].expires
      PROVE  Sourced(k, e)'
  <2>1. CASE meta[k].state = "whole" /\ meta'[k].expires = meta[k].expires
    <3>1. e \in Nat /\ Sourced(k, e)
      BY <1>0, <1>1, <2>1 DEF DiskTypeOK, Metas, MetaSourced
    <3> QED  BY <1>0, <3>1, SourcedStable
  <2>2. ASSUME NEW c \in Calls, pc[c] \in Storing, Key(c) = k,
               meta'[k].expires = req[c].expires
        PROVE  Sourced(k, e)'
    <3>1. e = req[c].expires
      BY <1>1, <2>2
    <3>2. e \in Nat
      BY <1>0, <3>1 DEF CallTypeOK
    <3>3. Sourced(k, e)
      BY <2>2, <3>1, StoringSourced
    <3> QED  BY <1>0, <3>2, <3>3, SourcedStable
  <2> QED  BY <1>0, <1>1, <2>1, <2>2, MetaOrigin
<1> QED  BY <1>1 DEF MetaSourced, Sourced

\* Expire compares with a time that has come.
LEMMA StepDeadline ==
  ASSUME DueInv, [Next]_vars
  PROVE  (deadline <= now)'
<1>0. now \in Nat /\ deadline \in Nat /\ deadline <= now
  BY LimitsNat, TypeParts DEF DueInv, Traced, TypeInv, LoopTypeOK
<1>1. CASE UNCHANGED <<deadline, now>>  BY <1>0, <1>1
<1>2. CASE deadline' = now /\ now' = now  BY <1>0, <1>2
<1>3. CASE Tick  BY <1>0, <1>3 DEF Tick, loopVars
<1>4. CASE Loop
  <2>1. UNCHANGED deadline \/ deadline' = now
    BY <1>4
       DEF Loop, LoopStep, ListFiles, ScanFile, EndScan, StartExpire, ExpireKey, ExpireReturn,
           RemoveMetadata, Forget, WakeUp, Add, EvictItems, EvictSize, RemoveOldest, Spin,
           loopVars, EndEvictItems, EndEvictSize
  <2> QED  BY <1>1, <1>2, <1>4, <2>1 DEF Loop
<1>5. ASSUME NEW c \in Calls, Request(c) PROVE UNCHANGED <<deadline, now>>
  BY <1>5 DEF Request, loopVars
<1> QED  BY <1>1, <1>3, <1>4, <1>5 DEF Next, Crash, Idle, vars, loopVars

\* The types and Traced are inductive.
LEMMA StepDueInv == DueInv /\ [Next]_vars => DueInv'
<1> SUFFICES ASSUME DueInv, [Next]_vars PROVE DueInv'
  OBVIOUS
<1>1. TypeInv'
  BY StepTypes DEF DueInv
<1> QED
  BY <1>1, StepRequested, StepCache, StepQueue, StepMeta, StepDeadline DEF DueInv, Traced

----------------------------------------------------------------------------
\* The action of RemovedWhenDue.
DueRemoval ==
  \A k \in Keys :
    Linked(k) /\ file'[k] = NoCall /\ back' = "expire"
    => \E c \in Calls : /\ pc[c] # "idle"
                        /\ req[c].op \in {"POST", "PUT"}
                        /\ Key(c) = k
                        /\ req[c].expires <= now

\* Files are unlinked by Remove only, and by Expire only when it is time.
LEMMA StepDue ==
  ASSUME DueInv, [Next]_vars
  PROVE  DueRemoval
<1> USE DEF DueRemoval
<1>0. TypeInv /\ file \in [Keys -> Calls \cup {NoCall}]
  BY DEF DueInv, TypeInv, TypeOK, DiskTypeOK
<1>1. CASE UNCHANGED file  BY <1>1 DEF Linked
<1>2. CASE ExpireKey
  <2> DEFINE h == Head(todo)
  <2>1. /\ h \in Keys /\ h \in DOMAIN cache
        /\ cache[h] <= deadline /\ cache[h] \in Nat /\ deadline \in Nat
    <3>1. todo \in Seq(Keys) /\ todo # <<>> /\ loop = "expire" /\ cache[h] <= deadline
      BY <1>0, <1>2 DEF ExpireKey, TypeInv, TypeOK, LoopTypeOK
    <3>2. h = todo[1] /\ 1 \in 1..Len(todo)
      BY <3>1
    <3>3. h \in Keys /\ h \in DOMAIN cache
      BY <1>0, <3>1, <3>2 DEF TypeInv, Expiring
    <3> QED  BY <1>0, <3>1, <3>3 DEF TypeInv, TypeOK, LoopTypeOK
  <2>2. Sourced(h, cache[h]) /\ deadline <= now /\ now \in Nat
    BY <1>0, <2>1, LimitsNat, TypeParts DEF DueInv, Traced, CacheSourced, TypeInv
  <2>3. UNCHANGED file \/ file' = [file EXCEPT ![h] = NoCall]
    BY <1>2 DEF ExpireKey, RemoveFile, RemoveFails, Unlink
  <2>4. \A k \in Keys : Linked(k) /\ file'[k] = NoCall => k = h
    BY <1>0, <2>3 DEF Linked
  <2>5. PICK c \in Calls : /\ pc[c] # "idle" /\ req[c].op \in {"POST", "PUT"}
                           /\ Key(c) = h /\ req[c].expires = cache[h]
    BY <2>2 DEF Sourced
  <2>6. req[c].expires <= now
    BY <2>1, <2>2, <2>5
  <2> QED  BY <2>4, <2>5, <2>6
<1>3. CASE EvictItems \/ EvictSize
  <2>1. UNCHANGED file \/ back' \in {"evictItems", "evictSize"}
    BY <1>3 DEF EvictItems, EvictSize, RemoveOldest, RemoveFile, RemoveFails, Spin, diskVars
  <2> QED  BY <2>1, <1>1
<1>4. ASSUME NEW c \in Calls, Request(c)
      PROVE  UNCHANGED file \/ file' = [file EXCEPT ![Key(c)] = c]
  BY <1>4
     DEF Request, Start, CallStep, PutCheck, PutCreate, CreateFile, PutWrite, UpdateFind,
         UpdateAnnounce, UpdateLoad, SaveCreate, SaveWrite, PutSend, GetOpen, GetLoad, diskVars
<1>5. CASE \E c \in Calls : Request(c)
  BY <1>0, <1>4, <1>5, NoCallNew DEF Linked
<1>6. CASE Loop
  <2>1. UNCHANGED file \/ ExpireKey \/ EvictItems \/ EvictSize
    BY <1>6
       DEF Loop, LoopStep, ListFiles, ScanFile, EndScan, ExpireReturn, RemoveMetadata, Forget,
           WakeUp, Add, EndEvictItems, EndEvictSize, diskVars
  <2> QED  BY <2>1, <1>1, <1>2, <1>3
<1> QED  BY <1>1, <1>5, <1>6 DEF Next, Tick, Crash, Idle, vars, diskVars

\* The expiry loop unlinks an object at or after an expiry that some request
\* asked for it, in every interleaving and after any crash or fault.
THEOREM NeverEarly == Spec => RemovedWhenDue
<1>1. Init => DueInv
  BY InitTypes, InitTraced DEF DueInv
<1>2. DueInv /\ [Next]_vars
      => [\A k \in Keys :
            Linked(k) /\ file'[k] = NoCall /\ back' = "expire"
            => \E c \in Calls : /\ pc[c] # "idle"
                                /\ req[c].op \in {"POST", "PUT"}
                                /\ Key(c) = k
                                /\ req[c].expires <= now]_vars
  BY StepDue DEF DueRemoval
<1> QED  BY <1>1, <1>2, StepDueInv, PTL DEF Spec, RemovedWhenDue
----------------------------------------------------------------------------
(***************************************************************************)
(* What holds while no system call has failed and the process has not      *)
(* crashed: every file is known to the loop or on its way to it, the loop  *)
(* wakes in time for each object it has cached, and the number of files    *)
(* settles below maxitems.                                                 *)
(***************************************************************************)
Quiet == crashes = 0 /\ faults = 0

\* The loop will hear of the file of k, if there is one.
Pending(k) == Linked(k) => InFlight(k) \/ Queued(k)

Removing == loop \in {"unlinkMeta", "forget"}

\* The loop is in this phase, perhaps removing an object on behalf of it.
Phase(what) == loop = what \/ (Removing /\ back = what)
Evicting == Phase("evictItems") \/ Phase("evictSize")

Listed(k) == \E i \in 1..Len(todo) : todo[i] = k

\* The loop has k cached, and its current phase will not sleep past its expiry.
Watched(k) ==
  /\ loop \notin {"start", "scan"}
  /\ k \in DOMAIN cache
  /\ Phase("expire") => Listed(k)
  /\ loop = "select" => wakeAt <= cache[k]
  /\ Evicting => nextTimestamp <= cache[k]

\* Expire goes through its keys in the order in which they expire.
Ordered ==
  Phase("expire") => \A i, j \in 1..Len(todo) : i < j => cache[todo[i]] <= cache[todo[j]]

\* The cache exceeds maxitems only before its first eviction, when all its
\* objects are still to be announced, or while that eviction goes on.
Bounded ==
  MaxItems > 0 => \/ Phase("evictItems")
                  \/ Cardinality(DOMAIN cache) < MaxItems
                  \/ \A k \in Keys : Pending(k)

Tracked ==
  /\ \A k \in Keys : Pending(k) \/ Watched(k)
  /\ Removing => Pending(victim)
  /\ Ordered
  /\ Evicting => nextTimestamp > 0
  /\ Bounded

\* The upload linked under a key is that of a POST for the key that is past its
\* exclusive create, and that will send its object once its metadata is saved.
Created ==
  \A k \in Keys, c \in Calls :
    file[k] = c =>
      /\ Key(c) = k
      /\ pc[c] \in {"write", "truncate", "save", "enqueue", "done", "lost"}
      /\ pc[c] \in {"truncate", "save"} => save[c].created

\* Time starts at 1, so no expiry is 0, which NextSleepDuration would ignore.
Dated == \A c \in Calls : pc[c] # "idle" => req[c].expires >= 1

TrackInv == DueInv /\ Created /\ Dated /\ (Quiet => Tracked)

----------------------------------------------------------------------------
\* The initial state has nothing to track.
LEMMA InitTracked == Init => Created /\ Dated /\ Tracked
<1> SUFFICES ASSUME Init PROVE Created /\ Dated /\ Tracked
  OBVIOUS
<1> USE DEF Init, DiskInit, LoopInit
<1>1. Created
  BY NoCallNew DEF Created
<1>2. Dated
  BY DEF Dated
<1>3. \A k \in Keys : Pending(k)
  BY DEF Pending, Linked
<1> QED  BY <1>1, <1>2, <1>3 DEF Tracked, Removing, Phase, Evicting, Ordered, Bounded

\* Which files a step links or unlinks.
LEMMA FileChanges ==
  ASSUME TypeInv, [Next]_vars, NEW k \in Keys, file'[k] # file[k]
  PROVE  \/ file'[k] = NoCall
         \/ \E c \in Calls : /\ file[k] = NoCall /\ file'[k] = c /\ Key(c) = k
                             /\ pc[c] = "create" /\ pc' = [pc EXCEPT ![c] = "write"]
                             /\ UNCHANGED <<req, save>>
<1>0. file \in [Keys -> Calls \cup {NoCall}]
  BY DEF TypeInv, TypeOK, DiskTypeOK
<1>1. ASSUME NEW c \in Calls, Request(c)
      PROVE  /\ file' = [file EXCEPT ![Key(c)] = c] /\ ~Linked(Key(c))
             /\ pc[c] = "create" /\ pc' = [pc EXCEPT ![c] = "write"]
             /\ UNCHANGED <<req, save>>
  <2>1. ~UNCHANGED file
    OBVIOUS
  <2> QED
    BY <1>1, <2>1
       DEF Request, Start, CallStep, PutCheck, PutCreate, CreateFile, PutWrite, UpdateFind,
           UpdateAnnounce, UpdateLoad, SaveCreate, SaveWrite, PutSend, GetOpen, GetLoad,
           diskVars, At, GoTo
<1>2. CASE \E c \in Calls : Request(c)
  <2>1. PICK c \in Calls : Request(c)
    BY <1>2
  <2>2. file' = [file EXCEPT ![Key(c)] = c] /\ ~Linked(Key(c))
    BY <1>1, <2>1
  <2>3. Key(c) = k /\ file[k] = NoCall /\ file'[k] = c
    BY <1>0, <2>2 DEF Linked
  <2> QED  BY <1>1, <2>1, <2>3
<1>3. CASE Loop
  <2>1. UNCHANGED file \/ \E h : file' = [file EXCEPT ![h] = NoCall]
    BY <1>3
       DEF Loop, LoopStep, ListFiles, ScanFile, EndScan, ExpireKey, ExpireReturn,
           RemoveMetadata, Forget, WakeUp, Add, EvictItems, EvictSize, RemoveOldest, Spin,
           EndEvictItems, EndEvictSize, RemoveFile, RemoveFails, Unlink, diskVars
  <2> QED  BY <1>0, <2>1
<1> QED  BY <1>2, <1>3 DEF Next, Tick, Crash, Idle, vars, diskVars

\* A call at one of the places after the exclusive create goes on to the next.
LEMMA StepCreated ==
  ASSUME TypeInv, Created, [Next]_vars
  PROVE  Created'
<1>0. CallTypeOK
  BY TypeParts DEF TypeInv
<1>1. SUFFICES ASSUME NEW k \in Keys, NEW c \in Calls, file'[k] = c
               PROVE  /\ Key(c)' = k
                      /\ pc'[c] \in {"write", "truncate", "save", "enqueue", "done", "lost"}
                      /\ pc'[c] \in {"truncate", "save"} => save'[c].created
  BY DEF Created
<1>2. CASE file'[k] # file[k]
  <2>1. PICK d \in Calls : /\ file'[k] = d /\ Key(d) = k
                           /\ pc' = [pc EXCEPT ![d] = "write"]
                           /\ UNCHANGED <<req, save>>
    BY <1>1, <1>2, FileChanges, NoCallNew
  <2> QED  BY <1>0, <1>1, <2>1 DEF CallTypeOK, Key
<1>3. CASE file'[k] = file[k]
  <2>1. /\ Key(c) = k
        /\ pc[c] \in {"write", "truncate", "save", "enqueue", "done", "lost"}
        /\ pc[c] \in {"truncate", "save"} => save[c].created
    BY <1>1, <1>3 DEF Created
  <2> USE DEF GoTo, Return, At, ToSave, callVars, CallTypeOK, Key
  <2>2. ASSUME NEW d \in Calls, Request(d)
        PROVE  /\ req'[c] = req[c]
               /\ pc'[c] \in {"write", "truncate", "save", "enqueue", "done", "lost"}
               /\ pc'[c] \in {"truncate", "save"} => save'[c].created
    <3>1. CASE Start(d)
      BY <1>0, <2>1, <3>1 DEF Start
    <3>2. CASE PutCheck(d) \/ PutCreate(d) \/ PutWrite(d)
      BY <1>0, <2>1, <3>2 DEF PutCheck, PutCreate, PutWrite
    <3>3. CASE UpdateFind(d) \/ UpdateAnnounce(d) \/ UpdateLoad(d)
      BY <1>0, <2>1, <3>3 DEF UpdateFind, UpdateAnnounce, UpdateLoad
    <3>4. CASE SaveCreate(d) \/ SaveWrite(d) \/ PutSend(d)
      BY <1>0, <2>1, <3>4 DEF SaveCreate, SaveWrite, AfterSave, PutSend
    <3>5. CASE GetOpen(d) \/ GetLoad(d)
      BY <1>0, <2>1, <3>5 DEF GetOpen, GetLoad
    <3> QED  BY <2>2, <3>1, <3>2, <3>3, <3>4, <3>5 DEF Request, CallStep
  <2>3. CASE Crash
    BY <1>0, <2>1, <2>3 DEF Crash, Running
  <2> QED  BY <2>1, <2>2, <2>3 DEF Next, Loop, Tick, Idle, vars
<1> QED  BY <1>2, <1>3

\* Expiries are computed from the clock, which is past 0.
LEMMA StepDated ==
  ASSUME TypeInv, Dated, [Next]_vars
  PROVE  Dated'
<1> USE DEF Dated
<1>0. CallTypeOK /\ now \in Nat /\ now >= 1
  BY TypeParts, LimitsNat DEF TypeInv
<1>1. ASSUME NEW c \in Calls, Request(c) PROVE Dated'
  <2>1. CASE Start(c)
    <3>1. PICK lifespan \in Lifespans : req'[c].expires = now + lifespan
      BY <1>0, <2>1 DEF Start, CallTypeOK
    <3>2. req'[c].expires >= 1
      BY <1>0, <3>1, LifespansNat
    <3>3. \A d \in Calls \ {c} : req'[d] = req[d] /\ pc'[d] = pc[d]
      BY <1>0, <2>1 DEF Start, GoTo, CallTypeOK
    <3> QED  BY <3>2, <3>3
  <2>2. CASE CallStep(c)
    <3>1. req' = req /\ pc[c] # "idle"
      BY <2>2
         DEF CallStep, PutCheck, PutCreate, PutWrite, UpdateFind, UpdateAnnounce, UpdateLoad,
             SaveCreate, SaveWrite, PutSend, GetOpen, GetLoad, At
    <3>2. \A d \in Calls \ {c} : pc'[d] = pc[d]
      BY <1>0, <2>2
         DEF CallStep, PutCheck, PutCreate, PutWrite, UpdateFind, UpdateAnnounce, UpdateLoad,
             SaveCreate, SaveWrite, AfterSave, PutSend, GetOpen, GetLoad, GoTo, Return,
             CallTypeOK
    <3> QED  BY <3>1, <3>2
  <2> QED  BY <1>1, <2>1, <2>2 DEF Request
<1>2. CASE Crash
  BY <1>0, <1>2 DEF Crash, CallTypeOK, Running
<1> QED  BY <1>1, <1>2 DEF Next, Loop, Tick, Idle, vars, callVars

\* No object of the cache or of the channel expires at 0.
LEMMA CacheDated ==
  ASSUME DueInv, Dated
  PROVE  /\ \A k \in DOMAIN cache : cache[k] \in Nat /\ cache[k] >= 1
         /\ \A i \in 1..Len(queue) : queue[i].expires \in Nat /\ queue[i].expires >= 1
<1>1. ASSUME NEW k, NEW e, Sourced(k, e) PROVE e \in Nat /\ e >= 1
  <2>1. PICK c \in Calls : pc[c] # "idle" /\ req[c].expires = e
    BY <1>1 DEF Sourced
  <2> QED  BY <2>1, TypeParts DEF Dated, DueInv, TypeInv, CallTypeOK
<1> QED  BY <1>1 DEF DueInv, Traced, CacheSourced, QueueSourced

\* When nothing has failed after a step, nothing did in it.
LEMMA FaultStep ==
  ASSUME TypeInv, [Next]_vars, faults' = 0
  PROVE  faults = 0 /\ ~Fault
<1>0. faults \in Nat
  BY DEF TypeInv, TypeOK, DiskTypeOK
<1>1. ~Fault
  BY <1>0 DEF Fault
<1>2. ASSUME NEW c \in Calls, Request(c) PROVE UNCHANGED faults
  BY <1>1, <1>2
     DEF Request, Start, CallStep, PutCheck, PutCreate, PutWrite, UpdateFind, UpdateAnnounce,
         UpdateLoad, SaveCreate, SaveWrite, PutSend, GetOpen, GetLoad, diskVars
<1>3. CASE Loop
  <2>1. UNCHANGED faults
    BY <1>1, <1>3
       DEF Loop, LoopStep, ListFiles, ScanFile, EndScan, ExpireKey, ExpireReturn,
           RemoveMetadata, Forget, WakeUp, Add, EvictItems, EvictSize, RemoveOldest, Spin,
           EndEvictItems, EndEvictSize, RemoveFile, RemoveFails, Count, diskVars
  <2> QED  BY <1>1, <2>1
<1> QED  BY <1>1, <1>2, <1>3 DEF Next, Tick, Crash, Idle, vars, diskVars

\* When nothing has failed or crashed after a step, nothing did in it.
LEMMA QuietStep ==
  ASSUME TypeInv, [Next]_vars, Quiet'
  PROVE  Quiet /\ ~Fault /\ ~Crash
<1>0. crashes \in Nat
  BY DEF TypeInv, TypeOK
<1>1. faults = 0 /\ ~Fault
  BY FaultStep DEF Quiet
<1>2. ~Crash
  BY <1>0 DEF Crash, Quiet
<1> QED  BY <1>1, <1>2 DEF Next, Request, Loop, Tick, Idle, vars, Quiet

----------------------------------------------------------------------------
\* An object of the channel stays there until the loop takes it.
LEMMA QueuedKept ==
  ASSUME TypeInv, [Next]_vars, ~Crash, NEW k \in Keys, Queued(k)
  PROVE  Queued(k)' \/ (Add /\ Head(queue).key = k)
<1>0. QueueTypeOK
  BY DEF TypeInv, TypeOK, LoopTypeOK, QueueTypeOK
<1>1. PICK i \in 1..Len(queue) : queue[i].key = k
  BY <1>0 DEF Queued, QueueTypeOK
<1>2. CASE UNCHANGED queue
  BY <1>2 DEF Queued
<1>3. ASSUME NEW c \in Calls, Send(c) PROVE Queued(k)'
  <2>1. i \in DOMAIN queue' /\ queue'[i] = queue[i]
    BY <1>0, <1>3 DEF Send, QueueTypeOK
  <2> QED  BY <1>1, <2>1 DEF Queued
<1>4. CASE queue # <<>> /\ queue' = Tail(queue) /\ Add
  <2>1. CASE i = 1
    BY <1>0, <1>1, <1>4, <2>1 DEF QueueTypeOK
  <2>2. CASE i # 1
    <3>1. i - 1 \in DOMAIN queue' /\ queue'[i - 1] = queue[i]
      BY <1>0, <1>4, <2>2 DEF QueueTypeOK
    <3> QED  BY <1>1, <3>1 DEF Queued
  <2> QED  BY <2>1, <2>2
<1>5. ASSUME NEW c \in Calls, Request(c) PROVE UNCHANGED queue \/ Send(c)
  BY <1>5
     DEF Request, Start, CallStep, PutCheck, PutCreate, PutWrite, UpdateFind, UpdateAnnounce,
         UpdateLoad, SaveCreate, SaveWrite, PutSend, GetOpen, GetLoad
<1>6. CASE Loop
  <2>1. UNCHANGED queue \/ (queue # <<>> /\ queue' = Tail(queue) /\ Add)
    BY <1>6
       DEF Loop, LoopStep, ListFiles, ScanFile, EndScan, ExpireKey, ExpireReturn,
           RemoveMetadata, Forget, WakeUp, Add, EvictItems, EvictSize, RemoveOldest, Spin,
           EndEvictItems, EndEvictSize
  <2> QED  BY <1>2, <1>4, <2>1
<1> QED  BY <1>2, <1>3, <1>5, <1>6 DEF Next, Tick, Idle, vars

\* The call that uploads an object stays in flight until it has sent the object.
LEMMA InFlightKept ==
  ASSUME TypeInv, Created, [Next]_vars, ~Fault, ~Crash, NEW k \in Keys, InFlight(k),
         file'[k] = file[k]
  PROVE  InFlight(k)' \/ Queued(k)'
<1>0. CallTypeOK /\ QueueTypeOK
  BY TypeParts DEF TypeInv, LoopTypeOK, QueueTypeOK
<1>1. PICK c \in Calls : file[k] = c /\ pc[c] \in {"write", "truncate", "save", "enqueue"}
  BY DEF InFlight
<1>2. Key(c) = k /\ (pc[c] \in {"truncate", "save"} => save[c].created)
  BY <1>1 DEF Created
<1> USE DEF GoTo, Return, At, CallTypeOK
<1>3. ASSUME NEW d \in Calls, d # c, Request(d) PROVE pc'[c] = pc[c]
  BY <1>0, <1>3
     DEF Request, Start, CallStep, PutCheck, PutCreate, PutWrite, UpdateFind, UpdateAnnounce,
         UpdateLoad, SaveCreate, SaveWrite, AfterSave, PutSend, GetOpen, GetLoad
<1>4. ASSUME Request(c)
      PROVE  \/ pc'[c] \in {"write", "truncate", "save", "enqueue"}
             \/ Send(c)
  <2>1. CASE PutWrite(c)  BY <1>0, <2>1 DEF PutWrite
  <2>2. CASE SaveCreate(c)  BY <1>0, <2>2 DEF SaveCreate
  <2>3. CASE SaveWrite(c)
    BY <1>0, <1>1, <1>2, <2>3 DEF SaveWrite, AfterSave
  <2>4. CASE PutSend(c)  BY <2>4 DEF PutSend
  <2> QED
    BY <1>1, <1>4, <2>1, <2>2, <2>3, <2>4
       DEF Request, Start, CallStep, PutCheck, PutCreate, UpdateFind, UpdateAnnounce,
           UpdateLoad, GetOpen, GetLoad
<1>5. ASSUME Send(c) PROVE Queued(k)'
  <2>1. Len(queue) + 1 \in DOMAIN queue' /\ queue'[Len(queue) + 1].key = k
    BY <1>0, <1>2, <1>5 DEF Send, QueueTypeOK
  <2> QED  BY <2>1 DEF Queued
<1>6. pc'[c] \in {"write", "truncate", "save", "enqueue"} => InFlight(k)'
  BY <1>1 DEF InFlight
<1> QED
  BY <1>1, <1>3, <1>4, <1>5, <1>6 DEF Next, Loop, Tick, Idle, vars, callVars

\* Once the loop will hear of a file, it will until it takes the object of it.
LEMMA PendingKept ==
  ASSUME TypeInv, Created, [Next]_vars, ~Fault, ~Crash, NEW k \in Keys, Pending(k)
  PROVE  Pending(k)' \/ (Add /\ Head(queue).key = k)
<1>1. CASE file'[k] # file[k]
  <2>1. CASE file'[k] = NoCall
    BY <2>1 DEF Pending, Linked
  <2>2. ASSUME NEW c \in Calls, file'[k] = c, pc[c] = "create", pc' = [pc EXCEPT ![c] = "write"]
        PROVE  Pending(k)'
    <3>1. pc'[c] = "write"
      BY <2>2, TypeParts DEF TypeInv, CallTypeOK
    <3> QED  BY <2>2, <3>1 DEF Pending, InFlight
  <2> QED  BY <1>1, <2>1, <2>2, FileChanges
<1>2. CASE file'[k] = file[k] /\ Linked(k)
  BY <1>2, QueuedKept, InFlightKept DEF Pending
<1>3. CASE file'[k] = file[k] /\ ~Linked(k)
  BY <1>3 DEF Pending, Linked
<1> QED  BY <1>1, <1>2, <1>3

----------------------------------------------------------------------------
\* A list of sorted keys holds every key of the cache, in order of expiry.
LEMMA SortedKeysComplete ==
  ASSUME NEW c, DOMAIN c \subseteq Keys, NEW s \in SortedKeys(c)
  PROVE  /\ \A k \in DOMAIN c : \E i \in 1..Len(s) : s[i] = k
         /\ \A i, j \in 1..Len(s) : i < j => c[s[i]] <= c[s[j]]
<1> DEFINE n == Cardinality(DOMAIN c)
<1>1. IsFiniteSet(DOMAIN c) /\ n \in Nat
  BY KeysFinite, FS_Subset, FS_CardinalityType
<1>2. /\ s \in [1..n -> DOMAIN c]
      /\ \A i, j \in 1..n : i # j => s[i] # s[j]
      /\ \A i, j \in 1..n : i < j => c[s[i]] <= c[s[j]]
  BY DEF SortedKeys, SetToSeqs
<1>3. Len(s) = n
  BY <1>1, <1>2
<1>4. ASSUME NEW k \in DOMAIN c, \A i \in 1..n : s[i] # k
      PROVE  FALSE
  <2> DEFINE Places == 1..n
             Others == DOMAIN c \ {k}
  <2>1. s \in [Places -> Others]
    BY <1>2, <1>4
  <2>2. IsFiniteSet(Others) /\ Cardinality(Others) = n - 1
    BY <1>1, FS_RemoveElement
  <2>3. IsFiniteSet(Places) /\ Cardinality(Places) = n
    BY <1>1, FS_Interval
  <2>4. Cardinality(Others) < Cardinality(Places)
    BY <1>1, <2>2, <2>3
  <2>5. \A i, j \in Places : i # j => s[i] # s[j]
    BY <1>2
  <2> HIDE DEF Places, Others
  <2>6. \E i, j \in Places : i # j /\ s[i] = s[j]
    BY <2>1, <2>2, <2>3, <2>4, FS_PigeonHole
  <2> QED  BY <2>5, <2>6
<1> QED  BY <1>2, <1>3, <1>4

\* The next expiry is the least one of the cache.
LEMMA NextIsLeast ==
  ASSUME NEW c, DOMAIN c \subseteq Keys, \A k \in DOMAIN c : c[k] \in Nat /\ c[k] >= 1,
         NEW s \in SortedKeys(c)
  PROVE  /\ \A k \in DOMAIN c : GetNextTimestamp(c, s) <= c[k]
         /\ DOMAIN c # {} => GetNextTimestamp(c, s) > 0
<1>1. s \in Seq(Keys) /\ \A i \in 1..Len(s) : s[i] \in DOMAIN c
  BY SortedKeysType
<1>2. /\ \A k \in DOMAIN c : \E i \in 1..Len(s) : s[i] = k
      /\ \A i, j \in 1..Len(s) : i < j => c[s[i]] <= c[s[j]]
  BY SortedKeysComplete
<1>3. CASE DOMAIN c = {}  BY <1>3
<1>4. CASE DOMAIN c # {}
  <2>1. s # <<>> /\ 1 \in 1..Len(s) /\ GetNextTimestamp(c, s) = c[s[1]]
    <3>1. PICK k \in DOMAIN c : TRUE
      BY <1>4
    <3>2. PICK i \in 1..Len(s) : s[i] = k
      BY <1>2
    <3>3. Len(s) \in Nat /\ Len(s) >= 1
      BY <1>1, <3>2
    <3> QED  BY <1>1, <3>3 DEF GetNextTimestamp
  <2>2. c[s[1]] \in Nat /\ c[s[1]] >= 1
    BY <1>1, <2>1
  <2>3. ASSUME NEW k \in DOMAIN c PROVE c[s[1]] <= c[k]
    <3>1. PICK i \in 1..Len(s) : s[i] = k
      BY <1>2
    <3>2. CASE i = 1  BY <2>2, <3>1, <3>2
    <3>3. CASE i # 1
      <4>1. 1 < i
        BY <1>1, <3>3
      <4> QED  BY <1>2, <2>1, <3>1, <4>1
    <3> QED  BY <3>2, <3>3
  <2> QED  BY <2>1, <2>2, <2>3
<1> QED  BY <1>3, <1>4

\* A step that leaves the loop where it is keeps what the loop tracks.
LEMMA TrackedElsewhere ==
  ASSUME Tracked, UNCHANGED loopVars,
         \A k \in Keys : Pending(k) => Pending(k)',
         victim \in Keys
  PROVE  Tracked'
BY DEF Tracked, loopVars, Watched, Removing, Phase, Evicting, Listed, Ordered, Bounded

\* Expire starts with every cached object on its list, in order of expiry.
LEMMA ExpireTracked ==
  ASSUME TypeInv, Tracked, loop \in {"scan", "select"}, toScan = {} \/ loop = "select",
         NEW s \in SortedKeys(cache), StartExpire(s), UNCHANGED cache,
         \A k \in Keys : Pending(k) => Pending(k)'
  PROVE  Tracked'
<1>0. DOMAIN cache \subseteq Keys
  BY DEF TypeInv, TypeOK, LoopTypeOK
<1>1. todo' = s /\ loop' = "expire"
  BY DEF StartExpire
<1>2. /\ \A k \in DOMAIN cache : \E i \in 1..Len(s) : s[i] = k
      /\ \A i, j \in 1..Len(s) : i < j => cache[s[i]] <= cache[s[j]]
  BY <1>0, SortedKeysComplete
<1>3. ASSUME NEW k \in Keys PROVE Pending(k)' \/ Watched(k)'
  <2>1. Pending(k) \/ k \in DOMAIN cache
    BY DEF Tracked, Watched
  <2>2. k \in DOMAIN cache => Watched(k)'
    BY <1>1, <1>2 DEF Watched, Listed, Evicting, Phase, Removing
  <2> QED  BY <2>1, <2>2
<1>4. Ordered'
  BY <1>1, <1>2 DEF Ordered
<1>5. Bounded'
  BY <1>1 DEF Tracked, Bounded, Phase, Removing
<1> QED  BY <1>1, <1>3, <1>4, <1>5 DEF Tracked, Removing, Evicting, Phase

\* An attempt to remove k takes its file away unless there was none, and takes
\* the loop to its next step or leaves it where it is.
LEMMA RemovalTracked ==
  ASSUME TypeInv, NEW k \in Keys, NEW from, ~Fault,
         RemoveFile(k, from) \/ RemoveFails(k)
  PROVE  /\ Pending(k)'
         /\ cache' = cache
         /\ \/ loop' = "unlinkMeta" /\ victim' = k /\ back' = from
            \/ UNCHANGED <<loop, victim, back>>
<1>1. file \in [Keys -> Calls \cup {NoCall}]
  BY DEF TypeInv, TypeOK, DiskTypeOK
<1>2. ~Linked(k)'
  BY <1>1 DEF RemoveFile, RemoveFails, Unlink, Linked
<1> QED  BY <1>2 DEF RemoveFile, RemoveFails, Pending

\* The next round of Expire: the key it looks at is not listed any more, and
\* there is no file left of it to track.
LEMMA ExpireKeyTracked ==
  ASSUME TypeInv, Tracked, ~Fault, ExpireKey,
         \A k \in Keys : Pending(k) => Pending(k)'
  PROVE  Tracked'
<1>0. PICK h \in Keys : h = Head(todo)
  BY DEF ExpireKey, TypeInv, TypeOK, LoopTypeOK
<1>1. /\ loop = "expire" /\ todo # <<>> /\ todo' = Tail(todo)
      /\ RemoveFile(h, "expire") \/ RemoveFails(h)
  BY <1>0 DEF ExpireKey
<1>2. /\ todo \in Seq(Keys) /\ Len(todo) \in Nat /\ Len(todo) >= 1
      /\ h = todo[1]
      /\ Len(todo') = Len(todo) - 1
      /\ \A i \in 1..Len(todo') : i + 1 \in 1..Len(todo) /\ todo'[i] = todo[i + 1]
  BY <1>0, <1>1 DEF TypeInv, TypeOK, LoopTypeOK
<1>3. /\ Pending(h)' /\ cache' = cache
      /\ \/ loop' = "unlinkMeta" /\ victim' = h /\ back' = "expire"
         \/ UNCHANGED <<loop, victim, back>>
  BY <1>1, RemovalTracked
<1>4. Phase("expire") /\ Phase("expire")' /\ loop' \notin {"start", "scan", "select"}
      /\ ~Evicting /\ ~Evicting' /\ ~Phase("evictItems") /\ ~Phase("evictItems")'
  BY <1>1, <1>3 DEF Phase, Removing, Evicting
<1>5. ASSUME NEW k \in Keys PROVE Pending(k)' \/ Watched(k)'
  <2>1. CASE k = h \/ Pending(k)  BY <1>3, <2>1
  <2>2. CASE k # h /\ ~Pending(k)
    <3>1. k \in DOMAIN cache /\ Listed(k)
      BY <1>4, <2>2 DEF Tracked, Watched
    <3>2. PICK i \in 1..Len(todo) : todo[i] = k
      BY <3>1 DEF Listed
    <3>3. i # 1
      BY <1>2, <2>2, <3>2
    <3>4. i - 1 \in 1..Len(todo') /\ todo'[i - 1] = k
      BY <1>2, <3>2, <3>3
    <3>5. Listed(k)'
      BY <3>4 DEF Listed
    <3> QED  BY <1>3, <1>4, <3>1, <3>5 DEF Watched
  <2> QED  BY <2>1, <2>2
<1>6. Ordered'
  <2>1. \A i, j \in 1..Len(todo) : i < j => cache[todo[i]] <= cache[todo[j]]
    BY <1>4 DEF Tracked, Ordered
  <2>2. ASSUME NEW i \in 1..Len(todo'), NEW j \in 1..Len(todo'), i < j
        PROVE  cache'[todo'[i]] <= cache'[todo'[j]]
    <3>1. i + 1 < j + 1
      BY <1>2, <2>2
    <3> QED  BY <1>2, <1>3, <2>1, <3>1
  <2> QED  BY <2>2 DEF Ordered
<1>7. Removing' => Pending(victim)'
  BY <1>1, <1>3 DEF Removing
<1>8. Bounded'
  BY <1>3, <1>4 DEF Tracked, Bounded
<1> QED  BY <1>4, <1>5, <1>6, <1>7, <1>8 DEF Tracked

\* Expire returns when no listed key expires before the one at its head.
LEMMA ExpireReturnTracked ==
  ASSUME DueInv, Dated, Tracked, ExpireReturn,
         \A k \in Keys : Pending(k) => Pending(k)'
  PROVE  Tracked'
<1>1. /\ loop = "expire" /\ loop' = "select" /\ UNCHANGED <<cache, back>>
      /\ nextTimestamp' = IF todo = <<>> THEN nextTimestamp ELSE cache[Head(todo)]
      /\ wakeAt' = IF nextTimestamp' > 0 THEN nextTimestamp' ELSE now + IdleSleep
  BY DEF ExpireReturn, Sleep
<1>2. todo \in Seq(Keys)
  BY DEF DueInv, TypeInv, TypeOK, LoopTypeOK
<1>3. Phase("expire") /\ ~Phase("evictItems") /\ ~Removing'
      /\ ~Evicting' /\ ~Phase("expire")' /\ ~Phase("evictItems")'
  BY <1>1 DEF Phase, Removing, Evicting
<1>4. ASSUME NEW k \in Keys, ~Pending(k) PROVE Watched(k)'
  <2>1. k \in DOMAIN cache
    BY <1>4 DEF Tracked, Watched
  <2>2. PICK i \in 1..Len(todo) : todo[i] = k
    BY <1>3, <1>4 DEF Tracked, Watched, Listed
  <2>3. todo # <<>> /\ 1 \in 1..Len(todo) /\ Head(todo) = todo[1]
    BY <1>2, <2>2
  <2>4. todo[1] \in DOMAIN cache
    BY <1>1, <2>3 DEF DueInv, TypeInv, Expiring
  <2>5. cache[todo[1]] \in Nat /\ cache[todo[1]] >= 1
    BY <2>4, CacheDated
  <2>6. wakeAt' = cache[todo[1]]
    BY <1>1, <2>3, <2>5
  <2>7. cache[todo[1]] <= cache[k]
    <3>1. CASE i = 1  BY <2>2, <2>5, <3>1
    <3>2. CASE i # 1
      <4>1. 1 < i
        BY <1>2, <3>2
      <4> QED  BY <1>3, <2>2, <2>3, <4>1 DEF Tracked, Ordered
    <3> QED  BY <3>1, <3>2
  <2> QED  BY <1>1, <1>3, <2>1, <2>6, <2>7 DEF Watched
<1>5. Bounded'
  BY <1>1, <1>3 DEF Tracked, Bounded
<1> QED  BY <1>3, <1>4, <1>5 DEF Tracked, Ordered

\* The key that leaves the cache is that of a removed file.
LEMMA ForgetTracked ==
  ASSUME TypeInv, Tracked, Forget,
         \A k \in Keys : Pending(k) => Pending(k)'
  PROVE  Tracked'
<1>1. /\ loop = "forget" /\ loop' = back
      /\ cache' = [k \in DOMAIN cache \ {victim} |-> cache[k]]
      /\ UNCHANGED <<nextTimestamp, todo, victim, back, wakeAt>>
  BY DEF Forget
<1>2. back \in {"expire", "evictItems", "evictSize"} /\ victim \in Keys
      /\ DOMAIN cache \subseteq Keys
  BY DEF TypeInv, TypeOK, LoopTypeOK
<1>3. /\ Phase("expire")' <=> Phase("expire")
      /\ Phase("evictItems")' <=> Phase("evictItems")
      /\ Evicting' <=> Evicting
      /\ loop' \notin {"start", "scan", "select"} /\ ~Removing' /\ Pending(victim)
  BY <1>1, <1>2 DEF Phase, Removing, Evicting, Tracked
<1>4. ASSUME NEW k \in Keys PROVE Pending(k)' \/ Watched(k)'
  <2>1. CASE Pending(k)  BY <2>1
  <2>2. CASE ~Pending(k)
    <3>1. Watched(k) /\ k # victim
      BY <1>3, <2>2 DEF Tracked
    <3>2. Listed(k)' <=> Listed(k)
      BY <1>1 DEF Listed
    <3> QED  BY <1>1, <1>3, <3>1, <3>2 DEF Watched
  <2> QED  BY <2>1, <2>2
<1>5. Ordered'
  <2>1. SUFFICES ASSUME Phase("expire"), NEW i \in 1..Len(todo), NEW j \in 1..Len(todo), i < j
                 PROVE  cache'[todo[i]] <= cache'[todo[j]]
    BY <1>1, <1>3 DEF Ordered
  <2>2. back = "expire"
    BY <1>1, <2>1 DEF Phase
  <2>3. todo[i] \in DOMAIN cache \ {victim} /\ todo[j] \in DOMAIN cache \ {victim}
    BY <1>1, <2>2 DEF TypeInv, Expiring
  <2> QED  BY <1>1, <2>1, <2>3 DEF Tracked, Ordered
<1>6. Bounded'
  <2>1. /\ IsFiniteSet(DOMAIN cache) /\ DOMAIN cache' = DOMAIN cache \ {victim}
        /\ Cardinality(DOMAIN cache) \in Nat
    BY <1>1, <1>2, KeysFinite, FS_Subset, FS_CardinalityType
  <2>2. Cardinality(DOMAIN cache') \in Nat /\ Cardinality(DOMAIN cache') <= Cardinality(DOMAIN cache)
    BY <2>1, FS_Subset, FS_CardinalityType
  <2> QED  BY <1>3, <2>1, <2>2, BoundsNat DEF Tracked, Bounded
<1> QED  BY <1>1, <1>3, <1>4, <1>5, <1>6 DEF Tracked

\* Whether or not the metadata file goes, the removal is of a file that is gone.
LEMMA RemoveMetadataTracked ==
  ASSUME TypeInv, Tracked, RemoveMetadata,
         \A k \in Keys : Pending(k) => Pending(k)'
  PROVE  Tracked'
<1>1. /\ loop = "unlinkMeta" /\ loop' \in {"forget", back}
      /\ UNCHANGED <<cache, nextTimestamp, todo, victim, back, wakeAt>>
  BY DEF RemoveMetadata
<1>2. back \in {"expire", "evictItems", "evictSize"} /\ victim \in Keys
  BY DEF TypeInv, TypeOK, LoopTypeOK
<1>3. /\ Phase("expire")' <=> Phase("expire")
      /\ Phase("evictItems")' <=> Phase("evictItems")
      /\ Evicting' <=> Evicting
      /\ loop' \notin {"start", "scan", "select"} /\ Pending(victim)
  BY <1>1, <1>2 DEF Phase, Removing, Evicting, Tracked
<1>4. ASSUME NEW k \in Keys PROVE Pending(k)' \/ Watched(k)'
  <2>1. Listed(k)' <=> Listed(k)
    BY <1>1 DEF Listed
  <2> QED  BY <1>1, <1>3, <2>1 DEF Tracked, Watched
<1>5. Ordered' /\ Bounded'
  BY <1>1, <1>3 DEF Tracked, Ordered, Bounded
<1>6. Pending(victim)'
  BY <1>1, <1>2, <1>3
<1> QED  BY <1>1, <1>3, <1>4, <1>5, <1>6 DEF Tracked

\* The object taken from the channel is cached, and the sleep to come ends with
\* the least of all expiries, its own included.
LEMMA AddTracked ==
  ASSUME DueInv, Dated, Tracked, Add,
         \A k \in Keys : Pending(k) => Pending(k)' \/ Head(queue).key = k
  PROVE  Tracked'
<1>1. /\ loop = "select" /\ loop' = "evictItems" /\ queue # <<>>
      /\ cache' = Cached(Head(queue).key, Head(queue).expires)
      /\ sorted' \in SortedKeys(cache')
      /\ nextTimestamp' = GetNextTimestamp(cache', sorted')
  BY DEF Add
<1>2. /\ Head(queue) \in Objects
      /\ Head(queue).expires \in Nat /\ Head(queue).expires >= 1
  <2>1. queue \in Seq(Objects)
    BY DEF DueInv, TypeInv, TypeOK, LoopTypeOK
  <2>2. Head(queue) = queue[1] /\ 1 \in 1..Len(queue) /\ queue[1] \in Objects
    BY <1>1, <2>1
  <2> QED  BY <2>2, CacheDated
<1>3. /\ DOMAIN cache' = DOMAIN cache \cup {Head(queue).key}
      /\ DOMAIN cache' \subseteq Keys
      /\ \A k \in DOMAIN cache' : cache'[k] \in Nat /\ cache'[k] >= 1
  <2>1. DOMAIN cache \subseteq Keys /\ Head(queue).key \in Keys
    BY <1>2 DEF Objects, DueInv, TypeInv, TypeOK, LoopTypeOK
  <2> QED  BY <1>1, <1>2, <2>1, CacheDated DEF Cached
<1>4. /\ \A k \in DOMAIN cache' : nextTimestamp' <= cache'[k]
      /\ nextTimestamp' > 0
  BY <1>1, <1>3, NextIsLeast
<1>5. /\ ~Phase("expire")' /\ Phase("evictItems")' /\ ~Removing'
  BY <1>1 DEF Phase, Removing
<1>6. ASSUME NEW k \in Keys PROVE Pending(k)' \/ Watched(k)'
  <2>1. k \in DOMAIN cache' => Watched(k)'
    BY <1>1, <1>4, <1>5 DEF Watched
  <2>2. Pending(k)' \/ k \in DOMAIN cache'
    BY <1>3 DEF Tracked, Watched
  <2> QED  BY <2>1, <2>2
<1> QED  BY <1>4, <1>5, <1>6 DEF Tracked, Ordered, Bounded

\* An eviction removes the object that expires last, or goes round in vain.
LEMMA EvictTracked ==
  ASSUME TypeInv, Tracked, ~Fault, EvictItems \/ EvictSize,
         \A k \in Keys : Pending(k) => Pending(k)'
  PROVE  Tracked'
<1>1. CASE Spin
  BY <1>1, TrackedElsewhere DEF Spin, TypeInv, TypeOK, LoopTypeOK
<1>2. ASSUME NEW from \in {"evictItems", "evictSize"}, loop = from, RemoveOldest(from)
      PROVE  Tracked'
  <2>1. sorted # <<>> /\ UNCHANGED <<nextTimestamp, todo, wakeAt>>
    BY <1>2 DEF RemoveOldest
  <2>2. PICK v \in Keys : RemoveFile(v, from) \/ RemoveFails(v)
    <3>1. Last(sorted) \in Keys
      BY <2>1 DEF Last, TypeInv, TypeOK, LoopTypeOK
    <3> QED  BY <1>2, <3>1 DEF RemoveOldest
  <2>3. /\ Pending(v)' /\ cache' = cache
        /\ \/ loop' = "unlinkMeta" /\ victim' = v /\ back' = from
           \/ UNCHANGED <<loop, victim, back>>
    BY <2>2, RemovalTracked
  <2>4. /\ ~Phase("expire")'
        /\ Phase("evictItems")' <=> Phase("evictItems")
        /\ Evicting /\ Evicting' /\ loop' \notin {"start", "scan", "select"}
        /\ Removing' => Pending(victim)'
    BY <1>2, <2>3 DEF Phase, Removing, Evicting
  <2>5. ASSUME NEW k \in Keys PROVE Pending(k)' \/ Watched(k)'
    BY <2>1, <2>3, <2>4 DEF Tracked, Watched
  <2> QED  BY <2>1, <2>3, <2>4, <2>5 DEF Tracked, Ordered, Bounded
<1> QED  BY <1>1, <1>2 DEF EvictItems, EvictSize

\* Each step of the loop keeps track of every file.
LEMMA LoopTracked ==
  ASSUME DueInv, Dated, Tracked, ~Fault, LoopStep,
         \A k \in Keys : Pending(k) => Pending(k)' \/ (Add /\ Head(queue).key = k)
  PROVE  Tracked'
<1>0. TypeInv /\ DOMAIN cache \subseteq Keys /\ back \in {"expire", "evictItems", "evictSize"}
  BY DEF DueInv, TypeInv, TypeOK, LoopTypeOK
<1>1. CASE Add  BY <1>1, AddTracked
<1>2. CASE ~Add
  <2>0. \A k \in Keys : Pending(k) => Pending(k)'
    BY <1>2
  <2>1. CASE ListFiles \/ \E k \in Keys : ScanFile(k)
    <3>1. loop \in {"start", "scan"} /\ loop' = "scan"
      BY <2>1 DEF ListFiles, ScanFile
    <3>2. \A k \in Keys : Pending(k)'
      BY <2>0, <3>1 DEF Tracked, Watched
    <3> QED  BY <3>1, <3>2 DEF Tracked, Removing, Phase, Evicting, Ordered, Bounded
  <2>2. CASE EndScan
    BY <1>0, <2>0, <2>2, ExpireTracked DEF EndScan
  <2>3. CASE WakeUp
    BY <1>0, <2>0, <2>3, ExpireTracked DEF WakeUp
  <2>4. CASE ExpireKey  BY <1>0, <2>0, <2>4, ExpireKeyTracked
  <2>5. CASE ExpireReturn  BY <2>0, <2>5, ExpireReturnTracked
  <2>6. CASE RemoveMetadata  BY <1>0, <2>0, <2>6, RemoveMetadataTracked
  <2>7. CASE Forget  BY <1>0, <2>0, <2>7, ForgetTracked
  <2>8. CASE EvictItems \/ EvictSize  BY <1>0, <2>0, <2>8, EvictTracked
  <2>9. CASE EndEvictItems
    <3>1. /\ loop = "evictItems" /\ loop' = "evictSize" /\ ~TooMany
          /\ UNCHANGED <<cache, nextTimestamp, todo, victim, back, wakeAt>>
      BY <2>9 DEF EndEvictItems
    <3>2. ~Phase("expire")' /\ Evicting /\ Evicting' /\ ~Removing'
      BY <3>1 DEF Phase, Removing, Evicting
    <3>3. \A k \in Keys : Pending(k)' \/ Watched(k)'
      BY <2>0, <3>1, <3>2 DEF Tracked, Watched
    <3>4. MaxItems > 0 => Cardinality(DOMAIN cache) < MaxItems
      <4>1. Cardinality(DOMAIN cache) \in Nat
        BY <1>0, KeysFinite, FS_Subset, FS_CardinalityType
      <4> QED  BY <3>1, <4>1, BoundsNat DEF TooMany
    <3> QED  BY <3>1, <3>2, <3>3, <3>4 DEF Tracked, Ordered, Bounded
  <2>10. CASE EndEvictSize
    <3>1. /\ loop = "evictSize" /\ loop' = "select" /\ UNCHANGED cache
          /\ wakeAt' = IF nextTimestamp > 0 THEN nextTimestamp ELSE now + IdleSleep
      BY <2>10 DEF EndEvictSize, Sleep
    <3>2. Evicting /\ ~Phase("evictItems")
          /\ ~Phase("expire")' /\ ~Evicting' /\ ~Removing' /\ ~Phase("evictItems")'
      BY <3>1 DEF Phase, Removing, Evicting
    <3>3. \A k \in Keys : Pending(k)' \/ Watched(k)'
      BY <2>0, <3>1, <3>2 DEF Tracked, Watched
    <3> QED  BY <2>0, <3>1, <3>2, <3>3 DEF Tracked, Ordered, Bounded
  <2> QED
    BY <1>2, <2>1, <2>2, <2>3, <2>4, <2>5, <2>6, <2>7, <2>8, <2>9, <2>10 DEF LoopStep
<1> QED  BY <1>1, <1>2

\* Every step that ends without a crash or a failed call keeps the files tracked.
LEMMA StepTracked ==
  ASSUME TrackInv, [Next]_vars, Quiet'
  PROVE  Tracked'
<1>0. TypeInv /\ DueInv /\ Created /\ Dated /\ victim \in Keys
  BY DEF TrackInv, DueInv, TypeInv, TypeOK, LoopTypeOK
<1>1. Quiet /\ ~Fault /\ ~Crash
  BY <1>0, QuietStep
<1>2. Tracked
  BY <1>1 DEF TrackInv
<1>3. \A k \in Keys : Pending(k) => Pending(k)' \/ (Add /\ Head(queue).key = k)
  BY <1>0, <1>1, PendingKept
<1>4. CASE Loop
  BY <1>0, <1>1, <1>2, <1>3, <1>4, LoopTracked DEF Loop
<1>5. CASE UNCHANGED loopVars
  <2>1. ~Add
    BY <1>5 DEF Add, loopVars
  <2> QED  BY <1>0, <1>2, <1>3, <1>5, <2>1, TrackedElsewhere
<1> QED  BY <1>1, <1>4, <1>5 DEF Next, Request, Tick, Idle, vars

\* TrackInv is an invariant of the specification.
LEMMA TrackInvHolds == Spec => []TrackInv
<1>1. Init => TrackInv
  BY InitTypes, InitTraced, InitTracked DEF TrackInv, DueInv
<1>2. TrackInv /\ [Next]_vars => TrackInv'
  BY StepDueInv, StepCreated, StepDated, StepTracked DEF TrackInv, DueInv
<1> QED  BY <1>1, <1>2, PTL DEF Spec

\* As long as nothing has failed or crashed, no interleaving of Put, Update, Get
\* and the expiry loop leaves a file in the directory that the loop does not
\* know of and will not hear of.
THEOREM NoFileForgotten == Spec => [](Quiet => FilesTracked)
<1>1. TrackInv => (Quiet => FilesTracked)
  BY DEF TrackInv, Tracked, FilesTracked, Pending, Watched, Known
<1> QED  BY <1>1, TrackInvHolds, PTL

\* As long as nothing has failed or crashed, the loop never sleeps past the
\* expiry of an object it has cached.
THEOREM WakesInTime == Spec => [](Quiet => NoOversleep)
<1>1. TrackInv => (Quiet => NoOversleep)
  BY DEF TrackInv, DueInv, TypeInv, TypeOK, LoopTypeOK, Tracked, NoOversleep, Pending, Watched
<1> QED  BY <1>1, TrackInvHolds, PTL

\* As long as nothing has failed or crashed, the directory settles below
\* maxitems files, for every maxitems.
THEOREM ItemsLimited == Spec => [](Quiet => ItemsBounded)
<1>1. TrackInv /\ Quiet => ItemsBounded
  <2> SUFFICES ASSUME TrackInv, Quiet, MaxItems > 0, Settled
               PROVE  Cardinality(Files) < MaxItems
    BY DEF ItemsBounded
  <2>1. Tracked /\ loop = "select" /\ queue = <<>> /\ DOMAIN cache \subseteq Keys
    BY DEF TrackInv, DueInv, TypeInv, TypeOK, LoopTypeOK, Settled
  <2>2. \A k \in Keys : ~InFlight(k) /\ ~Queued(k)
    BY <2>1 DEF Settled, InFlight, Queued, Running
  <2>3. \A k \in Files : ~Pending(k) /\ k \in DOMAIN cache
    BY <2>1, <2>2 DEF Tracked, Watched, Pending, Files
  <2>4. IsFiniteSet(DOMAIN cache) /\ Cardinality(DOMAIN cache) \in Nat
    BY <2>1, KeysFinite, FS_Subset, FS_CardinalityType
  <2>5. Files \subseteq DOMAIN cache
    BY <2>3
  <2>6. Cardinality(Files) \in Nat /\ Cardinality(Files) <= Cardinality(DOMAIN cache)
    BY <2>4, <2>5, FS_Subset, FS_CardinalityType
  <2>7. Cardinality(DOMAIN cache) < MaxItems \/ Files = {}
    BY <2>1, <2>3 DEF Tracked, Bounded, Phase, Removing, Files
  <2>8. Files = {} => Cardinality(Files) = 0
    BY FS_EmptySet
  <2> QED  BY <2>4, <2>6, <2>7, <2>8, BoundsNat
<1> QED  BY <1>1, TrackInvHolds, PTL
----------------------------------------------------------------------------
(***************************************************************************)
(* What a restart finds, as long as no system call has failed: a file that *)
(* the loop does not know was left by a crash, it has no metadata, or an   *)
(* Update wrote its metadata since, or the scan has still to look at it.   *)
(***************************************************************************)

\* A POST is between its exclusive create and the end of its SaveMetadata.
Uploading(k) ==
  \E c \in Calls :
    /\ Key(c) = k
    /\ pc[c] = "write" \/ (pc[c] \in {"announce", "truncate", "save"} /\ save[c].created)

\* An Update of k has returned.
Touched(k) == \E c \in Calls : Key(c) = k /\ pc[c] = "done" /\ answer[c] = "updated"

\* The scan has still to look at k.
Awaiting(k) == loop = "start" \/ (loop = "scan" /\ k \in toScan)

Found ==
  /\ Removing => Pending(victim)
  /\ \A k \in Keys :
       Linked(k) => \/ Known(k)
                    \/ ~Uploading(k) /\ (~Loadable(k) \/ Touched(k) \/ Awaiting(k))

FoundInv == TypeInv /\ Created /\ (faults = 0 => Found)

\* Only the loop takes a key from the cache, when it has removed its object.
LEMMA CacheKept ==
  ASSUME [Next]_vars, ~Crash, NEW k \in DOMAIN cache
  PROVE  k \in DOMAIN cache' \/ (Forget /\ k = victim)
<1>1. CASE UNCHANGED cache  BY <1>1
<1>2. CASE Loop /\ ~UNCHANGED cache
  BY <1>2
     DEF Loop, LoopStep, ListFiles, ScanFile, EndScan, ExpireKey, ExpireReturn, RemoveMetadata,
         Forget, WakeUp, Add, EvictItems, EvictSize, RemoveOldest, Spin, EndEvictItems,
         EndEvictSize, RemoveFile, RemoveFails, Cached, loopVars
<1> QED  BY <1>1, <1>2 DEF Next, Request, Tick, Idle, vars, loopVars

\* A file that the loop knows, or will hear of, stays so until a crash.
LEMMA KnownKept ==
  ASSUME TypeInv, Created, [Next]_vars, ~Fault, ~Crash, Removing => Pending(victim),
         NEW k \in Keys, Linked(k) => Known(k)
  PROVE  Linked(k)' => Known(k)'
<1>1. CASE Pending(k)
  <2>1. Pending(k)' \/ (Add /\ Head(queue).key = k)
    BY <1>1, PendingKept
  <2>2. Add /\ Head(queue).key = k => k \in DOMAIN cache'
    BY DEF Add, Cached
  <2> QED  BY <2>1, <2>2 DEF Pending, Known
<1>2. CASE ~Pending(k)
  <2>1. k \in DOMAIN cache
    BY <1>2 DEF Pending, Known
  <2>2. ~(Forget /\ k = victim)
    BY <1>2 DEF Forget, Removing
  <2> QED  BY <2>1, <2>2, CacheKept DEF Known
<1> QED  BY <1>1, <1>2

\* While the loop removes an object nobody else links the same path unseen.
LEMMA RemovingKept ==
  ASSUME TypeInv, Created, [Next]_vars, ~Fault, ~Crash, Removing => Pending(victim), Removing'
  PROVE  Pending(victim)'
<1>0. victim \in Keys /\ back \in {"expire", "evictItems", "evictSize"}
      /\ file \in [Keys -> Calls \cup {NoCall}]
  BY DEF TypeInv, TypeOK, LoopTypeOK, DiskTypeOK
<1>1. CASE Removing /\ victim' = victim
  <2>1. ~Add
    BY <1>1 DEF Add, Removing
  <2> QED  BY <1>0, <1>1, <2>1, PendingKept
<1>2. CASE Loop /\ ~Removing
  <2>1. PICK h \in Keys, from \in {"expire", "evictItems", "evictSize"} : RemoveFile(h, from)
    <3>1. sorted # <<>> => Last(sorted) \in Keys
      BY DEF Last, TypeInv, TypeOK, LoopTypeOK
    <3>2. todo # <<>> => Head(todo) \in Keys
      BY DEF TypeInv, TypeOK, LoopTypeOK
    <3> QED
      BY <1>2, <3>1, <3>2
         DEF Loop, LoopStep, ListFiles, ScanFile, EndScan, StartExpire, ExpireKey, ExpireReturn,
             Sleep, RemoveMetadata, Forget, WakeUp, Add, EvictItems, EvictSize, RemoveOldest,
             Spin, EndEvictItems, EndEvictSize, RemoveFails, Removing, loopVars
  <2> QED  BY <1>0, <2>1 DEF RemoveFile, Unlink, Pending, Linked
<1>3. CASE Loop /\ Removing
  <2>1. victim' = victim
    BY <1>3
       DEF Loop, LoopStep, ListFiles, ScanFile, EndScan, ExpireKey, ExpireReturn, RemoveMetadata,
           Forget, WakeUp, Add, EvictItems, EvictSize, EndEvictItems, EndEvictSize, Removing
  <2> QED  BY <1>1, <1>3, <2>1
<1>4. CASE UNCHANGED loopVars
  BY <1>1, <1>4 DEF Removing, loopVars
<1> QED  BY <1>2, <1>3, <1>4 DEF Next, Request, Tick, Idle, vars

\* No upload of a key begins while a file is linked there.
LEMMA NotUploading ==
  ASSUME TypeInv, [Next]_vars, NEW k \in Keys, Linked(k), ~Uploading(k)
  PROVE  ~Uploading(k)'
<1>0. CallTypeOK
  BY TypeParts DEF TypeInv
<1> USE DEF GoTo, Return, At, ToSave, CallTypeOK, Key, Uploading
<1>1. ASSUME NEW d \in Calls, Request(d) PROVE ~Uploading(k)'
  <2>1. \A c \in Calls \ {d} : pc'[c] = pc[c] /\ req'[c] = req[c] /\ save'[c] = save[c]
    BY <1>0, <1>1
       DEF Request, Start, CallStep, PutCheck, PutCreate, PutWrite, UpdateFind, UpdateAnnounce,
           UpdateLoad, SaveCreate, SaveWrite, AfterSave, PutSend, GetOpen, GetLoad
  <2>2. ~(/\ Key(d)' = k
          /\ \/ pc'[d] = "write"
             \/ pc'[d] \in {"announce", "truncate", "save"} /\ save'[d].created)
    <3>1. CASE Start(d)  BY <1>0, <3>1, OperationsType DEF Start
    <3>2. CASE PutCheck(d) \/ PutCreate(d) \/ PutWrite(d)
      BY <1>0, <3>2 DEF PutCheck, PutCreate, PutWrite
    <3>3. CASE UpdateFind(d) \/ UpdateAnnounce(d) \/ UpdateLoad(d)
      BY <1>0, <3>3 DEF UpdateFind, UpdateAnnounce, UpdateLoad
    <3>4. CASE SaveCreate(d) \/ SaveWrite(d) \/ PutSend(d)
      BY <1>0, <3>4 DEF SaveCreate, SaveWrite, AfterSave, PutSend
    <3>5. CASE GetOpen(d) \/ GetLoad(d)
      BY <1>0, <3>5 DEF GetOpen, GetLoad
    <3> QED  BY <1>1, <3>1, <3>2, <3>3, <3>4, <3>5 DEF Request, CallStep
  <2> QED  BY <2>1, <2>2
<1>2. CASE Crash
  BY <1>0, <1>2 DEF Crash, Running
<1> QED  BY <1>1, <1>2 DEF Next, Loop, Tick, Idle, vars, callVars

\* A call that has returned is over.
LEMMA TouchedStays ==
  ASSUME TypeInv, [Next]_vars, NEW k, Touched(k)
  PROVE  Touched(k)'
<1>0. CallTypeOK
  BY TypeParts DEF TypeInv
<1> USE DEF GoTo, Return, At, ToSave, CallTypeOK, Key, Touched
<1>1. PICK c \in Calls : Key(c) = k /\ pc[c] = "done" /\ answer[c] = "updated"
  OBVIOUS
<1>2. ASSUME NEW d \in Calls, Request(d) PROVE Touched(k)'
  BY <1>0, <1>1, <1>2
     DEF Request, Start, CallStep, PutCheck, PutCreate, PutWrite, UpdateFind, UpdateAnnounce,
         UpdateLoad, SaveCreate, SaveWrite, AfterSave, PutSend, GetOpen, GetLoad
<1>3. CASE Crash
  BY <1>0, <1>1, <1>3 DEF Crash, Running
<1> QED  BY <1>1, <1>2, <1>3 DEF Next, Loop, Tick, Idle, vars, callVars

\* Metadata becomes readable only by the end of an upload or of an Update.
LEMMA LoadableByCall ==
  ASSUME TypeInv, [Next]_vars, ~Fault, NEW k \in Keys, ~Loadable(k), ~Uploading(k), Loadable(k)'
  PROVE  Touched(k)'
<1>0. CallTypeOK /\ meta \in [Keys -> Metas]
  BY TypeParts DEF TypeInv, TypeOK, DiskTypeOK
<1>1. ASSUME NEW d \in Calls, Request(d) PROVE Touched(k)'
  <2>1. CASE SaveWrite(d)
    <3>1. pc[d] = "save" /\ WriteMeta(Key(d), d, save[d].expires, save[d].md) /\ AfterSave(d)
      BY <2>1 DEF SaveWrite, At
    <3>2. Key(d) = k
      BY <1>0, <3>1 DEF WriteMeta, Loadable
    <3>3. ~save[d].created
      BY <3>1, <3>2 DEF Uploading
    <3> QED
      BY <1>0, <2>1, <3>1, <3>2, <3>3
         DEF SaveWrite, AfterSave, Return, GoTo, Touched, Key, CallTypeOK
  <2>2. CASE SaveCreate(d)
    BY <1>0, <2>2 DEF SaveCreate, TruncateMeta, NoMeta, Loadable
  <2>3. CASE ~SaveWrite(d) /\ ~SaveCreate(d)
    <3>1. UNCHANGED meta
      BY <1>1, <2>3
         DEF Request, Start, CallStep, PutCheck, PutCreate, PutWrite, UpdateFind, UpdateAnnounce,
             UpdateLoad, PutSend, GetOpen, GetLoad, diskVars
    <3> QED  BY <3>1 DEF Loadable
  <2> QED  BY <2>1, <2>2, <2>3
<1>2. CASE Loop
  <2>1. UNCHANGED meta \/ \E h : UnlinkMeta(h)
    BY <1>2
       DEF Loop, LoopStep, ListFiles, ScanFile, EndScan, ExpireKey, ExpireReturn,
           RemoveMetadata, Forget, WakeUp, Add, EvictItems, EvictSize, RemoveOldest, Spin,
           EndEvictItems, EndEvictSize, RemoveFile, RemoveFails, diskVars
  <2> QED  BY <1>0, <2>1 DEF UnlinkMeta, NoMeta, Loadable
<1>3. CASE Crash
  BY <1>0, <1>3 DEF Crash, Loadable, Metas
<1> QED  BY <1>1, <1>2, <1>3 DEF Next, Tick, Idle, vars, diskVars, Loadable

\* The scan lists each file and caches each one that it can read.
LEMMA AwaitingEnds ==
  ASSUME [Next]_vars, ~Fault, ~Crash, NEW k \in Keys, Linked(k), Loadable(k), Awaiting(k)
  PROVE  Awaiting(k)' \/ k \in DOMAIN cache'
<1>1. CASE Loop
  <2>1. CASE ListFiles
    BY <2>1 DEF ListFiles, Awaiting
  <2>2. ASSUME NEW h \in Keys, ScanFile(h) PROVE Awaiting(k)' \/ k \in DOMAIN cache'
    BY <2>2 DEF ScanFile, Cached, Awaiting
  <2> QED
    BY <1>1, <2>1, <2>2
       DEF Loop, LoopStep, EndScan, ExpireKey, ExpireReturn, RemoveMetadata, Forget, WakeUp, Add,
           EvictItems, EvictSize, EndEvictItems, EndEvictSize, Awaiting
<1>2. CASE UNCHANGED loopVars
  BY <1>2 DEF Awaiting, loopVars
<1> QED  BY <1>1, <1>2 DEF Next, Request, Tick, Idle, vars

\* A crash leaves everything to the scan, and no other step loses a file.
LEMMA StepFound ==
  ASSUME FoundInv, [Next]_vars, faults' = 0
  PROVE  Found'
<1>0. TypeInv /\ Created /\ Found /\ ~Fault
  BY FaultStep DEF FoundInv
<1>1. CASE Crash
  <2>1. loop' = "start" /\ \A c \in Calls : pc'[c] \notin Running
    BY <1>0, <1>1, TypeParts DEF Crash, TypeInv, CallTypeOK, Running
  <2> QED  BY <2>1 DEF Found, Removing, Awaiting, Uploading, Running
<1>2. CASE ~Crash
  <2>1. Removing' => Pending(victim)'
    BY <1>0, <1>2, RemovingKept DEF Found
  <2>2. ASSUME NEW k \in Keys, Linked(k)', ~Known(k)'
        PROVE  ~Uploading(k)' /\ (~Loadable(k)' \/ Touched(k)' \/ Awaiting(k)')
    <3>1. Linked(k) /\ ~Known(k)
      BY <1>0, <1>2, <2>2, KnownKept DEF Found
    <3>2. ~Uploading(k) /\ (~Loadable(k) \/ Touched(k) \/ Awaiting(k))
      BY <1>0, <3>1 DEF Found
    <3>3. ~Uploading(k)'
      BY <1>0, <3>1, <3>2, NotUploading
    <3>4. CASE ~Loadable(k)
      BY <1>0, <3>2, <3>3, <3>4, LoadableByCall
    <3>5. CASE Touched(k)
      BY <1>0, <3>3, <3>5, TouchedStays
    <3>6. CASE Loadable(k) /\ Awaiting(k)
      BY <1>0, <1>2, <2>2, <3>1, <3>3, <3>6, AwaitingEnds DEF Known
    <3> QED  BY <3>2, <3>4, <3>5, <3>6
  <2> QED  BY <2>1, <2>2 DEF Found
<1> QED  BY <1>1, <1>2

\* Whatever a crash interrupts, and however requests and the scan of the next
\* start interleave, the loop then knows of every file that has its metadata and
\* that no Update has touched, as long as no system call fails.
THEOREM RestartFindsAll == Spec => []FilesFound
<1>1. Init => FoundInv
  BY InitTypes, InitTracked DEF FoundInv, Found, Init, DiskInit, LoopInit, Removing, Linked
<1>2. FoundInv /\ [Next]_vars => FoundInv'
  BY StepTypes, StepCreated, StepFound DEF FoundInv
<1>3. FoundInv => FilesFound
  BY DEF FoundInv, Found, FilesFound, Touched, Awaiting
<1> QED  BY <1>1, <1>2, <1>3, PTL DEF Spec
=============================================================================
