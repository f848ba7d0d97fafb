----------------------------- MODULE FileExpiry -----------------------------
(***************************************************************************)
(* StartExpiryLoop of file.go, the goroutine of a file provider: it scans  *)
(* the directory, then sleeps until the next object expires or a request   *)
(* handler sends an object on the channel add, evicting what exceeds the   *)
(* configured bounds.  It takes one step per change that request handlers, *)
(* who share its cache map and the disk, can observe.                      *)
(***************************************************************************)
EXTENDS FileDisk, SequencesExt

CONSTANTS
  MaxItems,   \* maxitems of the configuration, 0 for no bound
  MaxSize,    \* maxsize of the configuration, 0 for no bound
  IdleSleep,  \* NextSleepDuration when nothing is due (an hour)
  MaxTime     \* bound on the clock

ASSUME BoundsNat == MaxItems \in Nat /\ MaxSize \in Nat /\ IdleSleep \in Nat
ASSUME MaxTimeNat == MaxTime \in Nat \ {0}

VARIABLES
  now,            \* the clock, in seconds
  queue,          \* the channel add
  cache,          \* expiry of each object the loop knows of
  sorted,         \* sortedCacheKeys
  nextTimestamp,  \* expiry of the object that expires next, or -1
  currentSize,    \* size of the cached objects
  loop,           \* where the goroutine is
  toScan,         \* files of the directory listing not yet looked at
  todo,           \* keys Expire has not yet looked at
  deadline,       \* the time Expire compares expiries with
  victim,         \* key being removed
  back,           \* where Remove returns to
  wakeAt          \* when the sleep ends

loopVars == <<cache, sorted, nextTimestamp, currentSize, loop, toScan, todo, deadline,
              victim, back, wakeAt>>

LoopStates == {"start", "scan", "expire", "select", "evictItems", "evictSize",
               "unlinkMeta", "forget", "ended"}
Objects == [key : Keys, expires : Nat]

LoopTypeOK ==
  /\ queue \in Seq(Objects)
  /\ DOMAIN cache \subseteq Keys
  /\ \A k \in DOMAIN cache : cache[k] \in Nat
  /\ sorted \in Seq(Keys)
  /\ nextTimestamp \in Nat \cup {-1}
  /\ currentSize \in Int
  /\ loop \in LoopStates
  /\ toScan \subseteq Keys
  /\ todo \in Seq(Keys)
  /\ deadline \in Nat
  /\ victim \in Keys
  /\ back \in {"expire", "evictItems", "evictSize"}
  /\ wakeAt \in Nat

LoopInit ==
  /\ cache = [k \in {} |-> 0]
  /\ sorted = <<>>
  /\ nextTimestamp = -1
  /\ currentSize = 0
  /\ loop = "start"
  /\ toScan = {}
  /\ todo = <<>>
  /\ deadline = 0
  /\ victim \in Keys
  /\ back = "expire"
  /\ wakeAt = 0

\* GetSortedCacheKeys: by expiry, ties in any order (map order, unstable sort).
SortedKeys(c) ==
  {s \in SetToSeqs(DOMAIN c) :
     \A i, j \in 1..Cardinality(DOMAIN c) : i < j => c[s[i]] <= c[s[j]]}

\* Mutant: the descending order that SortedMap.Less gives unreversed.
GetNextTimestamp_Descending(c, s) == IF s = <<>> THEN -1 ELSE c[s[Len(s)]]

GetNextTimestamp(c, s) == IF s = <<>> THEN -1 ELSE c[s[1]]

\* p.cache[k] = expires
Cached(k, expires) == [j \in DOMAIN cache \cup {k} |-> IF j = k THEN expires ELSE cache[j]]

\* os.Stat of an object that is being cached: the size is added, unless it fails.
Count(k) ==
  \/ currentSize' = currentSize + SizeAt(k) /\ UNCHANGED faults
  \/ Fault /\ UNCHANGED currentSize

----------------------------------------------------------------------------
\* os.Open of the directory and d.Readdir(-1): if either fails, the loop is over.
ListFiles ==
  /\ loop = "start"
  /\ \/ toScan' = {k \in Keys : Linked(k)} /\ loop' = "scan" /\ UNCHANGED faults
     \/ Fault /\ loop' = "ended" /\ UNCHANGED toScan
  /\ UNCHANGED <<file, whole, meta, queue, cache, sorted, nextTimestamp, currentSize, todo,
                 deadline, victim, back, wakeAt>>

\* Mutant: an object that has expired meanwhile is not cached.
ScanFile_SkipsExpired(k) ==
  /\ loop = "scan"
  /\ k \in toScan
  /\ toScan' = toScan \ {k}
  /\ IF Loadable(k) /\ meta[k].expires > now
     THEN cache' = Cached(k, meta[k].expires) /\ Count(k)
     ELSE UNCHANGED <<cache, currentSize, faults>>
  /\ UNCHANGED <<file, whole, meta, queue, sorted, nextTimestamp, loop, todo, deadline,
                 victim, back, wakeAt>>

\* A file with readable metadata is cached, any other is skipped.  The size of
\* one that os.Stat fails on is not counted.
ScanFile(k) ==
  /\ loop = "scan"
  /\ k \in toScan
  /\ toScan' = toScan \ {k}
  /\ \/ Loadable(k) /\ cache' = Cached(k, meta[k].expires) /\ Count(k)
     \/ ~Loadable(k) /\ UNCHANGED <<cache, currentSize, faults>>
     \/ Fault /\ UNCHANGED <<cache, currentSize>>
  /\ UNCHANGED <<file, whole, meta, queue, sorted, nextTimestamp, loop, todo, deadline,
                 victim, back, wakeAt>>

\* Enter Expire with the given keys.
StartExpire(s) ==
  /\ todo' = s
  /\ deadline' = now
  /\ loop' = "expire"

EndScan ==
  /\ loop = "scan"
  /\ toScan = {}
  /\ sorted' \in SortedKeys(cache)
  /\ StartExpire(sorted')
  /\ UNCHANGED <<diskVars, queue, cache, nextTimestamp, currentSize, toScan, victim,
                 back, wakeAt>>

\* Back to the select, after NextSleepDuration(next).
Sleep(next) ==
  /\ loop' = "select"
  /\ wakeAt' = IF next > 0 THEN next ELSE now + IdleSleep

----------------------------------------------------------------------------
\* Remove: os.Stat and os.Remove of the file, which only this goroutine unlinks.
RemoveFile(k, from) ==
  /\ Linked(k)
  /\ currentSize' = currentSize - SizeAt(k)
  /\ Unlink(k)
  /\ victim' = k
  /\ back' = from
  /\ loop' = "unlinkMeta"
  /\ UNCHANGED <<whole, meta, faults, cache>>

\* Remove returns an error and leaves the cache entry: there is no file to stat,
\* or the stat fails, or the unlink does after the size was taken off.
RemoveFails(k) ==
  /\ \/ ~Linked(k) /\ UNCHANGED <<faults, currentSize>>
     \/ Linked(k) /\ Fault /\ currentSize' \in {currentSize, currentSize - SizeAt(k)}
  /\ UNCHANGED <<file, whole, meta, cache, victim, back, loop>>

\* os.Remove of the metadata; if that fails the entry stays.
RemoveMetadata ==
  /\ loop = "unlinkMeta"
  /\ \/ /\ meta[victim].state # "absent"
        /\ UnlinkMeta(victim)
        /\ loop' = "forget"
        /\ UNCHANGED faults
     \/ /\ IF meta[victim].state = "absent" THEN UNCHANGED faults ELSE Fault
        /\ loop' = back
        /\ UNCHANGED meta
  /\ UNCHANGED <<file, whole, queue, cache, sorted, nextTimestamp, currentSize, toScan,
                 todo, deadline, victim, back, wakeAt>>

\* delete(p.cache, key)
Forget ==
  /\ loop = "forget"
  /\ cache' = [k \in DOMAIN cache \ {victim} |-> cache[k]]
  /\ loop' = back
  /\ UNCHANGED <<diskVars, queue, sorted, nextTimestamp, currentSize, toScan, todo,
                 deadline, victim, back, wakeAt>>

----------------------------------------------------------------------------
\* One round of the loop of Expire for a key that is due.
ExpireKey ==
  /\ loop = "expire"
  /\ todo # <<>>
  /\ cache[Head(todo)] <= deadline
  /\ nextTimestamp' = -1
  /\ todo' = Tail(todo)
  /\ RemoveFile(Head(todo), "expire") \/ RemoveFails(Head(todo))
  /\ UNCHANGED <<queue, sorted, toScan, deadline, wakeAt>>

\* Mutant: the break after Expire leaves the for loop too.
ExpireReturn_Ends ==
  /\ loop = "expire"
  /\ todo # <<>> => cache[Head(todo)] > deadline
  /\ loop' = "ended"
  /\ UNCHANGED <<diskVars, queue, cache, sorted, nextTimestamp, currentSize, toScan, todo,
                 deadline, victim, back, wakeAt>>

\* Expire returns at the first key that is not due, or after the last one.
ExpireReturn ==
  /\ loop = "expire"
  /\ todo # <<>> => cache[Head(todo)] > deadline
  /\ nextTimestamp' = IF todo = <<>> THEN nextTimestamp ELSE cache[Head(todo)]
  /\ Sleep(nextTimestamp')
  /\ todo' = <<>>
  /\ UNCHANGED <<diskVars, queue, cache, sorted, currentSize, toScan, deadline, victim, back>>

\* Mutant: the keys are not sorted again.
WakeUp_StaleKeys ==
  /\ loop = "select"
  /\ now >= wakeAt \/ (now = MaxTime /\ queue = <<>>)
  /\ nextTimestamp' = IF sorted = <<>> THEN -1 ELSE nextTimestamp
  /\ StartExpire(SelectSeq(sorted, LAMBDA k : k \in DOMAIN cache))
  /\ UNCHANGED <<diskVars, queue, cache, sorted, currentSize, toScan, victim, back, wakeAt>>

\* case <-time.After(sleepFor).  At the bound of the clock a sleep that nothing
\* else ends has ended.
WakeUp ==
  /\ loop = "select"
  /\ now >= wakeAt \/ (now = MaxTime /\ queue = <<>>)
  /\ sorted' \in SortedKeys(cache)
  /\ nextTimestamp' = GetNextTimestamp(cache, sorted')
  /\ StartExpire(sorted')
  /\ UNCHANGED <<diskVars, queue, cache, currentSize, toScan, victim, back, wakeAt>>

\* case ob := <-p.add, up to the eviction loops
Add ==
  /\ loop = "select"
  /\ queue # <<>>
  /\ LET ob == Head(queue) IN cache' = Cached(ob.key, ob.expires) /\ Count(ob.key)
  /\ sorted' \in SortedKeys(cache')
  /\ nextTimestamp' = GetNextTimestamp(cache', sorted')
  /\ queue' = Tail(queue)
  /\ loop' = "evictItems"
  /\ UNCHANGED <<file, whole, meta, toScan, todo, deadline, victim, back, wakeAt>>

----------------------------------------------------------------------------
\* Mutant: maxitems objects are kept.
TooMany_Exceeded == MaxItems > 0 /\ Cardinality(DOMAIN cache) > MaxItems

TooMany == MaxItems > 0 /\ Cardinality(DOMAIN cache) >= MaxItems

TooLarge == MaxSize > 0 /\ currentSize >= MaxSize

\* RemoveOldest removes the last of the sorted keys and drops two of them.
RemoveOldest(from) ==
  /\ sorted # <<>>
  /\ RemoveFile(Last(sorted), from) \/ RemoveFails(Last(sorted))
  /\ sorted' = SubSeq(sorted, 1, IF Len(sorted) > 2 THEN Len(sorted) - 2 ELSE 0)
  /\ UNCHANGED <<queue, nextTimestamp, toScan, todo, deadline, wakeAt>>

\* RemoveOldest has no keys left to try: the loop goes round forever.
Spin == sorted = <<>> /\ UNCHANGED <<diskVars, queue, loopVars>>

EvictItems == loop = "evictItems" /\ TooMany /\ (RemoveOldest("evictItems") \/ Spin)

EvictSize == loop = "evictSize" /\ TooLarge /\ (RemoveOldest("evictSize") \/ Spin)

EndEvictItems ==
  /\ loop = "evictItems"
  /\ ~TooMany
  /\ loop' = "evictSize"
  /\ UNCHANGED <<diskVars, queue, cache, sorted, nextTimestamp, currentSize, toScan, todo,
                 deadline, victim, back, wakeAt>>

EndEvictSize ==
  /\ loop = "evictSize"
  /\ ~TooLarge
  /\ Sleep(nextTimestamp)
  /\ UNCHANGED <<diskVars, queue, cache, sorted, nextTimestamp, currentSize, toScan, todo,
                 deadline, victim, back>>

LoopStep ==
  \/ ListFiles \/ (\E k \in Keys : ScanFile(k)) \/ EndScan
  \/ ExpireKey \/ ExpireReturn \/ RemoveMetadata \/ Forget
  \/ WakeUp \/ Add
  \/ EvictItems \/ EvictSize \/ EndEvictItems \/ EndEvictSize
=============================================================================
