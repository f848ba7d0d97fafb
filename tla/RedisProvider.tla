---------------------------- MODULE RedisProvider ----------------------------
(***************************************************************************)
(* A Redis provider (redis.go): Get, Put and Update as the sequences of    *)
(* Redis commands they are.  Redis runs one command at a time; the calls   *)
(* of several requests, or of several tilld processes on one database,     *)
(* interleave between commands.  An object is two keys that expire         *)
(* separately: its value and its metadata.  Contents are the call that     *)
(* uploaded them.                                                          *)
(***************************************************************************)
EXTENDS Integers, FiniteSets

CONSTANTS
  Keys,        \* object identifiers
  Calls,       \* HTTP requests served by the provider
  NoCall,      \* the uploader of nothing
  Limits,      \* values of maxitems in the configuration, 0 for no bound
  Operations,  \* the HTTP methods in play
  Lifespans,   \* lifespans that requests ask for
  MaxTime,     \* bound on the clock
  MaxFaults    \* bound on the commands that fail

ASSUME KeysFinite == IsFiniteSet(Keys) /\ IsFiniteSet(Calls)
ASSUME NoCallNew == NoCall \notin Calls
ASSUME OperationsType == Operations \subseteq {"GET", "POST", "PUT"}
ASSUME LifespansNat == Lifespans \subseteq Nat
ASSUME LimitsNat == Limits \subseteq Nat /\ MaxTime \in Nat \ {0} /\ MaxFaults \in Nat

VARIABLES
  maxItems,    \* maxitems of the configuration in force
  now,         \* the clock, in seconds
  value,       \* the keys ::till:value:*, with uploader and time of expiry
  metadata,    \* the keys ::till:metadata:*, likewise
  pc,          \* the next command of the goroutine of each call
  req,         \* method, key and expiry of each call; is its length known
  ttl,         \* the variable expires of each call: seconds still to live
  victim,      \* the key each RemoveOldest is about to delete
  got,         \* what each GET was given: metadata, and the body in two pieces
  answer,      \* what the call returned
  faults,      \* commands that failed so far
  peak         \* history: the most POSTs that were ever past the count at once

storeVars == <<value, metadata>>
callVars == <<req, ttl, victim, got>>
vars == <<maxItems, now, storeVars, pc, callVars, answer, faults, peak>>

Stored == [by : Calls \cup {NoCall}, at : Nat]
Absent == [by |-> NoCall, at |-> 0]

Evicting == {"count", "pick", "del"}
Storing == {"clock", "findMeta", "findValue", "setMeta", "setValue"}
Updating == {"updateClock", "expireMeta", "expireValue"}
Reading == {"exists", "getMeta", "first", "second"}
Running == Evicting \cup Storing \cup Updating \cup Reading

\* The calls that will store without counting again.
Storers == {c \in Calls : pc[c] \in Storing}

TypeOK ==
  /\ maxItems \in Limits
  /\ now \in 1..MaxTime
  /\ value \in [Keys -> Stored]
  /\ metadata \in [Keys -> Stored]
  /\ pc \in [Calls -> Running \cup {"idle", "done"}]
  /\ req \in [Calls -> [op : Operations, key : Keys, expires : Nat, sized : BOOLEAN]]
  /\ ttl \in [Calls -> Int]
  /\ victim \in [Calls -> Keys]
  /\ got \in [Calls -> [{"metadata", "first", "second"} -> Calls \cup {NoCall}]]
  /\ answer \in [Calls -> {"none", "stored", "updated", "failed", "panicked", "missing", "found"}]
  /\ faults \in 0..MaxFaults
  /\ peak \in Nat

Nothing == [piece \in {"metadata", "first", "second"} |-> NoCall]

Init ==
  /\ maxItems \in Limits
  /\ now = 1
  /\ value = [k \in Keys |-> Absent]
  /\ metadata = [k \in Keys |-> Absent]
  /\ pc = [c \in Calls |-> "idle"]
  /\ \E o \in Operations, k \in Keys :
       /\ req = [c \in Calls |-> [op |-> o, key |-> k, expires |-> 0, sized |-> TRUE]]
       /\ victim = [c \in Calls |-> k]
  /\ ttl = [c \in Calls |-> 0]
  /\ got = [c \in Calls |-> Nothing]
  /\ answer = [c \in Calls |-> "none"]
  /\ faults = 0
  /\ peak = 0

----------------------------------------------------------------------------
(* What Redis does with a command. *)

Has(store, k) == store[k].by # NoCall
Live == {k \in Keys : Has(value, k)}

\* SETEX sets content and time to live together.
SetEx(store, k, c, seconds) == [store EXCEPT ![k] = [by |-> c, at |-> now + seconds]]

\* EXPIRE ignores a missing key, and deletes one whose time to live is not positive.
Expire(store, k, seconds) ==
  IF ~Has(store, k) THEN store
  ELSE [store EXCEPT ![k] = IF seconds > 0 THEN [@ EXCEPT !.at = now + seconds] ELSE Absent]

Del(store, k) == [store EXCEPT ![k] = Absent]

\* Keys whose time has come are gone.
Expired(store, time) ==
  [k \in Keys |-> IF Has(store, k) /\ store[k].at <= time THEN Absent ELSE store[k]]

----------------------------------------------------------------------------
(* Steps of a goroutine; each ends with the reply to its command. *)

GoTo(c, step) ==
  /\ pc' = [pc EXCEPT ![c] = step]
  /\ UNCHANGED answer

Return(c, result) ==
  /\ pc' = [pc EXCEPT ![c] = "done"]
  /\ answer' = [answer EXCEPT ![c] = result]

Fails ==
  /\ faults < MaxFaults
  /\ faults' = faults + 1

\* The reply of a command that was executed can be lost.
Replied(c, step) ==
  \/ /\ GoTo(c, step)
     /\ UNCHANGED faults
  \/ /\ Fails
     /\ Return(c, "failed")

\* A request reaches the provider.
Start(c) ==
  /\ pc[c] = "idle"
  /\ \E o \in Operations, k \in Keys, lifespan \in Lifespans, sized \in BOOLEAN :
       /\ sized \/ o = "POST"
       /\ req' = [req EXCEPT ![c] =
                    [op |-> o, key |-> k, sized |-> sized,
                     expires |-> IF o = "GET" THEN 0 ELSE now + lifespan]]
       /\ GoTo(c, IF o = "GET" THEN "exists" ELSE IF o = "PUT" THEN "updateClock" ELSE "count")
  /\ UNCHANGED <<maxItems, now, storeVars, ttl, victim, got, faults, peak>>

\* Mutant: the new object is not counted.
Full_OffByOne == maxItems > 0 /\ Cardinality(Live) > maxItems

\* Mutant: the comparison includes the limit.
Full_AtLimit == maxItems > 0 /\ Cardinality(Live) + 1 >= maxItems

\* GetObjectCount, and the test of the loop that makes room.
Full == maxItems > 0 /\ Cardinality(Live) + 1 > maxItems

\* The loop that makes room has ended: the call joins the Storers.
Admit(c) ==
  /\ GoTo(c, "clock")
  /\ peak' = IF Cardinality(Storers) + 1 > peak THEN Cardinality(Storers) + 1 ELSE peak

Count(c) ==
  /\ pc[c] = "count"
  /\ \/ /\ Full
        /\ GoTo(c, "pick")
        /\ UNCHANGED peak
     \/ /\ ~Full
        /\ Admit(c)
  /\ UNCHANGED <<maxItems, now, storeVars, callVars, faults>>

\* The script of RemoveOldest takes the first key of a list in no order; when
\* the list is empty, or a command fails, Put counts again.
Pick(c) ==
  /\ pc[c] = "pick"
  /\ \/ \E k \in Live :
          /\ victim' = [victim EXCEPT ![c] = k]
          /\ GoTo(c, "del")
     \/ /\ Live = {}
        /\ GoTo(c, "count")
        /\ UNCHANGED victim
  /\ UNCHANGED <<maxItems, now, storeVars, req, ttl, got, faults, peak>>

DelVictim(c) ==
  /\ pc[c] = "del"
  /\ value' = Del(value, victim[c])
  /\ metadata' = Del(metadata, victim[c])
  /\ GoTo(c, "count")
  /\ UNCHANGED <<maxItems, now, callVars, faults, peak>>

\* Put and Update compute what is left of the lifespan.
Clock(c, step, next) ==
  /\ pc[c] = step
  /\ ttl' = [ttl EXCEPT ![c] = req[c].expires - now]
  /\ GoTo(c, next)
  /\ UNCHANGED <<maxItems, now, storeVars, req, victim, got, faults, peak>>
PutClock(c) == Clock(c, "clock", "findMeta")

\* Mutant: Update takes the time to live it was left with.
UpdateClock_Stale(c) ==
  /\ pc[c] = "updateClock"
  /\ GoTo(c, "expireMeta")
  /\ UNCHANGED <<maxItems, now, storeVars, callVars, faults, peak>>

UpdateClock(c) == Clock(c, "updateClock", "expireMeta")

\* Put updates an object of which it finds either key.
FindMeta(c) ==
  /\ pc[c] = "findMeta"
  /\ GoTo(c, IF Has(metadata, req[c].key) THEN "updateClock" ELSE "findValue")
  /\ UNCHANGED <<maxItems, now, storeVars, callVars, faults, peak>>

\* Mutant: an object without metadata is taken for none.
FindValue_Skipped(c) ==
  /\ pc[c] = "findValue"
  /\ GoTo(c, "setMeta")
  /\ UNCHANGED <<maxItems, now, storeVars, callVars, faults, peak>>

FindValue(c) ==
  /\ pc[c] = "findValue"
  /\ GoTo(c, IF Has(value, req[c].key) THEN "updateClock" ELSE "setMeta")
  /\ UNCHANGED <<maxItems, now, storeVars, callVars, faults, peak>>

SetMeta(c) ==
  /\ pc[c] = "setMeta"
  /\ ttl[c] > 0
  /\ metadata' = SetEx(metadata, req[c].key, c, ttl[c])
  /\ Replied(c, "setValue")
  /\ UNCHANGED <<maxItems, now, value, callVars, peak>>

\* SETEX refuses a lifespan that has passed.
SetMetaRefused(c) ==
  /\ pc[c] = "setMeta"
  /\ ttl[c] <= 0
  /\ Return(c, "failed")
  /\ UNCHANGED <<maxItems, now, storeVars, callVars, faults, peak>>

\* Without Content-Length the length is -1, and make([]byte, -1) panics.
PutPanic(c) ==
  /\ pc[c] = "setValue"
  /\ ~req[c].sized
  /\ Return(c, "panicked")
  /\ UNCHANGED <<maxItems, now, storeVars, callVars, faults, peak>>

SetValue(c) ==
  /\ pc[c] = "setValue"
  /\ req[c].sized
  /\ value' = SetEx(value, req[c].key, c, ttl[c])
  /\ \/ /\ Return(c, "stored")
        /\ UNCHANGED faults
     \/ /\ Fails
        /\ Return(c, "failed")
  /\ UNCHANGED <<maxItems, now, metadata, callVars, peak>>

ExpireMeta(c) ==
  /\ pc[c] = "expireMeta"
  /\ metadata' = Expire(metadata, req[c].key, ttl[c])
  /\ Replied(c, "expireValue")
  /\ UNCHANGED <<maxItems, now, value, callVars, peak>>

ExpireValue(c) ==
  /\ pc[c] = "expireValue"
  /\ value' = Expire(value, req[c].key, ttl[c])
  /\ \/ /\ Return(c, "updated")
        /\ UNCHANGED faults
     \/ /\ Fails
        /\ Return(c, "failed")
  /\ UNCHANGED <<maxItems, now, metadata, callVars, peak>>

Exists(c) ==
  /\ pc[c] = "exists"
  /\ IF Has(value, req[c].key) THEN GoTo(c, "getMeta") ELSE Return(c, "missing")
  /\ UNCHANGED <<maxItems, now, storeVars, callVars, faults, peak>>

\* A missing metadata string is no error; the handler streams the body with
\* one GETRANGE per piece, and an empty piece ends it.
Fetch(c, step, piece, store, next) ==
  /\ pc[c] = step
  /\ got' = [got EXCEPT ![c][piece] = store[req[c].key].by]
  /\ IF next = "done" \/ (piece = "first" /\ ~Has(store, req[c].key))
     THEN Return(c, "found")
     ELSE GoTo(c, next)
  /\ UNCHANGED <<maxItems, now, storeVars, req, ttl, victim, faults, peak>>
GetMeta(c) == Fetch(c, "getMeta", "metadata", metadata, "first")
ReadFirst(c) == Fetch(c, "first", "first", value, "second")

\* Mutant: reading goes on behind the end.
ReadSecond_Endless(c) == Fetch(c, "second", "second", value, "third")

ReadSecond(c) == Fetch(c, "second", "second", value, "done")

\* A command that was not executed: RemoveOldest and the reads of a GET go on,
\* everything else gives up.
Fault(c) ==
  /\ Fails
  /\ \/ pc[c] \in {"pick", "del"} /\ GoTo(c, "count")
     \/ pc[c] = "getMeta" /\ GoTo(c, "first")
     \/ pc[c] \in {"first", "second"} /\ Return(c, "found")
     \/ pc[c] \in {"count", "exists", "findMeta", "findValue", "setMeta",
                   "expireMeta", "expireValue"} /\ Return(c, "failed")
     \/ pc[c] = "setValue" /\ req[c].sized /\ Return(c, "failed")
  /\ UNCHANGED <<maxItems, now, storeVars, callVars, peak>>

Tick ==
  /\ now < MaxTime
  /\ now' = now + 1
  /\ value' = Expired(value, now + 1)
  /\ metadata' = Expired(metadata, now + 1)
  /\ UNCHANGED <<maxItems, pc, callVars, answer, faults, peak>>

CallStep(c) ==
  \/ Count(c) \/ Pick(c) \/ DelVictim(c)
  \/ PutClock(c) \/ FindMeta(c) \/ FindValue(c)
  \/ SetMeta(c) \/ SetMetaRefused(c) \/ PutPanic(c) \/ SetValue(c)
  \/ UpdateClock(c) \/ ExpireMeta(c) \/ ExpireValue(c)
  \/ Exists(c) \/ GetMeta(c) \/ ReadFirst(c) \/ ReadSecond(c)

Next ==
  \/ \E c \in Calls : Start(c) \/ CallStep(c) \/ Fault(c)
  \/ Tick

Fairness ==
  /\ \A c \in Calls : WF_vars(CallStep(c))
  /\ WF_vars(Tick)

Spec == Init /\ [][Next]_vars /\ Fairness

----------------------------------------------------------------------------
(* A POST counts the items before it stores its own, so that several POSTs at *)
(* once can exceed maxitems (redis.go:201-262), but by no more than the others *)
(* that were under way: with one POST at a time the bound holds.              *)
ItemsBounded == maxItems > 0 => Cardinality(Live) < maxItems + peak

(* An object is replaced only by a POST that raced with another one: Put      *)
(* looks for both keys before it stores (redis.go:221-236), because the        *)
(* metadata, set first, expires first.                                         *)
Replaced(k) == Has(value, k) /\ value'[k].by \notin {value[k].by, NoCall}
ReplacedOnlyInRace == [][\A k \in Keys : Replaced(k) => peak > 1]_vars

(* An object disappears by eviction, or when an expiry has come that some      *)
(* request for it asked for, although Put and Update give Redis a number of    *)
(* seconds that counts from the moment of the command (redis.go:217-262).      *)
AskedFor(k, time) ==
  \E c \in Calls : pc[c] # "idle" /\ req[c].op # "GET" /\ req[c].key = k /\ req[c].expires <= time
Evicts(k) == \E c \in Calls : victim[c] = k /\ DelVictim(c)
RemovedWhenDue ==
  [][\A k \in Keys : Has(value, k) /\ ~Has(value', k) => Evicts(k) \/ AskedFor(k, now')]_vars

(* Every call returns, although Put makes room until the count allows it and   *)
(* others store meanwhile (redis.go:203-214).                                  *)
EveryCallReturns == []<>(\A c \in Calls : pc[c] \notin Running)

(* What a GET hands out of the body comes from one upload, objects being       *)
(* immutable.  It does not: the value can be evicted or expire and be stored   *)
(* again between two pieces (redis.go:331-340).                                *)
GetServesOneUpload ==
  \A c \in Calls : NoCall \in {got[c]["first"], got[c]["second"]} \/ got[c]["first"] = got[c]["second"]
=============================================================================
