------------------------ MODULE RedisProvider_proofs ------------------------
(***************************************************************************)
(* Proofs about RedisProvider for any keys, calls, limits and faults: the  *)
(* types, how far concurrent POSTs overshoot maxitems, and that no object  *)
(* goes before an expiry somebody asked for.                               *)
(***************************************************************************)
EXTENDS RedisProvider, FiniteSetTheorems, TLAPS

\* The steps between the clock and the last command that uses what it gave.
Timed == {"findMeta", "findValue", "setMeta", "setValue", "expireMeta", "expireValue"}
Writing == Evicting \cup Storing \cup Updating

\* Only POST and PUT get to the steps that write.  A time to live was computed
\* now or earlier, so that it reaches the expiry asked for or beyond.
Requested ==
  \A c \in Calls :
    /\ pc[c] \in Writing => req[c].op # "GET"
    /\ pc[c] \in Timed => req[c].expires <= now + ttl[c]

\* Each stored value lives as long as some request asked for.
Sourced == \A k \in Keys : Has(value, k) => AskedFor(k, value[k].at)

\* The items, and those the storers may still add, fit below the limit but
\* for the storers that were under way at once.
Room == maxItems > 0 => Cardinality(Live) + Cardinality(Storers) < maxItems + peak

----------------------------------------------------------------------------
\* The initial state has the types.
LEMMA InitTypeOK == Init => TypeOK
<1> SUFFICES ASSUME Init PROVE TypeOK
  OBVIOUS
<1>1. PICK o \in Operations, k \in Keys :
        /\ req = [c \in Calls |-> [op |-> o, key |-> k, expires |-> 0, sized |-> TRUE]]
        /\ victim = [c \in Calls |-> k]
  BY DEF Init
<1> QED  BY <1>1, LimitsNat DEF Init, TypeOK, Stored, Absent, Nothing

\* A key set, prolonged, deleted or expired is still a key of Redis.
LEMMA StoreTypes ==
  ASSUME TypeOK, NEW store \in [Keys -> Stored], NEW k \in Keys, NEW c \in Calls,
         NEW seconds \in Int
  PROVE  /\ seconds > 0 => SetEx(store, k, c, seconds) \in [Keys -> Stored]
         /\ Expire(store, k, seconds) \in [Keys -> Stored]
         /\ Del(store, k) \in [Keys -> Stored]
         /\ Expired(store, now + 1) \in [Keys -> Stored]
<1>1. Absent \in Stored /\ now \in Nat
  BY LimitsNat DEF Absent, Stored, TypeOK
<1>2. seconds > 0 => [by |-> c, at |-> now + seconds] \in Stored
  BY <1>1 DEF Stored
<1>3. seconds > 0 => [store[k] EXCEPT !.at = now + seconds] \in Stored
  BY <1>1 DEF Stored
<1> QED  BY <1>1, <1>2, <1>3 DEF SetEx, Expire, Del, Expired

\* Where the calls are, without what they work with.
Progress ==
  /\ pc \in [Calls -> Running \cup {"idle", "done"}]
  /\ answer \in [Calls -> {"none", "stored", "updated", "failed", "panicked", "missing", "found"}]
  /\ faults \in 0..MaxFaults

\* A step of a call takes it to a place where calls can be.
LEMMA CallProgress ==
  ASSUME Progress, NEW c \in Calls, Start(c) \/ CallStep(c) \/ Fault(c)
  PROVE  Progress'
<1> USE LimitsNat DEF Progress, Running, Evicting, Storing, Updating, Reading
<1>1. ASSUME NEW step \in Running, GoTo(c, step), UNCHANGED faults PROVE Progress'
  BY <1>1 DEF GoTo
<1>2. ASSUME NEW result \in {"stored", "updated", "failed", "panicked", "missing", "found"},
             Return(c, result), UNCHANGED faults \/ Fails
      PROVE  Progress'
  BY <1>2 DEF Return, Fails
<1>3. ASSUME NEW step \in Running, Replied(c, step) PROVE Progress'
  BY <1>1, <1>2, <1>3 DEF Replied
<1>4. ASSUME NEW step \in Running, GoTo(c, step), Fails PROVE Progress'
  BY <1>4 DEF GoTo, Fails
<1>5. CASE Start(c)
  BY <1>5, <1>1 DEF Start
<1>6. CASE Count(c) \/ Pick(c) \/ DelVictim(c) \/ PutClock(c) \/ UpdateClock(c)
  BY <1>6, <1>1 DEF Count, Admit, Pick, DelVictim, PutClock, UpdateClock, Clock
<1>7. CASE FindMeta(c) \/ FindValue(c)
  BY <1>7, <1>1 DEF FindMeta, FindValue
<1>8. CASE SetMeta(c) \/ SetMetaRefused(c) \/ PutPanic(c) \/ SetValue(c)
  BY <1>8, <1>2, <1>3 DEF SetMeta, SetMetaRefused, PutPanic, SetValue
<1>9. CASE ExpireMeta(c) \/ ExpireValue(c)
  BY <1>9, <1>2, <1>3 DEF ExpireMeta, ExpireValue
<1>10. CASE Exists(c)
  BY <1>10, <1>1, <1>2 DEF Exists
<1>11. CASE GetMeta(c) \/ ReadFirst(c) \/ ReadSecond(c)
  BY <1>11, <1>1, <1>2 DEF GetMeta, ReadFirst, ReadSecond, Fetch
<1>12. CASE Fault(c)
  BY <1>12, <1>2, <1>4 DEF Fault
<1> QED
  BY <1>5, <1>6, <1>7, <1>8, <1>9, <1>10, <1>11, <1>12 DEF CallStep

\* SETEX of the value is reached with a positive time to live only.
Positive == \A c \in Calls : pc[c] = "setValue" => ttl[c] > 0

\* Every step of a call leaves the types as they are.
LEMMA CallTypeOK ==
  ASSUME TypeOK, Positive, NEW c \in Calls, Start(c) \/ CallStep(c) \/ Fault(c)
  PROVE  TypeOK'
<1> DEFINE Requests == [op : Operations, key : Keys, expires : Nat, sized : BOOLEAN]
           Pieces == {"metadata", "first", "second"}
<1>1. Progress'
  BY CallProgress DEF Progress, TypeOK
<1>2. now \in Nat /\ req[c].key \in Keys /\ req[c].expires \in Nat /\ victim[c] \in Keys
      /\ ttl[c] \in Int
  BY LimitsNat DEF TypeOK
<1>3. maxItems' \in Limits /\ now' \in 1..MaxTime
  BY DEF TypeOK, Start, CallStep, Fault, Count, Pick, DelVictim, PutClock, UpdateClock, Clock,
         FindMeta, FindValue, SetMeta, SetMetaRefused, PutPanic, SetValue, ExpireMeta,
         ExpireValue, Exists, GetMeta, ReadFirst, ReadSecond, Fetch
<1>4. req' \in [Calls -> Requests]
  <2>1. CASE Start(c)
    <3>1. PICK o \in Operations, k \in Keys, lifespan \in Lifespans, sized \in BOOLEAN :
            req' = [req EXCEPT ![c] =
                      [op |-> o, key |-> k, sized |-> sized,
                       expires |-> IF o = "GET" THEN 0 ELSE now + lifespan]]
      BY <2>1 DEF Start
    <3>2. (IF o = "GET" THEN 0 ELSE now + lifespan) \in Nat
      BY <1>2, LifespansNat
    <3> QED  BY <3>1, <3>2 DEF TypeOK
  <2>2. CASE ~Start(c)
    BY <2>2
       DEF TypeOK, CallStep, Fault, Count, Pick, DelVictim, PutClock, UpdateClock, Clock,
           FindMeta, FindValue, SetMeta, SetMetaRefused, PutPanic, SetValue, ExpireMeta,
           ExpireValue, Exists, GetMeta, ReadFirst, ReadSecond, Fetch, callVars
  <2> QED  BY <2>1, <2>2
<1>5. value' \in [Keys -> Stored] /\ metadata' \in [Keys -> Stored]
  <2>1. value \in [Keys -> Stored] /\ metadata \in [Keys -> Stored]
    BY DEF TypeOK
  <2>2. CASE DelVictim(c)
    BY <1>2, <2>1, <2>2, StoreTypes DEF DelVictim
  <2>3. CASE SetMeta(c) \/ SetValue(c)
    <3>1. ttl[c] > 0
      BY <2>3 DEF SetMeta, SetValue, Positive
    <3>2. SetEx(value, req[c].key, c, ttl[c]) \in [Keys -> Stored]
          /\ SetEx(metadata, req[c].key, c, ttl[c]) \in [Keys -> Stored]
      BY <1>2, <2>1, <3>1, StoreTypes
    <3> QED  BY <2>1, <2>3, <3>2 DEF SetMeta, SetValue
  <2>4. CASE ExpireMeta(c) \/ ExpireValue(c)
    <3>1. Expire(value, req[c].key, ttl[c]) \in [Keys -> Stored]
          /\ Expire(metadata, req[c].key, ttl[c]) \in [Keys -> Stored]
      BY <1>2, <2>1, StoreTypes
    <3> QED  BY <2>1, <2>4, <3>1 DEF ExpireMeta, ExpireValue
  <2>5. UNCHANGED storeVars \/ DelVictim(c) \/ SetMeta(c) \/ SetValue(c) \/ ExpireMeta(c)
        \/ ExpireValue(c)
    BY DEF Start, CallStep, Fault, Count, Pick, PutClock, UpdateClock, Clock, FindMeta,
           FindValue, SetMetaRefused, PutPanic, Exists, GetMeta, ReadFirst, ReadSecond, Fetch
  <2> QED  BY <2>1, <2>2, <2>3, <2>4, <2>5 DEF storeVars
<1>6. ttl' \in [Calls -> Int] /\ victim' \in [Calls -> Keys]
  <2>1. UNCHANGED ttl \/ ttl' = [ttl EXCEPT ![c] = req[c].expires - now]
    BY DEF Start, CallStep, Fault, Count, Pick, DelVictim, PutClock, UpdateClock, Clock,
           FindMeta, FindValue, SetMeta, SetMetaRefused, PutPanic, SetValue, ExpireMeta,
           ExpireValue, Exists, GetMeta, ReadFirst, ReadSecond, Fetch, callVars
  <2>2. UNCHANGED victim \/ \E k \in Keys : victim' = [victim EXCEPT ![c] = k]
    BY DEF Start, CallStep, Fault, Count, Pick, DelVictim, PutClock, UpdateClock, Clock,
           FindMeta, FindValue, SetMeta, SetMetaRefused, PutPanic, SetValue, ExpireMeta,
           ExpireValue, Exists, GetMeta, ReadFirst, ReadSecond, Fetch, callVars, Live
  <2> QED  BY <1>2, <2>1, <2>2 DEF TypeOK
<1>7. got' \in [Calls -> [Pieces -> Calls \cup {NoCall}]]
  <2>1. UNCHANGED got
        \/ \E piece \in Pieces, store \in {value, metadata} :
             got' = [got EXCEPT ![c][piece] = store[req[c].key].by]
    BY DEF Start, CallStep, Fault, Count, Pick, DelVictim, PutClock, UpdateClock, Clock,
           FindMeta, FindValue, SetMeta, SetMetaRefused, PutPanic, SetValue, ExpireMeta,
           ExpireValue, Exists, GetMeta, ReadFirst, ReadSecond, Fetch, callVars
  <2>2. \A store \in {value, metadata} : store[req[c].key].by \in Calls \cup {NoCall}
    BY <1>2 DEF TypeOK, Stored
  <2>3. ASSUME NEW piece \in Pieces, NEW u \in Calls \cup {NoCall},
               got' = [got EXCEPT ![c][piece] = u]
        PROVE  got' \in [Calls -> [Pieces -> Calls \cup {NoCall}]]
    <3>1. [got[c] EXCEPT ![piece] = u] \in [Pieces -> Calls \cup {NoCall}]
      BY DEF TypeOK
    <3>2. got' = [got EXCEPT ![c] = [got[c] EXCEPT ![piece] = u]]
      BY <2>3
    <3> QED  BY <3>1, <3>2 DEF TypeOK
  <2> QED  BY <2>1, <2>2, <2>3 DEF TypeOK
<1>8. peak' \in Nat
  <2>1. Cardinality(Storers) \in Nat
    BY KeysFinite, FS_Subset, FS_CardinalityType DEF Storers
  <2>2. UNCHANGED peak \/ peak' = Cardinality(Storers) + 1
    BY DEF Start, CallStep, Fault, Count, Admit, Pick, DelVictim, PutClock, UpdateClock, Clock,
           FindMeta, FindValue, SetMeta, SetMetaRefused, PutPanic, SetValue, ExpireMeta,
           ExpireValue, Exists, GetMeta, ReadFirst, ReadSecond, Fetch
  <2> QED  BY <2>1, <2>2 DEF TypeOK
<1> QED  BY <1>1, <1>3, <1>4, <1>5, <1>6, <1>7, <1>8 DEF TypeOK, Progress

----------------------------------------------------------------------------
Inv == TypeOK /\ Positive /\ Requested /\ Sourced /\ Room

\* A step of a call touches no other call.
LEMMA OthersUntouched ==
  ASSUME TypeOK, NEW c \in Calls, Start(c) \/ CallStep(c) \/ Fault(c), NEW d \in Calls \ {c}
  PROVE  pc'[d] = pc[d] /\ ttl'[d] = ttl[d] /\ req'[d] = req[d]
<1>1. \E step \in Running \cup {"done"} : pc' = [pc EXCEPT ![c] = step]
  BY DEF Start, CallStep, Fault, Count, Admit, Pick, DelVictim, PutClock, UpdateClock, Clock,
         FindMeta, FindValue, SetMeta, SetMetaRefused, PutPanic, SetValue, ExpireMeta,
         ExpireValue, Exists, GetMeta, ReadFirst, ReadSecond, Fetch, GoTo, Return, Replied,
         Running, Evicting, Storing, Updating, Reading
<1>2. UNCHANGED ttl \/ ttl' = [ttl EXCEPT ![c] = req[c].expires - now]
  BY DEF Start, CallStep, Fault, Count, Pick, DelVictim, PutClock, UpdateClock, Clock,
         FindMeta, FindValue, SetMeta, SetMetaRefused, PutPanic, SetValue, ExpireMeta,
         ExpireValue, Exists, GetMeta, ReadFirst, ReadSecond, Fetch, callVars
<1>3. UNCHANGED req \/ \E r : req' = [req EXCEPT ![c] = r]
  BY DEF Start, CallStep, Fault, Count, Pick, DelVictim, PutClock, UpdateClock, Clock,
         FindMeta, FindValue, SetMeta, SetMetaRefused, PutPanic, SetValue, ExpireMeta,
         ExpireValue, Exists, GetMeta, ReadFirst, ReadSecond, Fetch, callVars
<1> QED  BY <1>1, <1>2, <1>3 DEF TypeOK

\* A call keeps what it asked for from its start on.
LEMMA RequestKept ==
  ASSUME TypeOK, NEW c \in Calls, CallStep(c) \/ Fault(c)
  PROVE  UNCHANGED req /\ pc[c] # "idle" /\ pc'[c] # "idle"
BY DEF TypeOK, CallStep, Fault, Count, Admit, Pick, DelVictim, PutClock, UpdateClock, Clock,
       FindMeta, FindValue, SetMeta, SetMetaRefused, PutPanic, SetValue, ExpireMeta,
       ExpireValue, Exists, GetMeta, ReadFirst, ReadSecond, Fetch, GoTo, Return, Replied, callVars

\* What has been asked for stays asked for.
LEMMA AskedForStable ==
  ASSUME TypeOK, [Next]_vars, NEW k \in Keys, NEW e \in Nat, AskedFor(k, e)
  PROVE  AskedFor(k, e)'
<1>1. PICK d \in Calls : pc[d] # "idle" /\ req[d].op # "GET" /\ req[d].key = k /\ req[d].expires <= e
  BY DEF AskedFor
<1>2. pc'[d] # "idle" /\ req'[d] = req[d]
  <2>1. ASSUME NEW c \in Calls, Start(c) \/ CallStep(c) \/ Fault(c)
        PROVE  pc'[d] # "idle" /\ req'[d] = req[d]
    <3>1. CASE c # d  BY <1>1, <2>1, <3>1, OthersUntouched
    <3>2. CASE c = d
      <4>1. ~Start(c)  BY <1>1, <3>2 DEF Start
      <4> QED  BY <2>1, <3>2, <4>1, RequestKept
    <3> QED  BY <3>1, <3>2
  <2>2. CASE Tick  BY <1>1, <2>2 DEF Tick, callVars
  <2>3. CASE UNCHANGED vars  BY <1>1, <2>3 DEF vars, callVars
  <2> QED  BY <2>1, <2>2, <2>3 DEF Next
<1> QED  BY <1>1, <1>2 DEF AskedFor

\* Every step keeps the types, given that lives are positive.
LEMMA StepTypeOK ==
  ASSUME TypeOK, Positive, [Next]_vars
  PROVE  TypeOK'
<1>1. ASSUME NEW c \in Calls, Start(c) \/ CallStep(c) \/ Fault(c) PROVE TypeOK'
  BY <1>1, CallTypeOK
<1>2. CASE Tick
  <2>1. value' \in [Keys -> Stored] /\ metadata' \in [Keys -> Stored]
    <3>1. Absent \in Stored
      BY DEF Absent, Stored
    <3> QED  BY <1>2, <3>1 DEF Tick, TypeOK, Expired
  <2>2. now' \in 1..MaxTime
    BY <1>2, LimitsNat DEF Tick, TypeOK
  <2> QED  BY <1>2, <2>1, <2>2 DEF Tick, TypeOK, callVars
<1>3. CASE UNCHANGED vars
  BY <1>3 DEF vars, callVars, storeVars, TypeOK
<1> QED  BY <1>1, <1>2, <1>3 DEF Next

\* Every step keeps Positive: a call that has no positive life left does not reach SETEX.
LEMMA StepPositive ==
  ASSUME TypeOK, Positive, [Next]_vars
  PROVE  Positive'
<1>1. ASSUME NEW c \in Calls, Start(c) \/ CallStep(c) \/ Fault(c) PROVE Positive'
  <2>1. pc'[c] = "setValue" => SetMeta(c)
    BY <1>1
       DEF TypeOK, Start, CallStep, Fault, Count, Admit, Pick, DelVictim, PutClock,
           UpdateClock, Clock, FindMeta, FindValue, SetMetaRefused, PutPanic,
           SetValue, ExpireMeta, ExpireValue, Exists, GetMeta, ReadFirst, ReadSecond, Fetch,
           GoTo, Return, Replied
  <2>2. pc'[c] = "setValue" => ttl'[c] > 0
    BY <2>1 DEF SetMeta, callVars
  <2> QED  BY <1>1, <2>2, OthersUntouched DEF Positive
<1>2. CASE Tick  BY <1>2 DEF Tick, callVars, Positive
<1>3. CASE UNCHANGED vars  BY <1>3 DEF vars, callVars, Positive
<1> QED  BY <1>1, <1>2, <1>3 DEF Next

\* Every step keeps Requested: the life that a call computes lasts to the expiry it was asked for.
LEMMA StepRequested ==
  ASSUME TypeOK, Requested, [Next]_vars
  PROVE  Requested'
<1>1. ASSUME NEW c \in Calls, Start(c) \/ CallStep(c) \/ Fault(c) PROVE Requested'
  <2>1. /\ pc'[c] \in Writing => req'[c].op # "GET"
        /\ pc'[c] \in Timed => req'[c].expires <= now' + ttl'[c]
    <3> USE DEF Writing, Evicting, Storing, Updating, Timed, GoTo, Return, Replied, callVars
    <3>0. req[c].expires \in Nat /\ now \in Nat /\ ttl[c] \in Int
      BY LimitsNat DEF TypeOK
    <3>1. CASE Start(c)
      BY <3>1 DEF Start, TypeOK
    <3>2. CASE Count(c) \/ Pick(c) \/ DelVictim(c)
      BY <3>2 DEF Count, Admit, Pick, DelVictim, TypeOK, Requested
    <3>3. CASE PutClock(c) \/ UpdateClock(c)
      BY <3>0, <3>3 DEF PutClock, UpdateClock, Clock, TypeOK, Requested
    <3>4. CASE FindMeta(c) \/ FindValue(c)
      BY <3>4 DEF FindMeta, FindValue, TypeOK, Requested
    <3>5. CASE SetMeta(c) \/ SetMetaRefused(c) \/ PutPanic(c) \/ SetValue(c)
      BY <3>5 DEF SetMeta, SetMetaRefused, PutPanic, SetValue, TypeOK, Requested
    <3>6. CASE ExpireMeta(c) \/ ExpireValue(c)
      BY <3>6 DEF ExpireMeta, ExpireValue, TypeOK, Requested
    <3>7. CASE Exists(c) \/ GetMeta(c) \/ ReadFirst(c) \/ ReadSecond(c)
      BY <3>7 DEF Exists, GetMeta, ReadFirst, ReadSecond, Fetch, TypeOK
    <3>8. CASE Fault(c)
      BY <3>8 DEF Fault, TypeOK, Requested
    <3> QED
      BY <1>1, <3>1, <3>2, <3>3, <3>4, <3>5, <3>6, <3>7, <3>8 DEF CallStep
  <2>2. UNCHANGED now
    BY <1>1
       DEF Start, CallStep, Fault, Count, Pick, DelVictim, PutClock, UpdateClock, Clock,
           FindMeta, FindValue, SetMeta, SetMetaRefused, PutPanic, SetValue, ExpireMeta,
           ExpireValue, Exists, GetMeta, ReadFirst, ReadSecond, Fetch
  <2> QED  BY <1>1, <2>1, <2>2, OthersUntouched DEF Requested
<1>2. CASE Tick
  <2>1. \A c \in Calls : req[c].expires \in Nat /\ now \in Nat /\ ttl[c] \in Int
    BY LimitsNat DEF TypeOK
  <2> QED  BY <1>2, <2>1 DEF Tick, callVars, Requested
<1>3. CASE UNCHANGED vars  BY <1>3 DEF vars, callVars, Requested
<1> QED  BY <1>1, <1>2, <1>3 DEF Next

\* Where a stored value comes from: it was there, or its call just wrote it.
LEMMA ValueOrigin ==
  ASSUME TypeOK, [Next]_vars, NEW k \in Keys, Has(value', k)
  PROVE  \/ value'[k] = value[k]
         \/ \E c \in Calls : /\ SetValue(c) \/ ExpireValue(c)
                             /\ req[c].key = k
                             /\ value'[k].at = now + ttl[c]
<1>1. UNCHANGED value \/ Tick \/ \E c \in Calls : DelVictim(c) \/ SetValue(c) \/ ExpireValue(c)
  BY DEF Next, vars, storeVars, Start, CallStep, Fault, Count, Pick, PutClock, UpdateClock, Clock,
         FindMeta, FindValue, SetMeta, SetMetaRefused, PutPanic, ExpireMeta, Exists, GetMeta,
         ReadFirst, ReadSecond, Fetch
<1>2. CASE Tick  BY <1>2 DEF Tick, Expired, Has, Absent, TypeOK
<1>3. ASSUME NEW c \in Calls, DelVictim(c) PROVE value'[k] = value[k]
  BY <1>3 DEF DelVictim, Del, Has, Absent, TypeOK
<1>4. ASSUME NEW c \in Calls, SetValue(c)
      PROVE  value'[k] = value[k] \/ (req[c].key = k /\ value'[k].at = now + ttl[c])
  BY <1>4 DEF SetValue, SetEx, TypeOK
<1>5. ASSUME NEW c \in Calls, ExpireValue(c)
      PROVE  value'[k] = value[k] \/ (req[c].key = k /\ value'[k].at = now + ttl[c])
  <2>1. CASE req[c].key # k  BY <1>5, <2>1 DEF ExpireValue, Expire, TypeOK
  <2>2. CASE req[c].key = k /\ Has(value, k)
    <3>1. value' = [value EXCEPT ![k] = IF ttl[c] > 0 THEN [value[k] EXCEPT !.at = now + ttl[c]]
                                        ELSE Absent]
      BY <1>5, <2>2 DEF ExpireValue, Expire
    <3>2. ttl[c] > 0
      BY <3>1 DEF Has, Absent, TypeOK
    <3>3. value'[k] = [value[k] EXCEPT !.at = now + ttl[c]] /\ value[k] \in Stored
      BY <3>1, <3>2 DEF TypeOK
    <3> QED  BY <2>2, <3>3 DEF Stored
  <2>3. CASE req[c].key = k /\ ~Has(value, k)
    BY <1>5, <2>3 DEF ExpireValue, Expire
  <2> QED  BY <2>1, <2>2, <2>3
<1> QED  BY <1>1, <1>2, <1>3, <1>4, <1>5

\* Put and Update give a value a time to live that some request asked for.
LEMMA StepSourced ==
  ASSUME Inv, [Next]_vars
  PROVE  Sourced'
<1> USE DEF Inv
<1>1. TypeOK'  BY StepTypeOK
<1>2. ASSUME NEW k \in Keys, NEW e, e = value'[k].at, Has(value', k)
      PROVE  AskedFor(k, e)'
  <2>0. e \in Nat
    BY <1>1, <1>2 DEF TypeOK, Stored
  <2>1. CASE value'[k] = value[k]
    <3>1. AskedFor(k, e)
      BY <1>2, <2>1 DEF Sourced, Has
    <3> QED  BY <2>0, <3>1, AskedForStable
  <2>2. ASSUME NEW c \in Calls, SetValue(c) \/ ExpireValue(c), req[c].key = k, e = now + ttl[c]
        PROVE  AskedFor(k, e)'
    <3>1. pc[c] \in Timed /\ pc[c] \in Writing
      BY <2>2 DEF SetValue, ExpireValue, Timed, Writing, Storing, Updating
    <3>2. req[c].op # "GET" /\ req[c].expires <= e
      BY <2>2, <3>1 DEF Requested
    <3>3. UNCHANGED req /\ pc'[c] # "idle"
      BY <2>2, RequestKept DEF CallStep
    <3> QED  BY <2>2, <3>2, <3>3 DEF AskedFor
  <2> QED  BY <1>2, <2>1, <2>2, ValueOrigin
<1> QED  BY <1>2 DEF Sourced

\* The sizes that Room compares are naturals, and are those of subsets.
LEMMA Sizes ==
  /\ \A S \in SUBSET Keys : IsFiniteSet(S) /\ Cardinality(S) \in Nat
  /\ \A S \in SUBSET Calls : IsFiniteSet(S) /\ Cardinality(S) \in Nat
  /\ Live \in SUBSET Keys /\ Storers \in SUBSET Calls
BY KeysFinite, FS_Subset, FS_CardinalityType DEF Live, Storers

\* Nothing that only removes disturbs Room.
LEMMA RoomShrinks ==
  ASSUME TypeOK, Room, NEW L \in SUBSET Live, NEW S \in SUBSET Storers
  PROVE  maxItems > 0 => Cardinality(L) + Cardinality(S) < maxItems + peak
<1>1. Cardinality(L) <= Cardinality(Live) /\ Cardinality(S) <= Cardinality(Storers)
  BY Sizes, FS_Subset
<1>2. /\ Cardinality(L) \in Nat /\ Cardinality(Live) \in Nat
      /\ Cardinality(S) \in Nat /\ Cardinality(Storers) \in Nat
  BY Sizes
<1> QED  BY <1>1, <1>2, LimitsNat DEF Room, TypeOK

\* Every step keeps Room: a call becomes a storer only below the limit, or raises the peak.
LEMMA StepRoom ==
  ASSUME Inv, [Next]_vars
  PROVE  Room'
<1> USE DEF Inv
<1>0. maxItems \in Nat /\ peak \in Nat /\ UNCHANGED maxItems
  BY LimitsNat
     DEF TypeOK, Next, vars, Start, CallStep, Fault, Count, Pick, DelVictim, PutClock,
         UpdateClock, Clock, FindMeta, FindValue, SetMeta, SetMetaRefused, PutPanic, SetValue,
         ExpireMeta, ExpireValue, Exists, GetMeta, ReadFirst, ReadSecond, Fetch, Tick
<1>1. CASE Live' \subseteq Live /\ Storers' \subseteq Storers /\ UNCHANGED peak
  BY <1>0, <1>1, RoomShrinks DEF Room
\* A call that has counted joins the storers: those above the limit are at
\* most the storers there are now.
<1>2. ASSUME NEW c \in Calls, Count(c), ~Full PROVE Room'
  <2>1. Live' = Live
    BY <1>2 DEF Count, Live, storeVars, Has
  <2>2. Storers' = Storers \cup {c} /\ c \notin Storers
    BY <1>2 DEF Count, Admit, GoTo, Storers, Storing, TypeOK
  <2>3. Cardinality(Storers') = Cardinality(Storers) + 1
    BY <2>2, Sizes, FS_AddElement
  <2>4. peak' >= Cardinality(Storers) + 1
    BY <1>0, <1>2, Sizes DEF Count, Admit
  <2>5. maxItems > 0 => Cardinality(Live) < maxItems
    BY <1>0, <1>2, Sizes DEF Full
  <2>6. /\ Cardinality(Storers) \in Nat /\ Cardinality(Live) \in Nat /\ peak' \in Nat
        /\ UNCHANGED maxItems
    BY <1>0, Sizes, StepTypeOK DEF TypeOK
  <2> QED  BY <1>0, <2>1, <2>3, <2>4, <2>5, <2>6 DEF Room
\* A storer that adds an item is a storer no more.
<1>3. ASSUME NEW c \in Calls, SetValue(c) PROVE Room'
  <2>1. Live' \subseteq Live \cup {req[c].key}
    BY <1>3 DEF SetValue, SetEx, Live, Has, TypeOK
  <2>2. Storers' = Storers \ {c} /\ c \in Storers
    BY <1>3 DEF SetValue, Return, Storers, Storing, TypeOK
  <2>3. Cardinality(Storers') = Cardinality(Storers) - 1
    BY <2>2, Sizes, FS_RemoveElement
  <2>4. Cardinality(Live') <= Cardinality(Live) + 1
    <3>1. IsFiniteSet(Live \cup {req[c].key})
          /\ Cardinality(Live \cup {req[c].key}) <= Cardinality(Live) + 1
      BY Sizes, FS_AddElement
    <3>2. Cardinality(Live') <= Cardinality(Live \cup {req[c].key})
      BY <2>1, <3>1, FS_Subset
    <3>3. Cardinality(Live') \in Nat /\ Cardinality(Live \cup {req[c].key}) \in Nat
          /\ Cardinality(Live) \in Nat
      BY <2>1, <3>1, Sizes, FS_Subset, FS_CardinalityType
    <3> QED  BY <3>1, <3>2, <3>3
  <2>5. /\ Cardinality(Live') \in Nat /\ Cardinality(Live) \in Nat
        /\ Cardinality(Storers) \in Nat
    <3>1. Live' \in SUBSET Keys
      BY DEF Live
    <3> QED  BY <3>1, Sizes
  <2>6. UNCHANGED peak
    BY <1>3 DEF SetValue
  <2> QED  BY <1>0, <2>3, <2>4, <2>5, <2>6 DEF Room
<1>4. \/ Live' \subseteq Live /\ Storers' \subseteq Storers /\ UNCHANGED peak
      \/ \E c \in Calls : (Count(c) /\ ~Full) \/ SetValue(c)
  <2>1. ASSUME NEW c \in Calls, Start(c) \/ CallStep(c) \/ Fault(c), ~SetValue(c),
               ~(Count(c) /\ ~Full)
        PROVE  Live' \subseteq Live /\ Storers' \subseteq Storers /\ UNCHANGED peak
    <3>1. UNCHANGED peak
      BY <2>1
         DEF Start, CallStep, Fault, Count, Pick, DelVictim, PutClock, UpdateClock, Clock,
             FindMeta, FindValue, SetMeta, SetMetaRefused, PutPanic, ExpireMeta, ExpireValue,
             Exists, GetMeta, ReadFirst, ReadSecond, Fetch
    <3>2. pc'[c] \in Storing => pc[c] \in Storing
      BY <2>1
         DEF TypeOK, Start, CallStep, Fault, Count, Pick, DelVictim, PutClock, UpdateClock,
             Clock, FindMeta, FindValue, SetMeta, SetMetaRefused, PutPanic, ExpireMeta,
             ExpireValue, Exists, GetMeta, ReadFirst, ReadSecond, Fetch, GoTo, Return, Replied,
             Storing
    <3>3. Storers' \subseteq Storers
      BY <2>1, <3>2, OthersUntouched DEF Storers
    <3>4. ASSUME NEW k \in Keys, Has(value', k) PROVE Has(value, k)
      <4>1. UNCHANGED value \/ DelVictim(c) \/ ExpireValue(c)
        BY <2>1
           DEF Start, CallStep, Fault, Count, Pick, PutClock, UpdateClock, Clock, FindMeta,
               FindValue, SetMeta, SetMetaRefused, PutPanic, ExpireMeta, Exists, GetMeta,
               ReadFirst, ReadSecond, Fetch, storeVars
      <4>2. CASE DelVictim(c)
        BY <3>4, <4>2 DEF DelVictim, Del, Has, Absent, TypeOK
      <4>3. CASE ExpireValue(c)
        BY <3>4, <4>3 DEF ExpireValue, Expire, Has, Absent, TypeOK
      <4> QED  BY <3>4, <4>1, <4>2, <4>3
    <3>5. Live' \subseteq Live
      BY <3>4 DEF Live, Has
    <3> QED  BY <3>1, <3>3, <3>5
  <2>2. CASE Tick
    BY <2>2 DEF Tick, Expired, Live, Has, Absent, Storers, TypeOK
  <2>3. CASE UNCHANGED vars
    BY <2>3 DEF vars, storeVars, Live, Has, Storers
  <2> QED  BY <2>1, <2>2, <2>3 DEF Next
<1> QED  BY <1>1, <1>2, <1>3, <1>4

----------------------------------------------------------------------------
\* The initial state satisfies the invariant.
LEMMA InitInv == Init => Inv
<1> SUFFICES ASSUME Init PROVE Inv
  OBVIOUS
<1>1. Live = {} /\ Storers = {}
  BY DEF Init, Live, Has, Absent, Storers, Storing
<1>2. Room
  <2>1. Cardinality({}) = 0
    BY FS_EmptySet
  <2>2. maxItems \in Nat /\ peak = 0
    BY LimitsNat DEF Init
  <2> QED  BY <1>1, <2>1, <2>2 DEF Room
<1>3. Positive /\ Requested /\ Sourced
  BY DEF Init, Positive, Requested, Sourced, Has, Absent, Timed, Writing, Evicting, Storing,
         Updating
<1> QED  BY <1>2, <1>3, InitTypeOK DEF Inv

\* The invariant is inductive.
LEMMA StepInv == Inv /\ [Next]_vars => Inv'
BY StepTypeOK, StepPositive, StepRequested, StepSourced, StepRoom DEF Inv

\* The variables keep the values that Put, Get and Update of redis.go can give
\* them.  It rests on Positive: without it, SETEX could make a key's time of expiry
\* negative, which is no Nat.
THEOREM TypeCorrect == Spec => []TypeOK
<1>1. Inv => TypeOK
  BY DEF Inv
<1> QED  BY <1>1, InitInv, StepInv, PTL DEF Spec

\* However many POSTs count items before they store theirs (redis.go:204-262),
\* they exceed maxitems by less than their number.
THEOREM OvershootBounded == Spec => []ItemsBounded
<1>1. Inv => ItemsBounded
  <2> SUFFICES ASSUME Inv, maxItems > 0 PROVE Cardinality(Live) < maxItems + peak
    BY DEF ItemsBounded
  <2>1. maxItems \in Nat /\ peak \in Nat
    BY LimitsNat DEF Inv, TypeOK
  <2>2. Cardinality(Live) \in Nat /\ Cardinality(Storers) \in Nat
    BY Sizes
  <2> QED  BY <2>1, <2>2 DEF Inv, Room
<1> QED  BY <1>1, InitInv, StepInv, PTL DEF Spec

\* A value goes by expiry, or by the EXPIRE of an Update, only when an expiry
\* has come that some POST or PUT of its key asked for (redis.go:219, 286).
LEMMA StepDue ==
  ASSUME Inv, [Next]_vars, NEW k \in Keys, Has(value, k), ~Has(value', k)
  PROVE  Evicts(k) \/ AskedFor(k, now')
<1>0. TypeOK /\ now \in Nat /\ value[k].at \in Nat
  BY LimitsNat DEF Inv, TypeOK, Stored
<1>1. Tick \/ \E c \in Calls : DelVictim(c) \/ SetValue(c) \/ ExpireValue(c)
  BY DEF Next, vars, storeVars, Start, CallStep, Fault, Count, Pick, PutClock, UpdateClock, Clock,
         FindMeta, FindValue, SetMeta, SetMetaRefused, PutPanic, ExpireMeta, Exists, GetMeta,
         ReadFirst, ReadSecond, Fetch, Has
<1>2. CASE Tick
  <2>1. value[k].at <= now' /\ now' \in Nat
    BY <1>0, <1>2 DEF Tick, Expired, Has
  <2>2. PICK c \in Calls :
          pc[c] # "idle" /\ req[c].op # "GET" /\ req[c].key = k /\ req[c].expires <= value[k].at
    BY DEF Inv, Sourced, AskedFor
  <2>3. req[c].expires \in Nat
    BY <1>0 DEF TypeOK
  <2> QED  BY <1>0, <2>1, <2>2, <2>3 DEF AskedFor
<1>3. ASSUME NEW c \in Calls, DelVictim(c) PROVE Evicts(k)
  <2>1. victim[c] = k
    BY <1>0, <1>3 DEF DelVictim, Del, Has, TypeOK
  <2> QED  BY <1>3, <2>1 DEF Evicts
<1>4. ASSUME NEW c \in Calls, SetValue(c) PROVE FALSE
  BY <1>0, <1>4, NoCallNew DEF SetValue, SetEx, Has, TypeOK
<1>5. ASSUME NEW c \in Calls, ExpireValue(c) PROVE AskedFor(k, now')
  <2>1. req[c].key = k /\ ~(ttl[c] > 0)
    BY <1>0, <1>5 DEF ExpireValue, Expire, Has, TypeOK, Stored
  <2>2. /\ pc[c] = "expireValue" /\ now' = now
        /\ req[c].op # "GET" /\ req[c].expires <= now + ttl[c]
    BY <1>5
       DEF ExpireValue, Inv, Requested, Timed, Writing, Updating
  <2>3. req[c].expires \in Nat /\ ttl[c] \in Int
    BY <1>0 DEF TypeOK
  <2> QED  BY <1>0, <2>1, <2>2, <2>3 DEF AskedFor
<1> QED  BY <1>1, <1>2, <1>3, <1>4, <1>5

\* No object of Redis is lost before its time, but by eviction: redis.go gives
\* Redis seconds that it counted from an earlier moment, never from a later.
THEOREM NeverEarly == Spec => RemovedWhenDue
<1>1. Inv /\ [Next]_vars =>
        [\A k \in Keys : Has(value, k) /\ ~Has(value', k) => Evicts(k) \/ AskedFor(k, now')]_vars
  BY StepDue
<1> QED  BY <1>1, InitInv, StepInv, PTL DEF Spec, RemovedWhenDue

----------------------------------------------------------------------------
\* As long as POSTs never raced there is at most one storer, and from its
\* second EXISTS on it finds its key free.
Alone ==
  peak <= 1 =>
    /\ \A c, d \in Storers : c = d
    /\ \A c \in Calls : pc[c] \in {"setMeta", "setValue"} => ~Has(value, req[c].key)

\* In the beginning there is no storer.
LEMMA InitAlone == Init => Alone
BY DEF Init, Alone, Storers, Storing

\* Without an overlap a step leaves at most one storer, and the key of that one free.
LEMMA StepAlone ==
  ASSUME Inv, Alone, [Next]_vars
  PROVE  Alone'
<1> SUFFICES ASSUME peak' <= 1
             PROVE  /\ \A c, d \in Storers' : c = d
                    /\ \A c \in Calls : pc'[c] \in {"setMeta", "setValue"} => ~Has(value', req'[c].key)
  BY DEF Alone, Has
<1>0. TypeOK /\ peak \in Nat /\ Cardinality(Storers) \in Nat
  BY Sizes DEF Inv, TypeOK
\* A call that is admitted without a race finds no storer.
<1>1. ASSUME NEW c \in Calls, Count(c), ~Full PROVE Storers = {} /\ peak <= 1
  <2>1. peak' >= Cardinality(Storers) + 1 /\ peak' >= peak /\ peak' \in Nat
    BY <1>0, <1>1 DEF Count, Admit
  <2>2. Cardinality(Storers) = 0
    BY <1>0, <2>1
  <2> QED  BY <1>0, <2>1, <2>2, Sizes, FS_EmptySet
<1>2. ASSUME NEW c \in Calls, Start(c) \/ CallStep(c) \/ Fault(c)
      PROVE  /\ \A d, e \in Storers' : d = e
             /\ \A d \in Calls : pc'[d] \in {"setMeta", "setValue"} => ~Has(value', req'[d].key)
  <2>1. CASE Count(c) /\ ~Full
    <3>1. Storers' = {c}
      BY <1>0, <1>1, <2>1 DEF Count, Admit, GoTo, Storers, Storing, TypeOK
    <3>2. pc'[c] = "clock"
      BY <1>0, <2>1 DEF Count, Admit, GoTo, TypeOK
    <3> QED  BY <3>1, <3>2 DEF Storers, Storing
  <2>2. CASE ~(Count(c) /\ ~Full)
    <3>1. UNCHANGED peak
      BY <1>2, <2>2
         DEF Start, CallStep, Fault, Count, Pick, DelVictim, PutClock, UpdateClock, Clock,
             FindMeta, FindValue, SetMeta, SetMetaRefused, PutPanic, SetValue, ExpireMeta,
             ExpireValue, Exists, GetMeta, ReadFirst, ReadSecond, Fetch
    <3>2. /\ \A d, e \in Storers : d = e
          /\ \A d \in Calls : pc[d] \in {"setMeta", "setValue"} => ~Has(value, req[d].key)
      BY <3>1 DEF Alone
    <3>3. pc'[c] \in Storing => pc[c] \in Storing
      BY <1>0, <1>2, <2>2
         DEF TypeOK, Start, CallStep, Fault, Count, Pick, DelVictim, PutClock, UpdateClock,
             Clock, FindMeta, FindValue, SetMeta, SetMetaRefused, PutPanic, SetValue,
             ExpireMeta, ExpireValue, Exists, GetMeta, ReadFirst, ReadSecond, Fetch, GoTo,
             Return, Replied, Storing
    <3>4. Storers' \subseteq Storers
      BY <1>0, <1>2, <3>3, OthersUntouched DEF Storers
    <3>5. pc'[c] \in {"setMeta", "setValue"} =>
            (FindValue(c) /\ ~Has(value, req[c].key)) \/ SetMeta(c)
      BY <1>0, <1>2
         DEF TypeOK, Start, CallStep, Fault, Count, Admit, Pick, DelVictim, PutClock,
             UpdateClock, Clock, FindMeta, FindValue, SetMeta, SetMetaRefused, PutPanic,
             SetValue, ExpireMeta, ExpireValue, Exists, GetMeta, ReadFirst, ReadSecond, Fetch,
             GoTo, Return, Replied
    <3>6. ASSUME NEW d \in Calls, pc'[d] \in {"setMeta", "setValue"} PROVE ~Has(value', req'[d].key)
      <4>1. CASE d = c
        BY <3>2, <3>5, <3>6, <4>1 DEF FindValue, SetMeta, storeVars, callVars, Has
      <4>2. CASE d # c
        <5>1. req'[d] = req[d] /\ pc[d] \in {"setMeta", "setValue"}
          BY <1>0, <1>2, <3>6, <4>2, OthersUntouched
        <5>2. req[d].key \in Keys /\ ~Has(value, req[d].key)
          BY <1>0, <3>2, <5>1 DEF TypeOK
        <5>3. ~SetValue(c)
          <6>1. d \in Storers
            BY <5>1 DEF Storers, Storing
          <6>2. c \notin Storers
            BY <3>2, <4>2, <6>1
          <6> QED  BY <6>2 DEF SetValue, Storers, Storing
        <5>4. UNCHANGED value \/ DelVictim(c) \/ ExpireValue(c)
          BY <1>2, <5>3
             DEF Start, CallStep, Fault, Count, Pick, PutClock, UpdateClock, Clock, FindMeta,
                 FindValue, SetMeta, SetMetaRefused, PutPanic, ExpireMeta, Exists, GetMeta,
                 ReadFirst, ReadSecond, Fetch, storeVars
        <5>5. ~Has(value', req[d].key)
          <6>1. CASE DelVictim(c)
            BY <1>0, <5>2, <6>1 DEF DelVictim, Del, Has, Absent, TypeOK
          <6>2. CASE ExpireValue(c)
            BY <1>0, <5>2, <6>2 DEF ExpireValue, Expire, Has, Absent, TypeOK
          <6> QED  BY <5>2, <5>4, <6>1, <6>2 DEF Has
        <5> QED  BY <5>1, <5>5
      <4> QED  BY <4>1, <4>2
    <3> QED  BY <3>2, <3>4, <3>6
  <2> QED  BY <2>1, <2>2
<1>3. CASE Tick
  <2>1. \A k \in Keys : ~Has(value, k) => ~Has(value', k)
    BY <1>0, <1>3 DEF Tick, Expired, Has, TypeOK
  <2>2. \A c \in Calls : req[c].key \in Keys
    BY <1>0 DEF TypeOK
  <2> QED  BY <1>3, <2>1, <2>2 DEF Tick, Alone, Storers, callVars
<1>4. CASE UNCHANGED vars
  BY <1>4 DEF vars, storeVars, callVars, Alone, Storers, Has
<1> QED  BY <1>2, <1>3, <1>4 DEF Next

\* Without a race of POSTs no upload replaces another (redis.go:221-262).
LEMMA StepReplaces ==
  ASSUME Inv, Alone, [Next]_vars, NEW k \in Keys, Replaced(k)
  PROVE  peak > 1
<1>0. TypeOK /\ TypeOK'
  BY StepTypeOK DEF Inv
<1>1. Has(value, k) /\ Has(value', k) /\ value'[k].by # value[k].by
  BY <1>0 DEF Replaced, Has
<1>2. PICK c \in Calls : (SetValue(c) \/ ExpireValue(c)) /\ req[c].key = k
  BY <1>0, <1>1, ValueOrigin
<1>3. ~ExpireValue(c)
  BY <1>0, <1>1, <1>2 DEF ExpireValue, Expire, Has, Absent, TypeOK, Stored
<1>4. UNCHANGED peak /\ pc[c] = "setValue"
  BY <1>2, <1>3 DEF SetValue
<1>5. ~(peak <= 1)
  BY <1>1, <1>2, <1>4 DEF Alone
<1> QED  BY <1>0, <1>4, <1>5 DEF TypeOK

\* Objects of Redis are immutable but for racing POSTs of one key.
THEOREM ReplacementNeedsRace == Spec => ReplacedOnlyInRace
<1>1. Inv /\ Alone /\ [Next]_vars => [\A k \in Keys : Replaced(k) => peak > 1]_vars
  BY StepReplaces
<1>2. Inv /\ Alone /\ [Next]_vars => Inv' /\ Alone'
  BY StepInv, StepAlone
<1> QED  BY <1>1, <1>2, InitInv, InitAlone, PTL DEF Spec, ReplacedOnlyInRace
=============================================================================
