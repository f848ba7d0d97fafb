-------------------------- MODULE ServerState_proofs --------------------------
(***************************************************************************)
(* Types, the exclusion the lock gives, and what follows from it, for any  *)
(* number of goroutines, servers, files and signals; and which providers   *)
(* the loops over any configuration leave, by induction over its entries.  *)
(***************************************************************************)
EXTENDS ServerState, WellFoundedInduction, TLAPS

\* Within the critical section of AddServer.
Inside(p) == at[p] \in {"check", "insert", "known", "new"}

\* The lock is held by whoever is inside, and by one goroutine only.
Exclusion ==
  /\ \A p \in Goroutines : Inside(p) => mutex.locked
  /\ \A p, q \in Goroutines : Inside(p) /\ Inside(q) => p = q

\* Who is about to insert a server has found that it is not there; the servers
\* added are there.
Fresh == \A p \in Goroutines : at[p] = "insert" => heard[p] \notin heap[servers]
Present == \A i \in Ids : added[i] > 0 => i \in heap[servers]

\* A reload under way refers to the table in use.
Shared == copy # NoCopy => copy.servers = servers

IInv == TypeOK /\ Shared /\ Present /\ (torn \/ (Exclusion /\ Fresh /\ AddedOnce))

----------------------------------------------------------------------------
\* The variables have their types at first.
LEMMA TypeInit == Init => TypeOK
<1> SUFFICES ASSUME Init PROVE TypeOK
  OBVIOUS
<1>1. mutex \in Mutexes
  BY DEF Init, Unused, Mutexes
<1>2. config \in Files /\ heard \in [Goroutines -> Ids]
  BY DEF Init
<1>3. signals \in 0..MaxSignals
  BY MaxSignalsType DEF Init
<1>4. at \in [Goroutines -> {"lock", "check", "insert", "known", "new", "rlock", "read", "over"}]
  BY DEF Init
<1>5. added \in [Ids -> Nat]
  BY DEF Init
<1>6. heap \in Seq(SUBSET Ids) /\ servers \in DOMAIN heap
  <2>1. heap = <<{}>> /\ servers = 1
    BY DEF Init
  <2> QED BY <2>1
<1> QED BY <1>1, <1>2, <1>3, <1>4, <1>5, <1>6 DEF Init, TypeOK

\* A lock stays a lock, whether it is taken, released or slept on.
LEMMA MutexTypes ==
  ASSUME NEW m \in Mutexes
  PROVE  /\ [m EXCEPT !.locked = TRUE] \in Mutexes
         /\ [m EXCEPT !.locked = FALSE] \in Mutexes
         /\ [m EXCEPT !.locked = FALSE].locked = FALSE
         /\ [m EXCEPT !.readers = @ + 1] \in Mutexes
         /\ [m EXCEPT !.waiters = @ + 1] \in Mutexes
         /\ m.readers # 0 => /\ [m EXCEPT !.readers = @ - 1] \in Mutexes
                             /\ [m EXCEPT !.readers = @ - 1].locked = m.locked
<1>1. m.readers + 1 \in Nat /\ m.waiters + 1 \in Nat
  BY DEF Mutexes
<1>2. m.readers # 0 => m.readers - 1 \in Nat
  BY DEF Mutexes
<1> QED BY <1>1, <1>2 DEF Mutexes

\* Freeing the lock leaves a lock, and sleeping goroutines.
LEMMA FreeType ==
  ASSUME TypeOK, NEW m \in Mutexes, Free(m)
  PROVE  mutex' \in Mutexes /\ asleep' \in SUBSET Goroutines /\ mutex'.locked = m.locked
<1>1. mutex' \in Mutexes /\ mutex'.locked = m.locked
  <2>1. CASE m.readers = 0 /\ m.waiters > 0
    <3>1. mutex' = [m EXCEPT !.waiters = @ - 1]
      BY <2>1 DEF Free
    <3>2. m.waiters - 1 \in Nat
      BY <2>1 DEF Mutexes
    <3> QED BY <3>1, <3>2 DEF Mutexes
  <2>2. CASE ~(m.readers = 0 /\ m.waiters > 0)
    BY <2>2 DEF Free
  <2> QED BY <2>1, <2>2
<1>2. asleep' \in SUBSET Goroutines
  BY DEF Free, TypeOK
<1> QED BY <1>1, <1>2

\* Every step keeps the types.
LEMMA TypeStep == TypeOK /\ [Next]_vars => TypeOK'
<1> SUFFICES ASSUME TypeOK, [Next]_vars PROVE TypeOK'
  OBVIOUS
<1> USE DEF TypeOK
<1>1. ASSUME NEW p \in Goroutines, CallStep(p) PROVE TypeOK'
  <2>1. CASE Lock(p) \/ RLock(p)
    <3>1. mutex' \in Mutexes
      <4>4. mutex' \in {[mutex EXCEPT !.locked = TRUE], [mutex EXCEPT !.readers = @ + 1],
                       [mutex EXCEPT !.waiters = @ + 1]}
        BY <2>1 DEF Lock, RLock, Sleep
      <4> QED BY <4>4, MutexTypes
    <3>2. asleep' \in SUBSET Goroutines /\ UNCHANGED <<alive, tables, heard, reloadVars, added, torn>>
      BY <2>1 DEF Lock, RLock, Sleep
    <3>3. at' \in [Goroutines -> {"lock", "check", "insert", "known", "new", "rlock", "read", "over"}]
      BY <2>1 DEF Lock, RLock, Go
    <3> QED BY <3>1, <3>2, <3>3 DEF tables, reloadVars
  <2>2. CASE Check(p)
    BY <2>2 DEF Check, Runs, Go, tables, reloadVars
  <2>6. CASE Insert(p)
    <3>1. heap' \in Seq(SUBSET Ids) /\ DOMAIN heap' = DOMAIN heap
      BY <2>6 DEF Insert
    <3> QED BY <2>6, <3>1 DEF Insert, Runs, Go, reloadVars
  <2>3. CASE ReadDuringInsert(p)
    BY <2>3 DEF ReadDuringInsert, Die, tables, callVars, reloadVars
  <2>4. CASE Unlock(p)
    <3>1. CASE ~mutex.locked
      BY <2>4, <3>1 DEF Unlock, Die, tables, callVars, reloadVars
    <3>2. CASE mutex.locked
      <4>1. [mutex EXCEPT !.locked = FALSE] \in Mutexes
        BY MutexTypes
      <4>2. mutex' \in Mutexes /\ asleep' \in SUBSET Goroutines
        BY <2>4, <3>2, <4>1, FreeType DEF Unlock
      <4> QED BY <2>4, <3>2, <4>2 DEF Unlock, Go, tables, reloadVars
    <3> QED BY <3>1, <3>2
  <2>5. CASE RUnlock(p)
    <3>1. CASE mutex.readers = 0
      BY <2>5, <3>1 DEF RUnlock, Die, tables, callVars, reloadVars
    <3>2. CASE mutex.readers # 0
      <4>1. [mutex EXCEPT !.readers = @ - 1] \in Mutexes
        BY <3>2, MutexTypes
      <4>2. mutex' \in Mutexes /\ asleep' \in SUBSET Goroutines
        BY <2>5, <3>2, <4>1, FreeType DEF RUnlock
      <4> QED BY <2>5, <3>2, <4>2 DEF RUnlock, Go, tables, reloadVars
    <3> QED BY <3>1, <3>2
  <2> QED BY <1>1, <2>1, <2>2, <2>3, <2>4, <2>5, <2>6 DEF CallStep
<1>2. CASE Signal
  BY <1>2, MaxSignalsType DEF Signal, tables, callVars
<1>3. CASE Reload
  <2>1. CASE Die
    BY <2>1 DEF Die, tables, callVars, reloadVars
  <2>2. CASE ~Die
    <3>1. PICK f \in Files : /\ copy' = [config |-> f, mutex |-> mutex, servers |-> servers]
                              /\ pending' = FALSE
      BY <1>3, <2>2 DEF Reload
    <3>2. copy' \in [config : Files, mutex : Mutexes, servers : DOMAIN heap]
      BY <3>1
    <3>3. UNCHANGED <<alive, tables, mutex, callVars, config, providers, signals, added, torn>>
      BY <1>3, <2>2 DEF Reload
    <3> QED BY <3>1, <3>2, <3>3 DEF tables, callVars
  <2> QED BY <2>1, <2>2
<1>4. CASE Replace
  <2>1. copy \in [config : Files, mutex : Mutexes, servers : DOMAIN heap]
    BY <1>4 DEF Replace
  <2> QED BY <1>4, <2>1 DEF Replace, callVars
<1>5. CASE Quiet \/ UNCHANGED vars
  BY <1>5 DEF Quiet, vars, tables, callVars, reloadVars
<1> QED BY <1>1, <1>2, <1>3, <1>4, <1>5 DEF Next

----------------------------------------------------------------------------
\* The invariant holds at first.
LEMMA InvInit == Init => IInv
<1> SUFFICES ASSUME Init PROVE IInv
  OBVIOUS
<1>1. TypeOK
  BY TypeInit
<1>2. Shared /\ Present
  BY DEF Init, Shared, Present
<1>3. Exclusion /\ Fresh /\ AddedOnce
  BY DEF Init, Exclusion, Inside, Fresh, AddedOnce
<1> QED BY <1>1, <1>2, <1>3 DEF IInv

\* The invariant is kept: as long as no reload touched a lock in use, only
\* who takes the free lock goes inside.
LEMMA InvStep == IInv /\ [Next]_vars => IInv'
<1> SUFFICES ASSUME IInv, [Next]_vars PROVE IInv'
  OBVIOUS
<1>0. TypeOK /\ TypeOK'
  BY TypeStep DEF IInv
<1>1. Shared' /\ Present'
  <2>1. ASSUME NEW p \in Goroutines, Insert(p) PROVE Shared' /\ Present'
    <3>1. servers' = servers /\ copy' = copy
      BY <2>1 DEF Insert, reloadVars
    <3>2. ASSUME NEW i \in Ids, added'[i] > 0 PROVE i \in heap'[servers']
      BY <2>1, <3>1, <3>2, <1>0 DEF Insert, IInv, Present, TypeOK
    <3> QED BY <3>1, <3>2 DEF IInv, Shared, Present
  <2>2. CASE Reload
    <3>1. CASE Die
      BY <3>1 DEF Die, tables, reloadVars, IInv, Shared, Present
    <3>2. CASE ~Die
      <4>1. UNCHANGED <<heap, servers, added>>
        BY <2>2, <3>2 DEF Reload, tables
      <4>2. PICK f \in Files : copy' = [config |-> f, mutex |-> mutex, servers |-> servers]
        BY <2>2, <3>2 DEF Reload
      <4>3. copy'.servers = servers
        BY <4>2
      <4> QED BY <4>1, <4>3 DEF IInv, Shared, Present
    <3> QED BY <3>1, <3>2
  <2>3. CASE Replace
    <3>1. servers' = servers /\ copy' = NoCopy /\ UNCHANGED <<heap, added>>
      BY <2>3 DEF Replace, IInv, Shared
    <3> QED BY <3>1 DEF IInv, Shared, Present
  <2>4. CASE UNCHANGED <<tables, copy, added>>
    BY <2>4 DEF tables, IInv, Shared, Present
  <2>5. \/ \E p \in Goroutines : Insert(p)
        \/ Reload \/ Replace
        \/ UNCHANGED <<tables, copy, added>>
    BY DEF Next, CallStep, Lock, RLock, Check, ReadDuringInsert, Die, Unlock, RUnlock, Signal,
           Quiet, vars, reloadVars
  <2> QED BY <2>1, <2>2, <2>3, <2>4, <2>5
<1>2. ASSUME ~torn' PROVE (Exclusion /\ Fresh /\ AddedOnce)'
  <2>0. ~torn
    BY <1>2, <1>0 DEF Next, CallStep, Lock, RLock, Check, Insert, ReadDuringInsert, Die, Unlock,
           RUnlock, Signal, Reload, Replace, Quiet, vars, TypeOK
  <2>1. Exclusion /\ Fresh /\ \A i \in Ids : added[i] <= 1
    BY <2>0 DEF IInv, AddedOnce
  <2>2. ASSUME NEW p \in Goroutines, Lock(p) PROVE (Exclusion /\ Fresh /\ AddedOnce)'
    <3>1. CASE mutex.locked \/ mutex.readers # 0
      BY <2>1, <2>2, <3>1, <1>0 DEF Lock, Sleep, Exclusion, Inside, Fresh, AddedOnce, TypeOK, tables, Mutexes
    <3>2. CASE ~mutex.locked /\ mutex.readers = 0
      <4>1. mutex'.locked /\ at' = [at EXCEPT ![p] = "check"]
        BY <2>2, <3>2, <1>0 DEF Lock, Go, TypeOK, Mutexes
      <4>2. \A q \in Goroutines : ~Inside(q)
        BY <2>1, <3>2 DEF Exclusion
      <4> QED BY <2>1, <2>2, <4>1, <4>2, <1>0 DEF Lock, Exclusion, Inside, Fresh, AddedOnce, TypeOK, tables
    <3> QED BY <3>1, <3>2, <1>0 DEF TypeOK, Mutexes
  <2>3. ASSUME NEW p \in Goroutines, Check(p) PROVE (Exclusion /\ Fresh /\ AddedOnce)'
    BY <2>1, <2>3, <1>0 DEF Check, tables, Runs, Go, Exclusion, Inside, Fresh, AddedOnce, TypeOK
  <2>4. ASSUME NEW p \in Goroutines, Insert(p) PROVE (Exclusion /\ Fresh /\ AddedOnce)'
    <3>1. Exclusion'
      BY <2>1, <2>4, <1>0 DEF Insert, Runs, Go, Exclusion, Inside, TypeOK
    <3>2. Fresh'
      <4>1. \A q \in Goroutines : at'[q] # "insert"
        BY <2>1, <2>4, <1>0 DEF Insert, Runs, Go, Exclusion, Inside, TypeOK
      <4> QED BY <4>1 DEF Fresh
    <3>3. AddedOnce'
      <4>1. heard[p] \in Ids /\ heard[p] \notin heap[servers]
        BY <2>1, <2>4, <1>0 DEF Insert, Runs, Fresh, TypeOK
      <4>2. added[heard[p]] = 0
        BY <4>1, <1>0 DEF IInv, Present, TypeOK
      <4> QED BY <2>1, <2>4, <4>1, <4>2, <1>0 DEF Insert, AddedOnce, TypeOK
    <3> QED BY <3>1, <3>2, <3>3
  <2>5. ASSUME NEW p \in Goroutines, Unlock(p) PROVE (Exclusion /\ Fresh /\ AddedOnce)'
    <3>1. Inside(p)
      BY <2>5 DEF Unlock, Runs, Inside
    <3>2. mutex.locked
      BY <2>1, <3>1 DEF Exclusion
    <3>3. at' = [at EXCEPT ![p] = IF at[p] = "new" THEN "rlock" ELSE "over"]
      BY <2>5, <3>2 DEF Unlock, Go
    <3>4. \A q \in Goroutines : ~(Inside(q))'
      BY <2>1, <3>1, <3>3, <1>0 DEF Exclusion, Inside, TypeOK
    <3>5. Exclusion' /\ Fresh'
      BY <3>4 DEF Exclusion, Fresh, Inside
    <3>6. AddedOnce'
      BY <2>1, <2>5, <3>2 DEF Unlock, AddedOnce
    <3> QED BY <3>5, <3>6
  <2>6. ASSUME NEW p \in Goroutines, RLock(p) \/ RUnlock(p)
        PROVE  (Exclusion /\ Fresh /\ AddedOnce)'
    <3>1. mutex'.locked = mutex.locked
      <4>1. CASE RLock(p)
        BY <4>1, <1>0 DEF RLock, Sleep, TypeOK, Mutexes
      <4>2. CASE RUnlock(p)
        <5>1. CASE mutex.readers = 0
          BY <4>2, <5>1 DEF RUnlock, Die
        <5>2. CASE mutex.readers # 0
          <6>1. /\ [mutex EXCEPT !.readers = @ - 1] \in Mutexes
                /\ [mutex EXCEPT !.readers = @ - 1].locked = mutex.locked
            BY <5>2, <1>0, MutexTypes DEF TypeOK
          <6> QED BY <4>2, <5>2, <6>1, <1>0, FreeType DEF RUnlock
        <5> QED BY <5>1, <5>2
      <4> QED BY <2>6, <4>1, <4>2
    <3>2. \A q \in Goroutines : (Inside(q))' <=> Inside(q)
      BY <2>6, <1>0 DEF RLock, RUnlock, Die, callVars, Runs, Go, Inside, TypeOK
    <3>3. \A q \in Goroutines : at'[q] = "insert" => at[q] = "insert"
      BY <2>6, <1>0 DEF RLock, RUnlock, Die, callVars, Runs, Go, TypeOK
    <3>4. UNCHANGED <<heard, heap, servers, added>>
      BY <2>6 DEF RLock, RUnlock, Die, tables, callVars
    <3>5. Exclusion'
      BY <2>1, <3>1, <3>2 DEF Exclusion
    <3>6. Fresh' /\ AddedOnce'
      BY <2>1, <3>3, <3>4 DEF Fresh, AddedOnce
    <3> QED BY <3>5, <3>6
  <2>7. CASE Replace
    <3>0. servers' = servers
      BY <2>7 DEF Replace, IInv, Shared
    <3>1. mutex = Unused /\ copy.mutex = Unused
      BY <1>2, <2>7 DEF Replace
    <3> QED BY <2>1, <2>7, <3>0, <3>1 DEF Replace, callVars, Exclusion, Inside, Fresh, AddedOnce
  <2>8. CASE UNCHANGED <<at, heard, heap, servers, mutex, added>>
    BY <2>1, <2>8 DEF Exclusion, Inside, Fresh, AddedOnce
  <2> QED BY <2>2, <2>3, <2>4, <2>5, <2>6, <2>7, <2>8
          DEF Next, CallStep, ReadDuringInsert, Die, tables, callVars, Signal, Reload, Quiet, vars
<1> QED BY <1>0, <1>1, <1>2, <1>0 DEF IInv, TypeOK

----------------------------------------------------------------------------
\* The invariant holds throughout.
LEMMA Invariant == Spec => []IInv
<1> QED BY InvInit, InvStep, PTL DEF Spec

\* The state of the process keeps its types, whatever reloads do to the lock.
THEOREM TypeCorrect == Spec => []TypeOK
<1>1. IInv => TypeOK
  BY DEF IInv
<1> QED BY <1>1, Invariant, PTL

\* AddServer reports each server as new to one goroutine only, for any number
\* of them, unless a reload copied or overwrote the lock while it was in use.
THEOREM AddedOnlyOnce == Spec => []AddedOnce
<1>1. IInv => AddedOnce
  BY DEF IInv, AddedOnce
<1> QED BY <1>1, Invariant, PTL

\* No reload loses a server, wherever between its copy of the state and its
\* assignment the server is added, and even if it tore the lock: of the tables
\* there are, the copy refers to the one in use.
THEOREM ReloadKeepsServers == Spec => []RegistrationsKept
<1>1. IInv => RegistrationsKept
  BY DEF IInv, Present, RegistrationsKept
<1> QED BY <1>1, Invariant, PTL

----------------------------------------------------------------------------
(***************************************************************************)
(* The providers in use.                                                   *)
(***************************************************************************)
\* What an entry does to the providers the entries before it gave.
Round(file, loaded, n) ==
  IF Parses(file.entries[n]) THEN Setup(loaded, file.entries[n], file.broken) ELSE loaded

\* A nonempty set of naturals has a least element.
LEMMA Least ==
  ASSUME NEW T \in SUBSET Nat, T # {}
  PROVE  \E n \in T : \A m \in T : n <= m
<1> DEFINE R == {ss \in Nat \X Nat : ss[1] < ss[2]}
<1>1. IsWellFoundedOn(R, Nat)
  BY NatLessThanWellFounded DEF OpToRel
<1>2. \A m, n \in Nat : m < n => <<m, n>> \in R
  OBVIOUS
<1> HIDE DEF R
<1>3. PICK n \in T : \A m \in T : <<m, n>> \notin R
  BY <1>1, WFMin
<1>4. \A m \in T : m \in Nat /\ n \in Nat /\ ~(m < n)
  BY <1>2, <1>3
<1>5. \A m \in T : n <= m
  BY <1>4
<1> QED BY <1>5

\* The loop is defined: what Providers takes the last value of exists, and each of
\* its values comes from the one before by a round.
LEMMA Unrolled ==
  ASSUME NEW file \in Files, NEW all, all = Len(file.entries)
  PROVE  \E loaded :
           /\ loaded[0] = <<>>
           /\ \A n \in 1..all : loaded[n] = Round(file, loaded[n - 1], n)
           /\ Providers(file) = loaded[all]
<1> DEFINE Loop(g) == [n \in 0..all |-> IF n = 0 THEN <<>> ELSE Round(file, g[n - 1], n)]
<1>1. Providers(file) = (CHOOSE g : g = Loop(g))[all]
  BY DEF Providers, Round
<1> DEFINE Partial(n, g) == g = [i \in 0..n |-> IF i = 0 THEN <<>> ELSE Round(file, g[i - 1], i)]
           Stuck == {n \in 0..all : ~\E g : Partial(n, g)}
<1>2. Stuck = {}
  <2> SUFFICES ASSUME Stuck # {} PROVE FALSE
    OBVIOUS
  <2>1. Stuck \in SUBSET Nat
    BY EntriesListed
  <2>2. PICK n \in Stuck : \A m \in Stuck : n <= m
    BY <2>1, Least
  <2>3. CASE n = 0
    <3>1. Partial(0, [i \in 0..0 |-> <<>>])
      OBVIOUS
    <3> QED BY <2>2, <2>3, <3>1
  <2>4. CASE n # 0
    <3>1. n \in 1..all /\ n - 1 \in 0..all /\ n \in Nat
      BY <2>1, <2>4, EntriesListed
    <3>2. n - 1 \notin Stuck
      <4> HIDE DEF Stuck
      <4> QED BY <2>2, <3>1
    <3>3. PICK g : Partial(n - 1, g)
      <4> HIDE DEF Partial
      <4> QED BY <3>1, <3>2
    <3> DEFINE h == [i \in 0..n |-> IF i = n THEN Round(file, g[n - 1], n) ELSE g[i]]
    <3>4. \A i \in 0..(n - 1) : g[i] = IF i = 0 THEN <<>> ELSE Round(file, g[i - 1], i)
      BY <3>3
    <3> HIDE DEF Partial
    <3>5. \A i \in 0..n : h[i] = IF i = 0 THEN <<>> ELSE Round(file, h[i - 1], i)
      <4> SUFFICES ASSUME NEW i \in 0..n
                   PROVE  h[i] = IF i = 0 THEN <<>> ELSE Round(file, h[i - 1], i)
        OBVIOUS
      <4>1. CASE i = n
        BY <3>1, <2>4, <4>1
      <4>2. CASE i # n /\ i # 0
        <5>1. i \in 0..(n - 1) /\ i - 1 \in 0..(n - 1) /\ i - 1 # n /\ i - 1 \in 0..n
          BY <3>1, <4>2
        <5> QED BY <3>4, <4>2, <5>1
      <4>3. CASE i # n /\ i = 0
        <5>1. i \in 0..(n - 1)
          BY <3>1, <4>3
        <5> QED BY <3>4, <4>3, <5>1
      <4> QED BY <4>1, <4>2, <4>3
    <3>6. Partial(n, h)
      BY <3>5 DEF Partial
    <3> QED BY <2>2, <3>6
  <2> QED BY <2>3, <2>4
<1> DEFINE loaded == CHOOSE g : Partial(all, g)
<1>3. Partial(all, loaded)
  <2>1. \E g : Partial(all, g)
    BY <1>2, EntriesListed
  <2> HIDE DEF Partial
  <2> QED BY <2>1
<1>4. Providers(file) = loaded[all]
  BY DEF Providers, Round
<1>5. /\ loaded[0] = <<>>
      /\ \A n \in 1..all : loaded[n] = Round(file, loaded[n - 1], n)
  <2> HIDE DEF loaded
  <2>1. all \in Nat
    BY EntriesListed
  <2>2. \A n \in 0..all : loaded[n] = IF n = 0 THEN <<>> ELSE Round(file, loaded[n - 1], n)
    BY <1>3
  <2>3. 0 \in 0..all /\ \A n \in 1..all : n \in 0..all /\ n # 0
    BY <2>1
  <2> QED BY <2>2, <2>3
<1> QED BY <1>4, <1>5

\* What the rounds up to n leave: under each name the first entry that works.
FirstWorking(file, loaded, n) ==
  /\ DOMAIN loaded = {file.entries[i].name : i \in {j \in 1..n : Valid(file, j)}}
  /\ \A i \in 1..n :
       /\ Valid(file, i)
       /\ \A j \in 1..n : Valid(file, j) /\ file.entries[j].name = file.entries[i].name => i <= j
       => loaded[file.entries[i].name] = file.entries[i]

\* A round adds an entry that works if it is the first of its name.
LEMMA RoundKeeps ==
  ASSUME NEW file, NEW loaded, NEW n \in Nat, n # 0, FirstWorking(file, loaded, n - 1)
  PROVE  FirstWorking(file, Round(file, loaded, n), n)
<1> DEFINE e == file.entries[n]
           next == Round(file, loaded, n)
<1> SUFFICES FirstWorking(file, next, n)
  OBVIOUS
<1>0. /\ n - 1 \in Nat /\ 1..n = (1..(n - 1)) \cup {n} /\ n \notin 1..(n - 1)
      /\ \A i \in 1..(n - 1) : ~(n <= i)
  OBVIOUS
<1>1. CASE ~Valid(file, n)
  <2>1. next = loaded
    BY <1>1 DEF Round, Setup, Valid
  <2> HIDE DEF next
  <2> QED BY <1>0, <1>1, <2>1 DEF FirstWorking
<1>2. CASE Valid(file, n) /\ e.name \in DOMAIN loaded
  <2>1. next = loaded
    BY <1>2 DEF Round, Setup, Valid
  <2>2. PICK j \in 1..(n - 1) : Valid(file, j) /\ file.entries[j].name = e.name
    BY <1>2 DEF FirstWorking
  <2> HIDE DEF next
  <2> QED BY <1>0, <1>2, <2>1, <2>2 DEF FirstWorking
<1>3. CASE Valid(file, n) /\ e.name \notin DOMAIN loaded
  <2>1. next = [m \in DOMAIN loaded \cup {e.name} |-> IF m = e.name THEN e ELSE loaded[m]]
    BY <1>3 DEF Round, Setup, Valid
  <2>2. \A j \in 1..(n - 1) : Valid(file, j) => file.entries[j].name # e.name
    BY <1>3 DEF FirstWorking
  <2> HIDE DEF next
  <2>3. DOMAIN next = {file.entries[i].name : i \in {j \in 1..n : Valid(file, j)}}
    BY <1>0, <1>3, <2>1 DEF FirstWorking
  <2>4. ASSUME NEW i \in 1..n, Valid(file, i),
               \A j \in 1..n : Valid(file, j) /\ file.entries[j].name = file.entries[i].name => i <= j
        PROVE  next[file.entries[i].name] = file.entries[i]
    <3>1. CASE i = n
      BY <2>1, <3>1
    <3>2. CASE i \in 1..(n - 1)
      <4>1. loaded[file.entries[i].name] = file.entries[i] /\ file.entries[i].name \in DOMAIN loaded
        BY <1>0, <2>4, <3>2 DEF FirstWorking
      <4> QED BY <2>1, <2>2, <2>4, <3>2, <4>1
    <3> QED BY <1>0, <3>1, <3>2
  <2> QED BY <2>3, <2>4 DEF FirstWorking
<1> QED BY <1>1, <1>2, <1>3

\* The loop over the configuration leaves the first entry of each name that works.
LEMMA FirstOnes ==
  ASSUME NEW file \in Files
  PROVE  FirstWorking(file, Providers(file), Len(file.entries))
<1> DEFINE all == Len(file.entries)
<1>0. all \in Nat
  BY EntriesListed
<1>1. PICK loaded : /\ loaded[0] = <<>>
                    /\ \A n \in 1..all : loaded[n] = Round(file, loaded[n - 1], n)
                    /\ Providers(file) = loaded[all]
  BY Unrolled
<1> HIDE DEF all
<1> DEFINE Wrong == {n \in 0..all : ~FirstWorking(file, loaded[n], n)}
<1>2. Wrong = {}
  <2> SUFFICES ASSUME Wrong # {} PROVE FALSE
    OBVIOUS
  <2>1. Wrong \in SUBSET Nat
    BY <1>0
  <2>2. PICK n \in Wrong : \A m \in Wrong : n <= m
    BY <2>1, Least
  <2>3. n # 0
    <3>1. FirstWorking(file, loaded[0], 0)
      BY <1>1 DEF FirstWorking
    <3> QED BY <2>2, <3>1
  <2>4. n \in 1..all /\ n \in Nat /\ n - 1 \in 0..all /\ n - 1 \notin Wrong
    BY <1>0, <2>1, <2>2, <2>3
  <2>5. FirstWorking(file, loaded[n - 1], n - 1)
    BY <2>4
  <2> QED BY <1>1, <2>2, <2>3, <2>4, <2>5, RoundKeeps
<1>3. all \in 0..all
  BY <1>0
<1> QED BY <1>1, <1>2, <1>3 DEF all

\* The providers in use come from the configuration in use.
Current == providers = Providers(config)

\* Whoever changes one changes the other.
LEMMA CurrentStep == Current /\ [Next]_vars => Current'
<1> SUFFICES ASSUME Current, [Next]_vars PROVE Current'
  OBVIOUS
<1>1. CASE Replace
  BY <1>1 DEF Replace, Current
<1>2. CASE UNCHANGED <<config, providers>>
  BY <1>2 DEF Current
<1>3. Replace \/ UNCHANGED <<config, providers>>
  BY DEF Next, CallStep, Lock, RLock, Check, Insert, ReadDuringInsert, Die, Unlock, RUnlock,
         Signal, Reload, Quiet, vars, reloadVars
<1> QED BY <1>1, <1>2, <1>3

\* For any configuration and any reloads, the providers in use are by name the
\* first of the configuration in use that could be parsed, instantiated and connected.
THEOREM FirstOnesLoaded == Spec => []LoadedIsFirstValid
<1>1. Init => Current
  BY DEF Init, Current
<1>2. TypeOK /\ Current => LoadedIsFirstValid
  <2> SUFFICES ASSUME config \in Files, providers = Providers(config) PROVE LoadedIsFirstValid
    BY DEF TypeOK, Current
  <2>1. DOMAIN config.entries = 1..Len(config.entries)
    BY EntriesListed
  <2> QED BY <2>1, FirstOnes DEF FirstWorking, LoadedIsFirstValid
<1> QED BY <1>1, <1>2, CurrentStep, TypeCorrect, PTL DEF Spec
=============================================================================
