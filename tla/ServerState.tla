------------------------------ MODULE ServerState ------------------------------
(***************************************************************************)
(* The state of one tilld: a global struct with the configuration, the     *)
(* providers, the table of known servers and the lock of that table.       *)
(* Goroutines that run the end of NotifyServer use the table under the     *)
(* lock, while SIGUSR1 makes another one copy the struct, load the         *)
(* configuration into the copy and assign the copy to the global.  A map   *)
(* is a reference, so a copy refers to the table the original refers to;   *)
(* the lock is a value, so a copy has a lock of its own.                   *)
(***************************************************************************)
EXTENDS Config, FiniteSets

CONSTANTS
  Goroutines,  \* that run NotifyServer, once each
  Ids,         \* identifiers of other servers
  Files,       \* the configuration files that may be found
  MaxSignals   \* bound on the SIGUSR1 to come

ASSUME GoroutinesFinite == IsFiniteSet(Goroutines)
ASSUME MaxSignalsType == MaxSignals \in Nat
ASSUME EntriesListed ==
  \A file \in Files : Len(file.entries) \in Nat /\ DOMAIN file.entries = 1..Len(file.entries)
ASSUME FirstFileLoads == \E file \in Files : ~Kills(file)

VARIABLES
  alive,      \* the process runs
  config,     \* the file state.Config was made from
  providers,  \* state.Providers
  heap,       \* the tables of servers there are: the identifiers in each
  servers,    \* state.Servers, a reference to one of them
  mutex,      \* state.metadataMutex
  at,         \* where each goroutine is in AddServer and SendKnownServersTo
  asleep,     \* the goroutines that sleep until the lock is free
  heard,      \* the server each of them has heard of
  pending,    \* whether a signal waits in usr1chan
  copy,       \* the copy of the state the reload is working on, if any
  signals,    \* signals still to come
  added,      \* history: how often each server was added
  torn        \* history: the lock was copied or overwritten while in use

callVars == <<at, asleep, heard>>
reloadVars == <<config, providers, pending, copy, signals>>
tables == <<heap, servers>>
vars == <<alive, tables, mutex, callVars, reloadVars, added, torn>>

Mutexes == [locked : BOOLEAN, readers : Nat, waiters : Nat]
Unused == [locked |-> FALSE, readers |-> 0, waiters |-> 0]
NoCopy == <<>>

TypeOK ==
  /\ alive \in BOOLEAN
  /\ config \in Files
  /\ heap \in Seq(SUBSET Ids)
  /\ servers \in DOMAIN heap
  /\ mutex \in Mutexes
  /\ at \in [Goroutines -> {"lock", "check", "insert", "known", "new", "rlock", "read", "over"}]
  /\ asleep \in SUBSET Goroutines
  /\ heard \in [Goroutines -> Ids]
  /\ pending \in BOOLEAN
  /\ copy \in [config : Files, mutex : Mutexes, servers : DOMAIN heap] \cup {NoCopy}
  /\ signals \in 0..MaxSignals
  /\ added \in [Ids -> Nat]
  /\ torn \in BOOLEAN

\* NewState has made a table and loaded a file, or else there is no process.
Init ==
  /\ alive = TRUE
  /\ config \in {f \in Files : ~Kills(f)}
  /\ providers = Providers(config)
  /\ heap = <<{}>>
  /\ servers = 1
  /\ mutex = Unused
  /\ at = [p \in Goroutines |-> "lock"]
  /\ asleep = {}
  /\ heard \in [Goroutines -> Ids]
  /\ pending = FALSE
  /\ copy = NoCopy
  /\ signals = MaxSignals
  /\ added = [i \in Ids |-> 0]
  /\ torn = FALSE

----------------------------------------------------------------------------
\* sync.RWMutex: who cannot have the lock is counted and sleeps; whoever frees
\* the lock wakes one sleeper if the count says that there is one.
Runs(p, here) == alive /\ at[p] = here /\ p \notin asleep

Go(p, there) == at' = [at EXCEPT ![p] = there]

Sleep(p) ==
  /\ asleep' = asleep \cup {p}
  /\ mutex' = [mutex EXCEPT !.waiters = @ + 1]

Free(m) ==
  LET freed == m.readers = 0 /\ m.waiters > 0 IN
  /\ mutex' = IF freed THEN [m EXCEPT !.waiters = @ - 1] ELSE m
  /\ IF freed /\ asleep # {} THEN \E p \in asleep : asleep' = asleep \ {p}
                             ELSE UNCHANGED asleep

\* A fatal error of the runtime ends the process.
Die == alive' = FALSE /\ UNCHANGED <<tables, mutex, callVars, reloadVars, added, torn>>

\* Mutant: AddServer takes the lock for reading.
Lock_Shared(p) ==
  /\ Runs(p, "lock")
  /\ IF ~mutex.locked
     THEN mutex' = [mutex EXCEPT !.readers = @ + 1] /\ Go(p, "check") /\ UNCHANGED asleep
     ELSE Sleep(p) /\ UNCHANGED at
  /\ UNCHANGED <<alive, tables, heard, reloadVars, added, torn>>

\* AddServer: s.metadataMutex.Lock()
Lock(p) ==
  /\ Runs(p, "lock")
  /\ IF ~mutex.locked /\ mutex.readers = 0
     THEN mutex' = [mutex EXCEPT !.locked = TRUE] /\ Go(p, "check") /\ UNCHANGED asleep
     ELSE Sleep(p) /\ UNCHANGED at
  /\ UNCHANGED <<alive, tables, heard, reloadVars, added, torn>>

\* Whether the server is in the table.
Check(p) ==
  /\ Runs(p, "check")
  /\ Go(p, IF heard[p] \in heap[servers] THEN "known" ELSE "insert")
  /\ UNCHANGED <<alive, tables, mutex, asleep, heard, reloadVars, added, torn>>

Insert(p) ==
  /\ Runs(p, "insert")
  /\ heap' = [heap EXCEPT ![servers] = @ \cup {heard[p]}]
  /\ added' = [added EXCEPT ![heard[p]] = @ + 1]
  /\ Go(p, "new")
  /\ UNCHANGED <<alive, servers, mutex, asleep, heard, reloadVars, torn>>

\* The registration endpoint, till.Get and the stats endpoint read the table
\* without the lock: should they do so now, the runtime may notice and abort.
ReadDuringInsert(p) == Runs(p, "insert") /\ Die

\* Mutant: a server that is known already leaves the lock held.
Unlock_Forgotten(p) ==
  /\ Runs(p, "new") \/ Runs(p, "known")
  /\ IF at[p] = "known" THEN UNCHANGED <<mutex, asleep>>
                        ELSE Free([mutex EXCEPT !.locked = FALSE])
  /\ Go(p, IF at[p] = "new" THEN "rlock" ELSE "over")
  /\ UNCHANGED <<alive, tables, heard, reloadVars, added, torn>>

\* s.metadataMutex.Unlock(): fatal if the lock is not held.  If the server is
\* new, NotifyServer goes on to SendKnownServersTo.
Unlock(p) ==
  /\ Runs(p, "new") \/ Runs(p, "known")
  /\ IF ~mutex.locked THEN Die
     ELSE /\ Free([mutex EXCEPT !.locked = FALSE])
          /\ Go(p, IF at[p] = "new" THEN "rlock" ELSE "over")
          /\ UNCHANGED <<alive, tables, heard, reloadVars, added, torn>>

\* SendKnownServersTo: state.metadataMutex.RLock()
RLock(p) ==
  /\ Runs(p, "rlock")
  /\ IF ~mutex.locked
     THEN mutex' = [mutex EXCEPT !.readers = @ + 1] /\ Go(p, "read") /\ UNCHANGED asleep
     ELSE Sleep(p) /\ UNCHANGED at
  /\ UNCHANGED <<alive, tables, heard, reloadVars, added, torn>>

\* The table has been copied: state.metadataMutex.RUnlock().
RUnlock(p) ==
  /\ Runs(p, "read")
  /\ IF mutex.readers = 0 THEN Die
     ELSE /\ Free([mutex EXCEPT !.readers = @ - 1])
          /\ Go(p, "over")
          /\ UNCHANGED <<alive, tables, heard, reloadVars, added, torn>>

----------------------------------------------------------------------------
\* usr1chan holds one signal; more are dropped.
Signal ==
  /\ alive
  /\ signals > 0
  /\ signals' = signals - 1
  /\ pending' = TRUE
  /\ UNCHANGED <<alive, tables, mutex, callVars, config, providers, copy, added, torn>>

\* Mutant: the copy gets a table of its own, with the servers known by then.
Reload_CopiesTable ==
  /\ alive
  /\ pending
  /\ copy = NoCopy
  /\ \E f \in Files :
       IF Kills(f) THEN Die
       ELSE /\ pending' = FALSE
            /\ heap' = Append(heap, heap[servers])
            /\ copy' = [config |-> f, mutex |-> mutex, servers |-> Len(heap) + 1]
            /\ UNCHANGED <<alive, servers, mutex, callVars, config, providers, signals, added, torn>>

\* InitStateConfig(state): the struct is copied, with the lock and the reference
\* to the table, and whatever file is there now is loaded into the copy.
Reload ==
  /\ alive
  /\ pending
  /\ copy = NoCopy
  /\ \E f \in Files :
       IF Kills(f) THEN Die
       ELSE /\ pending' = FALSE
            /\ copy' = [config |-> f, mutex |-> mutex, servers |-> servers]
            /\ UNCHANGED <<alive, tables, mutex, callVars, config, providers, signals, added, torn>>

\* state = newstate: the lock becomes what it was when the state was copied,
\* and the table is the one the copy refers to.
Replace ==
  /\ alive
  /\ copy # NoCopy
  /\ config' = copy.config
  /\ providers' = Providers(copy.config)
  /\ servers' = copy.servers
  /\ mutex' = copy.mutex
  /\ copy' = NoCopy
  /\ torn' = (torn \/ Unused # mutex \/ Unused # copy.mutex)
  /\ UNCHANGED <<alive, heap, callVars, pending, signals, added>>

----------------------------------------------------------------------------
CallStep(p) ==
  \/ Lock(p) \/ Check(p) \/ Insert(p) \/ ReadDuringInsert(p) \/ Unlock(p)
  \/ RLock(p) \/ RUnlock(p)

\* The process has ended, or nothing goes on in it.
Quiet ==
  /\ ~alive \/ (~pending /\ copy = NoCopy /\ \A p \in Goroutines : at[p] = "over" \/ p \in asleep)
  /\ UNCHANGED vars

Next == (\E p \in Goroutines : CallStep(p)) \/ Signal \/ Reload \/ Replace \/ Quiet

Spec == Init /\ [][Next]_vars

\* The goroutines run.  Each takes a few steps, so that it is enough that some
\* goroutine that can take one does.
FairSpec == Spec /\ WF_vars(\E p \in Goroutines : CallStep(p))

----------------------------------------------------------------------------
\* What the lock is for: a server is added, and told of all the others, once,
\* though several goroutines hear of it at the same time; unless a reload
\* copied the lock while it was in use, or overwrote it then.
AddedOnce == torn \/ \A i \in Ids : added[i] <= 1

\* A reload forgets no server, also if it is added between the copy of the
\* state and the assignment of the copy: what AddServer puts into the table of
\* the global then is in the table that the copy brings.
RegistrationsKept == \A i \in Ids : added[i] > 0 => i \in heap[servers]

\* Every goroutine gets the lock and is done with it, unless the process died
\* or a reload copied or overwrote the lock while it was in use.
RegistrationsReturn == \A p \in Goroutines : <>(at[p] = "over" \/ ~alive \/ torn)

Valid(file, i) ==
  LET e == file.entries[i]
  IN Parses(e) /\ Connects(e, file.broken)

\* The providers in use are, name by name, the first of the configuration in use
\* that could be parsed, logged in to and connected, whatever failed before.
LoadedIsFirstValid ==
  LET valid == {i \in DOMAIN config.entries : Valid(config, i)}
      name(i) == config.entries[i].name
  IN /\ DOMAIN providers = {name(i) : i \in valid}
     /\ \A i \in valid :
          (\A j \in valid : name(j) = name(i) => i <= j) => providers[name(i)] = config.entries[i]
=============================================================================
