# Till: models, checks and proofs

Till (`src/`) is a Go cache server.  `tilld` serves GET, POST and PUT of immutable, time-limited objects over
HTTP and dispatches each request to several storage providers at once: Redis, a local directory, S3, Rackspace
Cloud Files, other Till servers.  This directory holds TLA+ models of it, the TLC configurations that check
them, and proofs for TLAPS.

Contents: 1 inventory, 2 plan, 3 modules and code, 4 runs and bounds, 5 fairness, 6 proofs, 7 where the code
departs from what it says, 8 what is not modelled.

## 1. Inventory

| Component | State it keeps | Operations | Interacts with | What is hard | What makes it correct |
|---|---|---|---|---|---|
| Object endpoints (`tilld.go` 268-706) | per request: targets, goroutines, an unbuffered result channel, counters, deadline | GET, POST, PUT: select providers, start one goroutine each, join, answer | providers (calls), reload (shared `state.Providers`) | results in any order, late or never; panics recovered; the channel closed under senders; providers selected again for the error body | one answer unless the object itself hangs; it claims only what was received; every object returned is closed once; no goroutine is left |
| File provider (`file.go`) | files and metadata files on disk; cache map, sorted keys, size, channel `add` of capacity 10 | Get, Put, Update; the expiry loop with scan, expiry and eviction | endpoints call it; its loop shares the cache map and the disk with them, no lock | exclusive create races, files and metadata written and unlinked in separate steps, full channel, restart on old files | no upload replaced; each file known to the loop, after a crash too; removed when due, not before; bounds kept; loop never stuck |
| Redis provider (`redis.go`) | two keys per object, item count | Get by GETRANGE, Put, Update, RemoveOldest | a Redis server, other `tilld` on it | count read before the write, metadata set before the object, two expiries per object, bodies read in pieces, EXPIRE of nothing | items bounded, no object replaced or lost early, one body per answer |
| Cluster registry (`till.go` 70-86, `state.go`, `tilld.go` 107-209) | the table of known servers and its RWMutex | OnServerUp, registration, NotifyServer, AddServer, SendKnownServersTo | other `tilld` processes | announcements that cross, get lost or lead to further ones; identifiers that change with each start | all know all in the end, nobody lists itself, the gossip ends |
| Till provider (`till.go` 88-200) | per GET: a goroutine and a connection for each server asked | Get, by forwarding to other servers; Put and Update do nothing | their GET endpoints | servers that know each other, a wait longer than the deadline, responses nobody takes | each entry of the table asked once, everything ends |
| Reload (`tilld.go` 49-58, `state.go` 34-80) | the whole state | SIGUSR1 | everything in flight | new providers while the old expiry loops still run; the mutex is copied and overwritten | requests unharmed, no server forgotten, the lock remains a lock |
| Configuration (`config.go`, and the parse functions of the providers) | none | parse, instantiate, connect | start-up and each reload | entries of wrong kinds, doubled names, providers that cannot be reached | the first entry of each name that works is used |
| Lifespans, whitelists, routing (`provider.go`, `regexphandler.go`, `tilld.go` 224-242, 417-449) | none | match, parse | each request | floats, overflow, missing whitelists | documented defaults and refusals |
| Object types (`object.go`, `bufferreader.go`) | an open file, connection or buffer | Read, Close | endpoints, providers | one body read by several goroutines | closed once |
| S3, Rackspace (`s3.go`, `rackspace.go`), S3 client (`s3interface.go`, `s3sign.go`, a fork of goamz) | remote | Get, Put; Update does nothing | remote services | remote failures | errors reported |
| Python client (`python/till`) | none | wraps HTTP | tilld | none | none |

The hazards this leads to are listed in `PROJECT.json`, each at its line with the properties that watch it.
`not_modelled` components are listed there too, with the reason.

## 2. Plan

Done, in this order:

1. `Gather`, what an object request promises, and `Dispatch`, what the three endpoints share.
2. `ObjectGet`, `ObjectPost`, `ObjectUpdate`: the endpoints, each implementing `Gather`.
3. `FileDisk`, `FileExpiry`, `FileProvider`: directory, expiry loop, and the provider calls composed with both,
   with crashes and faults.
4. `ObjectGet_proofs`, `ObjectPost_proofs`, `ObjectUpdate_proofs`, `FileProvider_proofs`.
5. `RedisProvider`: the calls as sequences of Redis commands; `RedisProvider_proofs`.
6. `Registry`: servers that learn of each other; `Registry_proofs`.
7. `ForwardedGet`: the till provider composed with the GET endpoints of the servers it asks;
   `ForwardedGet_proofs`.
8. `Config` and `ServerState`: the configuration, its reload, the table and its lock under both;
   `ServerState_proofs`.

Next, most important first:

9. Two `FileExpiry` instances on one `FileDisk`, as after a reload.
10. `Lifespan`: GetLifespan, GetDefaultLifespan and AcceptsKey as operators against a reference.
11. Proofs about the modules of 9 and 10; a store as the abstract specification of the providers.

## 3. Modules and code

`Gather` is abstract: a request asks some providers, hears votes one at a time, answers once, and the code it
answers must be supported by the votes heard so far (201 by all of them, 200 and 202 by one, 404 and 503 by a
negative vote of everyone asked, 502 and 504 by the absence of a positive one). A miss and a failure are one
negative vote: which of 404 and 503 they lead to is not its subject.

`Dispatch` holds the shared mechanics of `tilld.go`.  `targets` is the slice GetProviders returned. `worker[p]`
follows the goroutine of provider p: `calling` the provider, `sending` on the unbuffered channel, `delivered`,
or `recovered` from a panic.  A send completes only together with the handler's receive (`Handover`); on the
closed channel it panics and is recovered (`Swallowed`). `Reload` replaces the loaded providers at any point.

`ObjectGet`, `ObjectPost`, `ObjectUpdate` have one action per step of the handler between two points where
another goroutine can act: Refuse (a bad header), Begin, Receive, Timeout, Respond (for GET: StartStreaming or
Fail), Close; and per goroutine a return of the provider's call, its panic (POST only) and its swallowed send.
They differ as the code does.  Only GET tracks the resource behind each result (`object`): a found object holds
one, and a provider that misses or fails may keep one that it never hands over (`lost`).  The winner is used by
the handler itself, which calls the provider again without a deadline: GetSize and Read until the first piece is
written (`FirstPiece`), then Read to the end (`EndStreaming`).  POST skips the join loop when no provider is
selected, PUT never closes its channel and enters the loop even then; an unsynchronized POST or PUT forgets that
its deadline passed.  An acknowledgement is just that: in neither endpoint does it say that the provider stored
or holds the object (section 7).

`FileDisk` is the directory: `file[k]` is the call whose upload is linked at the path of k, `whole` the uploads
written completely, `meta[k]` the metadata file, which os.Create truncates before it is written, and which
several calls may have open at once.  A record written over a longer one with another metadata string can leave
a tail that does not parse (`garbage`).

`FileExpiry` is StartExpiryLoop: the scan at the start, then `select` over the channel, the timer; Expire,
Remove (three separate steps: file, metadata, cache entry), RemoveOldest and the two eviction loops.  Each
action is one change that request handlers can observe, and each system call of the loop can fail: a directory
that cannot be opened or listed ends the loop for good (`loop` = "ended"), an object that cannot be read is
skipped, one that cannot be statted is not counted, or not removed.  `sorted` is sortedCacheKeys, with the order
of equal expiries left open (map order, unstable sort).  The channels `update` and `done` are left out: no code
sends on them.

`FileProvider` adds the calls (`Put`, `Update`, `Get` split at each system call, channel send and read of the
cache map), the clock and crashes.  The cache map is read by handlers while the loop writes it.  The model gives
each read the value of some moment; Go may also abort the process when it notices such a pair, which is the
action `Crash`.  After a crash a new loop starts on the same directory, and calls in progress are lost.  The
file provider's expiries are whole seconds, as in the code.

`RedisProvider` has the keys of Redis as two functions, `value` and `metadata`, from keys to uploader and time
of expiry, and one action per Redis command of a call: `Count`, `Pick` and `DelVictim` are the loop that makes
room, `FindMeta` and `FindValue` the two EXISTS, then SETEX twice, or EXPIRE twice in Update. Redis runs one
command at a time, so commands of other calls, of this process or another on the same database, come between any
two.  `PutClock` and `UpdateClock` take the time from which the seconds given to Redis are counted; `Tick`
expires keys.  A `Fault` is a command that was not executed, `Replied` lets the reply of an executed one get
lost.  A GET reads the metadata string and two pieces of the body.  `peak` is a history variable: the most POSTs
that were ever between the count and the end of their stores.

`Registry` has one table `servers[a]` per machine and the bag `tasks` of the goroutines that run NotifyServer. A
task carries the calls it has still to make, innermost first, because SendKnownServersTo calls NotifyServer
again for each server it copied (a map, so in any order).  `Register` is the whole exchange up to the reply,
which the endpoint computes without the lock; `AddServer` and `SendKnownServersTo` are the sender's steps after
it.  An identifier is the node and the number of its start: NewState draws a new UUID, while other tables keep
the old one.  `OnServerUp` runs 500 ms after the start and is not ordered with `Listen`.  `PostFails` and
`ReplyLost` are the connections that fail; `Crash` loses table and goroutines. Nothing removes a server:
RemoveServerByID, RemoveServerByAddr and IsExpired have no caller.  Until a server is started `mode` is "down",
and then its `Start` is NewState.

`ForwardedGet` has a slot for each GET in progress anywhere in the cluster.  `Arrives` starts the goroutines of
the endpoint and of TillProvider.Get, `query[s][e]` is the goroutine queryServer that slot s runs for the entry
e of the table of known servers or of the configured list, and `remote[s][e]` the slot of the GET it made
there.  Entries are identifiers or places in a list, `At[e]` the server one leads to: a server that was
restarted stands in a table twice.  queryServer sends an object or a nil, then one more nil; a failed call sends
one nil.  `Receives` takes what is sent while till.Get listens, `SendPanics` is the recovered panic on the
channel it closed.  `body[u]` is the response of slot u as its reader treats it.  The endpoint's join is reduced
to what `ObjectGet` establishes (first object wins, the deadline answers 504, a late object is closed); failures
of the local provider are in `ObjectGet`.  X-Till-Providers selects among the providers by name (`Selected`);
one client GET is followed through the cluster.

`Config` translates config.go and the parse functions: an entry is its type, its name and the JSON kind of each
other field; `Parses`, `Panics` (the unguarded assertions on type and name) and `Connects` say what each stage
refuses, `Setup` is a round of the loop of InitStateConfig.

`ServerState` puts the table, its RWMutex and the reload together.  The mutex is its reader count, its lock bit
and a count of sleepers, as in `sync`, without its fairness; goroutines go through AddServer and
SendKnownServersTo statement by statement.  A Go map is a reference: `heap` holds the tables there are,
`servers` the reference of the global state.  `Reload` copies the struct, with its reference and the value of
its mutex, `Replace` assigns the copy, and with it both.  From then on the lock is what it was at the copy:
`torn` records that it was in use at either moment.  An Unlock of a free lock is fatal in Go and ends the
process (`Die`), so may a map read during an insertion (`ReadDuringInsert`).

## 4. Runs

| Run | Instance | States | Shows |
|---|---|---|---|
| `get` | 2 providers, 1 reload | 24 k | all properties of GET |
| `post` | 3 providers, 1 reload | 330 k | all properties of POST |
| `put` | 2 providers, 1 reload | 6 k | all properties of PUT |
| `file_races` | 2 keys, 3 calls, GET and POST, lifespans 0 and 1, maxitems 2, maxsize 3 | 1.4 M | tracking, wake-ups and the item bound under races |
| `file_failures` | 1 key, 2 calls, POST and PUT, maxsize 2, 1 failing system call, 1 crash | 1.1 M | immutability, expiry, restart, termination |
| `redis` | 2 keys, 2 calls, GET, POST and PUT, maxitems 0 or 1, 1 failing command | 1.4 M | overshoot, replacement, expiry and termination, command by command |
| `registry` | 3 servers, one of them reachable under two names; four beginnings, see below | 380 k | tables complete, no self-listing, gossip ends |
| `forward` | 3 servers, 3 GETs in progress, tables full, empty or with a server listed twice, 2 sets of holders, 2 values of request_types | 810 k | each entry asked once, all ends |
| `reload` | 3 goroutines, 2 servers, 2 signals, 4 configuration files | 760 k | table, lock and providers across reloads |
| `file_lost`, `file_spin`, `redis_mixed` | the instances of `file_races` and `redis`, reduced | | a documented property that the code violates, see section 7 |

Properties of the endpoints.  `ImplementsGather`: the counters, the deadline and the choice of the status amount
to the abstract promise.  `Answered`: an answer comes even if every provider hangs; for GET, unless the provider
that won hangs afterwards, in GetSize or Read.  `NoGoroutineLeft`: if the provider calls return, every goroutine
ends.  `StreamsOpenObject` and `ObjectsReleased` (GET): the object being sent is not closed by anybody else, and
every object that a provider returned is closed in the end.  `BodyTruthful`: the JSON body of a 5xx says OK or
ERROR only of a provider that answered so, and TIMEOUT only of one that did not answer, although the providers
are selected anew for it after a possible reload (one that was never asked counts among the latter).
`SynchronousLeavesNothing`: the one case in which PUT, with its unclosed channel, is sure to leave no goroutine.

Properties of the file provider.  `FilesTracked`: no interleaving of Put, Update, Remove and the channel leaves
a file nobody will expire.  `NoOversleep`: the loop's sleep ends in time for every object it has cached.
`ItemsBounded`: when everything has settled fewer than maxitems files are left. `FilesFound`: whatever a crash
interrupts, the loop of the next process knows of every complete object once its scan is over, but for one whose
metadata was being rewritten.  `Immutable` and `RemovedWhenDue` hold whatever fails or crashes.
`EveryFileExpires`: an object the loop knows of, before or after a crash, is removed in the end.
`EveryCallReturns`: calls return although the channel is bounded.  The last two hold with eviction switched on
and any one of these system calls failing, but not if the loop is `Stuck`: it ended because it could not list
the directory, or it turns over an empty list (`file_spin`).

Properties of the Redis provider.  `ItemsBounded`: count and store are separate commands, so POSTs overshoot
maxitems, but by less than the number that were past the count at once; one at a time keeps the bound.
`ReplacedOnlyInRace`: without such an overlap no upload replaces another; the metadata, set first, expires
first, and only the second EXISTS then finds the object.  `RemovedWhenDue`: but for eviction, a value goes when
an expiry has come that was asked for, although the seconds count from an earlier moment. `EveryCallReturns`:
the loop that makes room ends.

Properties of the cluster.  `NoSelfQuery`: no server has its own address in its table, although it hears of
itself from others, by identifiers of earlier starts too, and may be configured with another name of its own.
`QuietMeansComplete`: once no announcement is under way, all know all by their latest identifiers, unless one
was lost (`forgotten`): the code repeats none.  `GossipEnds`: announcements lead to others, but not forever.
`AskedOnce`: with request_types set, a GET leads to one query per entry of the table or list, and to no other.
`ForwardingEnds`: the GETs, goroutines and connections it leads to all end, even if local providers hang and
connections break, but for a server still writing a large object to one that dropped its response (section 7).

Properties of the state.  `AddedOnce`: two goroutines never both add a server, so that it is told of the others
once.  `RegistrationsReturn`: each of them gets the lock and ends.  Both hold unless `torn`; a reload that meets
the lock in use breaks them (section 7).  `RegistrationsKept` holds even then, since the copy carries the
reference to the table and not a table. `LoadedIsFirstValid`: the providers in use are, by name, the first
listed ones that work.

Bounds, and why they suffice:

- Providers: two are enough for every order of two results against deadline, close and reload; POST has a third,
  so that an acknowledgement, a failure and a panic can meet.  `MaxReloads` = 1: one reload separates the two
  selections of providers.
- Calls: each call runs once; three on two keys give a create race, an update and a reader or an addition in the
  channel.  With `MaxItems` = 2 the second object causes an eviction.
- `QueueCap` = 1 instead of 10, so that two senders already fill the channel.
- `MaxTime`: 2 or 3 seconds, enough for an object to be stored, prolonged, expire, and be stored again. Lifespan
  0 is accepted by the code.  `IdleSleep` = 5 instead of 3600: longer than the run, as an hour is for an object.
- `MaxFaults` = 1, `MaxCrashes` = 1: any one system call, of a request or of the expiry loop, or any one Redis
  command fails, and any step can be the last before a crash; the actions do not depend on the count, and the
  proofs hold for any.  `MaxTime` bounds the clock and is a constant of the specification: a loop that sleeps
  longer wakes at the bound.
- Redis: two calls are one race of two POSTs, a POST against a PUT or a GET, or a POST after another; a third
  call only adds to the overshoot, which the proof bounds for any number.  maxitems is a variable chosen at the
  start because the count matters with a limit and re-POSTs of an unexpired key without one.
- Registry: a third server is the first one of which another tells.  The four `Beginnings` are: two servers join
  a third at once; all start at once; a complete cluster in which one crashes and comes back; one joins two
  others while one request or reply is lost.  `replies` bounds the replies on their way at once, 2 where two
  goroutines may add the same server; the tasks that wait to be run are not bounded.
- ForwardedGet: three slots are the client's GET and one for each of two queries.  `asks` counts to 2, enough to
  see an entry asked twice.  An empty table means the configured servers. Queries that wait for a slot wait as
  they would for the network.
- ServerState: three goroutines are the least for one that holds the lock, one that sleeps and one that hears of
  the same server; two reloads overlap with each.  The four files hold each reason to refuse an entry, none, and
  the two ways to kill the process.
- Body sizes are 1, or 3 for one upload where the sum matters.

The symmetry sets permute keys, and calls where all bodies have the same size; they are used in runs without
liveness only.

## 5. Fairness

The handlers and the expiry loop are goroutines that Go schedules whenever they can run: weak fairness of their
steps.  The deadline is one of the handler's steps, since the timer fires; the steps of GET that wait for the
winning provider (`ObjectStep`) are not among them. `Tick` is weakly fair, since time passes.  Provider calls of
the endpoints get no fairness: a provider may hang, and `Answered` holds nevertheless; `NoGoroutineLeft` states
its assumption that they return, GetSize and Read included, in its formula.  Calls of the file and Redis
providers are weakly fair (system calls and Redis answer); a send on the full channel waits for the loop.  In
`Registry`, `ForwardedGet` and `ServerState` it is enough that some goroutine of those that can run takes a
step, since each takes only finitely many: one weak fairness condition on the disjunction, in `ForwardedGet`
with the deadlines and the network among the steps and the local providers not; the second one there, on
`Retire`, frees slots.  Requests, reloads, faults and crashes need never happen.

## 6. Proofs

Checked by TLAPS for every value of the constants, from the named assumptions on them (finite sets, natural
bounds, positive channel capacity, and for the cluster a configuration in which the servers can find each
other).  Every safety property that a passing run checks is stated by a theorem.

- `ObjectGet_proofs`, `ObjectPost_proofs`, `ObjectUpdate_proofs`.  The inductive invariant of each adds to the
  types that the two counters are the number of delivered results and of good ones among them (`Counted`, from
  the cardinality theorems), that nothing is dispatched before Begin or answered before the handler's response
  (`Phases`), and, for GET and POST, that the statuses in the body follow the receives (`Reported`). Without
  `Counted` a comparison of counters would say nothing of providers. The counter lemmas stand in each module,
  since they are about the variables of its endpoint.
  - GET: what the goroutine of each provider does with its object, from opening to closing (`Owned`), and that
    the object kept is that of the first hit (`FirstObjectWins`).  Hence `StreamOpen`, `AllReleased`,
    `BodyTrue`.
  - POST: `BodyTrue` needs no more than that.
  - PUT: the synchronous join ends only when all results are in (`JoinComplete`).  Hence `LeavesNothing`.
  - Refinement: Begin maps to Ask, Receive to Hear, the answer (Refuse, Respond, Fail, FirstPiece, and a Close
    before any piece) to Answer, everything else to a stutter (`GetImplementsGather`, `PostImplementsGather`,
    `PutImplementsGather`).
- `FileProvider_proofs`.  The type invariant is inductive only together with `Expiring`: while Expire runs the
  keys it has left are cached, distinct, and not the one being removed.  From it: `TypeCorrect` (with the
  capacity of the channel) and `UploadsImmutable`, for any number of keys, calls, faults and crashes.  Every
  expiry in the channel, the cache or a readable metadata file was asked for by a request for that key
  (`Traced`), hence `NeverEarly`.  The next part is about the time until the first crash or failed call
  (`Quiet`).  Until then each linked file is in the hands of a call that will announce it or in the channel
  (`Pending`), or it is cached and the loop will look at it in time (`Watched`); Expire goes through its keys by
  expiry (`Ordered`), and the cache exceeds maxitems only before its first eviction or during one (`Bounded`).
  Hence `NoFileForgotten`, `WakesInTime`, `ItemsLimited`.  `Quiet` is needed: with one failed call TLC finds all
  three violated (in `file_races` with `MaxFaults` = 1).  A file whose metadata cannot be created is never
  announced, and an object that cannot be unlinked stays cached while the loop goes to sleep for an hour.
  `RestartFindsAll` needs no failed call but allows any number of crashes.  Its invariant `Found`: a linked file
  is known to the loop, or a crash cut it off, and then no upload of its key is under way any more and either it
  has no readable metadata, or an Update has written it since, or the scan has still to look at it.
- `RedisProvider_proofs`.  The inductive invariant is that items and storers together fit below maxitems plus
  `peak` (`Room`; the storers must be counted because each may still add an item), that SETEX of a value is
  reached with a positive time to live (`Positive`, without which the types are not inductive), that a time to
  live computed earlier reaches the expiry asked for (`Requested`), and that each value has an expiry somebody
  asked for (`Sourced`).  From them: `TypeCorrect`, `OvershootBounded`, `NeverEarly`, and with `Alone` (without
  a race there is one storer, and its key is free from the second EXISTS on) `ReplacementNeedsRace`, for any
  number of keys, calls, limits and faults.
- `Registry_proofs`, first part.  `NoSelfQuery` alone is not inductive: AddServer compares identifiers, not
  addresses. The invariant adds that a goroutine belongs to a running process (a crash removes it) and that a
  reply which came from the node itself carries its present identifier (`Sound`), so that the comparison catches
  it. From it: `TypeCorrect`, `NeverListsItself`, for any number of servers, names, crashes and losses.
- `Registry_proofs`, second part: `AllMeet`.  b *learns* of c if it has c in its table, has c to call or its
  reply to add, or somebody else is going to tell it of c; no step but a loss, a start or a crash ends that
  (`LearnsStays`).  Up to the first crash the invariant (`FirstStarts`) is: whom a server knows or calls learns
  of it (`Answering`), and two servers that a third one knows learn of each other, or it has just added one of
  them and will tell it of the other (`Introducing`).  Both are false after a crash: goroutines that the old
  process has been told by still aim at its address, and so come to know the new one, which nobody tells of
  them. But a crash of which nothing was lost came when all had met, so from then on (`OneReturns`) all others
  know each other, and it is enough that one of those listed by the new process learns of it and tells it of
  all. The assumptions `ContactsConnect` and `CrashedReturn` say that the configured server lists connect the
  servers; the code cannot see to that, and a server that lists nobody and is listed by nobody is found by
  nobody. TLC evaluates them, and the invariant (`MeetInv`) was checked on the instance of `registry` before it
  was proved.
- `ForwardedGet_proofs`.  Only the client's GET makes queries, as the header keeps the till provider out of the
  others (`OneOrigin`, as long as request_types is set and local, the antecedent `Local` of the property), each
  query belongs to a GET that has its slot still (`Owned`), and an entry that has not been called has not been
  asked (`Unasked`).  From it: `TypeCorrect`, `EachAskedOnce`, for any number of servers, of entries per server
  and of GETs in progress.
- `ServerState_proofs`.  Unless `torn`, whoever is inside AddServer holds the lock and is alone (`Exclusion`),
  and who is about to insert has found the server missing (`Fresh`).  `Present` holds in any case: a copy
  carries the reference that the global state has (`Shared`), so that what was added is in the table after
  Replace too.  From it: `TypeCorrect`, `AddedOnlyOnce`, `ReloadKeepsServers`, for any number of goroutines,
  servers, signals and files.  `FirstOnesLoaded` is about the loop of InitStateConfig over the entries of a file
  (`Providers`, a recursive function).  That the function exists is `Unrolled`; that after n entries it holds
  the first usable ones among them is shown by the least n at which it would not (`FirstOnes`, from the
  well-foundedness of the naturals), for files of any length (`EntriesListed`: a configuration is a list).

Only model-checked: all liveness and everything about fairness (`Answered`, `NoGoroutineLeft`,
`EveryFileExpires`, `EveryCallReturns`, `GossipEnds`, `ForwardingEnds`, `RegistrationsReturn`), which TLAPS does
not reach, and the three counterexamples of section 7.

## 7. Where the code departs from what it says

Three of these have a run that expects a violation; the quotations are in `PROJECT.json`.

- `file_lost`: a POST or PUT that prolongs an object announces it in the channel and is acknowledged; the loop,
  on its way through Expire, removes the object at the expiry it has cached.
- `file_spin`: a size can be counted twice (by an update, or by the scan at the start and the Add of an upload
  under way), and each removal drops two keys; the eviction loop runs out of keys and turns forever.
- `redis_mixed`: the second of two racing POSTs replaces what the first stored, and a GET that reads meanwhile
  serves half of each.

The models also show the following, for which no run is kept.

What `src/README.md` says and the code does not do:

- Line 72: 502 for a GET when a provider failed.  The code sends 503, or 404 if the last result was a miss; no
  GET gets a 502.  No property of `get` tells these codes apart.
- Lines 73 and 75: 504 and "TIMEOUT" for providers that timed out.  The body is made from the providers selected
  at that moment, so that after a reload it lists providers as timed out that were never asked.  An
  unsynchronized POST answers 502, not 504, when its deadline passes.
- Line 80: the status of a failed provider is "FAILURE".  It is "ERROR", and a miss is "OK".
- Line 111: 200 for a POST of an object that is in the cache.  The code sends 201 or 202 as for a new one.  It
  also replaces the metadata, and S3 and Rackspace replace the object, which the line says remains.
- Lines 112 and 113: 201 and 202 mean that the object has been persisted.  A till provider acknowledges and
  stores nothing.  The file provider does so when the loop's cache has an entry of the key left while the object
  is being removed, and for good if the metadata could not be unlinked.  The Redis provider does so when it
  finds metadata without a value.
- Lines 135 and 137: 200 and 404 for a PUT.  The code sends 201 and never 404: EXPIRE of a missing key is no
  error, the Update of S3, Rackspace and till does nothing, and the file provider acknowledges on a cache entry
  or on metadata whose object is gone; where no provider acknowledges, the answer is 502.
- Line 156: see Cluster.

Endpoints: a GET's deadline covers Get only; GetSize (STRLEN in Redis) and Read of the winning provider come
after it and may hang for good, the request unanswered.  PUT never closes its channel, although `UpdateObject`
has the recover() of the other two for "a closed channel" (`src/src/tilld.go` 610): each late result leaves a
goroutine blocked for the life of the process.  A GET for which no provider was selected waits for its deadline
and answers 504.

File provider: a GET whose metadata cannot be loaded leaves the file open (`src/src/file.go` 371-384).  If the
directory cannot be opened or listed at the start, the loop is over for good (115-125), the channel fills up and
uploads block.  A crash between the create of a file and its metadata leaves a file that no scan will cache,
that never expires, and whose key can neither be stored nor prolonged again, since Put then turns to Update and
that finds no metadata.  A file whose metadata is being rewritten while the loop scans is skipped until the next
start.  Between the two unlinks of Remove a GET can pair a new half-written file with the old metadata; two
metadata writers at once can leave a file that does not parse.  The loop evicts the object that would expire
last; a size counted while its file is being written is too small, and the directory can outgrow maxsize.  A PUT
that reaches the provider before the loop has cached the object is not announced to the loop, so that the object
goes at its old expiry; one that reaches it later drops the object's metadata, having none of its own.

Redis provider: a miss or an error in Get keeps its connection (`src/src/redis.go` 156-174).  Metadata expires
before its object, which is then served, and prolonged, without metadata.  A POST without Content-Length panics
after it has set the metadata, as one whose second SETEX fails: every later POST of the key is acknowledged with
nothing stored.  A GET of an object that Redis drops between two commands gets an empty or a short body.

Cluster: announcements are never repeated, so that one lost POST can leave two servers that do not know each
other, and so can restarts at the same time; servers never leave a table, and the entries of earlier starts
stay, although line 156 of `src/README.md` promises that servers expire, since lifespans are ignored; a server
whose earlier identifier is in a table is asked twice by each GET; a GET forwarded to two servers that miss it
is answered 504 by default, as till.Get ignores the nils and waits for its 2 s, and with a longer get timeout
404 although a server may still answer; a response that comes after the first object is neither read nor closed,
and the server that sends it stays in its handler if the object is large; without request_types, as they are by
default, servers that know each other forward a miss to each other again and again; request_types are names, and
the types `file` and `redis` of the repository's test configuration select nothing.

Reload: the mutex is copied with the state.  If it was locked at the copy and free at the assignment, it is
locked for good, and every registration blocks; if it was locked at the assignment only, its Unlock is a fatal
error. A file that cannot be read or whose type or name is not a string kills the process, also on SIGUSR1.
OnServerUp is not called for the new providers, a changed public address is not announced, a changed port not
bound, and the expiry loops of the old file providers go on with the same directories.  Of the example
configuration of the README the Redis entry (port and db are strings) and the Rackspace one (no container) are
left out, and Rackspace's NewProvider drops the error of the container.  The table is read in three places
without its lock, which the runtime may answer by ending the process.

## 8. Not modelled

The expiry loops that survive a reload beside the new ones (planned: `FileExpiry` twice on one `FileDisk`), and
the pure functions on strings and floats: whitelists, lifespan patterns, routes, lifespans that are NaN or
overflow. The lifespans of servers, which nothing reads.  HTTP below a request and its response or failure.  S3
and Rackspace appear only through what they answer; their client library and the signatures are a vendored fork
and pure I/O.  The Python client has no state.  Request bodies, metadata strings and JSON wording are data: a
body is the call that uploaded it.  The shared buffer of a POST body (`bufferreader.go`) is reduced to whether
it could be read.
