------------------------------ MODULE Dispatch ------------------------------
(***************************************************************************)
(* What the object endpoints of tilld.go share.  A handler selects the     *)
(* providers of its request, starts one goroutine per provider, and joins  *)
(* their results on one unbuffered channel against a deadline.  The        *)
(* provider calls themselves are the environment: they answer in any       *)
(* order, at any time, or never.  A SIGUSR1 reload may replace the loaded  *)
(* providers while a request is in flight.                                 *)
(***************************************************************************)
EXTENDS Naturals, FiniteSets

CONSTANTS
  Providers,   \* every name a configuration gives to a provider
  MaxReloads   \* bound on the configuration reloads during the request

ASSUME ProvidersFinite == IsFiniteSet(Providers)
ASSUME MaxReloadsNat == MaxReloads \in Nat

VARIABLES
  configured,  \* names in state.Providers
  accepting,   \* those of them whose whitelist matches the key
  reloads,     \* reloads so far
  request,     \* the request being served
  handler,     \* where the handler goroutine is
  targets,     \* the providers GetProviders selected for the dispatch
  worker,      \* where the goroutine of each provider is
  reply,       \* what the provider's call returned
  closed,      \* whether the handler has closed the result channel
  received,    \* results taken from the channel
  successful,  \* successful ones among them
  timedOut,    \* was_timeout
  status       \* HTTP status written, 0 before

configVars  == <<configured, accepting, reloads>>
workerVars  == <<worker, reply>>
handlerVars == <<handler, targets, closed, received, successful, timedOut, status>>

WorkerStates == {"idle", "calling", "sending", "delivered", "recovered"}

\* GetProviders: the header's names that are loaded, whatever their whitelist
\* says, or without a header every loaded provider that accepts the key.
Selected(named) == IF named = {} THEN accepting ELSE named \cap configured

Dispatched == Cardinality(targets)

DispatchInit ==
  /\ configured \in SUBSET Providers
  /\ accepting \in SUBSET configured
  /\ reloads = 0
  /\ handler = "start"
  /\ targets = {}
  /\ worker = [p \in Providers |-> "idle"]
  /\ reply = [p \in Providers |-> "none"]
  /\ closed = FALSE
  /\ received = 0
  /\ successful = 0
  /\ timedOut = FALSE
  /\ status = 0

DispatchTypeOK ==
  /\ configured \subseteq Providers
  /\ accepting \subseteq configured
  /\ reloads \in 0..MaxReloads
  /\ targets \subseteq Providers
  /\ worker \in [Providers -> WorkerStates]
  /\ closed \in BOOLEAN
  /\ received \in Nat
  /\ successful \in Nat
  /\ timedOut \in BOOLEAN

\* Mutant: the selection keeps to the whitelists of the providers before.
Reload_OldWhitelists ==
  /\ reloads < MaxReloads
  /\ reloads' = reloads + 1
  /\ configured' \in SUBSET Providers
  /\ UNCHANGED accepting

\* main's SIGUSR1 goroutine replaces the loaded providers.  Goroutines
\* already started keep the provider they were given.
Reload ==
  /\ reloads < MaxReloads
  /\ reloads' = reloads + 1
  /\ configured' \in SUBSET Providers
  /\ accepting' \in SUBSET configured'

\* for _, p := range providers { go ... }
Launch(chosen) ==
  /\ targets' = chosen
  /\ worker' = [p \in Providers |-> IF p \in chosen THEN "calling" ELSE "idle"]

\* The provider's call returns r and its goroutine blocks on the channel.
Return(p, r) ==
  /\ worker[p] = "calling"
  /\ worker' = [worker EXCEPT ![p] = "sending"]
  /\ reply' = [reply EXCEPT ![p] = r]

\* An unbuffered send completes only together with the handler's receive.
Handover(p) ==
  /\ handler = "join"
  /\ worker[p] = "sending"
  /\ worker' = [worker EXCEPT ![p] = "delivered"]
  /\ received' = received + 1

\* A send on the closed channel panics, and the goroutine recovers.
Swallowed(p) ==
  /\ worker[p] = "sending"
  /\ closed
  /\ worker' = [worker EXCEPT ![p] = "recovered"]

\* The deferred close(result) as the handler returns.
CloseChannel ==
  /\ handler = "closing"
  /\ closed' = TRUE
  /\ handler' = "done"

Delivered == {p \in Providers : worker[p] = "delivered"}
WorkersOver == \A p \in Providers : worker[p] \in {"idle", "delivered", "recovered"}

\* The counters of the join loop count what was delivered, and nothing that
\* was never asked is ever delivered.
Counted(good) ==
  /\ Delivered \subseteq targets
  /\ received = Cardinality(Delivered)
  /\ successful = Cardinality({p \in Delivered : reply[p] \in good})

\* Refinement of Gather: the vote of p is what the handler has taken from the
\* channel.
Votes(good) ==
  [p \in Providers |-> IF worker[p] # "delivered" THEN "pending"
                       ELSE IF reply[p] \in good THEN "yes" ELSE "no"]
=============================================================================
