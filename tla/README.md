# TLA+ models of go-doudou's service registry and HTTP server

This directory holds the TLA+ verification of the two source files of this repository:

- `src/framework/registry/node.go`: the registry facade over hashicorp memberlist.
- `src/cmd/internal/svc/codegen/httpiclient.go`: the client generator and the `ddhttp.HttpRouterSrv` HTTP server.

It has modules, TLC models (`MC*.tla` + `*.cfg`), TLAPS proofs, and `PROJECT.json`. `PROJECT.json` maps every definition to the lines it models and lists the runs, mutants, findings and hazards.

## 1. Inventory

### Parts of the system and how they interact

| Part | Code | State | Operations |
|---|---|---|---|
| Registry facade | node.go:26-28, 57-88, 283-477 | package globals `mlist` (current memberlist or nil), `BroadcastQueue`, `events` (the delegate holding `ServiceProviders`) | `NewNode`, `Shutdown`, `Leave`, `AllNodes`, `RegisterServiceProvider`, `LocalNode`, `Info`/`BaseUrl`/`MetaWeight`/`SvcName` (read-only) |
| Membership engine (memberlist, not under src/) | spec 4.2-4.10 | per instance: member table (state, incarnation, meta per node), timers, sockets | probe/suspect/dead, alive refutation, push/pull, gossip, reclaim, local meta update; emits NotifyJoin/Leave/Update to `events` |
| Event delegate | node.go:28, 469 | `events.ServiceProviders` | forwards every member event to every registered provider |
| Seed parsing | node.go:35-55 | none (pure) | `seeds(MEM_SEED)` |
| Configuration | node.go:128-281 | none (pure over the environment) | `newConf()` |
| Broadcast queue | node.go:27, 331-344 | `BroadcastQueue` and each memberlist's TransmitLimitedQueue | `NewNode` replaces `BroadcastQueue`; client code enqueues; gossip drains; `NumNodes` reads the global `mlist` |
| HTTP server | httpiclient.go:138-476 | `Middlewares`, `bizRoutes`, router tables, the `http.Server` | `NewHttpRouterSrv`, `AddRoute`, `AddMiddleware`, `PreMiddleware`, `Run` (register, listen, block on SIGINT, graceful shutdown) |
| Client generator | httpiclient.go:1-104 | files | `GenGoIClient` (template rendering) |
| Test helper | node.go (appended `SetupEs6Container`) | a container | starts/stops Elasticsearch |

The parts interact as follows:

- **Startup.** The application calls `NewNode`. `NewNode` builds the config (`newConf`) and the meta, creates the memberlist with `events` as its event delegate, and joins the seeds (`seeds`).
- **Observers.** Service providers (client-side load balancers) call `RegisterServiceProvider`. It seeds them from `mlist.Members()` and then subscribes them to `events`. From then on, memberlist's goroutines call the providers on every join, leave and update.
- **Broadcasts.** Client code queues broadcasts into `BroadcastQueue`. Each memberlist's gossip drains the queue its delegate was given by the NewNode that created it.
- **HTTP serving and shutdown.** The HTTP server serves the routes. The generated main calls `Leave`/`Shutdown` when it stops.

### Hard behaviours

- Interleaving of the facade's calls with the memberlist goroutines that deliver events (registration race, data race on the provider slice).
- Partial failure of `NewNode`: create or join failing after globals were already overwritten.
- Restart: `NewNode` after `Shutdown` (or twice), with package globals surviving.
- Boundary inputs of the string and integer conversions in `seeds` and `newConf`.
- Order of middleware composition across any sequence of `AddMiddleware`/`PreMiddleware` calls.
- Listener failure and grace-period shutdown in `Run`.

## 2. Modules

### `Registry.tla`: facade plus engine abstraction (node.go)

**Variables** (the ghosts support the invariant only):

- `mlist`: the instance the global points to, or `Nil`. Instances are numbered by the NewNode call that created them.
- `running`: instances whose loops are still running.
- `calls` / `result`: NewNode calls made and the last result.
- `st`, `inc`, `meta`: each instance's member table. This is the spec-modelled engine.
- `providers`: `events.ServiceProviders`.
- `regPc`: where each provider's registration is: idle, seeded or subscribed.
- `view`: what each provider has been told.
- ghost `window`: nodes with events delivered while the provider was seeded but not yet subscribed.
- ghost `seedInst`: the instance the provider was seeded from.

**Actions:**

- `NewNode(outcome)` models the whole function. The outcome is one of:
  - configErr: `SERVICE_NAME` empty; nothing changes.
  - createErr: `mlist := nil`, and a running instance is left running.
  - joinErr: a new instance is created and then shut down, but `mlist` keeps pointing to it.
  - ok: a new instance, running.

  On joinErr and ok, `memberlist.Create` has already told `events` that the local node joined (NotifyJoin of the local node, node.go:345, spec 4.6).
- `Shutdown`, `Leave`. The code guards `Leave` only by `mlist != nil`. A Leave on the list that NewNode shut down after a failed join reaches memberlist code outside src/, and changes none of the modelled state, so the model takes no step. That the facade reaches that list at all is what `failed_join` reports.
- The two halves of `RegisterServiceProvider`: `RegisterSeed` (the Members() loop) and `RegisterSubscribe` (the append). There is no lock between them, so other steps may run in between.
- `Engine(i)`: a running instance changes its table (`AliveNode`, `SuspectNode`, `DeadNode`, `Reclaim`, `WeightUpdate`). Every change the delegate reports calls `Notify`, which updates the view of every subscribed provider.

The engine is `spec_modelled` (memberlist is not in src/). Its actions follow spec 4.2 (incarnation ordering, self never suspected by itself), 4.6 (reclaim) and 4.10 (which transitions emit which event).

### `Seeds.tla`: `seeds()` (node.go:35-55)

Strings are sequences of one-character strings. The separators are the named constants `ColonChar` and `CommaChar`. `Split` is `strings.Split`: `Commas(s)` is the set of comma positions, `Cut(s, k)` is the position of the k-th comma (0 before the first field, `Len(s) + 1` after the last), and field j is the substring between cut j-1 and cut j. The k-th comma is the one with k commas at or before it. This rank form replaced a definition that sorted the comma positions with `SortSeq`, which tlapm does not support. TLC checked that the two forms agree on every string of up to 5 characters. `FixSeed` is one iteration of the loop body, with `strings.LastIndex`, `cast.ToIntE` and `%d` formatting (the recursive function `Itoa`). `Iterate` runs the loop one index at a time, so `Init` plus `Iterate` is the whole call.

### `SeedsLoop.tla`: the contract of the loop

The abstract loop: the output starts as the fields of the input, and each index not yet fixed is rewritten once, from its original value, in any order, until all are fixed. `Seeds` implements it with `arg <- seedstr`, `out <- s`, `fixed <- 1 .. i - 1` (property `LoopRefinement`). The refinement shows that the in-place rewrite of `s[i]` never reads an already rewritten element, and that the loop terminates.

### `Broadcast.tla`: the broadcast queue (node.go:27, 331-369)

**Variables:** `mlist`, `running`, `calls` as in Registry; `bq` is `BroadcastQueue` (the queue of NewNode call k); `members[k]` is instance k's member count, fixed at creation; `q[k][b]` is the item of key b in queue k. Ghosts: `enq` (ids handed out), `last[b]` (the last id queued for b), `owner[id]`, `sends[id]`.

**Actions:**

- `NewNode(outcome)`: past the configuration check, `BroadcastQueue` is replaced (node.go:341) before Create and join can fail.
- `Shutdown`: `mlist := nil`. `BroadcastQueue` is left pointing at the old queue.
- `QueueBroadcast(b)`: client code enqueues into `BroadcastQueue`, which invalidates the older item of the same key (spec 4.4).
- `Gossip(k)`: a running instance with a peer fetches a least-sent item, counts the send and evicts it when the count reaches `Limit(NumNodes)`. `NumNodes` is the closure of node.go:333-338 and reads the global `mlist`.

The queue operations are memberlist code and are `spec_modelled`. A fetch takes one item; the byte budget is abstracted away.

### `Conf.tla`: `newConf()` (node.go:128-281)

The environment is a function from keys to strings. `DurField` is the eight-times-repeated pattern: default, then `strconv.Atoi` times the field's unit (seconds, or ms for gossip and weight interval), then `time.ParseDuration`, then the default again. `IntField` is `cast.ToIntE` with a default. `WeightInterval` zeroes the interval when the weight is pinned. `newConf` builds the record. Durations are in milliseconds.

### `HttpSrv.tla`: `HttpRouterSrv` (httpiclient.go:138-476)

**Variables:**

- `mws`: `srv.Middlewares`.
- `biz`: `srv.bizRoutes`.
- `chain[r]`: the middlewares wrapping route r after Run, outermost first.
- `fallback`: the NotFound/MethodNotAllowed chain. Run builds it from the same list as the routes, so no property is stated about it.
- `gdd`: the chain of the manage and debug routes.
- `listen`: the listener goroutine.
- `pc`: built, serving, stopping (SIGINT received, the deferred function not yet at `Shutdown`), draining (Shutdown waiting) or stopped.
- `env`: the four switches `NewHttpRouterSrv` and `Run` read.
- ghost `hist`: the middleware calls, used to state the documented order.

- `inflight`: requests being served.

**Actions:** `Init` is `NewHttpRouterSrv`. The others are:

- `AddRoute`, `AddMiddleware`, `PreMiddleware`;
- `Run`, up to the blocking receive;
- `ListenAndServe`, the goroutine. It may fail, and it returns ErrServerClosed once Shutdown has begun;
- `Accept` and `Finish`: a request starts and ends (up to `MaxReqs` at once);
- `Signal`: SIGINT (httpiclient.go:467-475). The receive returns and `pc` becomes stopping. The listener is still bound, so requests are still taken on, and a late `ListenAndServe` may still bind;
- `Shutdown`: the deferred function (447-464) parses the grace timeout, arms its context and calls `httpServer.Shutdown`, which closes the listener before it waits. `pc` becomes draining;
- `Drain`: Shutdown sees no request left and returns;
- `Deadline`: the grace context expires with requests in flight, and Run returns anyway.

## 3. Runs

Each run's properties are listed in `PROJECT.json`. TLC is called as `tlc -workers 2 -config X.cfg MCX`.

| Run | Expect | What it shows |
|---|---|---|
| `registry_view` (MCRegistry.cfg) | pass, ~750k states | `TypeOK` and `ProviderViewExact`, across NewNode retries with every outcome, Shutdown, Leave, registration and every engine event. |
| `register_race` | violation of `RegisterAtomic` | a Leave between seed and subscribe is never seen by the provider (finding; spec 4.10/9 say atomic) |
| `newnode_orphan` | violation of `NoOrphanMemberlist` | a second NewNode orphans the running memberlist (finding) |
| `failed_join` | violation of `NoShutdownListExposed` | after a failed join `mlist` is a shut-down instance (finding; spec 7/9 say StateError) |
| `seeds_spec` (MCSeeds.cfg) | pass, ~1k states | every MEM_SEED of up to 4 characters over {h,1,:,","} becomes host:port per field |
| `seeds_port` | violation of `SeedsAllHavePort` | with MEM_PORT set, a field without a usable port gets the default port, and "host:" keeps none (finding) |
| `conf_probe_timing` | violation of `ProbeTimingSane` | MEM_PROBE_TIMEOUT=1 is 1 s, equal to the default probe interval, and MEM_PROBE_TIMEOUT=0 is a zero timeout; TLC reports one or the other (finding) |
| `http_chain` (MCHttpSrv.cfg) | pass, ~219k states | any 4 calls of AddRoute/AddMiddleware/PreMiddleware under all 16 switch combinations: documented order (`ChainAsDocumented`); with up to 2 requests in flight and the listener goroutine running at any point, Run returns after SIGINT (`ShutdownCompletes`) |
| `provider_restart` (MCRegistry_restart.cfg) | violation of `ProviderViewAcrossRestart` | a provider keeps a member of the shut-down instance after NewNode (finding) |
| `broadcast_bound_delivery` (MCBroadcast.cfg) | pass, 8323 states | one NewNode of any outcome, member counts 1, 2, 10: each item sent at most max(1, 4*ceil(log10(N+1))) times (`BroadcastBound`), and the last item per key eventually sent while the memberlist `mlist` names runs with a peer (`BroadcastDelivered`) |
| `broadcast_lost` (MCBroadcast_lost.cfg) | violation of `BroadcastDelivered` | NewNode fails at Create, an item goes to its queue, and a later successful NewNode gossips only its own queue: the item is never sent (finding) |

**Bounds, and why they are enough:**

- **Registry.** One peer, one provider, two metadata values, `MaxInc = 1`, `MaxNewNode = 2`. Two NewNode calls are the fewest that reach a restart, an orphan and a retry after a failed join. One provider suffices for `ProviderViewExact`: providers do not interact, since each is driven by the same events, independently. The two-peer, two-provider model was too large to finish.
- **Seeds.** Inputs of length 4 over the alphabet {h, 1, :, ","} contain every branch of the loop body (no colon, colon with int port, colon with a non-int port, trailing colon) and lists of up to three fields.
- **Conf.** Only MEM_PROBE_TIMEOUT is varied, over samples that hit every branch of `DurField`: unset, zero, negative, bare integers, ms/s strings and garbage.
- **HttpSrv.** Four calls are enough to interleave two Pre and two Add calls, or routes and middlewares. Two requests in flight are enough for one to finish while the other is cut at the deadline.
- **Broadcast.** Member counts 1, 2 and 10 give limits 4, 4 and 8: a lone node (no gossip), a small cluster and one whose limit differs. Three enqueues over two keys reach invalidation and a full queue. One NewNode for the passing run, two for `broadcast_lost`, which needs a retry.

**Mutants.** Every property of a passing run has a mutant in `PROJECT.json`. The mutant is an operator placed before the definition it replaces, modelling a plausible bug:

- a missing call count;
- AllNodes listing dead members;
- a loop past the slice;
- the colon kept in the host;
- ranging over indices;
- PreMiddleware appending instead of prepending;
- Shutdown with no grace deadline;
- the seeds loop stopping one element early;
- eviction only once the count passes the limit;
- an enqueue that keeps the older item of the key.

TLC finds each mutant's property violated under the run's own cfg.

**Deadlock.** Deadlock checking is off in every cfg. All the models describe a program that may stop: a registry with its NewNode calls spent and nothing running, a finished `seeds()` loop, a returned `newConf`, a server after SIGINT, and a broadcast queue emptied or with no peer to gossip to.

**Fairness.** Weak fairness is assumed only where the code has a timer or a loop that nothing else can stop:

- `Gossip(k)`: memberlist's gossip ticker fires every GossipInterval while the instance runs, so a fetch that stays enabled happens.
- `Shutdown`: the deferred function runs as soon as the receive returns.
- `Drain` and `Deadline`: `http.Server.Shutdown` polls for idle connections, and the grace context's timer fires.

A `Shutdown` that left the listener open would break `ShutdownCompletes`: requests could start and end forever, and neither Drain (no idle poll) nor Deadline (nothing in flight) would stay enabled.
- `Iterate`: the `seeds()` loop runs to the end without waiting for anything.

Client calls (NewNode, QueueBroadcast, AddRoute, ...), requests, and SIGINT are not fair: the program may never make them.

## 4. Proofs (TLAPS)

### `RegistryProofs.tla`

**Assumptions.** The theorems hold for every value of the constants under the assumptions of `Registry`:

- `Self \in Nodes`;
- `Metas` non-empty and without `Absent`;
- the bounds in `Nat`;
- `Nil` not an instance number.

**`TypeCorrect`: `Spec => []TypeOK`.** `TypeOK` is inductive. The step proof has one case per action, and splits AliveNode's event and no-event branches. `NewNodeEffect` (the effect of each NewNode outcome) and `NotifyType` are lemmas.

**`ViewExactness`: `Spec => []ProviderViewExact`.** `ProviderViewExact` is not inductive on its own. It needs `IInv`, which adds:

- instance numbers are below `calls`, so a new instance is never confused with a provider's seed instance;
- `p \in providers` iff `regPc[p] = "subscribed"`;
- every seeded provider has a seed instance.

`IInv` was checked with TLC first, as an invariant of `registry_view`. The proof shows `Init => IInv`, `IInv /\ [Next]_vars => IInv'` (one case per action) and `IInv => ProviderViewExact`, then concludes by PTL. Two lemmas carry the engine cases:

- `NotifyPreserves`: a delivered event keeps every view exact outside the window, because subscribed providers receive it and merely seeded providers get the node added to their window.
- `SilentPreserves`: an action that emits no event does not change `MemberView` on any node outside the windows.

### `BroadcastProofs.tla`

**`RetransmitBound`: `MaxNewNode <= 1 => (Spec => []BroadcastBound)`**, for every retransmit multiplier, member count set, key set and enqueue bound, under `BroadcastAssumption` and `SentinelAssumption`. The hypothesis is needed. With two NewNode calls, the first instance can be orphaned (run `newnode_orphan`) and keep gossiping while `NumNodes` reads the second one's member count, so its items may be sent up to the other cluster's limit. The argument goes through `BInv`:

- a running instance is the one `mlist` names, so `NumNodes` is its own member count;
- every queued item has a distinct id, is owned by its queue, and has been sent exactly its transmit count;
- a queued item is below the limit unless it was never sent;
- ids not yet handed out are untouched.

A fetch then either evicts an item whose count reaches the limit, or keeps one still below it. Either way `sends <= max(1, Limit)`. `BInv` was checked with TLC first, as an invariant of the `broadcast_bound_delivery` instance (`MCBroadcast_inv.cfg`). There is one step lemma per action (`NewNodeStep`, `ShutdownStep`, `QueueStep`, `GossipStep`), and the theorem concludes by PTL.

### `HttpSrvProofs.tla`

The theorems hold for all routes, user middlewares and bounds under `HttpSrvAssumption` (user middleware names differ from the built-in ones, `Routes` non-empty, bounds in `Nat`).

**`TypeCorrect`: `Spec => []TypeOK`.** `TypeOK` is inductive. Lemmas `OptType`, `DefaultsType` and `FullType` show that the lists of `NewHttpRouterSrv` and `Run` are sequences of middleware names.

**`ChainDocumented`: `Spec => []ChainAsDocumented`.** This is the order the doc comments of `PreMiddleware` and `AddMiddleware` promise, for any interleaving of calls before Run. It is not inductive. It needs `CInv`, which adds two facts:

- before Run, `mws = Pres \o Defaults(env) \o Adds`;
- every rank among the calls of a kind is taken by one call.

`CInv` was checked with TLC on `http_chain` first. `Pres` and `Adds` are defined by ranks rather than with `SelectSeq`. The rank of a call is the cardinality of the calls of its kind at or after it (Pres) or at or before it (Adds). `SelectSeq` is recursive, and what it computes could only be proved by induction over the history. TLC checked that the rank forms equal the `SelectSeq` forms on every state of `http_chain`. The proof has these parts:

- `PreAppend` and `AddAppend` state what one call does to the ranks. A `PreMiddleware` call puts its argument at the head of `Pres`, and an `AddMiddleware` call appends it to `Adds`. Each keeps every rank taken. Both are stated over any history `h`.
- `RankedType` and `EmptyHist` give the types and the initial case.
- `CInvStep` has one case per action. Its Pre, Add and Run cases are associativity of `\o` (`ConcatAssociative`, `AppendIsConcat`).

### `SeedsProofs.tla`

The theorems hold for every alphabet, input length and pair of ports under `SeedsAssumption` (the separators are in the alphabet, "0" is not, the numbers are in `Nat`). `Itoa` and `Atoi` are never unfolded, so the results hold whatever digits they produce.

**`SeedsCorrect`: `GddMemPort = DefaultGddMemPort => (Spec => []SeedsAsSpecified)`.** The hypothesis is the `seeds_spec` configuration. Without it the property is false (`seeds_port`). `SeedsAsSpecified` speaks only of the final state, so it is not inductive. It needs `SInv`, which TLC checked first on `seeds_spec` and `seeds_port`. `SInv` says:

- `s` has one entry per field of `seedstr`;
- the entries below `i` hold `FixSeed` of their field;
- the others hold the field itself.

`SInvInit` and `SInvStep` establish `SInv`. When the loop is done, `i = Len(F) + 1`, so every entry is `FixSeed` of its field. `FixSeedAsSpecified` shows that `FixSeed(f) = RefSeed(f)` for a field that does not end in ':'. Its proof splits on whether the field has a colon and whether its port parses. Supporting lemmas:

- `MaxOfPositions` shows that `strings.LastIndex` (`SelectLastInSeq`) returns the last colon. It uses well-foundedness of `<` on `Nat`.
- `CommaRanks` (every rank is taken), `CutBounds` and `SplitType` show that `strings.Split` returns Len(Commas)+1 substrings. `CommaRanks` is proved by injectivity of the rank map and `FS_Injection`.

**`LoopSafety`: `Spec => Loop!Init /\ [][Loop!Next]_<<seedstr, s, 1 .. i - 1>>`.** This is the safety half of `LoopRefinement`. Each iteration is `Rewrite(i)` of `SeedsLoop`: `i` lies in the domain and is not yet fixed, and `1 .. i` is `1 .. i - 1` plus `{i}`. The fairness half (the loop terminates) stays with TLC.

Two forms are named because of the provers: the string literals ":" and "," are the constants `ColonChar` and `CommaChar`, and the `LAMBDA` in `SelectLastInSeq` is restated by the lemma `LastIndexDef`. The SMT backend cannot take either directly.

### What stays with TLC

- Liveness: `BroadcastDelivered`, `ShutdownCompletes`, the termination half of `LoopRefinement`.

- The liveness of the engine and anything using ENABLED, which are out of TLAPS's reach.
- Properties of the recursive `Itoa` and of the string conversions of Seeds and Conf, which would need induction over data.
- Seeds: `TypeOK`. It needs the type of `Itoa`'s output, which is a fact about a recursive function for every input, so it needs induction over data.
- Conf: no passing run. `newConf` is a pure function, and stating what each field gets would repeat `DurField` branch by branch. Only the probe timing is checked, and it fails.
- Broadcast's `BroadcastBound` with two NewNode calls: it is false there (see above).

## 5. Not modelled, and why

- `GenGoIClient`: pure text and file I/O.
- `SetupEs6Container`, `getFreePort`: external I/O.
- `Info`, `BaseUrl`, `MetaWeight`, `SvcName`, `LocalNode`: read-only queries. They are planned as operators for a meta-fidelity property.
- memberlist's probing timers, transport and push/pull merge: outside src/. Only the queue operations node.go relies on are modelled (from spec 4.4). Their byte budget and `Prune` are not modelled; node.go never calls `Prune`.
- The body of a request handler: the server model only counts requests in flight.
- Logging, banner, printRoutes: only write text.

## 6. Plan for the next sittings

1. **Cluster membership.** Add `Cluster.tla`: several facades over a shared message network with lost and duplicated messages and crashes. Properties:
   - refutation: a live node is never declared dead by its own table;
   - convergence under fairness;
   - refinement of an abstract membership spec via INSTANCE ... WITH.
2. **Meta queries.** Add Info/BaseUrl/MetaWeight/SvcName, with a property that a provider's view yields the BaseUrl and weight its node advertised.
3. **Composition.** Compose HttpSrv with Registry, so that a listener failure leaves the node advertised (httpiclient.go:280).
4. **More proofs.** The registry's action properties.
