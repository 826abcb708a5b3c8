# kotakpasir in TLA+

kotakpasir runs short-lived sandboxes (containers) behind an HTTP API. This
directory models the parts of it that carry state or concurrency, checks them
with TLC on small instances, and proves the safety properties of all of them
with TLAPS, for every value of the constants.

Run everything from this directory:

    tlc -workers 2 -config Pool.cfg Pool
    tlapm PoolProofs.tla
    tlapm LifecycleProofs.tla

and so on for the other runs of `PROJECT.json` and the other `*Proofs` modules.

`PROJECT.json` lists components, runs, the map from definitions to source
lines, mutants, findings, hazards and theorems.

## 1. Inventory

| component | state | operations | correct means |
|---|---|---|---|
| warm pool, `internal/pool` | stack of container ids, `closed`, a one-slot token channel | `Start`, `Get`, `Shutdown`, the goroutine `refillLoop` with `spawn` | an id is handed out once; never above target; no container forgotten; refilled after claims; empty after a shutdown |
| sandbox manager, `internal/sandbox/manager.go` | current policy and pools, log buffers by id, the gauge | `Create`, `Exec`, `Logs`, `Stop`, `Delete`, `Start`, `ReplacePolicy`, `Shutdown` | one owner per container; deleted means deleted; nothing leaks; policy and pools belong together |
| reaper, `internal/sandbox/reaper.go` | none between sweeps | a sweep per tick | never early, never never |
| store, `internal/sandbox/store/sqlite` | the table `sandboxes` | `Put` (upsert), `Get`, `List`, `Delete`, `ExpiredBefore` | rows survive the process; times are whole seconds |
| docker runtime, `internal/runtime/docker` | networks, proxies and containers in the daemon, found by label | `Create` with egress provisioning and rollback, `Exec`, `Stop`, `Remove`, `CleanPoolOrphans` | a failed Create leaves nothing; a sandbox with an allowlist never runs without its proxy; Remove finds everything |
| policy, `internal/policy` | the loaded file | `Load`, `Validate`, `Resolve` | one order of precedence; a denied entry is taken out; a validated policy is usable; a claim and a cold start give the same sandbox |
| egress proxy, `internal/proxy`, `cmd/kpproxy` | two lists read at start | one decision per request | a sandbox reaches what its policy says and nothing else |
| log buffer, `internal/sandbox/logbuf` | a byte-bounded queue of chunks and the followers' channels | `Write`, `Subscribe`, `Snapshot`, `cancel` | the bound holds; a follower misses nothing but what it was too slow for; no send on a closed channel |
| API, `internal/api` | none | authentication, handlers, two of them streaming | status codes tell what happened; the stream carries the output |
| Go SDK, `pkg/kotakpasir`, and CLI, `cmd/kp` | the call under way, what `watch` has printed | one HTTP call each; `WaitFor` and `watch` poll; `ExecStream` and `LogsStream` decode server-sent events | an answer was true at some moment of the call; waiting ends; an exit code means that all output was delivered |
| MCP server, `internal/mcp`, `cmd/kpmcp` | a manager of its own, on kpd's database and daemon | tools for Create, Exec, Stop, Delete, Get, List | two managers without a common lock do no more harm than one |
| kpd, `cmd/kpd` | the process | start, SIGHUP, shutdown | a failed reload changes nothing; a shutdown drains |
| metrics, config | counters; settings read once | | the gauge, the reaper's counter and two settings are modelled with the code that uses them |
| registry, examples, test support | none | | see section 7 |

How they interact: a request goes from a handler to the manager, which
resolves it with a *snapshot* of (policy, pools), claims a container from a
pool or asks the runtime for one, and writes the row. Neither the manager nor
the store holds a lock from one of these calls to the next. The reaper calls
`Manager.Delete` like any client. Each pool has a goroutine that calls the
runtime. A SIGHUP runs `ReplacePolicy` in the signal goroutine and retires old
pools in another. Rows and containers outlive kpd, everything else does not.
kpmcp is a second process with a manager of its own, without pools in use and
without a reaper, on the same database. A client that gives up does not stop
the request it has sent.

What is hard: operations on the same sandbox that overlap; a shutdown, a
reload or a claim while `spawn` waits for the daemon; any one of several daemon
calls failing; a restart that has to tell which containers are its own; the
token channel that merges wake-ups; times cut to seconds; a follower between
subscription and snapshot; a connection that breaks inside an event; requests
that outlive their client; two processes on one database. The list
with lines is `hazards` in `PROJECT.json`.

## 2. Modules

Every module says in its header what one step is. Mutants (definitions marked
"Mutant of ...") stand before the definition they change and are used by no
specification.

**Pool** models `pool.go` completely. `avail`, `closed`, `refillCh` are the
fields of the struct; `pc`, `mode`, `spawned`, `hand` are the program counter
and the locals of the filler. `Start` launches `refillLoop` as its last act, so
the two never run at once and share a counter. Steps are the critical sections
of `p.mu`, the channel operations and the runtime calls; between the read of
`len(p.avail)` (`RefillCheck`), `rt.Create` (`SpawnCreate`) and the append
(`SpawnAppend`) anything may happen. `live`, `seen`, `lost` are the runtime's
side, `claimed` and `gaveUp` are history.
**Dispenser** is what a pool promises: every item stocked is taken at most
once, and nothing is taken after the close. `Pool` implements it
(`DispensesOnce`), and `Lifecycle` uses it in the place of the pool.

**Lifecycle** composes the manager's operations, the store, the reaper, the
runtime's containers, the pool (as `Dispenser`) and the restart of the process.
`proc[p]` is the operation a goroutine is in with the row it has *read*
(`sb`): that value gets stale, and the store's `Put` writes it back. Each call
of the store or the runtime is one step that works or fails (`Works`, `Fails`).
The workers in `Mcp` are those of kpmcp: they have no pool to claim from, no
`Logs`, a set of log buffers of their own, and no gauge anybody reads. `counted` and
`swept` are the ids behind the reaper's counter, `late` the buffers that were made
after their sandbox was deleted. `Exit` covers a crash and every outcome of a shutdown; `Restart` is
`Manager.Start` with its `CleanPoolOrphans`. The clock has two ticks a second,
so that `Unix` really cuts something off.

**DockerRuntime** models `Create` and `Remove` call by call. `Try(s, label,
effect, next, onError)` is one daemon call: its effect and the next label, or
the label its error leads to; the error labels are those of the code's undo
paths. A cancelled context makes every later call of that operation fail, the
undo calls included; one that is cancelled in the middle of a call gives that
call its effect and its caller an error. `cleanupSandboxGroup` lists and removes
container by container and then the network, each call failing on its own. The
daemon is external: forced removal ends a proxy's connection, a list has the
newest container first, and a network with running containers on it is not removed.

**Reload** models `NewManager`, `Start`, `ReplacePolicy` (merge, start,
rollback, swap, background retirement), `Shutdown`, and `Create` up to the
claim on its snapshot; `taken` is history, the pools that `Shutdown` found. A pool is an object `<<generation, image>>` that is new,
open, partial (its `Start` failed half way) or closed; what happens inside it
is `Pool`. A policy is reduced to the pool spec it gives each image.

**Policy** models `Load`, `Validate`, `Resolve` and `applyGlobalDeny`, the start
of kpd (the check of `KP_REQUIRE_POLICY` and the load are two steps) and the SIGHUP loop, and the two functions of the manager
that read a policy on their own, `poolSpecFor` and `poolMatchesResolved`. cpus,
memory_mb and ttl are merged by one rule and are the `Fields` of a function. The
limits of a container are computed three times, in `Resolve`, in `poolSpecFor`
and in `poolMatchesResolved`, each translated from its own lines.

**Egress** extends `Policy` to what a sandbox is and can reach: the warm
container of a claim, or the network, the limits and the proxy's environment
that the runtime makes of a resolved request, kpproxy's start, crash and
restart, and its decision on each request. `Reads` gives the
sites that splitting at commas, trimming and lower-casing find in an entry of
the policy, `SiteOf` the same for what a client asks for. Entries of
`global_deny` are compared as they are written, before any of this, as
`applyGlobalDeny` does, and the proxy is not told of them.

**Client** models the CLI and the SDK against the HTTP API. `call[k]` is the
command a client is in, `req[x]` a request at the server with its answer.
Handlers that read a row and write later take two steps. `GiveUp` is the
timeout or Ctrl-C: the request goes on in one of the places `Others`, which also
hold the requests of other clients. `seen[k]` collects the states the table had
since the command began. Of the manager only the rows are left; what
happens to containers is in `Lifecycle`.

**LogBuf** models `write` with its eviction loop and its non-blocking sends,
`Subscribe`, `Snapshot`, `cancel`, and a follower's handler from `Manager.Logs`
to the last event. A chunk is its number and its size. Where `tailLines` cuts
depends on line breaks, so any tail may come out. `setting` is
`KP_LOG_BUFFER_BYTES`: unset or not a number (`NoNumber`), zero, negative or a size;
`envInt`, `logCap` and `Captures` are the three places that interpret it.

**ExecStream** models one streaming exec, or one stream of a log, end to end: `Runtime.Exec` of the docker
runtime, `sseWriter.send`, a connection that may break inside any line, and
`parseSSE`. What the client meets then is the end of the body, as after the
handler's return, `io.ErrUnexpectedEOF`, as for a chunked body that is cut off,
or another error (`conn`); `LogsStream` returns nil for the first two. Output is characters, of which "\n"
and "\r" are special; encoding and decoding are modelled by what they do.
`Split` is a recursive function over the positions of a text, so that it can be
proved about; `Text`, what is left of a text without its line breaks, belongs to
the properties and is one as well.

The modules `MC*` declare the model values and build the sets and symmetries
the `.cfg` files need; `Pool` and `Client` need none and are run as they are.
The theorems are in **PoolProofs**, **LifecycleProofs**, **DockerProofs**,
**ReloadProofs**, **EgressProofs** (those of `Policy` and of `Egress`),
**LogBufProofs**, **ClientProofs** and **ExecStreamProofs**, each of which extends
the module it is about.

## 3. Runs that pass

| run | what it shows | bounds, and why they are enough |
|---|---|---|
| `pool` | `AvailWithinTarget`, `OneShot`, `ClaimedStaysLive`, `NoSilentLeak`, `NoLostWakeup`, `RefillsToTarget`, `DrainsAfterShutdown`, `DispensesOnce` | target 2, so that two claims can share a token; 3 claims; one failing Create; ids for every claim, the target and a spawn that loses its race with `Shutdown`; the theorems of section 5 lift every bound for the safety part |
| `lifecycle` | `OneOwner`, `ColdSandboxKeepsContainer`, `NoSilentLeak`, `DeletedNeverRuns`, `LogBuffersAreDropped` | two workers and two sandboxes give every pair of operations on the same and on different sandboxes; one failing call and one restart at any step |
| `lifecycle_reaper` | `ReaperIsNeverEarly`, `ExpiredIsReaped`, `SweptWasDeleted` | one sandbox; the expiry falls on and between whole seconds; a worker of kpmcp that creates, stops and deletes beside the reaper, one failing call, two exits of either process |
| `docker` | `FailedCreateLeavesNothing`, `SandboxIsComplete`, `RemoveLeavesNothing` | two sandboxes, each with or without egress; two of the calls fail, so that an undo call can fail after the call it undoes, and one context is cancelled, between two calls or in the middle of one |
| `reload` | `PoolsMatchPolicy`, `ClaimHasPolicyLimits`, `PoolsAccountedFor`, `ShutdownLeavesOnly`, `RetiredIsClosed` | two reloads (a pool kept by the first and retired by the second), two images, three policies, one Create with a snapshot of any age |
| `policy` | `PolicyInForce`, `ResolvedByPrecedence`, `EgressIsResolved`, `ProfilesResolve`, `LimitsAsResolved` | one or two image entries, one profile, unset, positive and negative amounts, egress in all three places, files that Validate refuses; an entry with commas in it that names a second site, one that is always denied and, in another spelling, the site of the other entry; a target in two spellings and one without a port; one change of the file |
| `logbuf` | `BufferIsExact`, `FollowerMissesNothing`, `NoSendOnClosed` | every kind of setting; chunks below, at and above the cap; channels of capacity 1; two followers; three writes |
| `exec_stream` | `OutputIsPrefix`, `OkIsComplete`, `StreamReturns` | two chunks of up to two characters, "\n" and "\r" among them, on either stream; the connection breaks anywhere |
| `client` | `AnswersAreTrue`, `WaitEnds`, `WatchCatchesUp` | one client with every command, one sandbox, two other requests at a time, so that a Stop can write back what a Delete removed between two polls; `ClientTwo.cfg` has two sandboxes and passes in four minutes |

`CHECK_DEADLOCK FALSE` is set where an instance comes to an end: sandboxes are
created and removed once, writes, reloads and requests are bounded, kpd exits
or refuses to start, an exec returns. The runs of the pool and the client check
deadlock. `TypeOK` of `Reload`, `DockerRuntime`, `LogBuf`, `Policy` and `ExecStream`
documents their variables; the runs spend their properties on behaviour, and
section 5 proves all of them.
`LifecycleMcp.cfg` checks the invariants of `Lifecycle.cfg` with a worker of kpd
and one of kpmcp.

Symmetry is used in runs of invariants only.

**Fairness.** Only what the code's own goroutines do is fair: the filler and
`Shutdown`'s loop (`Pool`), an operation that has begun, the reaper's ticker,
the clock and the restart by the service manager (`Restart=on-failure` in the
unit file of `docs/deployment.md`; after an exit that was no failure it is the
operator or the next boot that starts kpd again, and `ExpiredIsReaped` speaks of
a kpd that is started again) (`Lifecycle`), reload and retirement
(`Reload`), server and client of a stream (`ExecStream`), and in `Client` the
handler of a client's request, the arrival of its answer and its ticker. Weak fairness of a step that calls the daemon or the store
says that such a call returns. No client has to call, a request nobody waits for
any more need not be served, no log has to end, and no connection has to break.

## 4. What the code does differently from what it says

Three runs end in a counterexample. Each checks one sentence of a doc or a
comment; `findings` in `PROJECT.json` quotes it with its line.

| run | sentence | what happens |
|---|---|---|
| `lifecycle_restart` | "In-flight sandboxes survive a restart" | claimed containers still carry the label `pool-warm`; `CleanPoolOrphans` removes them at the next start |
| `lifecycle_resurrect` | "permanently delete a sandbox" | a Stop that read the row before writes it back after the Delete |
| `pool_stall` | of an empty pool: "refiller will catch up" | after a failed refill only a successful claim wakes the refiller, and an empty pool has none |

The passing runs state what holds all the same: `ColdSandboxKeepsContainer` (a
restart leaves cold-started sandboxes alone), `DeletedNeverRuns` (a row that is
written back is in state stopped), `RefillsToTarget` (the pool is refilled unless
the last pass failed), `PoolsAccountedFor` (no forgotten pool goes on refilling),
`ShutdownLeavesOnly` (a shutdown closes every pool it finds; what it leaves open a
reload or a retirement had in its hands or has put in force since, and what it
leaves half warmed is one pool of a failed reload),
`EgressIsResolved` (what remains of an allowlist is exactly what gets through, and
`global_deny` takes out the entries that are written the same way),
`LogBuffersAreDropped` (only an overlapping call brings a buffer back),
`OkIsComplete` (text is never lost in a stream that ends well, line breaks only at
the start of a chunk and CRs; of a broken one, `LogsStream` hides only an end of
the body and `io.ErrUnexpectedEOF`) and `PolicyInForce` (with `KP_REQUIRE_POLICY`, the default policy needs a file that has
gone since the start).

Smaller differences have a configuration each, to be run by hand; TLC answers
every one of them with a counterexample:

| configuration | module | sentence | what happens |
|---|---|---|---|
| `ReloadRollback.cfg` | `MCReload` | "shut down anything we already warmed for the new policy" (`ReplacePolicy`) | the pool whose Start failed half way keeps what it had warmed |
| `DockerCancel.cfg` | `MCDockerRuntime` | "On any error inside, it rolls back" (`maybeProvisionEgress`) | the undo calls use the cancelled context, and what a call has made whose answer was lost is not undone; `FailedCreateLeavesNothing` has these exceptions |
| `LifecycleGauge.cfg` | `MCLifecycle` | "Number of sandboxes in state=running" (`metrics.go`) | count and set are two steps; an older count may be set last |
| `LifecycleLogs.cfg` | `MCLifecycle` | the buffer is removed on Delete (`dropLogBuffer`) | an Exec or Logs under way makes it again |
| `ReloadClaim.cfg` | `MCReload` | "exactly matches what the pool was warmed for" (`tryClaim`) | egress, cpus and memory are compared, as `docs/warm-pool.md` lists; env and cmd of the request are not |
| `ReloadShutdown.cfg` | `MCReload` | "drains every pool" (`docs/warm-pool.md`) | pools a reload is starting or retiring are missed, and so is the one that a rolled-back reload could not start |
| `PolicyOrder.cfg` | `MCPolicy` | "profile, image, and defaults in that order" (`Request`) | the image entry comes before the profile, as the comment of `Resolve` says |
| `PolicyPool.cfg` | `MCPolicy` | "Validation rejects `pool: N` combined with" an allowlist (`docs/warm-pool.md`) | not when the allowlist is in `egress.default` |
| `PolicyRequired.cfg` | `MCPolicy` | the reason `docs/deployment.md` gives for `KP_REQUIRE_POLICY` | it is looked at when kpd starts; a SIGHUP while the file is away, or its removal between the check and the load, installs the default policy |
| `LogBufZero.cfg` | `MCLogBuf` | "0 disables" (`CHANGELOG.md`, of `KP_LOG_BUFFER_BYTES`) | `NewManager` replaces 0 by the default; a negative size disables |
| `LogBufDrop.cfg` | `MCLogBuf` | "Snapshot still has the entry" (`write`) | not a chunk larger than the buffer |
| `ClientTTL.cfg` | `Client` | "auto-delete after this duration" (`--ttl` of `kp run`) | a TTL below one second is sent as 0, which means none |
| `EgressDeny.cfg` | `MCEgress` | "`egress.global_deny` always wins, even over allowlists" (`docs/security-model.md:41`; `kotakpasir.yaml:63`, `docs/egress-proxy.md:135` and `CHANGELOG.md:48` say the same) | entries are compared as they are written; a denied site that the allowlist has in another spelling, or in an entry with a comma, is reached |
| `ExecStreamLogs.cfg` | `MCExecStream` | "until ctx cancels or the server closes" (`LogsStream`) | it also returns nil when kpd or a proxy dies and the body is cut off, as net/http reports that as `io.ErrUnexpectedEOF` |
| `ExecStreamExact.cfg` | `MCExecStream` | data lines "are joined with \"\n\"" (`parseSSE`) | line breaks at the start of a chunk are lost |

Seen while modelling and stated by no property: the gauge is 0 after a restart
until the next Create, Stop or Delete; a Delete by kpmcp leaves kpd's log buffer
of that sandbox; kpmcp does not look at `KP_REQUIRE_POLICY`; `WaitFor` with the target
`removed` cannot succeed, as no row is ever in that state; a follower may get the
chunks at the edge of its snapshot twice; the two refusals of `handleCreate`, a
missing image and profile included, are classified as `ErrPolicyDenied`.

## 5. Proofs

Each `*Proofs` module has the same plan: an inductive invariant `IInv` (`PInv` and
`EInv` in `EgressProofs`) that TLC has checked on the component's instance (a smaller one for `Policy`), `InitIInv`, `NextIInv` (one step or lemma per
action, and under it one step per conjunct the action can disturb), `Spec => []IInv`,
and one theorem per property. The theorems hold for every value of the
constants that satisfies the named assumptions, so they lift every bound of
section 3: any number of sandboxes, containers, goroutines, clients, policies,
reloads, failing calls and exits.

| module | theorems | what the runs' properties lack to be inductive |
|---|---|---|
| `PoolProofs` | `PoolTypeCorrect`, `PoolWithinTarget`, `PoolOneShot`, `PoolClaimedStaysLive`, `PoolNoSilentLeak`, `PoolNoLostWakeup`, and the refinement `PoolDispensesOnce` | `FillerRoom`: how many ids are ready, given where the filler is between its look at the length and its append. `IdsApart`: an id is in one place only, and a fresh one in none |
| `LifecycleProofs` | `LifecycleTypeCorrect`, `LifecycleOneOwner`, `LifecycleColdSandboxKeepsContainer`, `LifecycleNoSilentLeak`, `LifecycleDeletedNeverRuns`, `LifecycleLogBuffersAreDropped`, `LifecycleSweptWasDeleted`, and the action property `LifecycleReaperIsNeverEarly` | what stays true of a row an operation has read, however old: see below |
| `DockerProofs` | `DockerTypeCorrect`, `DockerFailedCreateLeavesNothing`, `DockerSandboxIsComplete`, `DockerRemoveLeavesNothing` | what exists in the daemon at each label of `Create`, of its undo path and of `Remove` |
| `ReloadProofs` | `ReloadTypeCorrect`, `ReloadPoolsMatchPolicy`, `ReloadClaimHasPolicyLimits`, `ReloadPoolsAccountedFor`, `ReloadShutdownLeavesOnly` | `PairsMatch`: the pair in force, the pairs in old snapshots and the pair a reload is about to install all match. `ReloadOwnsItsPools`, `RetiringIsOut`, `FutureIsNew`: who may close a pool object. `TakenIsDrained`: what the shutdown found is closed or still in its list, also if a reload has kept or retired it. `OnePartial`: a reload that failed starts no further pool |
| `EgressProofs` | `PolicyTypeCorrect`, `PolicyAlwaysValid`, `PolicyResolvedByPrecedence`, `PolicyProfilesResolve`; `EgressImplementsPolicy`, `EgressExact`, `EgressLimitsAsResolved`, `EgressGlobalDenyWins` | that the last answer is what `Resolve` gives of a snapshot that was validated; that a claimed sandbox is the one a cold start would have made (`ClaimIsColdSandbox`); of the proxy, that it runs with the lists of its sandbox's policy |
| `LogBufProofs` | `LogBufTypeCorrect`, `LogBufExact`, `LogBufFollowerMissesNothing`, `LogBufNoSendOnClosed` | `Registered`: who is subscribed, and whose channel is closed. `GapIsCovered`: between subscription and snapshot, every chunk is in the buffer, in the channel or among the dropped |
| `ClientProofs` | `ClientAnswersAreTrue` | of a request under way, which of its client's `seen` states it has read or written (`ServerIsTrue`), that it belongs to its client's command (`RequestIsOfCall`), and that what was printed before was true (`PrintedIsTrue`) |
| `ExecStreamProofs` | `ExecStreamTypeCorrect`, `ExecStreamOutputIsPrefix`, `ExecStreamOkIsComplete`, `ExecStreamEventsApart` | `Ahead`: what the client will make of the lines that are still on the way; see below |

**Lifecycle.** No lock spans an operation, so the rows that operations hold are
as old as one likes, and `Stop` writes one back. Its argument is about what such
a row cannot get wrong. `Bindings`: an id and its container belong together for
ever, in the table and in every operation that holds either, and the pool has
no part in such a container; together with `Fresh` (until a Create has written
its row, nobody else knows its id) this gives `OneOwner`. `Gone`: a row that was
read once and is not there now was deleted; the reaper may count it
(`SweptWasDeleted`). `Removed`: when a Delete comes to the row, the container is
gone or recorded as lost; with `Bindings` no container is forgotten
(`NoSilentLeak`). `Expiries` and `Due`: an id and its expiry belong together, cut to
seconds, and everything the sweep holds is past the uncut one; the step from
whole seconds to ticks is `ExpiredBeforeIsPast`. `Known` says that finitely many
ids are minted, so that the gauge is a number although `Ids` may be infinite.

**ExecStream.** `OutputIsPrefix` and `OkIsComplete` speak of what the client has,
and say nothing of the lines it is yet to read. `Ahead` follows it over them: there
is a sequence of reader states, one before each line and one after the last,
each made from the one before by `ReadLine`, such that every one is `Sound` (its output is
a prefix of what was written, with the event begun as well as without it; an
exit event begins only when the command has ended and everything is delivered). While the connection is open the last one is
`Idle`: between two events, with everything written delivered. `Send` then extends the
sequence by the lines of one event, `Break` cuts it somewhere and may leave part of
a line, and reading drops its first state. Four more conjuncts complete `IInv`: `TypeOK`,
`LogsOnlyCopy` (the stream of a log has no other stage), `EndIsDone` (the body only
ends in order when the handler has returned) and `OkStays` (what a
result "ok" says stays true). What the steps need of the data is in
lemmas: `Text` of a concatenation is the concatenation of the texts, and the lines
that `Split` makes, trimmed and joined again, have the text they were made
of, after each line a prefix of it. The history variable `plain` records
whether every chunk so far began with no line break and had no CR; while it is
true the sequence carries the output itself and not only its text, and
`OkIsComplete` says what `ExecStreamExact.cfg` cannot: these two are all that
may get lost or cut.

**Egress.** `EgressGlobalDenyWins` is the sentence that `EgressDeny.cfg` refutes,
under the hypothesis it lacks: no two entries name the same site. It is the
advice to an operator in a formula: one spelling, and one host per entry.

**Refinements.** `PoolDispensesOnce`: `SpawnAppend` is `Stock`, `Get` is `Take`,
`ShutdownClose` is `Close`, `SpawnDiscard` is `Spoil`, and everything else stutters;
`Lifecycle` then uses the pool as a `Dispenser`. `EgressImplementsPolicy`: the
composition with the runtime and the proxy implements `Policy`, so the four
theorems about `Policy` hold of it.

**Induction over data.** `BufferIsExact` needs sums over a sequence. `SizeTo(es)`
is a recursive function; that it exists (`SumExists`) and what the sum of a suffix
is (`SizeToShift`) are proved by induction over a *set* of indices (`UpTo`, from
the least element of its complement), which needs no operator parameter. The
lemmas about `SplitTo` and `TextTo` are proved in the same way.

**Assumptions.** Those named in the modules, which every run evaluates: bounds
are natural numbers, the values for "none" are none of the others, kpmcp's
workers are workers. `Policy` adds `ShapeAssumption` (a file that decodes has the
fields of the Go structs, a request those of `Request`) and `DefaultAssumption`
(`policy.Default()` passes `Validate`).

**Only model-checked.** Liveness: `RefillsToTarget`, `DrainsAfterShutdown`,
`ExpiredIsReaped`, `RetiredIsClosed`, `StreamReturns`, `WaitEnds`, `WatchCatchesUp`.
Fairness and ENABLED are out of this prover's reach. Every other property of a
passing run is stated by a theorem.

## 6. Plan

Done: all modules of section 2, and a theorem for every safety property the
runs check. What is left are the two hazards without a property (the order of the gauge's
settings, which `LifecycleGauge.cfg` shows can go wrong, and the TTL cut to
seconds, which `ClientTTL.cfg` shows) and the parts of section 7.

## 7. Not modelled

The registry, which kpd does not use, the examples and the test support. Of
modelled components: the counters of created sandboxes, pool hits and misses
and of the proxy's decisions; the settings that are only passed on; the JSON
and the migration of the store; `Health`, `Status`, `ProxyAddr`, the one-shot `Logs`
and the other reads that decide nothing; stdin of an exec; completion scripts,
printing and log messages. None of these changes a state that an operation
depends on. The docker daemon, SQLite and the network appear as the code
uses them.

Simplified in a modelled function: `flush` returns the error of the caller's
writer, which the model's writers never give; `Client.do` has its transport and
decode errors in `GiveUp`, and does not mind an empty body of a 2xx answer,
which kpd never sends. A call of the daemon whose connection, and not whose
context, is lost is taken to have had no effect.
