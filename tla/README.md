# Verification of tunnel-ops

TLA+ models of `nodecheck` (Go, `src/cmd/nodecheck`) and `probestore` (Python,
`src/probestore`), the TLC runs that check them on small instances, and TLAPS
proofs for every value of the constants. `PROJECT.json` lists the components,
runs, mutants, the map from definitions to source lines, findings, hazards and
theorems.

## The system

`nodecheck` is started by cron. It loads a targets file, probes every target
concurrently (TCP+TLS, UDP, or a WireGuard handshake), prints JSON or Prometheus
text, and with `-push-url` posts the TCP+TLS results as one run to `probestore`,
a FastAPI service on PostgreSQL that keeps the history.

| Component | State | Operations | What makes it hard | What makes it correct |
| --- | --- | --- | --- | --- |
| probestore ingest (`ingest.py`, `security.py`, `schemas.py`, `models.py`, `db.py`) | tables `node`, `probe_run`, `probe_result`; one transaction per request | `ingest_run`, `_resolve_nodes` | handlers interleave at every `await`; replays; unique indexes that wait; deadlocks; a crash before the reply | a run is stored once and completely or not at all, on the right nodes; every 201 is true |
| push client (`push.go`) | attempt, backoff, context deadline | `pushResults`, `postOnce` | lost connections and late handlers; a deadline shared by the attempts | what the agent concludes agrees with the store |
| scheduler (`runAll`) | goroutines, semaphore, WaitGroup, channel | spawn, probe, send, close, drain | order of `Add`/`Wait`/`close`/send; capacity; permits | bound kept, no block, no panic, every target once |
| UDP exchange (`prober_udp.go`) | socket, attempt, deadlines | `run` | loss, delay, ICMP, resend, a stalled process | the verdict follows from what was heard; the budget is kept; a failure has a cause outside the probe |
| WireGuard handshake (`prober_wireguard.go`) | the packet and sender index of one probe | `wgIdentity`, `buildWGInitiation`, `validateResponse`, `acceptAnonymous` | a wrong step is met with silence; replay protection; late answers; nodes under load | a responder that knows the peer can read it; a pass means it accepted this session |
| main, projection, output (`main.go`, `prober.go`, `push.go`, `prober_tls.go`) | results, exit status, published file | `loadTargets`, `toResult`, `writeProm`, `buildPayload`, exit codes | nil against false; early exits; two rounds disagreeing on identity | no claim about a phase that did not run; truthful exit status |
| read views (`nodes.py`, `metrics.py`) | none of their own | latest per node, history, metrics | read between the statements of ingest; late runs and ties; renames; names that are not unique | current with respect to what was acknowledged, never going back, one node per history |
| migrations, health, config, engine lifecycle | | | | see "Not modelled" |

They interact by calls only: `main` calls `runAll`, which calls a prober per
target; `main` hands the results to `pushResults`, which posts them to
`ingest_run`; handlers share nothing but the database.

## Modules

| Module | Models |
| --- | --- |
| `Probestore` | the ingest path; one action per SQL statement |
| `RunStore` | the abstract store: a run is stored whole, once, and acknowledged only then |
| `ProbestoreRefinement` | the refinement mapping from `Probestore` to `RunStore` |
| `ProbestoreProofs`, `ProbestoreRefinementProofs` | theorems about the two |
| `PushSystem`, `PushSystemProofs` | `Probestore` composed with the agents that push to it, and theorems |
| `RunAll`, `RunAllProofs` | the scheduler and theorems about it |
| `ProbestoreViews`, `ProbestoreViewsProofs` | `Probestore` composed with a client of the three read views, and theorems |
| `WGHandshake` | the handshake initiation and its answers over symbolic terms |
| `UDPExchange`, `UDPExchangeProofs` | `udpExchange.run` in its three uses on top of `WGHandshake`, with node, network and clock, and theorems about exchange and handshake |
| `NodeCheck`, `NodeCheckProofs` | `main` over rounds of cron: load, probe, project, print, push, exit, and theorems |
| `MC*` | constants for TLC |

### Probestore

The tables hold committed rows only, so a rollback changes nothing. The row that
request `h` inserts into `probe_run` is called `h`, its node row for key `k` is
`<<h, k>>`; columns that no statement updates are read back from the payload.
`pc[h]` is the statement the handler executes next:

    new -Receive-> select -SelectExisting-> count -CountStored-> done
                                         \-> insert_run -InsertRun-> insert_nodes
    insert_nodes -InsertNode (per row), NodesInserted-> select_nodes
    -SelectNodes-> insert_results -Commit-> reply -Respond-> done

`Receive` is `require_token` and the pydantic schema. `InsertRun` and
`InsertNode` wait (`Blocked`) for an open rival transaction with the same unique
key, which is what PostgreSQL does; `DeadlockVictim` aborts a member of a cycle
of such waits; `Fail` is the loss of the process, the connection or the reply at
any stage. PostgreSQL is external and modelled from how the code uses it: the
engine sets no isolation level, so READ COMMITTED.

### ProbestoreViews

A client sends one GET after another while runs are stored. `list_nodes` and
`metrics` are one statement each, `node_history` is two (`SelectNode`,
`SelectHistory`) with commits possible in between. A node row is named by the
last entry of its key in the batch that inserted it (`NodeName`), because `seen`
keeps the last and `ON CONFLICT DO NOTHING` never updates. `DISTINCT ON` keeps
any one of the newest rows. The properties are stated in terms of what the
agents reported and which runs had been acknowledged, not of the tables. A
result is its timestamp and its two flags; the third family of `/metrics`,
`nodecheck_handshake_seconds`, comes from the same row and is left out.

### PushSystem

An agent is one invocation with one fresh `run_id`. Attempt `i` of agent `a` is
the request `<<a, i>>`; a handler goes on after its caller has hung up, and a
request that was sent may be received at any later time. `Deadline` is the
context of `main.go:380`, shared by all attempts. After it, `select` may still
choose the timer (`BackoffElapsed`) and the next POST then fails at once.

A scenario says which agents push and how many faults may hit each.

### RunAll

`conc` is any of the values in `Concs`, zero and negative ones included. A
goroutine is `acquire, probe, send, release, done`; deferred calls run last in
first out, so the permit goes back before `wg.Done`. A send on a closed channel
is recorded in `panicked`.

### WGHandshake

A hash, an HMAC, a Diffie-Hellman value or a sealed text is a term made of its
inputs; terms are equal when they were built alike, and a seal opens under the
right key and additional data only. `buildWGInitiation` follows the code step by
step. The responder's half, `consumeInitiation` and `MAC1OK`, is translated from
`prober_wireguard_test.go`, not from the sender, so that the two agree only if
every step of the chain does.

### UDPExchange

`Build` makes the payload once per probe; every attempt sends the same one. A
node of kind `wg` answers an initiation it can decrypt, from a peer it has
registered, whose timestamp is newer than all it took from that peer before;
`stranger` has not registered the peer, `rekeyed` has another key, `loaded`
answers with a cookie. `RivalTaken` is another prober under the same monitoring
key. With `late` an answer to an earlier session from the same local port is
still under way. Time is counted in ticks of the response phase. `Tick` is a tick spent in
`conn.Read`; `Pause` is a tick the process is not scheduled, at any point.
`prompt` tells a network whose datagrams are instantaneous or lost from one that
also delays. The write deadline set for the first datagram is never renewed, and
`ResendExpired` is the resend that meets it.

### NodeCheck

Probers are sets of outcomes; scheduling and retrying appear by their contracts
(`EveryTargetOnce` of `RunAll`; accepted or not). Pointer fields of `Result` are
sets of at most one value. Output may be cut by a full disk: `enc.Encode`
reports it (exit 1), `writeProm` does not look. `NoRunID` is a failing
`newUUIDv4`. `CronEntry` is the entry of
`src/README.md:488-491`.

## Runs

| Run | States | Shows |
| --- | --- | --- |
| `probestore` | 16564 | two posts of one run, a rival batch with the same new nodes in the opposite order and a repeated key, one request without a token, one the schema refuses; failure possible everywhere |
| `replay` (violation) | | a concurrent replay is answered 500 |
| `push` | 112501 | one agent with up to two faults; one without a token; one with an over-long name in its batch; two agents with opposite node orders, deadlocks and one fault; three attempts each |
| `push_empty` (violation) | | an empty batch is refused for good |
| `runall` | 14358 | four targets, `-concurrency` -1, 0, 2 and 4 |
| `udp_exchange` | 216488 | three modes, eight kinds of node, three attempts in seven ticks, up to three losses and three pauses, prompt and slow networks, a rival prober with an older and one with a newer clock, a late answer |
| `wg_loss` (violation) | | one lost response fails a healthy WireGuard node |
| `nodecheck` | 82502 | eleven targets files, every format, push and key setting, two rounds, one cut output |
| `textfile` (violation) | | the cron entry never publishes a node that is down |
| `textfile_cut` (violation) | | a full disk: a truncated file is published with exit status 0 |
| `phase_sample` (violation) | | a zero sample for a handshake that was not performed |
| `views` | 273286 | three runs of two nodes, the second older and with another name for the first node, the third tying with the first and sharing its name; two GETs of any view |

Each property of a passing run has a mutant in `PROJECT.json`: a plausible bug
of the mapped definition under which TLC finds the property violated.

**Why the bounds are enough.** Conflicts in the ingest path are pairwise (a
run_id or a node key held by one transaction and wanted by another), and a
deadlock needs two batches with two keys in opposite orders; a third handler is
there because a replay races while a rival holds the nodes. Three attempts are
the number in the code. Two faults and the 500 of a replay use up all of an
agent's attempts, so both ends of the retry loop are reached. Four goroutines on
two permits give waiting, overtaking and a buffer larger than the semaphore.
Seven ticks in three slices leave a remainder, and three pauses can carry a
resend past the deadline. The older of the two rival instants has the larger
nanoseconds, so that the order of the timestamp's fields shows. Two GETs are
enough for the views: a property that relates answers relates two. Two rounds suffice for the properties of `NodeCheck`
that relate rounds, which compare two. The proofs remove the bounds of
every safety property; they remain for the liveness properties and for the
counterexamples.

**Deadlock checking** is off: every model is of finite work and ends.

**Fairness.** `Probestore`: the event loop runs each handler that can run and
PostgreSQL resolves deadlocks (`deadlock_timeout`); faults are never owed.
`PushSystem`: the agent's own process and its timer run; nothing is assumed of
server or network. `RunAll`: the Go scheduler runs what can run; a probe returns
because each phase has a deadline. Weak fairness per goroutine is enough for the
semaphore: there are finitely many others to overtake. `UDPExchange`: the
process is scheduled and time passes while it reads; the network owes nothing,
except that where datagrams take no time their delivery comes before a tick.

## Proofs

Every safety property of every passing run, the two action properties
included, is a theorem. All hold for every value of the constants, from the
named assumptions:

| Assumption | Says |
| --- | --- |
| `PayloadAssumption`, `AuthorizedAssumption` | payloads are what the schema types say; nothing is assumed of how many requests share a run |
| `RunAllAssumption` | `N \in Nat`, `Concs \subseteq Int`, zero and negative values included |
| `AgentsAssumption` | a request is an agent's attempt, all attempts of an agent post its one run with the one token of its command line |
| `ViewsAssumption` | `since` and `limit` are what FastAPI's `Query(ge=1, le=5000)` lets through |
| `ExchangeAssumption`, `KeyRequired` | 1 to 10 attempts, a timeout of at least one tick each; a registered peer has its key, which `loadTargets` enforces |
| `NodeCheckAssumption` | targets and command lines have their types, there is a first round |

Four theorems have a hypothesis of their own. `OneFaultIsTolerated` takes
`MaxAttempts >= 3`, the number in the code; `RetriesSuffice` is the general
form. `RefusalsAreDetected` takes a late answer to be one to an earlier
WireGuard session, as in the run: proto `udp` has no sessions, and a late
datagram from an earlier probe's port would pass as an answer.
`PushIsHonest` and `LivenessIsHonest` take `DistinctTargets`: a file that lists
the same target twice gets two entries and two samples that may disagree, and
nothing in `loadTargets` refuses it.

**Ingest.** None of the safety properties is inductive. `IndInv` adds what a
handler may rely on between two awaits: `RunLock` (from its flush to its commit
a handler is alone with its run_id, in the table and among open transactions),
`NodeLock` (the same for the keys it has inserted), `LookupProgress` (every key
the upsert has passed is visible to the transaction, which is why the second
`SELECT` finds what `ON CONFLICT` skipped) and `CommitPoint` (where a handler
stands tells whether its run is in the table). One lemma per action; `NewRows`
and `CommitIndInv` carry the weight. Theorems: `TypeCorrect`, `AtMostOnce`,
`NodesUnique`, `StoredExactly`, `AllOrNothing`, `LookupComplete`. For
`AcksAreTruthful` the lemma `StoredCount` shows by a bijection that the count a
replay reads is the size of the batch.

**Refinement.** `SafeSpec => ImplementsRunStore`: the committing step is
`Store`, a first 201 about a run is `Acknowledge`, all else stutters
(`AnsweredOnce` is the extra invariant this takes).

**Scheduler.** `IndInv` says that the semaphore counts exactly the holders and
the WaitGroup exactly the live goroutines, that `runAll` gets past `wg.Wait` only
when nobody is alive, and that slice and buffer together hold every sender once.
From it: `TypeCorrect`, `AtMostConc`, `SendsDoNotBlock` (the sender is not yet counted among at
most `N` delivered), `NoSendAfterClose`, `ReturnsEveryTargetOnce`.

**Agents.** A step of an agent is a step or a stutter of the store
(`StoreUnchanged`), so `IndInv` of the ingest path carries over. `PushInv` adds
what relates an agent to the handlers it started: `Dispatch` (a request that was
not sent has not reached a handler), `Refusals` (a 401 or 422 has its reason in
the request, which all attempts share; a unique violation means that the run is
stored), `Conclusions` and `RetryBudget`: an attempt is used up by a fault, or
by the one 500 that a retry can get for racing its predecessor, after which the
run is stored and `Settled`, so no second one can follow. Theorems:
`SuccessIsStored`, `RejectionIsFinal`, `RetriesStoreOnce`, `RetriesSuffice`
(`faults + 2 <= MaxAttempts`), `OneFaultIsTolerated`.

**Views.** A read changes no table (`ReadsChangeNothing`). `ViewsInv` adds that
a node row comes from a batch with its key, that what is shown carries the name
of the row of its key, and that a history request holds a node of the name asked
for between its two statements. `AcknowledgedStored` and `ReportsStored` turn
what agents were told into rows, `LatestCovers` and `OrderedRows` say what
`DISTINCT ON` and `ORDER BY ... LIMIT` leave of them (the latter by the
pigeonhole principle), `RowsGrow` that no committed row goes away. Theorems:
`ListingsAreCurrent`, `HistoriesAreHonest`, `NamesResolve`, and as action
properties `NoRegression` and `LabelsAreStable`.

**Handshake and exchange.** `InitiationDecrypts`: for all keys the responder,
translated from the test, reads exactly the sender's key and timestamp out of
what `buildWGInitiation` made. `TimestampOrder` shows that comparing encoded
timestamps compares instants. The invariant `Inv` of the exchange has `Stage`
(what holds where the loop stands), `Bounds` and `Origin` (the network makes
nothing up: no more comes back than was written, and only what this node or a
late session sends), `Budget` (no read deadline passes the phase's), `OnTime`
(a process that is not held up is on schedule, and a read that timed out over a
prompt network has left nothing behind), `Remembers` (until the node accepts the
probe, the timestamp it remembers is a rival's or none), `Losses` (every datagram
written is still somewhere, or was lost, or was refused for a rival's newer
timestamp) and `Verdicts`. Theorems:
`VerdictFollows`, `RetriesFitBudget`, `PassMeansAccepted`,
`FailuresAreExplained`, `RefusalsAreDetected`.

**main.** `NodeInv` says that a round starts afresh, that a rejected file stops
it, and, once the probes have run, `Projection`: every target has one outcome
and the results are `toResult` of them in some order. Output and batch are
functions of the results. `ResultFacts` goes through the shapes a phase list can
have; `OrderCovers` and `KeptEntries` show that neither the order of the probes
nor the loops of `writeProm` and `buildPayload` lose or repeat a result. Theorems:
`ExitStatusIsTruthful`, `BadFileIsNotOutage`, `IdentityIsStable`,
`PushIsHonest`, `LivenessIsHonest`.

**Only model-checked:** liveness (`EveryRequestAnswered`, `EveryPushReturns`,
`Termination` of `RunAll` and of `UDPExchange`), which takes fairness and
`ENABLED` and is out of this prover's reach, and the six counterexamples.

## Findings

1. **A racing replay is answered 500** (`replay`). The probestore README promises
   `duplicate: true`. The history stays right and the agent retries.
2. **A fleet without tls targets can never push** (`push_empty`): the batch is
   empty, the schema refuses it, the agent exits 3 on every run.
3. **One lost WireGuard response is an outage** (`wg_loss`): attempts resend one
   timestamp, which the responder's replay protection drops.
4. **The documented cron entry hides outages** (`textfile`): exit 1 skips `mv`.
5. **A zero handshake time is exported** for nodes that fail at TCP
   (`phase_sample`), against the comment on `writeProm` and the README.

6. **A full disk publishes a truncated file** (`textfile_cut`): `writeProm` drops
   write errors, so `&& mv` runs.

Two more divergences have no run, because no property tells them apart here:
`README.md:376-377` and `prober_wireguard.go:57-58` say that an anonymous target
gets a key "generated fresh per probe", while `wgIdentity` uses the monitoring
key wherever it is set; and `nodecheck_handshake_seconds`, "Duration of the last
successful probe" (`metrics.py:48`), disappears when the latest probe failed.

## Not modelled

The ciphers, and the bytes and lengths of the handshake message; label escaping,
error texts, ALPN and certificate names; the timing of the TLS prober's two
dials, whose outcomes are the network's choice; the health endpoint, settings
and application wiring (stateless); migrations, which run to completion before
the application starts (`docker-compose.yml`); the connection pool; the branch of
`run` on `ctx.Err()`, since the context of every probe is
`context.Background()`; WireGuard's own rate limit on initiations; overlapping
invocations of cron; build and CI.

## Plan

1. Done: `Probestore`, `RunStore` and their proofs; `PushSystem`; `RunAll` and its
   proofs; `WGHandshake` and `UDPExchange`; `NodeCheck`; `ProbestoreViews`.
2. Done: the safety and action properties of all of them as theorems.
3. Next: the `Orders`, `accepted or not` and `EveryTargetOnce` contracts that
   `NodeCheck` takes from `RunAll` and `PushSystem` as refinements of a shared
   abstract specification; the invariants behind the counterexamples, as
   theorems about what does hold in their place (which answer a racing replay can
   get, what the cron entry publishes).
