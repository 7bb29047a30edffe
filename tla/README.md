# A TLA+ verification of FuryPipe

This directory holds TLA+ models of the parts of FuryPipe in which state, failure
and concurrency meet, the TLC configurations that check them on small instances,
and theorems about them that TLAPS checks for every value of the constants. Paths
such as `core/recovery-store.ts` are relative to the implementation's directory
`src/`; line numbers are of the commit the models were written from.

`PROJECT.json` is the index: the components, the runs with their properties, for
every property a mutant of the code's model that breaks it, the lines each
definition translates, the hazards of the code, the findings and the theorems.

## 1. Inventory

FuryPipe is a TypeScript library with a local proxy. Most of its 154 source files
are pure: they validate, score, select or render. State that outlives a call is
kept by the parts below; **M** is modelled, **P** modelled in part, **-** not.

| Part | State | Operations | Talks to |
|---|---|---|---|
| **M** Retry/fallback orchestrator (`provider-retry-fallback-orchestrator.ts`) | nothing between runs; in a run the attempt index, the records | `run()` | planner, request envelope, gate, executor; the caller's `AbortSignal` |
| **M** Execution gate (`provider-execution-gate.ts`) | the permits issued and which of them are consumed, in a `WeakMap` | `authorize()`, `consumeProviderExecutionPermit()` | runtime state; a host clock |
| **M** Single-attempt executor (`governed-provider-executor.ts`) | none | `execute()` | gate, one host transport |
| **P** Stream executor (`governed-provider-stream-executor.ts`) | the sequence number and terminal state of a session | `open()`, the session's events | gate, one stream transport |
| **M** Health promotion (`provider-transport-health.ts`) | none | assess, apply | runtime state |
| **P** Runtime state (`core/provider-runtime.ts`) | the last health observation of each provider, prices | observe, get, `selectFallback()` | |
| **P** Attempt preparation (planner, adapter, context runtime, envelope) | none | pure preparation | orchestrator |
| **P** HTTP transports (`provider-transports/`) | one request: an abort controller, a timer, a reader | `execute()` | network; the host's credential and `AbortSignal` |
| **P** Stream transports (`provider-stream-transports/`) | one session: an abort controller, a timer, the active reader | `open()`, the iterations of its events | network; the host; the stream executor |
| **M** Recovery store lock (`core/recovery-store.ts:282-350`) | the lock file and its mtime | acquire, heartbeat, release | every process that uses a store |
| **P** Recovery store (`core/recovery-store.ts`) | object files, manifests, backups of manifests; per instance a queue and its recovery promise | put, delete, gc, rekey, reads; backup, restore | file system; the memories, the ledger, the agent runtime |
| **-** Audit ledger (`provider-execution-audit-*.ts`) | snapshots chained by digest | append, restore, verify | recovery store |
| **P** Agent runtime (`agent-runtime.ts`) | runs: claims and sequences of records, in a memory that processes share | `runAgent()`; `append()`, `claimExecution()`, `list()` of the memory | recovery store; the host's executors, skills, MCP servers, subagents |
| **-** Task orchestrator (`task-orchestrator.ts`) | none | builds the request of `runAgent()` | router, agent runtime |
| **P** Long-term memory (`long-term-memory.ts`) | immutable revisions of memories | `apply()`, `history()`, `purge()`; `recall()` | recovery store |
| **P** Continuous memory (`continuous-memory.ts`) | contents, beside the revisions that name them | `afterTurn()`, `forget()`; `beforeTurn()` | long-term memory, recovery store |
| **-** Learning, knowledge | snapshots | record, restore | recovery store |
| **-** Sessions and event log (`sessions.ts`, `core/tracker.ts`) | an append-only JSONL file | append, `prune()` | proxy |
| **-** MCP servers | pending requests | request handlers | clients |
| **-** Router, catalog, context and instruction fabric, policy, trust, scores, skills, plugins | none | pure | |
| **P** Proxy exchanges (`core/proxy.ts`, `core/session-state.ts`) | the requests in flight; per session what is known of the provider's cache and grid | the handler of a request, its timers, its scanner | clients, upstream providers, history collapse |
| **P** History collapse (`core/history.ts`, `core/transform.ts`) | none but the session's grid | `collapseHistory()` | proxy |
| **-** Request transformation, rendering, dashboard, tools | rendered pages | rewriting of messages | upstream providers |

**The governed provider plane.** A host lists up to 32 attempts (a provider and a
model each) and a continuation policy. `run()` takes them in order: plan, prepare
the request, have the gate issue a permit from the host's policy for that request
and fresh evidence of the provider's health, have the executor consume the permit
and call the host's transport once. What the transport returns or throws decides
whether the run may go on. Three things are hard here. The network is not
transactional: a request may be performed after its transport gave up on it, so a
second one may duplicate work and cost. Evidence and permits age between the step
that looks at them and the step that uses them, by a clock the host may set back.
And the caller aborts whenever it likes. The plane is correct when a run never has
two requests that are, or can be, performed; its result is true of what was sent;
every continuation is one the host allows; every call is within the authority it
was granted on; and health that was promoted from a result is explained by one.

**The recovery store.** Content is stored by digest: an object file (encrypted under
one of several keys, or plaintext) and a manifest that names its variant. Every
operation of every instance runs under a lock file shared by all the processes
that use the directory; the lock's holder refreshes it every 10 s, a waiter breaks
it after 60 s. Operations are sequences of file system calls, each of which may
fail, and a crash may fall between any two. Manifests are replaced through a backup
name that is recovered when an instance is first used. The lock is correct when it
excludes and is freed again after a crash; the store is correct when content that was
published stays readable, at once or after a recovery, until it is asked to be
dropped, and when the files stay within the quota.

**The agent runtime.** A run of five stages is executed by whatever process calls
`runAgent()` for it, from the start or from a snapshot that an earlier call handed out.
Calls share only the memory: records of finished stages, numbered by counting what is
there, and claims, which can be taken once. A call checks its snapshot against the
records, claims it, and then calls the host's executors, whose effects cannot be undone.
The check and the claim are two operations, as are the count and the store of an append,
and a call may crash at any await. The runtime is correct when one call at a time
executes a run, no stage is done again, the records are those of one run, and a
snapshot handed out can be resumed from.

**The transports.** A buffered call races its work (credential, fetch, body) against a
promise that the timer, the host's signal and an oversized response reject; the work goes
on in the background when it has lost. A stream is opened without such a race; its session
then lives through a body, a timer and a reader that every iteration of its events shares.
They are correct when nothing is sent for a call that is aborted, a result is bounded,
everybody who waits is answered, and a cut answer is never taken for a whole one.

**The proxy.** Requests overlap in one process. Each is transformed, which may render its
history as images on a grid that must not get finer while the provider's cache lives; is
refused when an identical one is in flight; is forwarded under a deadline; and is streamed
to its client while a scanner reads what the response tells of the cache. Its state is a map
of leases and a small map of sessions, from which the oldest goes in a crowd. It is correct
when a double send never reaches the provider within its window, no exit leaves a lease
behind, every exchange ends and is reported once, and the grid moves only when it may.

**The memories.** A mutation reads the latest revision and stores the next; the store
refuses a number that is taken, but the read and the store are two operations, and a call
may stop between any two. A purge deletes revisions one by one, an erasure the contents
after them. They are correct when the revisions are one history, what was told forgotten
is, and what is known can be read.

**What the other parts would need.** Ledger: a head names the whole history that was
appended to it. Sessions: pruning loses no event written meanwhile (the code documents that
it may). Skills and servers of a stage: one call and one charge for one request.

The hazards these parts are exposed to are listed in `PROJECT.json` at the lines where
they bite, with the properties that would notice, or the reason why none does yet.

## 2. Plan

Order: what costs money or loses data comes first.

Done:

1. `RetryFallback` and its abstract specification `AtMostOnceRequest`.
2. `ProviderRuntime`, `ProviderGate`, `GovernedExecution` (each extends the one before).
3. `RecoveryLock`.
4. `RecoveryStore` and its abstract specification `ContentStore`.
5. `AgentMemory` and `AgentRuntime` (which extends it).
6. `SessionState` and `ProxyExchange` (which extends it); `HistoryGrid`.
7. `LongTermMemory` and `ContinuousMemory` (which extends it).
8. `HttpTransport` and `StreamTransport`, composed under one `CallerSignal` by `Transports`.

Open:

9. `RecoveryStore` with backup and restore into a second directory.
10. `StageCalls`: the parallel calls of skills, MCP servers and subagents within a stage
    (`agent-runtime.ts:326-357`, `:833-880`), with the cache of skills and the shared
    calls of MCP.
11. `AuditLedger`: snapshots and lineage, digests as injective values, forks.
12. `ProviderPlane`: runs of `RetryFallback` over the real gate and executor of
    `GovernedExecution`, shown to implement `RetryFallback`.
13. `EventLog`: `prune()` against a proxy that appends.
14. Proofs: of the composed modules above, as they are written; of the present ones every
    safety property that a run checks is proved (section 5).

## 3. The modules

### The provider plane

`RetryFallback` is one call of `run()` (lines 832-1215 of the orchestrator). `phase` is
where the loop is, `index` its attempt; `records` and `outcome` are what
`finalResult()` returns. The body of the loop is synchronous from the abort check to
the transport call, so no abort falls into it; but each stage is still an action of its
own (`PlanAttempt`, `PrepareRequest`, `Authorize`, `Execute`), with the errors that stage
can raise as its alternatives and one definition for each class of error of the code
(`PreExecutionFailure`, `BlockedFailure`). `await` and `settled` are the two phases in
which the rest of the process runs. What a transport may report is the full product of
its network, request, status, request id and delay dimensions (`TransportReturns`),
including reports that contradict themselves, and anything it may throw
(`TransportFails`). `ExecutionState`, `ContradictoryExecution`, `Transition`,
`ReasonAllows` and `HttpStatusAllows` are the code's functions of those names.

`wire` is not in the code: it is what became of the request of each attempt. A provider
performs or refuses a sent request at any time, even after `run()` returned. One
assumption connects the two (`Honest`): a report that does not contradict itself and
claims an outcome is true. Without it no policy for retries could be right. Runs share
only the gate, the transports and the clock; what these can do to a run is in the free
choice of its errors, so one run stands for any number of them.

`AtMostOnceRequest` is what a run promises, in four variables that know nothing of
attempts' records or policies: a request is sent only when all earlier ones are known
to have done nothing and to be unable to do anything. `RetryFallback!KeepsPromise` maps
a run onto it.

`ProviderRuntime` holds the health table and the host's clock, which moves either way or
becomes unreadable. `ProviderGate` adds the permits, with `authorize()` and
`consumeProviderExecutionPermit()` as their ordered checks. `GovernedExecution` adds the
calls of both executors, and the promotion of results into health, at any time after the
return and any number of times. `execute()` and `open()` are synchronous up to the
transport call, so that part is one step. A permit's record also keeps the evidence and
the policy it was issued on (history, which only properties read). Prices are left out:
they never decide whether a request is sent.

### The recovery store

`RecoveryLock` has one action for each file system call of `acquireRecoveryLock()`, of
the heartbeat and of the release, since processes interleave between calls. The lock
file is its owner (standing for the token), whether the record is written yet, and its
age. Removal and refresh go by path, as in the code: they hit whatever file is there.
`Tick` is one heartbeat interval; running processes complete the call they are in and
keep their heartbeat before it (`Punctual`). A process may stall for any time and
resume at the call it was about to make, or crash. `current` is history: the processes
whose last look at the file is still true of it.

`RecoveryStore` is one namespace of a store used by instances that exclude each other:
what `RecoveryLock` shows in the absence of stalls is taken here as a premise. An
operation is a sequence of the calls that change the store, each a step, as a crash may
follow any: `RekeyObject`, `RekeyRename`, `RekeyPublish`, `RekeyUnlink` are the four of
a re-encryption. `CallFails` ends an operation at any of its calls, with the compensation
the code has for it (`RekeyUndo`, tried twice), or fails the recovery before it: the
instance is `refusing` then, as it keeps the rejected promise. `Crash` loses an instance;
its successor may have another active key, and recovers backups before its first operation.
Crashes and failing calls come in any order. `left` is history: the content of which a
failed call has left a backup. After a crash it is `Uncertain`, as recovery takes that
backup for the manifest: what was deleted may come back, and what was encrypted anew since
may be named by a variant that is gone. Published
files are whole, because they are linked or renamed from a synced temporary file.
`kept` is history: the content that was published and that nobody asked to drop.
`Sources(d)` are the variants a reader of d may be led to, now or after a recovery: the one
its manifest names; while that is being replaced, the one the operation itself has moved
away and will move back; else any that a backup names, since recovery takes them in the
order of the directory. Content is `Recoverable` when each of its sources has its object.

`ContentStore` is what the store promises its callers: content appears only while it is
being put, and disappears only while it is being dropped.

### The agent runtime

`AgentMemory` is the memory of one run in a recovery store
(`createRecoveryAgentMemoryStore()`). Every operation of the store is atomic, under its
lock; an append is two of them, `ListRecords` and `PutRecord`, and begins again up to
`MaxAttempts` times when its number was taken meanwhile. The store is content-addressed,
so a put of the very entry that is there already succeeds and stores nothing. A record
is a value; a failing call may have had its effect or not (`AppendFails`).

`AgentRuntime` is `runAgent()` for one run and one objective, called by any processes at
any time. A call is a record in `run`: where it is, the snapshot it came from (`Start`
without one), its budget, its next stage and the tokens accounted for. One action for
each await and what follows it synchronously: `ListHistory` checks the history
(`historyMatchesSnapshot()` is `HistoryMatches`), `Claim` takes the claim, `CallExecutor`
and `StageReturns` are around an executor, `Appending` makes the steps of `AgentMemory`,
`Recorded` goes on. Snapshots come from calls that handed off (`issued`) or are made up
(`Forged`). An executor's skills, servers and subagents are part of its call; all that is
kept of a result is its status and tokens. Digests of results and of the prompt are left
out: they are compared with themselves only. The default memory of a request without one
is fresh for each call, shares nothing, and so needs no model. `calls` is history.

### The transports

`HttpTransport` is one call of `requestJson()`: `http.at` is where its work is, `outcome`
what the race settled with (`Decided`: the first to settle), `aborted` its controller, and
`received` what `readBoundedBody()` has counted. One action for each await and what follows
it. The credential, the fetch and the body settle in any way, late, or never; the work goes
on after the call has settled, as in the code.

`StreamTransport` is one call of `open()` and the session it returns, with the loop of the
executor's `governedEvents()` that hands its events on. `stream` is what the iterations of
a session share: the controller, the timer (`armed`), the listener of the signal
(`watched`), the body and its reader. `iterations` has, for each, where it is, the frames it
has still to hand on, what is left in its buffer (`rest`), and what it delivered. What the
code does between two awaits is one step (`GoesOn`, up to the next read or event; `Ends`
with all the `finally` blocks on the way out). An iteration that begins while another has
the body fails on its lock, and its cleanup takes the timer and the listener from the
other, and cancels its read (`Locked`). A chunk is the frames it completes; what makes a
frame an event, an end or an error is the providers' mappers and not modelled.

`Transports` composes the two under a signal that aborts both (`CallerAborts`).

### The proxy

`SessionState` is `core/session-state.ts`, whose functions run without interruption:
operators from the map of sessions to the map. `ProxyExchange` is the handler in
`createProxy()`: an exchange is a record (where it is, its body, the grid it was rendered
on, whether it holds a lease, where its client is), and one action is what runs between two
awaits. The map of leases is keyed by what is forwarded; its sweep, the refusal of a
duplicate, the deadline for the headers, the watchdog of a silent stream, the client's
leaving and the end of the scanner are the code's. A request without room for images never
asks for the state of its session (`SkipHistory`). How a history is rendered is a free
choice among the grids the session's floor allows; `HistoryGrid` is about that choice.
Everything is in the memory of one process, so a restart is `Init` and no step of its own.
`promised` and `told` are history, read by properties only.

`HistoryGrid` is `collapseHistory()` and its caller: where a conversation can be cut without
separating a call from its answer (`ClosedPrefix`), the grid of the chunks (`StepFor`,
coarser when there would be too many images), and what a render covers. A message is the
calls it makes, those it answers and its length. The client adds messages and rewinds; it
collapses at any time, with any budget, cold or warm, and with marks of its own.

### The memories

`LongTermMemory` has the revisions of one memory in every scope, what may be written over
the latest (`Permitted`) and what the store accepts (`Storable`: a number is free or the
very revision is there). `ContinuousMemory` is the engine over it: `afterTurn()` for one
candidate, `forget()` by a tombstone, and `forget()` with an erasure. A call is a record in
`calls`, one action for each operation of the recovery store, each of which excludes others
(see `RecoveryLock`); `Stop` ends it between any two, by a crash or by a failing operation.
A content is stored under a digest that does not depend on the scope (finding 2).
`forgotten`, `purged` and `raced` are history.

### Configurations and mutants

`MC*` modules hold the values of the constants. A definition whose comment starts with
"Mutant of" is never used by a specification: it is a plausible mistake in the
definition it names, and the property `PROJECT.json` pairs it with must fail with it.

## 4. What is checked

| Run | Instance | Shows |
|---|---|---|
| `RetryFallback` | 6 attempt lists of up to 3, 18 policies, statuses 200, 401, 429, 503, response-too-large errors with and without their flag; 994,788 states | at most one request of a run is or can be performed; no request after an abort; every continuation allowed for that pair and that reason, a requested delay respected; result and records true of what was sent; `AtMostOnceRequest` implemented; every run ends |
| `GovernedExecution` | 2 providers, models, requests, permits, calls; 3 instants; 1,544,920 states | a call starts within the time and the evidence its permit was granted on, and no other call uses that permit; promoted health is explained by a call |
| `RecoveryLock` | 2 processes, the code's ratios of lease, wait and heartbeat; 2 crashes, 1 stall; 194,146 states | until the first crash or stall the lock excludes; with them, a live lock of another is removed only on an outdated look, and a lock left behind is freed again |
| `RecoveryStore` | 1 instance, 2 contents (one expires), 3 keys and plaintext, room for 3 objects, 3 crashes and 2 failing calls in any order; 3,415,561 states up to the names of keys | no published content is lost, or unreadable after a failing call, unless a crash follows a failed call that left a backup of it; the quota is kept; `ContentStore` is implemented |
| `AgentMemory` | 3 processes, 2 records, 2 attempts, 1 failing call; 87,287 states | numbers without gap or repetition; an append that succeeded is stored; none is refused without a cause |
| `AgentRuntime` | 2 processes, 2 stages, budgets 1 and 2, every snapshot made up, 1 failing call, 1 crash; 383,141 states | one call at a time executes the run; no stage is done again; snapshots handed out are good until claimed |
| `Transports` | a buffered call of up to 2 bytes, a session with 2 consumers and up to 2 chunks, 6 kinds of chunks; 62,994 states | nothing is sent late; results are bounded; an answer is delivered once, and whole if it is called complete; every call settles and every read is answered |
| `ProxyExchange` | 3 exchanges, 2 sessions with room for 1, 2 grids, a window of 1 tick; 302,813 states | no double send within the window; no lease left behind; no grid gets finer; nothing unknown is repacked; every exchange ends, reported once |
| `HistoryGrid` | conversations of up to 6 messages with 2 calls, budgets 2 and 3, marks and rewinds; 49,392 states | the history is cut between rounds; its images keep the budget; chunks stay as they were while the cache lives |
| `ContinuousMemory` | 2 workers, 2 contents, 3 writable revisions, histories of 2; 4.8 million states | one revision per number; whole histories; what was told forgotten is; what is known can be read; an erasure that runs alone leaves no revision |
| `ProxyCacheVerdict` | as `ProxyExchange` | finding 1 |
| `ContinuousMemoryScopes` | 1 worker, 2 scopes | finding 2 |

**Why the bounds are enough.** Three attempts are the fewest with a move after a move;
the lists contain a retry, a fallback within a provider, one across providers, a return
to the first provider, and a denied attempt. Four statuses give one that accepts, one
that no policy continues on, and two that policies tell apart. Two permits and two calls
are enough for a permit to be offered again while its call is open or after it; three
instants let evidence and policy each expire first, and the clock go back; requests are
independent otherwise. Two processes and two crashes let one find the lock that the other
left, and be left with it; that they exclude each other is proved for any number. Six
ticks of lease to three of waiting are the code's 60 s and 30 s at 10 s a tick. Two
contents and four variants let one content be re-encrypted while another competes for
room, and re-encrypted again to a key that no backup left behind names; three crashes let a re-encryption, its recovery and the one after be cut. Two stages
give a run that goes on from one to the next and ends; with two calls one can be at any
point of its check, claim and append while another executes, and with handoffs and crashes
each process makes several calls one after another; a stage that may consume nothing or
one token of a budget of two can repeat a snapshot, exhaust the budget or lie in a
snapshot about it. `MaxRecords` leaves room for a handoff of each stage, and both it and
`MaxClaims` can be reached. Two consumers are the fewest that disturb each other; chunks
with nothing, an end, an error, and events before and after an end, and a rest with and
without a frame, are every way in which an answer can end; two of them let an answer end
in the second and the limit of the wire be met. Three exchanges let a repetition meet both
a live lease and one that expired, with another session's request in between; a crowd of
one makes every eviction happen. Six messages hold two rounds of calls, a cut between them
and a tail. Two workers interleave any two calls; three revisions of the four that exist
reach the limit of what can be written, and one is older than a history shows.

`MaxCrashes`, `MaxStalls`, `MaxFailures`, `MaxExchanges`, `MaxMessages`, `MaxVersion` and
`MaxTime` bound what is explored and stand for no bound of the code.
`RetryFallback!MaxAttempts` is 32 in the code, `AgentMemory!MaxAttempts` 8, `MaxRecords`
9,999, `MaxClaims` 10,000, `Stages` 5, `SessionsMax` and the grids are as their constants
say in `core/session-state.ts` and `core/history.ts`, `MaxWritable` and `MaxHistory` as in
`long-term-memory.ts`, and `MaxWireChunks` stands for `maxWireBytes`.

**Deadlock** is not checked: runs end, calls are spent, appends end, and the store rests
when its faults are used up and its contents need no operation; these states are
legitimate. Clients of the proxy, consumers of a stream and workers of a memory may stop
asking as well.

**Fairness.** `RetryFallback!FairSpec` has weak fairness of `Run` (the JavaScript engine
runs a task that can run) and of `Transport` (a transport settles: the bundled ones race
their work against a timer, which is what `Transports!EveryCallSettles` shows).
Nothing is assumed of providers or of the abort. `RecoveryLock!FairSpec` says that time
passes, that a process that runs takes its next step, that a stalled one resumes and that
callers keep using the store; each operation ends. No fairness is assumed of heartbeats,
crashes or stalls. `ProxyExchange` has fairness of local work and of the two timers, the
deadline and the watchdog: an upstream may hang and a client stay for ever. `Transports`
has fairness of the timer alone for a buffered call. For a stream it has four: the timer
fires; the host's credential comes (nothing races it, see section 6); a fetch whose signal
is aborted rejects; and a read of a body that was cancelled or aborted settles, as the
streams standard says. Nothing is assumed of the network or of the consumers.

## 5. What is proved

TLAPS checks the following for all values of the constants, from the named assumptions
the modules state (`ConstantsAssumption`, `RuntimeAssumption`, `GateAssumption`,
`ExecutionAssumption`, `LockAssumption`, `StoreAssumption`, `MemoryAssumption`,
`SessionAssumption`, `ExchangeAssumption`, `NobodyAssumption`, `GridAssumption`, `LongTermAssumption`,
`HttpAssumption`, `StreamAssumption`), which TLC evaluates on every run. Hypotheses beyond
these are part of the theorem and named below.

* `RetryFallbackProofs`. `WorkAtMostOnce` is not inductive: it says nothing of why a
  loop that goes on leaves no request behind. `PendingKnowledge` does, in three parts:
  attempts ahead are unsent; a request that may have been, or may yet be, performed is
  the current one, and the loop is at no point from which it goes on; what was reported
  done was done. It is inductive with the types (`PendingKnowledgeHolds`) and gives
  `AtMostOnce`, `AbortIsFinal`, and step by step the refinement of `AtMostOnceRequest`
  (`RunKeepsPromise`). `OutcomeIsTruthful` follows too: an outcome tells what was done,
  except where the run ended on a response-too-large error that its transport threw
  without the flag (`EndedUnflagged`), see section 6. What the records say is a second
  invariant, `RecordsKnowledge`: every record before the present one is of a move that the
  policy allows for its reason and its pair of attempts, and counts a request exactly if
  one was sent; how far the present attempt has come; and how a run can end. With
  `PendingKnowledge` it is inductive (`RecordsKnowledgeHolds`) and gives
  `ContinuationsAuthorised` (`MovesAreAuthorised`) and `RecordsExplainOutcome`
  (`RecordsAreTrue`), for any plan and any policy.
* `GovernedExecutionProofs`. `PermitsBoundCalls` with `PermitSingleUse` is inductive: a
  permit's expiry is within the policy's time and the evidence's, a call's permit is
  spent from the call on. It gives `CallsWithinAuthority`. `HealthIsExplained` needs only
  that a finish instant which is kept is not before its start (`FinishTrusted`): what a
  returned call explains stays explained, because nothing touches that call again. Nothing
  is assumed of the clock.
* `RecoveryLockProofs`. `LooksAreTrue` is inductive whatever crashes and stalls
  (`LooksHold`), and gives `LiveLocksSpared`. Until the first crash or stall
  (`Faultless`, a state predicate that never becomes true again once it is false),
  `TenureOwnsLock` is inductive - the lock belongs to the one process in its tenure and
  never ages beyond a heartbeat, so nobody breaks it - and gives `MutualExclusion`. It
  rests on `Beat < Lease`.
* `RecoveryStoreProofs`. Whatever crashes and whatever fails, each step of an operation
  finds what the steps before it have done (`OperationShape`, inductive with the types), and
  the objects stay within the quota (`QuotaHolds`). That published content can be recovered
  needs two things more, which `StoreInv` adds for the content that is `Sure`, all that is
  kept and not `Uncertain`: it has its manifest, unless that is being replaced or no instance
  runs that could take its object for an orphan (`KeptIsPublished`); and each backup is one
  that a failing call has left beside others, or that of the operation in progress, or the
  one of its content that a crash has left (`BackupsAreOwn`), so that recovery has no choice.
  `StoreInv` holds while the faults are `Survivable`: any number of failing calls, and of
  crashes of the only instance there is. A crash beside a second instance is the code's
  limit: TLC finds published content lost (section 6, collection by an instance that keeps
  running). From `StoreInv` follow `KeptCanBeRecovered`, `KeptCanBeRead`, and the refinement
  of `ContentStore` (`StoreKeepsPromise`), whose hypothesis says of the bounds what
  `Survivable` says of a state: step by step, either no content changes whether it can be
  recovered, or the one that is put, deleted, collected, or left behind by a failed call does
  (`OneMore`, `OneLess`, `SameContent`).
* `AgentRuntimeProofs`, first of `AgentMemory`. `SequenceIsWhole` is not inductive: a put uses
  a number that was counted earlier. Added to it are that such a number is at most the present
  count (records are never removed), so that it is the next one or is taken and conflicts, and
  that two entries differ in their numbers. The proof of a put is about `Cardinality` of
  a set with one element more. The same invariant gives `AppendsAreStored`; with
  `TriesAreCounted`, that an append has not lost its number more often than there are records,
  it gives `RefusalsHaveCause`.
  Then of the runtime. `OneExecution` does not say why a call that claims is alone. The
  invariant `ExecutionInv` adds `ClaimDecides`: a call at its claim has seen the history
  as it is, or its claim is taken; and whatever the present history allows to claim is
  claimed while a call executes. It rests on two facts: a history allows one claim at
  most (`OneAllowed`), and only the call that executes appends, ending its own right to
  go on where it hands off. `HistoryInv` says what the history is: the completed records are
  those of the stages before `Upcoming`, no stage behind it was called, `Upcoming` itself not
  more often than it handed off and once more; the call that executes is at that stage, and
  has consumed the sum of the tokens recorded (`Follows`); a claim that is still free is for
  a call that was not made (`ClaimsLeft`). With `ExecutionInv` it is inductive (`KnownInv`)
  and gives `EffectsHappenOnce` and `IssuedSnapshotsAreTrue`. That a new record adds its
  tokens to the sum is a lemma on finite sets, proved by taking a set without it of the least
  size. Nothing is assumed of snapshots, budgets, executors or of when calls crash.
* `ProxyProofs`, first of `ProxyExchange`. `OneHolderPerWindow` does not say why a second
  request is refused. `WindowIsLeased` does: whoever took a lease within the window still has
  it in the map, whatever the sweep and the late releases of others did. With `LeasesAreHeld`
  and the fact that holders were forwarded it is inductive (`LeaseInvHolds`), for any window,
  sweep, number of exchanges and sessions.
  What the session's state is for rests on the order of the store, which is that of a
  JavaScript Map whose first entry goes when there are too many. `Remembered` says that no
  session has two records; that a session which is promised a step has a record with it, or
  with a coarser one (`Keeps`); that all records behind it are of sessions that were used
  since; and that a record says no more than was told (`Tells`). The lemma that matters is
  `TouchKeepsOthers`: the first record cannot be the promised one while the sessions used
  since are fewer than there is room for, as all behind it differ (the pigeonhole principle).
  `SessionsAreRemembered` is the invariant; it gives the two action properties,
  `GridsNeverGetFiner` (an exchange that renders has the floor that was owed when it asked)
  and `ColdHasCause`.
  Then of `HistoryGrid`, whose recursive definitions are functions: that each exists and obeys
  its equation, and that those of two lengths agree where both are defined, are lemmas, each by
  the smallest number at which it would fail. `TurnsInv` says of conversations that a message
  which answers makes no call and a round begins when nothing is open. With it, the scan of
  `ClosedPrefix` is proved to hold the last place before it that is good, and the code's
  provisional end of a round to be good exactly if the next message makes no call:
  `HistoryIsCutBetweenRounds`. `ImagesKeepBudget` is about the sums: one chunk needs the pages
  of the whole text, so that the doubling has an end which fits, and trimming makes the
  range fit. `GridInv` (`RendersOnGrids`) says that what was sent was on one of the grids
  that doubling reaches. So a render that may keep the step of the last one does
  (`FloorIsKept`), its lines are where they were, and `WarmChunksStay` follows. Nothing is
  assumed of texts, marks, budgets or of when the client rewinds.
* `ContinuousMemoryProofs`. `WritersFollow` is what is missing of the versions: a call about
  to write has a number whose predecessor is stored, active if it is to be forgotten, or a
  purge has taken it since. It gives `VersionsAreUnique`,
  `HistoriesAreWhole` and `ForgottenHolds`, with purges and stops anywhere. The largest
  element of a bounded set of numbers, which `Latest` chooses, is a lemma of its own.
  `AloneInv` adds the erasures and the contents: an erasure that runs beside no other call has
  in its list every revision there is of its memory, and then none is left (`Whole`), which is
  `ErasuresAreWhole`; and an active revision has its content unless another memory was purged,
  as a remember has before it writes (`Provided`). The condition is needed: equal texts of two
  memories are one content (finding 2). So `SparedIsReadable` says of any number of scopes that
  what is known of a memory can be read while no other was purged, and `RememberedCanBeRead`
  is `RememberedIsReadable` under the hypothesis that there is one scope.
* `TransportsProofs`. The invariant has four parts: a buffered call whose work goes on
  unaborted has settled with nothing and its signal is not aborted; a stream that is being
  opened watches its signal; whoever reads has the reader, and who was touched by the body
  has it or it is dead, so that nobody else is; an iteration's end is its last event. It
  gives `NothingIsSentLate`, `ResultsAreBounded`, `OneIterationHasTheEvents` and
  `CompleteAnswersAreWhole` for any limits, chunks and number of consumers.

Every invariant and every action property that a passing run checks, and each of the two
refinements, is stated by one of these theorems.

**Only model-checked:** liveness (`Termination`, `LockIsFreedAgain`, `EveryExchangeEnds`,
`EveryCallSettles`), which is out of the prover's reach, as is `ENABLED`; and the two
properties that the code does not have (section 6). The library's induction theorems take an
operator as a parameter, which the provers cannot instantiate; where a proof needs an
induction over finite sets or over numbers, it takes a smallest counterexample instead. No
module declares a `RECURSIVE` operator.

## 6. Findings

1. **Silence of a response counts as a dead cache** (`ProxyCacheVerdict`). After every
   response, an error, a broken stream or one its client left included, the proxy notes the
   counters it has read, and none counts as zero; a session that had a cache is then cold,
   and its next request cuts its history anew. The comments at
   `core/session-state.ts:231-237` and `tests/cache-liveness.test.ts:60-69` say that such
   responses say nothing about the cache.
2. **Erasing a memory of one project deletes the text of another's**
   (`ContinuousMemoryScopes`). A content is stored under a digest of the text and of the kind
   of its scope, not of the scope, so equal texts of two projects are one content.
   `docs/CONTINUOUS_MEMORY.md:200` says that the memories of two projects stay separate.

Observations that are not runs of their own:

* A live lock can be deleted: after a crash two waiters may both find the lock stale; the
  slower one removes, by path, the lock that the faster one has created since, and both
  operate (`core/recovery-store.ts:356`; the comment at `:309-310` says that the lease makes
  a crash recoverable without "a forced deletion of a live lock").
  `UpToDateLooksSpareLiveLocks` says exactly when this can happen.
* A run says BLOCKED of a request that was sent, when a transport throws its own
  response-too-large error without the flag `transportInvoked` (`EndedUnflagged`). The
  bundled HTTP transports set the flag.
* A permit is refused at its expiry instant (`provider-execution-gate.ts:229`), at which
  `docs/GOVERNED_PROVIDER_EXECUTOR.md:87-88` says it is valid.
* Collection by an instance that keeps running, while another one's crashed rekey has left
  a manifest under its backup name only, takes the object for an orphan
  (`core/recovery-store.ts:912`). After a failed removal of a backup and a crash there may be
  two backups of one manifest, recovered in the order of the directory (`:445`), of which one
  names an object that is gone: content that was published and never deleted may then be
  lost (`Uncertain`).
* A recovery that failed is not tried again: the rejected promise is kept
  (`core/recovery-store.ts:595`), and the instance refuses every operation until its process
  is restarted, though the fault has passed (`refusing`).
* Two appends of one record at the same time are both told that they succeeded while one is
  stored (`PutRecord`), although `docs/AGENT_FABRIC.md:66-68` says that a collision is read
  again and retried; with a claim before every execution the runtime never makes two such
  appends, a host that uses the exported memory may.
* A resumed stage that hands off again without having consumed a token hands out the
  snapshot it came from, whose claim is taken: the run cannot go on. A process that crashes
  between its claim and its first record leaves a run that nobody can take either
  (`agent-runtime.ts:752`); never repeating a stage is the code's choice.
* With marks, or prompts that are rendered beside the transcript, one chunk on the coarsest
  grid may need more images than the budget; the code goes on. A floor is recorded before the
  byte gate decides that the images are not sent, so a render that nobody saw pins the grid.
* A purge deletes in the order of digests: cut in between, it can leave an old active
  revision as the latest one, which is recalled. After a purge, numbers begin again. Contents
  of remembers that stopped early stay behind, and an erasure deletes the contents of the
  newest revisions only, as many as a history shows. At `MAX_WRITABLE_RECORDS` a memory can
  no longer be forgotten by a tombstone. A write that lost is stored, but reported as lost.
* `open()` of a stream waits for the credential without a race: one that never comes keeps it
  pending past its timeout, unlike `requestJson()`. The timer of a stream also runs while a
  slow consumer holds an event. A second iteration at the same time fails, and cuts the first
  one off: it ends as interrupted or with an error, unless it had its last event already.

## 7. Not modelled, and why

* In modelled parts: cost estimates, evidence labels, record wording and digests of the
  orchestrator, which decide nothing; corrupted files, which the code detects and never
  repairs; the residue of temporary files; sizes of objects (each counts one); several
  namespaces, which share nothing but the quota and the lock. The protected prefix of a
  history (`ProtectedPrefix`), which a request sets by its slab anchor, is the same for a
  whole conversation. A write compares what it reads back by version and state, not by reason
  (`Selected`): the model takes as acknowledged what the code may report as lost.
* Of the proxy: routes, headers, measurements, conversions between formats. Of the
  transports: what providers' bodies and frames say, usage and costs. Of the memories: the
  analyzer, policies and scores, which decide what is asked.
* Backup and restore, what a stage of an agent does inside its executor, the task
  orchestrator, learning and knowledge, the ledger, the event log, MCP servers: open, see
  section 2.
* Router, catalog, context and instruction fabric, trust, scores, skills, plugins: pure
  functions of their input. Request transformation: the data is the behaviour. Rendering,
  dashboard, tools: input and output.
