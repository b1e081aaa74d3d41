# r2r-jev: a TLA+ model of relation governance

`r2r-jev` decides whether an AI agent may run a tool. A probabilistic judge
scores each tool call; the scores become *evidence*; deterministic *admission*
rejects, holds or accepts the evidence; accepted evidence changes persistent
*relations* (trust, delegation, authorization); and the state of those
relations, never the score, answers `ALLOW` or `DENY`. An MCP server keeps the
relations per (subject, scope) domain in a durable event store, an execution
gate re-validates old decisions, and a gateway puts the whole in front of other
MCP servers.

Paths below are relative to the repository; the Rust sources are
`src/src/*.rs` as this directory sees them, written here without the first
`src/`.

## 1. Inventory

| Component | Source | State | Operations | Interacts with |
|---|---|---|---|---|
| Admission policy | `src/admission.rs` | none | `admit` | called by the kernel for each candidate |
| Governance kernel | `src/r2r.rs` | phases of three relations, supervision, governing authorization, six id counters, provenance | `observe_judgment`, `human_override` | one per domain, inside the server; the demo drives one directly |
| Event store | `src/store/memory.rs`, `src/store/mod.rs` | three logs, version per domain, three counters | record, look up, advance version | owned by the server |
| JSON file store | `src/store/json_file.rs` | the above, the file, a sticky `fatal_error` | `open`, `persist` (write a temporary file, rename) | read by other processes at any time |
| MCP server | `src/mcp/server.rs` | kernels and projections per domain, the store, one mutex | `observe`, `decide`, `explain`, `record_outcome`, `replay`, recovery at start | clients over stdio, the gateway, the remote profile |
| Execution gate | `src/enforcement.rs`, used by `src/mcp/annotated.rs` and `src/bin/r2r-enforce.rs` | none | `validate_execution` | opens the file afresh |
| Gateway | `src/gateway/service.rs` | tool owners; one handler per call | `call_tool` (authorize, forward, record), `start` | control plane and upstreams as child processes, spawned once |
| Remote profile | `src/mcp/remote.rs`, `src/bin/r2r-mcp-remote.rs` | principal, scopes, rate window | access checks, rate limit | wraps the server over HTTP |
| Experiments | `src/bin/compare.rs`, `src/bin/admission-compare.rs`, `src/bin/admission.rs` | suspension, pending holds, metrics | run a trace | `admit` |
| Demo, judge, model | `src/main.rs`, `src/jev.rs`, `src/model.rs` | none | print, HTTP call, convert probabilities to ppm | the kernel, the policy |
| Configuration, schema, job object, mock | `src/gateway/config.rs`, `src/gateway/job.rs`, `src/mcp/schema.rs`, `src/bin/mock-upstream.rs` | none | parse, declare | |

What is hard in each, and what makes it correct:

* **Admission**: six thresholds tested in a normative order, on a probability
  rounded to parts per million. No acceptance without its grounds; more support
  never weakens an answer; expiry is final.
* **Kernel**: histories. Trust and delegation never heal, so after an override
  only one of three rules still fires, and the answer must still follow the
  evidence. Suspension is exactly "accepted evidence nobody answered"; every
  change has an admitted cause; every answer names its ground.
* **Store and server**: a request is not atomic. Memory changes, then the file,
  then the client learns; any of these may fail or be the last thing the
  process does. The projection and the clock are cached in memory and must come
  back from the log. What clients were told must survive, and a restart must
  not be observable.
  To a client the server should look like a log that only grows.
* **Execution gate**: it looks at a file that another process replaces, and must
  allow exactly the decisions the log still supports.
* **Gateway**: several calls interleave with the control plane and the
  upstreams; every wait has a timeout that drops the reply and not the request.
  The control plane may die and is not started again; the gateway may die and
  be started again while tools run. A denied call must never run; a call runs at
  most once and only on its own ALLOW; what is reported must not contradict what
  happened.
* **Remote profile**: a check on the file before an operation in memory; a
  fixed-window counter at its boundary.
* **Experiments**: the life cycle of a hold (corroborated, expired, pending).

`PROJECT.json` lists the hazards with their lines and the properties aimed at
them.

## 2. Modules

```
Admission  <-- EvidenceSupport                (policy; one candidate over time)
    ^
Governance <-- R2RKernel                      (kernel as functions; driven)
    ^   \
    |    GovernanceRuntime --> EventStore     (server, file, recovery, gate)
    |      ^    ^      \
    |      |    |       ==> AuditLog          (what the server promises)
    |      |    RemoteAccess    RateWindow    (the remote profile)
    |      |
    |    GovernedGateway ==> Gateway ==> ExecutionGate
    |                                         (gateway over the real server; over
    |                                          a simple one; what a gate promises)
    |    GatewayStart                         (configuration and routing)
    |
AdmissionCompare    ThresholdCompare          (the experiments)
```

`A --> B` and `<--`: uses; `==>`: is shown to implement. The theorems about a
module are in a module of their own: `EvidenceSupportProofs`, `GovernanceProofs`
(lemmas about the kernel's operators), `R2RKernelProofs`,
`GovernanceRuntimeProofs` (with `RemoteAccess` and `GovernedGateway`),
`RateWindowProofs`, `GatewayProofs` (with `GatewayStart`),
`AdmissionCompareProofs`, `ThresholdCompareProofs`.

| Module | Models | State and actions |
|---|---|---|
| `Admission` | `src/admission.rs` | operators only: `Admit` with its tests in order, contexts |
| `EvidenceSupport` | one candidate re-submitted by its adapter, `src/model.rs` | probability, reliability, corroborators and time grow; `ProbabilityToPpm` converts, `Answer` is the policy's |
| `Governance` | `src/r2r.rs` | the kernel state as a record; `ObserveJudgment`, `HumanOverride` return the new state and an *admission*, which is also the event's provenance entry |
| `R2RKernel` | one kernel | `gov`, `provenance`; actions `Observe`, `Override` |
| `EventStore` | `src/store/memory.rs`, `src/enforcement.rs` | the store's contents as a record; `ValidateExecution` on it |
| `GovernanceRuntime` | `src/mcp/server.rs` over `src/store/json_file.rs` | memory (`domains`, `mem`, `fatal`), the file (`disk`), a recovery in progress (`cursor`, `replayed`), the request holding the lock (`call`), and what clients were told (`acks`) |
| `AuditLog` | the promise of the server | three logs, the answer `owed` and the answers `told`; no memory, file or failure |
| `ExecutionGate` | the promise of enforcement | per call a verdict and a run count; `Decide`, `Run` |
| `Gateway` | `src/gateway/service.rs` | a control plane of four variables, upstream, one handler per call, messages under way; `ControlPlaneDies`, `Die`, `ComeUp` |
| `GovernedGateway` | the gateway with the server as its child process | `Gateway`'s handlers and messages, `GovernanceRuntime`'s variables, and `working`: the request the server has in hand |
| `GatewayStart` | `src/gateway/config.rs`, `GatewayServer::start` | one start (`StartSpec`): `Load`, `Connect`, `ListTools`, failures; `Route` is what the tables mean for a call |
| `RemoteAccess` | `src/mcp/remote.rs` | `GovernanceRuntime` and the requests authorized but not yet under the lock |
| `RateWindow` | `src/bin/r2r-mcp-remote.rs` | the window and its clock; one action per status code |
| `AdmissionCompare` | `src/bin/admission-compare.rs` | both arms with their metrics, the set of pending holds, and the calls seen so far; `JudgedCall`, `Repair` read one row |
| `ThresholdCompare` | `src/bin/compare.rs` | both arms; one action per kind of row |
| `*Proofs` | | the theorems of section 4; their invariants and lemmas model no code |
| `MC*` | | model values and inputs for TLC |

How a request of the server maps to actions: `Observe`, `Decide` or
`RecordOutcomeOf` is the closure run under the lock up to the write (kernel,
projection, counters, record); `PersistOk` or `PersistFail` is the write of the
file; `Respond` is the second health check and the reply. `Crash` may come
anywhere between. `Open` and the actions of `Recover` are a start:
`RecoverEvent`, `PassOverEvent`, `RefuseEvent` and `PanicOnEvent` are the ways
one stored event may go, and `FinishRecovery` compares the versions.

How a gateway call maps: `Start`, then `AuthorizationArrives` or
`AuthorizationFails`, then `ResultArrives` or `ForwardFails`, then `Finish`,
which ends `record_outcome` however it ends; `PassEnds` is the pass-through of
control-plane tools. `HandleDecide`, `HandleObserve`, `HandleRecord` and
`RunTool` are the other side, which works off a request whether or not somebody
still waits, and `Lose` drops one. `GatewayServer::start` spawns the control
plane and nothing ever does so again: after `ControlPlaneDies` it answers no
more until `Die` and `ComeUp` have started the gateway over on the same store.
`Die` leaves every open call in the place `"lost"`.

How the two are composed: `GovernedGateway` takes the handlers, the upstreams
and the messages of `Gateway` as they are (`Handlers`) and lets
`GovernanceRuntime`'s operations take the requests up (`ServeDecide`,
`ServeObserve`, `ServeRecord`, `Refuse`), write (`Write`) and reply
(`Answered`). `Spawn`, `Recovers` and `ComeUp` are the next start, in which the
child recovers from its file.

Three refinements say that the simpler module may stand for the detailed one:

* `GovernanceRuntime!ImplementsAuditLog`. The logs of `AuditLog` are those of
  the *file*, so an operation takes place at its write, not in memory, and an
  operation whose write fails never takes place. An answer is `owed` from the
  write until it is told, or dropped by a crash. From it a reader may conclude
  that ids count up, that an outcome belongs to a decision and carries the
  version its domain had when it was recorded, that an answer follows from the
  observations before it, and that nothing is answered twice. The same
  promise holds behind the remote profile, since `RemoteAccess` implements
  `GovernanceRuntime` (theorem `RemoteImplements`).
* `GovernedGateway!ImplementsGateway`. `suspended`, `decision` and `outcomes`
  are read off the file again, `healthy` is "alive, serving and not failed", and
  a request in the server's hand counts as a message: before the write it is
  still the request, after it, it is already the reply. `Gateway`'s safety
  properties therefore hold of the gateway with the real server. Stating it
  corrected `Gateway`, which used to let a passed-through call take a reply that
  had arrived whenever there was one; its timeout may win.
* `Gateway!ImplementsGate`. What remains for the agent's environment: a tool
  runs at most once and only after its ALLOW (`ExecutionGate`).

How the remote profile maps: `AuthorizeDomainCall` and `AuthorizeDecisionCall`
are `authorize_request`, which reads the configuration and the file and takes no
lock; the request then waits in `inflight` until a `Dispatch...` runs the
server's action. Each program of the experiments runs its arms one after the
other over the whole trace; the arms share nothing, so the models take a row for
both.

Abstractions, all of them made on data: ids are numbers; the changes of one
event are a set, because the rules fire in a fixed order and each relation
changes at most once per event; `HashMap::entry(..).or_insert` is a total
function with the initial value; texts, tools, tasks and providers of judgments
are left out, as the kernel never looks at them; a version string is its
number; the contents of a JSON file are the store it decodes to. Requests that
are refused before any change (confidence out of range, unknown decision,
failed health check) are not actions: nothing changes. An operator named as a
*seeded fault* is not part of the model: it is a plausible bug that replaces
the definition after it, to see that the property named for it in
`PROJECT.json` fails.

## 3. Runs

| Run | Question | Bounds | Result |
|---|---|---|---|
| `MCEvidenceSupport` | Are the policy's thresholds, their order and the rounding before them right at every boundary? | both sides of each threshold and of its rounding, 3 corroborators, times 0 to 2 | holds, 13824 states |
| `MCR2RKernel` | Does the kernel's state follow its history? | 4 events, 9 judgments, 3 contexts | holds, 41371 states |
| `MCGovernanceRuntime` | Is what the server said durable, consistent, in order and unaffected by restarts, is it the simple log of `AuditLog`, and does the gate allow exactly what the log supports? | a new file, one with an event that has no input and two that cannot be served; 2 domains, 2 actions, 2 events, 2 decisions, 1 outcome, any number of failures and crashes | holds, 282600 states |
| `MCFailedStore` | Does the gate fail closed with the store? | 1 domain, 2 events, 1 decision | **violated** |
| `MCDamagedStore` | Does the start notice that all events of a domain are gone? | 1 file, 2 domains | **violated** |
| `MCGateway` | Is the gateway an execution gate, also across restarts, and is every call answered? | 2 gated calls, 1 observation, any number of deaths | holds, 157903 states |
| `MCGatewayTrail` | Does every gated call leave its audit trail? | 1 gated call, 1 observation | **violated** |
| `MCGovernedGateway` | Is the control plane of `Gateway` the one the real server provides? | 2 gated calls, 1 observation, 1 domain, 1 event, 2 decisions, 1 outcome, any number of failures and deaths | holds, 386889 states |
| `MCGatewayStart` | Can a call of a listed tool miss the gate or its owner? | up to 3 upstreams, 7 listings each | holds, 22172 states |
| `MCRemoteAccess` | Does a remote client stay in its domains, is a file that does not replay ever served, and do requests end? | 14 initial files, 12 of them damaged; 3 domains, 1 further event, 1 further decision, 1 outcome, 3 requests at a time | holds, 31070 states |
| `MCRateWindow` | Is the window's limit a limit, and a refusal deserved? | limit 2, window of 3 ticks, 7 ticks, 6 requests | holds, 290432 states |
| `MCAdmissionCompare` | Do the experiment's metrics mean what is read from them? | traces of 4 rows over 42 different ones | holds, 741857 states |

Why the bounds are enough. Within a server a domain's relations change at most
once (no request restores them), so two events per domain show before and
after, and two domains show that one does not disturb the other. The kernel can
also be overridden; four events reach suspension, override, re-suspension and a
second override. Crashes, failed writes and restarts are not bounded. A gated
call has one decision, one run and one outcome, so a second gated call can only
interfere through the control plane, which the model shares; the observation is
what suspends between the steps of a call. The composed run has room for both
calls' decisions, for one observation, which suspends, and for one outcome:
enough for a decision, an outcome and a suspension to meet in any order, each at
its own stage and with its own failure; a second outcome would differ from the
first only in its call, which the symmetry of the calls covers. It has only the
governed domain; that domains do not disturb each other is checked in
`MCGovernanceRuntime`, as is an observation that changes nothing. The server run
accepts the second candidate, the composed run the first; the kernel run has
both. In the composed run tool calls and observations are different calls
(`ObserversAssumption`), as in `Gateway`. `MaxEvents`, `MaxDecisions`, `MaxOutcomes`,
`MaxCorroborators`, `MaxTick`, `MaxInflight`, `MaxTime`, `MaxAnswers` and
`MaxRows` are the only bounds. Between its check and its use a remote request
meets requests that change the store before it, and three at a time let it meet
both an observation and a decision; six requests fill a window, the next and one
more; four rows hold, settle, suspend and repair.

The type invariants of `EvidenceSupport`, `RateWindow`, `GatewayStart` and
`AdmissionCompare` are proved (section 4) and not listed in the runs, which
spend their properties on the rest.

Deadlock is not checked: all systems here may stop, when the bounds are used up
or every call is answered.

**Fairness.** `GovernanceRuntime!FairSpec` makes the server work off the request
it holds (`Finish`), which is straight code without a wait. `RemoteAccess!RemoteFairSpec` says the same of the server
behind the remote profile, and `MCRemoteAccess` checks the liveness under it,
from every file; which waiting request gets the lock next is not promised.
Nothing obliges clients to call, writes to succeed, processes to stay alive or
anyone to restart them. `Gateway!FairSpec` makes
each handler proceed: every wait of it is under `tokio::time::timeout`, so its
next step comes with or without a reply; its death is its other way to end. The
agent, the control plane and the upstreams need not do anything. `MCGateway` is checked under it; fairness
changes none of its safety properties.

### What the violated runs show

1. `MCFailedStore`: the validate tool and `r2r-enforce` open the file afresh and
   so never see the `fatal_error` of the server that could not write a
   suspension. An ALLOW given before it validates. `src/enforcement.rs:92` and
   `SECURITY.md:70` promise failing closed.
2. `MCDamagedStore`: the start compares stored versions only for domains that
   had an event replayed (`src/mcp/server.rs:126`). A file that has lost all
   events of a suspended domain and kept its version is served; the domain then
   answers ALLOW, at the version of its suspension.
   `docs/verification-readiness.md:57` and `SECURITY.md:72` say the versions are
   checked. `MCRemoteAccess` checks the rest of the promise: over its damaged
   files, every domain with a replayed event is served in the state its events
   give, or the start is refused.
3. `MCGatewayTrail`: on a failed authorization the outcome is reported for
   decision `"?"`, which the control plane does not know, and it is dropped; so
   is a report that is lost (`README.md:280`, `README.md:283`).

Observations that no run states. The gateway forwards on `r2r_decide` and does
not validate the binding again (`src/gateway/service.rs:351`), so a suspension
between the decision and the forwarding does not stop that call;
`SuspensionStopsNewCalls` is what holds, and the validation `SECURITY.md:26`
describes is left to the tool behind the gateway. A forwarded call that timed out is
recorded as failed and may still run, since only its reply is dropped
(`src/gateway/service.rs:357`); `ImplementsGate` allows it, because it runs once
and on its own ALLOW. The admission experiment counts a hold that expired long
before as resolved by acceptance, because acceptance is tested first
(`src/bin/admission-compare.rs:184`); no document says which exit it should take,
and `HoldsAccountedFor` takes the code's order. It also counts the link for the
authorization when authorization is suspended already and nothing fires
(`src/bin/admission-compare.rs:211`).

The experiment's hypotheses hold in this form only: EA-H1 (admission relaxes) as
long as nothing was accepted below the baseline's threshold, and EA-H2 (no
enforcement is lost) as long as all that reached it was accepted. Without these
conditions either arm can be the stricter one, by inheriting a suspension the
other does not have.

## 4. Proofs

The theorems hold for every value of the constants: any sets of calls, domains,
judgments, rows and files, and any bound. All safety invariants and action
properties that the passing runs check are proved, and so are the refinements of
`AuditLog`, `Gateway` and `ExecutionGate`. Each argument is an inductive invariant, `IInv`
or a named part of it, that was model-checked before it was proved.

**Policy** (`EvidenceSupportProofs`). `EarningHolds` and `SupportHolds` prove
`AcceptanceIsEarned` and `SupportIsMonotone`. Both speak of the probability the
judge gave, the policy reads it rounded to ppm, so both rest on two facts about
rounding: it is monotone (`PpmMonotone`), and it crosses a threshold at most half
a ppm early (`RoundingAtThreshold`). `AdmitMonotone` then follows the order in
which `Admit` tests.

**Kernel** (`R2RKernelProofs`, lemmas in `GovernanceProofs`). `TypeOK` is
inductive as it stands; `AdmitType` says that the policy is total.
`SuspensionExplained` proves `SuspendedIffUnansweredEvidence`: an observation
that accepts anything leaves authorization suspended, one that accepts nothing
leaves the kernel's phases alone, an override leaves it active (`ObserveEffect`,
`OverrideEffect`); appending an entry then shifts the witness.
`NothingElseHealsHolds` follows from the same effects.
`RestoredOnlyUnderSupervision` is part of `IInv` as it stands: an override
creates the supervision when there is none, whether or not it lifts a suspension
(`src/r2r.rs:343`), and leaves it alone when there is one (`SupervisionHolds`). The properties about
causes, ids and grounds need `IInv`: the id counters count the provenance
entries and changes (`EntriesCounted`), which keeps ids unique (`IdsHold`); the
governing id is the latest authorization change and left authorization in its
phase, now and at each earlier answer (`AnswersGrounded`, for
`AnswersExplained`); `CausesHold` proves `ChangesHaveAdmittedCause`.

**Server** (`GovernanceRuntimeProofs`). The invariants build on each other:

* `IInv`: types; which memory, file and reply each state of the process goes
  with (`ProcessInv`): memory has grown from the file, is equal to it whenever a
  request may be taken, and holds what the reply in preparation says; what
  clients were told is in the file; a domain with a change in the log is
  suspended and so is its projection (`SuspensionKept`). It proves
  `AcknowledgedIsDurable` and `SuspensionIsHonoured`, and `FileGrows` follows:
  the action property `FileOnlyGrows`.
* `OrderInv`: whatever a client was told is accounted for by the counters and
  versions of the file, and the answer in preparation follows all told ones. A
  crash therefore only gives ids out again that nobody was told, which proves
  `AnswersInOrder` (`OrderHolds`) with `IInv` and for every initial file.
* `RestartInv`: the domains in memory are what the log rebuilds (`Rebuilt`),
  during recovery what its prefix before the cursor does. Together with `IInv`
  it proves `RestartIsInvisible` for logs of every length.
* `ReplayInv`: the log is reproduced by `r2r_replay`'s computation, entry by
  entry. It proves `ReplayMatches`, `ServedLogsReplay` and `OwnFileRecovers`.
* `RecordsInv`: ids are positions, versions count the changes of the domain in
  the log, each decision was made from a prefix of the log and quotes its last
  suspension. It proves `GateFollowsLog` and `DecisionsExplainThemselves`.
* `AuditInv`: a request between memory and file has appended exactly one entry
  and prepared the reply that tells it, and an accepted judgment is one the
  abstract log calls damning, whatever the clock says (`DamningAnyTime`).
  `ServerImplementsAuditLog` maps each step: a successful write is `Observe`,
  `Decide` or `RecordOutcome` of `AuditLog`, the reply tells, a crash drops, all
  else stutters.

`Replay` and `Rebuilt` are recursive functions of the length of a prefix, so an
appended entry changes them by one unfolding and leaves their values on shorter
prefixes alone. Where a proof needs an induction over a log it takes a least
counterexample instead (`LeastNumber`, from the well-foundedness of `<`), which
needs no operator as a parameter.

Four hypotheses about the initial files appear in theorems; the properties are
false of files that do not satisfy them.

* `Accounted`, for the replay properties: a domain whose version is not zero has
  an event that can be replayed. A file without it is served and its domain
  answers from nothing (this is the finding of `MCDamagedStore`); its first
  event then makes the next start refuse the file.
* `Recorded`, for the records: the file is as this server keeps it. A new file
  is (all counters zero and logs empty), every file the server writes is
  (`RecordsInvariance` says so of the file in every state), and so are the files
  `MCGovernanceRuntime` starts from.
* `Audited`, for the refinement: outcomes are of decisions of the same domain at
  a version it had, and the events with changes are those whose judgments this
  policy accepts. The same three groups of files satisfy it.
* `Unspent`, for the gateway over the server: `Recorded` and `Audited`, with no
  decision and no outcome yet and the governed domain at version 0. `Gateway`
  starts with nothing decided; a new file satisfies it, and `GovernedNext`
  contains every later start on the file that is then there.

**Remote profile** (`GovernanceRuntimeProofs`, `RateWindowProofs`).
`RemoteInvariance` adds to the server's `IInv` that a waiting request is about a
domain of the principal, or a decision that is in memory as it was in the file,
and that memory holds no more of a foreign domain than the file does. It proves
`ExplainedAreOwn`, `CheckedIsUsed` and `ForeignDomainsUntouched`, and
`RemoteImplements`: the server behind the profile behaves as the server alone
may, so the theorems above hold of it. The window's properties speak of any
minute and the code counts in one window; the invariant says that the count is
the number of requests served since the window started, and that what was served
less than a window before its start is at most the limit.

**Gateway** (`GatewayProofs`). `IInv` locates what is under way for each call:
where a call is tells what may have been sent and decided for it (`PlaceInv`),
what is under way agrees with what has been recorded (`MessageInv`: a call that
is still to be decided has no decision, one that is to run has an ALLOW and has
not run, a report is the only one and true), and so do the records with each
other (`RecordInv`). It proves `DenialIsFinal`, `OutcomesAreHonest` and
`SuspensionStopsNewCalls`, a property of every state after the suspension, and
`GatewayImplementsGate`, step by step. `StartInv` is about one start: at most one
upstream is marked, the owner of a tool is the only upstream listed so far that
offers it, and the catalog is those tools without repetition. It proves
`UngatedIsGovernance` and `CatalogIsRouted`.

**Gateway over the server** (`GovernanceRuntimeProofs`). Two invariants join the
server's to the gateway's messages. `GatewayInv` says who is asked for what, and
that nothing is asked twice: while a call's `decide` request is under way, no
decision is in the file for it. `PipeInv` says that the server has at most one request in
hand, has one exactly when its call is not `Idle`, and that memory, before it is
written, differs from the file by the one entry that answers this request
(`PreparedFor`); without it a successful write could not be read as
`HandleDecide`, `HandleObserve` or `HandleRecord` of `Gateway`.
`GovernedImplementsGateway` maps every step: the handlers and the upstreams map
to themselves, since a request in hand is neither visible to them nor changed by
them (`HandlersMap`, `UpstreamMaps`), a write to the handling of its request
whether it succeeds or fails (`WriteMaps`, with `DecisionWritten`,
`OutcomeWritten` and `OutcomesStay` for what can be read off the file), a
refusal to the handling it amounts to (`RefusalMaps`), deaths and a recovered
server to `Gateway`'s (`DeathsMap`), and everything else stutters
(`InvisibleSteps`). `GovernedIsServer` is the other side: behind the gateway the
server takes no step it could not take alone, so the theorems about the server
hold there as well.

**Experiments** (`AdmissionCompareProofs`, `ThresholdCompareProofs`). The rows of
both arms have one form (`RowEffect`), which shows `BooksBalance` and both
hypotheses. `HoldsAccountedFor` compares the counters, kept row by row, with the
exits the whole trace gives its holds: a new call ends exactly the holds of its
incident that the code removes, since it is the first to end an open one and
later than what ended the others (`ExitsGrow`); rows name calls, so the pending
holds are as many as the open calls (`HoldsAreCalls`). In the
threshold experiment one row adds one to the same counter of both arms or, when
the call inherited its suspension, to different ones: the errors of the two arms
differ by the inherited calls, for scenarios of every length. `ThresholdCompare`
is small enough to be proved and has no run.

Assumed of the constants, each checked by TLC on the runs' values, is only what
the code provides. Scores and reliabilities are ppm (`JudgmentsAssumption`,
`PpmAssumption`: out-of-range requests are refused), contexts are valid
(`ContextsAssumption`: `AdmissionContext::new` asserts it), probabilities are
numbers (`ProbabilitiesAssumption`), initial files decode to a store
(`FilesAssumption`), rows do not expire before they are observed
(`RowsAssumption`), limit and window are positive (`LimitAssumption`,
`WindowAssumption`), the governance tools are tools and a configuration is a
sequence of upstreams (`ToolsAssumption`, `ConfigsAssumption`), gated calls are
not pass-through ones (`CallsAssumption`), a domain has a subject and a scope and
those the principal may name exist (`DomainsAssumption`,
`OwnDomainsAssumption`), and the bounds are natural numbers.

Model-checked only: the liveness properties (`EveryCallAnswered`,
`RequestsEnd`), which with fairness and ENABLED are out of the prover's reach,
and the three violated properties.

## 5. Not modelled, and why

* `r2r_replay` over the remote profile: it passes the check of `r2r_decide` and
  changes nothing; what it answers is `Replay`.
* A `tools/list` that never answers: the code does not bound it, and
  `GatewayStart` simply stops there; that a start ends cannot be claimed.
* Token comparison, the bind address and sessions of the HTTP transport.
* A server without a file (`MemoryEventStore` alone): the same server with a
  write that always succeeds and no restart.
* A gateway without a control plane: `authorize` fails at once and every call
  is denied, which `AuthorizationFails` shows; its record step does nothing.
* What an agent sends to the control plane's other tools through the
  pass-through (its own decisions and outcomes): its word, recorded as such.
  `OutcomesAreHonest` is about the gateway's reports.
* Two servers on one file: `SECURITY.md:62` excludes it. In `GovernedGateway` the
  child dies with its gateway, or has read the end of its input, before the next
  start opens the file; a child that outlived its gateway would be a second
  writer.
* Power failure below the file system: a crash is the death of the process.
* `explain` reads one decision; `DecisionsExplainThemselves` is about what it
  reads.
* The order in which the lock is given to waiting requests, and starvation.
* The demo's acts are behaviours of `R2RKernel` and its conversion is in
  `EvidenceSupport`; the HTTP judge and the printing keep no state.
* Printing, parsing, schemas, HTTP, the job object that kills children on
  Windows, the mock upstream.

## 6. Plan

Done: every component that keeps state has its module; the promises of the
server (`AuditLog`), of enforcement (`ExecutionGate`) and of the control plane
as the gateway sees it (`Gateway`) are refined by the modules below them. No
module is planned beyond these.

Next theorems: of `AuditLog`, that a told CHANGED is never followed by
a told ALLOW of the same domain, which `ServerImplementsAuditLog` carries over
to the server and `RemoteImplements` to the remote profile; of `ExecutionGate`,
that a tool that ran was allowed.
