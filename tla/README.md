# A verification development for kube-ai-scaler

kube-ai-scaler is a Kubernetes operator: for every `AIScaler` policy it observes
a Deployment, asks rules, KEDA and an LLM for a replica count, resolves their
answers, and patches the Deployment. This directory holds a TLA+ model of that
loop, the configurations TLC checks it with, and theorems TLAPS has checked.

                                        ScalingContract
                                              │
    Precedence ── Guardrails ── Reconciler ── ReconcilerProperties ─┬─ MCReconciler ─┐
                      │                              │              └─ Rollbacks ────┴─ MCRollbacks
                  Convergence       GuardrailProofs ─┴─ ReconcilerProofs    │
                      ├─ MCDecision                        ├─ CopyProofs    │
                      └─ ConvergenceProofs                 └─ DecisionProofs (with Rollbacks)

    Advice ── Router ── MCRouter            Signals ── Alerting ── AlertingProperties ── MCAlerting
                 └───── RouterProofs                                       └── AlertingProofs

    Resources ── ResourcesProperties ── MCResources
    ResizeContract ────────┘    └── ResourcesProofs

## 1. The system

### Components

| Component | State it keeps | Operations | What makes it correct |
|---|---|---|---|
| Reconcile loop (`internal/controller`) | one `reconcileState` per call; the `AIScaler` object in the API server and in the informer | 17 steps, `persistStatus`, `releaseCoordination` | cooldown, finalizer, bounds; no lost wakeup; user edits survive |
| Precedence resolver (`internal/decision/precedence.go`) | none | `Resolve` | the strongest layer decides, ceiling lowers, bounds last |
| Validators (`validator.go`, `asymmetric_validator.go`) | none | `Validate`, `ValidateAsymmetric` | step limit, bounds, approach to the target |
| Oscillation detector (`oscillation.go`) | ring of events, process-wide | `Record`, `IsOscillating` | thrashing leads to a hold; the ring is bounded |
| Rollback (`rollback.go`, `selectRollbackRecord`) | reads the audit records | `CheckForRollback` | goes back only to a count the workload had |
| Reactive rules, SLOs (`reactive.go`, `slo.go`) | none | evaluation of a signal bundle | they judge what the services report; a breach is not made worse by scaling down |
| Budgets (`internal/cost`) | none | `Estimate`, `Check`, `computeCostCeiling` | a hard limit is not exceeded by scaling up |
| Approval (`internal/approval`) | none | `NeedsApproval` | a change that needs a human is held |
| Coordinator (`internal/coordinator`) | active operations, process-wide | `AcquireScalingSlot`, `ReleaseScalingSlot`, `ShouldDefer` | slots never leak |
| Horizontal actuator (`actuator.go`) | the Deployment's count | `Apply` | only the target, only within bounds, never in a dry run |
| Vertical actuator (`vertical_actuator.go`) | the first container's resources | `Apply`, `ValidateVerticalChange` | only within the constraints, only in a live mode; others' fields survive |
| Audit store (`internal/audit`) | a ConfigMap per workload | `Store`, `List` | the newest records stay |
| Signal plugins (`internal/plugin`, thirteen kinds) | none | `Collect` | a required failure ends the cycle; a bundle holds what this cycle collected |
| Alerting (`internal/alerting`) | pending alerts, process-wide, by rule name | `Evaluate`, `Notify` | an alert fires after its duration, and then does |
| LLM router (`internal/llm`) | response cache, circuit breakers | `Decide` | an answer, or a failure somebody else's opinion may replace |
| Notification, feedback, prediction, FinOps, node context, metrics | counters, maps, texts | reports and prompt text | outside scaling decisions |

### Interaction

There is one worker (controller-runtime's default), fed by a work queue. The
queue is filled by watch events of `AIScaler` objects, by `RequeueAfter` timers
and by rate-limited retries. Reads go through the manager's cached client, so
they may be old; writes go to the API server, which refuses an update made from
an old `resourceVersion`. Deployments are patched with a forced server-side
apply, which no version guards. Oscillation detector and coordinator live in
memory and disappear with the process; status, audit records and Deployments
stay.

### What is hard here

* The Deployment is patched first and the `LastScaleTime` is stored afterwards:
  conflicts, failures and restarts fall between the two.
* Holds ask for the count in the Deployment's *status*, patches change its
  *spec*, and a rollout lies between them.
* Early returns: a reactive rule skips the SLOs, a deferral skips the patch but
  not the status that claims it.
* Every exit must requeue or wait for an event that surely comes.
* The policy may be edited or deleted between any two steps.
* The resources of a container are read before the LLM is asked and patched after
  the count was; server-side apply merges them with what others own.
* A signal that is not there reads as 0: rules, objectives and alerts cannot
  tell a silent service from a calm one.

`PROJECT.json` lists these hazards one by one, at their lines, with the
properties that watch them.

## 2. The plan

1. `Precedence`, `Guardrails`: the pure decision functions. *Done.*
2. `Reconciler`: the loop with its environment; properties, runs. *Done.*
3. Proofs: types, cooldown, finalizer, step limit, conform patches. *Done.*
4. `Coordinator`: slots with their five-minute expiry and several workers, and
   an abstract lock it implements; rollouts that overlap.
5. `Router`: fallback, circuit breakers, response cache with its key and TTL,
   and the promise `Advice` it implements. *Done.* Left: `FetchDecision` with
   `Advice` in place of any answer, for policies that share a cache key.
6. `AuditStore`: get, create, update and prune of the ConfigMap by time stamp,
   shown to implement the newest-first list `Reconciler` uses.
7. `Resources`: vertical scaling, with the failure between the two patches, and
   the contract it implements. *Done.*
8. `Signals` and `Alerting`: plugins, verdicts and alert rules. *Done.*
9. `ScalingContract`: an abstract specification of the loop, by what is stored
   and nothing of the worker, and the refinement. *Done.*
10. Theorems for the other safety and action properties: optimistic writes,
    slots, approval, objectives, budget, thrashing, rollback, verdicts and
    alerts, precedence, and the step simulation of 9. *Done.* Left: what 4 and
    6 bring.

## 3. Modules

**Precedence** – `PrecedenceResolver.Resolve`. A layer is a name, its wish an
integer or `NoTarget` (a nil pointer). The list the code builds becomes `Rank`:
three flags move three layers behind the LLM, in reverse order.

**Guardrails** – validators, reactive counts (in wrapped int32), rollback
conditions and candidates, oscillation ring, budget and ceiling, approval
triggers. Floats become integers in a unit (tenths of confidence, per mille of
errors, cents), and a comparison of quotients becomes one of products, so
`CostCeiling` and `OverBudget` are exact.

**Convergence** – these functions, iterated: each step is a cycle whose layers
want the same as before, and whose Deployment has reached the count validated in
the cycle before. It keeps the list of layers as `Resolve` appends it (`Order`),
to compare the ranks with.

**Reconciler** – one action per step, in the code's order:

| Step | Action(s) |
|---|---|
| Get from cache | `Dequeue` |
| `ensureFinalizer` | `ReleaseFinalizer`, `RejectSpec`, `AddFinalizer` |
| `checkCooldown` | `CheckCooldown` |
| `collectSignals`, `enrichContext` | `CollectSignals` (the second only adds prompt text) |
| `fetchDecision` | `FetchDecision` |
| `checkOscillation`, `checkRollback` | `CheckOscillation`, `CheckRollback` |
| `resolveTentativeDecision` | `ResolveTentative` |
| `estimateCost`, `checkApproval` | `EstimateCost`, `CheckApproval` |
| `resolveFinalDecision`, `validateDecision` | `ResolveFinal`, `ValidateDecision` |
| `checkCoordination` | `CheckCoordination` |
| `actuate` | `Actuate` |
| `evaluateAlerts`, `recordAudit` | `RecordAudit` (alerts only notify) |
| `updateStatus` and every other status write | `PersistStatus` |

`obj` is the worker's copy, `cyc` the rest of `reconcileState`, `api`, `cache`
and `synced` the stored object, the informer's copy and whether they agree.
`fresh` says that the worker's copy is still the newest version; it is cleared by
a user's write and tells a stored update from a refused one. Versions
themselves need no numbers: only equality of copy and store matters.

A time stamp is an *age*: `Tick` makes all ages one older until `MaxAge`, which
also stands for "long ago" and "never". A timer counts down. Ages keep the state
space finite without bounding the run of time.

The environment: `SyncPolicy` and `SyncDeployment` (informers), `Rollout` (the
Deployment controller moves status towards spec one pod at a time),
`TimerFires`, `Tick`, `EditSpec`, `DeletePolicy`, `ScaleExternally`, `Freeze`
(users), `Restart`, and a failing call inside a step (`CallFails`). Users and
failures are bounded by `MaxEdits` and `MaxFaults`, and nothing else is.

When the answer to a patch or a status write is lost, the write may have happened
or not; both outcomes are there. `since` and `stamped` are history variables that
no action reads: the age of the last change made for a policy, and whether a
`LastScaleTime` stored after it covers it.

The audit records are kept in a ConfigMap per workload that is read through the
same cached client: `audit` is what is stored, `auditSeen` what the informer
shows, `auditSynced` whether they agree. `RecordAudit` from an old copy is
refused and the record is lost; `SyncAudit` brings the copy up to date.

The finalizer and the verdict on an invalid spec are stored by writes whose answer
may be lost as well (`FailUnanswered`): the object has changed, and the cycle fails
with a copy that is no longer the newest.

**ScalingContract** – the loop without worker, queue, informer and memory: the
stored policies, the counts of Deployments, and for each policy the versions the
operator may still act on. Those are what a cached client amounts to: a stored
version enters the set, none comes back to it, and the operator may scale by any
member that asks for it and has cooled down. The mapping (`ReconcilerProperties`)
takes from an object what the contract speaks of (`Version`: spec, life, finalizer,
age of the `LastScaleTime`), and for `readable` the stored object, the informer's
copy and the worker's own while it has one (`Readable`).

**Rollbacks** – the same loop with history: `had`, the replica counts each workload
has reported, and `written`, the records that the audit store has taken, cut to its
size. Records are written from what a cycle read and validated, patched or not, so
that a rollback leads back to a count the workload really had is no matter of
`selectRollbackRecord` alone: it needs the count at every step from the informer to
the record and back (`RollbackGrounded`), and the newest record to be the one that
survives pruning and is chosen (`UndoesTheLatest`).

**ReconcilerProperties** – types, safety, action and liveness properties, and
at its end what the documentation says and the code does not do.

**Router**, **Advice** – `Router.Decide`: the cache is looked up (`Hit`,
`Miss`), the primary's breaker allows or refuses (`Ask`, `Refuse`; `Measure` is
the metric that reads the state once more and may turn an open breaker
half-open), the provider answers or fails, and a provider without an answer
leads to the fallback or to an error (`Onward`). A provider that is missing from
the configuration has no breaker and always fails. One Decide runs at a time,
as there is one worker, and time passes between its steps. Breakers count up
to their threshold: the code compares the count with nothing else. `Advice` is
what a caller sees: the reply to a request is an answer given for the request's own
key, within its TTL, or learnt when nothing is known. `served` (the request that the
last reply was for), `health` and `excused` are history variables; the mapping takes
`Advice`'s key from `served`, so a reply out of another key's entry is no step of it.

**Resources** – the vertical half of the same cycle, with the horizontal half
reduced to any validated count:

| Code | Action(s) |
|---|---|
| `readCurrentResources`, called by `enrichContext` | `Observe` |
| `fetchDecision`, `buildVerticalDecision` | `Consult`; `DecideAlone` and `NoDecision` without the LLM |
| `checkCoordination` with `hasVerticalMutation` | `Granted`, `Deferred` |
| `Actuator.Apply` in `actuate` | `Scale` |
| `VerticalActuator.Apply`, rest of `actuate` | `Resize`, `NoResize` |
| `persistStatus` | `Persist` |

An amount is a small number and 0 the zero quantity, which the code reads as "not
set". Server-side apply is external: `ours` and `theirs` are the fields that the
owner `aiscaler-vertical` and others hold, `Merged` what the server makes of a
forced patch, and the server refuses a request above its limit (`Acceptable`).
The user edits fields or scales (`UserResizes`, `UserScales`), the LLM changes
its mind (`ThinkAgain`), the informer lags (`SyncDeployment`), and a call fails
with or without effect, or the process starts again (`Restart`). `found`, `left`, `shrunk` and `written` are history.

**ResizeContract** – what a user who enables vertical scaling may rely on:
besides edits, the container changes only in a live mode, to a complete answer
within the constraints, and a limit left out is kept or removed.

**Signals** – what each kind of plugin writes into the bundle, what it may miss
in silence, and when it returns an error (`Outcomes`), signal by signal: metrics-server
computes CPU and memory apart, and either is 0 when no container requests it
(metrics_server.go:106–111); each of the two attributes of an SQS queue is 0 when it is
missing or no number (aws_sqs.go:74–75), and the depth and `sqs_target_ratio` are made
of what is left; an allocation without a field costs 0. And how objectives,
reactive rules and alert conditions read it: two vocabularies for the same
signals (`ResolveMetric`, `AlertValue`). **Alerting** – `Begin` and `Collect` run the
plugins one by one while the services `Move`, `Judge` evaluates rules and
objectives, `EvaluateAlerts` the alert rules; a cycle may end before that
(`EndEarly`), and `Restart` forgets the pending alerts. `active` holds ages where
`Evaluator` holds time stamps. `lost`, `got`, `moved` and `since` are history. What
lies between `Judge` and the alerts is `Reconciler`. `Readings` says what a bundle
may hold of a signal: nothing but what the services report, unless no plugin of
the policy reads it (0) or the one that does lost it (0, or what it makes of the
part it read: Kafka sums the lag over partitions and skips those it cannot
read, kafka.go:108–112, and SQS adds the attribute it could read to 0). Two services that write the same custom metric and
report different things have no common truth; `Agrees` leaves them out, and
section 4 lists them.

**MCReconciler**, **MCRollbacks**, **MCDecision**, **MCRouter**, **MCResources**, **MCAlerting** – instances. `SerialSpec` in
`MCReconciler` holds the environment still while a reconcile is in progress. The
run `decisions` uses it, because a decision reads the world in one step and
depends on nothing that changes later. `PromptHistorySpec` (of `MCRollbacks`, with `Prompt`), for the run `memory`, also
lets due timers and the informers of policies and Deployments go first, that of
ConfigMaps catch up between cycles, and keeps failures to the two steps that use the
audit records and to restarts. Runs about interleavings use `Spec`.

Operators whose comment begins with "A fault variant" are plausible mistakes in
the definition that follows them. Nothing uses them; each one breaks a property,
which shows that the property can fail.

## 4. What the runs show

| Run | Question | Bounds, and why they are enough | States |
|---|---|---|---|
| `core` | cooldown, finalizer, slots, patches, optimistic writes under all interleavings | one policy (what policies share is switched off, or a single slot), one intervention of a user (edit, deletion, scaling, freeze), one failing call or restart, live, invalid and dry-run specs; external counts 0 and 4 lie outside the bounds 1–2 on both sides: each property relates one interference and one failure to one scaling | 2.7 M |
| `decisions` | step limit, approval, SLO, hard limits | SLO breach, KEDA, a rule and two LLM answers (one below minConfidence) in all combinations against ten specs; counts 0–3, so that step 1 is a proper limit; costs 2 and 4 change between cycles; hourly, monthly and both; a Deployment at 0 | 7.7 M |
| `memory` | event ring, thrashing, audit, rollback to a real count and of the latest scaling | ring 3, audit 2: both overflow; counts 1–3 with a rollout between them, error rates rise and fall; up, rolled back and up again is the thrashing; the audit informer lags and one audit call fails, or the process starts again between two cycles (a failing metrics plugin, which makes the count 0, is left to the theorem) | 3.2 M |
| `live` | deletion and evaluation happen; the loop keeps `ScalingContract` | one edit or deletion and one fault anywhere, cost tracking on (the audit steps never end a cycle, so they are left to `memory`); for the contract this is one version being replaced while one write goes wrong (no dry run and nobody else scaling, which the theorem adds) | 92 k |
| `converge` | constant advice is reached | from below and above the bounds, cooldown 1 of `MaxAge` 2, a target two steps inside the bounds; audit records are stored meanwhile, through an informer that may lag | 0.41 M |
| `decision` | the pure functions over inputs | all wishes of up to three layers, all flags, three ceilings, four specs (one with both directions alike, one with unlike ones); iterated from counts inside and outside the bounds | 0.1 M |
| `router` | rest and probing of failing providers, deserved failures, the promise of the cache | two configured providers and one unknown, requests with and without fallback, a policy edited while its answers are held, two keys with a limit of one entry, so that eviction meets fresh and expired entries; threshold 2, timeouts 2, ages to 3, so that each boundary has both sides | 55 k |
| `resources` | contract, slot, status and stamp of a resize; the loop settles | one user's edit or change of mind, one failing call or restart, three amounts, two counts; a live policy whose bounds differ for CPU and memory, a dry run, recommendations only, none; answers that are roomy, without limits, out of bounds, malformed: each property relates one interference to one cycle | 0.79 M |
| `signals` | verdicts and alerts against what the services report, alerts that fire | three policies with plugins of every kind between them, signals lost one by one, one fault (failure, silence or restart), one change of what a policy's services report, between its cycles or during one, an alert name that two policies share (twice in one of them) and one of its own; durations 1 and 2 of `MaxAge` 2 | 56 k |

The other runs each state one sentence of the repository and show a
counterexample:

* `cooldown_lost` – plan.md:93. Nothing fails in this run; a user edits the policy
  once. In the trace the edit comes while a cycle runs: its patch is made, its status
  update is refused as a conflict, and persistStatus gives it up with the
  `LastScaleTime` in it. The informer catches up, and the next cycle, from the newest
  version, scales inside the cooldown. `CooldownHolds` is what remains true: it demands
  that the cycle started from the newest version and that the time was stored.
* `breach_ignored` – README.md:58. A reactive scale-down wins over an SLO breach.
  `SLOProtected` is what remains: once the objectives have been *evaluated*.
* `approval_reverts` – README.md:57. A held decision patches the Deployment back
  to what its status reported.

Some more divergences are in the model as the code has them, without a run of
their own: a direction policy lifts `maxScaleStep` (validator.go:33 against
asymmetric_validator.go:44; `StepBound` is about the other policies),
oscillation.go:45 speaks of three direction changes where line 70 counts two, and
a frozen Deployment is scaled when its annotations cannot be read and the plugin
is optional (plan.md:123 against plugin/manager.go:116). Two more: plan.md:1571 asks
for "a fresh model call" in every reconcile where router.go:125 replays a cached
answer, even one given before queue depth, bounds or annotations changed (cache.go:63–76); and
config/rbac/role.yaml grants nothing on ConfigMaps, so with those manifests every
audit call fails, which `CheckRollback` and `RecordAudit` survive.

* A deferred change is stamped as a scaling: `persistStatus` stores
  `LastScaleTime` whenever the validated count differs from the reported one,
  although nothing was patched, so the cooldown delays the retry
  (`Resources.Stamped`; aiscaler_controller.go:1213).
* A provider that accepts a call and never answers is waited for without end:
  router.go:246 sets no deadline, and plan.md:1567 expects a fallback.
* `maxCPUStepPercent` and `maxMemoryStepPercent` (aiscaler_types.go:201–202) are read
  nowhere: `ValidateVerticalChange` checks minima and maxima only
  (`Resources.Within`). A list of containers (plan.md:733) is not read either;
  every patch is for the first one.
* A resize is not held back: approval, safety and oscillation holds change the
  count, and `actuate` applies the vertical decision beside it.
* A limit that a decision leaves out is removed if an earlier patch set it, and
  `status.currentResources` still lists it (`StatusTruthful` names the exceptions).
* Alert rules know `cpu` and `memory` where objectives know `cpu_utilization` and
  `memory_utilization`, count errors in percent, and read `p99_latency` as 0;
  objectives take the p95 latency for it.
* Several plugins write `queue_depth`, and the last one wins; an empty Prometheus
  result overwrites what another plugin measured with 0.
* Pending alerts are kept by rule name for the whole process (evaluator.go:50), so
  rules of one name, of one policy or of several, age and clear each other, while
  aiscaler_types.go:161 promises the "Duration the condition must hold before
  firing". `AlertsTrue` is about all names: after an evaluation its own signals decide
  what is pending, whatever another policy left. `AlertGrounded` and `AlertsFire`, which
  are about time, leave shared names out (`Alone`).
* Every complete cycle writes an audit record of what it read and validated, patched or
  not, and a record that meets an old copy of its ConfigMap is lost (store.go:58): a
  rollback may then undo an older scaling than the latest one made. `UndoesTheLatest` is
  about what was written, and about cycles whose copy of it is not old.

### Deadlock

No run switches deadlock checking off: `Tick` is always possible, as time
is, and in `Resources` the informer can always look again.

### Fairness

`FairSpec` assumes weak fairness of the worker (the process runs), of informers,
timers and the Deployment controller, and of time; and strong fairness of
`Dequeue` for each policy, because the work queue is first-in first-out while a
policy may leave and enter it. No fairness is assumed of users, of failing
calls, of restarts, or of any particular plugin or LLM answer. Retries with
back-off are timers of length 0 that fire some time later.

The router's `FairSpec` assumes weak fairness of time and of a Decide in
progress and strong fairness of Decide for each
request, which is what `NeverForgotten` says of the loop. That a provider's call
ends is an assumption about the providers, and `FetchDecision` of the loop rests
on it too: the code sets a timeout on its calls to Prometheus, OpenCost and the
webhooks, but none on the LLM (router.go:246). Whether a Decide hits
the cache and what providers answer is not assumed.

`Resources` assumes weak fairness of the worker and the informer, and strong
fairness of `Consult` and of `Granted` with a wish: the LLM is heard again and again,
and the coordinator does not defer for ever, which for one worker is
`SlotsReleased`. `Settles` then says that the loop needs no memory of what it
applied. `Alerting` assumes weak fairness of worker and time, and for each policy
strong fairness of `Begin` (`NeverForgotten`) and of reaching the alert rules:
without it the code promises no alert, as a cycle in its cooldown evaluates
none. Nothing is assumed of users, services, failures and restarts, whose number
is bounded in the runs.

## 5. What is proved

All theorems are for every value of the constants that satisfies the assumption
of their module. For the loop these are `ReconcilerAssumption` (constants have
their types, the requeue delays are at least one tick and at most `MaxAge`),
`MaxIntAssumption` and `NoTargetAssumption`: any number of policies, any specs,
any bounds on edits and failures. Every safety invariant and every action
property of the passing runs is stated by a theorem.

* **Guardrails** (`GuardrailProofs`). `Winner` exists and has the least rank, so
  safety decides when it speaks and the others in their turn; `Resolve` returns
  the count within bounds that is nearest to what was asked for, under the ceiling;
  both validators return a count within bounds and never move away from the
  decision or past it; the symmetric one moves a count in bounds by at most
  `maxScaleStep`, and passes a hold and a floor; the two agree where
  their steps do. `CostCeiling` is a count both budgets pay for, or `minReplicas`. As
  time passes a detector that shows no thrashing shows none later: events leave the
  window oldest first, so direction changes can only get fewer.
* **Precedence as a list** (`ConvergenceProofs`). `OrderDecides`: the ranks pick the
  first speaking layer of the list that `Resolve` appends, for all flags and
  wishes. The argument follows the appends: the list is sorted by rank as long as
  each layer appended ranks below what is there (`Sorted`, `AppendSorted`,
  `WhenSorted`), and in a sorted list that holds all layers the first to speak is the
  winner (`FirstSpeakerWins`). From the guardrail theorems follow `ValidatorsAgree`
  and `GoalsAreApproached`.
* **Types** (`ReconcilerProofs`). `TypeOK` is not inductive: that
  `cyc.validated` is a number when `Actuate` uses it depends on how far the cycle
  is. `TypeInv` adds `Progress`, which ties the fields of `cyc` to `pc`, and is
  inductive; one lemma per action.
* **Slots** (`ReconcilerProofs`). `SlotsAreReleased` needs `IdleHoldsNothing`:
  every exit goes through `Return`, which gives the slot back.
* **Cooldown** (`CopyProofs`). `CooldownHolds` follows from `CooldownInv`:
  the stored `LastScaleTime` of a covered change is at most as old as the change
  (`Covered`), a synced informer agrees with the store (`InformersAgree`), a cycle
  that is still fresh or began synced has a copy as young as that
  (`CopyWasCurrent`, `CopyCovered`), and after `checkCooldown` the copy was old
  enough (`CooledDown`). Ages on both sides of each comparison grow together.
* **Finalizer** (`CopyProofs`). Past `ensureFinalizer`, the copy has a
  finalizer; the stored object has had it since and can only lose it in
  `ReleaseFinalizer`, which the one worker is not running. `FinalizerInv` says it
  for the store, the informer and the copy.
* **Optimistic writes** (`CopyProofs`). `UsersAreRespected` rests on
  `FreshContent`: a copy that is still the newest version has the spec and the
  `LastScaleTime` of the stored object, and `FinalizerInv` says the like of its
  deletion mark, so a write that is accepted takes nothing back. That is what `resourceVersion` is for, and the proof needs `fresh` to be
  cleared by each write that is not the worker's own.
* **Contract** (`CopyProofs`). `ContractIsKept`: `Spec` implements
  `ScalingContract`. `ContractInv` puts the invariants above together with
  `CopyLives` (a copy in use was made of a policy that exists, and past
  `ensureFinalizer` it is live and has the finalizer), and there is one lemma for
  each kind of step. An accepted write is the contract's write because the
  worker's copy then equals the stored object (`Wrote`); a patch is `Scale` of the
  worker's version, for which each conjunct is one of the invariants:
  `CopyKept` (the policy still exists), `CopyLives`, `CooledDown`, and
  `DecisionInv` with the validators (the bounds). Reading (`Dequeue`, `SyncPolicy`,
  `Restart`) brings no version that was not readable or stored (`ReadsKept`).
* **Decisions** (`DecisionProofs`). `validated` is the validators' result for the
  decision and count still in the cycle, and the spec past `ensureFinalizer` is
  valid (`DecisionInv`): `StepBound` and the action property `PatchesConform` follow
  from the lemmas about the guardrails.
  * `OpinionInv` says who may have spoken at each step: nobody before
    `checkOscillation`, nobody for the schedule, and a human only for the present
    count. With it, `ApprovalsAreHeld`: only safety outranks the hold.
  * `PriceInv` follows the cost: what `estimateCost` saw of the tentative decision
    is still the tentative decision when the final one is made, so there is a ceiling
    or the tentative decision is paid for. From it `BudgetIsHard`: only a human's hold
    comes between the two resolutions, and it does not move the count. With the
    layer's demand for the higher count it also gives `BreachesAreProtected`.
  * `SafetyInv` follows the memory: the events of the detector are in the order of
    their time, the informer's copy of the audit records is at most one behind the
    store (`AuditLag`), and what safety says is a hold or a recommended rollback. From it
    `ThrashingIsHeld`: past three recent scalings that change direction twice, without
    a cost ceiling and from within the bounds, the validated count is the present one unless safety asked for another, and then it
    lies between the two and safety's count is the one before a listed live
    scaling to the present count (no other layer may scale, whatever the records say). It
    has the hypothesis `ListLimit < AuditSize`: the code lists 5 records
    (aiscaler_controller.go:648) and keeps 50 (cmd/main.go:257). With equal
    numbers it is needed: the record of a scaling can then push the one it is
    compared with out of the list. (The run `memory` keeps two records, which overflow,
    and its informer of ConfigMaps catches up between cycles; the theorem needs
    no such promptness.)
  * `HadInv` follows a count through the system, under `HistorySpec`: what a Deployment
    reports, or its informer shows, it has had (`WorldKnown`); so has the workload of
    each record, in the store and in the copy (`RecordsKnown`); so has the cycle's
    count, or it is the 0 of a failed metrics plugin, and what safety asks for
    (`CycleKnown`). `RollbacksAreGrounded` is the last part, for any lists,
    restarts, lost records and counts that others set.
  * `Mirrored`: the stored records are, place by place, the last ones written. Both
    drop their oldest at the limit (`NewestKept`). With `AuditLag` and the choice of the
    first candidate it gives `LatestIsUndone`.

* **Router** (`RouterProofs`). From `RouterAssumption` (finite timeouts, ages
  counted beyond them, `Nothing` unlike everything else), for any requests,
  providers, thresholds, TTL and cache size: types; `BreakerSound`, which is
  inductive because a breaker's count and age move with its provider's history;
  `RestRespected` from it, as a half-open breaker has rested; and with
  `InProgress` (the key of the request in progress is not held, and a provider
  left behind failed or had to rest) `FailureDeserved` and the refinement
  `PromiseKept`, one lemma for each kind of step. The promise ties the reply to the key of
  the request it is made for: an answer out of another key's entry would be no step of
  `Advice`.

* **Resources** (`ResourcesProofs`). From `ResourcesAssumption` (types; `Nothing`,
  `Blank` and `Garbage` are not amounts or counts; the first container is one the server
  accepts): `ResourcesInv` adds to the types what the cycle knows at each step
  (`Progress`): a wish is a complete answer, a change without a slot was no change
  against what was read, and after a resize `left` is the wish over `found`
  (`Applied`). `PatchFacts` says what the server's merge does field by field. From
  these follow `SlotCoversResize`, `StatusTruthful`, `ScalingBooked`, and with
  `ContractStep` the refinement `KeepsContract`.
* **Alerts** (`AlertingProofs`). From `AlertingAssumption` (rules are sequences,
  durations are ages): `AlertGrounded` is not inductive; `Grounded` is: the
  entry under a name that one rule owns is never older than the condition has
  held. Restarts and early ends only make the entry younger. Rules that share a
  name need `LastIsRule` (the last of a finite list exists) for the types.
* **Signals and verdicts** (`AlertingProofs`), for any plugins, worlds, rules and
  objectives of `AlertingAssumption` (each plugin is of a kind the registry has,
  and reads what the others of its policy read under the same name). Each outcome
  of each kind is `Faithful`: it writes only what the kind provides, and whatever it
  does not count as lost is the report. So, plugin by plugin, the bundle holds
  `Readings` (`BundleTrue`), the verdict is the one on that bundle (`VerdictInv`),
  and what the evaluators make of a metric name is what `Readings` has for it.
  From `SignalInv` follow `SignalsAreTyped`, `VerdictsAreTrue` and `AlertsAreTrue`, the
  last for names that rules share as well: of the rules of one policy with one name the
  last decides, whatever another policy left under it.
  The proofs are why `Readings` makes two distinctions that no threshold of the
  instance shows: a lag read in part is neither the report nor 0, and a metric name
  that one evaluator knows may be nothing to the other.

Each inductive invariant was also checked with TLC on the run whose properties
it supports: in `core`, `decisions`, `memory`, `router`, `resources`, `signals`.

### Only model-checked

Liveness and everything about fairness: `DeletionCompletes`, `NeverForgotten`,
`Converges`, `ReachesTheGoal`, `ProbedAgain`, `Settles`, `AlertsFire`. The provers
handle neither `ENABLED` nor the well-founded arguments behind "in finitely many
cycles". (`GoalsAreApproached` is the safety half of `ReachesTheGoal`.)

## 6. What is not modelled

* The text of prompts and answers, and the secret with the API key (a failing
  read falls back to the configured key). In `Reconciler` an answer is any member
  of `LLMAnswers`, or a failure, which allows everything `Router` does.
* Feedback, prediction, node and FinOps context: text for the prompt and status
  fields that nothing decides by. (Feedback compares every past decision with
  the signals of now, so an old verdict changes with the load.)
* The rate limiter of `internal/decision`: only its test constructs one.
* In `Resources`: what decides the count, and the resize policy of pods. In
  `Alerting`: requests and secrets of the plugins, and `Notify`; of parsing, what it
  makes of a value that is missing or unreadable, but not NaN and infinities, which
  Prometheus may answer and `strconv.ParseFloat` reads.
* A policy that is created again under the same name after its deletion.
* Deletion of a Deployment. A Deployment that cannot be read is a failing call.
* Failing reads of the informer's own cache (`Get` and `List` of policies).
* Conditions, phases, metrics, notifications and logs. `rejected` stands for
  the one condition that decides whether a write changes anything.
* The lengths of back-off and timers beyond their order.
* Namespaces: a Deployment is identified by the model, while coordination and
  audit know it by name only (`Workload`), as the code does.
