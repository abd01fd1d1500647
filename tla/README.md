# A TLA+ verification of temporal-beads

This directory holds TLA+ models of the Temporal/Beads maintenance service of this
repository (`src/services/temporal-maintenance`, in particular its package
`internal/temporalbeads`) and of the demo agent it drives
(`src/demo/harness/cmd/fakeagent`), the TLC configurations that check them, and
proofs for TLAPS. Paths below are relative to `src/`; *TB* stands for
`services/temporal-maintenance/internal/temporalbeads`. The design the code follows is
`docs/adr-temporal-beads-boundary.md` (*the ADR*).

Every definition is translated from the Go source; where a comment, the ADR and the
code disagree, the model follows the code and a run that is expected to fail shows
the disagreement (see [Findings](#findings)).

    tlc -workers 2 -config dolt.cfg MCDoltBeadStore     # one run
    tlapm DoltBeadStoreProofs.tla                       # one proof module

`PROJECT.json` lists the runs, the source lines each definition stands for, a
mutation for each checked property (the plausible bug that breaks it, kept beside
the definition it replaces), the hazards and the theorems.

## 1. The system

Beads is the system of record for work; Temporal runs it. A *bead* becomes ready at a
*generation*; the ready fact and a *ready event* are written together. The event is
delivered to a Temporal *orchestration Workflow* (one per bead and run) by
Signal-With-Start; the Workflow runs one *Activity* per event; the Activity claims the
generation, drives an *agent* through an adapter process, and writes a fenced
completion. The completion writes a *coordinator outcome* in the same transaction; a
second kind of Workflow delivers it to a coordinator until that acknowledges it.

| component | source | state it keeps | operations |
|---|---|---|---|
| Beads file store | TB/bead_store.go | one JSON file; per process, the maps it last decoded | TransitionReady, Claim, Complete, RecordAttemptFailure, Inspect, PendingReadyEvents, AcknowledgeReadyEvent |
| Beads canonical store | TB/dolt_bead_store.go, outcome_store.go | the `issues` row of a bead: status, claim, receipt, ready outbox, outcome outbox, finalization receipt | the same, and EmitOutcome, PendingOutcomes, MarkOutcomeDelivered, MarkOutcomeAcknowledged, FinalizeAcknowledgedOutcome, FindSilentOutcomes |
| Orchestration workflow | TB/workflow.go | `workflowRun`: events seen and expected, Activities, links to the parent, phase | ready, close, cancellation, Activity and link callbacks, `await` |
| Ready-event bridge and reconciler | TB/bridge.go, reconciler.go | none of their own; the outbox and the Workflow are the state | Deliver, SealRun, Reconcile |
| Coordinator outcome delivery | TB/outcome_workflow.go, outcome_activity.go, outcome_reconciler.go, outcome_notifier.go | `CoordinatorOutcomeState`, the outbox, the coordinator's session | reconcile pass, deliver, acknowledge, redeliver, continue as new |
| Activity worker | TB/activity.go, command_agent_executor.go | the attempt's heartbeat tracker; Temporal's checkpoint | ExecuteBead and the adapter's process |
| Demo agent | demo/harness/cmd/fakeagent/main.go | session registry, `live.json`, `terminal.json` | resolve, execute (own, attach, replay), cancel |
| Contracts | TB/contracts.go, outcome_contracts.go | none | identities, validation, encoding |
| Legacy outcome discovery | TB/legacy_outcome_reconciler.go | none of its own; reads issues and their `events`, writes the outcome outbox | list, read histories, choose the transition, emit |
| Connection fencing and timezone activation | TB/dolt_timezone_activation.go | receipt file and lock, server's global time zone, its sessions | snapshot, set the zone, fence, drain, verify, write the receipt; admission of a store |
| Runtimes | TB/managed_runtime.go, outcome_runtime.go, outcome_runtime_fleet.go, workers.go | loop and worker lifetimes | Start, Stop |
| Clock, formula observability | TB/clock.go, formula_observability.go | none | formatting |
| Demo drivers | demo/harness/cmd/{beforetick,drive,worker,inspect}/main.go | scenario files | scripts around the stores |

How they interact, and what is hard about it:

* **Store and its callers.** Activities of several Workers, producers, deliverers and
  coordinators act on the same row. The canonical store reads, decides and commits
  optimistically and re-runs a refused transaction (TB/dolt_bead_store.go:1160-1248),
  so a call can be refused, re-run, or committed with its reply lost. The file store
  serialises by a file lock, but a process keeps maps and a persist may fail before or
  after its rename. *Right means*: one holder and one receipt per generation, nothing
  reported that is not durable, no outcome overwritten before a coordinator took it,
  the ready fact and its event together.
* **Store and Workflow.** The deliverer may stop between the signal, the link to the
  parent and the acknowledgement, and another one repeats the delivery from a listing
  that has aged. *Right means*: an acknowledged event is in its Workflow and its parent
  knows; nothing published is lost; a gap is closed in the end.
* **Workflow and its signals.** Ready events are duplicated, reordered against the close
  signal, and accepted while the Workflow decides to return. *Right means*: one Activity
  per event, a sealed run does exactly its set, nothing accepted is left unread by a run
  that completes, parents are told.
* **Activity and agent.** Temporal retries an attempt it has not heard from; the attempt
  may still run, and the agent outlives its Worker. *Right means*: one session, one
  agent at work, checkpoints that do not go back, one result.
* **Discovery and every other writer of the issue.** Workers that are not Workflows close
  or verify beads with the `bd` tool; a discovery pass reads which issues look finished,
  then, in a second query, their histories, and emits into the outbox that fenced
  completions and finalizations share. Between the three steps anyone may write, and
  passes overlap. *Right means*: one outcome per transition, none for what Temporal did
  itself, and no finished bead that stays silent.
* **Activation and the clients of the server.** Discovery compares times that sessions
  wrote in the zone they took when they were opened. Connections authenticate while the
  owner lists, sets, fences and drains; they are listed only when their handshake is
  over, and told apart by identities that wrap at 32 bits. *Right means*: the receipt
  proves that nobody writes in another zone, and the drain spares who came after.
* **Outcome and coordinator.** Notifications, writes and acknowledgements are lost or
  late, sessions restart, the Workflow continues as new, passes of the reconciler
  overlap. *Right means*: acknowledged only by a session that said so, and acknowledged
  in the end.

## 2. Modules

| module | models | state and actions, and what they correspond to |
|---|---|---|
| `BeadLedger` | the promise behind `BeadStore` | `work[b]`: generation, phase, holder, receipt. `Publish`, `Claim`, `Complete`, `Dispose`. The abstract specification of both stores; the attempts of an Activity follow it too. |
| `FileBeadStore` | TB/bead_store.go | `file`, and `residue[p]`, the entries of process p's maps that the file lacks. One action per method: since each holds the file lock from load to persist, a method is one step, with the outcome of its persist (`Persisted`, or `PersistFailed` before or after the rename) part of it. `leases`, `receipts` and `announced` record what callers were told; `announced` also whether a ready fact was read from the file or only from the maps of the process that answered. |
| `DoltBeadStore` | TB/dolt_bead_store.go, outcome_store.go | `row[b]`, the canonical issue. One action per operation, since each is one transaction; `Claim` is modelled attempt by attempt (`ClaimBegin`, `ClaimCommit`, `ClaimRetry`, `ClaimAbort`), because its lease is a variable of the enclosing call that survives a refused attempt. `leases` is what callers were told, `granted` what was committed; `emitted` and `acked` remember the outcomes written and acknowledged. |
| `BeadOrchestration` | TB/workflow.go | `run`, the `workflowRun`; `ready`, its unread signals. A step is one selector callback followed by the loop of `await` (`Callback`, `Await`), the unit that the Workflow runtime does not interrupt. |
| `ReadyDelivery` | TB/bridge.go, reconciler.go | composes the outbox, the Workflows and the deliverers: `job[d]` is what deliverer d has left of its listing and which call comes next. The Workflow is reduced to open or closed; it closes at any time, since a run that fails or is canceled closes with events unreceived, unread and unacknowledged (TB/workflow.go:343-439). |
| `CoordinatorOutcome` | TB/outcome_*.go | composes the outbox of one outcome (`store`, the part of `DoltBeadStore` it is), the Workflow (`run`), its `signals`, the `session`s, overlapping reconciler passes and timed-out attempts that still write (`late`). |
| `LegacyOutcomes` | TB/legacy_outcome_reconciler.go | one bead: `issue`, the `events` of its history that brought an outcome about, `now`, what each `pass` has read, the envelopes `emitted`. The steps of a pass are its two queries and the emission; the writers are the `bd` tool (`CloseIssue`, `VerifyIssue`, `ReopenIssue`, `Disposition`) and the transactions of `DoltBeadStore` that touch the same row (`TransitionReady`, `Complete`, `MarkOutcomeAcknowledged`, `FinalizeAcknowledgedOutcome`). |
| `TimeZoneActivation` | TB/dolt_timezone_activation.go, and the admission in dolt_bead_store.go | `server` (generation, zone, next identity), the connections of clients (`conn`), the activation under way (`owner`), the `receipt`, the `scan` of a store that asks to be admitted. One action per query or statement of the owner; `proved`, `abandoned` and `owner.early` are history. |
| `AgentActivity` | TB/activity.go, command_agent_executor.go, fakeagent/main.go | composes Temporal's view of the Activity (`task`), each attempt's own view, the agent processes, `registry`, `live` and `terminal`, and the completion in the `row`. |
| `DoltBeadStoreProofs`, `FileBeadStoreProofs`, `BeadOrchestrationProofs`, `ReadyDeliveryProofs`, `CoordinatorOutcomeProofs`, `LegacyOutcomesProofs`, `AgentActivityProofs`, `TimeZoneActivationProofs` | | the proofs, each of the module it is named after; those of `BeadLedger` are in `DoltBeadStoreProofs`. |
| `MC*` | | instances for TLC: symmetry, and the events of the delivery runs. |

Abstractions, once for all modules: a token is a digest of bead, generation and
workflow (TB/bead_store.go:472-492), so presenting a token is presenting that triple; an
event or Workflow identity is the tuple it is computed from; artifacts, sessions,
failures and receipts are values that are only compared. Timestamps, formatting,
logging, queries, memos and search attributes are left out. Inputs that validation
refuses are not enumerated.

A call that a guard refuses changes nothing and tells its caller nothing but the refusal;
it is not an action. A call that succeeds without a change is one when its answer is
remembered (`TransitionAgain`, `ClaimAgain`, `CompleteAgain`).

## 3. Runs

| run | what it asks | bounds |
|---|---|---|
| `file` | does the file adapter keep leases, receipts and the ready facts it reported out of the file durable, across processes, restarts and a failed persist; until the fault, does it implement `BeadLedger` | 2 beads, 2 workflows, 2 generations, 2 processes, 1 receipt, 1 failed persist, failure entries while the file has one bead (`FewFailures`) |
| `dolt` | does the row grant a generation once, keep one receipt per generation, no lost outcome, one acknowledgement, a proven finalization; is `IInv`, which contains the types, an invariant; does the row implement `BeadLedger` | 1 bead, 2 generations, 2 concurrent claims of 2 attempts, 2 workflows, 2 receipts, 1 other producer, 2 coordinators |
| `orchestration` | seals, duplicates, limit, failing links, cancellation: does a run do what it was sealed to do, and close | 3 events against a limit of 2, 2 of them with a parent, 2 unread signals, 2 seals |
| `delivery` | a courier and the reconciler deliver the same events and stop anywhere, Workflows close at any time: is everything a pass can reach delivered and acknowledged | 3 events: a bead with two generations and another bead, 1 run, 1 courier |
| `outcome` | one outcome until it is acknowledged | 2 sessions, 2 passes, 1 unread signal per session, 1 late attempt, continue as new after 2 deliveries |
| `agent` | attempts of one Activity that overlap in every way: one owner, and how many more when owners are late; one result | 3 attempts, 1 progress message, 1 late owner |
| `legacy` | discovery beside every writer of a bead: one outcome per transition, none for a finalization, none forgotten | 2 passes, 2 transitions with an outcome, 2 seconds, generation 2, 1 disposition |
| `activation` | an activation races with clients, a restart, a reset of the zone and owners that stop: does the receipt prove what it says, does the drain spare newer clients, is the zone in force and proved in the end | 2 clients, 6 identities, 2 faults |
| `delivery_gap`, `dolt_lease`, `agent_owner`, `activation_reset` | statements of the documentation that the code does not keep | the smallest instance that shows it |

Four more configurations stand beside the runs. Each shows a disagreement that belongs to
one of the modules above and is described with the findings; TLC reports a violation:

    tlc -config file_phantom.cfg MCFileBeadStore            # AnnouncedDurable
    tlc -config delivery_block.cfg MCReadyDelivery          # DroppedRepaired
    tlc -config outcome_restart.cfg MCCoordinatorOutcome    # RestartRebinds
    tlc -config legacy_twin.cfg MCLegacyOutcomes            # OnlyOtherWriters

Why these bounds are enough for the cases that matter:

* *One bead in `dolt`*: no operation of the canonical store reads two rows, and the
  invariants compare entries of one bead only. Two generations give every fence a
  newer one; two attempts give every refused commit one retry. The proofs remove these
  bounds. The five attempts of the code (`doltMutationAttempts`) are `MaxAttempts`.
* *Two beads in `file`*: the residue of a failed persist shows only when the file
  exists without the key, which needs a second bead or an earlier one. No operation
  decides by a failure entry, so entries are explored only while the file has one bead
  (the other may be a phantom); the proofs have them everywhere.
* *Three events against a limit of two* exceeds the limit, seals before, between and
  after the events, and lets a seal name an event that has not come.
* *Two generations and another bead in `delivery`* let an event of a listing be
  superseded while an earlier one of the same listing is delivered.
* *Two sessions in `outcome`* are one restart; one late attempt is enough for a write
  after the Workflow went on, or after a later delivery; continuation after two
  deliveries happens in both phases of a cycle.
* *Two transitions in `legacy`* let a bead be finished, taken, reopened and finished
  again, which is what every exclusion is about; two passes let an envelope made from an
  old listing be written beside a newer one. Two seconds give events that are ordered
  and events that are not. Generation 2 leaves room for a legacy outcome of generation 1
  below it and for one above it. One bead is enough since discovery treats each alone.
  A completion claims the generation in the same step (the claim is `DoltBeadStore`'s),
  and one listing ages at a time, while envelopes made from listings wait in any number.
* *Six identities in `activation`* are enough for the order to wrap with two clients and a
  fence. As in a server with 2^32 identities, none is given to a connection while another
  one, or the listing of the owner, has it, and half the range does not go by during a
  handshake or an activation (`InRange`). Two faults are a reset and a stopped owner,
  which is what the finding needs, or two restarts. The proofs remove the bounds on
  clients, faults and the range.
* *Three attempts in `agent`*: one that is forgotten, one that joins it, one that comes
  after both. One progress message distinguishes a checkpoint from the next.

`CHECK_DEADLOCK FALSE` stands where the system may really stop: a closed Workflow, an
Activity that ended, an outcome acknowledged, or a store whose callers have published
their highest generation and have nothing left to call.

The proofs remove the bounds on processes, attempts, sessions, passes, events, seals,
limits and buffers as well ([section 4](#4-what-is-proved)); there a run tells that the
statement is not vacuous.

Symmetry is used only in the two store instances, whose sets are interchangeable and
whose properties are invariants or step properties. No liveness run uses it.

### Fairness

Safety is checked without fairness, except where a run also checks liveness. Fairness
is stated per module, and each conjunct is justified by something the code or Temporal
does again and again:

* `BeadOrchestration`: the Worker polls, so a callback that is ready is run; Activities
  have timeouts and a maximum of attempts (TB/workflow.go:229-241), so they end one way
  or another; Temporal resolves an external signal, successfully or not; the reconciler
  redelivers an event that is missing, which is strong fairness of that delivery
  because the signal buffer is bounded. Nothing is assumed of seals, cancellation,
  or the outcome of an Activity or a link.
* `ReadyDelivery`: the loop of the runtime (TB/managed_runtime.go:223-236) starts a pass
  again and again, and each pass ends. The three calls of a delivery are strongly
  fair: an outage ends, but how many passes it spoils is open. A Workflow that refuses
  because it is closed is not an outage, and nothing helps there. Couriers are not fair.
* `CoordinatorOutcome`: passes and Workflow tasks run, timers fire; a notification or a
  write that is possible again and again succeeds in the end; the session that is alive
  acknowledges if it is waited for often enough. Restarts are bounded, since with a
  restart in each cycle there is never a session to wait for.
* `LegacyOutcomes`: passes start again and again (TB/outcome_runtime.go's loop), an outage
  ends so that some pass gets through each of its queries (strong fairness over passes,
  since any one may give up for ever), and a coordinator acknowledges what it is handed.
  Nothing is assumed of workers and Workflows.
* `TimeZoneActivation`: the preflight is repeated until it succeeds, the server carries
  kills out, ends handshakes within `connect_timeout`, and no connection outlives a round
  of all identities. The fence is strongly fair because handshakes delay it only while
  they last. Nothing is assumed of clients otherwise.
* `AgentActivity`: Workers that are not dead make progress, an agent finishes or gives up
  waiting (its attach timeout), and Temporal's heartbeat timeout notices an attempt that
  is gone. Nothing is assumed of heartbeats, deaths, cancellation or failures.

## 4. What is proved

Every safety property that a passing run checks is proved below, for every value of the
constants; the file store's for the number of failed persists that its statement names.

`DoltBeadStoreProofs` proves of the canonical store, for any number of beads, callers,
workflows, generations and attempts:

| theorem | statement |
|---|---|
| `Invariance` | `Spec => []IInv` |
| `TypeCorrect` | `Spec => []TypeOK` |
| `OneGrant` | the claim of a generation is committed for one workflow, and only that one completes it |
| `OneDurableReceipt` | one receipt per generation, stable until a higher one |
| `NoSilentOutcome` | no outcome is overwritten before it was acknowledged, no completion is silent |
| `FinalizedWasAcknowledged` | one acknowledgement per outcome, finalizations prove theirs |
| `RowImplementsLedger` | `Spec => Ledger!Spec` |
| `LedgerInvariance` | `Ledger!Spec`: the records of the ledger are consistent |
| `LedgerFenced` | `Ledger!Spec`: no step replaces a holder or a receipt within a generation, or goes back to an older one |
| `RowFenced` | `LedgerFenced`, carried over the refinement to the row |

The assumptions are `DoltConstants`: generations are positive, `None` is not a member of
the other sets, workflows are not among the other producers, at least one attempt.

Why the safety properties are not inductive by themselves. A receipt stays
(`CompletionDurable`) only if no later step can claim the row again, which is that a
generation once leased is never open again (`LeaseInv`) and that a claim in flight was
based on an open row of its generation (`ClaimingInv`): together with the check of the
commit (`row[q.bead] = q.seen`) this rules out the second holder. `OneGrantPerGeneration`
follows from the row keeping what was committed until a higher generation (`GrantInv`).
That an outcome is
never overwritten unacknowledged (`OutcomeConserved`) needs that the outbox knows its own
acknowledgement and is never behind one (`AckInv`); that a reported completion has an
outcome (`CompletionSurfaced`) follows from `OutcomeConserved` once every reported
completion was emitted (`ReceiptsEmitted`), which for a repeated completion needs that a
stored receipt was emitted (`RowInv`). `FinalProof` needs only `AckInv` at the moment of
finalization, and that `acked` never shrinks. `IInv` is the conjunction; the `dolt` run
checks it, and the proof shows that `Init` implies it and each action preserves it, one
lemma per action, with frame lemmas for the conjuncts an action cannot disturb.

The refinement reads a row as a ledger record (`Fence`, `Phase`: closed without a
receipt is *disposed*) and shows that each action is a step of the ledger or leaves the
record alone. It uses `IInv`: that a commit is a `Claim` of the ledger needs that the row
is open, and that a completion by l needs that l's fence is the row's. The stale lease of
the findings is invisible in it: the row is right, and it is a caller that was told
something else. What `leases` then promises (`LeaseInv`) is therefore only an auxiliary
conjunct and not a property of its own; the ADR's promise fails (`dolt_lease`).

`FileBeadStoreProofs` proves of the file store, for any number of processes, beads,
workflows, generations and restarts:

| theorem | statement |
|---|---|
| `Invariance`, `TypeCorrect` | `Spec => []IInv`, `Spec => []TypeOK` |
| `LeasesSurviveAFault` | with at most one failed persist: `LeaseDurable` |
| `OneHolderSurvivesAFault` | with at most one failed persist: `OneLeasePerGeneration` |
| `CompletionsSurviveAFault` | with at most one failed persist: `CompletionDurable` |
| `ReadyFactsAreDurable` | however many persists fail: `ReadyDurable` |
| `OnlyCurrentOffered` | until a persist fails: `OnlyCurrentPending` |
| `FileImplementsLedger` | until a persist fails: a step of the store is one of `BeadLedger` |
| `FileFenced` | however many persists fail: `Ledger!FencedStep(b)` of the file, for every bead |

The invariant says what a failed persist leaves behind. After the first, what the maps
of a process hold beyond the file can only be beads that were just published, ready and
without holder (`Leftover`, `Fresh`): every other operation replaces records of keys that
the reload brings back. So no call answers a lease or a receipt from such a record, and
what a call writes is still `Sound`. `Untouched` and `Current` are the same for no fault
at all. With two faults the invariant is false, and so are the promises about leases and
receipts (section 5). Not covered, with one fault already, is a ready fact that a process
answers out of its maps (`AnnouncedDurable`, section 5).

What no number of faults breaks is the fence of the file itself (`FileFenced`). A process
that writes loaded the file first, so what it writes keeps every bead of the file at its
generation or a later one (`Keeps`, a lemma for each operation), and a holder or a receipt
could only be overwritten by an operation that took a ready bead for held, or an unfinished
one for finished. No map, phantoms included, has such a record (`Plain`, which unlike the
invariant above does not count faults). A ready fact that was reported out of the file stays
by the same argument: generations only grow there, and whatever maps are written pair each
bead with its event (`AllPaired`).

`AgentActivityProofs` proves for any number of attempts, progress messages and late
owners that the state is well typed (`TypeCorrect`), that a session has one owner and at most one
more for each time an owner was late (`EachLatenessCostsOneAgent`), that the Workflow is told what the store keeps
(`ResultsAgree`) and that the checkpoint never goes back (`CheckpointsAdvance`). Its row is
moved by steps of `BeadLedger` only (`RowFollowsLedger`), so no attempt, however late,
replaces the claim or the receipt of another (`RowFenced`). The
invariant bounds the owners besides the one with the fresh live record by the owners that
were late (`Driven`): counting all owners is not inductive, since a late owner may refresh
the record of the one that replaced it. The present attempt is never behind the
checkpoint (`InStep`, part of `Order`), later attempts have not started, and attempts
given up write nothing Temporal takes. `ReceiptAgrees` needs that while nobody was late
there is one terminal record that all results, checkpoints and the receipt name (`Single`).

`LegacyOutcomesProofs` proves for any number of passes and any sequence of writers that
the state is well typed (`TypeCorrect`), that a transition or claim becomes one outcome
(`OneOutcome`) and that a finalization becomes none (`FinalizationIsSilent`). Of what a
pass has read only this is still true when it emits: its envelope carries identity and
time of one event without a receipt (`Sourced`). Along the outbox generations grow
strictly and times weakly, strictly up to a legacy outcome (`Growing`, the two tests of
`MaySupersede`), so two outcomes of one event would have the same time, and two of one
claim the same generation.

`TimeZoneActivationProofs` proves for any number of clients, any even range of identities
and any number of faults that the state is well typed, that the receipt is a proof while
its installation is in force (`ReceiptIsProof`), and that the drain spares who is newer
than the fence (`PostSetClientsSpared`). The invariant follows the identities: handshakes
are recent (`Recent`), so is whoever connected after the listing (`Told`), hence who is
older than the fence is listed or precedes it (`EarlyAreCandidates`), who is newer is not,
also when identities wrap (`LateAreNewer`, with `SerialOrder` on the comparison of
TB/dolt_timezone_activation.go:416), and has the new zone (`LateAreNamed`).

`CoordinatorOutcomeProofs` proves for any number of sessions, passes and late attempts that
the outcome is acknowledged under the fence of a session that said so
(`SaidBeforeAcknowledged`) and that a completed Workflow leaves it so (`CompletionStands`).
What is read, tried and written late was said by a session (`SignalsSaid`, `FenceSaid`,
`LateSaid`); the rest is the counting of unread signals that the types need.

`ReadyDeliveryProofs` proves for any events and couriers that the state is well typed
(`TypeCorrect`), that what is acknowledged was delivered and its parent told
(`DeliveredBeforeAcknowledged`), and that nothing is delivered that was not published
(`NothingInvented`), whenever Workflows close. A deliverer at a later call has made the
earlier ones for that very event of its batch (`StepsInOrder`), and batches hold published
events only (`Jobs`), for which the listing is unfolded (`Listed`).

`BeadOrchestrationProofs` proves for any events, parents, seals, event limit and buffer of
signals:

| theorem | statement |
|---|---|
| `Invariance`, `TypeCorrect` | `Spec => []IInv`, `Spec => []TypeOK`, the event limit included |
| `OneActivity` | one Activity per event, however often it is signalled or drained |
| `SealedRunDoesTheSeal` | a sealed run that completes has done its set, no more and no less |
| `EverySignalRead` | a run that completes has read every signal accepted for it |
| `EveryParentTold` | a run that completes has told the parents how their events ended |
| `NoActivityOutlivesItsRun` | a run that returns leaves no Activity in flight |

None of these is inductive alone: each speaks of a run that completed, and what makes it
true is what an open run owes. `Sound` says it of the run, the unread signals and the links
between any two callbacks: Activities are exactly those of the events seen (`Started`), and
unless the run has failed, a sealed run has seen expected events only, each accepted signal
is seen or unread, each ended Activity was reported or its report is under way (`Owing`).
`Settled` is what `await` checks before it returns completed. A failed run owes nothing,
which is why the three promises are about completed ones.

Two of the modules use folds over a sequence: `await` drains its unread signals, the listing
collects the outbox. What a fold returns for every sequence is proved by unfolding it to the
function that its definition chooses, whose existence is shown for sequences of each length
(`Draining`, `DrainedInStages`, `Listing`), and carrying the invariant from each stage to
the next. The induction is over a set of numbers (`Inductively`), from the least element of
its complement.

The assumptions are the `ASSUME`s of the modules: the bounds are numbers (positive where
zero would leave nothing), `None` is no member of other sets and no content of the file, the
range of identities is even, and the events of a run or of an outbox are finitely many.

Model-checked only: everything under fairness (`SealedCloses`, `Delivered`, `GapRepaired`,
`EventuallyAcknowledged`, `ActivityEnds`, `NewestAccounted`, `EventuallyActive`), which is
beyond the prover, and the four findings, which are counterexamples.

## 5. Findings

Each is the counterexample of a run that is expected to fail; the property restates the
quoted sentence.

1. **`delivery_gap`** (TB/bridge.go:170). A Workflow that closes between the signal and
   the acknowledgement of its event refuses every redelivery (REJECT_DUPLICATE), so the
   gap that TB/reconciler.go:32-34 says is closed stays open. A run that fails or is
   canceled may do that with any of its events. What is more, a pass ends at its first error
   (TB/reconciler.go:61-73) and takes the oldest pending event first, so the refused event
   also cuts off whatever is pending behind it, for other beads and Workflows that are
   open (`DroppedRepaired`, shown by `delivery_block.cfg`). `Delivered` and `GapRepaired`
   exempt exactly these two cases (`OutOfReach`).
2. **`dolt_lease`** (TB/dolt_bead_store.go:788). `Claim` keeps its lease outside the closure
   that is re-run. A refused attempt leaves `Acquired` in it; when the retry finds another
   generation the closure returns without assigning. Two workflows that claim a generation
   while a newer one is published are both told that they hold it, although the ADR
   (177) asks that "concurrent claims produce one lease and one fencing token". Both then
   start an agent. No fence accepts either token: what the row grants is granted once
   (`OneGrantPerGeneration`, proved).
3. **`agent_owner`** (demo/harness/cmd/fakeagent/main.go:379). The age of the live record is
   looked at before the process that wrote it: an owner that is late, not dead, is joined by
   a second one, although the ADR (179, and 95-97) asks that a retry "reattaches or resumes
   instead of launching a second agent". The damage is bounded: one agent more for each
   time an owner was late (`OwnersBounded`, proved), and of two results the first one
   stored wins (`ReceiptAgrees`).
4. **`activation_reset`** (TB/dolt_timezone_activation.go:179). When the zone was set back
   and a later activation sets it again, the receipt of the earlier one is still there.
   Until the drain is over, or for good if the owner stops, zone and receipt together
   admit stores and discovery among sessions of the old zone, although the receipt "proves
   that every client session which existed before the named global zone was installed has
   left" (49-50). For the installation it was written for, it does (`ReceiptProves`). An
   owner that stops there is also the one case in which the zone is never proved again,
   which `EventuallyActive` exempts (`abandoned`).

Further disagreements, shown by the configurations beside the runs:

* **`file_phantom.cfg`** (TB/bead_store.go:162-172). After a persist that failed before its
  rename, the maps of the process still hold the generation it tried to publish. A repeated
  `TransitionReady` finds it there, returns the event as success and persists nothing; a
  restart, or another process that publishes the bead, loses the ready fact, although the
  function "writes the new generation and outbox record in one fsync" (line 130). One fault
  is enough. A fact reported out of the file is safe (`ReadyDurable`, proved for any number
  of faults).
* **`outcome_restart.cfg`** (TB/outcome_store.go:249). If an acknowledgement is stored and
  its answer lost, redeliveries answer with the fence of the stored acknowledgement for
  ever. After a restart of the coordinator its acknowledgements are stale and the Workflow
  never completes, although TB/outcome_workflow.go:64-65 says a redelivery changes the
  fence. The outcome itself is safe: `AcknowledgedBySession` and
  `EventuallyAcknowledged` hold.
* **`legacy_twin.cfg`** (TB/legacy_outcome_reconciler.go:217). `Complete` reads the clock for
  its outcome before its Beads event is inserted. When a second turns in between, the
  close of the completion is later than its own outcome; nothing else excludes it, and
  after the acknowledgement discovery emits the same result again at the next generation,
  as if one of the "non-Temporal writers" of lines 92-93 had made it.

In two more places a document bears on what the code, and the model with it, does; no
configuration singles them out:

* *Failed runs and their seal.* The ADR (69-71) says that a Workflow "does not close until it
  has received that complete set and every scheduled Activity is terminal". A link that
  cannot be signalled to the parent fails the run (TB/workflow.go:349), and a failed run
  returns without waiting for the rest of its sealed set. `SealHonoured` is about runs that
  complete, for which the sentence holds.
* *Finalization and the bead.* TB/outcome_store.go:362-364 says that an issue is closed "only
  when its current canonical outbox proves the exact acknowledged generation named by
  request". `FinalizeAcknowledgedOutcome` keeps that to the letter (`FinalProof`): it compares
  the request with the outbox. It does not compare it with the bead, whose generation may
  have moved on: a newer generation, ready or claimed, is
  closed with the outcome of the older one (`Dispose` in the ledger admits what it does),
  and its receipt is never cleared.

Things seen while modelling that are milder than they look, or that no document decides:

* *File store.* A failed persist is rolled back by decoding the file into the same maps,
  which keeps keys the file does not have (TB/bead_store.go:426). The process also offers
  such a phantom event for delivery, so `OnlyCurrentPending` and the refinement are stated
  for behaviours without faults. Leases and receipts survive one fault (proved); two, in two
  processes, let a phantom record be claimed, for different workflows, at the same generation.
* *Canonical store.* One row whose metadata does not decode makes the listing of pending
  events fail for all beads.
* *Orchestration.* When the answer of the last attempt is lost, the Workflow reports a
  failure for a bead that is completed.
* *Outcomes.* An outcome that is superseded makes every delivery of its Workflow stale, and
  the Workflow redelivers for ever.
* *Agent.* The watcher of a superseded attempt cancels the session its successor is attached
  to (the cancel operation of the demo agent only logs).
* *Discovery.* The generation of a legacy outcome may overtake that of the bead, whose own
  completion at that generation is then refused until the next.
* *Activation.* A `connect_timeout` of 13 to 30 seconds is admitted by its range check, but
  the drain that waits for it does not fit the budget of 15 seconds: the activation then
  never ends. The model assumes a timeout that fits.

## 6. Assumptions about the outside

* Dolt refuses the commit of a transaction whose row changed since it was read, and
  accepts others atomically. This is what the code relies on when it re-runs serialization
  failures; if Dolt merged concurrent changes of one row, the model would not apply.
* A rename is atomic, and a directory fsync that fails leaves the renamed file visible.
* Temporal delivers a signal it accepted before it lets a Workflow complete, or re-runs
  the task with it; it does not for a Workflow that fails or is canceled by returning
  with unread signals - the model lets those be lost. It runs one attempt of an Activity
  at a time from its own point of view, takes heartbeats of that attempt only, and
  makes no promise about attempts it has given up.
* The coordinator behind the notifier command is external: sessions are numbered, a
  session acknowledges only what it was handed, and may do so late or repeatedly.
* The `bd` tool writes an issue and its event in one transaction, with the time of the
  server in whole seconds; identities of events say nothing about their order. Snapshots
  of an event may be blank, as the fallbacks of the code expect.
* A Dolt server ends handshakes within its `connect_timeout`, gives identities in order and
  reads the global zone at some time of the handshake. An administrator may set the zone
  back; a client may ask for the named zone by itself. The connection of the owner is left
  out, since it is excluded from every listing and its death is the end of the activation.
* In `ReadyDelivery`, producers publish and Workflows close independently: the sealed set
  names the events of a run, but nothing makes a run that fails wait for them.

## 7. Not modelled, and what is left

Not modelled, with the reason:

* *Runtimes* (TB/managed_runtime.go, outcome_runtime.go, outcome_runtime_fleet.go,
  workers.go). Their loops are what the fairness of `ReadyDelivery`, `CoordinatorOutcome`
  and `LegacyOutcomes` stands for, and a pass that fails or is cut short is a step there.
  `Start` and `Stop` guard one loop and one set of workers with a mutex; the one case in
  which they overlap (managed_runtime.go:214) is among the hazards.
* *Clock and formula observability*: formatting, without state that a decision uses.
* *Demo drivers*: scripts that set scenarios up and print what the stores hold.
* `Inspect`, the pure listings and `FindSilentOutcomes` as operations of their own: they
  only read, and what they offer is an operator where something depends on it.
* Validation, encoding and limits of payloads; memos, search attributes and queries;
  operator termination of Workflows; the event log and the worktree of the demo agent;
  in discovery, which producer a transition is attributed to and the synthetic beads and
  formula steps that data which does not change filters out.

What a next step would be, in order:

1. *Composition* of `BeadOrchestration` and `ReadyDelivery`, so that the Workflow and not
   the environment decides when it closes. `ReadyDelivery` lets it close at any time now,
   which is the worst case; the composition would say what is guaranteed to runs that
   complete.
2. *Composition* of `LegacyOutcomes` and `CoordinatorOutcome`: the generation chosen by
   discovery against a completion that waits for it.
