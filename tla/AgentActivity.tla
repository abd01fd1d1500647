---------------------------- MODULE AgentActivity ----------------------------
(***************************************************************************)
(* The Activity that executes one ready generation of a bead.  Temporal     *)
(* retries it; an attempt that timed out may still run on a Worker that     *)
(* does not know, and the agent process that a dead Worker had started      *)
(* works on without it.  Attempts meet in the session registry of the agent *)
(* adapter, in the checkpoint Temporal keeps, and in the bead's row.        *)
(***************************************************************************)
EXTENDS Naturals, FiniteSets

CONSTANTS
    MaxAttempts,  \* attempts of the retry policy
    MaxSequence,  \* bound: progress messages of an execution
    MaxStalls     \* bound: owners that are alive but late with their live record

ASSUME ActivityConstants ==
    /\ MaxAttempts \in Nat \ {0}
    /\ MaxSequence \in Nat
    /\ MaxStalls \in Nat

VARIABLES
    row,       \* the bead: rebound to a newer generation, claimed, its receipt
    task,      \* the Activity as Temporal sees it
    attempt,   \* attempt[n]: the n-th attempt as its Worker sees it
    registry,  \* the session registered for the generation
    agent,     \* agent[n]: the agent process that attempt n started
    live,      \* live.json: the process that owns the session, and its age
    terminal,  \* terminal.json: the owner that finished the work
    stalls

vars == <<row, task, attempt, registry, agent, live, terminal, stalls>>

Attempts == 1..MaxAttempts
None     == 0
Session  == 0..MaxAttempts
Artifact == Attempts \cup {None}  \* what the owner started by an attempt made

Result == [session : Session, artifact : Artifact]
NoResult == [session |-> None, artifact |-> None]

Row == [rebound : BOOLEAN, claimed : BOOLEAN, receipt : Result]

HeartbeatCheckpoint ==
    [phase : {"none", "attached", "complete"}, session : Session,
     sequence : 0..(MaxSequence + 1), artifact : Artifact]
NoCheckpoint ==
    [phase |-> "none", session |-> None, sequence |-> 0, artifact |-> None]

Task == [status : {"open", "completed", "failed", "canceled"}, attempt : Attempts,
         cancel : BOOLEAN, details : HeartbeatCheckpoint, result : Result]

Attempt == [step : {"idle", "claim", "resolve", "execute", "run", "finish",
                    "store", "report", "over"},
            resume : HeartbeatCheckpoint, session : Session,
            sequence : 0..(MaxSequence + 1), result : Result]

Idle == [step |-> "idle", resume |-> NoCheckpoint, session |-> None,
         sequence |-> 0, result |-> NoResult]

Init ==
    /\ row = [rebound |-> FALSE, claimed |-> FALSE, receipt |-> NoResult]
    /\ task = [status |-> "open", attempt |-> 1, cancel |-> FALSE,
               details |-> NoCheckpoint, result |-> NoResult]
    /\ attempt = [n \in Attempts |-> Idle]
    /\ registry = None
    /\ agent = [n \in Attempts |-> "none"]
    /\ live = [pid |-> None, stale |-> FALSE]
    /\ terminal = None
    /\ stalls = 0

-----------------------------------------------------------------------------
At(n, step)  == attempt[n].step = step
Go(n, step)  == attempt' = [attempt EXCEPT ![n].step = step]
Stop(n)      == attempt' = [attempt EXCEPT ![n] = [Idle EXCEPT !.step = "over"]]
Current(n)   == task.status = "open" /\ task.attempt = n

\* Temporal retries, unless the attempts are used up or it was told to cancel.
RetryOnceMore ==
    IF task.attempt <= MaxAttempts /\ ~task.cancel
    THEN [task EXCEPT !.attempt = @ + 1]
    ELSE [task EXCEPT !.status = "failed"]

Retry ==
    IF task.attempt < MaxAttempts /\ ~task.cancel
    THEN [task EXCEPT !.attempt = @ + 1]
    ELSE [task EXCEPT !.status = "failed"]

\* An attempt returns an error; nobody listens to one that was given up.
Fail(n) ==
    /\ Stop(n)
    /\ task' = IF Current(n) THEN Retry ELSE task

\* A Worker takes the present attempt and the last checkpoint.
Start(n) ==
    /\ Current(n) /\ At(n, "idle")
    /\ attempt' = [attempt EXCEPT ![n].step = "claim", ![n].resume = task.details]
    /\ UNCHANGED <<row, task, registry, agent, live, terminal, stalls>>

\* What an attempt knows once it has read the checkpoint it resumes from.
Resumed(resume) ==
    LET known == [Idle EXCEPT !.session = resume.session]
    IN  CASE resume.phase = "none" -> [known EXCEPT !.step = "resolve"]
          [] resume.phase = "attached" ->
               [known EXCEPT !.step = "execute", !.sequence = resume.sequence]
          [] resume.phase = "complete" ->
               [known EXCEPT !.step = "store",
                             !.result = [session |-> resume.session,
                                         artifact |-> resume.artifact]]

\* Every attempt of the Workflow gets the same lease.  A stale claim ends the
\* Activity, a completed checkpoint leads straight to the completion.
Claim(n) ==
    /\ At(n, "claim")
    /\ IF row.rebound
       THEN /\ Stop(n)
            /\ task' = IF Current(n) THEN [task EXCEPT !.status = "failed"] ELSE task
            /\ UNCHANGED row
       ELSE /\ row' = [row EXCEPT !.claimed = TRUE]
            /\ attempt' = [attempt EXCEPT ![n] = Resumed(@.resume)]
            /\ UNCHANGED task
    /\ UNCHANGED <<registry, agent, live, terminal, stalls>>

LoadOrCreateSession == IF registry = None THEN 1 ELSE registry

ResolveSession(n) ==
    /\ At(n, "resolve")
    /\ registry' = LoadOrCreateSession
    /\ attempt' = [attempt EXCEPT ![n].session = LoadOrCreateSession,
                                  ![n].step = "execute"]
    /\ UNCHANGED <<row, task, agent, live, terminal, stalls>>

Alive(n) == n # None /\ agent[n] \in {"own", "attach", "replay"}

\* A plausible bug: a live record is no reason not to own the session.
DecideModeUnchecked == IF terminal # None THEN "replay" ELSE "own"

\* Replay a finished session, attach to one that another process drives, or own
\* it: when nobody does, when its owner is dead, and when it is late.
DecideMode ==
    IF terminal # None THEN "replay"
    ELSE IF live.pid = None \/ live.stale \/ ~Alive(live.pid) THEN "own"
    ELSE "attach"

\* The adapter is started, and decides under the lock of the registry.
Execute(n) ==
    /\ At(n, "execute")
    /\ attempt[n].session = registry
    /\ agent' = [agent EXCEPT ![n] = DecideMode]
    /\ live' = IF DecideMode = "own" THEN [pid |-> n, stale |-> FALSE] ELSE live
    /\ Go(n, "run")
    /\ UNCHANGED <<row, task, registry, terminal, stalls>>

-----------------------------------------------------------------------------
\* The agent process.  It neither knows nor cares whether anyone reads it.
Listening(n) == At(n, "run")

\* The owner works and refreshes its live record; whoever runs reports progress.
Work(n) ==
    /\ agent[n] \in {"own", "attach"}
    /\ live' = IF agent[n] = "own" THEN [pid |-> n, stale |-> FALSE] ELSE live
    /\ IF Listening(n) /\ attempt[n].sequence < MaxSequence
       THEN attempt' = [attempt EXCEPT ![n].sequence = @ + 1]
       ELSE UNCHANGED attempt
    /\ UNCHANGED <<row, task, registry, agent, terminal, stalls>>

\* An owner is alive but did not get round to its live record in time.
Stall(n) ==
    /\ stalls < MaxStalls
    /\ agent[n] = "own" /\ live = [pid |-> n, stale |-> FALSE]
    /\ live' = [live EXCEPT !.stale = TRUE]
    /\ stalls' = stalls + 1
    /\ UNCHANGED <<row, task, attempt, registry, agent, terminal>>

\* The result reaches the attempt if it still reads.
Answer(n, artifact) ==
    /\ agent' = [agent EXCEPT ![n] = "ended"]
    /\ IF Listening(n)
       THEN attempt' = [attempt EXCEPT ![n].step = "finish",
              ![n].result = [session |-> attempt[n].session, artifact |-> artifact]]
       ELSE UNCHANGED attempt
    /\ UNCHANGED <<row, task, registry, live, stalls>>

FinishWork(n) ==
    /\ agent[n] = "own"
    /\ terminal' = n
    /\ Answer(n, n)

AnswerTerminal(n) ==
    /\ agent[n] \in {"attach", "replay"}
    /\ terminal # None
    /\ UNCHANGED terminal
    /\ Answer(n, terminal)

\* The process dies, or waited too long for the owner it attached to.
AgentEnds(n) ==
    /\ agent' = [agent EXCEPT ![n] = "ended"]
    /\ IF Listening(n) THEN Fail(n) ELSE UNCHANGED <<attempt, task>>
    /\ UNCHANGED <<row, registry, live, terminal, stalls>>

AgentDies(n) == Alive(n) /\ AgentEnds(n)

\* A plausible bug: who has attached waits for as long as it takes.
AttachForever(n) == agent[n] = "attach" /\ terminal # None /\ AgentEnds(n)

AttachTimesOut(n) == agent[n] = "attach" /\ terminal = None /\ AgentEnds(n)

-----------------------------------------------------------------------------
Checkpoint(n) ==
    [phase |-> "attached", session |-> attempt[n].session,
     sequence |-> attempt[n].sequence, artifact |-> None]

\* A plausible bug: the pump still runs when the final checkpoint is recorded.
HeartbeatUnstopped(n) ==
    /\ attempt[n].step \in {"run", "store"}
    /\ Current(n) /\ ~task.cancel
    /\ task' = [task EXCEPT !.details = Checkpoint(n)]
    /\ UNCHANGED <<row, attempt, registry, agent, live, terminal, stalls>>

\* Temporal takes heartbeats of the present attempt only.  Any other attempt is
\* canceled when it hears so, and so is one that the Workflow cancels: the agent
\* process it started is killed with it.
Heartbeat(n) ==
    /\ At(n, "run")
    /\ IF Current(n) /\ ~task.cancel
       THEN /\ task' = [task EXCEPT !.details = Checkpoint(n)]
            /\ UNCHANGED <<attempt, agent>>
       ELSE /\ Stop(n)
            /\ agent' = [agent EXCEPT ![n] = IF Alive(n) THEN "ended" ELSE @]
            /\ task' = IF Current(n) THEN [task EXCEPT !.status = "canceled"] ELSE task
    /\ UNCHANGED <<row, registry, live, terminal, stalls>>

\* The checkpoint with the result, which Temporal may never receive.  It is the
\* last one: the sequence is of no more use to the attempt.
RecordFinalHeartbeat(n) ==
    LET final == [phase |-> "complete", session |-> attempt[n].result.session,
                  sequence |-> attempt[n].sequence + 1,
                  artifact |-> attempt[n].result.artifact]
    IN  /\ At(n, "finish")
        /\ attempt' = [attempt EXCEPT ![n].step = "store", ![n].sequence = 0]
        /\ task' \in {task} \cup
               (IF Current(n) THEN {[task EXCEPT !.details = final]} ELSE {})
        /\ UNCHANGED <<row, registry, agent, live, terminal, stalls>>

\* A plausible bug: the store keeps the last receipt instead of the first.
AcceptsAny(result) == ~row.rebound /\ row.claimed

Accepts(result) ==
    ~row.rebound /\ row.claimed /\ row.receipt \in {NoResult, result}

Complete(n) ==
    /\ At(n, "store")
    /\ IF Accepts(attempt[n].result)
       THEN /\ row' = [row EXCEPT !.receipt = attempt[n].result]
            /\ Go(n, "report")
            /\ UNCHANGED task
       ELSE Fail(n) /\ UNCHANGED row
    /\ UNCHANGED <<registry, agent, live, terminal, stalls>>

Report(n) ==
    /\ At(n, "report")
    /\ Stop(n)
    /\ task' = IF Current(n)
               THEN [task EXCEPT !.status = "completed", !.result = attempt[n].result]
               ELSE task
    /\ UNCHANGED <<row, registry, agent, live, terminal, stalls>>

\* A call to the store or to the adapter fails, or its answer is lost.
CallFails(n) ==
    /\ attempt[n].step \in {"claim", "resolve", "execute", "store", "report"}
    /\ Fail(n)
    /\ UNCHANGED <<row, registry, agent, live, terminal, stalls>>

-----------------------------------------------------------------------------
\* The Worker dies, not the agent process it started.
WorkerDies(n) ==
    /\ attempt[n].step \notin {"idle", "over"}
    /\ Stop(n)
    /\ UNCHANGED <<row, task, registry, agent, live, terminal, stalls>>

\* Temporal has not heard of the attempt for the heartbeat timeout.
TimesOut ==
    /\ task.status = "open"
    /\ ~At(task.attempt, "idle")
    /\ task' = Retry
    /\ UNCHANGED <<row, attempt, registry, agent, live, terminal, stalls>>

Cancel ==
    /\ task.status = "open" /\ ~task.cancel
    /\ task' = [task EXCEPT !.cancel = TRUE]
    /\ UNCHANGED <<row, attempt, registry, agent, live, terminal, stalls>>

\* A newer generation of the bead is published.
Rebind ==
    /\ ~row.rebound
    /\ row' = [row EXCEPT !.rebound = TRUE]
    /\ UNCHANGED <<task, attempt, registry, agent, live, terminal, stalls>>

Advance(n) ==
    \/ Start(n) \/ Claim(n) \/ ResolveSession(n) \/ Execute(n)
    \/ FinishWork(n) \/ AnswerTerminal(n) \/ AttachTimesOut(n)
    \/ RecordFinalHeartbeat(n) \/ Complete(n) \/ Report(n)

Next ==
    \/ \E n \in Attempts :
           \/ Advance(n)
           \/ Work(n) \/ Stall(n) \/ AgentDies(n)
           \/ Heartbeat(n) \/ CallFails(n) \/ WorkerDies(n)
    \/ TimesOut \/ Cancel \/ Rebind

\* Workers poll and make progress, agents finish what they do or give up waiting,
\* and Temporal notices an attempt that is gone.
Fairness ==
    /\ \A n \in Attempts : WF_vars(Advance(n))
    /\ WF_vars(At(task.attempt, "over") /\ TimesOut)

Spec == Init /\ [][Next]_vars
FairSpec == Spec /\ Fairness

-----------------------------------------------------------------------------
TypeOK ==
    /\ row \in Row
    /\ task \in Task
    /\ attempt \in [Attempts -> Attempt]
    /\ registry \in Session
    /\ agent \in [Attempts -> {"none", "own", "attach", "replay", "ended"}]
    /\ live \in [pid : Artifact, stale : BOOLEAN]
    /\ terminal \in Artifact
    /\ stalls \in 0..MaxStalls

Owners == {n \in Attempts : agent[n] = "own"}

\* What the decision record asks of a retry: it attaches or resumes, and never
\* launches a second agent beside the one that works.  The code does not promise
\* it: an owner whose live record is old is taken for gone (agent_owner.cfg).
OneOwner == Cardinality(Owners) <= 1

\* What the code does promise: while no owner is late there is one, whatever dead or
\* forgotten Workers left behind, and each lateness costs at most one agent more,
\* also when the live record is replaced, refreshed by the late owner, or orphaned.
OwnersBounded == Cardinality(Owners) <= 1 + stalls

\* The result the Workflow gets and the one a retry would complete with are the
\* receipt in the store, though attempts complete behind each other's back.  (Two
\* owners may leave two results; the first one stored is the receipt.)
ReceiptAgrees ==
    /\ task.status = "completed" => task.result = row.receipt
    /\ stalls = 0 /\ task.details.phase = "complete" /\ row.receipt # NoResult =>
           row.receipt = [session |-> task.details.session,
                          artifact |-> task.details.artifact]

\* The checkpoint Temporal holds never goes back: not its sequence, not from
\* complete to attached, and not to another session.
CheckpointAdvances ==
    [][LET old == task.details
           new == task'.details
       IN  /\ new.sequence >= old.sequence
           /\ old.phase = "complete" => new = old
           /\ old.phase # "none" => new.session = old.session]_vars

\* The Activity ends: with a result, an error or canceled.
ActivityEnds == <>(task.status # "open")

=============================================================================
