------------------------- MODULE AgentActivityProofs -------------------------
(***************************************************************************)
(* Proofs that the attempts of an Activity agree, however they overlap: the *)
(* checkpoint does not go back, the session has one owner and one more for  *)
(* each time an owner was late, and the Workflow is told what is stored.    *)
(*                                                                          *)
(* Attempts that were given up go on behind the back of the present one.    *)
(* They cannot hurt the checkpoint, because Temporal takes it from the      *)
(* present attempt only, and that one goes on from where it resumed.  They  *)
(* cannot hurt the receipt, because the store keeps the first, and while no *)
(* owner is late all of them report the one terminal record.                *)
(***************************************************************************)
EXTENDS AgentActivity, FiniteSetTheorems, TLAPS

Early == {"idle", "claim", "resolve", "execute"}
Ended == {"finish", "store", "report"}

\* A checkpoint that Temporal may hold.
Genuine(c) ==
    /\ c \in HeartbeatCheckpoint
    /\ c.phase = "none" => c.sequence = 0
    /\ c.phase # "none" => c.session = 1
    /\ c.phase = "attached" => c.sequence <= MaxSequence
    /\ c.phase = "complete" => c.artifact # None

\* What any attempt knows, forgotten or not.
Sane(a) ==
    /\ a \in Attempt
    /\ a.sequence <= MaxSequence
    /\ Genuine(a.resume)
    /\ a.step \in {"execute", "run", "finish"} => a.session = 1
    /\ a.step \in Ended => a.result.session = 1 /\ a.result.artifact # None

Records ==
    /\ TypeOK
    /\ \A n \in Attempts : Sane(attempt[n])
    /\ Genuine(task.details)
    /\ registry \in {None, 1}
    /\ row.receipt # NoResult => row.receipt.session = 1 /\ row.receipt.artifact # None

\* The present attempt is not behind the checkpoint that Temporal holds.
InStep(a, details) ==
    /\ a.step = "claim" => a.resume = details
    /\ a.step = "resolve" => details.phase = "none"
    /\ a.step \in {"execute", "run", "finish"} =>
           details.phase # "complete" /\ details.sequence <= a.sequence

Order ==
    \A n \in Attempts :
        /\ n > task.attempt => attempt[n].step = "idle"
        /\ attempt[n].step \in Early => agent[n] = "none"
        /\ Current(n) => InStep(attempt[n], task.details)

\* Owners besides the one that keeps the live record fresh.
Spare ==
    IF live.pid # None /\ ~live.stale /\ agent[live.pid] = "own"
    THEN Owners \ {live.pid} ELSE Owners

Driven ==
    /\ live.pid # None => agent[live.pid] \in {"own", "ended"}
    /\ Cardinality(Spare) <= stalls

Stored ==
    /\ \A n \in Attempts : attempt[n].step = "report" => attempt[n].result = row.receipt
    /\ task.status = "completed" => task.result = row.receipt /\ row.receipt # NoResult

\* What an attempt reports, or may resume with, is the terminal record.
Agrees(a) ==
    /\ a.step \in Ended => a.result.artifact = terminal
    /\ a.resume.phase = "complete" => a.resume.artifact = terminal

Single ==
    stalls = 0 =>
        /\ terminal # None => Owners = {}
        /\ \A n \in Attempts : Agrees(attempt[n])
        /\ task.details.phase = "complete" => task.details.artifact = terminal
        /\ row.receipt # NoResult => row.receipt.artifact = terminal

IInv == Records /\ Order /\ Driven /\ Stored /\ Single

-----------------------------------------------------------------------------
LEMMA Finite ==
    ASSUME NEW S, S \subseteq Attempts
    PROVE  /\ IsFiniteSet(S) /\ Cardinality(S) \in Nat
           /\ \A T \in SUBSET S : Cardinality(T) <= Cardinality(S)
           /\ \A x : Cardinality(S \cup {x}) <= Cardinality(S) + 1
<1>1. IsFiniteSet(S)
  <2>1. MaxAttempts \in Int /\ IsFiniteSet(1..MaxAttempts)
    <3>1. MaxAttempts \in Int
      BY ActivityConstants
    <3> QED BY <3>1, FS_Interval
  <2> QED BY <2>1, FS_Subset DEF Attempts
<1>2. Cardinality(S) \in Nat
  BY <1>1, FS_CardinalityType
<1>3. \A T \in SUBSET S : Cardinality(T) <= Cardinality(S)
  BY <1>1, FS_Subset
<1>4. ASSUME NEW x
      PROVE  Cardinality(S \cup {x}) <= Cardinality(S) + 1
  <2>1. CASE x \in S
    <3>1. S \cup {x} = S
      BY <2>1
    <3> QED BY <1>2, <3>1
  <2>2. CASE x \notin S
    <3>1. Cardinality(S \cup {x}) = Cardinality(S) + 1
      BY <1>1, <2>2, FS_AddElement, Zenon
    <3> QED BY <1>2, <3>1
  <2> QED BY <2>1, <2>2
<1> QED BY <1>1, <1>2, <1>3, <1>4

\* The types a step may change.
Kinds ==
    /\ row \in Row
    /\ registry \in {None, 1}
    /\ agent \in [Attempts -> {"none", "own", "attach", "replay", "ended"}]
    /\ live \in [pid : Artifact, stale : BOOLEAN]
    /\ terminal \in Artifact
    /\ stalls \in 0..MaxStalls
    /\ row.receipt # NoResult => row.receipt.session = 1 /\ row.receipt.artifact # None

\* One attempt moves, and what Temporal makes of it.
LEMMA Ordered ==
    ASSUME IInv, Kinds', NEW n \in Attempts, NEW a, Sane(a),
           attempt' = [attempt EXCEPT ![n] = a],
           a.step # "idle" => n <= task.attempt,
           task' \in Task, Genuine(task'.details),
           task'.attempt \in {task.attempt, task.attempt + 1},
           task'.status = "open" => task.status = "open",
           task'.details # task.details => task'.attempt = n /\ task.attempt = n,
           task'.status = "open" /\ task'.attempt = n => InStep(a, task'.details),
           a.step \in Early => agent'[n] = "none",
           \A m \in Attempts \ {n} : agent'[m] = agent[m]
    PROVE  Records' /\ Order'
<1>1. /\ attempt \in [Attempts -> Attempt] /\ task \in Task
      /\ \A m \in Attempts : Sane(attempt[m])
      /\ Attempts \subseteq Nat
  BY DEF IInv, Records, TypeOK, Attempts
<1>2. /\ attempt' \in [Attempts -> Attempt] /\ attempt'[n] = a
      /\ \A m \in Attempts \ {n} : attempt'[m] = attempt[m]
  BY <1>1 DEF Sane
<1>3. \A m \in Attempts : Sane(attempt'[m])
  BY <1>1, <1>2
<1>4. Records'
  <2>1. TypeOK'
    <3>1. registry' \in Session
      BY ActivityConstants DEF Kinds, Session, None
    <3> QED BY <1>2, <3>1 DEF TypeOK, Kinds, Row, Task, Attempt, HeartbeatCheckpoint, Result,
               Session, Artifact, Attempts, None
  <2>2. (\A m \in Attempts : Sane(attempt[m]))'
    BY <1>3 DEF Sane, Genuine, Attempt, HeartbeatCheckpoint, Result, Session, Artifact,
       Attempts, None, Ended
  <2>3. Genuine(task.details)'
    BY DEF Genuine, HeartbeatCheckpoint, Session, Artifact, Attempts, None
  <2> QED BY <2>1, <2>2, <2>3 DEF Records, Kinds, NoResult, None
<1>5. ASSUME NEW m \in Attempts
      PROVE  /\ m > task'.attempt => attempt'[m].step = "idle"
             /\ attempt'[m].step \in Early => agent'[m] = "none"
             /\ task'.status = "open" /\ task'.attempt = m =>
                    InStep(attempt'[m], task'.details)
  <2>0. task.attempt \in Nat /\ task'.attempt \in Nat /\ m \in Nat
    BY <1>1 DEF Task
  <2>1. m > task'.attempt => m > task.attempt
    BY <2>0
  <2>2. /\ m > task.attempt => attempt[m].step = "idle"
        /\ attempt[m].step \in Early => agent[m] = "none"
        /\ task.status = "open" /\ task.attempt = m => InStep(attempt[m], task.details)
    BY DEF IInv, Order, Current
  <2>3. CASE m = n
    <3>1. m > task'.attempt => a.step = "idle"
      BY <2>0, <2>1, <2>3
    <3> QED BY <1>2, <2>3, <3>1
  <2>4. CASE m # n
    <3>1. attempt'[m] = attempt[m] /\ agent'[m] = agent[m]
      BY <1>2, <2>4
    <3>2. ASSUME task'.status = "open", task'.attempt = m
          PROVE  InStep(attempt[m], task'.details)
      <4>1. task'.details = task.details
        BY <2>4, <3>2
      <4>2. CASE task'.attempt = task.attempt
        BY <2>2, <3>2, <4>1, <4>2
      <4>3. CASE task'.attempt = task.attempt + 1
        <5>1. attempt[m].step = "idle"
          BY <2>0, <2>2, <3>2, <4>3
        <5> QED BY <5>1 DEF InStep
      <4> QED BY <4>2, <4>3
    <3> QED BY <2>1, <2>2, <3>1, <3>2
  <2> QED BY <2>3, <2>4
<1>6. Order'
  BY <1>5 DEF Order, Current, Early, InStep
<1> QED BY <1>4, <1>6

\* The store did not change its receipt.
LEMMA StoredKept ==
    ASSUME IInv, NEW n \in Attempts, NEW a,
           attempt' = [attempt EXCEPT ![n] = a],
           row'.receipt = row.receipt,
           a.step = "report" => a.result = row.receipt,
           task'.status = "completed" =>
               \/ task.status = "completed" /\ task'.result = task.result
               \/ task'.result = row.receipt /\ row.receipt # NoResult
    PROVE  Stored'
<1>1. /\ DOMAIN attempt = Attempts /\ Stored
  BY DEF IInv, Records, TypeOK
<1>2. \A m \in Attempts : attempt'[m].step = "report" => attempt'[m].result = row'.receipt
  BY <1>1 DEF Stored
<1>3. task'.status = "completed" => task'.result = row'.receipt /\ row'.receipt # NoResult
  BY <1>1 DEF Stored
<1> QED BY <1>2, <1>3 DEF Stored, NoResult

\* No agent has finished its work in this step.
LEMMA SingleKept ==
    ASSUME IInv, Kinds', NEW n \in Attempts, NEW a,
           attempt' = [attempt EXCEPT ![n] = a],
           terminal' = terminal,
           stalls' >= stalls,
           row'.receipt = row.receipt,
           stalls = 0 => /\ Agrees(a)
                         /\ task'.details.phase = "complete" =>
                                task'.details.artifact = terminal,
           terminal # None => Owners' \subseteq Owners
    PROVE  Single'
<1>1. DOMAIN attempt = Attempts /\ Single /\ stalls \in Nat
  BY DEF IInv, Records, TypeOK
<1> SUFFICES ASSUME stalls' = 0
             PROVE  /\ terminal' # None => Owners' = {}
                    /\ \A m \in Attempts : Agrees(attempt[m])'
                    /\ task'.details.phase = "complete" => task'.details.artifact = terminal'
                    /\ row'.receipt # NoResult => row'.receipt.artifact = terminal'
  BY DEF Single, None, NoResult
<1>2. stalls = 0
  BY <1>1 DEF Kinds
<1>3. \A m \in Attempts : Agrees(attempt'[m])
  BY <1>1, <1>2 DEF Single
<1>4. \A m \in Attempts : Agrees(attempt[m])'
  BY <1>3 DEF Agrees, Ended
<1> QED BY <1>1, <1>2, <1>4 DEF Single

-----------------------------------------------------------------------------
\* Agents that own nothing come and go, owners go.
LEMMA NoNewOwner ==
    ASSUME IInv, Kinds', NEW n \in Attempts, NEW s,
           agent' = [agent EXCEPT ![n] = s],
           UNCHANGED live, stalls' = stalls,
           \/ s = agent[n]
           \/ s = "ended"
           \/ agent[n] = "none" /\ s # "own"
    PROVE  Driven' /\ Owners' \subseteq Owners
<1>1. /\ agent \in [Attempts -> {"none", "own", "attach", "replay", "ended"}]
      /\ live \in [pid : Artifact, stale : BOOLEAN]
      /\ Driven
  BY DEF IInv, Records, TypeOK
<1>2. Owners' = {m \in Attempts : agent'[m] = "own"}
  BY DEF Owners
<1>3. Owners' \subseteq Owners
  BY <1>1, <1>2 DEF Owners
<1>4. live'.pid # None => agent'[live'.pid] \in {"own", "ended"}
  BY <1>1 DEF Driven, Artifact, None
<1>5. Spare' \subseteq Spare
  <2>1. Spare' = IF live'.pid # None /\ ~live'.stale /\ agent'[live'.pid] = "own"
                 THEN Owners' \ {live'.pid} ELSE Owners'
    BY DEF Spare, None
  <2>2. CASE live.pid # None /\ ~live.stale /\ agent[live.pid] = "own"
    <3>1. live.pid \in Attempts
      BY <1>1, <2>2 DEF Artifact, None
    <3>2. Spare' \subseteq Owners' \ {live.pid}
      <4>1. CASE agent'[live.pid] = "own"
        BY <2>1, <2>2, <4>1
      <4>2. CASE agent'[live.pid] # "own"
        <5>1. live.pid \notin Owners' /\ Spare' = Owners'
          BY <1>2, <2>1, <2>2, <4>2
        <5> QED BY <5>1
      <4> QED BY <4>1, <4>2
    <3> QED BY <1>3, <2>2, <3>2 DEF Spare
  <2>3. CASE ~(live.pid # None /\ ~live.stale /\ agent[live.pid] = "own")
    <3>1. Spare = Owners
      BY <2>3 DEF Spare
    <3>2. Spare' \subseteq Owners'
      BY <2>1
    <3> QED BY <1>3, <3>1, <3>2
  <2> QED BY <2>2, <2>3
<1>6. Cardinality(Spare') <= Cardinality(Spare)
  <2>1. Spare \subseteq Attempts
    BY DEF Spare, Owners
  <2> QED BY <1>5, <2>1, Finite
<1>7. Cardinality(Spare') \in Nat /\ Cardinality(Spare) \in Nat
  <2>1. Spare \subseteq Attempts /\ Spare' \subseteq Attempts
    BY <1>5 DEF Spare, Owners
  <2> QED BY <2>1, Finite, Zenon
<1>8. Cardinality(Spare') <= stalls'
  <2>1. stalls \in Nat /\ Cardinality(Spare) <= stalls
    BY <1>1 DEF Driven, IInv, Records, TypeOK
  <2> QED BY <1>6, <1>7, <2>1
<1> QED BY <1>3, <1>4, <1>8 DEF Driven, None

\* Nobody drives the session, or its owner is late or gone: all owners are spare.
LEMMA NewOwner ==
    ASSUME IInv, Kinds', NEW n \in Attempts, agent[n] = "none",
           live.pid = None \/ live.stale \/ ~Alive(live.pid),
           agent' = [agent EXCEPT ![n] = "own"],
           live' = [pid |-> n, stale |-> FALSE], stalls' = stalls
    PROVE  Driven'
<1>1. /\ agent \in [Attempts -> {"none", "own", "attach", "replay", "ended"}]
      /\ stalls \in Nat /\ Driven /\ n # None
  BY DEF IInv, Records, TypeOK, Attempts, None
<1>2. Spare = Owners
  BY DEF Spare, Alive
<1>3. Owners' = Owners \cup {n} /\ n \notin Owners
  BY <1>1 DEF Owners
<1>4. Spare' = Owners
  BY <1>1, <1>3 DEF Spare, None
<1> QED BY <1>1, <1>2, <1>4 DEF Driven, None

\* An owner refreshes the live record, also one that another replaced in it.
LEMMA Refreshed ==
    ASSUME IInv, NEW n \in Attempts, agent[n] = "own",
           UNCHANGED <<agent, stalls>>, live' = [pid |-> n, stale |-> FALSE]
    PROVE  Driven' /\ Owners' = Owners
<1>1. stalls \in Nat /\ Driven /\ n # None
  BY DEF IInv, Records, TypeOK, Attempts, None
<1>2. Owners' = Owners /\ n \in Owners /\ Owners \subseteq Attempts
  BY DEF Owners
<1>3. Spare' = Owners \ {n}
  BY <1>1, <1>2 DEF Spare, None
<1>4. Cardinality(Owners \ {n}) <= stalls
  <2>1. CASE Spare = Owners
    <3>1. Cardinality(Owners \ {n}) <= Cardinality(Owners)
      BY <1>2, Finite
    <3>2. Cardinality(Owners \ {n}) \in Nat /\ Cardinality(Owners) \in Nat
      <4>1. Owners \ {n} \subseteq Attempts
        BY <1>2
      <4> QED BY <1>2, <4>1, Finite, Zenon
    <3> QED BY <1>1, <2>1, <3>1, <3>2 DEF Driven
  <2>2. CASE Spare # Owners
    <3>1. Spare = Owners \ {live.pid} /\ live.pid \in Owners
      BY <2>2 DEF Spare
    <3>2. /\ IsFiniteSet(Owners) /\ Cardinality(Owners) \in Nat
      BY <1>2, Finite, Zenon
    <3>3. /\ Cardinality(Owners \ {n}) = Cardinality(Owners) - 1
          /\ Cardinality(Owners \ {live.pid}) = Cardinality(Owners) - 1
      BY <1>2, <3>1, <3>2, FS_RemoveElement
    <3> QED BY <1>1, <3>1, <3>3 DEF Driven
  <2> QED BY <2>1, <2>2
<1> QED BY <1>1, <1>2, <1>3, <1>4 DEF Driven, None

\* An owner that is late may be joined by one more.
LEMMA Stalled ==
    ASSUME IInv, NEW n \in Attempts, Stall(n)
    PROVE  Driven' /\ Owners' = Owners
<1>1. stalls \in Nat /\ Driven /\ n # None
  BY DEF IInv, Records, TypeOK, Attempts, None
<1>2. Owners' = Owners /\ n \in Owners /\ Owners \subseteq Attempts
  BY DEF Owners, Stall
<1>3. Spare = Owners \ {n} /\ Spare' = Owners
  BY <1>1, <1>2 DEF Spare, Stall, None, IInv, Records, TypeOK
<1>4. Cardinality(Owners) <= Cardinality(Owners \ {n}) + 1
  <2>1. Owners = (Owners \ {n}) \cup {n}
    BY <1>2
  <2>2. Owners \ {n} \subseteq Attempts
    BY <1>2
  <2>3. Cardinality((Owners \ {n}) \cup {n}) <= Cardinality(Owners \ {n}) + 1
    BY <2>2, Finite, Zenon
  <2> QED BY <2>1, <2>3
<1>5. Cardinality(Owners) \in Nat /\ Cardinality(Owners \ {n}) \in Nat
  <2>1. Owners \ {n} \subseteq Attempts
    BY <1>2
  <2> QED BY <1>2, <2>1, Finite, Zenon
<1>6. Cardinality(Owners \ {n}) <= stalls /\ stalls' = stalls + 1
  BY <1>1, <1>3 DEF Driven, Stall
<1>7. live'.pid # None => agent'[live'.pid] \in {"own", "ended"}
  BY <1>1 DEF Stall, IInv, Records, TypeOK, None
<1>8. Cardinality(Owners) <= stalls'
  BY <1>1, <1>4, <1>5, <1>6
<1> QED BY <1>2, <1>3, <1>7, <1>8 DEF Driven, None

-----------------------------------------------------------------------------
\* An attempt that returned, or whose Worker died, knows nothing.
Over == [Idle EXCEPT !.step = "over"]

LEMMA Ending ==
    /\ Sane(Over) /\ Over.step = "over"
    /\ \A d : InStep(Over, d)
    /\ Agrees(Over)
<1>1. NoCheckpoint \in HeartbeatCheckpoint /\ NoResult \in Result
  BY ActivityConstants DEF NoCheckpoint, NoResult, HeartbeatCheckpoint, Result, Session,
     Artifact, None
<1>2. Genuine(NoCheckpoint)
  BY <1>1 DEF Genuine, NoCheckpoint
<1>3. Over = [step |-> "over", resume |-> NoCheckpoint, session |-> None,
              sequence |-> 0, result |-> NoResult]
  BY DEF Over, Idle
<1>4. Over \in Attempt
  BY <1>1, <1>3, ActivityConstants DEF Attempt, Session, None
<1>5. Over.sequence <= MaxSequence
  BY <1>3, ActivityConstants
<1>6. Sane(Over)
  BY <1>2, <1>3, <1>4, <1>5 DEF Sane, Ended
<1>7. Agrees(Over)
  BY <1>3 DEF Agrees, Ended, NoCheckpoint
<1> QED BY <1>3, <1>6, <1>7 DEF InStep

\* What Temporal may do when it hears of an attempt, but for its checkpoint.
Heard(n) ==
    \/ UNCHANGED task
    \/ Current(n) /\ task' = Retry
    \/ task.status = "open" /\ \E s \in {"failed", "canceled"} :
           task' = [task EXCEPT !.status = s]
    \/ task.status = "open" /\ task' = [task EXCEPT !.cancel = TRUE]

LEMMA Started ==
    ASSUME IInv, NEW n \in Attempts, attempt[n].step # "idle"
    PROVE  n <= task.attempt
<1>1. task.attempt \in Nat /\ n \in Nat
  BY DEF IInv, Records, TypeOK, Task, Attempts
<1>2. ~(n > task.attempt)
  BY DEF IInv, Order
<1> QED BY <1>1, <1>2

LEMMA Hearing ==
    ASSUME IInv, NEW n \in Attempts, Heard(n)
    PROVE  /\ task' \in Task
           /\ task'.details = task.details
           /\ task'.attempt \in {task.attempt, task.attempt + 1}
           /\ task'.attempt # task.attempt => Current(n)
           /\ task'.status = "open" => task.status = "open"
           /\ task'.status = "completed" => task.status = "completed" /\ task'.result = task.result
<1>1. task \in Task
  BY DEF IInv, Records, TypeOK
<1>2. CASE UNCHANGED task
  BY <1>1, <1>2
<1>3. CASE Current(n) /\ task' = Retry
  <2>1. CASE task.attempt < MaxAttempts /\ ~task.cancel
    <3>1. task' = [task EXCEPT !.attempt = @ + 1]
      BY <1>3, <2>1 DEF Retry
    <3>2. task.attempt + 1 \in Attempts
      BY <1>1, <2>1, ActivityConstants DEF Task, Attempts
    <3> QED BY <1>1, <1>3, <3>1, <3>2 DEF Task, Current
  <2>2. CASE ~(task.attempt < MaxAttempts /\ ~task.cancel)
    BY <1>1, <1>3, <2>2 DEF Retry, Task, Current
  <2> QED BY <2>1, <2>2
<1>4. CASE task.status = "open" /\ \E s \in {"failed", "canceled"} :
               task' = [task EXCEPT !.status = s]
  BY <1>1, <1>4 DEF Task
<1>5. CASE task.status = "open" /\ task' = [task EXCEPT !.cancel = TRUE]
  BY <1>1, <1>5 DEF Task
<1> QED BY <1>2, <1>3, <1>4, <1>5 DEF Heard

\* A step that finishes no work, stores nothing and takes no checkpoint.
LEMMA Moving ==
    ASSUME IInv, Kinds', Driven', NEW n \in Attempts, NEW a, Sane(a),
           attempt' = [attempt EXCEPT ![n] = a],
           Heard(n),
           row'.receipt = row.receipt, terminal' = terminal, stalls' >= stalls,
           a.step # "idle" => n <= task.attempt,
           task'.status = "open" /\ task'.attempt = n => InStep(a, task.details),
           a.step \in Early => agent'[n] = "none",
           \A m \in Attempts \ {n} : agent'[m] = agent[m],
           a.step = "report" => a.result = row.receipt,
           stalls = 0 => Agrees(a),
           terminal # None => Owners' \subseteq Owners
    PROVE  IInv'
<1>1. /\ task' \in Task
      /\ task'.details = task.details
      /\ task'.attempt \in {task.attempt, task.attempt + 1}
      /\ task'.status = "open" => task.status = "open"
      /\ task'.status = "completed" => task.status = "completed" /\ task'.result = task.result
  BY Hearing
<1>2. Genuine(task'.details)
  BY <1>1 DEF IInv, Records
<1>3. Records' /\ Order'
  BY <1>1, <1>2, Ordered
<1>4. Stored'
  BY <1>1, StoredKept
<1>5. Single'
  <2>1. stalls = 0 /\ task'.details.phase = "complete" => task'.details.artifact = terminal
    BY <1>1 DEF IInv, Single
  <2> QED BY <2>1, SingleKept
<1> QED BY <1>3, <1>4, <1>5 DEF IInv

\* An attempt returns an error or is lost; nothing else changes but agents.
LEMMA Returning ==
    ASSUME IInv, NEW n \in Attempts, attempt[n].step # "idle",
           Stop(n), Heard(n),
           NEW s, agent' = [agent EXCEPT ![n] = s], s = agent[n] \/ s = "ended",
           UNCHANGED <<row, registry, live, terminal, stalls>>
    PROVE  IInv'
<1>1. /\ Kinds /\ agent \in [Attempts -> {"none", "own", "attach", "replay", "ended"}]
      /\ stalls \in Nat /\ n <= task.attempt
  <2>1. Kinds
    BY DEF IInv, Records, TypeOK, Kinds
  <2>2. n <= task.attempt
    BY Started
  <2> QED BY <2>1, <2>2 DEF Kinds
<1>2. Kinds'
  BY <1>1 DEF Kinds, Row, Result, Session, Artifact, Attempts, None, NoResult
<1>3. Driven' /\ Owners' \subseteq Owners
  BY <1>2, NoNewOwner
<1>4. attempt' = [attempt EXCEPT ![n] = Over]
  BY DEF Stop, Over
<1>5. /\ Sane(Over) /\ Over.step \notin Early /\ Over.step # "report"
      /\ InStep(Over, task.details) /\ Agrees(Over)
  BY Ending DEF Early
<1>6. \A m \in Attempts \ {n} : agent'[m] = agent[m]
  BY <1>1
<1>7. row'.receipt = row.receipt /\ terminal' = terminal /\ stalls' >= stalls
  BY <1>1
<1> QED BY <1>1, <1>2, <1>3, <1>4, <1>5, <1>6, <1>7, Moving, Zenon

LEMMA KindsKept ==
    ASSUME IInv, UNCHANGED <<row, registry, agent, live, terminal, stalls>>
    PROVE  Kinds' /\ Driven' /\ Owners' = Owners
<1>1. Kinds /\ Driven
  BY DEF IInv, Records, TypeOK, Kinds
<1>2. Kinds'
  BY <1>1 DEF Kinds, Row, Result, Session, Artifact, Attempts, None, NoResult
<1>3. Owners' = Owners
  BY DEF Owners
<1>4. Driven'
  BY <1>1, <1>3 DEF Driven, Spare, None
<1> QED BY <1>2, <1>3, <1>4

\* What is known of an attempt.
LEMMA Knowing ==
    ASSUME IInv, NEW n \in Attempts
    PROVE  /\ Sane(attempt[n]) /\ attempt[n] \in Attempt
           /\ attempt \in [Attempts -> Attempt]
           /\ task \in Task /\ Genuine(task.details) /\ stalls \in Nat
           /\ row \in Row /\ agent \in [Attempts -> {"none", "own", "attach", "replay", "ended"}]
           /\ attempt[n].step \in Early => agent[n] = "none"
           /\ Current(n) => InStep(attempt[n], task.details)
           /\ attempt[n].step = "report" => attempt[n].result = row.receipt
           /\ stalls = 0 => Agrees(attempt[n])
BY DEF IInv, Records, TypeOK, Sane, Order, Stored, Single

\* The attempt stands still.
LEMMA Standing ==
    ASSUME IInv, Kinds', Driven', NEW n \in Attempts, Heard(n),
           UNCHANGED attempt,
           row'.receipt = row.receipt, terminal' = terminal, stalls' >= stalls,
           attempt[n].step \in Early => agent'[n] = "none",
           \A m \in Attempts \ {n} : agent'[m] = agent[m],
           terminal # None => Owners' \subseteq Owners
    PROVE  IInv'
<1>1. attempt' = [attempt EXCEPT ![n] = attempt[n]]
  BY Knowing
<1>2. attempt[n].step # "idle" => n <= task.attempt
  BY Started
<1>3. ASSUME task'.status = "open", task'.attempt = n
      PROVE  InStep(attempt[n], task.details)
  <2>1. task.status = "open" /\ task'.attempt \in {task.attempt, task.attempt + 1}
    BY <1>3, Hearing
  <2>2. CASE task.attempt = n
    BY <2>1, <2>2, Knowing DEF Current
  <2>3. CASE task.attempt + 1 = n
    <3>1. task.attempt \in Nat
      BY Knowing DEF Task, Attempts
    <3>2. attempt[n].step = "idle"
      BY <1>2, <2>3, <3>1, Started
    <3> QED BY <3>2 DEF InStep
  <2> QED BY <1>3, <2>1, <2>2, <2>3
<1>4. /\ Sane(attempt[n])
      /\ attempt[n].step = "report" => attempt[n].result = row.receipt
      /\ stalls = 0 => Agrees(attempt[n])
  BY Knowing
<1> QED BY <1>1, <1>2, <1>3, <1>4, Moving, Zenon

-----------------------------------------------------------------------------
\* The Worker's side.
LEMMA StartStep ==
    ASSUME IInv, NEW n \in Attempts, Start(n)
    PROVE  IInv'
<1> DEFINE a == [attempt[n] EXCEPT !.step = "claim", !.resume = task.details]
<1>1. attempt' = [attempt EXCEPT ![n] = a]
  BY Knowing DEF Start
<1>2. /\ a.step = "claim" /\ a.resume = task.details
      /\ a.sequence = attempt[n].sequence /\ a.session = attempt[n].session
      /\ a.result = attempt[n].result /\ a \in Attempt
  BY Knowing DEF Attempt, Genuine
<1> HIDE DEF a
<1>3. Sane(a)
  BY <1>2, Knowing DEF Sane, Ended
<1>4. InStep(a, task.details)
  BY <1>2 DEF InStep
<1>5. stalls = 0 => Agrees(a)
  BY <1>2 DEF Agrees, Ended, IInv, Single
<1>6. agent[n] = "none" /\ n <= task.attempt /\ Heard(n)
  <2>1. n = task.attempt /\ attempt[n].step = "idle"
    BY DEF Start, Current, At
  <2> QED BY <2>1, Knowing DEF Early, Start, Heard, Task, Attempts
<1>7. Kinds' /\ Driven' /\ Owners' \subseteq Owners
  BY KindsKept DEF Start
<1>8. /\ row'.receipt = row.receipt /\ terminal' = terminal /\ stalls' >= stalls
      /\ agent' = agent
  BY Knowing DEF Start
<1>9. a.step # "report"
  BY <1>2
<1> QED BY <1>1, <1>3, <1>4, <1>5, <1>6, <1>7, <1>8, <1>9, Moving, Zenon

\* An attempt goes on from a genuine checkpoint.
LEMMA Resuming ==
    ASSUME NEW c, Genuine(c)
    PROVE  /\ Sane(Resumed(c))
           /\ Resumed(c).step \in {"resolve", "execute", "store"}
           /\ InStep(Resumed(c), c)
           /\ (c.phase = "complete" => c.artifact = terminal) => Agrees(Resumed(c))
<1>1. /\ NoCheckpoint \in HeartbeatCheckpoint /\ NoResult \in Result
      /\ Genuine(NoCheckpoint)
  BY ActivityConstants DEF NoCheckpoint, NoResult, HeartbeatCheckpoint, Result, Session,
     Artifact, None, Genuine
<1>2. c \in HeartbeatCheckpoint
  BY DEF Genuine
<1>3. CASE c.phase = "none"
  <2> DEFINE a == [step |-> "resolve", resume |-> NoCheckpoint, session |-> c.session,
                   sequence |-> 0, result |-> NoResult]
  <2>1. Resumed(c) = a
    BY <1>3 DEF Resumed, Idle
  <2>2. a \in Attempt
    BY <1>1, <1>2, ActivityConstants DEF Attempt, HeartbeatCheckpoint
  <2>3. Sane(a) /\ a.step = "resolve" /\ InStep(a, c) /\ Agrees(a)
    BY <1>1, <1>3, <2>2, ActivityConstants DEF Sane, InStep, Agrees, Ended, NoCheckpoint
  <2> QED BY <2>1, <2>3
<1>4. CASE c.phase = "attached"
  <2> DEFINE a == [step |-> "execute", resume |-> NoCheckpoint, session |-> c.session,
                   sequence |-> c.sequence, result |-> NoResult]
  <2>1. Resumed(c) = a
    BY <1>4 DEF Resumed, Idle
  <2>2. a \in Attempt
    BY <1>1, <1>2, ActivityConstants DEF Attempt, HeartbeatCheckpoint
  <2>3. c.sequence <= MaxSequence /\ c.session = 1 /\ c.sequence <= c.sequence
    BY <1>2, <1>4, ActivityConstants DEF Genuine, HeartbeatCheckpoint
  <2>4. Sane(a) /\ a.step = "execute" /\ InStep(a, c) /\ Agrees(a)
    BY <1>1, <1>4, <2>2, <2>3 DEF Sane, InStep, Agrees, Ended, NoCheckpoint
  <2> QED BY <2>1, <2>4
<1>5. CASE c.phase = "complete"
  <2> DEFINE r == [session |-> c.session, artifact |-> c.artifact]
             a == [step |-> "store", resume |-> NoCheckpoint, session |-> c.session,
                   sequence |-> 0, result |-> r]
  <2>1. Resumed(c) = a
    BY <1>5 DEF Resumed, Idle
  <2>2. r \in Result /\ r.session = 1 /\ r.artifact # None /\ r.artifact = c.artifact
    BY <1>2, <1>5 DEF Genuine, Result, HeartbeatCheckpoint
  <2> HIDE DEF r
  <2>3. a \in Attempt
    BY <1>1, <1>2, <2>2, ActivityConstants DEF Attempt, HeartbeatCheckpoint
  <2>4. Sane(a) /\ a.step = "store" /\ InStep(a, c)
    BY <1>1, <2>2, <2>3, ActivityConstants DEF Sane, InStep, Ended
  <2>5. c.artifact = terminal => Agrees(a)
    BY <2>2 DEF Agrees, Ended, NoCheckpoint
  <2> QED BY <1>5, <2>1, <2>4, <2>5
<1> QED BY <1>2, <1>3, <1>4, <1>5 DEF HeartbeatCheckpoint

LEMMA ClaimStep ==
    ASSUME IInv, NEW n \in Attempts, Claim(n)
    PROVE  IInv'
<1>0. attempt[n].step = "claim"
  BY DEF Claim, At
<1>1. CASE row.rebound
  <2>1. /\ Stop(n) /\ UNCHANGED <<row, registry, agent, live, terminal, stalls>>
        /\ task' = IF Current(n) THEN [task EXCEPT !.status = "failed"] ELSE task
    BY <1>1 DEF Claim
  <2>2. Heard(n)
    BY <2>1 DEF Heard, Current
  <2>3. agent' = [agent EXCEPT ![n] = agent[n]]
    BY <2>1, Knowing
  <2> QED BY <1>0, <2>1, <2>2, <2>3, Returning
<1>2. CASE ~row.rebound
  <2> DEFINE c == attempt[n].resume
             a == Resumed(c)
  <2>1. /\ row' = [row EXCEPT !.claimed = TRUE]
        /\ UNCHANGED <<task, registry, agent, live, terminal, stalls>>
    BY <1>2 DEF Claim
  <2>2. attempt' = [attempt EXCEPT ![n] = a]
    BY <1>2, Knowing DEF Claim
  <2>3. Genuine(c)
    BY Knowing DEF Sane
  <2>4. stalls = 0 /\ c.phase = "complete" => c.artifact = terminal
    BY Knowing DEF Agrees
  <2>5. Current(n) => c = task.details
    BY <1>0, Knowing DEF InStep
  <2> HIDE DEF c
  <2>6. /\ Sane(a) /\ a.step \in {"resolve", "execute", "store"} /\ InStep(a, c)
        /\ stalls = 0 => Agrees(a)
    <3>1. /\ Sane(Resumed(c)) /\ Resumed(c).step \in {"resolve", "execute", "store"}
          /\ InStep(Resumed(c), c)
          /\ (c.phase = "complete" => c.artifact = terminal) => Agrees(Resumed(c))
      BY <2>3, Resuming, Zenon
    <3> QED BY <2>4, <3>1
  <2> HIDE DEF a
  <2>7. /\ row'.receipt = row.receipt /\ terminal' = terminal /\ stalls' >= stalls
        /\ agent' = agent /\ row' \in Row
    <3>1. row \in Row /\ stalls \in Nat
      BY Knowing, Zenon
    <3>2. row' = [row EXCEPT !.claimed = TRUE]
      BY <2>1
    <3>3. row'.receipt = row.receipt /\ row' \in Row
      BY <3>1, <3>2 DEF Row
    <3> QED BY <2>1, <3>1, <3>3
  <2>8. Kinds' /\ Driven' /\ Owners' \subseteq Owners
    <3>1. Kinds /\ Driven
      BY DEF IInv, Records, TypeOK, Kinds
    <3>2. Kinds'
      BY <2>1, <2>7, <3>1 DEF Kinds, Row, Result, Session, Artifact, Attempts, None, NoResult
    <3>3. Owners' = Owners
      BY <2>1 DEF Owners
    <3>4. Driven'
      BY <2>1, <3>1, <3>3 DEF Driven, Spare, None
    <3> QED BY <3>2, <3>3, <3>4
  <2>9. n <= task.attempt /\ agent'[n] = "none" /\ Heard(n)
    BY <1>0, <2>1, Started, Knowing DEF Early, Heard
  <2>10. task'.status = "open" /\ task'.attempt = n => InStep(a, task.details)
    BY <2>1, <2>5, <2>6 DEF Current
  <2>11. a.step # "report"
    BY <2>6
  <2> QED BY <2>2, <2>6, <2>7, <2>8, <2>9, <2>10, <2>11, Moving, Zenon
<1> QED BY <1>1, <1>2

LEMMA ResolveStep ==
    ASSUME IInv, NEW n \in Attempts, ResolveSession(n)
    PROVE  IInv'
<1>0. attempt[n].step = "resolve" /\ LoadOrCreateSession = 1
  BY DEF ResolveSession, At, LoadOrCreateSession, IInv, Records
<1> DEFINE a == [attempt[n] EXCEPT !.session = 1, !.step = "execute"]
<1>1. attempt' = [attempt EXCEPT ![n] = a] /\ registry' = 1
  BY <1>0, Knowing DEF ResolveSession
<1>2. /\ a.step = "execute" /\ a.resume = attempt[n].resume
      /\ a.sequence = attempt[n].sequence /\ a.session = 1
      /\ a.result = attempt[n].result /\ a \in Attempt
  <2>1. 1 \in Session
    BY ActivityConstants DEF Session
  <2> QED BY <2>1, Knowing DEF Attempt
<1> HIDE DEF a
<1>3. Sane(a)
  BY <1>2, Knowing DEF Sane, Ended
<1>4. Current(n) => InStep(a, task.details)
  <2>1. Current(n) => task.details.phase = "none" /\ task.details.sequence = 0
    BY <1>0, Knowing DEF InStep, Genuine
  <2>2. 0 <= a.sequence
    BY <1>2 DEF Attempt
  <2> QED BY <1>2, <2>1, <2>2 DEF InStep
<1>5. stalls = 0 => Agrees(a)
  BY <1>0, <1>2, Knowing DEF Agrees, Ended
<1>6. agent[n] = "none" /\ n <= task.attempt
  BY <1>0, Knowing, Started DEF Early
<1>7. UNCHANGED <<row, task, agent, live, terminal, stalls>>
  BY DEF ResolveSession
<1>8. Kinds' /\ Driven' /\ Owners' \subseteq Owners
  <2>1. Kinds /\ Driven
    BY DEF IInv, Records, TypeOK, Kinds
  <2>2. Kinds'
    BY <1>1, <1>7, <2>1 DEF Kinds, Row, Result, Session, Artifact, Attempts, None, NoResult
  <2>3. Owners' = Owners
    BY <1>7 DEF Owners
  <2>4. Driven'
    BY <1>7, <2>1, <2>3 DEF Driven, Spare, None
  <2> QED BY <2>2, <2>3, <2>4
<1>9. /\ Heard(n) /\ row'.receipt = row.receipt /\ terminal' = terminal
      /\ stalls' >= stalls /\ agent' = agent
      /\ task'.status = "open" /\ task'.attempt = n => Current(n)
  BY <1>7, Knowing DEF Heard, Current
<1>10. a.step # "report"
  BY <1>2
<1> QED BY <1>1, <1>3, <1>4, <1>5, <1>6, <1>8, <1>9, <1>10, Moving, Zenon

LEMMA ExecuteStep ==
    ASSUME IInv, NEW n \in Attempts, Execute(n)
    PROVE  IInv'
<1>0. attempt[n].step = "execute"
  BY DEF Execute, At
<1> DEFINE a == [attempt[n] EXCEPT !.step = "run"]
<1>1. attempt' = [attempt EXCEPT ![n] = a]
  BY Knowing DEF Execute, Go
<1>2. /\ a.step = "run" /\ a.resume = attempt[n].resume
      /\ a.sequence = attempt[n].sequence /\ a.session = attempt[n].session
      /\ a.result = attempt[n].result /\ a \in Attempt
  BY Knowing DEF Attempt
<1> HIDE DEF a
<1>3. Sane(a)
  BY <1>0, <1>2, Knowing DEF Sane, Ended
<1>4. Current(n) => InStep(a, task.details)
  BY <1>0, <1>2, Knowing DEF InStep
<1>5. stalls = 0 => Agrees(a)
  BY <1>0, <1>2, Knowing DEF Agrees, Ended
<1>6. agent[n] = "none" /\ n <= task.attempt
  BY <1>0, Knowing, Started DEF Early
<1>7. /\ agent' = [agent EXCEPT ![n] = DecideMode]
      /\ live' = IF DecideMode = "own" THEN [pid |-> n, stale |-> FALSE] ELSE live
      /\ UNCHANGED <<row, task, registry, terminal, stalls>>
  BY DEF Execute
<1>8. /\ DecideMode \in {"own", "attach", "replay"}
      /\ DecideMode = "own" => /\ terminal = None
                               /\ live.pid = None \/ live.stale \/ ~Alive(live.pid)
  BY DEF DecideMode
<1>9. Kinds'
  <2>1. Kinds
    BY DEF IInv, Records, TypeOK, Kinds
  <2>2. agent' \in [Attempts -> {"none", "own", "attach", "replay", "ended"}]
    BY <1>7, <1>8, Knowing
  <2>3. live' \in [pid : Artifact, stale : BOOLEAN]
    BY <1>7, <2>1 DEF Kinds, Artifact
  <2> QED BY <1>7, <2>1, <2>2, <2>3 DEF Kinds, Row, Result, Session, Artifact, Attempts,
             None, NoResult
<1>10. Driven' /\ (terminal # None => Owners' \subseteq Owners)
  <2>1. CASE DecideMode = "own"
    <3>1. /\ agent' = [agent EXCEPT ![n] = "own"]
          /\ live' = [pid |-> n, stale |-> FALSE] /\ stalls' = stalls
      BY <1>7, <2>1
    <3> QED BY <1>6, <1>8, <1>9, <2>1, <3>1, NewOwner
  <2>2. CASE DecideMode # "own"
    <3>1. UNCHANGED live /\ stalls' = stalls
      BY <1>7, <2>2
    <3> QED BY <1>6, <1>7, <1>9, <2>2, <3>1, NoNewOwner, Zenon
  <2> QED BY <2>1, <2>2
<1>11. /\ Heard(n) /\ row'.receipt = row.receipt /\ terminal' = terminal
       /\ stalls' >= stalls
       /\ \A m \in Attempts \ {n} : agent'[m] = agent[m]
       /\ task'.status = "open" /\ task'.attempt = n => Current(n)
  BY <1>7, Knowing DEF Heard, Current
<1>12. a.step # "report" /\ a.step \notin Early
  BY <1>2 DEF Early
<1> QED BY <1>1, <1>3, <1>4, <1>5, <1>6, <1>9, <1>10, <1>11, <1>12, Moving, Zenon

-----------------------------------------------------------------------------
\* The agent's side.
LEMMA WorkStep ==
    ASSUME IInv, NEW n \in Attempts, Work(n)
    PROVE  IInv'
<1>1. /\ agent[n] \in {"own", "attach"}
      /\ live' = IF agent[n] = "own" THEN [pid |-> n, stale |-> FALSE] ELSE live
      /\ UNCHANGED <<row, task, registry, agent, terminal, stalls>>
  BY DEF Work
<1>2. Kinds'
  <2>1. Kinds
    BY DEF IInv, Records, TypeOK, Kinds
  <2>2. live' \in [pid : Artifact, stale : BOOLEAN]
    BY <1>1, <2>1 DEF Kinds, Artifact
  <2> QED BY <1>1, <2>1, <2>2 DEF Kinds, Row, Result, Session, Artifact, Attempts,
             None, NoResult
<1>3. Driven' /\ Owners' \subseteq Owners
  <2>1. CASE agent[n] = "own"
    BY <1>1, <2>1, Refreshed
  <2>2. CASE agent[n] # "own"
    <3>1. agent' = [agent EXCEPT ![n] = agent[n]]
      BY <1>1, Knowing
    <3> QED BY <1>1, <1>2, <2>2, <3>1, NoNewOwner
  <2> QED BY <2>1, <2>2
<1>4. /\ Heard(n) /\ row'.receipt = row.receipt /\ terminal' = terminal
      /\ stalls' >= stalls
      /\ \A m \in Attempts \ {n} : agent'[m] = agent[m]
      /\ task'.status = "open" /\ task'.attempt = n => Current(n)
      /\ attempt[n].step \notin Early
  BY <1>1, Knowing DEF Heard, Current
<1>5. CASE UNCHANGED attempt
  BY <1>2, <1>3, <1>4, <1>5, Standing, Zenon
<1>6. CASE /\ Listening(n) /\ attempt[n].sequence < MaxSequence
           /\ attempt' = [attempt EXCEPT ![n].sequence = @ + 1]
  <2> DEFINE a == [attempt[n] EXCEPT !.sequence = @ + 1]
  <2>1. attempt' = [attempt EXCEPT ![n] = a] /\ attempt[n].step = "run"
    BY <1>6, Knowing DEF Listening, At
  <2>2. /\ attempt[n].sequence \in Nat /\ attempt[n].sequence + 1 <= MaxSequence
        /\ attempt[n].sequence + 1 \in 0..(MaxSequence + 1)
    BY <1>6, Knowing, ActivityConstants DEF Attempt
  <2>3. /\ a.step = "run" /\ a.resume = attempt[n].resume
        /\ a.sequence = attempt[n].sequence + 1 /\ a.session = attempt[n].session
        /\ a.result = attempt[n].result /\ a \in Attempt
    BY <2>1, <2>2, Knowing DEF Attempt
  <2> HIDE DEF a
  <2>4. Sane(a)
    BY <2>1, <2>2, <2>3, Knowing DEF Sane, Ended
  <2>5. Current(n) => InStep(a, task.details)
    <3>1. task.details.sequence \in Nat
      BY Knowing, ActivityConstants DEF Genuine, HeartbeatCheckpoint
    <3> QED BY <2>1, <2>2, <2>3, <3>1, Knowing DEF InStep
  <2>6. stalls = 0 => Agrees(a)
    BY <2>1, <2>3, Knowing DEF Agrees, Ended
  <2>7. n <= task.attempt
    BY <2>1, Started
  <2>8. a.step # "report" /\ a.step \notin Early
    BY <2>3 DEF Early
  <2> QED BY <1>2, <1>3, <1>4, <2>1, <2>4, <2>5, <2>6, <2>7, <2>8, Moving, Zenon
<1> QED BY <1>5, <1>6 DEF Work

LEMMA StallStep ==
    ASSUME IInv, NEW n \in Attempts, Stall(n)
    PROVE  IInv'
<1>1. /\ Kinds /\ stalls < MaxStalls /\ stalls' = stalls + 1 /\ agent[n] = "own"
      /\ live' = [live EXCEPT !.stale = TRUE]
      /\ UNCHANGED <<row, task, attempt, registry, agent, terminal>>
  BY DEF Stall, IInv, Records, TypeOK, Kinds
<1>2. Kinds'
  <2>1. stalls' \in 0..MaxStalls
    BY <1>1, ActivityConstants DEF Kinds
  <2>2. live' \in [pid : Artifact, stale : BOOLEAN]
    BY <1>1 DEF Kinds
  <2> QED BY <1>1, <2>1, <2>2 DEF Kinds, Row, Result, Session, Artifact, Attempts,
             None, NoResult
<1>3. Driven' /\ Owners' \subseteq Owners
  BY Stalled
<1>4. /\ Heard(n) /\ row'.receipt = row.receipt /\ terminal' = terminal
      /\ stalls' >= stalls
      /\ \A m \in Attempts \ {n} : agent'[m] = agent[m]
      /\ attempt[n].step \notin Early
  BY <1>1, Knowing DEF Heard
<1> QED BY <1>1, <1>2, <1>3, <1>4, Standing, Zenon

\* The attempt that still reads gets a result with its session.
LEMMA Answered ==
    ASSUME IInv, NEW n \in Attempts, NEW x \in Attempts, Answer(n, x),
           agent[n] \in {"own", "attach", "replay"}
    PROVE  \E a :
               /\ attempt' = [attempt EXCEPT ![n] = a]
               /\ Sane(a)
               /\ a.step \notin Early
               /\ a.step = "report" => a.result = row.receipt
               /\ Current(n) => InStep(a, task.details)
               /\ a.resume = attempt[n].resume
               /\ a.step \in Ended =>
                      \/ a.result.artifact = x
                      \/ attempt[n].step \in Ended /\ a.result = attempt[n].result
<1>1. CASE Listening(n)
  <2> DEFINE r == [session |-> attempt[n].session, artifact |-> x]
             a == [attempt[n] EXCEPT !.step = "finish", !.result = r]
  <2>1. attempt' = [attempt EXCEPT ![n] = a] /\ attempt[n].step = "run"
    BY <1>1, Knowing DEF Answer, Listening, At
  <2>2. r \in Result /\ r.session = 1 /\ r.artifact # None /\ r.artifact = x
    BY <2>1, Knowing DEF Result, Sane, Artifact, Attempts, None, Session, Attempt
  <2> HIDE DEF r
  <2>3. /\ a.step = "finish" /\ a.resume = attempt[n].resume
        /\ a.sequence = attempt[n].sequence /\ a.session = attempt[n].session
        /\ a.result = r /\ a \in Attempt
    BY <2>2, Knowing DEF Attempt
  <2> HIDE DEF a
  <2>4. Sane(a)
    BY <2>1, <2>2, <2>3, Knowing DEF Sane, Ended
  <2>5. Current(n) => InStep(a, task.details)
    BY <2>1, <2>3, Knowing DEF InStep
  <2>6. a.step \notin Early /\ a.step # "report"
    BY <2>3 DEF Early
  <2> QED BY <2>1, <2>2, <2>3, <2>4, <2>5, <2>6, Zenon
<1>2. CASE ~Listening(n)
  <2>1. attempt' = [attempt EXCEPT ![n] = attempt[n]]
    BY <1>2, Knowing DEF Answer
  <2>2. attempt[n].step \notin Early
    BY Knowing
  <2> QED BY <2>1, <2>2, Knowing, Zenon
<1> QED BY <1>1, <1>2

LEMMA AnswerStep ==
    ASSUME IInv, NEW n \in Attempts, AnswerTerminal(n)
    PROVE  IInv'
<1>1. /\ agent[n] \in {"own", "attach", "replay"} /\ terminal # None /\ terminal' = terminal
      /\ Answer(n, terminal)
      /\ agent' = [agent EXCEPT ![n] = "ended"]
      /\ UNCHANGED <<row, task, registry, live, stalls>>
  BY DEF AnswerTerminal, Answer
<1>2. Kinds /\ terminal \in Attempts
  BY <1>1 DEF IInv, Records, TypeOK, Kinds, Artifact
<1>3. PICK a :
          /\ attempt' = [attempt EXCEPT ![n] = a]
          /\ Sane(a)
          /\ a.step \notin Early
          /\ a.step = "report" => a.result = row.receipt
          /\ Current(n) => InStep(a, task.details)
          /\ a.resume = attempt[n].resume
          /\ a.step \in Ended =>
                 \/ a.result.artifact = terminal
                 \/ attempt[n].step \in Ended /\ a.result = attempt[n].result
  BY <1>1, <1>2, Answered
<1>4. Kinds'
  <2>1. agent' \in [Attempts -> {"none", "own", "attach", "replay", "ended"}]
    BY <1>1, Knowing
  <2> QED BY <1>1, <1>2, <2>1 DEF Kinds, Row, Result, Session, Artifact, Attempts,
             None, NoResult
<1>5. Driven' /\ Owners' \subseteq Owners
  BY <1>1, <1>4, NoNewOwner
<1>6. stalls = 0 => Agrees(a)
  BY <1>3, Knowing DEF Agrees
<1>7. /\ Heard(n) /\ row'.receipt = row.receipt /\ stalls' >= stalls
      /\ \A m \in Attempts \ {n} : agent'[m] = agent[m]
      /\ task'.status = "open" /\ task'.attempt = n => Current(n)
  BY <1>1, Knowing DEF Heard, Current
<1>8. n <= task.attempt
  BY <1>1, Started, Knowing DEF Early
<1> QED BY <1>1, <1>3, <1>4, <1>5, <1>6, <1>7, <1>8, Moving, Zenon

\* While no owner is late there is one, and nothing was reported before it ends.
LEMMA FinishStep ==
    ASSUME IInv, NEW n \in Attempts, FinishWork(n)
    PROVE  IInv'
<1>1. /\ agent[n] = "own" /\ terminal' = n /\ Answer(n, n)
      /\ agent' = [agent EXCEPT ![n] = "ended"]
      /\ UNCHANGED <<row, task, registry, live, stalls>>
  BY DEF FinishWork, Answer
<1>2. Kinds /\ stalls \in Nat /\ Driven /\ Single
  BY DEF IInv, Records, TypeOK, Kinds
<1>3. PICK a :
          /\ attempt' = [attempt EXCEPT ![n] = a]
          /\ Sane(a)
          /\ a.step \notin Early
          /\ a.step = "report" => a.result = row.receipt
          /\ Current(n) => InStep(a, task.details)
          /\ a.resume = attempt[n].resume
          /\ a.step \in Ended =>
                 \/ a.result.artifact = n
                 \/ attempt[n].step \in Ended /\ a.result = attempt[n].result
  BY <1>1, Answered
<1>4. Kinds'
  <2>1. agent' \in [Attempts -> {"none", "own", "attach", "replay", "ended"}]
    BY <1>1, Knowing
  <2>2. terminal' \in Artifact
    BY <1>1 DEF Artifact
  <2> QED BY <1>1, <1>2, <2>1, <2>2 DEF Kinds, Row, Result, Session, Artifact, Attempts,
             None, NoResult
<1>5. Driven'
  BY <1>1, <1>4, NoNewOwner
<1>6. /\ n <= task.attempt
      /\ \A m \in Attempts \ {n} : agent'[m] = agent[m]
      /\ task'.status = "open" /\ task'.attempt = n => Current(n)
  BY <1>1, Started, Knowing DEF Early, Current
<1>7. Records' /\ Order'
  <2>1. /\ task' \in Task /\ Genuine(task'.details) /\ task'.details = task.details
        /\ task'.attempt = task.attempt /\ task'.status = task.status
    BY <1>1, Knowing
  <2> QED BY <1>3, <1>4, <1>6, <2>1, Ordered
<1>8. Stored'
  <2>1. task'.status = "completed" => task.status = "completed" /\ task'.result = task.result
    BY <1>1
  <2>2. row'.receipt = row.receipt
    BY <1>1
  <2> QED BY <1>3, <2>1, <2>2, StoredKept
<1>9. Single'
  <2> SUFFICES ASSUME stalls' = 0
               PROVE  /\ Owners' = {}
                      /\ \A m \in Attempts : Agrees(attempt[m])'
                      /\ task'.details.phase = "complete" => task'.details.artifact = n
                      /\ row'.receipt # NoResult => row'.receipt.artifact = n
    BY <1>1 DEF Single, None, NoResult
  <2>1. stalls = 0 /\ n \in Owners
    BY <1>1 DEF Owners
  <2>2. terminal = None
    BY <1>2, <2>1 DEF Single
  <2>3. /\ \A m \in Attempts : /\ attempt[m].step \notin Ended
                              /\ attempt[m].resume.phase # "complete"
        /\ task.details.phase # "complete"
        /\ row.receipt = NoResult
    <3>1. \A m \in Attempts : Agrees(attempt[m]) /\ Sane(attempt[m])
      BY <1>2, <2>1, Knowing DEF Single
    <3>2. \A m \in Attempts : attempt[m].step \notin Ended
      BY <2>2, <3>1 DEF Agrees, Sane
    <3>3. \A m \in Attempts : attempt[m].resume.phase # "complete"
      BY <2>2, <3>1 DEF Agrees, Sane, Genuine
    <3>4. task.details.phase # "complete"
      BY <1>2, <2>1, <2>2, Knowing DEF Single, Genuine
    <3>5. row.receipt = NoResult
      BY <1>2, <2>1, <2>2 DEF Single, Kinds
    <3> QED BY <3>2, <3>3, <3>4, <3>5
  <2>4. Owners' = {}
    <3>1. Spare = {}
      <4>1. Spare \subseteq Attempts
        BY DEF Spare, Owners
      <4>2. IsFiniteSet(Spare) /\ Cardinality(Spare) \in Nat
        BY <4>1, Finite, Zenon
      <4>3. Cardinality(Spare) = 0
        BY <1>2, <2>1, <4>2 DEF Driven
      <4> QED BY <4>2, <4>3, FS_EmptySet, Zenon
    <3>2. Owners = {n}
      BY <2>1, <3>1 DEF Spare
    <3>3. Owners' = {m \in Attempts : agent'[m] = "own"}
      BY DEF Owners
    <3>4. n \notin Owners' /\ Owners' \subseteq Owners
      BY <1>1, <3>3, Knowing DEF Owners
    <3> QED BY <3>2, <3>4
  <2>5. \A m \in Attempts : /\ attempt'[m].step \in Ended => attempt'[m].result.artifact = n
                           /\ attempt'[m].resume.phase # "complete"
    BY <1>3, <2>3, Knowing
  <2>6. \A m \in Attempts : Agrees(attempt[m])'
    BY <1>1, <2>5 DEF Agrees, Ended
  <2> QED BY <1>1, <2>3, <2>4, <2>6
<1> QED BY <1>5, <1>7, <1>8, <1>9 DEF IInv

\* An agent process ends without an answer: its attempt fails if it still reads.
LEMMA AgentEndsStep ==
    ASSUME IInv, NEW n \in Attempts, Alive(n), AgentEnds(n)
    PROVE  IInv'
<1>1. /\ agent[n] \in {"own", "attach", "replay"}
      /\ agent' = [agent EXCEPT ![n] = "ended"]
      /\ UNCHANGED <<row, registry, live, terminal, stalls>>
  BY DEF AgentEnds, Alive
<1>2. attempt[n].step \notin Early
  BY <1>1, Knowing
<1>3. CASE Fail(n)
  <2>1. Stop(n) /\ Heard(n)
    BY <1>3 DEF Fail, Heard
  <2>2. attempt[n].step # "idle"
    BY <1>2 DEF Early
  <2> QED BY <1>1, <2>1, <2>2, Returning
<1>4. CASE UNCHANGED <<attempt, task>>
  <2>1. Kinds'
    <3>1. Kinds
      BY DEF IInv, Records, TypeOK, Kinds
    <3>2. agent' \in [Attempts -> {"none", "own", "attach", "replay", "ended"}]
      BY <1>1, Knowing
    <3> QED BY <1>1, <3>1, <3>2 DEF Kinds, Row, Result, Session, Artifact, Attempts,
               None, NoResult
  <2>2. Driven' /\ Owners' \subseteq Owners
    BY <1>1, <2>1, NoNewOwner
  <2>3. /\ Heard(n) /\ row'.receipt = row.receipt /\ terminal' = terminal
        /\ stalls' >= stalls
        /\ \A m \in Attempts \ {n} : agent'[m] = agent[m]
    BY <1>1, <1>4, Knowing DEF Heard
  <2> QED BY <1>2, <1>4, <2>1, <2>2, <2>3, Standing, Zenon
<1> QED BY <1>3, <1>4 DEF AgentEnds

-----------------------------------------------------------------------------
\* Checkpoints.  The present attempt is never behind the one Temporal holds.
LEMMA HeartbeatStep ==
    ASSUME IInv, NEW n \in Attempts, Heartbeat(n)
    PROVE  IInv'
<1>1. attempt[n].step = "run" /\ UNCHANGED <<row, registry, live, terminal, stalls>>
  BY DEF Heartbeat, At
<1>2. CASE Current(n) /\ ~task.cancel
  <2> DEFINE c == Checkpoint(n)
  <2>1. task' = [task EXCEPT !.details = c] /\ UNCHANGED <<attempt, agent>>
    BY <1>2 DEF Heartbeat
  <2>2. /\ c.phase = "attached" /\ c.session = 1 /\ c.sequence = attempt[n].sequence
        /\ c \in HeartbeatCheckpoint /\ c.sequence <= MaxSequence
    BY <1>1, Knowing DEF Checkpoint, HeartbeatCheckpoint, Sane, Attempt, Artifact
  <2>3. Genuine(c)
    BY <2>2 DEF Genuine
  <2> HIDE DEF c
  <2>4. /\ task' \in Task /\ task'.details = c
        /\ task'.attempt = task.attempt /\ task'.status = task.status
        /\ task'.result = task.result
    BY <2>1, <2>2, Knowing DEF Task
  <2>5. attempt' = [attempt EXCEPT ![n] = attempt[n]] /\ Sane(attempt[n])
    BY <2>1, Knowing
  <2>6. InStep(attempt[n], c)
    <3>1. attempt[n].sequence \in Nat
      BY Knowing DEF Attempt
    <3> QED BY <1>1, <2>2, <3>1 DEF InStep
  <2>7. Kinds' /\ Driven' /\ Owners' = Owners
    BY <1>1, <2>1, KindsKept
  <2>8. Records' /\ Order'
    <3>1. n <= task.attempt /\ task.attempt = n
      BY <1>1, <1>2, Started DEF Current
    <3>2. attempt[n].step \notin Early /\ \A m \in Attempts \ {n} : agent'[m] = agent[m]
      BY <1>1, <2>1 DEF Early
    <3> QED BY <2>3, <2>4, <2>5, <2>6, <2>7, <3>1, <3>2, Ordered
  <2>9. Stored' /\ Single'
    <3>1. attempt[n].step # "report" /\ row'.receipt = row.receipt /\ terminal' = terminal
          /\ stalls' >= stalls
      BY <1>1, Knowing
    <3>2. Stored'
      BY <2>4, <2>5, <3>1, StoredKept
    <3>3. stalls = 0 => Agrees(attempt[n])
      BY Knowing
    <3>4. task'.details.phase # "complete"
      BY <2>2, <2>4
    <3> QED BY <2>5, <2>7, <3>1, <3>2, <3>3, <3>4, SingleKept
  <2> QED BY <2>7, <2>8, <2>9 DEF IInv
<1>3. CASE ~(Current(n) /\ ~task.cancel)
  <2> DEFINE s == IF Alive(n) THEN "ended" ELSE agent[n]
  <2>1. /\ Stop(n) /\ agent' = [agent EXCEPT ![n] = s]
        /\ task' = IF Current(n) THEN [task EXCEPT !.status = "canceled"] ELSE task
    BY <1>3, Knowing DEF Heartbeat
  <2>2. Heard(n)
    BY <2>1 DEF Heard, Current
  <2>3. s = agent[n] \/ s = "ended"
    OBVIOUS
  <2>4. attempt[n].step # "idle"
    BY <1>1
  <2> HIDE DEF s
  <2> QED BY <1>1, <2>1, <2>2, <2>3, <2>4, Returning
<1> QED BY <1>2, <1>3

LEMMA FinalHeartbeatStep ==
    ASSUME IInv, NEW n \in Attempts, RecordFinalHeartbeat(n)
    PROVE  IInv'
<1> DEFINE final == [phase |-> "complete", session |-> attempt[n].result.session,
                     sequence |-> attempt[n].sequence + 1,
                     artifact |-> attempt[n].result.artifact]
           a == [attempt[n] EXCEPT !.step = "store", !.sequence = 0]
<1>1. /\ attempt[n].step = "finish"
      /\ attempt' = [attempt EXCEPT ![n] = a]
      /\ \/ UNCHANGED task
         \/ Current(n) /\ task' = [task EXCEPT !.details = final]
      /\ UNCHANGED <<row, registry, agent, live, terminal, stalls>>
  BY Knowing DEF RecordFinalHeartbeat, At
<1>2. /\ a.step = "store" /\ a.resume = attempt[n].resume
      /\ a.sequence = 0 /\ a.session = attempt[n].session
      /\ a.result = attempt[n].result /\ a \in Attempt
  <2>1. attempt[n] \in Attempt
    BY Knowing, Zenon
  <2>2. 0 \in 0..(MaxSequence + 1)
    BY ActivityConstants
  <2> QED BY <2>1, <2>2 DEF Attempt
<1> HIDE DEF a
<1>3. Sane(a)
  BY <1>1, <1>2, Knowing, ActivityConstants DEF Sane, Ended
<1>4. /\ final \in HeartbeatCheckpoint /\ final.phase = "complete"
      /\ final.artifact = attempt[n].result.artifact /\ Genuine(final)
  <2>1. /\ attempt[n].sequence + 1 \in 0..(MaxSequence + 1)
        /\ attempt[n].result \in Result
        /\ attempt[n].result.session = 1 /\ attempt[n].result.artifact # None
    BY <1>1, Knowing, ActivityConstants DEF Sane, Attempt, Ended
  <2> QED BY <2>1 DEF Genuine, HeartbeatCheckpoint, Result
<1> HIDE DEF final
<1>5. /\ task' \in Task /\ Genuine(task'.details)
      /\ task'.attempt = task.attempt /\ task'.status = task.status
      /\ task'.result = task.result
      /\ task'.details = task.details \/ (task'.details = final /\ task.attempt = n)
  BY <1>1, <1>4, Knowing DEF Task, Current
<1>6. Kinds' /\ Driven' /\ Owners' = Owners
  BY <1>1, KindsKept
<1>7. Records' /\ Order'
  <2>1. n <= task.attempt
    BY <1>1, Started
  <2>2. InStep(a, task'.details) /\ a.step \notin Early
    BY <1>2 DEF InStep, Early
  <2>3. \A m \in Attempts \ {n} : agent'[m] = agent[m]
    BY <1>1
  <2> QED BY <1>1, <1>3, <1>5, <1>6, <2>1, <2>2, <2>3, Ordered
<1>8. Stored' /\ Single'
  <2>1. a.step # "report" /\ row'.receipt = row.receipt /\ terminal' = terminal
        /\ stalls' >= stalls
    BY <1>1, <1>2, Knowing
  <2>2. Stored'
    BY <1>1, <1>5, <2>1, StoredKept
  <2>3. stalls = 0 => /\ Agrees(a) /\ attempt[n].result.artifact = terminal
    BY <1>1, <1>2, Knowing DEF Agrees, Ended
  <2>4. stalls = 0 /\ task'.details.phase = "complete" => task'.details.artifact = terminal
    BY <1>4, <1>5, <2>3 DEF IInv, Single
  <2> QED BY <1>1, <1>6, <2>1, <2>2, <2>3, <2>4, SingleKept
<1> QED BY <1>6, <1>7, <1>8 DEF IInv

-----------------------------------------------------------------------------
\* The store keeps the first receipt.
LEMMA CompleteStep ==
    ASSUME IInv, NEW n \in Attempts, Complete(n)
    PROVE  IInv'
<1>0. attempt[n].step = "store" /\ UNCHANGED <<registry, agent, live, terminal, stalls>>
  BY DEF Complete, At
<1>1. CASE ~Accepts(attempt[n].result)
  <2>1. Fail(n) /\ UNCHANGED row
    BY <1>1 DEF Complete
  <2>2. Stop(n) /\ Heard(n)
    BY <2>1 DEF Fail, Heard
  <2>3. agent' = [agent EXCEPT ![n] = agent[n]]
    BY <1>0, Knowing
  <2>4. attempt[n].step # "idle"
    BY <1>0
  <2> QED BY <1>0, <2>1, <2>2, <2>3, <2>4, Returning
<1>2. CASE Accepts(attempt[n].result)
  <2> DEFINE r == attempt[n].result
             a == [attempt[n] EXCEPT !.step = "report"]
  <2>1. /\ attempt' = [attempt EXCEPT ![n] = a] /\ UNCHANGED task
        /\ row' = [row EXCEPT !.receipt = r]
        /\ row.receipt = NoResult \/ row.receipt = r
    BY <1>2, Knowing DEF Complete, Go, Accepts
  <2>2. r \in Result /\ r.session = 1 /\ r.artifact # None /\ r # NoResult
    BY <1>0, Knowing DEF Sane, Attempt, Ended, NoResult
  <2>3. row' \in Row /\ row'.receipt = r
    BY <2>1, <2>2, Knowing DEF Row
  <2>4. /\ a.step = "report" /\ a.resume = attempt[n].resume
        /\ a.sequence = attempt[n].sequence /\ a.session = attempt[n].session
        /\ a.result = r /\ a \in Attempt
    BY Knowing DEF Attempt
  <2> HIDE DEF a
  <2>5. Sane(a)
    BY <1>0, <2>2, <2>4, Knowing DEF Sane, Ended
  <2>6. InStep(a, task'.details) /\ a.step \notin Early
    BY <2>4 DEF InStep, Early
  <2>7. stalls = 0 => Agrees(a) /\ r.artifact = terminal
    BY <1>0, <2>4, Knowing DEF Agrees, Ended
  <2> HIDE DEF r
  <2>8. Kinds' /\ Driven' /\ Owners' = Owners
    <3>1. Kinds /\ Driven
      BY DEF IInv, Records, TypeOK, Kinds
    <3>2. Kinds'
      BY <1>0, <2>2, <2>3, <3>1 DEF Kinds, Row, Result, Session, Artifact, Attempts,
         None, NoResult
    <3>3. Owners' = Owners
      BY <1>0 DEF Owners
    <3>4. Driven'
      BY <1>0, <3>1, <3>3 DEF Driven, Spare, None
    <3> QED BY <3>2, <3>3, <3>4
  <2>9. Records' /\ Order'
    <3>1. n <= task.attempt /\ \A m \in Attempts \ {n} : agent'[m] = agent[m]
      BY <1>0, Started
    <3>2. /\ task' \in Task /\ Genuine(task'.details) /\ task'.details = task.details
          /\ task'.attempt = task.attempt /\ task'.status = task.status
      BY <2>1, Knowing
    <3> QED BY <2>1, <2>5, <2>6, <2>8, <3>1, <3>2, Ordered
  <2>10. Stored'
    <3>1. Stored /\ DOMAIN attempt = Attempts
      BY Knowing DEF IInv
    <3>2. \A m \in Attempts : attempt'[m].step = "report" => attempt'[m].result = r
      <4> TAKE m \in Attempts
      <4>1. CASE m = n
        BY <2>1, <2>4, <3>1, <4>1
      <4>2. CASE m # n
        <5>1. attempt'[m] = attempt[m]
          BY <2>1, <3>1, <4>2
        <5>2. attempt[m].step = "report" => attempt[m].result = row.receipt
                                            /\ attempt[m].result # NoResult
          BY <3>1, Knowing DEF Stored, Sane, Ended, NoResult
        <5> QED BY <2>1, <5>1, <5>2
      <4> QED BY <4>1, <4>2
    <3>3. task.status = "completed" => task.result = r
      BY <2>1, <3>1 DEF Stored
    <3>4. task'.status = "completed" => task'.result = r
      BY <2>1, <3>3
    <3> QED BY <2>2, <2>3, <3>2, <3>4 DEF Stored, NoResult
  <2>11. Single'
    <3> SUFFICES ASSUME stalls' = 0
                 PROVE  /\ terminal' # None => Owners' = {}
                        /\ \A m \in Attempts : Agrees(attempt[m])'
                        /\ task'.details.phase = "complete" => task'.details.artifact = terminal'
                        /\ row'.receipt # NoResult => row'.receipt.artifact = terminal'
      BY DEF Single, None, NoResult
    <3>1. stalls = 0 /\ Single
      BY <1>0 DEF IInv
    <3>2. \A m \in Attempts : Agrees(attempt'[m])
      BY <2>1, <2>7, <3>1, Knowing DEF Single
    <3>3. \A m \in Attempts : Agrees(attempt[m])'
      BY <1>0, <3>2 DEF Agrees, Ended
    <3> QED BY <1>0, <2>1, <2>3, <2>7, <2>8, <3>1, <3>3 DEF Single
  <2> QED BY <2>8, <2>9, <2>10, <2>11 DEF IInv
<1> QED BY <1>1, <1>2

LEMMA ReportStep ==
    ASSUME IInv, NEW n \in Attempts, Report(n)
    PROVE  IInv'
<1>1. /\ attempt[n].step = "report" /\ attempt' = [attempt EXCEPT ![n] = Over]
      /\ UNCHANGED <<row, registry, agent, live, terminal, stalls>>
      /\ task' = IF Current(n)
                 THEN [task EXCEPT !.status = "completed", !.result = attempt[n].result]
                 ELSE task
  BY DEF Report, At, Stop, Over
<1>2. /\ attempt[n].result \in Result /\ attempt[n].result = row.receipt
      /\ row.receipt # NoResult
  BY <1>1, Knowing DEF Sane, Attempt, Ended, NoResult
<1>3. /\ task' \in Task /\ task'.details = task.details /\ Genuine(task'.details)
      /\ task'.attempt = task.attempt
      /\ task'.status = "open" => task.status = "open"
      /\ task'.status = "completed" =>
             \/ task.status = "completed" /\ task'.result = task.result
             \/ task'.result = row.receipt /\ row.receipt # NoResult
  BY <1>1, <1>2, Knowing DEF Task
<1>4. /\ Sane(Over) /\ Over.step \notin Early /\ Over.step # "report"
      /\ InStep(Over, task'.details) /\ Agrees(Over)
  BY Ending DEF Early
<1>5. Kinds' /\ Driven' /\ Owners' = Owners
  BY <1>1, KindsKept
<1>6. /\ n <= task.attempt /\ row'.receipt = row.receipt /\ terminal' = terminal
      /\ stalls' >= stalls /\ \A m \in Attempts \ {n} : agent'[m] = agent[m]
  BY <1>1, Started, Knowing
<1>7. Records' /\ Order'
  BY <1>1, <1>3, <1>4, <1>5, <1>6, Ordered
<1>8. Stored'
  BY <1>1, <1>3, <1>4, <1>6, StoredKept
<1>9. Single'
  <2>1. stalls = 0 /\ task'.details.phase = "complete" => task'.details.artifact = terminal
    BY <1>3 DEF IInv, Single
  <2> QED BY <1>1, <1>4, <1>5, <1>6, <2>1, SingleKept
<1> QED BY <1>5, <1>7, <1>8, <1>9 DEF IInv

\* A failed call, a dead Worker, and what Temporal or the bead's producer does.
LEMMA OtherSteps ==
    ASSUME IInv, \/ \E n \in Attempts : CallFails(n) \/ WorkerDies(n)
                 \/ TimesOut \/ Cancel \/ Rebind \/ UNCHANGED vars
    PROVE  IInv'
<1>1. ASSUME NEW n \in Attempts, CallFails(n) \/ WorkerDies(n)
      PROVE  IInv'
  <2>1. /\ attempt[n].step # "idle" /\ Stop(n) /\ Heard(n)
        /\ UNCHANGED <<row, registry, agent, live, terminal, stalls>>
    BY <1>1 DEF CallFails, WorkerDies, Fail, Heard
  <2>2. agent' = [agent EXCEPT ![n] = agent[n]]
    BY <2>1, Knowing
  <2> QED BY <2>1, <2>2, Returning
<1>2. CASE TimesOut \/ Cancel \/ Rebind \/ UNCHANGED vars
  <2> DEFINE n == task.attempt
  <2>1. n \in Attempts
    BY DEF IInv, Records, TypeOK, Task
  <2>2. /\ Heard(n)
        /\ UNCHANGED <<attempt, registry, agent, live, terminal, stalls>>
    BY <1>2 DEF TimesOut, Cancel, Rebind, vars, Heard, Current
  <2>3. row' \in Row /\ row'.receipt = row.receipt
    BY <1>2, <2>1, Knowing DEF TimesOut, Cancel, Rebind, vars, Row
  <2>4. Kinds' /\ Driven' /\ Owners' = Owners
    <3>1. Kinds /\ Driven
      BY DEF IInv, Records, TypeOK, Kinds
    <3>2. Kinds'
      BY <2>2, <2>3, <3>1 DEF Kinds, Row, Result, Session, Artifact, Attempts, None, NoResult
    <3>3. Owners' = Owners
      BY <2>2 DEF Owners
    <3>4. Driven'
      BY <2>2, <3>1, <3>3 DEF Driven, Spare, None
    <3> QED BY <3>2, <3>3, <3>4
  <2>5. /\ terminal' = terminal /\ stalls' >= stalls
        /\ attempt[n].step \in Early => agent'[n] = "none"
        /\ \A m \in Attempts \ {n} : agent'[m] = agent[m]
        /\ Owners' \subseteq Owners
    BY <2>1, <2>2, <2>4, Knowing
  <2> HIDE DEF n
  <2> QED BY <2>1, <2>2, <2>3, <2>4, <2>5, Standing
<1> QED BY <1>1, <1>2

-----------------------------------------------------------------------------
\* The invariant holds in every reachable state.
THEOREM Invariance == Spec => []IInv
<1>1. Init => IInv
  <2> SUFFICES ASSUME Init
               PROVE  IInv
    OBVIOUS
  <2>1. /\ NoCheckpoint \in HeartbeatCheckpoint /\ NoResult \in Result
        /\ Genuine(NoCheckpoint)
    BY ActivityConstants DEF NoCheckpoint, NoResult, HeartbeatCheckpoint, Result, Session,
       Artifact, None, Genuine
  <2>2. Idle \in Attempt
    BY <2>1, ActivityConstants DEF Idle, Attempt, Session, None
  <2>3. /\ Idle.step = "idle" /\ Idle.sequence = 0 /\ Idle.resume = NoCheckpoint
    BY DEF Idle
  <2>4. Sane(Idle) /\ Agrees(Idle)
    BY <2>1, <2>2, <2>3, ActivityConstants DEF Sane, Agrees, Ended, NoCheckpoint
  <2>5. task \in Task /\ 1 \in Attempts
    BY <2>1, ActivityConstants DEF Init, Task, Attempts
  <2>6. TypeOK
    BY <2>1, <2>2, <2>5, ActivityConstants DEF Init, TypeOK, Row, Session, Artifact, None
  <2>7. Records
    BY <2>1, <2>4, <2>6 DEF Init, Records
  <2>8. Order
    BY <2>3 DEF Init, Order, InStep
  <2>9. Owners = {} /\ Spare = {}
    BY DEF Init, Owners, Spare, None
  <2>10. Driven
    BY <2>9, FS_EmptySet DEF Init, Driven, None
  <2>11. Stored
    BY <2>3 DEF Init, Stored
  <2>12. Single
    BY <2>4, <2>9 DEF Init, Single, NoCheckpoint
  <2> QED BY <2>7, <2>8, <2>10, <2>11, <2>12 DEF IInv
<1>2. IInv /\ [Next]_vars => IInv'
  <2> SUFFICES ASSUME IInv, [Next]_vars
               PROVE  IInv'
    OBVIOUS
  <2>1. ASSUME NEW n \in Attempts, Advance(n)
        PROVE  IInv'
    <3>1. CASE AttachTimesOut(n)
      <4>1. Alive(n) /\ AgentEnds(n)
        <5>1. n # None
          BY DEF Attempts, None
        <5> QED BY <3>1, <5>1 DEF AttachTimesOut, Alive
      <4> QED BY <4>1, AgentEndsStep
    <3> QED BY <2>1, <3>1, StartStep, ClaimStep, ResolveStep, ExecuteStep, FinishStep,
               AnswerStep, FinalHeartbeatStep, CompleteStep, ReportStep, Zenon DEF Advance
  <2>2. ASSUME NEW n \in Attempts, Work(n) \/ Stall(n) \/ AgentDies(n) \/ Heartbeat(n)
        PROVE  IInv'
    BY <2>2, WorkStep, StallStep, AgentEndsStep, HeartbeatStep, Zenon DEF AgentDies
  <2>3. CASE \/ \E n \in Attempts : CallFails(n) \/ WorkerDies(n)
             \/ TimesOut \/ Cancel \/ Rebind \/ UNCHANGED vars
    BY <2>3, OtherSteps
  <2> QED BY <2>1, <2>2, <2>3, Zenon DEF Next
<1> QED BY <1>1, <1>2, PTL DEF Spec

\* Every variable keeps its type.
THEOREM TypeCorrect == Spec => []TypeOK
BY Invariance, PTL DEF IInv, Records

\* For any number of attempts and progress messages, a session has one agent that
\* owns it and at most one more for every time an owner was late: never a second
\* one because a Worker died, was forgotten, or timed out.
THEOREM EachLatenessCostsOneAgent == Spec => []OwnersBounded
<1>1. IInv => OwnersBounded
  <2> SUFFICES ASSUME IInv
               PROVE  OwnersBounded
    OBVIOUS
  <2>1. stalls \in Nat /\ Cardinality(Spare) <= stalls
    BY DEF IInv, Records, TypeOK, Driven
  <2>2. Spare \subseteq Attempts /\ Owners \subseteq Spare \cup {live.pid}
    BY DEF Spare, Owners
  <2>3. Cardinality(Spare) \in Nat /\ Cardinality(Spare \cup {live.pid}) <= Cardinality(Spare) + 1
    BY <2>2, Finite, Zenon
  <2>4. IsFiniteSet(Spare \cup {live.pid})
    <3>1. IsFiniteSet(Spare)
      BY <2>2, Finite, Zenon
    <3> QED BY <3>1, FS_AddElement
  <2>5. /\ Cardinality(Owners) <= Cardinality(Spare \cup {live.pid})
        /\ Cardinality(Owners) \in Nat /\ Cardinality(Spare \cup {live.pid}) \in Nat
    BY <2>2, <2>4, FS_Subset, FS_CardinalityType
  <2>6. Cardinality(Owners) <= 1 + stalls
    BY <2>1, <2>3, <2>5
  <2> QED BY <2>6 DEF OwnersBounded
<1> QED BY <1>1, Invariance, PTL

\* The Workflow is told what the store keeps, and a retry would be told the same.
THEOREM ResultsAgree == Spec => []ReceiptAgrees
<1>1. IInv => ReceiptAgrees
  <2> SUFFICES ASSUME IInv
               PROVE  ReceiptAgrees
    OBVIOUS
  <2>1. task.status = "completed" => task.result = row.receipt
    BY DEF IInv, Stored
  <2>2. ASSUME stalls = 0, task.details.phase = "complete", row.receipt # NoResult
        PROVE  row.receipt = [session |-> task.details.session,
                              artifact |-> task.details.artifact]
    <3>1. row.receipt \in Result
      BY DEF IInv, Records, TypeOK, Row
    <3>2. row.receipt.session = 1 /\ task.details.session = 1
      BY <2>2 DEF IInv, Records, Genuine
    <3>3. row.receipt.artifact = terminal /\ task.details.artifact = terminal
      BY <2>2 DEF IInv, Single
    <3> QED BY <3>1, <3>2, <3>3 DEF Result
  <2> QED BY <2>1, <2>2 DEF ReceiptAgrees
<1> QED BY <1>1, Invariance, PTL

\* The checkpoint never goes back, whichever attempts still heartbeat.
THEOREM CheckpointsAdvance == Spec => CheckpointAdvances
<1> DEFINE Advanced == /\ task'.details.sequence >= task.details.sequence
                       /\ task.details.phase = "complete" => task'.details = task.details
                       /\ task.details.phase # "none" =>
                              task'.details.session = task.details.session
<1>1. IInv /\ [Next]_vars => Advanced
  <2> SUFFICES ASSUME IInv, [Next]_vars
               PROVE  Advanced
    OBVIOUS
  <2>0. task \in Task /\ task.details.sequence \in Nat
    BY ActivityConstants DEF IInv, Records, TypeOK, Task, HeartbeatCheckpoint
  <2>1. CASE task'.details = task.details
    BY <2>0, <2>1
  <2>2. ASSUME NEW n \in Attempts, Current(n), attempt[n].step \in {"run", "finish"},
               NEW c, task' = [task EXCEPT !.details = c],
               c.session = 1, c.sequence \in {attempt[n].sequence, attempt[n].sequence + 1}
        PROVE  Advanced
    <3>1. /\ task'.details = c /\ task.details.phase # "complete"
          /\ task.details.sequence <= attempt[n].sequence
          /\ attempt[n].sequence \in Nat
      BY <2>0, <2>2, Knowing DEF InStep, Task, Attempt
    <3>2. task.details.phase # "none" => task.details.session = 1
      BY Knowing, <2>2 DEF Genuine
    <3> QED BY <2>0, <2>2, <3>1, <3>2
  <2>3. ASSUME NEW n \in Attempts, Heartbeat(n), task'.details # task.details
        PROVE  Advanced
    <3>1. /\ Current(n) /\ attempt[n].step = "run"
          /\ task' = [task EXCEPT !.details = Checkpoint(n)]
      BY <2>0, <2>3 DEF Heartbeat, At, Task
    <3>2. /\ Checkpoint(n).session = 1
          /\ Checkpoint(n).sequence \in {attempt[n].sequence, attempt[n].sequence + 1}
      BY <3>1, Knowing DEF Checkpoint, Sane
    <3> QED BY <2>2, <3>1, <3>2
  <2>4. ASSUME NEW n \in Attempts, RecordFinalHeartbeat(n), task'.details # task.details
        PROVE  Advanced
    <3> DEFINE final == [phase |-> "complete", session |-> attempt[n].result.session,
                         sequence |-> attempt[n].sequence + 1,
                         artifact |-> attempt[n].result.artifact]
    <3>1. /\ Current(n) /\ attempt[n].step = "finish"
          /\ task' = [task EXCEPT !.details = final]
      BY <2>0, <2>4 DEF RecordFinalHeartbeat, At
    <3>2. /\ final.session = 1
          /\ final.sequence \in {attempt[n].sequence, attempt[n].sequence + 1}
      BY <3>1, Knowing DEF Sane, Ended
    <3> HIDE DEF final
    <3> QED BY <2>2, <3>1, <3>2
  <2>5. ASSUME NEW n \in Attempts, task'.details # task.details
        PROVE  ~Heard(n) /\ ~(task' = task)
    BY <2>5, Hearing
  <2>6. ASSUME NEW n \in Attempts, Report(n)
        PROVE  task'.details = task.details
    BY <2>0, <2>6 DEF Report, Task
  <2>7. ASSUME NEW n \in Attempts, ~Heartbeat(n), ~RecordFinalHeartbeat(n), ~Report(n),
               \/ Advance(n) \/ Work(n) \/ Stall(n) \/ AgentDies(n)
               \/ CallFails(n) \/ WorkerDies(n)
        PROVE  Heard(n)
    BY <2>7 DEF Advance, Start, Claim, ResolveSession, Execute, FinishWork, AnswerTerminal,
       AttachTimesOut, Complete, Work, Stall, AgentDies, AgentEnds, CallFails, WorkerDies,
       Answer, Fail, Heard, Current
  <2>8. CASE TimesOut \/ Cancel \/ Rebind \/ UNCHANGED vars
    <3>1. task.attempt \in Attempts
      BY <2>0 DEF Task
    <3>2. Heard(task.attempt)
      BY <2>8 DEF TimesOut, Cancel, Rebind, vars, Heard, Current
    <3> QED BY <2>1, <2>5, <3>1, <3>2
  <2>9. ASSUME NEW n \in Attempts,
               \/ Advance(n) \/ Work(n) \/ Stall(n) \/ AgentDies(n) \/ Heartbeat(n)
               \/ CallFails(n) \/ WorkerDies(n)
        PROVE  Advanced
    <3> HIDE DEF Advanced
    <3> QED BY <2>1, <2>3, <2>4, <2>5, <2>6, <2>7, <2>9, Zenon
  <2> HIDE DEF Advanced
  <2> QED BY <2>8, <2>9, Zenon DEF Next
<1>2. IInv /\ [Next]_vars => [Advanced]_vars
  BY <1>1
<1> QED BY <1>2, Invariance, PTL DEF Spec, CheckpointAdvances

-----------------------------------------------------------------------------
\* The row as a ledger of one bead, which the Activity finds at generation 1 and
\* which is published once more when it is rebound.  The attempts of the Activity
\* claim for the one Workflow that runs it.
TheWorkflow == CHOOSE w : w # NoResult

Entry ==
    IF row.rebound
    THEN [gen |-> 2, phase |-> "ready", holder |-> NoResult, receipt |-> NoResult]
    ELSE [gen     |-> 1,
          phase   |-> IF row.receipt # NoResult THEN "completed"
                      ELSE IF row.claimed THEN "claimed" ELSE "ready",
          holder  |-> IF row.claimed THEN TheWorkflow ELSE NoResult,
          receipt |-> row.receipt]

RowLedger == [b \in {"bead"} |-> Entry]

Store == INSTANCE BeadLedger
    WITH Beads <- {"bead"}, Workflows <- {TheWorkflow}, Receipts <- Result \ {NoResult},
         Generations <- {1, 2}, None <- NoResult, work <- RowLedger

LEMMA StoreConstants == Store!LedgerConstants
<1>1. TheWorkflow # NoResult
  <2>1. \E w : w # NoResult
    <3>1. [session |-> None, artifact |-> 1] # NoResult
      BY DEF NoResult, None
    <3> QED BY <3>1, Zenon
  <2> QED BY <2>1, Zenon DEF TheWorkflow
<1> QED BY <1>1 DEF Store!LedgerConstants

\* The row holds a receipt of a claim only.
ClaimedFirst == row.receipt # NoResult => row.claimed

\* A step of any attempt changes the row as the ledger allows, or not at all.
LEMMA RowStep ==
    ASSUME IInv, ClaimedFirst, [Next]_vars
    PROVE  ClaimedFirst' /\ [Store!Next]_RowLedger /\ Store!FencedStep("bead")
<1>0. row \in Row
  BY DEF IInv, Records, TypeOK
<1>1. ASSUME UNCHANGED row
      PROVE  ClaimedFirst' /\ UNCHANGED RowLedger /\ Store!FencedStep("bead")
  <2>1. Entry' = Entry /\ Entry.gen \in Nat
    BY <1>1 DEF Entry
  <2> QED BY <1>1, <2>1 DEF ClaimedFirst, RowLedger, Store!FencedStep
<1>2. ASSUME NEW n \in Attempts, Claim(n)
      PROVE  ClaimedFirst' /\ [Store!Next]_RowLedger /\ Store!FencedStep("bead")
  <2>1. CASE row.rebound
    BY <1>1, <1>2, <2>1 DEF Claim
  <2>2. CASE ~row.rebound /\ row.claimed
    <3>1. row' = row
      BY <1>0, <1>2, <2>2 DEF Claim, Row
    <3> QED BY <1>1, <3>1
  <2>3. CASE ~row.rebound /\ ~row.claimed
    <3>1. /\ ~row'.rebound /\ row'.claimed /\ row'.receipt = row.receipt
          /\ row.receipt = NoResult
      BY <1>0, <1>2, <2>3 DEF Claim, Row, ClaimedFirst
    <3>2. Entry = [gen |-> 1, phase |-> "ready", holder |-> NoResult, receipt |-> NoResult]
      BY <2>3, <3>1 DEF Entry
    <3>3. Entry' = [gen |-> 1, phase |-> "claimed", holder |-> TheWorkflow,
                    receipt |-> NoResult]
      BY <3>1 DEF Entry
    <3>4. Store!Claim("bead", TheWorkflow)
      BY <3>2, <3>3 DEF Store!Claim, RowLedger
    <3>5. Store!FencedStep("bead")
      BY <3>2, <3>3 DEF Store!FencedStep, RowLedger
    <3> QED BY <3>1, <3>4, <3>5 DEF Store!Next, ClaimedFirst
  <2> QED BY <2>1, <2>2, <2>3
<1>3. ASSUME NEW n \in Attempts, Complete(n)
      PROVE  ClaimedFirst' /\ [Store!Next]_RowLedger /\ Store!FencedStep("bead")
  <2> DEFINE r == attempt[n].result
  <2>1. CASE ~Accepts(r)
    BY <1>1, <1>3, <2>1 DEF Complete
  <2>2. CASE Accepts(r) /\ row.receipt = r
    <3>1. row' = row
      BY <1>0, <1>3, <2>2 DEF Complete, Row
    <3> QED BY <1>1, <3>1
  <2>3. CASE Accepts(r) /\ row.receipt # r
    <3>1. r \in Result \ {NoResult}
      <4>1. attempt[n] \in Attempt /\ Sane(attempt[n]) /\ attempt[n].step = "store"
        BY <1>3, Knowing DEF Complete, At
      <4> QED BY <4>1 DEF Attempt, Sane, Ended, NoResult
    <3>2. /\ ~row.rebound /\ row.claimed /\ row.receipt = NoResult
          /\ ~row'.rebound /\ row'.claimed /\ row'.receipt = r
      BY <1>0, <1>3, <2>3 DEF Complete, Accepts, Row
    <3> HIDE DEF r
    <3>3. Entry = [gen |-> 1, phase |-> "claimed", holder |-> TheWorkflow,
                   receipt |-> NoResult]
      BY <3>2 DEF Entry
    <3>4. Entry' = [gen |-> 1, phase |-> "completed", holder |-> TheWorkflow, receipt |-> r]
      BY <3>1, <3>2 DEF Entry
    <3>5. Store!Complete("bead", r)
      BY <3>3, <3>4 DEF Store!Complete, RowLedger
    <3>6. Store!FencedStep("bead")
      BY <3>3, <3>4 DEF Store!FencedStep, RowLedger
    <3> QED BY <3>1, <3>2, <3>5, <3>6 DEF Store!Next, ClaimedFirst
  <2> QED BY <2>1, <2>2, <2>3
<1>4. ASSUME Rebind PROVE ClaimedFirst' /\ [Store!Next]_RowLedger /\ Store!FencedStep("bead")
  <2>1. /\ ~row.rebound /\ row'.rebound
        /\ row'.claimed = row.claimed /\ row'.receipt = row.receipt
    BY <1>0, <1>4 DEF Rebind, Row
  <2>2. Entry.gen = 1
    BY <2>1 DEF Entry
  <2>3. Entry' = [gen |-> 2, phase |-> "ready", holder |-> NoResult, receipt |-> NoResult]
    BY <2>1 DEF Entry
  <2>4. Store!Publish("bead", 2)
    BY <2>2, <2>3 DEF Store!Publish, RowLedger
  <2>5. Store!FencedStep("bead")
    BY <2>2, <2>3 DEF Store!FencedStep, RowLedger
  <2> QED BY <2>1, <2>4, <2>5 DEF Store!Next, ClaimedFirst
<1>5. ASSUME \/ TimesOut \/ Cancel \/ UNCHANGED vars
             \/ \E n \in Attempts :
                    \/ Start(n) \/ ResolveSession(n) \/ Execute(n)
                    \/ FinishWork(n) \/ AnswerTerminal(n) \/ AttachTimesOut(n)
                    \/ RecordFinalHeartbeat(n) \/ Report(n)
                    \/ Work(n) \/ Stall(n) \/ AgentDies(n)
                    \/ Heartbeat(n) \/ CallFails(n) \/ WorkerDies(n)
      PROVE  UNCHANGED row
  BY <1>5 DEF TimesOut, Cancel, vars, Start, ResolveSession, Execute, FinishWork,
     AnswerTerminal, Answer, AttachTimesOut, AgentEnds, RecordFinalHeartbeat, Report,
     Work, Stall, AgentDies, Heartbeat, CallFails, WorkerDies
<1> QED BY <1>1, <1>2, <1>3, <1>4, <1>5 DEF Next, Advance

\* The attempts of an Activity, forgotten ones included, drive the row of their
\* bead only through the steps of the ledger, which is what both stores
\* implement: together they claim once and complete once, and not at all once
\* the bead is published again.
THEOREM RowFollowsLedger == Spec => [][[Store!Next]_RowLedger]_vars
<1>1. Init => ClaimedFirst
  BY DEF Init, ClaimedFirst
<1>2. IInv /\ ClaimedFirst /\ [Next]_vars => ClaimedFirst'
  BY RowStep
<1>3. IInv /\ ClaimedFirst /\ [Next]_vars => [[Store!Next]_RowLedger]_vars
  BY RowStep
<1> QED BY <1>1, <1>2, <1>3, Invariance, PTL DEF Spec

\* No attempt replaces the claim or the receipt of another one, or goes back to
\* an older generation.
THEOREM RowFenced == Spec => [][Store!FencedStep("bead")]_vars
<1>1. Init => ClaimedFirst
  BY DEF Init, ClaimedFirst
<1>2. IInv /\ ClaimedFirst /\ [Next]_vars => ClaimedFirst'
  BY RowStep
<1>3. IInv /\ ClaimedFirst /\ [Next]_vars => [Store!FencedStep("bead")]_vars
  BY RowStep
<1> QED BY <1>1, <1>2, <1>3, Invariance, PTL DEF Spec

=============================================================================
