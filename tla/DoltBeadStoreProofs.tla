-------------------------- MODULE DoltBeadStoreProofs --------------------------
(***************************************************************************)
(* Theorems about DoltBeadStore, for every value of its constants: IInv is  *)
(* inductive, the invariants its runs check follow from it, and every step  *)
(* of the row is a step of the fenced ledger.                               *)
(***************************************************************************)
EXTENDS DoltBeadStore, TLAPS

USE DEF Attempt, Row, Outcome, Finalization, Sources

-----------------------------------------------------------------------------
\* The initial rows satisfy the inductive invariant.
LEMMA InitIInv == Init => IInv
  <1> SUFFICES ASSUME Init PROVE IInv
    OBVIOUS
  <1>1. NewIssue \in Row
    BY DoltConstants DEF NewIssue, NoOutcome, NoFinal
  <1>2. TypeOK
    BY <1>1 DEF Init, TypeOK
  <1>3. RowInv /\ ClaimingInv /\ GrantInv /\ AckInv /\ FinalProof
    BY DEF Init, RowInv, ClaimingInv, GrantInv, AckInv, FinalProof, NewIssue, NoOutcome, NoFinal
  <1>4. QED
    BY <1>2, <1>3 DEF Init, IInv, LeaseInv, CompletionDurable, ReceiptsEmitted,
       OneGrantPerGeneration, OneReceiptPerGeneration, OutcomeConserved, OneAcknowledgement

-----------------------------------------------------------------------------
\* A higher generation: the claim and the receipt go, the outcome stays.
LEMMA TransitionReadyIInv ==
    ASSUME IInv, NEW b \in Beads, NEW g \in Generations, TransitionReady(b, g)
    PROVE  IInv'
  <1> DEFINE r == [row[b] EXCEPT !.status = "open", !.gen = g, !.holder = None,
                                 !.receipt = None, !.event = "pending", !.failures = {}]
  <1> USE DoltConstants DEF TransitionReady
  <1>0. TypeOK
    BY DEF IInv
  <1>1. TypeOK'
    <2>1. r \in Row
      <3>1. row[b] \in Row
        BY <1>0 DEF TypeOK
      <3>2. QED
        BY <3>1
    <2>2. row' \in [Beads -> Row]
      BY <1>0, <2>1 DEF TypeOK
    <2>3. QED
      BY <1>0, <2>2 DEF TypeOK
  <1>2. RowInv'
    BY <1>0 DEF IInv, TypeOK, RowInv
  <1>3. ClaimingInv'
    BY <1>0 DEF IInv, TypeOK, ClaimingInv, Claimable
  <1>4. LeaseInv'
    BY <1>0 DEF IInv, TypeOK, LeaseInv, MatchesFence
  <1>5. CompletionDurable' /\ ReceiptsEmitted' /\ OneReceiptPerGeneration'
    BY <1>0 DEF IInv, TypeOK, CompletionDurable, ReceiptsEmitted, OneReceiptPerGeneration
  <1>6. AckInv' /\ OneAcknowledgement' /\ FinalProof'
    BY <1>0 DEF IInv, TypeOK, AckInv, OneAcknowledgement, FinalProof
  <1>7. OutcomeConserved'
    <2>1. \A x \in Beads : row'[x].outcome = row[x].outcome
      BY <1>0 DEF TypeOK
    <2>2. QED
      BY <1>0, <2>1 DEF IInv, TypeOK, OutcomeConserved, Surfaced, Acknowledged
  <1>8. GrantInv' /\ OneGrantPerGeneration'
    BY <1>0 DEF IInv, TypeOK, GrantInv, OneGrantPerGeneration, MatchesFence
  <1>9. QED
    BY <1>1, <1>2, <1>3, <1>4, <1>5, <1>6, <1>7, <1>8 DEF IInv

\* Acknowledging the ready event.
LEMMA AcknowledgeReadyEventIInv ==
    ASSUME IInv, NEW b \in Beads, NEW g \in Generations, AcknowledgeReadyEvent(b, g)
    PROVE  IInv'
  <1> DEFINE r == [row[b] EXCEPT !.event = "acknowledged"]
  <1> USE DoltConstants DEF AcknowledgeReadyEvent
  <1>0. TypeOK
    BY DEF IInv
  <1>1. TypeOK'
    <2>1. row[b] \in Row
      BY <1>0 DEF TypeOK
    <2>2. r \in Row
      BY <2>1
    <2>3. row' \in [Beads -> Row]
      BY <1>0, <2>2 DEF TypeOK
    <2>4. QED
      BY <1>0, <2>3 DEF TypeOK
  <1>2. RowInv'
    BY <1>0 DEF IInv, TypeOK, RowInv
  <1>3. ClaimingInv'
    BY <1>0 DEF IInv, TypeOK, ClaimingInv, Claimable
  <1>4. LeaseInv'
    BY <1>0 DEF IInv, TypeOK, LeaseInv, MatchesFence
  <1>5. CompletionDurable' /\ ReceiptsEmitted' /\ OneReceiptPerGeneration'
    BY <1>0 DEF IInv, TypeOK, CompletionDurable, ReceiptsEmitted, OneReceiptPerGeneration
  <1>6. AckInv' /\ OneAcknowledgement' /\ FinalProof'
    BY <1>0 DEF IInv, TypeOK, AckInv, OneAcknowledgement, FinalProof
  <1>7. OutcomeConserved'
    <2>1. \A x \in Beads : row'[x].outcome = row[x].outcome
      BY <1>0 DEF TypeOK
    <2>2. QED
      BY <1>0, <2>1 DEF IInv, TypeOK, OutcomeConserved, Surfaced, Acknowledged
  <1>8. GrantInv' /\ OneGrantPerGeneration'
    BY <1>0 DEF IInv, TypeOK, GrantInv, OneGrantPerGeneration, MatchesFence
  <1>9. QED
    BY <1>1, <1>2, <1>3, <1>4, <1>5, <1>6, <1>7, <1>8 DEF IInv

\* The first attempt of a claim.
LEMMA ClaimBeginIInv ==
    ASSUME IInv, NEW c \in Callers, NEW b \in Beads, NEW g \in Generations,
           NEW w \in Workflows, ClaimBegin(c, b, g, w)
    PROVE  IInv'
  <1> USE DoltConstants DEF ClaimBegin
  <1>0. TypeOK
    BY DEF IInv
  <1>1. TypeOK'
    BY <1>0 DEF TypeOK
  <1>2. RowInv' /\ AckInv' /\ OneAcknowledgement' /\ FinalProof'
    BY <1>0 DEF IInv, TypeOK, RowInv, AckInv, OneAcknowledgement, FinalProof
  <1>3. ClaimingInv'
    BY <1>0 DEF IInv, TypeOK, ClaimingInv, Claimable
  <1>4. LeaseInv'
    BY <1>0 DEF IInv, TypeOK, LeaseInv, MatchesFence, HeldBy
  <1>5. CompletionDurable' /\ ReceiptsEmitted' /\ OneReceiptPerGeneration'
    BY <1>0 DEF IInv, TypeOK, CompletionDurable, ReceiptsEmitted, OneReceiptPerGeneration
  <1>6. OutcomeConserved'
    BY <1>0 DEF IInv, TypeOK, OutcomeConserved, Surfaced, Acknowledged
  <1>7. GrantInv' /\ OneGrantPerGeneration'
    BY <1>0 DEF IInv, TypeOK, GrantInv, OneGrantPerGeneration, MatchesFence
  <1>8. QED
    BY <1>1, <1>2, <1>3, <1>4, <1>5, <1>6, <1>7 DEF IInv

\* A refused commit and the attempt after it.
LEMMA ClaimRetryIInv ==
    ASSUME IInv, NEW c \in Callers, ClaimRetry(c)
    PROVE  IInv'
  <1> DEFINE q == claiming[c]
  <1> USE DoltConstants DEF ClaimRetry
  <1>0. TypeOK
    BY DEF IInv
  <1>1. TypeOK'
    BY <1>0 DEF TypeOK
  <1>2. RowInv' /\ AckInv' /\ OneAcknowledgement' /\ FinalProof'
    BY <1>0 DEF IInv, TypeOK, RowInv, AckInv, OneAcknowledgement, FinalProof
  <1>3. ClaimingInv'
    BY <1>0 DEF IInv, TypeOK, ClaimingInv, Claimable
  <1>4. LeaseInv'
    <2>1. /\ q \in Attempt
          /\ row[q.bead] \in Row
          /\ row[q.bead].gen >= q.gen
      BY <1>0 DEF IInv, TypeOK, ClaimingInv
    <2>2. CASE leases' = leases
      BY <1>0, <2>2 DEF IInv, LeaseInv, MatchesFence
    <2>3. CASE /\ HeldBy(row[q.bead], q.gen, q.workflow) \/ row[q.bead].gen # q.gen
               /\ leases' = leases \cup {<<q.bead, q.gen, q.workflow>>}
      <3>1. row[q.bead].gen > q.gen \/ HeldBy(row[q.bead], q.gen, q.workflow)
        BY <2>1, <2>3, DoltConstants
      <3>2. QED
        BY <1>0, <2>1, <2>3, <3>1 DEF IInv, LeaseInv, MatchesFence, HeldBy
    <2>4. QED
      BY <2>2, <2>3
  <1>5. CompletionDurable' /\ ReceiptsEmitted' /\ OneReceiptPerGeneration'
    BY <1>0 DEF IInv, TypeOK, CompletionDurable, ReceiptsEmitted, OneReceiptPerGeneration
  <1>6. OutcomeConserved'
    BY <1>0 DEF IInv, TypeOK, OutcomeConserved, Surfaced, Acknowledged
  <1>7. GrantInv' /\ OneGrantPerGeneration'
    BY <1>0 DEF IInv, TypeOK, GrantInv, OneGrantPerGeneration, MatchesFence
  <1>8. QED
    BY <1>1, <1>2, <1>3, <1>4, <1>5, <1>6, <1>7 DEF IInv

\* A claim that ends without a lease.
LEMMA ClaimAbortIInv ==
    ASSUME IInv, NEW c \in Callers, ClaimAbort(c)
    PROVE  IInv'
  <1> USE DoltConstants DEF ClaimAbort
  <1>0. TypeOK
    BY DEF IInv
  <1>1. TypeOK'
    BY <1>0 DEF TypeOK
  <1>2. RowInv' /\ AckInv' /\ OneAcknowledgement' /\ FinalProof'
    BY <1>0 DEF IInv, TypeOK, RowInv, AckInv, OneAcknowledgement, FinalProof
  <1>3. ClaimingInv'
    BY <1>0 DEF IInv, TypeOK, ClaimingInv, Claimable
  <1>4. LeaseInv'
    BY <1>0 DEF IInv, TypeOK, LeaseInv, MatchesFence
  <1>5. CompletionDurable' /\ ReceiptsEmitted' /\ OneReceiptPerGeneration'
    BY <1>0 DEF IInv, TypeOK, CompletionDurable, ReceiptsEmitted, OneReceiptPerGeneration
  <1>6. OutcomeConserved'
    BY <1>0 DEF IInv, TypeOK, OutcomeConserved, Surfaced, Acknowledged
  <1>7. GrantInv' /\ OneGrantPerGeneration'
    BY <1>0 DEF IInv, TypeOK, GrantInv, OneGrantPerGeneration, MatchesFence
  <1>8. QED
    BY <1>1, <1>2, <1>3, <1>4, <1>5, <1>6, <1>7 DEF IInv

\* An accepted commit: the row is the one the claim has seen.
LEMMA ClaimCommitIInv ==
    ASSUME IInv, NEW c \in Callers, ClaimCommit(c)
    PROVE  IInv'
  <1> DEFINE q == claiming[c]
  <1> DEFINE b == q.bead
  <1> DEFINE r == [row[b] EXCEPT !.status = "in_progress", !.holder = q.workflow]
  <1> USE DoltConstants DEF ClaimCommit
  <1>0. TypeOK
    BY DEF IInv
  <1>1. TypeOK'
    <2>1. row[b] \in Row /\ b \in Beads
      BY <1>0 DEF TypeOK
    <2>2. r \in Row
      BY <1>0, <2>1 DEF TypeOK
    <2>3. row' \in [Beads -> Row]
      BY <1>0, <2>1, <2>2 DEF TypeOK
    <2>4. QED
      BY <1>0, <2>3 DEF TypeOK
  <1>2. RowInv'
    <2>1. row[b] \in Row /\ b \in Beads /\ q.workflow \in Workflows
      BY <1>0 DEF TypeOK
    <2>2. row[b].status = "open" /\ row[b].receipt = None
      BY <1>0, <2>1 DEF IInv, RowInv, ClaimingInv, Claimable
    <2>3. row'[b] = r /\ r.receipt = None /\ r.status = "in_progress"
      BY <1>0, <2>1, <2>2 DEF TypeOK
    <2>4. \A x \in Beads \ {b} : row'[x] = row[x]
      BY <1>0 DEF TypeOK
    <2>5. QED
      BY <2>3, <2>4 DEF IInv, RowInv
  <1>3. ClaimingInv'
    BY <1>0 DEF IInv, TypeOK, ClaimingInv, Claimable
  <1>4. LeaseInv'
    BY <1>0 DEF IInv, TypeOK, LeaseInv, MatchesFence, ClaimingInv, Claimable
  <1>5. CompletionDurable' /\ ReceiptsEmitted' /\ OneReceiptPerGeneration'
    BY <1>0 DEF IInv, TypeOK, CompletionDurable, ReceiptsEmitted, OneReceiptPerGeneration, ClaimingInv, Claimable
  <1>6. AckInv' /\ OneAcknowledgement' /\ FinalProof'
    BY <1>0 DEF IInv, TypeOK, AckInv, OneAcknowledgement, FinalProof
  <1>7. OutcomeConserved'
    <2>1. \A x \in Beads : row'[x].outcome = row[x].outcome
      BY <1>0 DEF TypeOK
    <2>2. QED
      BY <1>0, <2>1 DEF IInv, TypeOK, OutcomeConserved, Surfaced, Acknowledged
  <1>8. GrantInv' /\ OneGrantPerGeneration'
    BY <1>0 DEF IInv, TypeOK, GrantInv, OneGrantPerGeneration, MatchesFence, ClaimingInv, Claimable
  <1>9. QED
    BY <1>1, <1>2, <1>3, <1>4, <1>5, <1>6, <1>7, <1>8 DEF IInv

\* A fenced completion, with its outcome.
LEMMA CompleteIInv ==
    ASSUME IInv, NEW l \in leases, NEW rc \in Receipts, Complete(l, rc)
    PROVE  IInv'
  <1> DEFINE b == l[1]
  <1> DEFINE r == [row[b] EXCEPT !.status = "closed", !.receipt = rc,
                                 !.outcome = Pending(l[2], l[3])]
  <1> USE DoltConstants DEF Complete
  <1>0. TypeOK
    BY DEF IInv
  <1>1. TypeOK'
    <2>1. row[b] \in Row /\ b \in Beads
      BY <1>0 DEF TypeOK
    <2>2. r \in Row
      BY <1>0, <2>1 DEF TypeOK, Pending
    <2>3. row' \in [Beads -> Row]
      BY <1>0, <2>1, <2>2 DEF TypeOK
    <2>4. QED
      BY <1>0, <2>3 DEF TypeOK
  <1>2. RowInv'
    BY <1>0 DEF IInv, TypeOK, RowInv, MatchesFence
  <1>3. ClaimingInv'
    BY <1>0 DEF IInv, TypeOK, ClaimingInv, Claimable
  <1>4. LeaseInv'
    BY <1>0 DEF IInv, TypeOK, LeaseInv, MatchesFence
  <1>5. CompletionDurable' /\ ReceiptsEmitted' /\ OneReceiptPerGeneration'
    BY <1>0 DEF IInv, TypeOK, CompletionDurable, ReceiptsEmitted, OneReceiptPerGeneration, MatchesFence
  <1>6. AckInv' /\ OneAcknowledgement' /\ FinalProof'
    BY <1>0 DEF IInv, TypeOK, AckInv, OneAcknowledgement, FinalProof, MaySupersede, Pending, NoOutcome
  <1>7. OutcomeConserved'
    <2>1. \A e \in emitted : Surfaced(e[1], e[2], e[3])'
      <3> SUFFICES ASSUME NEW e \in emitted PROVE Surfaced(e[1], e[2], e[3])'
        OBVIOUS
      <3>1. CASE e[1] = b /\ ~Acknowledged(e[1], e[2], e[3])
        <4>1. row[b].outcome.gen = e[2] /\ row[b].outcome.source = e[3]
          BY <1>0, <3>1 DEF IInv, OutcomeConserved, Surfaced
        <4>2. row[b].outcome \in Outcome /\ row[b].outcome.state = "acknowledged"
          BY <1>0, <4>1 DEF TypeOK, MaySupersede, NoOutcome
        <4>3. <<b, e[2], e[3], row[b].outcome.coord>> \in acked
          BY <1>0, <4>1, <4>2 DEF IInv, AckInv, TypeOK
        <4>4. Acknowledged(e[1], e[2], e[3])
          BY <1>0, <3>1, <4>3 DEF TypeOK, Acknowledged
        <4>5. QED
          BY <3>1, <4>4
      <3>2. CASE e[1] # b
        BY <1>0, <3>2 DEF IInv, TypeOK, OutcomeConserved, Surfaced, Acknowledged
      <3>3. CASE Acknowledged(e[1], e[2], e[3])
        BY <3>3 DEF Surfaced, Acknowledged
      <3>4. QED
        BY <3>1, <3>2, <3>3
    <2>2. Surfaced(b, l[2], l[3])'
      BY <1>0 DEF TypeOK, Surfaced, Pending
    <2>3. QED
      BY <2>1, <2>2 DEF OutcomeConserved
  <1>8. GrantInv' /\ OneGrantPerGeneration'
    BY <1>0 DEF IInv, TypeOK, GrantInv, OneGrantPerGeneration, MatchesFence, RowInv
  <1>9. QED
    BY <1>1, <1>2, <1>3, <1>4, <1>5, <1>6, <1>7, <1>8 DEF IInv

\* A repeated completion.
LEMMA CompleteAgainIInv ==
    ASSUME IInv, NEW l \in leases, NEW rc \in Receipts, CompleteAgain(l, rc)
    PROVE  IInv'
  <1> USE DoltConstants DEF CompleteAgain
  <1>0. TypeOK
    BY DEF IInv
  <1>1. TypeOK'
    BY <1>0 DEF TypeOK
  <1>2. RowInv' /\ LeaseInv' /\ AckInv' /\ OneAcknowledgement' /\ FinalProof'
    BY <1>0 DEF IInv, TypeOK, RowInv, LeaseInv, AckInv, OneAcknowledgement, FinalProof
  <1>3. ClaimingInv'
    BY <1>0 DEF IInv, TypeOK, ClaimingInv, Claimable
  <1>4. CompletionDurable' /\ ReceiptsEmitted' /\ OneReceiptPerGeneration'
    <2>1. /\ l \in Beads \X Generations \X Workflows
          /\ row[l[1]].gen = l[2]
          /\ row[l[1]].holder = l[3]
          /\ row[l[1]].status = "closed"
          /\ row[l[1]].receipt = rc
          /\ rc # None
      BY <1>0 DEF TypeOK, MatchesFence
    <2>2. <<l[1], l[2], l[3]>> \in emitted
      BY <2>1 DEF IInv, RowInv
    <2>3. CompletionDurable'
      BY <1>0, <2>1 DEF IInv, CompletionDurable
    <2>4. ReceiptsEmitted'
      <3>1. \A c \in receipts : <<c[1], c[2], c[3]>> \in emitted
        BY DEF IInv, ReceiptsEmitted
      <3>2. ASSUME NEW c \in receipts' PROVE <<c[1], c[2], c[3]>> \in emitted
        <4>1. CASE c \in receipts
          BY <3>1, <4>1
        <4>2. CASE c = <<l[1], l[2], l[3], rc>>
          <5>1. c[1] = l[1] /\ c[2] = l[2] /\ c[3] = l[3]
            BY <4>2
          <5>2. QED
            BY <2>2, <5>1
        <4>3. QED
          BY <4>1, <4>2
      <3>3. QED
        BY <3>2 DEF ReceiptsEmitted
    <2>5. ASSUME NEW c \in receipts, c[1] = l[1], c[2] = l[2]
          PROVE  c[3] = l[3] /\ c[4] = rc
      <3>1. ~(row[c[1]].gen > c[2])
        <4>1. l[2] \in Nat
          BY <2>1
        <4>2. ~(l[2] > l[2])
          BY <4>1
        <4>3. QED
          BY <2>1, <2>5, <4>2
      <3>2. QED
        BY <2>1, <2>5, <3>1 DEF IInv, CompletionDurable
    <2>6. OneReceiptPerGeneration'
      BY <1>0, <2>1, <2>5 DEF IInv, OneReceiptPerGeneration
    <2>7. QED
      BY <2>3, <2>4, <2>6
  <1>5. OutcomeConserved'
    BY <1>0 DEF IInv, TypeOK, OutcomeConserved, Surfaced, Acknowledged
  <1>6. GrantInv' /\ OneGrantPerGeneration'
    BY <1>0 DEF IInv, TypeOK, GrantInv, OneGrantPerGeneration, MatchesFence, RowInv
  <1>7. QED
    BY <1>1, <1>2, <1>3, <1>4, <1>5, <1>6 DEF IInv

\* A recorded attempt failure.
LEMMA RecordAttemptFailureIInv ==
    ASSUME IInv, NEW l \in leases, NEW f \in Failures, RecordAttemptFailure(l, f)
    PROVE  IInv'
  <1> DEFINE b == l[1]
  <1> DEFINE r == [row[b] EXCEPT !.failures = @ \cup {f}]
  <1> USE DoltConstants DEF RecordAttemptFailure
  <1>0. TypeOK
    BY DEF IInv
  <1>1. TypeOK'
    <2>1. row[b] \in Row /\ b \in Beads
      BY <1>0 DEF TypeOK
    <2>2. r \in Row
      BY <2>1
    <2>3. row' \in [Beads -> Row]
      BY <1>0, <2>1, <2>2 DEF TypeOK
    <2>4. QED
      BY <1>0, <2>3 DEF TypeOK
  <1>2. RowInv'
    BY <1>0 DEF IInv, TypeOK, RowInv
  <1>3. ClaimingInv'
    BY <1>0 DEF IInv, TypeOK, ClaimingInv, Claimable
  <1>4. LeaseInv'
    BY <1>0 DEF IInv, TypeOK, LeaseInv, MatchesFence
  <1>5. CompletionDurable' /\ ReceiptsEmitted' /\ OneReceiptPerGeneration'
    BY <1>0 DEF IInv, TypeOK, CompletionDurable, ReceiptsEmitted, OneReceiptPerGeneration
  <1>6. AckInv' /\ OneAcknowledgement' /\ FinalProof'
    BY <1>0 DEF IInv, TypeOK, AckInv, OneAcknowledgement, FinalProof
  <1>7. OutcomeConserved'
    <2>1. \A x \in Beads : row'[x].outcome = row[x].outcome
      BY <1>0 DEF TypeOK
    <2>2. QED
      BY <1>0, <2>1 DEF IInv, TypeOK, OutcomeConserved, Surfaced, Acknowledged
  <1>8. GrantInv' /\ OneGrantPerGeneration'
    BY <1>0 DEF IInv, TypeOK, GrantInv, OneGrantPerGeneration, MatchesFence
  <1>9. QED
    BY <1>1, <1>2, <1>3, <1>4, <1>5, <1>6, <1>7, <1>8 DEF IInv

\* Another producer's outcome.
LEMMA EmitOutcomeIInv ==
    ASSUME IInv, NEW b \in Beads, NEW g \in Generations, NEW s \in Producers,
           EmitOutcome(b, g, s)
    PROVE  IInv'
  <1> DEFINE r == [row[b] EXCEPT !.outcome = Pending(g, s)]
  <1> USE DoltConstants DEF EmitOutcome
  <1>0. TypeOK
    BY DEF IInv
  <1>1. TypeOK'
    <2>1. row[b] \in Row /\ b \in Beads
      BY <1>0 DEF TypeOK
    <2>2. r \in Row
      BY <1>0, <2>1 DEF TypeOK, Pending
    <2>3. row' \in [Beads -> Row]
      BY <1>0, <2>1, <2>2 DEF TypeOK
    <2>4. QED
      BY <1>0, <2>3 DEF TypeOK
  <1>2. RowInv'
    BY <1>0 DEF IInv, TypeOK, RowInv
  <1>3. ClaimingInv'
    BY <1>0 DEF IInv, TypeOK, ClaimingInv, Claimable
  <1>4. LeaseInv'
    BY <1>0 DEF IInv, TypeOK, LeaseInv, MatchesFence
  <1>5. CompletionDurable' /\ ReceiptsEmitted' /\ OneReceiptPerGeneration'
    BY <1>0 DEF IInv, TypeOK, CompletionDurable, ReceiptsEmitted, OneReceiptPerGeneration
  <1>6. AckInv' /\ OneAcknowledgement' /\ FinalProof'
    BY <1>0 DEF IInv, TypeOK, AckInv, OneAcknowledgement, FinalProof, MaySupersede, Pending, NoOutcome
  <1>7. OutcomeConserved'
    <2>1. \A e \in emitted : Surfaced(e[1], e[2], e[3])'
      <3> SUFFICES ASSUME NEW e \in emitted PROVE Surfaced(e[1], e[2], e[3])'
        OBVIOUS
      <3>1. CASE e[1] = b /\ ~Acknowledged(e[1], e[2], e[3])
        <4>1. row[b].outcome.gen = e[2] /\ row[b].outcome.source = e[3]
          BY <1>0, <3>1 DEF IInv, OutcomeConserved, Surfaced
        <4>2. row[b].outcome \in Outcome /\ row[b].outcome.state = "acknowledged"
          BY <1>0, <4>1 DEF TypeOK, MaySupersede, NoOutcome
        <4>3. <<b, e[2], e[3], row[b].outcome.coord>> \in acked
          BY <1>0, <4>1, <4>2 DEF IInv, AckInv, TypeOK
        <4>4. Acknowledged(e[1], e[2], e[3])
          BY <1>0, <3>1, <4>3 DEF TypeOK, Acknowledged
        <4>5. QED
          BY <3>1, <4>4
      <3>2. CASE e[1] # b
        BY <1>0, <3>2 DEF IInv, TypeOK, OutcomeConserved, Surfaced, Acknowledged
      <3>3. CASE Acknowledged(e[1], e[2], e[3])
        BY <3>3 DEF Surfaced, Acknowledged
      <3>4. QED
        BY <3>1, <3>2, <3>3
    <2>2. Surfaced(b, g, s)'
      BY <1>0 DEF TypeOK, Surfaced, Pending
    <2>3. QED
      BY <2>1, <2>2 DEF OutcomeConserved
  <1>8. GrantInv' /\ OneGrantPerGeneration'
    BY <1>0 DEF IInv, TypeOK, GrantInv, OneGrantPerGeneration, MatchesFence
  <1>9. QED
    BY <1>1, <1>2, <1>3, <1>4, <1>5, <1>6, <1>7, <1>8 DEF IInv

\* A delivery, to the same or to another coordinator.
LEMMA MarkOutcomeDeliveredIInv ==
    ASSUME IInv, NEW b \in Beads, NEW k \in Coordinators, MarkOutcomeDelivered(b, k)
    PROVE  IInv'
  <1> DEFINE r == [row[b] EXCEPT !.outcome.state = "needs-ack", !.outcome.coord = k]
  <1> USE DoltConstants DEF MarkOutcomeDelivered, NoOutcome
  <1>0. TypeOK
    BY DEF IInv
  <1>1. TypeOK'
    <2>1. row[b] \in Row /\ b \in Beads
      BY <1>0 DEF TypeOK
    <2>2. r \in Row
      BY <1>0, <2>1 DEF TypeOK
    <2>3. row' \in [Beads -> Row]
      BY <1>0, <2>1, <2>2 DEF TypeOK
    <2>4. QED
      BY <1>0, <2>3 DEF TypeOK
  <1>2. RowInv'
    BY <1>0 DEF IInv, TypeOK, RowInv
  <1>3. ClaimingInv'
    BY <1>0 DEF IInv, TypeOK, ClaimingInv, Claimable
  <1>4. LeaseInv'
    BY <1>0 DEF IInv, TypeOK, LeaseInv, MatchesFence
  <1>5. CompletionDurable' /\ ReceiptsEmitted' /\ OneReceiptPerGeneration'
    BY <1>0 DEF IInv, TypeOK, CompletionDurable, ReceiptsEmitted, OneReceiptPerGeneration
  <1>6. AckInv' /\ OneAcknowledgement' /\ FinalProof'
    BY <1>0 DEF IInv, TypeOK, AckInv, OneAcknowledgement, FinalProof
  <1>7. OutcomeConserved'
    <2>1. \A x \in Beads : /\ row'[x].outcome.gen = row[x].outcome.gen
                             /\ row'[x].outcome.source = row[x].outcome.source
      BY <1>0 DEF TypeOK, NoOutcome
    <2>2. QED
      BY <1>0, <2>1 DEF IInv, TypeOK, OutcomeConserved, Surfaced, Acknowledged
  <1>8. GrantInv' /\ OneGrantPerGeneration'
    BY <1>0 DEF IInv, TypeOK, GrantInv, OneGrantPerGeneration, MatchesFence
  <1>9. QED
    BY <1>1, <1>2, <1>3, <1>4, <1>5, <1>6, <1>7, <1>8 DEF IInv

\* An acknowledgement by the coordinator the outcome is bound to.
LEMMA MarkOutcomeAcknowledgedIInv ==
    ASSUME IInv, NEW b \in Beads, NEW k \in Coordinators, MarkOutcomeAcknowledged(b, k)
    PROVE  IInv'
  <1> DEFINE r == [row[b] EXCEPT !.outcome.state = "acknowledged"]
  <1> USE DoltConstants DEF MarkOutcomeAcknowledged, NoOutcome
  <1>0. TypeOK
    BY DEF IInv
  <1>1. TypeOK'
    <2>1. row[b] \in Row /\ b \in Beads
      BY <1>0 DEF TypeOK
    <2>2. r \in Row
      BY <1>0, <2>1 DEF TypeOK
    <2>3. row' \in [Beads -> Row]
      BY <1>0, <2>1, <2>2 DEF TypeOK
    <2>4. QED
      BY <1>0, <2>3 DEF TypeOK
  <1>2. RowInv'
    BY <1>0 DEF IInv, TypeOK, RowInv
  <1>3. ClaimingInv'
    BY <1>0 DEF IInv, TypeOK, ClaimingInv, Claimable
  <1>4. LeaseInv'
    BY <1>0 DEF IInv, TypeOK, LeaseInv, MatchesFence
  <1>5. CompletionDurable' /\ ReceiptsEmitted' /\ OneReceiptPerGeneration'
    BY <1>0 DEF IInv, TypeOK, CompletionDurable, ReceiptsEmitted, OneReceiptPerGeneration
  <1>6. AckInv' /\ OneAcknowledgement' /\ FinalProof'
    BY <1>0 DEF IInv, TypeOK, AckInv, OneAcknowledgement, FinalProof
  <1>7. OutcomeConserved'
    <2>1. \A x \in Beads : /\ row'[x].outcome.gen = row[x].outcome.gen
                             /\ row'[x].outcome.source = row[x].outcome.source
      BY <1>0 DEF TypeOK, NoOutcome
    <2>2. QED
      BY <1>0, <2>1 DEF IInv, TypeOK, OutcomeConserved, Surfaced, Acknowledged
  <1>8. GrantInv' /\ OneGrantPerGeneration'
    BY <1>0 DEF IInv, TypeOK, GrantInv, OneGrantPerGeneration, MatchesFence
  <1>9. QED
    BY <1>1, <1>2, <1>3, <1>4, <1>5, <1>6, <1>7, <1>8 DEF IInv

\* A finalization.
LEMMA FinalizeAcknowledgedOutcomeIInv ==
    ASSUME IInv, NEW b \in Beads, NEW k \in Coordinators, FinalizeAcknowledgedOutcome(b, k)
    PROVE  IInv'
  <1> DEFINE r == [row[b] EXCEPT !.status = "closed",
                                 !.final = [gen |-> row[b].outcome.gen,
                                            source |-> row[b].outcome.source,
                                            coord |-> k]]
  <1> USE DoltConstants DEF FinalizeAcknowledgedOutcome, NoOutcome
  <1>0. TypeOK
    BY DEF IInv
  <1>1. TypeOK'
    <2>1. row[b] \in Row /\ b \in Beads
      BY <1>0 DEF TypeOK
    <2>2. r \in Row
      <3>1. row[b].outcome \in Outcome
        BY <2>1
      <3>2. [gen |-> row[b].outcome.gen, source |-> row[b].outcome.source,
             coord |-> k] \in Finalization
        BY <3>1
      <3>3. QED
        BY <2>1, <3>2
    <2>3. row' \in [Beads -> Row]
      BY <1>0, <2>1, <2>2 DEF TypeOK
    <2>4. QED
      BY <1>0, <2>3 DEF TypeOK
  <1>2. RowInv'
    BY <1>0 DEF IInv, TypeOK, RowInv
  <1>3. ClaimingInv'
    BY <1>0 DEF IInv, TypeOK, ClaimingInv, Claimable
  <1>4. LeaseInv'
    BY <1>0 DEF IInv, TypeOK, LeaseInv, MatchesFence
  <1>5. CompletionDurable' /\ ReceiptsEmitted' /\ OneReceiptPerGeneration'
    BY <1>0 DEF IInv, TypeOK, CompletionDurable, ReceiptsEmitted, OneReceiptPerGeneration
  <1>6. AckInv' /\ OneAcknowledgement' /\ FinalProof'
    BY <1>0 DEF IInv, TypeOK, AckInv, OneAcknowledgement, FinalProof
  <1>7. OutcomeConserved'
    <2>1. \A x \in Beads : row'[x].outcome = row[x].outcome
      BY <1>0 DEF TypeOK
    <2>2. QED
      BY <1>0, <2>1 DEF IInv, TypeOK, OutcomeConserved, Surfaced, Acknowledged
  <1>8. GrantInv' /\ OneGrantPerGeneration'
    BY <1>0 DEF IInv, TypeOK, GrantInv, OneGrantPerGeneration, MatchesFence
  <1>9. QED
    BY <1>1, <1>2, <1>3, <1>4, <1>5, <1>6, <1>7, <1>8 DEF IInv

-----------------------------------------------------------------------------
\* Every step of the store preserves the inductive invariant.
LEMMA NextIInv == IInv /\ [Next]_vars => IInv'
  <1> SUFFICES ASSUME IInv, [Next]_vars PROVE IInv'
    OBVIOUS
  <1>1. CASE UNCHANGED vars
    BY <1>1 DEF vars, IInv, TypeOK, RowInv, ClaimingInv, LeaseInv, GrantInv,
       OneGrantPerGeneration, CompletionDurable, ReceiptsEmitted, OneReceiptPerGeneration, AckInv, OutcomeConserved,
       OneAcknowledgement, FinalProof, Surfaced, Acknowledged
  <1>2. ASSUME NEW b \in Beads, NEW g \in Generations,
               TransitionReady(b, g) \/ AcknowledgeReadyEvent(b, g)
        PROVE  IInv'
    BY <1>2, TransitionReadyIInv, AcknowledgeReadyEventIInv
  <1>3. ASSUME NEW c \in Callers, NEW b \in Beads, NEW g \in Generations,
               NEW w \in Workflows, ClaimBegin(c, b, g, w)
        PROVE  IInv'
    BY <1>3, ClaimBeginIInv
  <1>4. ASSUME NEW c \in Callers, ClaimCommit(c) \/ ClaimRetry(c) \/ ClaimAbort(c)
        PROVE  IInv'
    BY <1>4, ClaimCommitIInv, ClaimRetryIInv, ClaimAbortIInv
  <1>5. ASSUME NEW l \in leases, NEW rc \in Receipts,
               Complete(l, rc) \/ CompleteAgain(l, rc)
        PROVE  IInv'
    BY <1>5, CompleteIInv, CompleteAgainIInv
  <1>6. ASSUME NEW l \in leases, NEW f \in Failures, RecordAttemptFailure(l, f)
        PROVE  IInv'
    BY <1>6, RecordAttemptFailureIInv
  <1>7. ASSUME NEW b \in Beads, NEW g \in Generations, NEW s \in Producers,
               EmitOutcome(b, g, s)
        PROVE  IInv'
    BY <1>7, EmitOutcomeIInv
  <1>8. ASSUME NEW b \in Beads, NEW k \in Coordinators,
               \/ MarkOutcomeDelivered(b, k)
               \/ MarkOutcomeAcknowledged(b, k)
               \/ FinalizeAcknowledgedOutcome(b, k)
        PROVE  IInv'
    BY <1>8, MarkOutcomeDeliveredIInv, MarkOutcomeAcknowledgedIInv,
       FinalizeAcknowledgedOutcomeIInv
  <1>9. QED
    BY <1>1, <1>2, <1>3, <1>4, <1>5, <1>6, <1>7, <1>8 DEF Next

\* The inductive invariant holds in every reachable state.
THEOREM Invariance == Spec => []IInv
  <1>1. QED
    BY InitIInv, NextIInv, PTL DEF Spec

\* Type correctness of every operation of the store.
THEOREM TypeCorrect == Spec => []TypeOK
  <1>1. IInv => TypeOK
    BY DEF IInv
  <1>2. QED
    BY <1>1, Invariance, PTL

\* However claims are retried and replies lost, the row grants a generation to
\* one workflow, and only that one completes it.
THEOREM OneGrant == Spec => []OneGrantPerGeneration
  <1>1. IInv => OneGrantPerGeneration
    BY DEF IInv
  <1>2. QED
    BY <1>1, Invariance, PTL

\* A generation has one terminal receipt, and keeps it.
THEOREM OneDurableReceipt == Spec => [](OneReceiptPerGeneration /\ CompletionDurable)
  <1>1. IInv => OneReceiptPerGeneration /\ CompletionDurable
    BY DEF IInv
  <1>2. QED
    BY <1>1, Invariance, PTL

\* No outcome is lost before a coordinator acknowledged it, and no reported
\* completion is without an outcome.
THEOREM NoSilentOutcome == Spec => [](OutcomeConserved /\ CompletionSurfaced)
  <1>1. IInv => OutcomeConserved /\ CompletionSurfaced
    <2> SUFFICES ASSUME IInv, NEW c \in receipts PROVE Surfaced(c[1], c[2], c[3])
      BY DEF IInv, CompletionSurfaced
    <2>1. <<c[1], c[2], c[3]>> \in emitted
      BY DEF IInv, ReceiptsEmitted
    <2> DEFINE e == <<c[1], c[2], c[3]>>
    <2>2. e[1] = c[1] /\ e[2] = c[2] /\ e[3] = c[3]
      OBVIOUS
    <2>3. Surfaced(e[1], e[2], e[3])
      BY <2>1 DEF IInv, OutcomeConserved
    <2>4. QED
      BY <2>2, <2>3 DEF Surfaced, Acknowledged
  <1>2. QED
    BY <1>1, Invariance, PTL

\* An outcome has one acknowledging coordinator, and whatever was finalized was
\* acknowledged by it.
THEOREM FinalizedWasAcknowledged == Spec => [](OneAcknowledgement /\ FinalProof)
  <1>1. IInv => OneAcknowledgement /\ FinalProof
    BY DEF IInv
  <1>2. QED
    BY <1>1, Invariance, PTL


-----------------------------------------------------------------------------
\* The ledger that the rows implement.
LedgerWork == [b \in Beads |-> Fence(row[b])]

\* A step that changes the row of one bead changes its ledger entry alone.
LEMMA LedgerUpdate ==
    ASSUME TypeOK, NEW b \in Beads, NEW r, row' = [row EXCEPT ![b] = r]
    PROVE  LedgerWork' = [LedgerWork EXCEPT ![b] = Fence(r)]
  BY DEF TypeOK, LedgerWork

\* The ledger does not see what leaves the fence of every row alone.
LEMMA LedgerStutter ==
    ASSUME \A b \in Beads : /\ row'[b].status  = row[b].status
                            /\ row'[b].gen     = row[b].gen
                            /\ row'[b].holder  = row[b].holder
                            /\ row'[b].receipt = row[b].receipt
    PROVE  UNCHANGED LedgerWork
  BY DEF LedgerWork, Fence, Phase

\* A higher generation is a publication in the ledger.
LEMMA LedgerTransitionReady ==
    ASSUME IInv, NEW b \in Beads, NEW g \in Generations, TransitionReady(b, g)
    PROVE  Ledger!Publish(b, g)
  <1> DEFINE r == [row[b] EXCEPT !.status = "open", !.gen = g, !.holder = None,
                                 !.receipt = None, !.event = "pending", !.failures = {}]
  <1>0. TypeOK /\ row[b] \in Row
    BY DEF IInv, TypeOK
  <1>1. LedgerWork' = [LedgerWork EXCEPT ![b] = Fence(r)]
    BY <1>0, LedgerUpdate DEF TransitionReady
  <1>2. r.status = "open" /\ r.gen = g /\ r.holder = None /\ r.receipt = None /\ g # 0
    BY <1>0, DoltConstants
  <1>3. Fence(r) = [gen |-> g, phase |-> "ready", holder |-> None, receipt |-> None]
    BY <1>2 DEF Fence, Phase
  <1>4. g > LedgerWork[b].gen
    BY DEF LedgerWork, Fence, TransitionReady
  <1>5. QED
    BY <1>1, <1>3, <1>4 DEF LedgerWork, Ledger!Publish

\* An accepted commit is the claim of the ledger: its row was open.
LEMMA LedgerClaimCommit ==
    ASSUME IInv, NEW c \in Callers, ClaimCommit(c)
    PROVE  \E b \in Beads, w \in Workflows : Ledger!Claim(b, w)
  <1> DEFINE q == claiming[c]
             b == q.bead
             r == [row[b] EXCEPT !.status = "in_progress", !.holder = q.workflow]
  <1>0. /\ TypeOK
        /\ q \in Attempt
        /\ b \in Beads
        /\ q.gen # 0
        /\ row[b] \in Row
    BY DoltConstants DEF IInv, TypeOK, ClaimCommit
  <1>1. LedgerWork' = [LedgerWork EXCEPT ![b] = Fence(r)]
    BY <1>0, LedgerUpdate DEF ClaimCommit
  <1>2. row[b].gen = q.gen /\ row[b].status = "open"
    BY DEF IInv, ClaimingInv, Claimable, ClaimCommit
  <1>3. Phase(row[b]) = "ready"
    BY <1>0, <1>2 DEF Phase
  <1>4. /\ r.status = "in_progress"
        /\ r.gen = row[b].gen
        /\ r.holder = q.workflow
        /\ r.receipt = row[b].receipt
    BY <1>0
  <1> HIDE DEF r
  <1>5. Phase(r) = "claimed"
    BY <1>4 DEF Phase
  <1>6. Ledger!Claim(b, q.workflow)
    <2>1. LedgerWork[b] = [gen |-> row[b].gen, phase |-> "ready",
                           holder |-> row[b].holder, receipt |-> row[b].receipt]
      BY <1>0, <1>3 DEF LedgerWork, Fence
    <2>2. Fence(r) = [gen |-> row[b].gen, phase |-> "claimed",
                      holder |-> q.workflow, receipt |-> row[b].receipt]
      BY <1>4, <1>5 DEF Fence
    <2>3. LedgerWork' = [LedgerWork EXCEPT ![b].phase = "claimed",
                                          ![b].holder = q.workflow]
      BY <1>0, <1>1, <2>1, <2>2 DEF LedgerWork
    <2>4. LedgerWork[b].phase = "ready"
      BY <2>1
    <2>5. QED
      BY <2>3, <2>4 DEF LedgerWork, Ledger!Claim
  <1>7. QED
    BY <1>0, <1>6

\* A fenced completion is the completion of the ledger.
LEMMA LedgerComplete ==
    ASSUME IInv, NEW l \in leases, NEW rc \in Receipts, Complete(l, rc)
    PROVE  \E b \in Beads : Ledger!Complete(b, rc)
  <1> DEFINE b == l[1]
             r == [row[b] EXCEPT !.status = "closed", !.receipt = rc,
                                 !.outcome = Pending(l[2], l[3])]
  <1>0. TypeOK /\ b \in Beads /\ row[b] \in Row /\ rc # None
    BY DoltConstants DEF IInv, TypeOK
  <1>1. LedgerWork' = [LedgerWork EXCEPT ![b] = Fence(r)]
    BY <1>0, LedgerUpdate DEF Complete
  <1>2. Phase(row[b]) = "claimed"
    BY DEF Phase, Complete
  <1>3. /\ r.status = "closed"
        /\ r.gen = row[b].gen
        /\ r.holder = row[b].holder
        /\ r.receipt = rc
    BY <1>0
  <1> HIDE DEF r, b
  <1>4. Phase(r) = "completed"
    BY <1>0, <1>3 DEF Phase
  <1>5. Ledger!Complete(b, rc)
    <2> HIDE DEF Row, Outcome, Finalization, Attempt, Sources
    <2>0. b \in Beads
      BY <1>0
    <2>1. LedgerWork[b] = [gen |-> row[b].gen, phase |-> "claimed",
                           holder |-> row[b].holder, receipt |-> row[b].receipt]
      BY <1>0, <1>2 DEF LedgerWork, Fence
    <2>2. Fence(r) = [gen |-> row[b].gen, phase |-> "completed",
                      holder |-> row[b].holder, receipt |-> rc]
      BY <1>3, <1>4 DEF Fence
    <2>3. LedgerWork' = [LedgerWork EXCEPT ![b].phase = "completed",
                                          ![b].receipt = rc]
      <3> DEFINE mid == [LedgerWork EXCEPT ![b].phase = "completed"]
      <3>1. mid[b] = [gen |-> row[b].gen, phase |-> "completed",
                      holder |-> row[b].holder, receipt |-> row[b].receipt]
        BY <2>0, <2>1 DEF LedgerWork
      <3>2. mid = [LedgerWork EXCEPT ![b] = mid[b]]
        BY <2>0 DEF LedgerWork
      <3> HIDE DEF mid
      <3>3. [mid EXCEPT ![b].receipt = rc] = [LedgerWork EXCEPT ![b] = Fence(r)]
        <4>1. [mid[b] EXCEPT !.receipt = rc] = Fence(r)
          BY <2>2, <3>1
        <4>2. [mid EXCEPT ![b].receipt = rc] = [mid EXCEPT ![b] = Fence(r)]
          BY <4>1
        <4>3. QED
          BY <2>0, <3>2, <4>2 DEF LedgerWork
      <3>4. QED
        BY <1>1, <3>3 DEF mid
    <2>4. LedgerWork[b].phase = "claimed"
      BY <2>1
    <2>5. QED
      BY <2>3, <2>4 DEF LedgerWork, Ledger!Complete
  <1>6. QED
    BY <1>0, <1>5

\* Closing an issue that has no receipt disposes of it.
LEMMA LedgerFinalize ==
    ASSUME IInv, NEW b \in Beads, NEW k \in Coordinators, FinalizeAcknowledgedOutcome(b, k)
    PROVE  Ledger!Dispose(b)
  <1> DEFINE r == [row[b] EXCEPT !.status = "closed",
                                 !.final = [gen |-> row[b].outcome.gen,
                                            source |-> row[b].outcome.source,
                                            coord |-> k]]
  <1>0. TypeOK /\ row[b] \in Row
    BY DEF IInv, TypeOK
  <1>1. LedgerWork' = [LedgerWork EXCEPT ![b] = Fence(r)]
    BY <1>0, LedgerUpdate DEF FinalizeAcknowledgedOutcome
  <1>2. row[b].status \in {"open", "in_progress"} /\ row[b].receipt = None
    BY <1>0 DEF IInv, RowInv, FinalizeAcknowledgedOutcome
  <1>3. Phase(row[b]) \in {"unpublished", "ready", "claimed"}
    BY <1>0, <1>2 DEF Phase
  <1>4. /\ r.status = "closed"
        /\ r.gen = row[b].gen
        /\ r.holder = row[b].holder
        /\ r.receipt = row[b].receipt
    BY <1>0
  <1>5. Fence(r) = [Fence(row[b]) EXCEPT !.phase = "disposed"]
    BY <1>2, <1>4 DEF Fence, Phase
  <1>6. QED
    BY <1>1, <1>3, <1>5 DEF LedgerWork, Fence, Ledger!Dispose

\* Every step of the store is a step of the ledger, or does not show in it.
LEMMA LedgerNext == IInv /\ [Next]_vars => [Ledger!Next]_LedgerWork
  <1> SUFFICES ASSUME IInv, [Next]_vars PROVE [Ledger!Next]_LedgerWork
    OBVIOUS
  <1>0. TypeOK
    BY DEF IInv
  <1>1. CASE UNCHANGED row
    BY <1>1 DEF LedgerWork, Fence, Phase
  <1>2. ASSUME NEW b \in Beads, NEW g \in Generations, TransitionReady(b, g)
        PROVE  Ledger!Next
    BY <1>2, LedgerTransitionReady DEF Ledger!Next
  <1>3. ASSUME NEW b \in Beads, NEW g \in Generations, AcknowledgeReadyEvent(b, g)
        PROVE  UNCHANGED LedgerWork
    BY <1>0, <1>3, LedgerStutter DEF TypeOK, AcknowledgeReadyEvent
  <1>4. ASSUME NEW c \in Callers, ClaimCommit(c)
        PROVE  Ledger!Next
    BY <1>4, LedgerClaimCommit DEF Ledger!Next
  <1>5. ASSUME NEW l \in leases, NEW rc \in Receipts, Complete(l, rc)
        PROVE  Ledger!Next
    BY <1>5, LedgerComplete DEF Ledger!Next
  <1>6. ASSUME NEW l \in leases, NEW f \in Failures, RecordAttemptFailure(l, f)
        PROVE  UNCHANGED LedgerWork
    BY <1>0, <1>6, LedgerStutter DEF TypeOK, RecordAttemptFailure
  <1>7. ASSUME NEW b \in Beads, NEW g \in Generations, NEW s \in Producers,
               EmitOutcome(b, g, s)
        PROVE  UNCHANGED LedgerWork
    BY <1>0, <1>7, LedgerStutter DEF TypeOK, EmitOutcome
  <1>8. ASSUME NEW b \in Beads, NEW k \in Coordinators,
               MarkOutcomeDelivered(b, k) \/ MarkOutcomeAcknowledged(b, k)
        PROVE  UNCHANGED LedgerWork
    BY <1>0, <1>8, LedgerStutter DEF TypeOK, MarkOutcomeDelivered, MarkOutcomeAcknowledged
  <1>9. ASSUME NEW b \in Beads, NEW k \in Coordinators, FinalizeAcknowledgedOutcome(b, k)
        PROVE  Ledger!Next
    BY <1>9, LedgerFinalize DEF Ledger!Next
  <1>10. CASE UNCHANGED vars
    BY <1>1, <1>10 DEF vars
  <1>11. CASE \E c \in Callers, b \in Beads, g \in Generations, w \in Workflows :
                  ClaimBegin(c, b, g, w)
    BY <1>1, <1>11 DEF ClaimBegin
  <1>12. CASE \E c \in Callers : ClaimRetry(c) \/ ClaimAbort(c)
    BY <1>1, <1>12 DEF ClaimRetry, ClaimAbort
  <1>13. CASE \E l \in leases, rc \in Receipts : CompleteAgain(l, rc)
    BY <1>1, <1>13 DEF CompleteAgain
  <1>14. QED
    BY <1>2, <1>3, <1>4, <1>5, <1>6, <1>7, <1>8, <1>9, <1>10, <1>11, <1>12, <1>13 DEF Next

\* The canonical store implements the fenced ledger: refused commits, stale
\* leases, outcomes and finalizations never show through the row.
THEOREM RowImplementsLedger == Spec => ImplementsLedger
  <1>1. Init => Ledger!Init
    BY DEF Init, NewIssue, Fence, Phase, Ledger!Init, Ledger!Unpublished
  <1>2. [Ledger!Next]_LedgerWork => [Ledger!Next]_([b \in Beads |-> Fence(row[b])])
    BY DEF LedgerWork
  <1>3. IInv /\ [Next]_vars => [Ledger!Next]_([b \in Beads |-> Fence(row[b])])
    BY <1>2, LedgerNext
  <1>4. QED
    BY <1>1, <1>3, Invariance, PTL DEF Spec, ImplementsLedger, Ledger!Spec

-----------------------------------------------------------------------------
\* LedgerInv and FencedStep of a ledger w that becomes v.
Kept(w) ==
    /\ w \in [Beads -> Ledger!Record]
    /\ \A b \in Beads :
        /\ w[b].phase \in {"claimed", "completed"} => w[b].holder # None
        /\ w[b].phase = "ready" => w[b].holder = None
        /\ (w[b].receipt # None) <=> (w[b].phase = "completed")

FencedBy(old, new) ==
    /\ new.gen >= old.gen
    /\ new.gen = old.gen => /\ old.holder  # None => new.holder  = old.holder
                            /\ old.receipt # None => new.receipt = old.receipt

\* Each step of the ledger writes one entry, keeps who holds what and where a
\* receipt is, and keeps the fence of every bead.
LEMMA LedgerStep ==
    ASSUME Kept(LedgerWork), Ledger!Next
    PROVE  Kept(LedgerWork)' /\ \A x \in Beads : FencedBy(LedgerWork[x], LedgerWork'[x])
  <1> USE DoltConstants DEF Ledger!Record, Ledger!Phases
  <1>1. PICK b \in Beads : \/ \E g \in Generations : Ledger!Publish(b, g)
                           \/ \E w \in Workflows : Ledger!Claim(b, w)
                           \/ \E r \in Receipts : Ledger!Complete(b, r)
                           \/ Ledger!Dispose(b)
    BY DEF Ledger!Next
  <1> DEFINE old == LedgerWork[b]
  <1>2. /\ DOMAIN LedgerWork = Beads /\ old \in Ledger!Record
        /\ old.phase \in {"claimed", "completed"} => old.holder # None
        /\ old.phase = "ready" => old.holder = None
        /\ (old.receipt # None) <=> (old.phase = "completed")
    BY DEF Kept
  <1>3. \A x \in Beads : LedgerWork[x].gen \in Nat
    <2>1. \A x \in Beads : LedgerWork[x].gen \in Generations \cup {0}
      BY DEF Kept
    <2>2. Generations \cup {0} \subseteq Nat
      OBVIOUS
    <2>3. QED
      BY <2>1, <2>2
  <1>4. PICK new : LedgerWork' = [LedgerWork EXCEPT ![b] = new] /\
            \/ \E g \in Generations : g > old.gen /\
                   new = [gen |-> g, phase |-> "ready", holder |-> None, receipt |-> None]
            \/ \E w \in Workflows : old.phase = "ready" /\
                   new = [gen |-> old.gen, phase |-> "claimed", holder |-> w,
                          receipt |-> old.receipt]
            \/ \E r \in Receipts : old.phase = "claimed" /\
                   new = [gen |-> old.gen, phase |-> "completed", holder |-> old.holder,
                          receipt |-> r]
            \/ old.phase \in {"unpublished", "ready", "claimed"} /\
                   new = [gen |-> old.gen, phase |-> "disposed", holder |-> old.holder,
                          receipt |-> old.receipt]
    <2>1. ASSUME NEW g \in Generations, Ledger!Publish(b, g)
          PROVE  /\ g > old.gen
                 /\ LedgerWork' = [LedgerWork EXCEPT ![b] =
                        [gen |-> g, phase |-> "ready", holder |-> None, receipt |-> None]]
      BY <2>1 DEF Ledger!Publish, LedgerWork
    <2>2. ASSUME NEW w \in Workflows, Ledger!Claim(b, w)
          PROVE  /\ old.phase = "ready"
                 /\ LedgerWork' = [LedgerWork EXCEPT ![b] =
                        [gen |-> old.gen, phase |-> "claimed", holder |-> w,
                         receipt |-> old.receipt]]
      <3>1. /\ old.phase = "ready"
            /\ LedgerWork' = [LedgerWork EXCEPT ![b].phase = "claimed", ![b].holder = w]
        BY <2>2 DEF Ledger!Claim, LedgerWork
      <3>2. QED
        BY <1>2, <3>1
    <2>3. ASSUME NEW r \in Receipts, Ledger!Complete(b, r)
          PROVE  /\ old.phase = "claimed"
                 /\ LedgerWork' = [LedgerWork EXCEPT ![b] =
                        [gen |-> old.gen, phase |-> "completed", holder |-> old.holder,
                         receipt |-> r]]
      <3>1. /\ old.phase = "claimed"
            /\ LedgerWork' = [LedgerWork EXCEPT ![b].phase = "completed", ![b].receipt = r]
        BY <2>3 DEF Ledger!Complete, LedgerWork
      <3>2. QED
        BY <1>2, <3>1
    <2>4. ASSUME Ledger!Dispose(b)
          PROVE  /\ old.phase \in {"unpublished", "ready", "claimed"}
                 /\ LedgerWork' = [LedgerWork EXCEPT ![b] =
                        [gen |-> old.gen, phase |-> "disposed", holder |-> old.holder,
                         receipt |-> old.receipt]]
      <3>1. /\ old.phase \in {"unpublished", "ready", "claimed"}
            /\ LedgerWork' = [LedgerWork EXCEPT ![b].phase = "disposed"]
        BY <2>4 DEF Ledger!Dispose, LedgerWork
      <3>2. [old EXCEPT !.phase = "disposed"] =
                [gen |-> old.gen, phase |-> "disposed", holder |-> old.holder,
                 receipt |-> old.receipt]
        BY <1>2
      <3>3. LedgerWork' = [LedgerWork EXCEPT ![b] = [old EXCEPT !.phase = "disposed"]]
        BY <3>1
      <3>4. QED
        BY <3>1, <3>2, <3>3
    <2> HIDE DEF old
    <2>5. QED
      BY <1>1, <2>1, <2>2, <2>3, <2>4
  <1>5. /\ new \in Ledger!Record
        /\ new.phase \in {"claimed", "completed"} => new.holder # None
        /\ new.phase = "ready" => new.holder = None
        /\ (new.receipt # None) <=> (new.phase = "completed")
    <2> HIDE DEF old
    <2>1. QED
      BY <1>2, <1>4
  <1>6. FencedBy(old, new)
    <2>1. old.gen \in Nat
      BY <1>3
    <2>2. \A g \in Generations : g \in Nat
      OBVIOUS
    <2> HIDE DEF old
    <2>3. QED
      BY <1>2, <1>4, <2>1, <2>2 DEF FencedBy
  <1>7. \A x \in Beads : LedgerWork'[x] = IF x = b THEN new ELSE LedgerWork[x]
    BY <1>2, <1>4
  <1>8. \A x \in Beads : FencedBy(LedgerWork[x], LedgerWork'[x])
    BY <1>3, <1>6, <1>7 DEF FencedBy
  <1>9. Kept(LedgerWork')
    <2>1. LedgerWork' \in [Beads -> Ledger!Record]
      BY <1>2, <1>4, <1>5 DEF Kept
    <2>2. QED
      BY <1>5, <1>7, <2>1 DEF Kept
  <1>10. QED
    BY <1>8, <1>9 DEF Kept

\* The records of the ledger are consistent in every state: who holds what, and
\* where a receipt is.
THEOREM LedgerInvariance == Ledger!Spec => []Ledger!LedgerInv
  <1> DEFINE work == [b \in Beads |-> Fence(row[b])]
  <1>1. Ledger!Init => Kept(LedgerWork)
    BY DoltConstants DEF Ledger!Init, Ledger!Unpublished, LedgerWork, Kept, Ledger!Record,
       Ledger!Phases
  <1>2. Kept(LedgerWork) /\ [Ledger!Next]_work => Kept(LedgerWork)'
    <2> SUFFICES ASSUME Kept(LedgerWork), [Ledger!Next]_work PROVE Kept(LedgerWork)'
      OBVIOUS
    <2>1. CASE UNCHANGED work
      BY <2>1 DEF Kept, LedgerWork
    <2>2. CASE Ledger!Next
      BY <2>2, LedgerStep
    <2>3. QED
      BY <2>1, <2>2
  <1>3. Kept(LedgerWork) => Ledger!LedgerInv
    BY DEF Kept, LedgerWork, Ledger!LedgerInv
  <1>4. QED
    BY <1>1, <1>2, <1>3, PTL DEF Ledger!Spec

\* No step of the ledger gives a generation a second holder or a second receipt,
\* or goes back to an older one.
THEOREM LedgerFenced == Ledger!Spec => Ledger!Fenced
  <1> DEFINE work == [b \in Beads |-> Fence(row[b])]
  <1>1. Ledger!LedgerInv /\ [Ledger!Next]_work => [\A b \in Beads : Ledger!FencedStep(b)]_work
    <2> SUFFICES ASSUME Ledger!LedgerInv, Ledger!Next
                 PROVE  \A b \in Beads : Ledger!FencedStep(b)
      OBVIOUS
    <2>1. Kept(LedgerWork)
      BY DEF Kept, LedgerWork, Ledger!LedgerInv
    <2>2. \A x \in Beads : FencedBy(LedgerWork[x], LedgerWork'[x]) <=> Ledger!FencedStep(x)
      BY DEF FencedBy, LedgerWork, Ledger!FencedStep
    <2>3. QED
      BY <2>1, <2>2, LedgerStep
  <1>2. QED
    BY <1>1, LedgerInvariance, PTL DEF Ledger!Spec, Ledger!Fenced

\* What the ledger promises of every step therefore holds of the row: within a
\* generation TransitionReady, Claim, Complete and finalization, however often
\* they are retried, replace neither the holder nor the receipt, and no
\* transaction takes the row back to an older generation.
THEOREM RowFenced == Spec => Ledger!Fenced
  BY RowImplementsLedger, LedgerFenced, PTL DEF ImplementsLedger

=============================================================================
