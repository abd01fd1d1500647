---------------------------- MODULE DoltBeadStore ----------------------------
(***************************************************************************)
(* The canonical adapter: every fact about a bead lives in one row of the   *)
(* Beads issues table - its status, the fenced claim, the ready outbox, the *)
(* coordinator-outcome outbox and the finalization receipt - so one         *)
(* transaction on that row is one atomic step.  Transactions are optimistic:*)
(* a commit is refused when the row changed since it was read, and the      *)
(* operation is re-run.  Claim is the one operation whose answer outlives   *)
(* an attempt (its lease is a variable of the enclosing call), so it alone  *)
(* is modelled attempt by attempt.                                          *)
(***************************************************************************)
EXTENDS Naturals, FiniteSets

CONSTANTS
    Beads, Workflows, Receipts, Generations, None,
    Producers,    \* producers of outcomes that are not orchestration workflows
    Coordinators, \* coordinator fences an outcome may be delivered under
    Callers,      \* concurrent Claim calls
    Failures,     \* attempt-failure entries an Activity may record
    MaxAttempts   \* attempts of one transaction (doltMutationAttempts)

ASSUME DoltConstants ==
    /\ Generations \subseteq Nat \ {0}
    /\ None \notin Workflows
    /\ None \notin Receipts
    /\ None \notin Coordinators
    /\ Workflows \cap Producers = {}
    /\ MaxAttempts \in Nat \ {0}

VARIABLES
    row,        \* row[b]: the canonical issue row of bead b
    claiming,   \* claiming[c]: the claim c is about to commit, or None
    leases,     \* <<b, g, w>>: acquired leases returned to callers
    granted,    \* <<b, g, w>>: claims that were committed, their reply lost or not
    receipts,   \* <<b, g, w, r>>: completions reported successful
    emitted,    \* <<b, g, s>>: outcomes written to an outbox
    acked       \* <<b, g, s, k>>: outcomes acknowledged, with their coordinator

vars == <<row, claiming, leases, granted, receipts, emitted, acked>>

Sources == Workflows \cup Producers

\* Generation 0 stands for an absent record, outcome or finalization receipt.
NoOutcome == [gen |-> 0, source |-> None, state |-> "none", coord |-> None]
NoFinal   == [gen |-> 0, source |-> None, coord |-> None]

Outcome == [gen   : Generations, source : Sources,
            state : {"pending", "needs-ack", "acknowledged"},
            coord : Coordinators \cup {None}]

\* A finalization receipt copies the acknowledged proof out of the outbox.
Finalization == [gen : Generations, source : Sources, coord : Coordinators]

Row == [status   : {"open", "in_progress", "closed"},
        gen      : Generations \cup {0},
        holder   : Workflows \cup {None},
        receipt  : Receipts \cup {None},
        event    : {"none", "pending", "acknowledged"},
        failures : SUBSET Failures,
        outcome  : Outcome \cup {NoOutcome},
        final    : Finalization \cup {NoFinal}]

NewIssue == [status |-> "open", gen |-> 0, holder |-> None, receipt |-> None,
             event |-> "none", failures |-> {},
             outcome |-> NoOutcome, final |-> NoFinal]

\* A claim between its read and its commit.
Attempt == [bead : Beads, gen : Generations, workflow : Workflows,
            seen : Row, tries : 1..MaxAttempts]

Init ==
    /\ row = [b \in Beads |-> NewIssue]
    /\ claiming = [c \in Callers |-> None]
    /\ leases = {}
    /\ granted = {}
    /\ receipts = {}
    /\ emitted = {}
    /\ acked = {}

-----------------------------------------------------------------------------
\* The ready state and its outbox event replace the claim and the receipt of
\* the older generation; the outcome outbox and the finalization receipt stay.
TransitionReady(b, g) ==
    /\ g > row[b].gen
    /\ row' = [row EXCEPT ![b] =
                 [@ EXCEPT !.status = "open", !.gen = g, !.holder = None,
                           !.receipt = None, !.event = "pending", !.failures = {}]]
    /\ UNCHANGED <<claiming, leases, granted, receipts, emitted, acked>>

AcknowledgeReadyEvent(b, g) ==
    /\ row[b].gen = g
    /\ row[b].event = "pending"
    /\ row' = [row EXCEPT ![b].event = "acknowledged"]
    /\ UNCHANGED <<claiming, leases, granted, receipts, emitted, acked>>

\* What one attempt of a claim finds in the row it read.
Claimable(r, g) == r.gen = g /\ r.status = "open"
HeldBy(r, g, w) == r.gen = g /\ r.status \in {"in_progress", "closed"} /\ r.holder = w

\* The first attempt.  A claim of another generation, or of a generation that
\* another workflow holds or that was closed unclaimed, acquires nothing.
ClaimBegin(c, b, g, w) ==
    /\ claiming[c] = None
    /\ \/ /\ Claimable(row[b], g)
          /\ claiming' = [claiming EXCEPT ![c] =
                            [bead |-> b, gen |-> g, workflow |-> w,
                             seen |-> row[b], tries |-> 1]]
          /\ UNCHANGED leases
       \/ /\ HeldBy(row[b], g, w)
          /\ leases' = leases \cup {<<b, g, w>>}
          /\ UNCHANGED claiming
    /\ UNCHANGED <<row, granted, receipts, emitted, acked>>

\* A plausible bug: the commit does not notice that the row has changed.
ClaimCommitBlind(c) ==
    LET q == claiming[c]
    IN  /\ q # None
        /\ row' = [row EXCEPT ![q.bead] = [@ EXCEPT !.status = "in_progress",
                                                   !.holder = q.workflow]]
        /\ leases' = leases \cup {<<q.bead, q.gen, q.workflow>>}
        /\ granted' = granted \cup {<<q.bead, q.gen, q.workflow>>}
        /\ claiming' = [claiming EXCEPT ![c] = None]
        /\ UNCHANGED <<receipts, emitted, acked>>

\* The commit is accepted; its reply may still be lost on the way back.
ClaimCommit(c) ==
    LET q == claiming[c]
    IN  /\ q # None
        /\ row[q.bead] = q.seen
        /\ row' = [row EXCEPT ![q.bead] = [@ EXCEPT !.status = "in_progress",
                                                   !.holder = q.workflow]]
        /\ \/ leases' = leases \cup {<<q.bead, q.gen, q.workflow>>}
           \/ UNCHANGED leases
        /\ granted' = granted \cup {<<q.bead, q.gen, q.workflow>>}
        /\ claiming' = [claiming EXCEPT ![c] = None]
        /\ UNCHANGED <<receipts, emitted, acked>>

\* The commit is refused as a serialization failure and the closure runs again.
\* It assigns the lease in every case but one: a row of another generation
\* leaves in place the acquired lease that the refused attempt had assigned.
ClaimRetry(c) ==
    LET q == claiming[c]
        r == row[q.bead]
    IN  /\ q # None
        /\ q.tries < MaxAttempts
        /\ \/ /\ Claimable(r, q.gen)
              /\ claiming' = [claiming EXCEPT ![c].seen = r, ![c].tries = @ + 1]
              /\ UNCHANGED leases
           \/ /\ HeldBy(r, q.gen, q.workflow) \/ r.gen # q.gen
              /\ leases' = leases \cup {<<q.bead, q.gen, q.workflow>>}
              /\ claiming' = [claiming EXCEPT ![c] = None]
        /\ UNCHANGED <<row, granted, receipts, emitted, acked>>

\* The call ends without a lease: the retry finds another holder, the attempts
\* or the context are exhausted, or the connection or the process is lost.
ClaimAbort(c) ==
    /\ claiming[c] # None
    /\ claiming' = [claiming EXCEPT ![c] = None]
    /\ UNCHANGED <<row, leases, granted, receipts, emitted, acked>>

-----------------------------------------------------------------------------
\* Tokens are digests of (bead, generation, workflow): the caller that presents
\* lease l passes the fence exactly when the row is that claim.
MatchesFence(r, l) == r.gen = l[2] /\ r.holder = l[3]

\* A plausible bug: a newer generation replaces an outcome nobody took yet.
MaySupersedeUnacknowledged(r, g) == g > r.outcome.gen

\* A new outcome may take the outbox of row r at generation g.
MaySupersede(r, g) ==
    \/ r.outcome = NoOutcome
    \/ r.outcome.state = "acknowledged" /\ g > r.outcome.gen

Pending(g, s) == [gen |-> g, source |-> s, state |-> "pending", coord |-> None]

\* One transaction closes the issue, stores the receipt and writes the outcome
\* for the coordinator; its reply may be lost.
Complete(l, rc) ==
    LET b == l[1]
    IN  /\ MatchesFence(row[b], l)
        /\ row[b].status = "in_progress"
        /\ MaySupersede(row[b], l[2])
        /\ row' = [row EXCEPT ![b] =
                     [@ EXCEPT !.status = "closed", !.receipt = rc,
                               !.outcome = Pending(l[2], l[3])]]
        /\ emitted' = emitted \cup {<<b, l[2], l[3]>>}
        /\ \/ receipts' = receipts \cup {<<b, l[2], l[3], rc>>}
           \/ UNCHANGED receipts
        /\ UNCHANGED <<claiming, leases, granted, acked>>

\* A plausible bug: any completion of completed work counts as a repetition.
CompleteAgainAny(l, rc) ==
    /\ MatchesFence(row[l[1]], l)
    /\ row[l[1]].status = "closed"
    /\ receipts' = receipts \cup {<<l[1], l[2], l[3], rc>>}
    /\ UNCHANGED <<row, claiming, leases, granted, emitted, acked>>

\* Repeating the stored completion succeeds; another receipt is a conflict.
CompleteAgain(l, rc) ==
    /\ MatchesFence(row[l[1]], l)
    /\ row[l[1]].status = "closed"
    /\ row[l[1]].receipt = rc
    /\ receipts' = receipts \cup {<<l[1], l[2], l[3], rc>>}
    /\ UNCHANGED <<row, claiming, leases, granted, emitted, acked>>

RecordAttemptFailure(l, f) ==
    /\ MatchesFence(row[l[1]], l)
    /\ row[l[1]].status = "in_progress"
    /\ f \notin row[l[1]].failures
    /\ row' = [row EXCEPT ![l[1]].failures = @ \cup {f}]
    /\ UNCHANGED <<claiming, leases, granted, receipts, emitted, acked>>

-----------------------------------------------------------------------------
\* A producer other than a workflow writes an outcome at a generation of its
\* own choosing, whatever the status and the generation of the issue.
EmitOutcome(b, g, s) ==
    /\ MaySupersede(row[b], g)
    /\ row' = [row EXCEPT ![b].outcome = Pending(g, s)]
    /\ emitted' = emitted \cup {<<b, g, s>>}
    /\ UNCHANGED <<claiming, leases, granted, receipts, acked>>

\* Until it is acknowledged a delivery may rebind the outcome to another
\* coordinator.
MarkOutcomeDelivered(b, k) ==
    /\ row[b].outcome.state \in {"pending", "needs-ack"}
    /\ row[b].outcome.coord # k
    /\ row' = [row EXCEPT ![b].outcome.state = "needs-ack", ![b].outcome.coord = k]
    /\ UNCHANGED <<claiming, leases, granted, receipts, emitted, acked>>

MarkOutcomeAcknowledged(b, k) ==
    LET o == row[b].outcome
    IN  /\ o.state = "needs-ack"
        /\ o.coord = k
        /\ row' = [row EXCEPT ![b].outcome.state = "acknowledged"]
        /\ acked' = acked \cup {<<b, o.gen, o.source, k>>}
        /\ UNCHANGED <<claiming, leases, granted, receipts, emitted>>

\* A plausible bug: a delivered outcome is taken for an acknowledged one.
FinalizeDeliveredOutcome(b, k) ==
    LET o == row[b].outcome
    IN  /\ row[b].final = NoFinal
        /\ row[b].status # "closed"
        /\ o.state \in {"needs-ack", "acknowledged"}
        /\ o.coord = k
        /\ row' = [row EXCEPT ![b] =
                     [@ EXCEPT !.status = "closed",
                               !.final = [gen |-> o.gen, source |-> o.source,
                                          coord |-> k]]]
        /\ UNCHANGED <<claiming, leases, granted, receipts, emitted, acked>>

\* The issue is closed on the proof in its outcome outbox; the generation the
\* issue is at is not consulted.
FinalizeAcknowledgedOutcome(b, k) ==
    LET o == row[b].outcome
    IN  /\ row[b].final = NoFinal
        /\ row[b].status # "closed"
        /\ o.state = "acknowledged"
        /\ o.coord = k
        /\ row' = [row EXCEPT ![b] =
                     [@ EXCEPT !.status = "closed",
                               !.final = [gen |-> o.gen, source |-> o.source,
                                          coord |-> k]]]
        /\ UNCHANGED <<claiming, leases, granted, receipts, emitted, acked>>

Next ==
    \/ \E b \in Beads, g \in Generations :
           TransitionReady(b, g) \/ AcknowledgeReadyEvent(b, g)
    \/ \E c \in Callers, b \in Beads, g \in Generations, w \in Workflows :
           ClaimBegin(c, b, g, w)
    \/ \E c \in Callers : ClaimCommit(c) \/ ClaimRetry(c) \/ ClaimAbort(c)
    \/ \E l \in leases, rc \in Receipts : Complete(l, rc) \/ CompleteAgain(l, rc)
    \/ \E l \in leases, f \in Failures : RecordAttemptFailure(l, f)
    \/ \E b \in Beads, g \in Generations, s \in Producers : EmitOutcome(b, g, s)
    \/ \E b \in Beads, k \in Coordinators :
           \/ MarkOutcomeDelivered(b, k)
           \/ MarkOutcomeAcknowledged(b, k)
           \/ FinalizeAcknowledgedOutcome(b, k)

Spec == Init /\ [][Next]_vars

-----------------------------------------------------------------------------
TypeOK ==
    /\ row \in [Beads -> Row]
    /\ claiming \in [Callers -> Attempt \cup {None}]
    /\ leases \subseteq Beads \X Generations \X Workflows
    /\ granted \subseteq Beads \X Generations \X Workflows
    /\ receipts \subseteq Beads \X Generations \X Workflows \X Receipts
    /\ emitted \subseteq Beads \X Generations \X Sources
    /\ acked \subseteq Beads \X Generations \X Sources \X Coordinators

\* At most one workflow is told that it acquired a generation of a bead.  Not
\* so: ClaimRetry hands the lease of a refused commit to its caller once the row
\* has moved on, although another workflow may have claimed that generation.
OneLeasePerGeneration ==
    \A l, m \in leases : l[1] = m[1] /\ l[2] = m[2] => l[3] = m[3]

\* The row itself grants a generation once, whatever the callers are told: of
\* the claims of one generation, concurrent, retried or with their reply lost,
\* those of one workflow are committed, and no other workflow, with a lease or
\* without, ever completes it.
OneGrantPerGeneration ==
    /\ \A l, m \in granted : l[1] = m[1] /\ l[2] = m[2] => l[3] = m[3]
    /\ \A c \in receipts : <<c[1], c[2], c[3]>> \in granted

\* However many leases a generation has, it has one terminal receipt: a second
\* workflow, an older generation or a repeated call never gets another one in.
OneReceiptPerGeneration ==
    \A c, d \in receipts :
        c[1] = d[1] /\ c[2] = d[2] => c[3] = d[3] /\ c[4] = d[4]

\* Work reported complete stays complete with that receipt until a higher
\* generation is published.
CompletionDurable ==
    \A c \in receipts :
        LET r == row[c[1]]
        IN  r.gen > c[2] \/ (/\ r.gen = c[2]
                             /\ r.status = "closed"
                             /\ r.holder = c[3]
                             /\ r.receipt = c[4])

Acknowledged(b, g, s) == \E k \in Coordinators : <<b, g, s, k>> \in acked

\* The outcome <<b, g, s>> is still in the outbox, or a coordinator took it.
Surfaced(b, g, s) ==
    \/ row[b].outcome.gen = g /\ row[b].outcome.source = s
    \/ Acknowledged(b, g, s)

\* No outcome is ever overwritten before some coordinator acknowledged it,
\* whichever producers, completions and generations share the one outbox.
OutcomeConserved == \A e \in emitted : Surfaced(e[1], e[2], e[3])

\* No completion is silent: one that was reported to its workflow has an
\* outcome that is waiting for a coordinator or was acknowledged by one.
CompletionSurfaced == \A c \in receipts : Surfaced(c[1], c[2], c[3])

\* One coordinator owns the acknowledgement of an outcome, although deliveries
\* may have rebound it before.
OneAcknowledgement ==
    \A a, d \in acked :
        a[1] = d[1] /\ a[2] = d[2] /\ a[3] = d[3] => a[4] = d[4]

\* A finalization receipt names an outcome that this very coordinator
\* acknowledged, also after later outcomes have replaced it in the outbox.
FinalProof ==
    \A b \in Beads :
        LET f == row[b].final
        IN  f # NoFinal => <<b, f.gen, f.source, f.coord>> \in acked

-----------------------------------------------------------------------------
\* The strengthening that makes these invariants inductive, part by part.

\* An open row has no holder, only a closed one a receipt, which was surfaced.
RowInv ==
    \A b \in Beads :
        LET r == row[b]
        IN  /\ r.status = "open" => r.holder = None
            /\ r.status # "closed" => r.receipt = None
            /\ r.receipt # None => <<b, r.gen, r.holder>> \in emitted

\* A claim in flight saw its generation ready, and no row has gone back since.
ClaimingInv ==
    \A c \in Callers :
        claiming[c] # None =>
            LET q == claiming[c]
            IN  /\ row[q.bead].gen >= q.gen
                /\ Claimable(q.seen, q.gen)

\* A lease somebody was handed is the claim in the row, or the row has moved to a
\* higher generation; and a generation with a lease is never open again.
LeaseInv ==
    \A l \in leases :
        \/ row[l[1]].gen > l[2]
        \/ MatchesFence(row[l[1]], l) /\ row[l[1]].status # "open"

\* A committed claim is the one in the row until a higher generation is published,
\* and the holder of a row has committed one.
GrantInv ==
    /\ \A l \in granted :
           \/ row[l[1]].gen > l[2]
           \/ MatchesFence(row[l[1]], l) /\ row[l[1]].status # "open"
    /\ \A b \in Beads :
           row[b].holder # None => <<b, row[b].gen, row[b].holder>> \in granted

ReceiptsEmitted == \A c \in receipts : <<c[1], c[2], c[3]>> \in emitted

\* The outbox knows its own acknowledgement, and is never behind one.
AckInv ==
    /\ \A b \in Beads :
           LET o == row[b].outcome
           IN  o.state = "acknowledged" => <<b, o.gen, o.source, o.coord>> \in acked
    /\ \A a \in acked :
           LET o == row[a[1]].outcome
           IN  /\ a[2] <= o.gen
               /\ a[2] = o.gen => /\ o.state = "acknowledged"
                                  /\ o.source = a[3]
                                  /\ o.coord = a[4]

\* The inductive invariant.
IInv ==
    /\ TypeOK
    /\ RowInv
    /\ ClaimingInv
    /\ LeaseInv
    /\ GrantInv
    /\ OneGrantPerGeneration
    /\ CompletionDurable
    /\ ReceiptsEmitted
    /\ OneReceiptPerGeneration
    /\ AckInv
    /\ OutcomeConserved
    /\ OneAcknowledgement
    /\ FinalProof

-----------------------------------------------------------------------------
\* The row, read as a ledger: closed without a receipt is disposed of.
Phase(r) ==
    CASE r.status = "closed" /\ r.receipt # None -> "completed"
      [] r.status = "closed" /\ r.receipt = None -> "disposed"
      [] r.status = "in_progress"                -> "claimed"
      [] r.status = "open" /\ r.gen # 0          -> "ready"
      [] r.status = "open" /\ r.gen = 0          -> "unpublished"

Fence(r) == [gen |-> r.gen, phase |-> Phase(r),
             holder |-> r.holder, receipt |-> r.receipt]

Ledger == INSTANCE BeadLedger WITH work <- [b \in Beads |-> Fence(row[b])]

\* The row implements the fenced ledger, whatever the callers of a refused
\* commit are told.
ImplementsLedger == Ledger!Spec

=============================================================================
