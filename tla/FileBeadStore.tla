---------------------------- MODULE FileBeadStore ----------------------------
(***************************************************************************)
(* The crash-durable reference adapter: one JSON file shared, under a file  *)
(* lock, by several processes, each of which also keeps the maps it last    *)
(* decoded.  Every operation takes the lock, loads, mutates its maps and    *)
(* persists by temp file, fsync, rename and directory fsync, so operations  *)
(* of different processes do not overlap; what a failed persist leaves      *)
(* behind in the process is the subject of this module.                     *)
(***************************************************************************)
EXTENDS Naturals, FiniteSets

CONSTANTS
    Beads, Workflows, Receipts, Generations, None,
    Processes,    \* processes (or store handles) that share the file
    Failures,     \* attempt-failure entries an Activity may record
    MaxFaults     \* bound: failed persists in one behaviour

ASSUME FileConstants ==
    /\ Generations \subseteq Nat \ {0}
    /\ None \notin Workflows
    /\ None \notin Receipts
    /\ MaxFaults \in Nat

VARIABLES
    file,       \* the decoded content of the file, or None while it is absent
    residue,    \* residue[p]: the entries of p's maps whose keys the file lacks
    faults,     \* persists that have failed so far
    leases,     \* <<b, g, w>>: acquired leases returned to workflows
    receipts,   \* <<b, g, r>>: completions reported successful
    announced   \* <<b, g, how>>: ready facts reported to a producer, see Told

vars == <<file, residue, faults, leases, receipts, announced>>

\* The deterministic ready-event identity of one generation of one bead.
EventId == Beads \X Generations
Bead(e) == e[1]
Gen(e)  == e[2]

BeadRecord == [gen : Generations, status : {"ready", "claimed", "completed"},
               holder : Workflows \cup {None}, receipt : Receipts \cup {None},
               failures : SUBSET Failures]

Event == {"pending", "acknowledged", "superseded", "superseded-acknowledged"}

\* Maps from some of D to R.
Maps(D, R) == UNION {[S -> R] : S \in SUBSET D}

State == [beads : Maps(Beads, BeadRecord), outbox : Maps(EventId, Event)]

\* An absent file is told apart from every content.
ASSUME AbsentIsNoState == None \notin State

Empty == [beads |-> <<>>, outbox |-> <<>>]

\* f where it is defined, and g elsewhere; f with v for x.
Over(f, g) ==
    [x \in DOMAIN f \cup DOMAIN g |-> IF x \in DOMAIN f THEN f[x] ELSE g[x]]
With(f, x, v) ==
    [y \in DOMAIN f \cup {x} |-> IF y = x THEN v ELSE f[y]]

Init ==
    /\ file = None
    /\ residue = [p \in Processes |-> Empty]
    /\ faults = 0
    /\ leases = {}
    /\ receipts = {}
    /\ announced = {}

-----------------------------------------------------------------------------
\* A plausible bug: what the process remembers wins over what is on disk.
MergeStale(disk, kept) ==
    IF disk = None THEN Empty
    ELSE [beads  |-> Over(kept.beads, disk.beads),
          outbox |-> Over(kept.outbox, disk.outbox)]

\* Decoding into the maps a process already holds replaces the keys the file
\* has and keeps the others; an absent file resets the maps.
Merge(disk, kept) ==
    IF disk = None THEN Empty
    ELSE [beads  |-> Over(disk.beads, kept.beads),
          outbox |-> Over(disk.outbox, kept.outbox)]

Load(p) == Merge(file, residue[p])

\* What survives the next load of a process that holds state s.
Survivors(s, disk) ==
    IF disk = None THEN Empty
    ELSE [beads  |-> [b \in DOMAIN s.beads \ DOMAIN disk.beads |-> s.beads[b]],
          outbox |-> [e \in DOMAIN s.outbox \ DOMAIN disk.outbox |-> s.outbox[e]]]

\* A persist either replaces the file; or fails before the rename, and the
\* reload only merges; or fails in the directory fsync, after the rename.
Persisted(p, s) ==
    /\ file' = s
    /\ residue' = [residue EXCEPT ![p] = Empty]
    /\ UNCHANGED faults

PersistFailed(p, s) ==
    /\ faults < MaxFaults
    /\ faults' = faults + 1
    /\ \/ /\ file' = s
          /\ residue' = [residue EXCEPT ![p] = Empty]
       \/ /\ file' = file
          /\ residue' = [residue EXCEPT ![p] = Survivors(s, file)]

-----------------------------------------------------------------------------
\* A plausible bug: older events stay pending.
SupersedeNothing(outbox, b, g) == outbox

\* The outbox after generation g of b is published: older events of b that
\* nobody acknowledged are superseded with it.
Supersede(outbox, b, g) ==
    [e \in DOMAIN outbox |->
        IF Bead(e) = b /\ Gen(e) < g /\ outbox[e] = "pending"
        THEN "superseded" ELSE outbox[e]]

\* State s with generation g of b published.
Publish(s, b, g) ==
    [beads  |-> With(s.beads, b, [gen |-> g, status |-> "ready", holder |-> None,
                                  receipt |-> None, failures |-> {}]),
     outbox |-> With(Supersede(s.outbox, b, g), <<b, g>>, "pending")]

\* How a producer was told: of a fact in the file, or of one that only the maps
\* of the process that answered hold.
Told == {"stored", "remembered"}

\* A plausible bug: an older generation is published again.
TransitionReadyBackwards(p, b, g) ==
    LET s == Load(p)
    IN  /\ b \in DOMAIN s.beads => g # s.beads[b].gen
        /\ Persisted(p, Publish(s, b, g))
        /\ announced' = announced \cup {<<b, g, "stored">>}
        /\ UNCHANGED <<leases, receipts>>

\* A plausible bug: the event is returned whether or not the persist succeeded.
TransitionReadyEarly(p, b, g) ==
    LET s == Load(p)
        t == Publish(s, b, g)
    IN  /\ b \in DOMAIN s.beads => g > s.beads[b].gen
        /\ Persisted(p, t) \/ PersistFailed(p, t)
        /\ announced' = announced \cup {<<b, g, "stored">>}
        /\ UNCHANGED <<leases, receipts>>

\* A lower generation is refused.
TransitionReady(p, b, g) ==
    LET s == Load(p)
        t == Publish(s, b, g)
    IN  /\ b \in DOMAIN s.beads => g > s.beads[b].gen
        /\ \/ Persisted(p, t) /\ announced' = announced \cup {<<b, g, "stored">>}
           \/ PersistFailed(p, t) /\ UNCHANGED announced
        /\ UNCHANGED <<leases, receipts>>

\* The current generation is answered with its event out of the maps, which may
\* remember it only from a persist that failed; nothing is persisted.
TransitionAgain(p, b, g) ==
    LET s == Load(p)
        stored == file # None /\ <<b, g>> \in DOMAIN file.outbox
    IN  /\ b \in DOMAIN s.beads
        /\ s.beads[b].gen = g
        /\ <<b, g>> \in DOMAIN s.outbox
        /\ announced' = announced \cup
               {<<b, g, IF stored THEN "stored" ELSE "remembered">>}
        /\ UNCHANGED <<file, residue, faults, leases, receipts>>

\* A plausible bug: the stored lease is handed out without asking whose it is.
ClaimAgainUnchecked(p, b, g, w) ==
    LET s == Load(p)
    IN  /\ b \in DOMAIN s.beads
        /\ s.beads[b].gen = g
        /\ leases' = leases \cup {<<b, g, s.beads[b].holder>>}
        /\ UNCHANGED <<file, residue, faults, receipts, announced>>

\* The workflow that already holds the generation gets its lease again.
ClaimAgain(p, b, g, w) ==
    LET s == Load(p)
    IN  /\ b \in DOMAIN s.beads
        /\ s.beads[b].gen = g
        /\ s.beads[b].status \in {"claimed", "completed"}
        /\ s.beads[b].holder = w
        /\ leases' = leases \cup {<<b, g, w>>}
        /\ UNCHANGED <<file, residue, faults, receipts, announced>>

\* A plausible bug: the lease is returned before the claim is durable.
ClaimEarly(p, b, g, w) ==
    LET s == Load(p)
        t == [s EXCEPT !.beads[b].status = "claimed", !.beads[b].holder = w]
    IN  /\ b \in DOMAIN s.beads
        /\ s.beads[b].gen = g
        /\ s.beads[b].status = "ready"
        /\ Persisted(p, t) \/ PersistFailed(p, t)
        /\ leases' = leases \cup {<<b, g, w>>}
        /\ UNCHANGED <<receipts, announced>>

Claim(p, b, g, w) ==
    LET s == Load(p)
        t == [s EXCEPT !.beads[b].status = "claimed", !.beads[b].holder = w]
    IN  /\ b \in DOMAIN s.beads
        /\ s.beads[b].gen = g
        /\ s.beads[b].status = "ready"
        /\ \/ Persisted(p, t) /\ leases' = leases \cup {<<b, g, w>>}
           \/ PersistFailed(p, t) /\ UNCHANGED leases
        /\ UNCHANGED <<receipts, announced>>

\* A token is a digest of (bead, generation, workflow): a caller that presents
\* the lease l passes the fence exactly when the record is that claim.
MatchesFence(s, l) ==
    /\ l[1] \in DOMAIN s.beads
    /\ s.beads[l[1]].gen = l[2]
    /\ s.beads[l[1]].holder = l[3]

\* A plausible bug: success is reported before the receipt is durable.
CompleteEarly(p, l, r) ==
    LET s == Load(p)
        t == [s EXCEPT !.beads[l[1]].status = "completed",
                       !.beads[l[1]].receipt = r]
    IN  /\ MatchesFence(s, l)
        /\ s.beads[l[1]].status = "claimed"
        /\ Persisted(p, t) \/ PersistFailed(p, t)
        /\ receipts' = receipts \cup {<<l[1], l[2], r>>}
        /\ UNCHANGED <<leases, announced>>

Complete(p, l, r) ==
    LET s == Load(p)
        b == l[1]
        t == [s EXCEPT !.beads[b].status = "completed", !.beads[b].receipt = r]
    IN  /\ MatchesFence(s, l)
        /\ s.beads[b].status = "claimed"
        /\ \/ Persisted(p, t) /\ receipts' = receipts \cup {<<b, l[2], r>>}
           \/ PersistFailed(p, t) /\ UNCHANGED receipts
        /\ UNCHANGED <<leases, announced>>

\* Repeating the stored completion succeeds; a different one is a conflict.
CompleteAgain(p, l, r) ==
    LET s == Load(p)
    IN  /\ MatchesFence(s, l)
        /\ s.beads[l[1]].status = "completed"
        /\ s.beads[l[1]].receipt = r
        /\ receipts' = receipts \cup {<<l[1], l[2], r>>}
        /\ UNCHANGED <<file, residue, faults, leases, announced>>

RecordAttemptFailure(p, l, f) ==
    LET s == Load(p)
        t == [s EXCEPT !.beads[l[1]].failures = @ \cup {f}]
    IN  /\ MatchesFence(s, l)
        /\ s.beads[l[1]].status = "claimed"
        /\ f \notin s.beads[l[1]].failures
        /\ Persisted(p, t) \/ PersistFailed(p, t)
        /\ UNCHANGED <<leases, receipts, announced>>

\* A superseded event may still be acknowledged by a delivery begun earlier.
AcknowledgeReadyEvent(p, e) ==
    LET s == Load(p)
        t == [s EXCEPT !.outbox[e] = IF @ = "pending" THEN "acknowledged"
                                     ELSE "superseded-acknowledged"]
    IN  /\ e \in DOMAIN s.outbox
        /\ s.outbox[e] \in {"pending", "superseded"}
        /\ Persisted(p, t) \/ PersistFailed(p, t)
        /\ UNCHANGED <<leases, receipts, announced>>

\* What process p offers for delivery.
PendingReadyEvents(p) ==
    LET outbox == Load(p).outbox
    IN  {e \in DOMAIN outbox : outbox[e] = "pending"}

\* A process stops and its maps are gone; it reopens the store from the file.
Restart(p) ==
    /\ residue[p] # Empty
    /\ residue' = [residue EXCEPT ![p] = Empty]
    /\ UNCHANGED <<file, faults, leases, receipts, announced>>

Next ==
    \E p \in Processes :
        \/ \E b \in Beads, g \in Generations :
               TransitionReady(p, b, g) \/ TransitionAgain(p, b, g)
        \/ \E b \in Beads, g \in Generations, w \in Workflows :
               Claim(p, b, g, w) \/ ClaimAgain(p, b, g, w)
        \/ \E l \in leases, r \in Receipts : Complete(p, l, r) \/ CompleteAgain(p, l, r)
        \/ \E l \in leases, f \in Failures : RecordAttemptFailure(p, l, f)
        \/ \E e \in EventId : AcknowledgeReadyEvent(p, e)
        \/ Restart(p)

Spec == Init /\ [][Next]_vars

-----------------------------------------------------------------------------
TypeOK ==
    /\ file \in State \cup {None}
    /\ residue \in [Processes -> State]
    /\ faults \in 0..MaxFaults
    /\ leases \subseteq Beads \X Generations \X Workflows
    /\ receipts \subseteq Beads \X Generations \X Receipts
    /\ announced \subseteq Beads \X Generations \X Told

\* At most one workflow is ever handed an acquired lease for one generation of
\* one bead, whichever processes its requests went through.
OneLeasePerGeneration ==
    \A l, m \in leases : l[1] = m[1] /\ l[2] = m[2] => l[3] = m[3]

\* A lease somebody holds is in the file, or has been fenced out by a higher
\* generation there: a restart of every process cannot revoke it.
LeaseDurable ==
    \A l \in leases :
        /\ file # None
        /\ l[1] \in DOMAIN file.beads
        /\ \/ file.beads[l[1]].gen > l[2]
           \/ MatchesFence(file, l)

\* Work reported complete stays complete with that receipt until a higher
\* generation is published, whatever fails afterwards.
CompletionDurable ==
    \A c \in receipts :
        /\ file # None
        /\ c[1] \in DOMAIN file.beads
        /\ \/ file.beads[c[1]].gen > c[2]
           \/ file.beads[c[1]].gen = c[2] /\ file.beads[c[1]].receipt = c[3]

\* The outbox any process would hand to the reconciler offers, for each bead,
\* only its current generation, whoever published it: publishing supersedes the
\* older events nobody acknowledged.  A failed persist breaks this.
OnlyCurrentPending ==
    faults = 0 =>
        \A p \in Processes : \A e \in PendingReadyEvents(p) :
            Load(p).beads[Bead(e)].gen = Gen(e)

\* Generation g of bead b is in the file with an event to deliver, or delivered;
\* or a higher generation has replaced it there.
Published(b, g) ==
    /\ file # None
    /\ b \in DOMAIN file.beads
    /\ \/ file.beads[b].gen > g
       \/ /\ file.beads[b].gen = g
          /\ <<b, g>> \in DOMAIN file.outbox
          /\ file.outbox[<<b, g>>] \in {"pending", "acknowledged"}

\* However many persists fail and processes restart, a producer that was told of
\* a ready fact in the file can rely on it: the fact stays there, with an event
\* that still gets delivered, until a higher generation replaces both.
ReadyDurable ==
    \A a \in announced : a[3] = "stored" => Published(a[1], a[2])

\* A producer can rely on every ready fact it was told of.  Not so: a process
\* whose persist failed answers the repeated call out of its maps, and its
\* restart, or another process that publishes the bead, loses the fact.
AnnouncedDurable ==
    \A a \in announced : Published(a[1], a[2])

\* The file, read as a ledger.
Durable(b) ==
    IF file = None \/ b \notin DOMAIN file.beads
    THEN [gen |-> 0, phase |-> "unpublished", holder |-> None, receipt |-> None]
    ELSE [gen |-> file.beads[b].gen, phase |-> file.beads[b].status,
          holder |-> file.beads[b].holder, receipt |-> file.beads[b].receipt]

Ledger == INSTANCE BeadLedger WITH work <- [b \in Beads |-> Durable(b)]

\* As long as no persist fails, every step of every process is a step of the
\* fenced ledger, or does not show in it.
LedgerUntilFault ==
    [][faults' = 0 => [Ledger!Next]_<<[b \in Beads |-> Durable(b)]>>]_vars

=============================================================================
