-------------------------- MODULE FileBeadStoreProofs --------------------------
(***************************************************************************)
(* What survives failed persists, for any number of processes, beads,       *)
(* workflows and generations: leases and receipts one of them, the ready     *)
(* facts a producer was told of in the file any number.                     *)
(***************************************************************************)
EXTENDS FileBeadStore, TLAPS

\* The beads in the file.
Known == IF file = None THEN {} ELSE DOMAIN file.beads

\* What every state that is written keeps: a ready bead has no holder, an
\* unfinished one no receipt, the current generation has its event, and no
\* event is without its bead.
Sound(s) ==
    /\ \A b \in DOMAIN s.beads :
           LET r == s.beads[b]
           IN  /\ r.status = "ready" => r.holder = None
               /\ r.status # "completed" => r.receipt = None
               /\ <<b, r.gen>> \in DOMAIN s.outbox
               /\ s.outbox[<<b, r.gen>>] \in {"pending", "acknowledged"}
    /\ \A e \in DOMAIN s.outbox : Bead(e) \in DOMAIN s.beads

\* Only the current generation is offered.
Current(s) ==
    \A e \in DOMAIN s.outbox :
        s.outbox[e] = "pending" => s.beads[Bead(e)].gen = Gen(e)

\* A bead that was published, and nothing else.
Fresh(s, b) ==
    /\ s.beads[b].status = "ready"
    /\ s.beads[b].holder = None
    /\ s.beads[b].receipt = None
    /\ <<b, s.beads[b].gen>> \in DOMAIN s.outbox
    /\ s.outbox[<<b, s.beads[b].gen>>] = "pending"

\* What one failed persist leaves in the maps of a process.
Leftover(k, known) ==
    /\ \A b \in DOMAIN k.beads \ known : Fresh(k, b)
    /\ \A e \in DOMAIN k.outbox : Bead(e) \in DOMAIN k.beads \cup known

Untouched == \A p \in Processes : residue[p] = Empty

IInv ==
    /\ TypeOK
    /\ faults = 0 => Untouched /\ (file # None => Current(file))
    /\ faults =< 1 =>
           /\ file # None => Sound(file)
           /\ \A p \in Processes : Leftover(residue[p], Known)
           /\ LeaseDurable
           /\ CompletionDurable
           /\ OneLeasePerGeneration

-----------------------------------------------------------------------------
\* The maps the adapter builds are maps of the same kind.
LEMMA MapLaws ==
    ASSUME NEW D, NEW R
    PROVE  /\ \A f \in Maps(D, R) : f \in [DOMAIN f -> R] /\ DOMAIN f \subseteq D
           /\ \A f, g \in Maps(D, R) : Over(f, g) \in Maps(D, R)
           /\ \A f \in Maps(D, R), x \in D, v \in R : With(f, x, v) \in Maps(D, R)
           /\ \A f \in Maps(D, R) : \A S : [x \in DOMAIN f \ S |-> f[x]] \in Maps(D, R)
           /\ \A f \in Maps(D, R) : \A x \in DOMAIN f, v \in R :
                  [f EXCEPT ![x] = v] \in Maps(D, R)
           /\ <<>> \in Maps(D, R)
<1>1. \A f \in Maps(D, R) : f \in [DOMAIN f -> R] /\ DOMAIN f \subseteq D
  BY DEF Maps
<1>2. ASSUME NEW f, NEW S \in SUBSET D, f \in [S -> R]
      PROVE  f \in Maps(D, R)
  BY <1>2 DEF Maps
<1>3. ASSUME NEW f \in Maps(D, R), NEW g \in Maps(D, R)
      PROVE  Over(f, g) \in Maps(D, R)
  <2>1. Over(f, g) \in [DOMAIN f \cup DOMAIN g -> R]
    BY <1>1 DEF Over
  <2> QED BY <1>1, <1>2, <2>1
<1>4. ASSUME NEW f \in Maps(D, R), NEW x \in D, NEW v \in R
      PROVE  With(f, x, v) \in Maps(D, R)
  <2>1. With(f, x, v) \in [DOMAIN f \cup {x} -> R]
    BY <1>1 DEF With
  <2> QED BY <1>1, <1>2, <2>1
<1>5. ASSUME NEW f \in Maps(D, R), NEW S
      PROVE  [x \in DOMAIN f \ S |-> f[x]] \in Maps(D, R)
  <2>1. [x \in DOMAIN f \ S |-> f[x]] \in [DOMAIN f \ S -> R]
    BY <1>1
  <2> QED BY <1>1, <1>2, <2>1
<1>6. ASSUME NEW f \in Maps(D, R), NEW x \in DOMAIN f, NEW v \in R
      PROVE  [f EXCEPT ![x] = v] \in Maps(D, R)
  <2>1. [f EXCEPT ![x] = v] \in [DOMAIN f -> R]
    BY <1>1
  <2> QED BY <1>1, <1>2, <2>1
<1>7. <<>> \in Maps(D, R)
  <2>1. <<>> \in [{} -> R]
    OBVIOUS
  <2> QED BY <1>2, <2>1
<1> QED BY <1>1, <1>3, <1>4, <1>5, <1>6, <1>7

\* What a process works on is the content of the file, with what is left over
\* from a persist of its own that failed.
LEMMA Loaded ==
    ASSUME TypeOK, NEW p \in Processes
    PROVE  /\ Load(p) \in State
           /\ Known \subseteq DOMAIN Load(p).beads
           /\ \A b \in Known : Load(p).beads[b] = file.beads[b]
           /\ faults =< 1 /\ IInv => Sound(Load(p))
           /\ faults =< 1 /\ IInv =>
                  \A b \in DOMAIN Load(p).beads \ Known : Load(p).beads[b].status = "ready"
           /\ faults = 0 /\ IInv =>
                  /\ file # None => DOMAIN Load(p).outbox = DOMAIN file.outbox
                  /\ DOMAIN Load(p).beads = Known
                  /\ Current(Load(p))
<1>1. Empty \in State
  BY MapLaws DEF Empty, State
<1>2. CASE file = None
  BY <1>1, <1>2 DEF Load, Merge, Known, Empty, Sound, Current
<1>3. CASE file # None
  <2> DEFINE k == residue[p]
             s == Load(p)
  <2>1. file \in State /\ k \in State
    BY <1>3 DEF TypeOK
  <2>2. s = [beads |-> Over(file.beads, k.beads), outbox |-> Over(file.outbox, k.outbox)]
    BY <1>3 DEF Load, Merge
  <2>3. s \in State
    <3>1. /\ Over(file.beads, k.beads) \in Maps(Beads, BeadRecord)
          /\ Over(file.outbox, k.outbox) \in Maps(EventId, Event)
      <4> HIDE DEF k
      <4> QED BY <2>1, MapLaws DEF State
    <3> QED BY <2>2, <3>1 DEF State
  <2>4. /\ DOMAIN s.beads = DOMAIN file.beads \cup DOMAIN k.beads
        /\ \A b \in DOMAIN s.beads :
               s.beads[b] = IF b \in DOMAIN file.beads THEN file.beads[b] ELSE k.beads[b]
        /\ DOMAIN s.outbox = DOMAIN file.outbox \cup DOMAIN k.outbox
        /\ \A e \in DOMAIN s.outbox :
               s.outbox[e] = IF e \in DOMAIN file.outbox THEN file.outbox[e] ELSE k.outbox[e]
    BY <2>2 DEF Over
  <2>5. Known = DOMAIN file.beads
    BY <1>3 DEF Known
  <2>6. ASSUME faults =< 1, IInv
        PROVE  Sound(s) /\ \A b \in DOMAIN s.beads \ Known : s.beads[b].status = "ready"
    <3>1. Sound(file) /\ Leftover(k, Known)
      BY <1>3, <2>6 DEF IInv
    <3> HIDE DEF s, k
    <3>2. ASSUME NEW b \in DOMAIN s.beads \ Known
          PROVE  Fresh(s, b)
      <4>1. b \in DOMAIN k.beads \ Known /\ s.beads[b] = k.beads[b]
        BY <2>4, <2>5
      <4>2. Fresh(k, b)
        BY <3>1, <4>1 DEF Leftover
      <4>3. <<b, k.beads[b].gen>> \notin DOMAIN file.outbox
        BY <2>5, <3>1 DEF Sound, Bead
      <4> QED BY <2>4, <4>1, <4>2, <4>3 DEF Fresh
    <3>3. ASSUME NEW b \in Known
          PROVE  /\ s.beads[b].status = "ready" => s.beads[b].holder = None
                 /\ s.beads[b].status # "completed" => s.beads[b].receipt = None
                 /\ <<b, s.beads[b].gen>> \in DOMAIN s.outbox
                 /\ s.outbox[<<b, s.beads[b].gen>>] \in {"pending", "acknowledged"}
      <4>1. b \in DOMAIN s.beads /\ s.beads[b] = file.beads[b]
        BY <2>4, <2>5
      <4>2. /\ <<b, file.beads[b].gen>> \in DOMAIN file.outbox
            /\ file.outbox[<<b, file.beads[b].gen>>] \in {"pending", "acknowledged"}
            /\ file.beads[b].status = "ready" => file.beads[b].holder = None
            /\ file.beads[b].status # "completed" => file.beads[b].receipt = None
        BY <2>5, <3>1 DEF Sound
      <4> QED BY <2>4, <4>1, <4>2
    <3>4. \A e \in DOMAIN s.outbox : Bead(e) \in DOMAIN s.beads
      BY <2>4, <2>5, <3>1 DEF Sound, Leftover
    <3>5. Sound(s)
      <4>1. ASSUME NEW b \in DOMAIN s.beads
            PROVE  /\ s.beads[b].status = "ready" => s.beads[b].holder = None
                   /\ s.beads[b].status # "completed" => s.beads[b].receipt = None
                   /\ <<b, s.beads[b].gen>> \in DOMAIN s.outbox
                   /\ s.outbox[<<b, s.beads[b].gen>>] \in {"pending", "acknowledged"}
        <5>1. CASE b \in Known
          BY <3>3, <5>1
        <5>2. CASE b \notin Known
          BY <3>2, <5>2 DEF Fresh
        <5> QED BY <5>1, <5>2
      <4> QED BY <3>4, <4>1 DEF Sound
    <3> QED BY <3>2, <3>5 DEF Fresh
  <2>7. ASSUME faults = 0, IInv
        PROVE  /\ DOMAIN s.outbox = DOMAIN file.outbox
               /\ DOMAIN s.beads = Known
               /\ Current(s)
    <3>1. k = Empty /\ Current(file) /\ Sound(file)
      BY <1>3, <2>7 DEF IInv, Untouched
    <3>2. DOMAIN k.beads = {} /\ DOMAIN k.outbox = {}
      BY <3>1 DEF Empty
    <3> HIDE DEF s, k
    <3>3. DOMAIN s.outbox = DOMAIN file.outbox /\ DOMAIN s.beads = Known
      BY <2>4, <2>5, <3>2
    <3>4. ASSUME NEW e \in DOMAIN s.outbox, s.outbox[e] = "pending"
          PROVE  s.beads[Bead(e)].gen = Gen(e)
      <4>1. Bead(e) \in DOMAIN file.beads /\ s.outbox[e] = file.outbox[e]
        BY <2>4, <3>1, <3>3 DEF Sound
      <4>2. s.beads[Bead(e)] = file.beads[Bead(e)]
        BY <2>4, <4>1
      <4> QED BY <3>1, <3>3, <3>4, <4>1, <4>2 DEF Current
    <3> QED BY <3>3, <3>4 DEF Current
  <2> HIDE DEF s, k
  <2>8. Known \subseteq DOMAIN s.beads /\ \A b \in Known : s.beads[b] = file.beads[b]
    BY <2>4, <2>5
  <2> QED BY <2>3, <2>6, <2>7, <2>8 DEF s
<1> QED BY <1>2, <1>3

-----------------------------------------------------------------------------
\* A record that is not older, and keeps who holds it and what it completed with.
Later(r, q) ==
    \/ q.gen > r.gen
    \/ /\ q.gen = r.gen
       /\ r.holder # None => q.holder = r.holder
       /\ r.receipt # None => q.receipt = r.receipt

\* What every step does to the file and to the maps of the processes.
Written ==
    /\ file' \in State \cup {None}
    /\ residue' \in [Processes -> State]
    /\ faults' \in 0..MaxFaults
    /\ faults =< faults'
    /\ faults' = 0 => Untouched' /\ (file' # None => Current(file'))
    /\ faults' =< 1 =>
           /\ file' # None => Sound(file')
           /\ \A p \in Processes : Leftover(residue'[p], Known')
           /\ \A b \in Known : b \in Known' /\ Later(file.beads[b], file'.beads[b])

\* t may be written where s was read.
Follows(s, t) ==
    /\ \A b \in DOMAIN s.beads : b \in DOMAIN t.beads /\ Later(s.beads[b], t.beads[b])
    /\ \A b \in DOMAIN t.beads \ DOMAIN s.beads : Fresh(t, b)
    /\ Sound(s) => Sound(t)
    /\ Sound(s) /\ Current(s) => Current(t)

\* A persist, whether it succeeds or fails.
LEMMA Writing ==
    ASSUME IInv, NEW p \in Processes, NEW t \in State,
           faults =< 1 => Follows(Load(p), t),
           Persisted(p, t) \/ PersistFailed(p, t)
    PROVE  Written
<1> DEFINE s == Load(p)
<1>0. TypeOK
  BY DEF IInv
<1>1. /\ s \in State /\ t # None
      /\ Known \subseteq DOMAIN s.beads
      /\ \A b \in Known : s.beads[b] = file.beads[b]
      /\ faults =< 1 => Sound(s)
      /\ faults = 0 => DOMAIN s.beads = Known /\ Current(s)
  BY <1>0, Loaded, AbsentIsNoState
<1> HIDE DEF s
<1>2. Empty \in State /\ \A known : Leftover(Empty, known)
  BY MapLaws DEF Empty, State, Leftover
<1>3. faults \in 0..MaxFaults /\ MaxFaults \in Nat
  BY <1>0, FileConstants DEF TypeOK
<1>4. CASE /\ file' = t
           /\ residue' = [residue EXCEPT ![p] = Empty]
           /\ faults' = faults \/ (faults < MaxFaults /\ faults' = faults + 1)
  <2>1. residue' \in [Processes -> State] /\ faults' \in 0..MaxFaults /\ faults =< faults'
    BY <1>0, <1>2, <1>3, <1>4 DEF TypeOK
  <2>2. Known' = DOMAIN t.beads
    BY <1>1, <1>4 DEF Known
  <2>3. ASSUME faults =< 1
        PROVE  \A b \in Known : b \in Known' /\ Later(file.beads[b], file'.beads[b])
    BY <1>1, <1>4, <2>2, <2>3 DEF Follows, s
  <2>4. ASSUME faults' = 0 PROVE Untouched' /\ Current(file')
    <3>1. faults = 0
      BY <1>3, <1>4, <2>4
    <3>2. Untouched
      BY <3>1 DEF IInv
    <3>3. Untouched'
      BY <1>0, <1>4, <3>2 DEF TypeOK, Untouched
    <3> QED BY <1>1, <1>3, <1>4, <3>1, <3>3 DEF Follows, s
  <2>5. ASSUME faults' =< 1
        PROVE  /\ Sound(file')
               /\ \A q \in Processes : Leftover(residue'[q], Known')
               /\ \A b \in Known : b \in Known' /\ Later(file.beads[b], file'.beads[b])
    <3>1. faults =< 1
      BY <1>3, <1>4, <2>5
    <3>2. Known \subseteq Known'
      BY <2>3, <3>1
    <3>3. ASSUME NEW q \in Processes PROVE Leftover(residue'[q], Known')
      <4>1. CASE q = p
        BY <1>0, <1>2, <1>4, <4>1 DEF TypeOK
      <4>2. CASE q # p
        <5>1. residue'[q] = residue[q] /\ Leftover(residue[q], Known)
          BY <1>0, <1>4, <3>1, <4>2 DEF TypeOK, IInv
        <5> QED BY <3>2, <5>1 DEF Leftover
      <4> QED BY <4>1, <4>2
    <3> QED BY <1>1, <1>4, <2>3, <3>1, <3>3 DEF Follows, s
  <2> QED BY <1>4, <2>1, <2>4, <2>5 DEF Written
<1>5. CASE /\ file' = file
           /\ residue' = [residue EXCEPT ![p] = Survivors(t, file)]
           /\ faults < MaxFaults
           /\ faults' = faults + 1
  <2> DEFINE k == Survivors(t, file)
  <2>1. k \in State
    <3>1. CASE file = None
      BY <1>2, <3>1 DEF Survivors
    <3>2. CASE file # None
      <4>1. k = [beads  |-> [b \in DOMAIN t.beads \ DOMAIN file.beads |-> t.beads[b]],
                 outbox |-> [e \in DOMAIN t.outbox \ DOMAIN file.outbox |-> t.outbox[e]]]
        BY <3>2 DEF Survivors
      <4>2. t.beads \in Maps(Beads, BeadRecord) /\ t.outbox \in Maps(EventId, Event)
        BY DEF State
      <4>3. /\ [b \in DOMAIN t.beads \ DOMAIN file.beads |-> t.beads[b]]
                   \in Maps(Beads, BeadRecord)
            /\ [e \in DOMAIN t.outbox \ DOMAIN file.outbox |-> t.outbox[e]]
                   \in Maps(EventId, Event)
        BY <4>2, MapLaws
      <4> QED BY <4>1, <4>3 DEF State
    <3> QED BY <3>1, <3>2
  <2>2. residue' \in [Processes -> State] /\ faults' \in 0..MaxFaults /\ faults =< faults'
        /\ faults' # 0
    <3> HIDE DEF k
    <3> QED BY <1>0, <1>3, <1>5, <2>1 DEF TypeOK, k
  <2>3. Known' = Known /\ \A b \in Known : Later(file.beads[b], file'.beads[b])
    BY <1>5 DEF Known, Later
  <2>4. ASSUME faults' =< 1
        PROVE  /\ file' # None => Sound(file')
               /\ \A q \in Processes : Leftover(residue'[q], Known')
    <3>1. faults = 0
      BY <1>3, <1>5, <2>4
    <3>2. Sound(t) /\ DOMAIN s.beads = Known /\ \A b \in DOMAIN t.beads \ Known : Fresh(t, b)
      BY <1>1, <3>1 DEF Follows, s
    <3>3. Leftover(k, Known)
      <4>1. CASE file = None
        BY <1>2, <4>1 DEF Survivors
      <4>2. CASE file # None
        <5>1. /\ DOMAIN k.beads = DOMAIN t.beads \ Known
              /\ \A b \in DOMAIN k.beads : k.beads[b] = t.beads[b]
              /\ DOMAIN k.outbox = DOMAIN t.outbox \ DOMAIN file.outbox
              /\ \A e \in DOMAIN k.outbox : k.outbox[e] = t.outbox[e]
          BY <4>2 DEF Survivors, Known
        <5>2. Sound(file) /\ Known = DOMAIN file.beads
          BY <3>1, <4>2 DEF IInv, Known
        <5> HIDE DEF k
        <5>3. ASSUME NEW b \in DOMAIN k.beads PROVE Fresh(k, b)
          <6>1. Fresh(t, b) /\ k.beads[b] = t.beads[b] /\ b \notin DOMAIN file.beads
            BY <3>2, <5>1, <5>2
          <6>2. <<b, t.beads[b].gen>> \notin DOMAIN file.outbox
            BY <5>2, <6>1 DEF Sound, Bead
          <6> QED BY <5>1, <6>1, <6>2 DEF Fresh
        <5>4. \A e \in DOMAIN k.outbox : Bead(e) \in DOMAIN k.beads \cup Known
          BY <3>2, <5>1 DEF Sound
        <5> QED BY <5>3, <5>4 DEF Leftover
      <4> QED BY <4>1, <4>2
    <3> HIDE DEF k
    <3>4. ASSUME NEW q \in Processes PROVE Leftover(residue'[q], Known')
      <4>1. CASE q = p
        BY <1>0, <1>5, <2>3, <3>3, <4>1 DEF TypeOK, k
      <4>2. CASE q # p
        <5>1. residue'[q] = residue[q] /\ Leftover(residue[q], Known)
          BY <1>0, <1>5, <3>1, <4>2 DEF TypeOK, IInv
        <5> QED BY <2>3, <5>1
      <4> QED BY <4>1, <4>2
    <3> QED BY <1>5, <3>1, <3>4 DEF IInv
  <2> QED BY <1>0, <1>5, <2>2, <2>3, <2>4 DEF Written, TypeOK
<1> QED BY <1>4, <1>5 DEF Persisted, PersistFailed

\* A record replaced by one that is not ready and of the same generation.
LEMMA Rewriting ==
    ASSUME NEW s \in State, NEW b \in DOMAIN s.beads, NEW r \in BeadRecord,
           NEW t, t = [s EXCEPT !.beads = [s.beads EXCEPT ![b] = r]],
           r.gen = s.beads[b].gen,
           r.status # "ready",
           Sound(s) => /\ r.status # "completed" => r.receipt = None
                       /\ Later(s.beads[b], r)
    PROVE  t \in State /\ (Sound(s) => Follows(s, t))
<1>1. /\ t = [beads |-> [s.beads EXCEPT ![b] = r], outbox |-> s.outbox]
      /\ s.beads \in Maps(Beads, BeadRecord) /\ s.outbox \in Maps(EventId, Event)
  BY DEF State
<1>2. [s.beads EXCEPT ![b] = r] \in Maps(Beads, BeadRecord)
  BY <1>1, MapLaws
<1>3. t \in State
  BY <1>1, <1>2 DEF State
<1>4. /\ DOMAIN t.beads = DOMAIN s.beads /\ t.outbox = s.outbox
      /\ \A x \in DOMAIN s.beads : t.beads[x] = IF x = b THEN r ELSE s.beads[x]
  BY <1>1
<1>5. ASSUME Sound(s) PROVE Follows(s, t)
  <2>1. \A x \in DOMAIN s.beads : t.beads[x].gen = s.beads[x].gen
    BY <1>4
  <2>2. Sound(t)
    <3>1. ASSUME NEW x \in DOMAIN t.beads
          PROVE  /\ t.beads[x].status = "ready" => t.beads[x].holder = None
                 /\ t.beads[x].status # "completed" => t.beads[x].receipt = None
                 /\ <<x, t.beads[x].gen>> \in DOMAIN t.outbox
                 /\ t.outbox[<<x, t.beads[x].gen>>] \in {"pending", "acknowledged"}
      <4>1. /\ <<x, t.beads[x].gen>> \in DOMAIN t.outbox
            /\ t.outbox[<<x, t.beads[x].gen>>] \in {"pending", "acknowledged"}
        BY <1>4, <1>5, <2>1 DEF Sound
      <4>2. /\ t.beads[x].status = "ready" => t.beads[x].holder = None
            /\ t.beads[x].status # "completed" => t.beads[x].receipt = None
        <5>1. CASE x = b
          <6>1. t.beads[x] = r
            BY <1>4, <5>1
          <6> QED BY <1>5, <6>1
        <5>2. CASE x # b
          <6>1. x \in DOMAIN s.beads /\ t.beads[x] = s.beads[x]
            BY <1>4, <5>2
          <6> QED BY <1>5, <6>1 DEF Sound
        <5> QED BY <5>1, <5>2
      <4> QED BY <4>1, <4>2
    <3>2. \A e \in DOMAIN t.outbox : Bead(e) \in DOMAIN t.beads
      BY <1>4, <1>5 DEF Sound
    <3> QED BY <3>1, <3>2 DEF Sound
  <2>3. Current(s) => Current(t)
    BY <1>4, <1>5, <2>1 DEF Sound, Current
  <2>4. \A x \in DOMAIN s.beads : x \in DOMAIN t.beads /\ Later(s.beads[x], t.beads[x])
    BY <1>4, <1>5 DEF Later
  <2> QED BY <1>4, <2>2, <2>3, <2>4 DEF Follows
<1> QED BY <1>3, <1>5

\* A generation that is published.
LEMMA Publishing ==
    ASSUME NEW s \in State, NEW b \in Beads, NEW g \in Generations,
           b \in DOMAIN s.beads => g > s.beads[b].gen
    PROVE  Publish(s, b, g) \in State /\ (Sound(s) => Follows(s, Publish(s, b, g)))
<1> DEFINE r == [gen |-> g, status |-> "ready", holder |-> None,
                 receipt |-> None, failures |-> {}]
           o == Supersede(s.outbox, b, g)
           t == Publish(s, b, g)
<1>1. r \in BeadRecord
  BY DEF BeadRecord
<1>2. s.beads \in Maps(Beads, BeadRecord) /\ s.outbox \in Maps(EventId, Event)
  BY DEF State
<1>3. o \in Maps(EventId, Event)
  <2>1. s.outbox \in [DOMAIN s.outbox -> Event] /\ DOMAIN s.outbox \subseteq EventId
    BY <1>2, MapLaws
  <2>2. o \in [DOMAIN s.outbox -> Event]
    BY <2>1 DEF Supersede, Event
  <2> QED BY <2>1, <2>2 DEF Maps
<1>4. t = [beads |-> With(s.beads, b, r), outbox |-> With(o, <<b, g>>, "pending")]
  BY DEF Publish
<1>5. t \in State
  <2>1. <<b, g>> \in EventId /\ "pending" \in Event
    BY DEF EventId, Event
  <2>2. With(s.beads, b, r) \in Maps(Beads, BeadRecord)
    <3> HIDE DEF r
    <3> QED BY <1>1, <1>2, MapLaws
  <2>3. With(o, <<b, g>>, "pending") \in Maps(EventId, Event)
    <3> HIDE DEF o
    <3> QED BY <1>3, <2>1, MapLaws
  <2> HIDE DEF r, o, t
  <2> QED BY <1>4, <2>2, <2>3 DEF State
<1> SUFFICES ASSUME Sound(s) PROVE Follows(s, t)
  BY <1>5
<1>6. /\ DOMAIN t.beads = DOMAIN s.beads \cup {b}
      /\ \A x \in DOMAIN t.beads : t.beads[x] = IF x = b THEN r ELSE s.beads[x]
  BY <1>4 DEF With
<1>7. /\ DOMAIN t.outbox = DOMAIN s.outbox \cup {<<b, g>>}
      /\ t.outbox[<<b, g>>] = "pending"
      /\ \A e \in DOMAIN s.outbox :
             e # <<b, g>> =>
                t.outbox[e] = IF Bead(e) = b /\ Gen(e) < g /\ s.outbox[e] = "pending"
                              THEN "superseded" ELSE s.outbox[e]
  BY <1>4 DEF With, Supersede
<1>8. Fresh(t, b)
  BY <1>6, <1>7 DEF Fresh
<1>9. ASSUME NEW x \in DOMAIN s.beads, x # b
      PROVE  /\ t.beads[x] = s.beads[x]
             /\ t.outbox[<<x, s.beads[x].gen>>] = s.outbox[<<x, s.beads[x].gen>>]
             /\ <<x, s.beads[x].gen>> \in DOMAIN s.outbox
  <2> HIDE DEF r, o, t
  <2> QED BY <1>6, <1>7, <1>9 DEF Sound, Bead
<1>10. s.beads \in [DOMAIN s.beads -> BeadRecord] /\ Generations \subseteq Nat
  BY <1>2, MapLaws, FileConstants
<1>11. Sound(t)
  <2>1. ASSUME NEW x \in DOMAIN t.beads
        PROVE  /\ t.beads[x].status = "ready" => t.beads[x].holder = None
               /\ t.beads[x].status # "completed" => t.beads[x].receipt = None
               /\ <<x, t.beads[x].gen>> \in DOMAIN t.outbox
               /\ t.outbox[<<x, t.beads[x].gen>>] \in {"pending", "acknowledged"}
    <3>1. CASE x = b
      <4> HIDE DEF r, o, t
      <4> QED BY <1>8, <3>1 DEF Fresh
    <3>2. CASE x # b
      <4> HIDE DEF r, o, t
      <4>1. x \in DOMAIN s.beads
        BY <1>6, <3>2
      <4> QED BY <1>7, <1>9, <3>2, <4>1 DEF Sound
    <3> QED BY <3>1, <3>2
  <2>2. \A e \in DOMAIN t.outbox : Bead(e) \in DOMAIN t.beads
    <3> HIDE DEF r, o, t
    <3> QED BY <1>6, <1>7 DEF Sound, Bead
  <2> HIDE DEF r, o, t
  <2> QED BY <2>1, <2>2 DEF Sound
<1>12. ASSUME Current(s) PROVE Current(t)
  <2> HIDE DEF o, t
  <2>1. ASSUME NEW e \in DOMAIN t.outbox, t.outbox[e] = "pending"
        PROVE  t.beads[Bead(e)].gen = Gen(e)
    <3>1. CASE e = <<b, g>>
      BY <1>6, <3>1 DEF Bead, Gen
    <3>2. CASE e # <<b, g>>
      <4>1. e \in DOMAIN s.outbox /\ Bead(e) \in DOMAIN s.beads
        BY <1>7, <3>2 DEF Sound
      <4>2. s.outbox[e] = "pending" /\ ~ (Bead(e) = b /\ Gen(e) < g)
        BY <1>7, <2>1, <3>2, <4>1
      <4>3. s.beads[Bead(e)].gen = Gen(e)
        BY <1>12, <4>1, <4>2 DEF Current
      <4>4. Bead(e) # b
        BY <1>10, <4>1, <4>2, <4>3 DEF BeadRecord
      <4> QED BY <1>9, <4>1, <4>3, <4>4
    <3> QED BY <3>1, <3>2
  <2> QED BY <2>1 DEF Current
<1>13. ASSUME NEW x \in DOMAIN s.beads
       PROVE  x \in DOMAIN t.beads /\ Later(s.beads[x], t.beads[x])
  <2>1. x \in DOMAIN t.beads
    BY <1>6
  <2>2. CASE x = b
    <3>1. t.beads[x].gen = g /\ g > s.beads[x].gen
      BY <1>6, <2>1, <2>2
    <3> HIDE DEF r, o, t
    <3> QED BY <2>1, <3>1 DEF Later
  <2>3. CASE x # b
    <3> HIDE DEF r, o, t
    <3> QED BY <1>9, <2>1, <2>3 DEF Later
  <2> QED BY <2>2, <2>3
<1> HIDE DEF r, o, t
<1>14. Follows(s, t)
  <2>1. \A x \in DOMAIN t.beads \ DOMAIN s.beads : Fresh(t, x)
    BY <1>6, <1>8
  <2> QED BY <1>11, <1>12, <1>13, <2>1 DEF Follows
<1> QED BY <1>14

-----------------------------------------------------------------------------
\* What is held is still held, or fenced out, when nothing older was written.
LEMMA Kept ==
    ASSUME IInv, Written, faults' =< 1
    PROVE  /\ \A l \in leases :
                  /\ file' # None /\ l[1] \in DOMAIN file'.beads
                  /\ \/ file'.beads[l[1]].gen > l[2]
                     \/ MatchesFence(file', l)
           /\ \A c \in receipts :
                  /\ file' # None /\ c[1] \in DOMAIN file'.beads
                  /\ \/ file'.beads[c[1]].gen > c[2]
                     \/ file'.beads[c[1]].gen = c[2] /\ file'.beads[c[1]].receipt = c[3]
<1>1. faults =< 1 /\ TypeOK
  BY FileConstants DEF IInv, TypeOK, Written
<1>2. LeaseDurable /\ CompletionDurable
  BY <1>1 DEF IInv
<1>3. ASSUME NEW b \in Known
      PROVE  /\ file' # None /\ b \in DOMAIN file'.beads
             /\ Later(file.beads[b], file'.beads[b])
             /\ file.beads[b].gen \in Nat /\ file'.beads[b].gen \in Nat
  <2>1. file # None /\ file \in State /\ b \in DOMAIN file.beads
    BY <1>1, <1>3 DEF Known, TypeOK
  <2>2. b \in Known' /\ Later(file.beads[b], file'.beads[b])
    BY DEF Written
  <2>3. file' # None /\ file' \in State /\ b \in DOMAIN file'.beads
    BY <2>2 DEF Known, Written
  <2>4. file.beads[b] \in BeadRecord /\ file'.beads[b] \in BeadRecord
    BY <2>1, <2>3, MapLaws DEF State
  <2> QED BY <2>2, <2>3, <2>4, FileConstants DEF BeadRecord
<1>4. ASSUME NEW l \in leases
      PROVE  /\ file' # None /\ l[1] \in DOMAIN file'.beads
             /\ \/ file'.beads[l[1]].gen > l[2]
                \/ MatchesFence(file', l)
  <2>1. l[1] \in Known /\ (file.beads[l[1]].gen > l[2] \/ MatchesFence(file, l))
    BY <1>2 DEF LeaseDurable, Known
  <2>2. l[2] \in Nat /\ l[3] # None
    BY <1>1, FileConstants DEF TypeOK
  <2> QED BY <1>3, <2>1, <2>2 DEF Later, MatchesFence
<1>5. ASSUME NEW c \in receipts
      PROVE  /\ file' # None /\ c[1] \in DOMAIN file'.beads
             /\ \/ file'.beads[c[1]].gen > c[2]
                \/ file'.beads[c[1]].gen = c[2] /\ file'.beads[c[1]].receipt = c[3]
  <2>1. /\ c[1] \in Known
        /\ \/ file.beads[c[1]].gen > c[2]
           \/ file.beads[c[1]].gen = c[2] /\ file.beads[c[1]].receipt = c[3]
    BY <1>2 DEF CompletionDurable, Known
  <2>2. c[2] \in Nat /\ c[3] # None
    BY <1>1, FileConstants DEF TypeOK
  <2> QED BY <1>3, <2>1, <2>2 DEF Later
<1> QED BY <1>4, <1>5

\* A step that writes and grants nothing.
LEMMA Ungranted ==
    ASSUME IInv, Written, UNCHANGED <<leases, receipts>>,
           announced' \subseteq Beads \X Generations \X Told
    PROVE  IInv'
<1>1. TypeOK'
  BY DEF IInv, TypeOK, Written
<1>2. ASSUME faults' =< 1
      PROVE  LeaseDurable' /\ CompletionDurable' /\ OneLeasePerGeneration'
  <2>1. faults =< 1
    BY <1>2, FileConstants DEF IInv, TypeOK, Written
  <2> QED BY <1>2, <2>1, Kept
          DEF IInv, LeaseDurable, CompletionDurable, OneLeasePerGeneration, MatchesFence
<1> QED BY <1>1, <1>2 DEF IInv, Written

\* A lease that is granted is the claim in the file.
LEMMA Granted ==
    ASSUME IInv, Written, UNCHANGED <<receipts, announced>>,
           NEW b \in Beads, NEW g \in Generations, NEW w \in Workflows,
           leases' = leases \cup {<<b, g, w>>},
           faults' =< 1 =>
               /\ file' # None /\ MatchesFence(file', <<b, g, w>>)
               /\ \A l \in leases : l[1] = b /\ l[2] = g => l[3] = w
    PROVE  IInv'
<1>1. TypeOK'
  BY DEF IInv, TypeOK, Written
<1>2. ASSUME faults' =< 1
      PROVE  LeaseDurable' /\ CompletionDurable' /\ OneLeasePerGeneration'
  <2>1. faults =< 1
    BY <1>2, FileConstants DEF IInv, TypeOK, Written
  <2>2. LeaseDurable'
    BY <1>2, Kept DEF LeaseDurable, MatchesFence
  <2>3. CompletionDurable'
    BY <1>2, Kept DEF CompletionDurable
  <2>4. OneLeasePerGeneration'
    BY <1>2, <2>1 DEF IInv, OneLeasePerGeneration
  <2> QED BY <2>2, <2>3, <2>4
<1> QED BY <1>1, <1>2 DEF IInv, Written

\* A receipt that is reported is the one in the file.
LEMMA Reported ==
    ASSUME IInv, Written, UNCHANGED <<leases, announced>>,
           NEW l \in leases, NEW r \in Receipts,
           receipts' = receipts \cup {<<l[1], l[2], r>>},
           faults' =< 1 =>
               /\ file' # None /\ l[1] \in DOMAIN file'.beads
               /\ file'.beads[l[1]].gen = l[2] /\ file'.beads[l[1]].receipt = r
    PROVE  IInv'
<1>1. TypeOK'
  BY DEF IInv, TypeOK, Written
<1>2. ASSUME faults' =< 1
      PROVE  LeaseDurable' /\ CompletionDurable' /\ OneLeasePerGeneration'
  <2>1. faults =< 1
    BY <1>2, FileConstants DEF IInv, TypeOK, Written
  <2>2. LeaseDurable'
    BY <1>2, Kept DEF LeaseDurable, MatchesFence
  <2>3. CompletionDurable'
    BY <1>2, Kept DEF CompletionDurable
  <2>4. OneLeasePerGeneration'
    BY <1>2, <2>1 DEF IInv, OneLeasePerGeneration
  <2> QED BY <2>2, <2>3, <2>4
<1> QED BY <1>1, <1>2 DEF IInv, Written

\* A step that leaves the file and the maps alone.
LEMMA Unwritten ==
    ASSUME IInv, UNCHANGED <<file, residue, faults>>
    PROVE  Written
<1>1. Known' = Known /\ \A b \in Known : Later(file.beads[b], file'.beads[b])
  BY DEF Known, Later
<1> QED BY <1>1, FileConstants DEF IInv, TypeOK, Written, Untouched

-----------------------------------------------------------------------------
\* IInv holds at first and is kept by every step.
THEOREM Invariance == Spec => []IInv
<1>1. Init => IInv
  <2> SUFFICES ASSUME Init PROVE IInv
    OBVIOUS
  <2>1. /\ Empty \in State
        /\ \A known : Leftover(Empty, known)
    BY MapLaws DEF Empty, State, Leftover
  <2>2. /\ residue \in [Processes -> State]
        /\ \A p \in Processes : residue[p] = Empty
    BY <2>1 DEF Init
  <2>3. TypeOK
    BY <2>2, FileConstants DEF Init, TypeOK
  <2> QED BY <2>1, <2>2, <2>3
          DEF Init, IInv, Untouched, LeaseDurable, CompletionDurable, OneLeasePerGeneration
<1>2. IInv /\ [Next]_vars => IInv'
  <2> SUFFICES ASSUME IInv, [Next]_vars PROVE IInv'
    OBVIOUS
  <2>0. /\ \A l \in leases : l[1] \in Beads /\ l[2] \in Generations /\ l[3] \in Workflows
        /\ \A w \in Workflows : w # None
        /\ \A r \in Receipts : r # None
        /\ faults \in Nat
        /\ announced \subseteq Beads \X Generations \X Told
    BY FileConstants DEF IInv, TypeOK
  <2>1. ASSUME NEW p \in Processes
        PROVE  /\ Load(p) \in State
               /\ \A b \in Known : Load(p).beads[b] = file.beads[b]
               /\ \A b \in DOMAIN Load(p).beads : Load(p).beads[b] \in BeadRecord
               /\ faults =< 1 => Sound(Load(p))
               /\ faults =< 1 =>
                      \A b \in DOMAIN Load(p).beads \ Known : Load(p).beads[b].status = "ready"
    <3>1. Load(p) \in State
      BY Loaded DEF IInv
    <3>2. \A b \in DOMAIN Load(p).beads : Load(p).beads[b] \in BeadRecord
      BY <3>1, MapLaws DEF State
    <3> QED BY <3>1, <3>2, Loaded DEF IInv
  \* The claim, the completion and the failure of an attempt rewrite one record.
  <2>2. ASSUME NEW p \in Processes, NEW b \in DOMAIN Load(p).beads, NEW r \in BeadRecord,
               NEW t, t = [Load(p) EXCEPT !.beads = [Load(p).beads EXCEPT ![b] = r]],
               r.gen = Load(p).beads[b].gen,
               r.status # "ready",
               Sound(Load(p)) => /\ r.status # "completed" => r.receipt = None
                                 /\ Later(Load(p).beads[b], r),
               Persisted(p, t) \/ PersistFailed(p, t)
        PROVE  Written
    <3>1. t \in State /\ (Sound(Load(p)) => Follows(Load(p), t))
      BY <2>1, <2>2, Rewriting
    <3> QED BY <2>1, <2>2, <3>1, Writing
  <2>3. ASSUME NEW p \in Processes, NEW b \in Beads, NEW g \in Generations,
               TransitionReady(p, b, g)
        PROVE  IInv'
    <3> DEFINE s == Load(p)
               t == Publish(s, b, g)
    <3>1. /\ b \in DOMAIN s.beads => g > s.beads[b].gen
          /\ Persisted(p, t) \/ PersistFailed(p, t)
          /\ announced' = announced \cup {<<b, g, "stored">>} \/ UNCHANGED announced
          /\ UNCHANGED <<leases, receipts>>
      BY <2>3 DEF TransitionReady
    <3>2. s \in State /\ (faults =< 1 => Sound(s))
      BY <2>1
    <3> HIDE DEF s
    <3>3. t \in State /\ (Sound(s) => Follows(s, t))
      BY <3>1, <3>2, Publishing
    <3> HIDE DEF t
    <3>4. Written
      BY <3>1, <3>2, <3>3, Writing DEF s
    <3>5. announced' \subseteq Beads \X Generations \X Told
      BY <2>0, <3>1 DEF Told
    <3> QED BY <3>1, <3>4, <3>5, Ungranted
  <2>4. ASSUME NEW p \in Processes, NEW b \in Beads, NEW g \in Generations,
               NEW w \in Workflows, Claim(p, b, g, w)
        PROVE  IInv'
    <3> DEFINE s == Load(p)
               r == [s.beads[b] EXCEPT !.status = "claimed", !.holder = w]
               t == [s EXCEPT !.beads = [s.beads EXCEPT ![b] = r]]
    <3>1. /\ b \in DOMAIN s.beads /\ s.beads[b].gen = g /\ s.beads[b].status = "ready"
          /\ \/ Persisted(p, t) /\ leases' = leases \cup {<<b, g, w>>}
             \/ PersistFailed(p, t) /\ UNCHANGED leases
          /\ UNCHANGED <<receipts, announced>>
      BY <2>1, <2>4 DEF Claim, State
    <3>2. /\ s.beads[b] \in BeadRecord
          /\ faults =< 1 => Sound(s)
          /\ s \in State
      BY <2>1, <3>1
    <3>3. /\ r \in BeadRecord /\ r.gen = g /\ r.status = "claimed" /\ r.holder = w
          /\ r.receipt = s.beads[b].receipt
      <4> HIDE DEF s
      <4> QED BY <3>1, <3>2 DEF BeadRecord
    <3>4. Sound(s) => /\ r.status # "completed" => r.receipt = None
                      /\ Later(s.beads[b], r)
      <4> HIDE DEF s, r
      <4> QED BY <3>1, <3>3 DEF Sound, Later
    <3>5. Written
      <4> HIDE DEF r
      <4> QED BY <2>2, <3>1, <3>3, <3>4
    <3>6. CASE PersistFailed(p, t) /\ UNCHANGED leases
      BY <2>0, <3>1, <3>5, <3>6, Ungranted
    <3>7. CASE Persisted(p, t) /\ leases' = leases \cup {<<b, g, w>>}
      <4>1. t.beads[b] = r /\ b \in DOMAIN t.beads
        <5> HIDE DEF r, s
        <5> QED BY <3>1, <3>2 DEF State
      <4>2. file' # None /\ MatchesFence(file', <<b, g, w>>)
        <5>1. file' = t
          BY <3>7 DEF Persisted
        <5>2. t # None
          <6>1. t \in State
            <7> HIDE DEF r, s
            <7> QED BY <3>1, <3>2, <3>3, <3>4, Rewriting
          <6> QED BY <6>1, AbsentIsNoState
        <5> HIDE DEF t, r
        <5> QED BY <3>3, <4>1, <5>1, <5>2 DEF MatchesFence
      \* Who held the generation would be in the file, where nobody holds it.
      <4>3. ASSUME faults' =< 1, NEW l \in leases, l[1] = b, l[2] = g PROVE l[3] = w
        <5>1. faults =< 1
          BY <2>0, <3>7, <4>3 DEF Persisted
        <5>2. b \in Known /\ (file.beads[b].gen > g \/ file.beads[b].holder = l[3])
          BY <4>3, <5>1 DEF IInv, LeaseDurable, Known, MatchesFence
        <5>3. s.beads[b] = file.beads[b]
          BY <2>1, <5>2
        <5>4. s.beads[b].holder = None
          BY <3>1, <3>2, <5>1 DEF Sound
        <5>5. g \in Nat
          BY FileConstants
        <5> HIDE DEF s
        <5> QED BY <2>0, <3>1, <5>2, <5>3, <5>4, <5>5
      <4> HIDE DEF t
      <4> QED BY <3>1, <3>5, <3>7, <4>2, <4>3, Granted
    <3> QED BY <3>1, <3>6, <3>7
  <2>5. ASSUME NEW p \in Processes, NEW b \in Beads, NEW g \in Generations,
               NEW w \in Workflows, ClaimAgain(p, b, g, w)
        PROVE  IInv'
    <3> DEFINE s == Load(p)
    <3>1. /\ b \in DOMAIN s.beads /\ s.beads[b].gen = g
          /\ s.beads[b].status \in {"claimed", "completed"} /\ s.beads[b].holder = w
          /\ leases' = leases \cup {<<b, g, w>>}
          /\ UNCHANGED <<file, residue, faults, receipts, announced>>
      BY <2>5 DEF ClaimAgain
    <3> HIDE DEF s
    <3>2. Written
      BY <3>1, Unwritten
    <3>3. ASSUME faults =< 1
          PROVE  /\ file # None /\ MatchesFence(file, <<b, g, w>>)
                 /\ \A l \in leases : l[1] = b /\ l[2] = g => l[3] = w
      <4>1. b \in Known /\ s.beads[b] = file.beads[b]
        BY <2>1, <3>1, <3>3 DEF s
      <4>2. file # None /\ b \in DOMAIN file.beads
        BY <4>1 DEF Known
      <4>3. ASSUME NEW l \in leases, l[1] = b, l[2] = g PROVE l[3] = w
        <5>1. file.beads[b].gen > g \/ file.beads[b].holder = l[3]
          BY <3>3, <4>3 DEF IInv, LeaseDurable, MatchesFence
        <5>2. g \in Nat
          BY FileConstants
        <5> QED BY <3>1, <4>1, <5>1, <5>2
      <4> QED BY <3>1, <4>1, <4>2, <4>3 DEF MatchesFence
    <3>4. faults' =< 1 =>
              /\ file' # None /\ MatchesFence(file', <<b, g, w>>)
              /\ \A l \in leases : l[1] = b /\ l[2] = g => l[3] = w
      BY <3>1, <3>3 DEF MatchesFence
    <3> QED BY <3>1, <3>2, <3>4, Granted
  <2>6. ASSUME NEW p \in Processes, NEW l \in leases, NEW c \in Receipts, Complete(p, l, c)
        PROVE  IInv'
    <3> DEFINE s == Load(p)
               b == l[1]
               r == [s.beads[b] EXCEPT !.status = "completed", !.receipt = c]
               t == [s EXCEPT !.beads = [s.beads EXCEPT ![b] = r]]
    <3>1. /\ b \in DOMAIN s.beads /\ s.beads[b].gen = l[2] /\ s.beads[b].status = "claimed"
          /\ \/ Persisted(p, t) /\ receipts' = receipts \cup {<<l[1], l[2], c>>}
             \/ PersistFailed(p, t) /\ UNCHANGED receipts
          /\ UNCHANGED <<leases, announced>>
      BY <2>1, <2>6 DEF Complete, MatchesFence, State
    <3>2. /\ s.beads[b] \in BeadRecord
          /\ s \in State
      BY <2>1, <3>1
    <3>3. /\ r \in BeadRecord /\ r.gen = s.beads[b].gen /\ r.status = "completed"
          /\ r.receipt = c /\ r.holder = s.beads[b].holder
      <4> HIDE DEF s, b
      <4> QED BY <3>1, <3>2 DEF BeadRecord
    <3>4. Sound(s) => /\ r.status # "completed" => r.receipt = None
                      /\ Later(s.beads[b], r)
      <4> HIDE DEF s, r, b
      <4> QED BY <3>1, <3>3 DEF Sound, Later
    <3>5. Written
      <4> HIDE DEF r, b
      <4> QED BY <2>2, <3>1, <3>3, <3>4
    <3>6. CASE PersistFailed(p, t) /\ UNCHANGED receipts
      BY <2>0, <3>1, <3>5, <3>6, Ungranted
    <3>7. CASE Persisted(p, t) /\ receipts' = receipts \cup {<<l[1], l[2], c>>}
      <4>1. t.beads[b] = r /\ b \in DOMAIN t.beads
        <5> HIDE DEF r, s, b
        <5> QED BY <3>1, <3>2 DEF State
      <4>2. file' # None /\ file' = t
        <5>1. t \in State
          <6> HIDE DEF r, s, b
          <6> QED BY <3>1, <3>2, <3>3, <3>4, Rewriting
        <5> QED BY <3>7, <5>1, AbsentIsNoState DEF Persisted
      <4> HIDE DEF t, r
      <4> QED BY <3>1, <3>3, <3>5, <3>7, <4>1, <4>2, Reported
    <3> QED BY <3>1, <3>6, <3>7
  <2>7. ASSUME NEW p \in Processes, NEW l \in leases, NEW c \in Receipts,
               CompleteAgain(p, l, c)
        PROVE  IInv'
    <3> DEFINE s == Load(p)
               b == l[1]
    <3>1. /\ b \in DOMAIN s.beads /\ s.beads[b].gen = l[2]
          /\ s.beads[b].status = "completed" /\ s.beads[b].receipt = c
          /\ receipts' = receipts \cup {<<l[1], l[2], c>>}
          /\ UNCHANGED <<file, residue, faults, leases, announced>>
      BY <2>7 DEF CompleteAgain, MatchesFence
    <3> HIDE DEF s
    <3>2. Written
      BY <3>1, Unwritten
    <3>3. ASSUME faults =< 1
          PROVE  /\ file # None /\ b \in DOMAIN file.beads
                 /\ file.beads[b].gen = l[2] /\ file.beads[b].receipt = c
      <4>1. b \in Known /\ s.beads[b] = file.beads[b]
        BY <2>1, <3>1, <3>3 DEF s
      <4> QED BY <3>1, <4>1 DEF Known
    <3>4. faults' =< 1 =>
              /\ file' # None /\ l[1] \in DOMAIN file'.beads
              /\ file'.beads[l[1]].gen = l[2] /\ file'.beads[l[1]].receipt = c
      BY <3>1, <3>3
    <3> QED BY <3>1, <3>2, <3>4, Reported
  <2>8. ASSUME NEW p \in Processes, NEW l \in leases, NEW f \in Failures,
               RecordAttemptFailure(p, l, f)
        PROVE  IInv'
    <3> DEFINE s == Load(p)
               b == l[1]
               r == [s.beads[b] EXCEPT !.failures = @ \cup {f}]
               t == [s EXCEPT !.beads = [s.beads EXCEPT ![b] = r]]
    <3>1. /\ b \in DOMAIN s.beads /\ s.beads[b].status = "claimed"
          /\ Persisted(p, t) \/ PersistFailed(p, t)
          /\ UNCHANGED <<leases, receipts, announced>>
      BY <2>1, <2>8 DEF RecordAttemptFailure, MatchesFence, State
    <3>2. s.beads[b] \in BeadRecord /\ s \in State
      BY <2>1, <3>1
    <3>3. /\ r \in BeadRecord /\ r.gen = s.beads[b].gen /\ r.status = "claimed"
          /\ r.receipt = s.beads[b].receipt /\ r.holder = s.beads[b].holder
      <4> HIDE DEF s, b
      <4> QED BY <3>1, <3>2 DEF BeadRecord
    <3>4. Sound(s) => /\ r.status # "completed" => r.receipt = None
                      /\ Later(s.beads[b], r)
      <4> HIDE DEF s, r, b
      <4> QED BY <3>1, <3>3 DEF Sound, Later
    <3>5. Written
      <4> HIDE DEF r, b
      <4> QED BY <2>2, <3>1, <3>3, <3>4
    <3> QED BY <2>0, <3>1, <3>5, Ungranted
  <2>9. ASSUME NEW p \in Processes, NEW e \in EventId, AcknowledgeReadyEvent(p, e)
        PROVE  IInv'
    <3> DEFINE s == Load(p)
               v == IF s.outbox[e] = "pending" THEN "acknowledged"
                    ELSE "superseded-acknowledged"
               t == [s EXCEPT !.outbox = [s.outbox EXCEPT ![e] = v]]
    <3>1. /\ e \in DOMAIN s.outbox /\ s.outbox[e] \in {"pending", "superseded"}
          /\ Persisted(p, t) \/ PersistFailed(p, t)
          /\ UNCHANGED <<leases, receipts, announced>>
      BY <2>1, <2>9 DEF AcknowledgeReadyEvent, State
    <3>2. s \in State /\ (faults =< 1 => Sound(s)) /\ v \in Event
      BY <2>1 DEF Event
    <3> HIDE DEF s
    <3>3. t = [beads |-> s.beads, outbox |-> [s.outbox EXCEPT ![e] = v]]
      BY <3>2 DEF State
    <3>4. t \in State
      <4> HIDE DEF v, t
      <4>1. [s.outbox EXCEPT ![e] = v] \in Maps(EventId, Event)
        BY <3>1, <3>2, MapLaws DEF State
      <4> QED BY <3>2, <3>3, <4>1 DEF State
    <3>5. /\ t.beads = s.beads /\ DOMAIN t.outbox = DOMAIN s.outbox
          /\ \A d \in DOMAIN s.outbox : t.outbox[d] = IF d = e THEN v ELSE s.outbox[d]
      BY <3>3
    <3>6. ASSUME Sound(s) PROVE Follows(s, t)
      <4> HIDE DEF t
      <4>1. Sound(t)
        BY <3>1, <3>5, <3>6 DEF Sound
      <4>2. Current(s) => Current(t)
        BY <3>1, <3>5 DEF Current
      <4> QED BY <3>5, <4>1, <4>2 DEF Follows, Later
    <3> HIDE DEF t
    <3>7. Written
      BY <3>1, <3>2, <3>4, <3>6, Writing DEF s
    <3> QED BY <2>0, <3>1, <3>7, Ungranted
  <2>10. ASSUME NEW p \in Processes, Restart(p) PROVE IInv'
    <3>1. Empty \in State /\ \A known : Leftover(Empty, known)
      BY MapLaws DEF Empty, State, Leftover
    <3>2. residue' \in [Processes -> State]
      BY <2>10, <3>1 DEF Restart, IInv, TypeOK
    <3>3. \A q \in Processes : residue'[q] = Empty \/ residue'[q] = residue[q]
      BY <2>10 DEF Restart, IInv, TypeOK
    <3>4. Known' = Known /\ \A b \in Known : Later(file.beads[b], file'.beads[b])
      BY <2>10 DEF Restart, Known, Later
    <3>5. ASSUME faults = 0 PROVE Untouched'
      BY <3>3, <3>5 DEF IInv, Untouched
    <3>6. ASSUME faults =< 1, NEW q \in Processes PROVE Leftover(residue'[q], Known')
      BY <3>1, <3>3, <3>4, <3>6 DEF IInv
    <3>7. Written
      BY <2>0, <2>10, <3>2, <3>4, <3>5, <3>6 DEF Restart, IInv, TypeOK, Written
    <3> QED BY <2>0, <2>10, <3>7, Ungranted DEF Restart
  <2>11. ASSUME NEW p \in Processes, NEW b \in Beads, NEW g \in Generations,
                TransitionAgain(p, b, g)
         PROVE  IInv'
    <3>1. announced' \subseteq Beads \X Generations \X Told
      BY <2>0, <2>11 DEF TransitionAgain, Told
    <3> QED BY <2>11, <3>1, Unwritten, Ungranted DEF TransitionAgain
  <2>12. CASE UNCHANGED vars
    BY <2>0, <2>12, Unwritten, Ungranted DEF vars
  <2> QED BY <2>3, <2>4, <2>5, <2>6, <2>7, <2>8, <2>9, <2>10, <2>11, <2>12 DEF Next
<1> QED BY <1>1, <1>2, PTL DEF Spec

-----------------------------------------------------------------------------
\* The file and the maps of the processes are well typed, whatever fails.
THEOREM TypeCorrect == Spec => []TypeOK
  BY Invariance, PTL DEF IInv

\* One failed persist does not cost a lease: it stays in the file until it is
\* fenced out.
THEOREM LeasesSurviveAFault ==
    Spec => [](faults =< 1 => LeaseDurable)
<1>1. IInv => (faults =< 1 => LeaseDurable)
  BY DEF IInv
<1> QED BY <1>1, Invariance, PTL

\* With one failed persist, whichever processes the requests went through, still
\* at most one workflow is handed the lease of a generation.
THEOREM OneHolderSurvivesAFault == Spec => [](faults =< 1 => OneLeasePerGeneration)
<1>1. IInv => (faults =< 1 => OneLeasePerGeneration)
  BY DEF IInv
<1> QED BY <1>1, Invariance, PTL

\* One failed persist does not cost a receipt that was reported.
THEOREM CompletionsSurviveAFault == Spec => [](faults =< 1 => CompletionDurable)
<1>1. IInv => (faults =< 1 => CompletionDurable)
  BY DEF IInv
<1> QED BY <1>1, Invariance, PTL

\* While no persist has failed, every process offers current generations only.
THEOREM OnlyCurrentOffered == Spec => []OnlyCurrentPending
<1>1. IInv => OnlyCurrentPending
  BY Loaded DEF IInv, OnlyCurrentPending, Current, PendingReadyEvents
<1> QED BY <1>1, Invariance, PTL

-----------------------------------------------------------------------------
\* The ledger in the file, and the entry of a record.
Work == [b \in Beads |-> Durable(b)]
Entry(r) == [gen |-> r.gen, phase |-> r.status, holder |-> r.holder, receipt |-> r.receipt]

\* A record that is written changes its entry alone.
LEMMA LedgerWritten ==
    ASSUME IInv, faults = 0, NEW p \in Processes, NEW b \in Beads, NEW t \in State,
           file' = t,
           DOMAIN t.beads = DOMAIN Load(p).beads \cup {b},
           \A x \in DOMAIN Load(p).beads : x # b => t.beads[x] = Load(p).beads[x]
    PROVE  /\ Work' = [Work EXCEPT ![b] = Entry(t.beads[b])]
           /\ b \in DOMAIN Load(p).beads => Work[b] = Entry(Load(p).beads[b])
           /\ b \notin DOMAIN Load(p).beads => Work[b].gen = 0
<1> DEFINE s == Load(p)
<1>1. DOMAIN s.beads = Known /\ \A x \in Known : s.beads[x] = file.beads[x]
  BY Loaded DEF IInv
<1> HIDE DEF s
<1>2. \A x \in Beads : x \in Known => Durable(x) = Entry(s.beads[x])
  BY <1>1 DEF Known, Durable, Entry
<1>3. \A x \in Beads : x \notin Known =>
          Durable(x) = [gen |-> 0, phase |-> "unpublished", holder |-> None, receipt |-> None]
  BY DEF Known, Durable
<1>4. t # None
  BY AbsentIsNoState
<1>5. \A x \in Beads : Durable(x)' = IF x = b THEN Entry(t.beads[b]) ELSE Durable(x)
  <2> TAKE x \in Beads
  <2>1. CASE x = b
    BY <1>4, <2>1 DEF Durable, Entry
  <2>2. CASE x # b /\ x \in Known
    <3>1. x \in DOMAIN t.beads /\ t.beads[x] = s.beads[x]
      BY <1>1, <2>2 DEF s
    <3>2. Durable(x)' = Entry(t.beads[x])
      BY <1>4, <3>1 DEF Durable, Entry
    <3> QED BY <1>2, <2>2, <3>1, <3>2
  <2>3. CASE x # b /\ x \notin Known
    <3>1. x \notin DOMAIN t.beads
      BY <1>1, <2>3 DEF s
    <3>2. Durable(x)' = [gen |-> 0, phase |-> "unpublished", holder |-> None, receipt |-> None]
      BY <3>1 DEF Durable
    <3> QED BY <1>3, <2>3, <3>2
  <2> QED BY <2>1, <2>2, <2>3
<1>6. Work' = [Work EXCEPT ![b] = Entry(t.beads[b])]
  BY <1>5 DEF Work
<1> QED BY <1>1, <1>2, <1>3, <1>6 DEF Work, s

\* Changing two fields of an entry is writing the entry so changed.
LEMMA TwoFields ==
    ASSUME NEW b \in Beads, NEW f, NEW v, NEW q
    PROVE  /\ [[Work[b] EXCEPT !.phase = f] EXCEPT !.holder = v] = q =>
                  [Work EXCEPT ![b].phase = f, ![b].holder = v] = [Work EXCEPT ![b] = q]
           /\ [[Work[b] EXCEPT !.phase = f] EXCEPT !.receipt = v] = q =>
                  [Work EXCEPT ![b].phase = f, ![b].receipt = v] = [Work EXCEPT ![b] = q]
<1> DEFINE mid == [Work EXCEPT ![b].phase = f]
<1>1. mid[b] = [Work[b] EXCEPT !.phase = f]
  BY DEF Work
<1>2. DOMAIN mid = Beads /\ \A x \in Beads : x # b => mid[x] = Work[x]
  BY DEF Work
<1> HIDE DEF mid
<1>3. [mid EXCEPT ![b] = q] = [Work EXCEPT ![b] = q]
  BY <1>2 DEF Work
<1>4. [mid EXCEPT ![b].holder = v] = [mid EXCEPT ![b] = [mid[b] EXCEPT !.holder = v]]
  OBVIOUS
<1>5. [mid EXCEPT ![b].receipt = v] = [mid EXCEPT ![b] = [mid[b] EXCEPT !.receipt = v]]
  OBVIOUS
<1>6. ASSUME [[Work[b] EXCEPT !.phase = f] EXCEPT !.holder = v] = q
      PROVE  [mid EXCEPT ![b].holder = v] = [Work EXCEPT ![b] = q]
  BY <1>1, <1>3, <1>4, <1>6
<1>7. ASSUME [[Work[b] EXCEPT !.phase = f] EXCEPT !.receipt = v] = q
      PROVE  [mid EXCEPT ![b].receipt = v] = [Work EXCEPT ![b] = q]
  BY <1>1, <1>3, <1>5, <1>7
<1> QED BY <1>6, <1>7 DEF mid

\* While no persist has failed, a step of any process is a step of the ledger.
LEMMA LedgerNext ==
    ASSUME IInv, [Next]_vars, faults' = 0
    PROVE  [Ledger!Next]_Work
<1>0. ASSUME NEW p \in Processes, NEW t, Persisted(p, t) \/ PersistFailed(p, t)
      PROVE  UNCHANGED faults \/ faults' = faults + 1
  BY <1>0 DEF Persisted, PersistFailed
<1>1. faults = 0
  <2>1. UNCHANGED faults \/ faults' = faults + 1
    <3>1. ASSUME NEW p \in Processes,
                 \/ \E b \in Beads, g \in Generations : TransitionReady(p, b, g)
                 \/ \E b \in Beads, g \in Generations, w \in Workflows : Claim(p, b, g, w)
                 \/ \E l \in leases, r \in Receipts : Complete(p, l, r)
                 \/ \E l \in leases, f \in Failures : RecordAttemptFailure(p, l, f)
                 \/ \E e \in EventId : AcknowledgeReadyEvent(p, e)
          PROVE  \E t : Persisted(p, t) \/ PersistFailed(p, t)
      BY <3>1 DEF TransitionReady, Claim, Complete, RecordAttemptFailure,
                  AcknowledgeReadyEvent
    <3>2. ASSUME NEW p \in Processes,
                 \/ \E b \in Beads, g \in Generations, w \in Workflows :
                        ClaimAgain(p, b, g, w)
                 \/ \E l \in leases, r \in Receipts : CompleteAgain(p, l, r)
                 \/ \E b \in Beads, g \in Generations : TransitionAgain(p, b, g)
                 \/ Restart(p)
          PROVE  UNCHANGED faults
      BY <3>2 DEF ClaimAgain, CompleteAgain, TransitionAgain, Restart
    <3> QED BY <1>0, <3>1, <3>2 DEF Next, vars
  <2> QED BY <2>1, FileConstants DEF IInv, TypeOK
<1>2. ASSUME NEW p \in Processes, NEW t, Persisted(p, t) \/ PersistFailed(p, t)
      PROVE  Persisted(p, t)
  BY <1>1, <1>2 DEF PersistFailed
<1>3. ASSUME NEW p \in Processes
      PROVE  /\ Load(p) \in State
             /\ \A b \in DOMAIN Load(p).beads : Load(p).beads[b] \in BeadRecord
  <2>1. Load(p) \in State
    BY Loaded DEF IInv
  <2> QED BY <2>1, MapLaws DEF State
<1>4. ASSUME UNCHANGED file PROVE UNCHANGED Work
  BY <1>4 DEF Work, Durable
<1>5. ASSUME NEW p \in Processes, NEW b \in Beads, NEW g \in Generations,
             TransitionReady(p, b, g)
      PROVE  Ledger!Publish(b, g)
  <2> DEFINE s == Load(p)
             t == Publish(s, b, g)
             r == [gen |-> g, status |-> "ready", holder |-> None,
                   receipt |-> None, failures |-> {}]
  <2>1. (b \in DOMAIN s.beads => g > s.beads[b].gen) /\ Persisted(p, t)
    BY <1>2, <1>5 DEF TransitionReady
  <2>2. t \in State
    BY <1>3, <2>1, Publishing
  <2>3. /\ DOMAIN t.beads = DOMAIN s.beads \cup {b}
        /\ \A x \in DOMAIN t.beads : t.beads[x] = IF x = b THEN r ELSE s.beads[x]
    BY DEF Publish, With
  <2>4. Entry(t.beads[b]) = [gen |-> g, phase |-> "ready", holder |-> None, receipt |-> None]
    <3>1. t.beads[b] = r
      BY <2>3
    <3> HIDE DEF t
    <3> QED BY <3>1 DEF Entry
  <2>5. /\ Work' = [Work EXCEPT ![b] = Entry(t.beads[b])]
        /\ b \in DOMAIN s.beads => Work[b] = Entry(s.beads[b])
        /\ b \notin DOMAIN s.beads => Work[b].gen = 0
    <3> HIDE DEF t
    <3> QED BY <1>1, <2>1, <2>2, <2>3, LedgerWritten DEF Persisted
  <2> HIDE DEF s, t
  <2>6. g > Work[b].gen
    BY <2>1, <2>5, FileConstants DEF Entry
  <2> QED BY <2>4, <2>5, <2>6 DEF Ledger!Publish, Work
<1>6. ASSUME NEW p \in Processes, NEW b \in Beads, NEW g \in Generations,
             NEW w \in Workflows, Claim(p, b, g, w)
      PROVE  Ledger!Claim(b, w)
  <2> DEFINE s == Load(p)
             r == [s.beads[b] EXCEPT !.status = "claimed", !.holder = w]
             t == [s EXCEPT !.beads = [s.beads EXCEPT ![b] = r]]
  <2>1. b \in DOMAIN s.beads /\ s.beads[b].status = "ready" /\ Persisted(p, t)
    BY <1>2, <1>3, <1>6 DEF Claim, State
  <2>2. s \in State /\ s.beads[b] \in BeadRecord
    BY <1>3, <2>1
  <2>3. /\ r \in BeadRecord /\ r.gen = s.beads[b].gen /\ r.status = "claimed"
        /\ r.holder = w /\ r.receipt = s.beads[b].receipt
    <3> HIDE DEF s
    <3> QED BY <2>2 DEF BeadRecord
  <2> HIDE DEF s, r
  <2>4. /\ t \in State /\ DOMAIN t.beads = DOMAIN s.beads \cup {b}
        /\ t.beads[b] = r
        /\ \A x \in DOMAIN s.beads : x # b => t.beads[x] = s.beads[x]
    <3>1. [s.beads EXCEPT ![b] = r] \in Maps(Beads, BeadRecord)
      BY <2>1, <2>2, <2>3, MapLaws DEF State
    <3> QED BY <2>1, <2>2, <3>1 DEF State
  <2> HIDE DEF t
  <2>5. Work' = [Work EXCEPT ![b] = Entry(r)] /\ Work[b] = Entry(s.beads[b])
    BY <1>1, <2>1, <2>4, LedgerWritten DEF Persisted, s
  <2>6. Work[b] = [gen |-> r.gen, phase |-> "ready",
                   holder |-> s.beads[b].holder, receipt |-> r.receipt]
    BY <2>1, <2>3, <2>5 DEF Entry
  <2>7. Entry(r) = [gen |-> r.gen, phase |-> "claimed", holder |-> w, receipt |-> r.receipt]
    BY <2>3 DEF Entry
  <2>8. Work' = [Work EXCEPT ![b].phase = "claimed", ![b].holder = w]
    <3>1. [[Work[b] EXCEPT !.phase = "claimed"] EXCEPT !.holder = w] = Entry(r)
      <4> DEFINE mid == [Work[b] EXCEPT !.phase = "claimed"]
      <4>1. mid = [gen |-> r.gen, phase |-> "claimed",
                   holder |-> s.beads[b].holder, receipt |-> r.receipt]
        BY <2>6
      <4> HIDE DEF mid
      <4>2. [mid EXCEPT !.holder = w] = Entry(r)
        BY <2>7, <4>1
      <4> QED BY <4>2 DEF mid
    <3>2. [Work EXCEPT ![b].phase = "claimed", ![b].holder = w] = [Work EXCEPT ![b] = Entry(r)]
      BY <3>1, TwoFields, Zenon
    <3> QED BY <2>5, <3>2, Zenon
  <2> QED BY <2>6, <2>8 DEF Ledger!Claim, Work
<1>7. ASSUME NEW p \in Processes, NEW l \in leases, NEW c \in Receipts, Complete(p, l, c)
      PROVE  \E b \in Beads : Ledger!Complete(b, c)
  <2> DEFINE s == Load(p)
             b == l[1]
             r == [s.beads[b] EXCEPT !.status = "completed", !.receipt = c]
             t == [s EXCEPT !.beads = [s.beads EXCEPT ![b] = r]]
  <2>0. b \in Beads
    BY DEF IInv, TypeOK
  <2> HIDE DEF b
  <2>1. b \in DOMAIN s.beads /\ s.beads[b].status = "claimed" /\ Persisted(p, t)
    BY <1>2, <1>3, <1>7 DEF Complete, MatchesFence, State, b
  <2>2. s \in State /\ s.beads[b] \in BeadRecord
    BY <1>3, <2>1
  <2>3. /\ r \in BeadRecord /\ r.gen = s.beads[b].gen /\ r.status = "completed"
        /\ r.holder = s.beads[b].holder /\ r.receipt = c
    <3> HIDE DEF s
    <3> QED BY <2>2 DEF BeadRecord
  <2> HIDE DEF s, r
  <2>4. /\ t \in State /\ DOMAIN t.beads = DOMAIN s.beads \cup {b}
        /\ t.beads[b] = r
        /\ \A x \in DOMAIN s.beads : x # b => t.beads[x] = s.beads[x]
    <3>1. [s.beads EXCEPT ![b] = r] \in Maps(Beads, BeadRecord)
      BY <2>1, <2>2, <2>3, MapLaws DEF State
    <3> QED BY <2>1, <2>2, <3>1 DEF State
  <2> HIDE DEF t
  <2>5. Work' = [Work EXCEPT ![b] = Entry(r)] /\ Work[b] = Entry(s.beads[b])
    BY <1>1, <2>0, <2>1, <2>4, LedgerWritten DEF Persisted, s
  <2>6. Work[b] = [gen |-> r.gen, phase |-> "claimed",
                   holder |-> r.holder, receipt |-> s.beads[b].receipt]
    BY <2>1, <2>3, <2>5 DEF Entry
  <2>7. Entry(r) = [gen |-> r.gen, phase |-> "completed", holder |-> r.holder, receipt |-> c]
    BY <2>3 DEF Entry
  <2>8. Work' = [Work EXCEPT ![b].phase = "completed", ![b].receipt = c]
    <3>1. [[Work[b] EXCEPT !.phase = "completed"] EXCEPT !.receipt = c] = Entry(r)
      <4> DEFINE mid == [Work[b] EXCEPT !.phase = "completed"]
      <4>1. mid = [gen |-> r.gen, phase |-> "completed",
                   holder |-> r.holder, receipt |-> s.beads[b].receipt]
        BY <2>6
      <4> HIDE DEF mid
      <4>2. [mid EXCEPT !.receipt = c] = Entry(r)
        BY <2>7, <4>1
      <4> QED BY <4>2 DEF mid
    <3>2. [Work EXCEPT ![b].phase = "completed", ![b].receipt = c] = [Work EXCEPT ![b] = Entry(r)]
      BY <2>0, <3>1, TwoFields, Zenon
    <3> QED BY <2>5, <3>2, Zenon
  <2>9. Work[b].phase = "claimed"
    BY <2>6
  <2>10. Ledger!Complete(b, c)
    BY <2>8, <2>9 DEF Ledger!Complete, Work
  <2> QED BY <2>0, <2>10
\* What an entry does not show.
<1>8. ASSUME NEW p \in Processes, NEW l \in leases, NEW f \in Failures,
             RecordAttemptFailure(p, l, f)
      PROVE  UNCHANGED Work
  <2> DEFINE s == Load(p)
             b == l[1]
             r == [s.beads[b] EXCEPT !.failures = @ \cup {f}]
             t == [s EXCEPT !.beads = [s.beads EXCEPT ![b] = r]]
  <2>0. b \in Beads
    BY DEF IInv, TypeOK
  <2> HIDE DEF b
  <2>1. b \in DOMAIN s.beads /\ Persisted(p, t)
    BY <1>2, <1>3, <1>8 DEF RecordAttemptFailure, MatchesFence, State, b
  <2>2. s \in State /\ s.beads[b] \in BeadRecord
    BY <1>3, <2>1
  <2>3. /\ r \in BeadRecord /\ r.gen = s.beads[b].gen /\ r.status = s.beads[b].status
        /\ r.holder = s.beads[b].holder /\ r.receipt = s.beads[b].receipt
    <3> HIDE DEF s
    <3> QED BY <2>2 DEF BeadRecord
  <2> HIDE DEF s, r
  <2>4. /\ t \in State /\ DOMAIN t.beads = DOMAIN s.beads \cup {b}
        /\ t.beads[b] = r
        /\ \A x \in DOMAIN s.beads : x # b => t.beads[x] = s.beads[x]
    <3>1. [s.beads EXCEPT ![b] = r] \in Maps(Beads, BeadRecord)
      BY <2>1, <2>2, <2>3, MapLaws DEF State
    <3> QED BY <2>1, <2>2, <3>1 DEF State
  <2> HIDE DEF t
  <2>5. Work' = [Work EXCEPT ![b] = Entry(r)] /\ Work[b] = Entry(s.beads[b])
    BY <1>1, <2>0, <2>1, <2>4, LedgerWritten DEF Persisted, s
  <2>6. Entry(r) = Work[b]
    BY <2>3, <2>5 DEF Entry
  <2> QED BY <2>0, <2>5, <2>6 DEF Work
<1>9. ASSUME NEW p \in Processes, NEW e \in EventId, AcknowledgeReadyEvent(p, e)
      PROVE  UNCHANGED Work
  <2> DEFINE s == Load(p)
             v == IF s.outbox[e] = "pending" THEN "acknowledged"
                  ELSE "superseded-acknowledged"
             t == [s EXCEPT !.outbox = [s.outbox EXCEPT ![e] = v]]
  <2>1. Persisted(p, t) /\ e \in DOMAIN s.outbox
    BY <1>2, <1>3, <1>9 DEF AcknowledgeReadyEvent, State
  <2>2. t.beads = s.beads /\ t # None
    <3> HIDE DEF s, v
    <3>1. v \in Event /\ s \in State
      BY <1>3 DEF v, s, Event
    <3>2. [s.outbox EXCEPT ![e] = v] \in Maps(EventId, Event)
      BY <2>1, <3>1, MapLaws DEF State
    <3>3. t \in State /\ t.beads = s.beads
      BY <3>1, <3>2 DEF State
    <3> QED BY <3>3, AbsentIsNoState
  <2>3. DOMAIN s.beads = Known /\ \A x \in Known : s.beads[x] = file.beads[x]
    BY <1>1, Loaded DEF IInv
  <2> HIDE DEF s, t
  <2>4. \A x \in Beads : Durable(x)' = Durable(x)
    BY <2>1, <2>2, <2>3 DEF Persisted, Durable, Known
  <2> QED BY <2>4 DEF Work
<1>10. CASE UNCHANGED vars
  BY <1>4, <1>10 DEF vars
<1>11. ASSUME NEW p \in Processes,
              \/ \E b \in Beads, g \in Generations, w \in Workflows : ClaimAgain(p, b, g, w)
              \/ \E l \in leases, r \in Receipts : CompleteAgain(p, l, r)
              \/ \E b \in Beads, g \in Generations : TransitionAgain(p, b, g)
              \/ Restart(p)
       PROVE  UNCHANGED Work
  BY <1>4, <1>11 DEF ClaimAgain, CompleteAgain, TransitionAgain, Restart
<1> QED BY <1>5, <1>6, <1>7, <1>8, <1>9, <1>10, <1>11 DEF Next, Ledger!Next

\* As long as no persist fails, any number of processes that share the file
\* implement the fenced ledger.
THEOREM FileImplementsLedger == Spec => LedgerUntilFault
<1>1. IInv /\ [Next]_vars =>
          [faults' = 0 => [Ledger!Next]_<<[b \in Beads |-> Durable(b)]>>]_vars
  BY LedgerNext DEF Work
<1> QED BY <1>1, Invariance, PTL DEF Spec, LedgerUntilFault

-----------------------------------------------------------------------------
\* However many persists fail, no map of a process and no file has a ready bead
\* with a holder, or an unfinished one with a receipt.
Plain(s) ==
    \A b \in DOMAIN s.beads :
        /\ s.beads[b].status = "ready" => s.beads[b].holder = None
        /\ s.beads[b].status # "completed" => s.beads[b].receipt = None

AllPlain ==
    /\ file # None => Plain(file)
    /\ \A p \in Processes : Plain(residue[p])

\* t keeps every bead of s, and none of them is older in t.
Keeps(s, t) ==
    \A b \in DOMAIN s.beads : b \in DOMAIN t.beads /\ Later(s.beads[b], t.beads[b])

\* Every bead has an event of its generation to deliver, or delivered, and every
\* event has its bead.
Paired(s) ==
    /\ \A b \in DOMAIN s.beads :
           /\ <<b, s.beads[b].gen>> \in DOMAIN s.outbox
           /\ s.outbox[<<b, s.beads[b].gen>>] \in {"pending", "acknowledged"}
    /\ \A e \in DOMAIN s.outbox : Bead(e) \in DOMAIN s.beads

\* A step that writes, writes what a process loaded with one change.
Writes(p, t) ==
    /\ Plain(t)
    /\ Keeps(Load(p), t)
    /\ Paired(Load(p)) => Paired(t)
    /\ Persisted(p, t) \/ PersistFailed(p, t)

LEMMA PlainlyLoaded ==
    ASSUME TypeOK, AllPlain, NEW p \in Processes
    PROVE  /\ Plain(Load(p))
           /\ \A b \in DOMAIN Load(p).beads : Load(p).beads[b] \in BeadRecord
<1>1. \A b \in DOMAIN Load(p).beads : Load(p).beads[b] \in BeadRecord
  BY Loaded, MapLaws DEF State
<1>2. CASE file = None
  BY <1>2 DEF Load, Merge, Empty, Plain
<1>3. CASE file # None
  <2>1. Load(p).beads = Over(file.beads, residue[p].beads)
    BY <1>3 DEF Load, Merge
  <2>2. Plain(Load(p))
    BY <1>3, <2>1 DEF AllPlain, Plain, Over
  <2> QED BY <1>1, <2>2
<1> QED BY <1>1, <1>2, <1>3

\* One record rewritten, within its generation.
LEMMA PlainlyRewritten ==
    ASSUME NEW s \in State, Plain(s), NEW b \in DOMAIN s.beads, NEW r \in BeadRecord,
           NEW t, t = [s EXCEPT !.beads = [s.beads EXCEPT ![b] = r]],
           r.status # "ready",
           r.status # "completed" => r.receipt = None,
           r.gen = s.beads[b].gen,
           Later(s.beads[b], r)
    PROVE  t \in State /\ Plain(t) /\ Keeps(s, t) /\ (Paired(s) => Paired(t))
<1>1. s.beads \in Maps(Beads, BeadRecord) /\ s.outbox \in Maps(EventId, Event)
  BY DEF State
<1>2. [s.beads EXCEPT ![b] = r] \in Maps(Beads, BeadRecord)
  BY <1>1, MapLaws
<1>3. t = [beads |-> [s.beads EXCEPT ![b] = r], outbox |-> s.outbox]
  BY DEF State
<1>4. t \in State
  BY <1>1, <1>2, <1>3 DEF State
<1>5. /\ DOMAIN t.beads = DOMAIN s.beads
      /\ \A x \in DOMAIN s.beads : t.beads[x] = IF x = b THEN r ELSE s.beads[x]
  BY <1>3
<1>6. ASSUME NEW x \in DOMAIN s.beads
      PROVE  /\ x \in DOMAIN t.beads
             /\ Later(s.beads[x], t.beads[x])
             /\ t.beads[x].status = "ready" => t.beads[x].holder = None
             /\ t.beads[x].status # "completed" => t.beads[x].receipt = None
  <2>1. CASE x = b
    <3>1. t.beads[x] = r
      BY <1>5, <2>1
    <3> QED BY <1>5, <2>1, <3>1
  <2>2. CASE x # b
    <3>1. t.beads[x] = s.beads[x]
      BY <1>5, <2>2
    <3> QED BY <1>5, <3>1 DEF Plain, Later
  <2> QED BY <2>1, <2>2
<1>7. ASSUME Paired(s) PROVE Paired(t)
  <2>1. t.outbox = s.outbox
    BY <1>3
  <2>2. \A x \in DOMAIN s.beads : t.beads[x].gen = s.beads[x].gen
    BY <1>5
  <2> QED BY <1>5, <1>7, <2>1, <2>2 DEF Paired
<1> QED BY <1>4, <1>5, <1>6, <1>7 DEF Plain, Keeps

\* A generation published with its event.
LEMMA PairedPublished ==
    ASSUME NEW s \in State, NEW b \in Beads, NEW g \in Generations, Paired(s)
    PROVE  Paired(Publish(s, b, g))
<1> DEFINE t == Publish(s, b, g)
<1>1. /\ DOMAIN t.beads = DOMAIN s.beads \cup {b}
      /\ t.beads[b].gen = g
      /\ \A x \in DOMAIN s.beads : x # b => t.beads[x] = s.beads[x]
  BY DEF Publish, With
<1>2. /\ DOMAIN t.outbox = DOMAIN s.outbox \cup {<<b, g>>}
      /\ t.outbox[<<b, g>>] = "pending"
      /\ \A e \in DOMAIN s.outbox : Bead(e) # b => t.outbox[e] = s.outbox[e]
  BY DEF Publish, With, Supersede, Bead
<1> HIDE DEF t
<1>3. ASSUME NEW x \in DOMAIN t.beads
      PROVE  /\ <<x, t.beads[x].gen>> \in DOMAIN t.outbox
             /\ t.outbox[<<x, t.beads[x].gen>>] \in {"pending", "acknowledged"}
  <2>1. CASE x = b
    BY <1>1, <1>2, <2>1
  <2>2. CASE x # b
    <3>1. x \in DOMAIN s.beads /\ t.beads[x] = s.beads[x]
      BY <1>1, <2>2
    <3> QED BY <1>2, <2>2, <3>1 DEF Paired, Bead
  <2> QED BY <2>1, <2>2
<1>4. \A e \in DOMAIN t.outbox : Bead(e) \in DOMAIN t.beads
  BY <1>1, <1>2 DEF Paired, Bead
<1> QED BY <1>3, <1>4 DEF Paired, t

\* Every step writes such a state, or leaves the file alone and forgets what one
\* process remembers.
LEMMA WrittenByStep ==
    ASSUME IInv, AllPlain, [Next]_vars
    PROVE  \/ \E p \in Processes, t \in State : Writes(p, t)
           \/ UNCHANGED <<file, residue>>
           \/ \E p \in Processes : UNCHANGED file /\ residue' = [residue EXCEPT ![p] = Empty]
<1>0. TypeOK
  BY DEF IInv
<1>1. ASSUME NEW p \in Processes
      PROVE  /\ Load(p) \in State /\ Plain(Load(p))
             /\ \A b \in DOMAIN Load(p).beads : Load(p).beads[b] \in BeadRecord
  BY <1>0, PlainlyLoaded, Loaded
<1>2. ASSUME NEW p \in Processes, NEW b \in DOMAIN Load(p).beads, NEW r \in BeadRecord,
             NEW t, t = [Load(p) EXCEPT !.beads = [Load(p).beads EXCEPT ![b] = r]],
             r.status # "ready",
             r.status # "completed" => r.receipt = None,
             r.gen = Load(p).beads[b].gen,
             Later(Load(p).beads[b], r),
             Persisted(p, t) \/ PersistFailed(p, t)
      PROVE  \E x \in State : Writes(p, x)
  <2>1. t \in State /\ Plain(t) /\ Keeps(Load(p), t) /\ (Paired(Load(p)) => Paired(t))
    <3> DEFINE s == Load(p)
    <3>1. s \in State /\ Plain(s)
      BY <1>1
    <3>2. /\ b \in DOMAIN s.beads
          /\ t = [s EXCEPT !.beads = [s.beads EXCEPT ![b] = r]]
          /\ r.gen = s.beads[b].gen
          /\ Later(s.beads[b], r)
      BY <1>2
    <3> HIDE DEF s
    <3>3. t \in State /\ Plain(t) /\ Keeps(s, t) /\ (Paired(s) => Paired(t))
      BY <1>2, <3>1, <3>2, PlainlyRewritten
    <3> QED BY <3>3 DEF s
  <2> QED BY <1>2, <2>1 DEF Writes
<1>3. ASSUME NEW p \in Processes, NEW b \in Beads, NEW g \in Generations,
             TransitionReady(p, b, g)
      PROVE  \E t \in State : Writes(p, t)
  <2> DEFINE s == Load(p)
             t == Publish(s, b, g)
             r == [gen |-> g, status |-> "ready", holder |-> None,
                   receipt |-> None, failures |-> {}]
  <2>1. /\ b \in DOMAIN s.beads => g > s.beads[b].gen
        /\ Persisted(p, t) \/ PersistFailed(p, t)
    BY <1>3 DEF TransitionReady
  <2>2. s \in State /\ Plain(s)
    BY <1>1
  <2>3. /\ DOMAIN t.beads = DOMAIN s.beads \cup {b}
        /\ \A x \in DOMAIN t.beads : t.beads[x] = IF x = b THEN r ELSE s.beads[x]
    BY DEF Publish, With
  <2> HIDE DEF s
  <2>4. t \in State
    BY <2>1, <2>2, Publishing
  <2> HIDE DEF t
  <2>5. ASSUME NEW x \in DOMAIN t.beads
        PROVE  /\ t.beads[x].status = "ready" => t.beads[x].holder = None
               /\ t.beads[x].status # "completed" => t.beads[x].receipt = None
               /\ x \in DOMAIN s.beads => Later(s.beads[x], t.beads[x])
    <3>1. CASE x = b
      <4>1. t.beads[x] = r
        BY <2>3, <3>1
      <4> QED BY <2>1, <3>1, <4>1 DEF Later
    <3>2. CASE x # b
      <4>1. x \in DOMAIN s.beads /\ t.beads[x] = s.beads[x]
        BY <2>3, <3>2
      <4> QED BY <2>2, <4>1 DEF Plain, Later
    <3> QED BY <3>1, <3>2
  <2>6. Plain(t) /\ Keeps(s, t)
    BY <2>3, <2>5 DEF Plain, Keeps
  <2>7. Paired(s) => Paired(t)
    BY <2>1, <2>2, PairedPublished DEF t
  <2> QED BY <2>1, <2>4, <2>6, <2>7 DEF Writes, s
<1>4. ASSUME NEW p \in Processes, NEW b \in Beads, NEW g \in Generations,
             NEW w \in Workflows, Claim(p, b, g, w)
      PROVE  \E t \in State : Writes(p, t)
  <2> DEFINE s == Load(p)
             r == [s.beads[b] EXCEPT !.status = "claimed", !.holder = w]
             t == [s EXCEPT !.beads = [s.beads EXCEPT ![b] = r]]
  <2>1. /\ b \in DOMAIN s.beads /\ s.beads[b].status = "ready"
        /\ Persisted(p, t) \/ PersistFailed(p, t)
        /\ s.beads[b] \in BeadRecord /\ Plain(s)
    BY <1>1, <1>4 DEF Claim, State
  <2>2. /\ r \in BeadRecord /\ r.gen = s.beads[b].gen /\ r.status = "claimed"
        /\ r.receipt = s.beads[b].receipt /\ s.beads[b].holder = None /\ r.receipt = None
    <3> HIDE DEF s
    <3> QED BY <2>1 DEF BeadRecord, Plain
  <2>3. Later(s.beads[b], r)
    <3> HIDE DEF s, r
    <3> QED BY <2>2 DEF Later
  <2> HIDE DEF r
  <2> QED BY <1>2, <2>1, <2>2, <2>3
<1>5. ASSUME NEW p \in Processes, NEW l \in leases, NEW c \in Receipts, Complete(p, l, c)
      PROVE  \E t \in State : Writes(p, t)
  <2> DEFINE s == Load(p)
             b == l[1]
             r == [s.beads[b] EXCEPT !.status = "completed", !.receipt = c]
             t == [s EXCEPT !.beads = [s.beads EXCEPT ![b] = r]]
  <2>1. /\ b \in DOMAIN s.beads /\ s.beads[b].status = "claimed"
        /\ Persisted(p, t) \/ PersistFailed(p, t)
        /\ s.beads[b] \in BeadRecord /\ Plain(s)
    BY <1>1, <1>5 DEF Complete, MatchesFence, State
  <2>2. /\ r \in BeadRecord /\ r.gen = s.beads[b].gen /\ r.status = "completed"
        /\ r.holder = s.beads[b].holder /\ s.beads[b].receipt = None
    <3> HIDE DEF s, b
    <3> QED BY <2>1 DEF BeadRecord, Plain
  <2>3. Later(s.beads[b], r)
    <3> HIDE DEF s, r, b
    <3> QED BY <2>2 DEF Later
  <2> HIDE DEF r, b
  <2> QED BY <1>2, <2>1, <2>2, <2>3
<1>6. ASSUME NEW p \in Processes, NEW l \in leases, NEW f \in Failures,
             RecordAttemptFailure(p, l, f)
      PROVE  \E t \in State : Writes(p, t)
  <2> DEFINE s == Load(p)
             b == l[1]
             r == [s.beads[b] EXCEPT !.failures = @ \cup {f}]
             t == [s EXCEPT !.beads = [s.beads EXCEPT ![b] = r]]
  <2>1. /\ b \in DOMAIN s.beads /\ s.beads[b].status = "claimed"
        /\ Persisted(p, t) \/ PersistFailed(p, t)
        /\ s.beads[b] \in BeadRecord /\ Plain(s)
    BY <1>1, <1>6 DEF RecordAttemptFailure, MatchesFence, State
  <2>2. /\ r \in BeadRecord /\ r.gen = s.beads[b].gen /\ r.status = "claimed"
        /\ r.holder = s.beads[b].holder /\ r.receipt = s.beads[b].receipt
        /\ r.receipt = None
    <3> HIDE DEF s, b
    <3> QED BY <2>1 DEF BeadRecord, Plain
  <2>3. Later(s.beads[b], r)
    <3> HIDE DEF s, r, b
    <3> QED BY <2>2 DEF Later
  <2> HIDE DEF r, b
  <2> QED BY <1>2, <2>1, <2>2, <2>3
<1>7. ASSUME NEW p \in Processes, NEW e \in EventId, AcknowledgeReadyEvent(p, e)
      PROVE  \E t \in State : Writes(p, t)
  <2> DEFINE s == Load(p)
             v == IF s.outbox[e] = "pending" THEN "acknowledged"
                  ELSE "superseded-acknowledged"
             t == [s EXCEPT !.outbox = [s.outbox EXCEPT ![e] = v]]
  <2>1. /\ Persisted(p, t) \/ PersistFailed(p, t)
        /\ e \in DOMAIN s.outbox /\ s.outbox[e] \in {"pending", "superseded"}
    BY <1>1, <1>7 DEF AcknowledgeReadyEvent, State
  <2>2. s \in State /\ Plain(s) /\ v \in Event
    BY <1>1 DEF Event
  <2> HIDE DEF s, v
  <2>3. [s.outbox EXCEPT ![e] = v] \in Maps(EventId, Event)
    BY <2>1, <2>2, MapLaws DEF State
  <2>4. t \in State /\ t.beads = s.beads
    BY <2>2, <2>3 DEF State
  <2> HIDE DEF t
  <2>5. Plain(t) /\ Keeps(s, t)
    BY <2>2, <2>4 DEF Plain, Keeps, Later
  <2>6. ASSUME Paired(s) PROVE Paired(t)
    <3>1. /\ DOMAIN t.outbox = DOMAIN s.outbox
          /\ \A d \in DOMAIN s.outbox :
                 t.outbox[d] = IF d = e THEN v ELSE s.outbox[d]
      BY <2>2, <2>3 DEF State, t
    <3>2. s.outbox[e] \in {"pending", "acknowledged"} => v = "acknowledged"
      BY <2>1 DEF v
    <3> QED BY <2>4, <2>6, <3>1, <3>2 DEF Paired
  <2> QED BY <2>1, <2>4, <2>5, <2>6 DEF Writes, s
<1>8. ASSUME NEW p \in Processes, Restart(p)
      PROVE  UNCHANGED file /\ residue' = [residue EXCEPT ![p] = Empty]
  BY <1>8 DEF Restart
<1>9. ASSUME NEW p \in Processes,
             \/ \E b \in Beads, g \in Generations, w \in Workflows : ClaimAgain(p, b, g, w)
             \/ \E l \in leases, r \in Receipts : CompleteAgain(p, l, r)
             \/ \E b \in Beads, g \in Generations : TransitionAgain(p, b, g)
      PROVE  UNCHANGED <<file, residue>>
  BY <1>9 DEF ClaimAgain, CompleteAgain, TransitionAgain
<1>10. CASE UNCHANGED vars
  BY <1>10 DEF vars
<1> QED BY <1>3, <1>4, <1>5, <1>6, <1>7, <1>8, <1>9, <1>10 DEF Next

LEMMA PlainStep ==
    ASSUME IInv, AllPlain, [Next]_vars
    PROVE  AllPlain' /\ \A b \in Beads : Ledger!FencedStep(b)
<1>0. TypeOK
  BY DEF IInv
<1>1. Plain(Empty)
  BY DEF Plain, Empty
<1>5. ASSUME UNCHANGED file, NEW b \in Beads PROVE Ledger!FencedStep(b)
  <2>1. Durable(b)' = Durable(b)
    BY <1>5 DEF Durable
  <2>2. Durable(b).gen \in Nat
    <3>1. \A x \in Known : file.beads[x] \in BeadRecord
      BY <1>0, MapLaws DEF TypeOK, State, Known
    <3> QED BY <3>1, FileConstants DEF Durable, Known, BeadRecord
  <2> QED BY <2>1, <2>2 DEF Ledger!FencedStep
<1>2. CASE UNCHANGED <<file, residue>>
  <2>1. AllPlain'
    BY <1>2 DEF AllPlain
  <2> QED BY <1>2, <1>5, <2>1
<1>3. ASSUME NEW p \in Processes, UNCHANGED file, residue' = [residue EXCEPT ![p] = Empty]
      PROVE  AllPlain' /\ \A b \in Beads : Ledger!FencedStep(b)
  <2>1. \A q \in Processes : residue'[q] = IF q = p THEN Empty ELSE residue[q]
    BY <1>0, <1>3 DEF TypeOK
  <2>2. AllPlain'
    BY <1>1, <1>3, <2>1 DEF AllPlain
  <2> QED BY <1>3, <1>5, <2>2
<1>4. ASSUME NEW p \in Processes, NEW t \in State, Writes(p, t)
      PROVE  AllPlain' /\ \A b \in Beads : Ledger!FencedStep(b)
  <2>1. /\ Known \subseteq DOMAIN Load(p).beads
        /\ \A b \in Known : Load(p).beads[b] = file.beads[b]
        /\ t # None /\ Plain(t) /\ Keeps(Load(p), t)
    BY <1>0, <1>4, Loaded, AbsentIsNoState DEF Writes
  <2>2. CASE file' = t /\ residue' = [residue EXCEPT ![p] = Empty]
    <3>1. \A q \in Processes : residue'[q] = IF q = p THEN Empty ELSE residue[q]
      BY <1>0, <2>2 DEF TypeOK
    <3>2. AllPlain'
      BY <1>1, <2>1, <2>2, <3>1 DEF AllPlain
    <3>3. ASSUME NEW b \in Beads PROVE Ledger!FencedStep(b)
      <4>1. /\ b \in DOMAIN t.beads => t.beads[b].gen \in Nat
            /\ b \in Known => file.beads[b].gen \in Nat
        <5>1. \A x \in DOMAIN t.beads : t.beads[x] \in BeadRecord
          BY MapLaws DEF State
        <5>2. \A x \in Known : file.beads[x] \in BeadRecord
          BY <1>0, MapLaws DEF TypeOK, State, Known
        <5> QED BY <5>1, <5>2, FileConstants DEF BeadRecord
      <4>2. CASE b \in Known
        <5>1. file # None /\ b \in DOMAIN file.beads
          BY <4>2 DEF Known
        <5>2. b \in DOMAIN t.beads /\ Later(file.beads[b], t.beads[b])
          BY <2>1, <4>2 DEF Keeps
        <5>3. Durable(b) = [gen |-> file.beads[b].gen, phase |-> file.beads[b].status,
                            holder |-> file.beads[b].holder,
                            receipt |-> file.beads[b].receipt]
          BY <5>1 DEF Durable
        <5>4. Durable(b)' = [gen |-> t.beads[b].gen, phase |-> t.beads[b].status,
                             holder |-> t.beads[b].holder,
                             receipt |-> t.beads[b].receipt]
          BY <2>1, <2>2, <5>2 DEF Durable
        <5> QED BY <4>1, <4>2, <5>2, <5>3, <5>4 DEF Ledger!FencedStep, Later
      <4>3. CASE b \notin Known
        <5>1. Durable(b) = [gen |-> 0, phase |-> "unpublished",
                            holder |-> None, receipt |-> None]
          BY <4>3 DEF Durable, Known
        <5>2. Durable(b)'.gen \in Nat
          BY <2>1, <2>2, <4>1 DEF Durable
        <5> QED BY <5>1, <5>2 DEF Ledger!FencedStep
      <4> QED BY <4>2, <4>3
    <3> QED BY <3>2, <3>3
  <2>3. CASE file' = file /\ residue' = [residue EXCEPT ![p] = Survivors(t, file)]
    <3>1. \A q \in Processes : residue'[q] = IF q = p THEN Survivors(t, file) ELSE residue[q]
      BY <1>0, <2>3 DEF TypeOK
    <3>2. Plain(Survivors(t, file))
      BY <1>1, <2>1 DEF Plain, Survivors
    <3>3. AllPlain'
      BY <2>3, <3>1, <3>2 DEF AllPlain
    <3> QED BY <1>5, <2>3, <3>3
  <2> QED BY <1>4, <2>2, <2>3 DEF Writes, Persisted, PersistFailed
<1> QED BY <1>2, <1>3, <1>4, WrittenByStep

\* What is in the file is fenced, however many persists fail, before the rename
\* or after it: no process replaces the holder or the receipt of a generation
\* there, or goes back to an older one, whatever it remembers.
THEOREM FileFenced == Spec => [][\A b \in Beads : Ledger!FencedStep(b)]_vars
<1>1. Init => AllPlain
  BY DEF Init, AllPlain, Plain, Empty
<1>2. IInv /\ AllPlain /\ [Next]_vars => AllPlain'
  BY PlainStep
<1>3. IInv /\ AllPlain /\ [Next]_vars => [\A b \in Beads : Ledger!FencedStep(b)]_vars
  BY PlainStep
<1> QED BY <1>1, <1>2, <1>3, Invariance, PTL DEF Spec

-----------------------------------------------------------------------------
\* What a process remembers and the file lacks, known being the beads in it.
PairedRest(k, known) ==
    /\ \A b \in DOMAIN k.beads \ known :
           /\ <<b, k.beads[b].gen>> \in DOMAIN k.outbox
           /\ k.outbox[<<b, k.beads[b].gen>>] \in {"pending", "acknowledged"}
    /\ \A e \in DOMAIN k.outbox : Bead(e) \in DOMAIN k.beads \cup known

AllPaired ==
    /\ file # None => Paired(file)
    /\ \A p \in Processes : PairedRest(residue[p], Known)

LEMMA PairedLoaded ==
    ASSUME TypeOK, AllPaired, NEW p \in Processes
    PROVE  Paired(Load(p))
<1>1. CASE file = None
  BY <1>1 DEF Load, Merge, Empty, Paired
<1>2. CASE file # None
  <2> DEFINE k == residue[p]
             s == Load(p)
  <2>1. s = [beads |-> Over(file.beads, k.beads), outbox |-> Over(file.outbox, k.outbox)]
    BY <1>2 DEF Load, Merge
  <2>2. /\ DOMAIN s.beads = DOMAIN file.beads \cup DOMAIN k.beads
        /\ \A b \in DOMAIN s.beads :
               s.beads[b] = IF b \in DOMAIN file.beads THEN file.beads[b] ELSE k.beads[b]
        /\ DOMAIN s.outbox = DOMAIN file.outbox \cup DOMAIN k.outbox
        /\ \A e \in DOMAIN s.outbox :
               s.outbox[e] = IF e \in DOMAIN file.outbox THEN file.outbox[e] ELSE k.outbox[e]
    BY <2>1 DEF Over
  <2>3. Paired(file) /\ PairedRest(k, DOMAIN file.beads)
    BY <1>2 DEF AllPaired, Known
  <2> HIDE DEF s, k
  <2>4. ASSUME NEW b \in DOMAIN s.beads
        PROVE  /\ <<b, s.beads[b].gen>> \in DOMAIN s.outbox
               /\ s.outbox[<<b, s.beads[b].gen>>] \in {"pending", "acknowledged"}
    <3>1. CASE b \in DOMAIN file.beads
      BY <2>2, <2>3, <3>1 DEF Paired
    <3>2. CASE b \notin DOMAIN file.beads
      <4>1. b \in DOMAIN k.beads /\ s.beads[b] = k.beads[b]
        BY <2>2, <3>2
      <4>2. <<b, s.beads[b].gen>> \notin DOMAIN file.outbox
        BY <2>3, <3>2 DEF Paired, Bead
      <4> QED BY <2>2, <2>3, <3>2, <4>1, <4>2 DEF PairedRest
    <3> QED BY <3>1, <3>2
  <2>5. \A e \in DOMAIN s.outbox : Bead(e) \in DOMAIN s.beads
    BY <2>2, <2>3 DEF Paired, PairedRest
  <2> QED BY <2>4, <2>5 DEF Paired, s
<1> QED BY <1>1, <1>2

LEMMA PairedStep ==
    ASSUME IInv, AllPlain, AllPaired, [Next]_vars
    PROVE  AllPaired'
<1>0. TypeOK
  BY DEF IInv
<1>1. \A known : PairedRest(Empty, known)
  BY DEF PairedRest, Empty
<1>2. CASE UNCHANGED <<file, residue>>
  BY <1>2 DEF AllPaired, Known
<1>3. ASSUME NEW p \in Processes, UNCHANGED file, residue' = [residue EXCEPT ![p] = Empty]
      PROVE  AllPaired'
  <2>1. \A q \in Processes : residue'[q] = IF q = p THEN Empty ELSE residue[q]
    BY <1>0, <1>3 DEF TypeOK
  <2> QED BY <1>1, <1>3, <2>1 DEF AllPaired, Known
<1>4. ASSUME NEW p \in Processes, NEW t \in State, Writes(p, t)
      PROVE  AllPaired'
  <2>1. /\ Known \subseteq DOMAIN Load(p).beads
        /\ t # None /\ Paired(t) /\ Keeps(Load(p), t)
    BY <1>0, <1>4, Loaded, PairedLoaded, AbsentIsNoState DEF Writes
  <2>2. CASE file' = t /\ residue' = [residue EXCEPT ![p] = Empty]
    <3>1. \A q \in Processes : residue'[q] = IF q = p THEN Empty ELSE residue[q]
      BY <1>0, <2>2 DEF TypeOK
    <3>2. Known' = DOMAIN t.beads /\ Known \subseteq Known'
      BY <2>1, <2>2 DEF Known, Keeps
    <3>3. ASSUME NEW q \in Processes PROVE PairedRest(residue'[q], Known')
      <4>1. CASE q = p
        BY <1>1, <3>1, <4>1
      <4>2. CASE q # p
        <5>1. residue'[q] = residue[q] /\ PairedRest(residue[q], Known)
          BY <3>1, <4>2 DEF AllPaired
        <5> QED BY <3>2, <5>1 DEF PairedRest
      <4> QED BY <4>1, <4>2
    <3> QED BY <2>1, <2>2, <3>3 DEF AllPaired
  <2>3. CASE file' = file /\ residue' = [residue EXCEPT ![p] = Survivors(t, file)]
    <3> DEFINE k == Survivors(t, file)
    <3>1. \A q \in Processes : residue'[q] = IF q = p THEN k ELSE residue[q]
      BY <1>0, <2>3 DEF TypeOK
    <3>2. PairedRest(k, Known)
      <4>1. CASE file = None
        BY <1>1, <4>1 DEF Survivors
      <4>2. CASE file # None
        <5>1. /\ DOMAIN k.beads = DOMAIN t.beads \ Known
              /\ \A b \in DOMAIN k.beads : k.beads[b] = t.beads[b]
              /\ DOMAIN k.outbox = DOMAIN t.outbox \ DOMAIN file.outbox
              /\ \A e \in DOMAIN k.outbox : k.outbox[e] = t.outbox[e]
          BY <4>2 DEF Survivors, Known
        <5>2. Paired(file) /\ Known = DOMAIN file.beads
          BY <4>2 DEF AllPaired, Known
        <5> HIDE DEF k
        <5>3. ASSUME NEW b \in DOMAIN k.beads
              PROVE  /\ <<b, k.beads[b].gen>> \in DOMAIN k.outbox
                     /\ k.outbox[<<b, k.beads[b].gen>>] \in {"pending", "acknowledged"}
          <6>1. b \in DOMAIN t.beads /\ b \notin DOMAIN file.beads /\ k.beads[b] = t.beads[b]
            BY <5>1, <5>2
          <6>2. <<b, t.beads[b].gen>> \notin DOMAIN file.outbox
            BY <5>2, <6>1 DEF Paired, Bead
          <6> QED BY <2>1, <5>1, <6>1, <6>2 DEF Paired
        <5> QED BY <2>1, <5>1, <5>3 DEF Paired, PairedRest
      <4> QED BY <4>1, <4>2
    <3> HIDE DEF k
    <3>3. Known' = Known
      BY <2>3 DEF Known
    <3> QED BY <2>3, <3>1, <3>2, <3>3 DEF AllPaired
  <2> QED BY <1>4, <2>2, <2>3 DEF Writes, Persisted, PersistFailed
<1> QED BY <1>2, <1>3, <1>4, WrittenByStep

\* The facts announced out of the file, as the ledger in it shows them.
Stored == \A a \in announced : a[3] = "stored" => Durable(a[1]).gen >= a[2]

LEMMA StoredStep ==
    ASSUME IInv, AllPlain, AllPaired, Stored, [Next]_vars
    PROVE  Stored'
<1>0. /\ TypeOK
      /\ \A a \in announced : a[1] \in Beads /\ a[2] \in Nat
  BY FileConstants DEF IInv, TypeOK
<1>1. ASSUME NEW b \in Beads
      PROVE  Durable(b).gen \in Nat /\ Durable(b)'.gen >= Durable(b).gen /\ Durable(b)'.gen \in Nat
  <2>1. ASSUME NEW s \in State, NEW x \in DOMAIN s.beads
        PROVE  s.beads[x].gen \in Nat
    <3>1. s.beads[x] \in BeadRecord
      BY MapLaws DEF State
    <3> QED BY <3>1, FileConstants DEF BeadRecord
  <2>2. file' \in State \cup {None}
    <3>1. \A p \in Processes, t \in State : Writes(p, t) => file' = t \/ file' = file
      BY DEF Writes, Persisted, PersistFailed
    <3> QED BY <1>0, <3>1, WrittenByStep DEF TypeOK
  <2>3. Durable(b).gen \in Nat /\ Durable(b)'.gen \in Nat
    BY <1>0, <2>1, <2>2 DEF TypeOK, Durable
  <2>4. Ledger!FencedStep(b)
    BY PlainStep
  <2> QED BY <2>3, <2>4 DEF Ledger!FencedStep
<1>2. \A a \in announced : a[3] = "stored" => Durable(a[1])'.gen >= a[2]
  BY <1>0, <1>1 DEF Stored
\* A step that announces nothing, or what the file has after it.
<1>3. ASSUME NEW b \in Beads, NEW g \in Generations, NEW how \in Told,
             announced' = announced \cup {<<b, g, how>>},
             how = "stored" => Durable(b)'.gen >= g
      PROVE  Stored'
  BY <1>2, <1>3 DEF Stored
<1>4. ASSUME UNCHANGED announced PROVE Stored'
  BY <1>2, <1>4 DEF Stored
<1>5. ASSUME NEW p \in Processes, NEW b \in Beads, NEW g \in Generations,
             TransitionReady(p, b, g)
      PROVE  Stored'
  <2> DEFINE t == Publish(Load(p), b, g)
  <2>1. CASE Persisted(p, t) /\ announced' = announced \cup {<<b, g, "stored">>}
    <3>1. t \in State
      BY <1>0, <1>5, Loaded, Publishing DEF TransitionReady
    <3>2. b \in DOMAIN t.beads /\ t.beads[b].gen = g
      BY DEF Publish, With
    <3> HIDE DEF t
    <3>3. file' = t /\ file' # None
      BY <2>1, <3>1, AbsentIsNoState DEF Persisted
    <3>4. Durable(b)'.gen = g
      BY <3>2, <3>3 DEF Durable
    <3> QED BY <1>3, <2>1, <3>4, FileConstants DEF Told
  <2> QED BY <1>4, <1>5, <2>1 DEF TransitionReady
<1>6. ASSUME NEW p \in Processes, NEW b \in Beads, NEW g \in Generations,
             TransitionAgain(p, b, g)
      PROVE  Stored'
  <2> DEFINE stored == file # None /\ <<b, g>> \in DOMAIN file.outbox
  <2>1. ASSUME stored PROVE Durable(b).gen = g
    <3>1. b \in DOMAIN file.beads /\ b \in Known
      BY <2>1 DEF AllPaired, Paired, Bead, Known
    <3>2. Load(p).beads[b] = file.beads[b] /\ Load(p).beads[b].gen = g
      BY <1>0, <1>6, <3>1, Loaded DEF TransitionAgain
    <3> QED BY <2>1, <3>1, <3>2 DEF Durable
  <2>2. Durable(b)' = Durable(b)
    BY <1>6 DEF TransitionAgain, Durable
  <2>3. announced' = announced \cup {<<b, g, IF stored THEN "stored" ELSE "remembered">>}
    BY <1>6 DEF TransitionAgain
  <2> HIDE DEF stored
  <2>4. CASE stored
    BY <1>3, <2>1, <2>2, <2>3, <2>4, FileConstants DEF Told
  <2>5. CASE ~ stored
    BY <1>3, <2>3, <2>5 DEF Told
  <2> QED BY <2>4, <2>5
<1>7. ASSUME NEW p \in Processes,
             \/ \E b \in Beads, g \in Generations, w \in Workflows :
                    Claim(p, b, g, w) \/ ClaimAgain(p, b, g, w)
             \/ \E l \in leases, r \in Receipts : Complete(p, l, r) \/ CompleteAgain(p, l, r)
             \/ \E l \in leases, f \in Failures : RecordAttemptFailure(p, l, f)
             \/ \E e \in EventId : AcknowledgeReadyEvent(p, e)
             \/ Restart(p)
      PROVE  UNCHANGED announced
  BY <1>7 DEF Claim, ClaimAgain, Complete, CompleteAgain, RecordAttemptFailure,
              AcknowledgeReadyEvent, Restart
<1> QED BY <1>4, <1>5, <1>6, <1>7 DEF Next, vars

\* However many persists fail, before the rename or after it, and whichever
\* process answered: a ready fact announced out of the file stays there with an
\* event that still gets delivered, until a higher generation replaces both.
THEOREM ReadyFactsAreDurable == Spec => []ReadyDurable
<1>1. Init => AllPlain /\ AllPaired /\ Stored
  BY DEF Init, AllPlain, Plain, AllPaired, PairedRest, Stored, Empty
<1>2. IInv /\ AllPlain /\ AllPaired /\ Stored /\ [Next]_vars
          => AllPlain' /\ AllPaired' /\ Stored'
  BY PlainStep, PairedStep, StoredStep
<1>3. IInv /\ AllPaired /\ Stored => ReadyDurable
  <2> SUFFICES ASSUME IInv, AllPaired, Stored, NEW a \in announced, a[3] = "stored"
               PROVE  Published(a[1], a[2])
    BY DEF ReadyDurable
  <2>1. a[1] \in Beads /\ a[2] \in Nat \ {0} /\ Durable(a[1]).gen >= a[2]
    BY FileConstants DEF IInv, TypeOK, Stored
  <2>2. file # None /\ a[1] \in DOMAIN file.beads
    BY <2>1 DEF Durable
  <2>3. file.beads[a[1]].gen \in Nat /\ file.beads[a[1]].gen >= a[2]
    <3>1. file.beads[a[1]] \in BeadRecord
      BY <2>2, MapLaws DEF IInv, TypeOK, State
    <3> QED BY <2>1, <2>2, <3>1, FileConstants DEF Durable, BeadRecord
  <2> QED BY <2>1, <2>2, <2>3 DEF AllPaired, Paired, Published
<1> QED BY <1>1, <1>2, <1>3, Invariance, PTL DEF Spec

=============================================================================
