----------------------- MODULE TimeZoneActivationProofs -----------------------
(***************************************************************************)
(* What the receipt of an activation proves, for any number of clients, any *)
(* even range of connection identities and any number of faults.            *)
(***************************************************************************)
EXTENDS TimeZoneActivation, TLAPS

\* While an activation lists and sets, a connection it did not list is recent.
Told == owner.phase \in {"listed", "set"} => Recent(Unsettled, server.next)

\* What is older than the fence is found by its listing or by its identity.
EarlyAreCandidates ==
    Fenced => \A c \in owner.early : \/ conn[c].id \in owner.preSet
                                     \/ Precedes(conn[c].id, owner.fence)

\* What is newer than the fence is told from all that the drain looks for.
LateAreNewer ==
    Fenced => \A c \in Connected \ owner.early :
        /\ conn[c].id \notin owner.preSet
        /\ conn[c].id # owner.fence
        /\ Behind(owner.fence, conn[c].id) < Half

\* As long as the zone of the installation is in force, what is newer has it.
LateAreNamed ==
    (Fenced /\ server.zone = "named") =>
        \A c \in Connected \ owner.early : conn[c].zone = "named"

Drained == owner.phase \in {"drained", "verified"} => owner.early = {}

IInv ==
    /\ TypeOK
    /\ Recent(Handshakes, server.next)
    /\ Told
    /\ EarlyAreCandidates
    /\ LateAreNewer
    /\ LateAreNamed
    /\ Drained
    /\ ReceiptProves

-----------------------------------------------------------------------------
\* An identity is one behind the identity that follows it.
LEMMA Adjacent ==
    ASSUME NEW n \in Identities
    PROVE  /\ (n + 1) % Range \in Identities
           /\ Behind(n, (n + 1) % Range) <= Half
<1>1. Range \in Nat /\ Range >= 2 /\ Half >= 1
  BY ActivationConstants DEF Half
<1>2. CASE n + 1 < Range
  <2>1. (n + 1) % Range = n + 1
    BY <1>1, <1>2 DEF Identities
  <2>2. (n + 1 - n) % Range = 1
    BY <1>1 DEF Identities
  <2> QED BY <1>1, <2>1, <2>2 DEF Identities, Behind
<1>3. CASE n + 1 = Range
  <2>1. (n + 1) % Range = 0
    BY <1>1, <1>3 DEF Identities
  <2>2. (0 - n) % Range = 1
    BY <1>1, <1>3 DEF Identities
  <2> QED BY <1>1, <2>1, <2>2 DEF Identities, Behind
<1> QED BY <1>1, <1>2, <1>3 DEF Identities

\* The serial order: what follows the fence by less than half the range does not
\* precede it.
LEMMA SerialOrder ==
    ASSUME NEW id \in Identities, NEW fence \in Identities,
           id # fence, Behind(fence, id) < Half
    PROVE  ~Precedes(id, fence)
<1>1. Range \in Nat /\ Range >= 2 /\ Half \in Nat /\ Half + Half = Range
  BY ActivationConstants DEF Half
<1>2. CASE id > fence
  <2>1. (id - fence) % Range = id - fence
    BY <1>1, <1>2 DEF Identities
  <2>2. (fence - id) % Range = Range - (id - fence)
    BY <1>1, <1>2 DEF Identities
  <2>3. Behind(fence, id) = id - fence /\ Behind(id, fence) = Range - (id - fence)
    BY <2>1, <2>2 DEF Behind
  <2>4. Behind(id, fence) > Half
    BY <1>1, <1>2, <2>3 DEF Identities
  <2> QED
    BY <1>1, <1>2, <2>3, <2>4 DEF Precedes, Identities
<1>3. CASE id < fence
  <2>1. (id - fence) % Range = Range - (fence - id)
    BY <1>1, <1>3 DEF Identities
  <2>2. (fence - id) % Range = fence - id
    BY <1>1, <1>3 DEF Identities
  <2>3. Behind(fence, id) = Range - (fence - id) /\ Behind(id, fence) = fence - id
    BY <2>1, <2>2 DEF Behind
  <2>4. Behind(id, fence) > Half
    BY <1>1, <1>3, <2>3 DEF Identities
  <2> QED
    BY <1>1, <1>3, <2>3, <2>4 DEF Precedes, Identities
<1> QED
  BY <1>1, <1>2, <1>3 DEF Identities

-----------------------------------------------------------------------------
LEMMA Initially == Init => IInv
<1> SUFFICES ASSUME Init PROVE IInv
  OBVIOUS
<1>1. Connected = {} /\ owner.phase = "idle" /\ owner.early = {} /\ server.zone = "SYSTEM"
  BY DEF Init, NewServer, NoConnection, NoActivation, Connected
<1>2. TypeOK
  <2>1. 0 \in Identities
    BY ActivationConstants DEF Identities
  <2> QED
    <3>1. server \in [gen : Nat \ {0}, zone : Zones, next : Identities]
      BY <2>1 DEF Init, NewServer, Zones
    <3>2. conn \in [Clients -> [stage : {"none", "handshake", "session"},
                               id : Identities, zone : Zones]]
      BY <2>1 DEF Init, NoConnection, Zones
    <3>3. owner \in [phase : {"idle", "listed", "set", "draining", "drained", "verified"},
                     gen : Nat, preSet : SUBSET Identities, fence : Identities,
                     early : SUBSET Clients]
      BY <2>1 DEF Init, NoActivation
    <3>4. proved \in BOOLEAN /\ abandoned \in BOOLEAN
      BY DEF Init
    <3> QED
      BY <1>1, <3>1, <3>2, <3>3, <3>4 DEF Init, TypeOK
<1> QED
  BY <1>1, <1>2 DEF IInv, Recent, Handshakes, Told, Fenced, EarlyAreCandidates,
      LateAreNewer, LateAreNamed, Drained, ReceiptProves, AlreadyActive

\* Types first: the rest of the invariant is about well-typed states.
LEMMA TypeStep ==
    ASSUME TypeOK, [Next]_vars
    PROVE  TypeOK'
<1> USE ActivationConstants DEF TypeOK, Zones, Connected
<1>1. 0 \in Identities /\ Following \in Identities
  BY Adjacent DEF Following, Identities
<1>2. CASE \E c \in Clients : Accept(c)
  BY <1>1, <1>2 DEF Accept, TakeIdentity
<1>3. CASE \E c \in Clients : Establish(c)
  <2>1. PICK c \in Clients, zone \in Zones :
            conn' = [conn EXCEPT ![c].stage = "session", ![c].zone = zone]
    BY <1>3 DEF Establish
  <2>2. Connected' = Connected
    BY <1>3, <2>1 DEF Establish
  <2>3. UNCHANGED <<server, owner, receipt, scan, proved, abandoned, faults>>
    BY <1>3 DEF Establish
  <2>4. conn' \in [Clients -> [stage : {"none", "handshake", "session"},
                              id : Identities, zone : Zones]]
    BY <2>1
  <2> QED
    BY <2>2, <2>3, <2>4
<1>4. CASE \E c \in Clients : Close(c)
  BY <1>1, <1>4 DEF Close, NoConnection
<1>5. CASE ResetTimeZone
  BY <1>5 DEF ResetTimeZone, Fault
<1>6. CASE Restart
  <2>1. server' \in [gen : Nat \ {0}, zone : Zones, next : Identities]
    BY <1>1, <1>6 DEF Restart, NewServer
  <2>2. conn' \in [Clients -> [stage : {"none", "handshake", "session"},
                              id : Identities, zone : Zones]]
    BY <1>1, <1>6 DEF Restart, NoConnection
  <2>3. /\ owner' \in [phase : {"idle", "listed", "set", "draining", "drained", "verified"},
                       gen : Nat, preSet : SUBSET Identities, fence : Identities,
                       early : SUBSET Clients]
        /\ owner'.early = {}
    <3>1. /\ owner \in [phase : {"idle", "listed", "set", "draining", "drained", "verified"},
                        gen : Nat, preSet : SUBSET Identities, fence : Identities,
                        early : SUBSET Clients]
          /\ owner' = [owner EXCEPT !.early = {}]
      BY <1>6 DEF Restart
    <3> QED
      BY <3>1
  <2>4. abandoned' = FALSE /\ proved' = proved /\ receipt' = receipt /\ scan' = scan
    BY <1>6 DEF Restart
  <2>5. abandoned' \in BOOLEAN /\ proved' \in BOOLEAN
    BY <2>4, Zenon
  <2>6. receipt' \in Nat /\ scan' \in Nat /\ faults' \in Nat
    BY <1>6, <2>4 DEF Restart, Fault
  <2> QED
    BY <2>1, <2>2, <2>3, <2>5, <2>6
<1>7. CASE SnapshotSessions
  <2>1. {conn[c].id : c \in Sessions} \subseteq Identities
    BY DEF Sessions
  <2> QED
    BY <1>1, <1>7, <2>1 DEF SnapshotSessions, NoActivation
<1>8. CASE ConfigureTimeZone
  BY <1>8 DEF ConfigureTimeZone
<1>9. CASE OpenPostSetFence
  BY <1>1, <1>9 DEF OpenPostSetFence, TakeIdentity
<1>10. CASE DrainRound
  BY <1>1, <1>10 DEF DrainRound, NoConnection
<1>11. CASE FinishDrain \/ VerifyEndpoint
  BY <1>11 DEF FinishDrain, VerifyEndpoint
<1>12. CASE WriteReceipt \/ Refuse \/ OwnerStops
  <2>1. owner' = NoActivation /\ UNCHANGED <<server, conn, scan>>
    BY <1>12 DEF WriteReceipt, Refuse, OwnerStops
  <2>2. receipt' \in Nat /\ faults' \in Nat
    BY <1>12 DEF WriteReceipt, Refuse, OwnerStops, Fault
  <2>3. proved' = TRUE \/ proved' = proved
    BY <1>12 DEF WriteReceipt, Refuse, OwnerStops
  <2>4. proved' \in BOOLEAN
    BY <2>3
  <2>5. abandoned' \in BOOLEAN
    BY <1>12 DEF WriteReceipt, Refuse, OwnerStops
  <2> QED
    BY <1>1, <2>1, <2>2, <2>4, <2>5 DEF NoActivation
<1>13. CASE Admission
  BY <1>13 DEF Admission, CheckReceipt, ObserveZones
<1>14. CASE UNCHANGED vars
  BY <1>14 DEF vars
<1> QED
  BY <1>2, <1>3, <1>4, <1>5, <1>6, <1>7, <1>8, <1>9, <1>10, <1>11, <1>12, <1>13, <1>14
  DEF Next, Clientele, Activation

\* A client connects.
LEMMA AcceptStep ==
    ASSUME IInv, TypeOK', NEW c \in Clients, Accept(c)
    PROVE  IInv'
<1> USE DEF IInv
<1> DEFINE n == server.next
<1>1. /\ c \notin Connected
      /\ InRange
      /\ owner' = owner /\ receipt' = receipt /\ proved' = proved
      /\ server'.next = Following /\ server'.zone = server.zone
      /\ server'.gen = server.gen
  BY DEF Accept, TakeIdentity, TypeOK
<1>2. /\ \A d \in Clients \ {c} : conn'[d] = conn[d]
      /\ conn'[c].id = n /\ conn'[c].stage = "handshake"
      /\ conn'[c].zone \in {server.zone, "named"}
  BY DEF Accept, TypeOK
<1>3. Connected' = Connected \cup {c} /\ owner.early \subseteq Connected
  BY <1>1, <1>2 DEF Connected, TypeOK
<1>4. n \in Identities /\ Behind(n, Following) <= Half
  BY Adjacent DEF TypeOK, Following
<1>5. /\ Handshakes \subseteq Unsettled /\ Handshakes' \subseteq Unsettled'
      /\ Unsettled' \subseteq Unsettled \cup {c}
  <2>1. Handshakes \subseteq Unsettled /\ Handshakes' \subseteq Unsettled'
    BY DEF Unsettled, Handshakes
  <2>2. ASSUME NEW d \in Unsettled', d # c PROVE d \in Unsettled
    BY <1>1, <1>2, <1>3, <2>2 DEF Unsettled, Active, Connected
  <2> QED
    BY <2>1, <2>2
<1>6. \A d \in Unsettled' : Behind(conn'[d].id, Following) <= Half
  BY <1>1, <1>2, <1>4, <1>5 DEF InRange, Recent, Unsettled, Connected
<1>7. Recent(Handshakes, server.next)' /\ Told'
  BY <1>1, <1>5, <1>6 DEF Recent, Told
<1>8. EarlyAreCandidates' /\ Drained'
  BY <1>1, <1>2, <1>3 DEF EarlyAreCandidates, Fenced, Drained, Connected
<1>9. LateAreNamed' /\ LateAreNewer'
  <2>1. LateAreNamed'
    BY <1>1, <1>2, <1>3 DEF LateAreNamed, Fenced, Connected
  <2>2. LateAreNewer'
    BY <1>1, <1>2, <1>3 DEF LateAreNewer, Fenced, Active, InRange, Connected
  <2> QED
    BY <2>1, <2>2
<1>10. ReceiptProves'
  BY <1>1, <1>2, <1>3 DEF ReceiptProves, NoStaleZone, AlreadyActive, Valid, Connected
<1> QED
  BY <1>7, <1>8, <1>9, <1>10

\* A handshake is over, or a connection is.
LEMMA ConnectionStep ==
    ASSUME IInv, TypeOK', NEW c \in Clients, Establish(c) \/ Close(c)
    PROVE  IInv'
<1> USE DEF IInv
<1>1. CASE Establish(c)
  <2>1. /\ \A d \in Clients \ {c} : conn'[d] = conn[d]
        /\ conn'[c].id = conn[c].id /\ conn'[c].stage = "session"
        /\ conn'[c].zone \in {conn[c].zone, server.zone}
        /\ UNCHANGED <<server, owner, receipt, proved>>
        /\ conn[c].stage = "handshake"
    BY <1>1 DEF Establish, TypeOK
  <2>2. Connected' = Connected /\ c \in Connected /\ owner.early \subseteq Connected
    BY <2>1 DEF Connected, TypeOK
  <2>3. Handshakes' \subseteq Handshakes /\ Unsettled' \subseteq Unsettled
    <3>1. ASSUME NEW d \in Connected PROVE conn'[d].id = conn[d].id
                                         /\ (d # c => conn'[d] = conn[d])
      BY <2>1 DEF Connected
    <3>2. ASSUME NEW d \in Handshakes' PROVE d \in Handshakes
      BY <2>1, <2>2, <3>1 DEF Handshakes
    <3>3. ASSUME NEW d \in Unsettled' PROVE d \in Unsettled
      BY <2>1, <2>2, <3>1 DEF Unsettled, Active
    <3> QED
      BY <3>2, <3>3
  <2>4. \A d \in Connected : conn'[d].id = conn[d].id
    BY <2>1 DEF Connected
  <2>5. Recent(Handshakes, server.next)' /\ Told'
    BY <2>1, <2>3, <2>4 DEF Recent, Told, Handshakes, Unsettled
  <2>6. EarlyAreCandidates' /\ Drained'
    BY <2>1, <2>2, <2>4 DEF EarlyAreCandidates, Fenced, Drained
  <2>7. LateAreNamed' /\ LateAreNewer'
    BY <2>1, <2>2, <2>4 DEF LateAreNamed, LateAreNewer, Fenced, Connected
  <2>8. ReceiptProves'
    BY <2>1, <2>2 DEF ReceiptProves, NoStaleZone, AlreadyActive, Valid, Connected
  <2> QED
    BY <2>5, <2>6, <2>7, <2>8
<1>2. CASE Close(c)
  <2>1. /\ \A d \in Clients \ {c} : conn'[d] = conn[d]
        /\ conn'[c].stage = "none"
        /\ owner'.phase = owner.phase /\ owner'.preSet = owner.preSet
        /\ owner'.fence = owner.fence /\ owner'.early = owner.early \ {c}
        /\ UNCHANGED <<server, receipt, proved>>
    BY <1>2 DEF Close, NoConnection, TypeOK
  <2>2. Connected' = Connected \ {c}
    BY <2>1 DEF Connected
  <2>3. Handshakes' \subseteq Handshakes /\ Unsettled' \subseteq Unsettled
    BY <2>1, <2>2 DEF Handshakes, Unsettled, Active, Connected
  <2>4. Recent(Handshakes, server.next)' /\ Told'
    BY <2>1, <2>2, <2>3 DEF Recent, Told, Handshakes, Unsettled, Connected
  <2>5. EarlyAreCandidates' /\ Drained'
    BY <2>1 DEF EarlyAreCandidates, Fenced, Drained, TypeOK
  <2>6. LateAreNamed' /\ LateAreNewer'
    BY <2>1, <2>2 DEF LateAreNamed, LateAreNewer, Fenced, Connected
  <2>7. ReceiptProves'
    BY <2>1, <2>2 DEF ReceiptProves, NoStaleZone, AlreadyActive, Valid, Connected
  <2> QED
    BY <2>4, <2>5, <2>6, <2>7
<1> QED
  BY <1>1, <1>2

\* The server is set back or replaced.
LEMMA FaultStep ==
    ASSUME IInv, TypeOK', ResetTimeZone \/ Restart
    PROVE  IInv'
<1> USE DEF IInv
<1>1. CASE ResetTimeZone
  <2>1. /\ UNCHANGED <<conn, owner>>
        /\ server'.next = server.next /\ server'.zone = "SYSTEM"
    BY <1>1 DEF ResetTimeZone, TypeOK
  <2> QED
    BY <2>1 DEF Recent, Handshakes, Told, Unsettled, Active, Connected,
        EarlyAreCandidates, Fenced, LateAreNewer, LateAreNamed, Drained, ReceiptProves,
        AlreadyActive
<1>2. CASE Restart
  <2>1. /\ Connected' = {} /\ owner'.early = {} /\ server'.zone = "SYSTEM"
    BY <1>2 DEF Restart, NewServer, NoConnection, Connected, TypeOK
  <2> QED
    BY <2>1 DEF Recent, Handshakes, Told, Unsettled, EarlyAreCandidates,
        LateAreNewer, LateAreNamed, Drained, ReceiptProves, AlreadyActive
<1> QED
  BY <1>1, <1>2

\* The sessions are listed and the zone is set.
LEMMA SetStep ==
    ASSUME IInv, TypeOK', SnapshotSessions \/ ConfigureTimeZone
    PROVE  IInv'
<1> USE DEF IInv
<1>1. CASE SnapshotSessions
  <2>1. /\ UNCHANGED <<server, conn, receipt, proved>>
        /\ owner'.phase = "listed" /\ owner'.early = {}
        /\ owner'.preSet = {conn[c].id : c \in Sessions}
    BY <1>1 DEF SnapshotSessions, NoActivation
  <2>2. Connected' = Connected /\ Handshakes' = Handshakes
    BY <2>1 DEF Connected, Handshakes
  <2>3. \A c \in Connected : conn[c].stage = "session" => c \in Sessions
    BY DEF Connected, Sessions
  <2>4. Unsettled' \subseteq Handshakes
    BY <2>1, <2>2, <2>3 DEF Unsettled, Handshakes, Connected, TypeOK
  <2>5. Recent(Handshakes, server.next)' /\ Told'
    BY <2>1, <2>2, <2>4 DEF Recent, Told
  <2> QED
    BY <2>1, <2>2, <2>5 DEF EarlyAreCandidates, Fenced, LateAreNewer, LateAreNamed,
        Drained, ReceiptProves, NoStaleZone, AlreadyActive, Valid
<1>2. CASE ConfigureTimeZone
  <2>1. /\ conn' = conn /\ proved' = FALSE
        /\ owner.phase = "listed" /\ owner'.phase = "set"
        /\ owner'.preSet = owner.preSet /\ server'.next = server.next
    BY <1>2 DEF ConfigureTimeZone, TypeOK
  <2>2. Recent(Handshakes, server.next)' /\ Told'
    BY <2>1 DEF Recent, Told, Handshakes, Unsettled, Active, Connected
  <2> QED
    BY <2>1, <2>2 DEF EarlyAreCandidates, Fenced, LateAreNewer, LateAreNamed,
        Drained, ReceiptProves
<1> QED
  BY <1>1, <1>2

\* The fence: everything connected is older, listed or recent.
LEMMA FenceStep ==
    ASSUME IInv, TypeOK', OpenPostSetFence
    PROVE  IInv'
<1> USE DEF IInv
<1>1. /\ owner.phase = "set" /\ owner'.phase = "draining"
      /\ owner'.preSet = owner.preSet /\ owner'.fence = server.next
      /\ owner'.early = Connected
      /\ UNCHANGED <<conn, receipt, proved>>
      /\ Free /\ Recent(Handshakes, Following)
      /\ server'.next = Following /\ server'.zone = server.zone
      /\ server'.gen = server.gen
  BY DEF OpenPostSetFence, TakeIdentity, TypeOK
<1>2. Connected' = Connected /\ Handshakes' = Handshakes
  BY <1>1 DEF Connected, Handshakes
<1>3. Recent(Handshakes, server.next)'
  BY <1>1, <1>2 DEF Recent
<1>4. Told' /\ Drained'
  BY <1>1 DEF Told, Drained
<1>5. EarlyAreCandidates'
  <2>1. \A c \in Connected : \/ conn[c].id \in owner.preSet
                             \/ Precedes(conn[c].id, server.next)
    BY <1>1 DEF Told, Recent, Unsettled, Active, Free, Precedes
  <2> QED
    BY <1>1, <2>1 DEF EarlyAreCandidates
<1>6. LateAreNamed' /\ LateAreNewer'
  BY <1>1, <1>2 DEF LateAreNamed, LateAreNewer
<1>7. ReceiptProves'
  BY <1>1, <1>2 DEF ReceiptProves, NoStaleZone, AlreadyActive, Valid
<1> QED
  BY <1>3, <1>4, <1>5, <1>6, <1>7

\* The drain, to the last look at the endpoint.
LEMMA DrainStep ==
    ASSUME IInv, TypeOK', DrainRound \/ FinishDrain \/ VerifyEndpoint
    PROVE  IInv'
<1> USE DEF IInv
<1>1. CASE DrainRound
  <2>1. PICK killed \in SUBSET PreSetCandidates :
            /\ conn' = [c \in Clients |-> IF c \in killed THEN NoConnection ELSE conn[c]]
            /\ owner' = [owner EXCEPT !.early = @ \ killed]
            /\ UNCHANGED <<server, receipt, proved>>
    BY <1>1 DEF DrainRound
  <2>2. /\ owner.phase = "draining" /\ owner'.phase = "draining"
        /\ owner'.preSet = owner.preSet /\ owner'.fence = owner.fence
        /\ owner'.early = owner.early \ killed
    BY <1>1, <2>1 DEF DrainRound, TypeOK
  <2>3. /\ \A c \in Clients \ killed : conn'[c] = conn[c]
        /\ \A c \in Clients : c \in killed => conn'[c].stage = "none"
    BY <2>1 DEF NoConnection
  <2>4. Connected' = Connected \ killed
    BY <2>3 DEF Connected
  <2>5. Recent(Handshakes, server.next)'
    BY <2>1, <2>3, <2>4 DEF Recent, Handshakes, Connected
  <2>6. Told' /\ Drained'
    BY <2>2 DEF Told, Drained
  <2>7. EarlyAreCandidates'
    BY <2>2, <2>3 DEF EarlyAreCandidates, Fenced, TypeOK
  <2>8. LateAreNamed' /\ LateAreNewer'
    BY <2>1, <2>2, <2>3, <2>4 DEF LateAreNamed, LateAreNewer, Fenced, Connected
  <2>9. ReceiptProves'
    BY <2>1, <2>3, <2>4 DEF ReceiptProves, NoStaleZone, AlreadyActive, Valid, Connected
  <2> QED
    BY <2>5, <2>6, <2>7, <2>8, <2>9
<1>2. CASE FinishDrain
  <2>1. owner.early = {}
    BY <1>2 DEF FinishDrain, HandshakesOver, Handshakes, PreSetCandidates, Sessions,
        Connected, EarlyAreCandidates, Fenced, TypeOK
  <2>2. /\ owner.phase = "draining" /\ owner'.phase = "drained"
        /\ owner'.early = owner.early
        /\ UNCHANGED <<server, conn, receipt, proved>>
    BY <1>2 DEF FinishDrain, TypeOK
  <2>3. /\ owner'.preSet = owner.preSet /\ owner'.fence = owner.fence
        /\ Connected' = Connected
    BY <1>2, <2>1, <2>2 DEF FinishDrain, VerifyEndpoint, Connected, TypeOK
  <2>4. LateAreNewer' /\ LateAreNamed'
    BY <2>1, <2>2, <2>3 DEF LateAreNewer, LateAreNamed, Fenced
  <2> QED
    BY <2>1, <2>2, <2>3, <2>4 DEF Recent, Handshakes, Told, EarlyAreCandidates, Drained,
        ReceiptProves, NoStaleZone, AlreadyActive, Valid
<1>3. CASE VerifyEndpoint
  <2>1. /\ owner.phase = "drained" /\ owner'.phase = "verified"
        /\ owner'.early = owner.early
        /\ UNCHANGED <<server, conn, receipt, proved>>
    BY <1>3 DEF VerifyEndpoint, TypeOK
  <2>2. /\ owner'.preSet = owner.preSet /\ owner'.fence = owner.fence
        /\ Connected' = Connected
    BY <1>3, <2>1 DEF FinishDrain, VerifyEndpoint, Connected, TypeOK
  <2>3. LateAreNewer' /\ LateAreNamed'
    BY <2>1, <2>2 DEF LateAreNewer, LateAreNamed, Fenced
  <2> QED
    BY <2>1, <2>2, <2>3 DEF Recent, Handshakes, Told, EarlyAreCandidates, Drained,
        ReceiptProves, NoStaleZone, AlreadyActive, Valid
<1> QED
  BY <1>1, <1>2, <1>3

\* The activation ends, with a receipt or without.
LEMMA EndStep ==
    ASSUME IInv, TypeOK', WriteReceipt \/ Refuse \/ OwnerStops
    PROVE  IInv'
<1> USE DEF IInv
<1>1. /\ UNCHANGED <<server, conn>>
      /\ owner'.phase = "idle"
  BY DEF WriteReceipt, Refuse, OwnerStops, NoActivation
<1>2. Recent(Handshakes, server.next)'
  BY <1>1 DEF Recent, Handshakes, Connected
<1>3. Told' /\ EarlyAreCandidates' /\ LateAreNewer' /\ LateAreNamed' /\ Drained'
  BY <1>1 DEF Told, EarlyAreCandidates, LateAreNewer, LateAreNamed, Drained, Fenced
<1>4. ReceiptProves'
  <2>1. CASE WriteReceipt
    BY <1>1, <2>1 DEF WriteReceipt, ReceiptProves, LateAreNamed, Fenced, Drained,
        NoStaleZone, AlreadyActive, Connected
  <2>2. CASE Refuse \/ OwnerStops
    BY <1>1, <2>2 DEF Refuse, OwnerStops, ReceiptProves, NoStaleZone, AlreadyActive,
        Valid, Connected
  <2> QED
    BY <2>1, <2>2
<1> QED
  BY <1>2, <1>3, <1>4

\* Admission only reads.
LEMMA ReadStep ==
    ASSUME IInv, TypeOK', Admission \/ UNCHANGED vars
    PROVE  IInv'
<1>1. UNCHANGED <<server, conn, owner, receipt, proved>>
  BY DEF Admission, CheckReceipt, ObserveZones, vars
<1> QED
  BY <1>1 DEF IInv, Recent, Handshakes, Connected, Told, Unsettled, Active,
      EarlyAreCandidates, Fenced, LateAreNewer, LateAreNamed, Drained, ReceiptProves,
      NoStaleZone, AlreadyActive, Valid

-----------------------------------------------------------------------------
\* The invariant of an activation, whatever clients and faults do to it.
THEOREM Invariance == Spec => []IInv
<1>1. IInv /\ [Next]_vars => IInv'
  <2> SUFFICES ASSUME IInv, [Next]_vars PROVE IInv'
    OBVIOUS
  <2>1. TypeOK'
    BY TypeStep DEF IInv
  <2> QED
    BY <2>1, AcceptStep, ConnectionStep, FaultStep, SetStep, FenceStep, DrainStep,
       EndStep, ReadStep
    DEF Next, Clientele, Activation
<1> QED
  BY <1>1, Initially, PTL DEF Spec

\* The state of an activation is well typed; identities stay in their range.
THEOREM TypeCorrect == Spec => []TypeOK
  BY Invariance, PTL DEF IInv

\* While the installation a receipt was written for is in force, no client of this
\* server is in another time zone.
THEOREM ReceiptIsProof == Spec => []ReceiptProves
  BY Invariance, PTL DEF IInv

\* The drain spares every client that connected after the fence, also when
\* identities wrap in between.
THEOREM PostSetClientsSpared == Spec => PostSetClientsPreserved
<1>1. IInv /\ [Next]_vars =>
        [\A c \in Clients :
            (DrainRound /\ c \in Connected \ owner.early) => conn'[c] = conn[c]]_vars
  <2> SUFFICES ASSUME IInv, NEW c \in Clients, DrainRound, c \in Connected \ owner.early
               PROVE  conn'[c] = conn[c]
    OBVIOUS
  <2>1. Fenced /\ owner.fence \in Identities /\ conn[c].id \in Identities
    BY DEF IInv, DrainRound, Fenced, TypeOK
  <2>2. ~Precedes(conn[c].id, owner.fence) /\ conn[c].id \notin owner.preSet
    BY <2>1, SerialOrder DEF IInv, LateAreNewer
  <2>3. c \notin PreSetCandidates
    BY <2>2 DEF PreSetCandidates
  <2> QED
    BY <2>3 DEF DrainRound
<1> QED
  BY <1>1, Invariance, PTL DEF Spec, PostSetClientsPreserved

=============================================================================
