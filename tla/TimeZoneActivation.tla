-------------------------- MODULE TimeZoneActivation --------------------------
(***************************************************************************)
(* The activation of the event time zone of a managed Dolt server.          *)
(* Discovery reads times that the sessions of other clients wrote, in the   *)
(* time zone each session took when it was opened, so it is admitted only    *)
(* when every session has the zone of the configuration.  One owner sets    *)
(* the global zone, opens a connection as a fence, kills the sessions that  *)
(* are older than the fence for as long as a handshake may take, and leaves *)
(* a receipt.  Connections are told older or newer by their identities,     *)
(* which wrap.                                                              *)
(*                                                                          *)
(* The connection of the owner is left out: it is never listed, and its     *)
(* death ends the activation.                                               *)
(***************************************************************************)
EXTENDS Integers, FiniteSets

CONSTANTS
    Clients,    \* other connections to the server, at any one time
    Range,      \* number of connection identities: 2^32 in the code
    MaxFaults   \* bound on restarts, resets of the zone, and owners that stop

ASSUME ActivationConstants ==
    /\ Range \in Nat \ {0}
    /\ Range % 2 = 0
    /\ MaxFaults \in Nat

VARIABLES
    server,    \* its generation, its global time zone and its next identity
    conn,      \* conn[c]: the connection of client c
    owner,     \* the activation under way
    receipt,   \* the generation the receipt file is for, or 0
    scan,      \* the generation for which a store found the receipt, or 0
    proved,    \* history: the receipt is of the last installation of the zone
    abandoned, \* history: an owner stopped and left an earlier receipt in its place
    faults     \* what has gone wrong so far

vars == <<server, conn, owner, receipt, scan, proved, abandoned, faults>>

Zones == {"SYSTEM", "named"}
NoConnection == [stage |-> "none", id |-> 0, zone |-> "SYSTEM"]

\* Of an activation: the identities it listed, that of its fence, and (history)
\* the connections that are older than the fence.
NoActivation == [phase |-> "idle", gen |-> 0, preSet |-> {}, fence |-> 0, early |-> {}]

NewServer(g) == [gen |-> g, zone |-> "SYSTEM", next |-> 0]

Init ==
    /\ server = NewServer(1)
    /\ conn = [c \in Clients |-> NoConnection]
    /\ owner = NoActivation
    /\ receipt = 0
    /\ scan = 0
    /\ proved = FALSE
    /\ abandoned = FALSE
    /\ faults = 0

Connected == {c \in Clients : conn[c].stage # "none"}
Sessions == {c \in Clients : conn[c].stage = "session"}

\* How far identity id is behind the identity n.
Behind(id, n) == (n - id) % Range

Half == Range \div 2

\* A plausible bug: identities as plain numbers.
PrecedesPlainly(id, fence) == id < fence

\* Identities as serial numbers; the fence does not precede itself.
Precedes(id, fence) == id # fence /\ Behind(id, fence) <= Half

-----------------------------------------------------------------------------
\* The server and its clients.

Active == owner.phase # "idle"
Fenced == owner.phase \in {"draining", "drained", "verified"}

\* Handshakes under way, and sessions that the activation did not list.
Unsettled == {c \in Connected : \/ conn[c].stage = "handshake"
                                \/ Active /\ conn[c].id \notin owner.preSet}
Handshakes == {c \in Connected : conn[c].stage = "handshake"}

\* Bounds of the model.  No identity comes round to a connection that has it, and
\* half the range does not go by during a handshake or an activation.
Free == \A c \in Connected : conn[c].id # server.next
Recent(cs, n) == \A c \in cs : Behind(conn[c].id, n) <= Half

\* A plausible bug: identities do not wrap.
FollowingUnwrapped == server.next + 1

Following == (server.next + 1) % Range

InRange ==
    /\ Free
    /\ Recent(Unsettled, Following)
    /\ Active => server.next \notin owner.preSet
    /\ Fenced => server.next # owner.fence /\ Behind(owner.fence, server.next) < Half

TakeIdentity == server' = [server EXCEPT !.next = Following]

\* A connection has its identity before it is listed.  Some clients ask for the
\* zone by name; the others take the global one.
Accept(c) ==
    /\ c \notin Connected
    /\ InRange
    /\ \E zone \in {server.zone, "named"} :
           conn' = [conn EXCEPT ![c] = [stage |-> "handshake", id |-> server.next,
                                        zone |-> zone]]
    /\ TakeIdentity
    /\ UNCHANGED <<owner, receipt, scan, proved, abandoned, faults>>

\* When the handshake is over the session is listed.  Its zone was read at some
\* time of the handshake.
Establish(c) ==
    /\ conn[c].stage = "handshake"
    /\ \E zone \in {conn[c].zone, server.zone} :
           conn' = [conn EXCEPT ![c].stage = "session", ![c].zone = zone]
    /\ UNCHANGED <<server, owner, receipt, scan, proved, abandoned, faults>>

\* The client leaves, or takes longer than connect_timeout for its handshake.
Close(c) ==
    /\ c \in Connected
    /\ conn' = [conn EXCEPT ![c] = NoConnection]
    /\ owner' = [owner EXCEPT !.early = @ \ {c}]
    /\ UNCHANGED <<server, receipt, scan, proved, abandoned, faults>>

Fault == faults < MaxFaults /\ faults' = faults + 1

\* Another administrator sets the global zone back.
ResetTimeZone ==
    /\ Fault
    /\ server.zone = "named"
    /\ server' = [server EXCEPT !.zone = "SYSTEM"]
    /\ UNCHANGED <<conn, owner, receipt, scan, proved, abandoned>>

Restart ==
    /\ Fault
    /\ server' = NewServer(server.gen + 1)
    /\ conn' = [c \in Clients |-> NoConnection]
    /\ owner' = [owner EXCEPT !.early = {}]
    /\ abandoned' = FALSE
    /\ UNCHANGED <<receipt, scan, proved>>

-----------------------------------------------------------------------------
\* The owner, which holds the lock.

\* The receipt is for this generation of the server.
Valid(gen) == receipt = gen

\* A plausible bug: the zone in force is taken for the proof.
AlreadyActiveByZone == server.zone = "named"

AlreadyActive == server.zone = "named" /\ Valid(server.gen)

\* The control connection is up, and the sessions are listed.
SnapshotSessions ==
    /\ owner.phase = "idle"
    /\ ~AlreadyActive
    /\ owner' = [NoActivation EXCEPT !.phase = "listed", !.gen = server.gen,
                                     !.preSet = {conn[c].id : c \in Sessions}]
    /\ UNCHANGED <<server, conn, receipt, scan, proved, abandoned, faults>>

ConfigureTimeZone ==
    /\ owner.phase = "listed"
    /\ owner.gen = server.gen
    /\ server' = [server EXCEPT !.zone = "named"]
    /\ owner' = [owner EXCEPT !.phase = "set"]
    /\ proved' = FALSE
    /\ UNCHANGED <<conn, receipt, scan, abandoned, faults>>

\* A new connection, which must find the new zone in force.
OpenPostSetFence ==
    /\ owner.phase = "set"
    /\ owner.gen = server.gen
    /\ server.zone = "named"
    /\ Free /\ Recent(Handshakes, Following)
    /\ TakeIdentity
    /\ owner' = [owner EXCEPT !.phase = "draining", !.fence = server.next,
                              !.early = Connected]
    /\ UNCHANGED <<conn, receipt, scan, proved, abandoned, faults>>

PreSetCandidates ==
    {c \in Sessions : \/ conn[c].id \in owner.preSet
                      \/ Precedes(conn[c].id, owner.fence)}

\* One round of the drain.  A KILL that fails is tried again in the next.
DrainRound ==
    /\ owner.phase = "draining"
    /\ owner.gen = server.gen
    /\ \E killed \in SUBSET PreSetCandidates :
           /\ killed # {}
           /\ conn' = [c \in Clients |-> IF c \in killed THEN NoConnection ELSE conn[c]]
           /\ owner' = [owner EXCEPT !.early = @ \ killed]
    /\ UNCHANGED <<server, receipt, scan, proved, abandoned, faults>>

\* A plausible bug: the drain ends with the first listing that is empty.
HandshakesNotAwaited == TRUE

\* The drain goes on for connect_timeout after the fence, so a handshake that is
\* older than the fence is over; then nobody may be left.
HandshakesOver == owner.early \cap Handshakes = {}

FinishDrain ==
    /\ owner.phase = "draining"
    /\ owner.gen = server.gen
    /\ HandshakesOver
    /\ PreSetCandidates = {}
    /\ owner' = [owner EXCEPT !.phase = "drained"]
    /\ UNCHANGED <<server, conn, receipt, scan, proved, abandoned, faults>>

\* The zone and the identity of the server are looked at again.
VerifyEndpoint ==
    /\ owner.phase = "drained"
    /\ owner.gen = server.gen
    /\ server.zone = "named"
    /\ owner' = [owner EXCEPT !.phase = "verified"]
    /\ UNCHANGED <<server, conn, receipt, scan, proved, abandoned, faults>>

\* By rename; the receipt of an earlier activation was there until now.
WriteReceipt ==
    /\ owner.phase = "verified"
    /\ receipt' = owner.gen
    /\ proved' = TRUE
    /\ abandoned' = FALSE
    /\ owner' = NoActivation
    /\ UNCHANGED <<server, conn, scan, faults>>

\* A step finds the server replaced or the zone set back, and gives up.
Refuse ==
    /\ owner.phase \notin {"idle", "verified"}
    /\ \/ owner.gen # server.gen
       \/ owner.phase \in {"set", "drained"} /\ server.zone # "named"
    /\ owner' = NoActivation
    /\ UNCHANGED <<server, conn, receipt, scan, proved, abandoned, faults>>

\* A query fails, the deadline passes, too many sessions are listed, or the
\* process stops.
OwnerStops ==
    /\ Fault
    /\ owner.phase # "idle"
    /\ owner' = NoActivation
    /\ abandoned' =
           (abandoned \/ (server.zone = "named" /\ Valid(server.gen) /\ ~proved))
    /\ UNCHANGED <<server, conn, receipt, scan, proved>>

-----------------------------------------------------------------------------
\* A store is opened, or looks for legacy outcomes.

CheckReceipt ==
    /\ Valid(server.gen)
    /\ scan' = server.gen
    /\ UNCHANGED <<server, conn, owner, receipt, proved, abandoned, faults>>

\* The zones are read in a query, and the server must be the one the receipt is
\* for, before the query and after.
Admitted == server.zone = "named" /\ scan = server.gen

ObserveZones ==
    /\ scan # 0
    /\ scan' = 0
    /\ UNCHANGED <<server, conn, owner, receipt, proved, abandoned, faults>>

-----------------------------------------------------------------------------
Clientele == \E c \in Clients : Accept(c) \/ Establish(c) \/ Close(c)

Activation ==
    \/ SnapshotSessions \/ ConfigureTimeZone \/ OpenPostSetFence
    \/ DrainRound \/ FinishDrain \/ VerifyEndpoint \/ WriteReceipt \/ Refuse

Admission == CheckReceipt \/ ObserveZones

Next ==
    \/ Clientele \/ ResetTimeZone \/ Restart
    \/ Activation \/ OwnerStops
    \/ Admission

\* The preflight is repeated until it succeeds, the server carries kills out and
\* limits handshakes, and no connection outlives a round of all identities.
Fairness ==
    /\ WF_vars(Activation)
    /\ SF_vars(OpenPostSetFence)
    /\ \A c \in Clients :
           /\ WF_vars(conn[c].stage = "handshake" /\ (Establish(c) \/ Close(c)))
           /\ WF_vars(conn[c].id = server.next /\ Close(c))

Spec == Init /\ [][Next]_vars /\ Fairness

-----------------------------------------------------------------------------
Identities == 0..(Range - 1)

TypeOK ==
    /\ server \in [gen : Nat \ {0}, zone : Zones, next : Identities]
    /\ conn \in [Clients -> [stage : {"none", "handshake", "session"},
                             id : Identities, zone : Zones]]
    /\ owner \in [phase : {"idle", "listed", "set", "draining", "drained", "verified"},
                  gen : Nat, preSet : SUBSET Identities, fence : Identities,
                  early : SUBSET Clients]
    /\ owner.early \subseteq Connected
    /\ receipt \in Nat
    /\ scan \in Nat
    /\ proved \in BOOLEAN
    /\ abandoned \in BOOLEAN
    /\ faults \in Nat

\* Nobody writes, or is about to write, times in another zone.
NoStaleZone == \A c \in Connected : conn[c].zone = "named"

\* "A receipt proves that every client session which existed before the named
\* global zone was installed has left this exact generation": as long as that
\* installation is in force, and however connections race with it.
ReceiptProves ==
    (AlreadyActive /\ proved) => NoStaleZone

\* The same promise, where it is used: discovery is admitted only among sessions
\* of the configured zone.
AdmittedAmongDrained ==
    [][(ObserveZones /\ Admitted) => \A c \in Sessions : conn[c].zone = "named"]_vars

\* A client that connected after the fence is never killed by the drain.
PostSetClientsPreserved ==
    [][\A c \in Clients :
          (DrainRound /\ c \in Connected \ owner.early) => conn'[c] = conn[c]]_vars

\* Whatever stops an activation part of the way, the next one completes, to the
\* drain and the receipt: in the end the zone is in force and proved.  The code does
\* not get there when the owner that stops had set the zone again on a server that
\* has the receipt of an earlier installation: every later call takes that receipt
\* for its own.  What this leads to is in activation_reset.cfg; here it is the one
\* exemption, and it ends with the next receipt or the next server.
EventuallyActive ==
    <>[]~abandoned =>
        <>[](server.zone = "named" /\ receipt = server.gen /\ proved)

=============================================================================
