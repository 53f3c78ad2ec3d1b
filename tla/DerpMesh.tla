------------------------------- MODULE DerpMesh -------------------------------
(***************************************************************************)
(* The forwarders of a DERP server in a mesh: for every key the map        *)
(* clientsMesh of derp/derpserver/derpserver.go, and for every mesh peer   *)
(* the loop of derp/derphttp/mesh_client.go that follows which keys the    *)
(* peer has and, by cmd/derper/mesh.go, adds and removes the peer as a     *)
(* forwarder.  The connection to a peer may break and come back at any     *)
(* step, and it may be another goroutine of the client, one that forwards  *)
(* a packet, that brings it back.                                          *)
(*                                                                         *)
(* A peer runs DerpClients: it tells its keys when the connection starts,  *)
(* this server's own one among them, and then every change.  It also       *)
(* answers a forwarded packet for a key it does not have with a notice,    *)
(* which the loop takes for the change that the key left and which may     *)
(* come late.  noticed is a history variable.  Of the local clients only   *)
(* the first of a key and the last one matter here.                        *)
(***************************************************************************)
EXTENDS Integers, Sequences, SequencesExt, FiniteSets, FiniteSetsExt

CONSTANTS
    Peers,     \* the mesh peers; each has one client, which is the forwarder
    Keys,      \* the keys that may connect to this server and to the peers
    Self,      \* the key of this server, as its peers know it
    None,      \* no message
    IdxMod,    \* 2^8: connection numbers of a multiForwarder are uint8
    MaxWire,   \* bound on the messages under way from a peer
    MaxBreaks, \* bound on the times a connection breaks
    MaxChanges \* bound on the connections that come and go at the peers and
               \* on the packets for a key they do not have

ASSUME DerpMeshAssumption ==
    /\ Self \notin Keys /\ IsFiniteSet(Peers) /\ IsFiniteSet(Keys)
    /\ IdxMod \in Nat \ {0, 1} /\ MaxWire \in Nat \ {0} /\ MaxBreaks \in Nat
    /\ MaxChanges \in Nat

ASSUME NoMessageAssumption ==
    None \notin [key : Keys \union {Self}, present : BOOLEAN]

VARIABLES
    clientsMesh,  \* an entry for every key: see Absent, Nil, One and Multi
    local,        \* the keys of s.clients
    panicked,     \* whether the server has met one of its panics
    present,      \* the map `present' of the loop of a peer
    link,         \* its connection: "up", "broken", "down" (error seen), or
                  \* "renewed": up, while the loop still reads the old one
    fresh,        \* whether the connection is newer than lastConnGen
    wire,         \* the messages under way from the peer
    hand,         \* the message RecvDetail returned, or None
    clearing,     \* whether the loop is in clear()
    theirs,       \* the keys that are connected to the peer
    notices,      \* the keys the peer may still send a notice about
    noticed,      \* the keys of which the last received on it was a notice
    breaks, changes

server == <<clientsMesh, local, panicked>>
loop   == <<present, hand, clearing>>
remote == <<link, fresh, wire, theirs, notices, noticed, breaks, changes>>
vars   == <<server, loop, remote>>

AllKeys == Keys \union {Self}
Msgs == [key : AllKeys, present : BOOLEAN]

-----------------------------------------------------------------------------
(* clientsMesh.                                                            *)

Absent == [kind |-> "absent"]
Nil == [kind |-> "nil"]
One(p) == [kind |-> "one", fwd |-> p]
Multi(p, all) == [kind |-> "multi", fwd |-> p, all |-> all]

(* Mutant: the newest forwarder is the preferred one.                      *)
NewestPreferred(prev, p) ==
    Multi(p, [q \in {prev, p} |-> IF q = prev THEN 0 ELSE 1])

(* newMultiForwarder.                                                      *)
NewMultiForwarder(prev, p) ==
    Multi(prev, [q \in {prev, p} |-> IF q = prev THEN 0 ELSE 1])

(* multiForwarder.add.                                                     *)
MultiAdd(e, p) ==
    LET max == Max({e.all[q] : q \in DOMAIN e.all})
    IN  Multi(e.fwd, [q \in DOMAIN e.all \union {p} |->
                          IF q = p THEN (max + 1) % IdxMod ELSE e.all[q]])

(* AddPacketForwarder.                                                     *)
Added(e, p) ==
    CASE e.kind \in {"absent", "nil"} -> One(p)
      [] e.kind = "one" -> IF e.fwd = p THEN e ELSE NewMultiForwarder(e.fwd, p)
      [] e.kind = "multi" -> IF p \in DOMAIN e.all THEN e ELSE MultiAdd(e, p)

(* Mutant: the preferred forwarder is not chosen again.                    *)
StalePreferred(e, p) ==
    LET all == [q \in DOMAIN e.all \ {p} |-> e.all[q]]
    IN  IF Cardinality(DOMAIN all) = 1 THEN One(CHOOSE q \in DOMAIN all : TRUE)
                                       ELSE Multi(e.fwd, all)

(* multiForwarder.deleteLocked, and the entry it leaves.                   *)
MultiDelete(e, p) ==
    LET all == [q \in DOMAIN e.all \ {p} |-> e.all[q]]
        lowest == CHOOSE q \in DOMAIN all : \A r \in DOMAIN all : all[q] <= all[r]
        fwd == IF p = e.fwd /\ DOMAIN all # {} THEN lowest ELSE e.fwd
    IN  IF Cardinality(DOMAIN all) = 1 THEN One(lowest) ELSE Multi(fwd, all)

(* Mutant: a key with a local client is deleted like any other.            *)
DeleteAlways(e, p, isLocal) ==
    CASE e.kind = "multi" -> MultiDelete(e, p)
      [] e.kind = "one" /\ e.fwd = p -> Absent
      [] OTHER -> e

(* RemovePacketForwarder.                                                  *)
Removed(e, p, isLocal) ==
    CASE e.kind = "multi" -> MultiDelete(e, p)
      [] e.kind = "one" /\ e.fwd = p -> IF isLocal THEN Nil ELSE Absent
      [] OTHER -> e

AddPacketForwarder(k, p) ==
    /\ clientsMesh' = [clientsMesh EXCEPT ![k] = Added(@, p)]
    /\ UNCHANGED <<local, panicked>>

RemovePacketForwarder(k, p) ==
    LET e == clientsMesh[k]
    IN  /\ clientsMesh' = [clientsMesh EXCEPT ![k] = Removed(@, p, k \in local)]
        /\ panicked' = (panicked \/ (e.kind = "multi" /\ Cardinality(DOMAIN e.all) < 2))
        /\ UNCHANGED local

(* registerClient, for the first connection of a key.                      *)
RegisterClient(k) ==
    /\ k \notin local
    /\ local' = local \union {k}
    /\ clientsMesh' = [clientsMesh EXCEPT ![k] = IF @ = Absent THEN Nil ELSE @]
    /\ UNCHANGED <<panicked, loop, remote>>

(* unregisterClient, for the last one.                                     *)
UnregisterClient(k) ==
    /\ k \in local
    /\ local' = local \ {k}
    /\ clientsMesh' = [clientsMesh EXCEPT ![k] = IF @ = Nil THEN Absent ELSE @]
    /\ UNCHANGED <<panicked, loop, remote>>

-----------------------------------------------------------------------------
(* RunWatchConnectionLoop.                                                 *)

Linked(p) == link[p] \in {"up", "renewed"}

(* Mutant: a new connection is taken for the old one.                      *)
NoGeneration(p) ==
    /\ hand[p] = None /\ ~clearing[p] /\ link[p] = "up" /\ wire[p] # << >>
    /\ hand' = [hand EXCEPT ![p] = Head(wire[p])]
    /\ wire' = [wire EXCEPT ![p] = Tail(@)]
    /\ noticed' = [noticed EXCEPT ![p] = @ \ {Head(wire[p]).key}]
    /\ fresh' = [fresh EXCEPT ![p] = FALSE]
    /\ UNCHANGED <<server, present, clearing, link, theirs, notices, breaks, changes>>

(* RecvDetail returns a message; if its connGen is new, clear() is called. *)
Recv(p) ==
    /\ hand[p] = None /\ ~clearing[p] /\ link[p] = "up" /\ wire[p] # << >>
    /\ hand' = [hand EXCEPT ![p] = Head(wire[p])]
    /\ wire' = [wire EXCEPT ![p] = Tail(@)]
    /\ noticed' = [noticed EXCEPT ![p] = @ \ {Head(wire[p]).key}]
    /\ clearing' = [clearing EXCEPT ![p] = fresh[p]]
    /\ fresh' = [fresh EXCEPT ![p] = FALSE]
    /\ UNCHANGED <<server, present, link, theirs, notices, breaks, changes>>

(* The same, of a notice, which is a PeerGoneMessage too.                  *)
RecvNotice(p, k) ==
    /\ hand[p] = None /\ ~clearing[p] /\ link[p] = "up" /\ k \in notices[p]
    /\ hand' = [hand EXCEPT ![p] = [key |-> k, present |-> FALSE]]
    /\ \E rest \in {notices[p], notices[p] \ {k}} :
          notices' = [notices EXCEPT ![p] = rest]
    /\ noticed' = [noticed EXCEPT ![p] = @ \union {k}]
    /\ clearing' = [clearing EXCEPT ![p] = fresh[p]]
    /\ fresh' = [fresh EXCEPT ![p] = FALSE]
    /\ UNCHANGED <<server, present, link, wire, theirs, breaks, changes>>

(* RecvDetail returns the error of the connection it reads; closing that   *)
(* for a reconnect leaves a newer one alone.                               *)
RecvError(p) ==
    /\ hand[p] = None /\ ~clearing[p] /\ link[p] \in {"broken", "renewed"}
    /\ clearing' = [clearing EXCEPT ![p] = TRUE]
    /\ link' = [link EXCEPT ![p] = IF @ = "broken" THEN "down" ELSE "up"]
    /\ UNCHANGED <<server, present, hand, fresh, wire, theirs, notices, noticed,
                   breaks, changes>>

(* clear(), one key after the other.                                       *)
ClearOne(p) ==
    /\ clearing[p]
    /\ \E k \in present[p] :
        /\ RemovePacketForwarder(k, p)
        /\ present' = [present EXCEPT ![p] = @ \ {k}]
    /\ UNCHANGED <<hand, clearing, remote>>

ClearDone(p) ==
    /\ clearing[p] /\ present[p] = {}
    /\ clearing' = [clearing EXCEPT ![p] = FALSE]
    /\ UNCHANGED <<server, present, hand, remote>>

(* add(m) or remove(m), and updatePeer.                                    *)
Handle(p) ==
    /\ hand[p] # None /\ ~clearing[p]
    /\ LET m == hand[p]
       IN  IF m.present
             THEN /\ AddPacketForwarder(m.key, p)
                  /\ present' = [present EXCEPT ![p] = @ \union {m.key}]
             ELSE /\ RemovePacketForwarder(m.key, p)
                  /\ present' = [present EXCEPT ![p] = @ \ {m.key}]
    /\ hand' = [hand EXCEPT ![p] = None]
    /\ UNCHANGED <<clearing, remote>>

-----------------------------------------------------------------------------
(* The connection and the peer.                                            *)

Break(p) ==
    /\ Linked(p) /\ breaks < MaxBreaks
    /\ breaks' = breaks + 1
    /\ link' = [link EXCEPT ![p] = "broken"]
    /\ wire' = [wire EXCEPT ![p] = << >>]
    /\ notices' = [notices EXCEPT ![p] = {}]
    /\ noticed' = [noticed EXCEPT ![p] = {}]
    /\ UNCHANGED <<server, loop, fresh, theirs, changes>>

(* connect, by the loop, or by another goroutine, which may do it while    *)
(* the loop is in Recv of the broken connection.                           *)
Connect(p) ==
    /\ ~Linked(p)
    /\ \E now \in IF link[p] = "broken" /\ hand[p] = None /\ ~clearing[p]
                    THEN {"up", "renewed"} ELSE {"up"} :
          link' = [link EXCEPT ![p] = now]
    /\ fresh' = [fresh EXCEPT ![p] = TRUE]
    /\ wire' = [wire EXCEPT ![p] =
           SetToSeq({[key |-> k, present |-> TRUE] : k \in theirs[p] \union {Self}})]
    /\ UNCHANGED <<server, loop, theirs, notices, noticed, breaks, changes>>

(* A connection of a key to the peer, a further one of the same key too,   *)
(* and the end of the last one.                                            *)
Told(p, k, isPresent) ==
    /\ changes < MaxChanges /\ (Linked(p) => Len(wire[p]) < MaxWire)
    /\ changes' = changes + 1
    /\ wire' = IF Linked(p)
                 THEN [wire EXCEPT ![p] = Append(@, [key |-> k, present |-> isPresent])]
                 ELSE wire
    /\ UNCHANGED <<server, loop, link, fresh, notices, noticed, breaks>>

PeerPresent(p, k) ==
    /\ theirs' = [theirs EXCEPT ![p] = @ \union {k}]
    /\ Told(p, k, TRUE)

PeerGone(p, k) ==
    /\ k \in theirs[p]
    /\ theirs' = [theirs EXCEPT ![p] = @ \ {k}]
    /\ Told(p, k, FALSE)

(* The peer reads a packet that was forwarded for a key it does not have,  *)
(* and a notice is to come.  The packet may be of a time when the loop had *)
(* the key, so it can be any key.                                          *)
PeerNotHere(p, k) ==
    /\ Linked(p) /\ k \notin theirs[p] /\ changes < MaxChanges
    /\ changes' = changes + 1
    /\ notices' = [notices EXCEPT ![p] = @ \union {k}]
    /\ UNCHANGED <<server, loop, link, fresh, wire, theirs, noticed, breaks>>

-----------------------------------------------------------------------------
Init ==
    /\ clientsMesh = [k \in AllKeys |-> Absent]
    /\ local = {} /\ panicked = FALSE
    /\ present = [p \in Peers |-> {}]
    /\ link = [p \in Peers |-> "down"]
    /\ fresh = [p \in Peers |-> FALSE]
    /\ wire = [p \in Peers |-> << >>]
    /\ hand = [p \in Peers |-> None]
    /\ clearing = [p \in Peers |-> FALSE]
    /\ theirs = [p \in Peers |-> {}]
    /\ notices = [p \in Peers |-> {}] /\ noticed = [p \in Peers |-> {}]
    /\ breaks = 0 /\ changes = 0

WatchLoop(p) == Recv(p) \/ RecvError(p) \/ ClearOne(p) \/ ClearDone(p) \/ Handle(p)

Next ==
    \/ \E k \in Keys : RegisterClient(k) \/ UnregisterClient(k)
    \/ \E p \in Peers :
        \/ WatchLoop(p) \/ Break(p) \/ Connect(p)
        \/ \E k \in Keys : \/ RecvNotice(p, k)
                           \/ PeerPresent(p, k) \/ PeerGone(p, k) \/ PeerNotHere(p, k)

Spec == Init /\ [][Next]_vars

(* The loop runs, and it connects again after the retry interval.          *)
FairSpec == Spec /\ \A p \in Peers : WF_vars(WatchLoop(p)) /\ WF_vars(Connect(p))

-----------------------------------------------------------------------------
Forwarders(e) ==
    CASE e.kind = "one" -> {e.fwd}
      [] e.kind = "multi" -> DOMAIN e.all
      [] OTHER -> {}

TypeOK ==
    /\ \A k \in AllKeys :
        LET e == clientsMesh[k]
        IN  \/ e \in {Absent, Nil}
            \/ e.kind = "one" /\ e.fwd \in Peers
            \/ /\ e.kind = "multi" /\ e.fwd \in DOMAIN e.all
               /\ DOMAIN e.all \subseteq Peers
               /\ \A p \in DOMAIN e.all : e.all[p] \in 0..(IdxMod - 1)
    /\ local \subseteq Keys /\ panicked \in BOOLEAN
    /\ present \in [Peers -> SUBSET AllKeys]
    /\ link \in [Peers -> {"up", "broken", "down", "renewed"}]
    /\ fresh \in [Peers -> BOOLEAN] /\ clearing \in [Peers -> BOOLEAN]
    /\ wire \in [Peers -> Seq(Msgs)]
    /\ hand \in [Peers -> Msgs \union {None}]
    /\ {theirs, notices} \subseteq [Peers -> SUBSET Keys]
    /\ noticed \in [Peers -> SUBSET AllKeys]
    /\ breaks \in 0..MaxBreaks /\ changes \in 0..MaxChanges

(* The map and the loops never disagree: the forwarders of a key are the   *)
(* peers whose loop has it, several exactly in a multiForwarder (whose     *)
(* panic is never met), and without any the key is in the map, as nil,     *)
(* exactly if it has a local client.                                       *)
MeshMatches ==
    /\ ~panicked
    /\ \A k \in AllKeys :
        LET e == clientsMesh[k]
            has == {p \in Peers : k \in present[p]}
        IN  /\ Forwarders(e) = has
            /\ e.kind = "multi" <=> Cardinality(has) > 1
            /\ has = {} => e = (IF k \in local THEN Nil ELSE Absent)

(* multiForwarder: "used to make sure we forward packets consistently to   *)
(* the same node": the forwarder of a key changes only when it is removed. *)
StickyForwarder ==
    [][\A k \in AllKeys :
         Forwarders(clientsMesh[k]) # {} /\ Forwarders(clientsMesh'[k]) # {}
           /\ clientsMesh'[k].fwd # clientsMesh[k].fwd
             => clientsMesh[k].fwd \notin Forwarders(clientsMesh'[k])]_vars

(* Whatever broke before: once a connection stays and the peer keeps a     *)
(* key, the peer is a forwarder of it, unless a late notice was the last   *)
(* the loop received of the key; and once the peer keeps it away, it is    *)
(* none, also if another goroutine connected before the loop saw the       *)
(* error.                                                                  *)
MeshConverges ==
    \A p \in Peers, k \in Keys :
        /\ <>[](link[p] = "up" /\ k \in theirs[p] \ noticed[p])
             => <>[](p \in Forwarders(clientsMesh[k]))
        /\ <>[](link[p] = "up" /\ k \notin theirs[p])
             => <>[](p \notin Forwarders(clientsMesh[k]))

(* A key is present for one who knew keys and then hears the messages s:   *)
(* the last of them about it says so, or (i = 0) it was known and none is  *)
(* about it.                                                               *)
Heard(keys, m) == IF m.present THEN keys \union {m.key} ELSE keys \ {m.key}
Knows(keys, s, k) ==
    \E i \in 0..Len(s) :
        /\ IF i = 0 THEN k \in keys ELSE s[i] = [key |-> k, present |-> TRUE]
        /\ \A j \in (i + 1)..Len(s) : s[j].key # k
Unsaid(s, k) == \A i \in 1..Len(s) : s[i].key # k

(* What the loop will have when it comes to the messages on the wire: they *)
(* follow a clear() if the connection is new or clear() is under way, and  *)
(* the message in hand.                                                    *)
Learned(p) ==
    LET keys == IF clearing[p] THEN {} ELSE present[p]
    IN  CASE fresh[p] -> {}
          [] ~fresh[p] /\ hand[p] = None -> keys
          [] OTHER -> Heard(keys, hand[p])

(* What MeshConverges rests on.  Over any connection, however it replaced  *)
(* the one before, what is under way makes the loop's keys the peer's, but *)
(* for those of which a notice was the last received and nothing follows.  *)
(* So with nothing left to hear, the peer is a forwarder of no key but its *)
(* own ones, and of all of these that no late notice took from the loop.   *)
LoopInSync ==
    \A p \in Peers : Linked(p) =>
        \A k \in Keys :
            /\ Knows(Learned(p), wire[p], k) => k \in theirs[p]
            /\ k \in theirs[p] =>
                \/ Knows(Learned(p), wire[p], k)
                \/ k \in noticed[p] /\ Unsaid(wire[p], k)

SettledMesh ==
    \A p \in Peers :
        link[p] = "up" /\ wire[p] = << >> /\ hand[p] = None /\ ~clearing[p] =>
            \A k \in Keys :
                /\ p \in Forwarders(clientsMesh[k]) => k \in theirs[p]
                /\ k \in theirs[p] \ noticed[p] => p \in Forwarders(clientsMesh[k])

(* PeerFeed: all that this module assumes of a peer is the feed that       *)
(* DerpClients provides; the peer has this server's own key, too.          *)
Present(k) == [key |-> k, present |-> TRUE]
Gone(k)    == [key |-> k, present |-> FALSE]
Feed(p) == INSTANCE PeerFeed WITH
               Keys <- AllKeys,
               keys <- theirs[p] \union {Self},
               open <- Linked(p),
               wire <- wire[p],
               late <- notices[p]

=============================================================================
