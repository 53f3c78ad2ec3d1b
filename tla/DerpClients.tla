----------------------------- MODULE DerpClients -----------------------------
(***************************************************************************)
(* The connections of one DERP server, derp/derpserver/derpserver.go: the  *)
(* set of connections of every key with the one that gets its packets, the *)
(* duplicates, the gauges, and the mesh watchers that are told which keys  *)
(* are connected.  Whatever holds Server.mu is one step.  The activity of  *)
(* a connection is noted in two steps, since its first check is made       *)
(* without the lock.                                                       *)
(*                                                                         *)
(* Besides the feed of changes a watcher gets notices that a key is not    *)
(* here, in answer to packets it forwards.  Each is written by sendLoop    *)
(* whenever a goroutine of its own gets to hand it over, which may be      *)
(* after the key has connected.  noticed is a history variable.            *)
(*                                                                         *)
(* dupPolicy is lastWriterIsActive, the only one a server outside the      *)
(* tests has, so no connection is ever disabled.                           *)
(***************************************************************************)
EXTENDS Integers, Sequences, SequencesExt, FiniteSets

CONSTANTS
    Conns,       \* the connections (sclient) there may be at the same time
    Keys,        \* the public keys of the clients
    KeyOf,       \* the key of a connection
    CanMesh,     \* the connections with the mesh key
    None,        \* a nil *sclient
    MaxHistory,  \* bound on the length of a sendHistory
    MaxQueue     \* bound on the length of a peerStateChange

ASSUME DerpClientsAssumption ==
    /\ KeyOf \in [Conns -> Keys] /\ CanMesh \subseteq Conns
    /\ None \notin Conns /\ IsFiniteSet(Conns) /\ IsFiniteSet(Keys)
    /\ MaxHistory \in Nat \ {0} /\ MaxQueue \in Nat \ {0}

VARIABLES
    life,      \* a connection: "off", "on" (registered), "closing"
    active,    \* activeClient of a key's clientSet
    dup,       \* its dupClientSet, or NoDup
    isDup,     \* the connections with isDup set
    noting,    \* those that noteClientActivity found to be duplicates
    cur,       \* the gauges curClients, dupClientConns and dupClientKeys
    dupConns, dupKeys,
    watchers,  \* s.watchers
    changes,   \* peerStateChange of a watcher
    request,   \* whether a goroutine is about to call requestMeshUpdate
    token,     \* whether meshUpdate, a channel of one place, is full
    sender,    \* sendLoop: "select", "busy" (other frames), "mesh"
    batch,     \* the changes sendMeshUpdates is writing
    notices,   \* the keys a goroutine waits to write a notice about
    told,      \* the keys that are present by what the watcher received
    noticed    \* the keys of which the last it received was a notice

locals  == <<life, active, dup, isDup, noting, cur, dupConns, dupKeys>>
outbox  == <<changes, request, token, sender, batch, notices, told, noticed>>
vars    == <<locals, watchers, outbox>>

NoDup == [set |-> {}, last |-> None, history |-> << >>]

(* The keys of s.clients: a clientSet that is empty has been deleted.      *)
clients == {k \in Keys : active[k] # None \/ dup[k] # NoDup}

Present(k) == [peer |-> k, present |-> TRUE]
Gone(k)    == [peer |-> k, present |-> FALSE]

-----------------------------------------------------------------------------
(* What a watcher is told.                                                 *)

(* broadcastPeerStateChangeLocked.  Its goroutines may be many; one that   *)
(* has not run yet stands for all, as each leaves the same token.          *)
Queued(m) ==
    [w \in Conns |-> IF w \in watchers THEN Append(changes[w], m) ELSE changes[w]]

Requested == [w \in Conns |-> w \in watchers \/ request[w]]

HasRoom(ws) == \A w \in ws : Len(changes[w]) < MaxQueue

(* Mutant: a new watcher is told of the changes to come only.              *)
NoSnapshot(c) ==
    /\ c \in CanMesh \ watchers /\ life[c] = "on"
    /\ watchers' = watchers \union {c}
    /\ request' = [request EXCEPT ![c] = TRUE]
    /\ UNCHANGED <<locals, changes, token, sender, batch, notices, told, noticed>>

(* addWatcher: first the keys there are, then all changes.  A mesh client  *)
(* asks for it once, when it has connected.                                *)
AddWatcher(c) ==
    /\ c \in CanMesh \ watchers /\ life[c] = "on"
    /\ LET there == {k \in clients : active[k] # None}
       IN  changes' = [changes EXCEPT ![c] =
                           @ \o SetToSeq({Present(k) : k \in there})]
    /\ watchers' = watchers \union {c}
    /\ request' = [request EXCEPT ![c] = TRUE]
    /\ UNCHANGED <<locals, token, sender, batch, notices, told, noticed>>

(* Mutant: a channel without a buffer.                                     *)
Unbuffered(c) ==
    /\ request[c]
    /\ request' = [request EXCEPT ![c] = FALSE]
    /\ token' = [token EXCEPT ![c] = @ \/ (life[c] = "on" /\ sender[c] = "select")]
    /\ UNCHANGED <<locals, watchers, changes, sender, batch, notices, told, noticed>>

(* requestMeshUpdate, in a goroutine of its own.                           *)
RequestMeshUpdate(c) ==
    /\ request[c]
    /\ request' = [request EXCEPT ![c] = FALSE]
    /\ token' = [token EXCEPT ![c] = TRUE]
    /\ UNCHANGED <<locals, watchers, changes, sender, batch, notices, told, noticed>>

(* sendLoop takes another frame to write, or has written it.               *)
WriteOther(c) ==
    /\ life[c] = "on" /\ sender[c] \in {"select", "busy"}
    /\ sender' = [sender EXCEPT ![c] = IF @ = "busy" THEN "select" ELSE "busy"]
    /\ UNCHANGED <<locals, watchers, changes, request, token, batch, notices,
                   told, noticed>>

(* sendLoop takes the token and calls sendMeshUpdates.                     *)
TakeToken(c) ==
    /\ life[c] = "on" /\ sender[c] = "select" /\ token[c]
    /\ token' = [token EXCEPT ![c] = FALSE]
    /\ sender' = [sender EXCEPT ![c] = "mesh"]
    /\ UNCHANGED <<locals, watchers, changes, request, batch, notices, told, noticed>>

(* takeAll, at the head of the loop of sendMeshUpdates.                    *)
TakeAll(c) ==
    /\ life[c] = "on" /\ sender[c] = "mesh" /\ batch[c] = << >>
    /\ batch' = [batch EXCEPT ![c] = changes[c]]
    /\ changes' = [changes EXCEPT ![c] = << >>]
    /\ sender' = [sender EXCEPT ![c] = IF changes[c] = << >> THEN "select" ELSE @]
    /\ UNCHANGED <<locals, watchers, request, token, notices, told, noticed>>

Heard(keys, m) == IF m.present THEN keys \union {m.peer} ELSE keys \ {m.peer}

(* sendPeerPresent or sendPeerGone.                                        *)
WriteChange(c) ==
    /\ life[c] = "on" /\ batch[c] # << >>
    /\ told' = [told EXCEPT ![c] = Heard(@, Head(batch[c]))]
    /\ noticed' = [noticed EXCEPT ![c] = @ \ {Head(batch[c]).peer}]
    /\ batch' = [batch EXCEPT ![c] = Tail(@)]
    /\ UNCHANGED <<locals, watchers, changes, request, token, sender, notices>>

(* handleFrameForwardPacket of a packet for a key that has no connection,  *)
(* and requestPeerGoneWriteLimited: a goroutine is to ask for a notice;    *)
(* one stands for all that ask for the same.  A mesh client asks to watch  *)
(* before it forwards, and may know the key by an earlier connection, so   *)
(* it can be any key.                                                      *)
ForwardNotHere(c, k) ==
    /\ c \in watchers /\ life[c] = "on" /\ k \notin clients
    /\ notices' = [notices EXCEPT ![c] = @ \union {k}]
    /\ UNCHANGED <<locals, watchers, changes, request, token, sender, batch,
                   told, noticed>>

(* sendLoop takes the request from peerGone and writes the frame.  The     *)
(* watcher reads it like that of a key that left.                          *)
WriteNotice(c, k) ==
    /\ life[c] = "on" /\ sender[c] = "select" /\ k \in notices[c]
    /\ \E rest \in {notices[c], notices[c] \ {k}} :
          notices' = [notices EXCEPT ![c] = rest]
    /\ told' = [told EXCEPT ![c] = Heard(@, Gone(k))]
    /\ noticed' = [noticed EXCEPT ![c] = @ \union {k}]
    /\ sender' = [sender EXCEPT ![c] = "busy"]
    /\ UNCHANGED <<locals, watchers, changes, request, token, batch>>

-----------------------------------------------------------------------------
(* Connections come and go.                                                *)

HistoryRoom(k) == Len(dup[k].history)
                      + Cardinality({c \in noting : KeyOf[c] = k}) < MaxHistory

(* registerClient.                                                         *)
RegisterClient(c) ==
    LET k == KeyOf[c]
        was == active[k]
        d == dup[k]
    IN  /\ life[c] = "off" /\ HasRoom(watchers) /\ HistoryRoom(k)
        /\ life' = [life EXCEPT ![c] = "on"]
        /\ isDup' = IF was = None THEN isDup ELSE isDup \union {was, c}
        /\ dup' = [dup EXCEPT ![k] =
               IF d # NoDup
                 THEN [set |-> d.set \union {c}, last |-> c,
                       history |-> Append(d.history, c)]
               ELSE IF was # None
                 THEN [set |-> {c, was}, last |-> c, history |-> <<was>>]
               ELSE NoDup]
        /\ dupConns' = dupConns + (IF d # NoDup THEN 1
                                   ELSE IF was # None THEN 2 ELSE 0)
        /\ dupKeys' = dupKeys + (IF d = NoDup /\ was # None THEN 1 ELSE 0)
        /\ active' = [active EXCEPT ![k] = c]
        /\ cur' = cur + 1
        /\ changes' = Queued(Present(k)) /\ request' = Requested
        /\ UNCHANGED <<noting, watchers, token, sender, batch, notices, told, noticed>>

(* noteClientActivity: the fast path, and what it does under the lock.     *)
NoteFast(c) ==
    /\ life[c] = "on" /\ c \in isDup /\ c \notin noting
    /\ HistoryRoom(KeyOf[c])
    /\ noting' = noting \union {c}
    /\ UNCHANGED <<life, active, dup, isDup, cur, dupConns, dupKeys,
                   watchers, outbox>>

NoteActivity(c) ==
    LET k == KeyOf[c]
        d == dup[k]
        spoke == IF d.history # << >> /\ Last(d.history) = c
                   THEN d.history ELSE Append(d.history, c)
    IN  /\ c \in noting
        /\ noting' = noting \ {c}
        /\ IF d = NoDup
             THEN UNCHANGED <<active, dup>>
             ELSE /\ active' = [active EXCEPT ![k] = c]
                  /\ dup' = [dup EXCEPT ![k].last = c, ![k].history = spoke]
        /\ UNCHANGED <<life, isDup, cur, dupConns, dupKeys, watchers, outbox>>

(* The reader or the sender fails, or another client asks for it with a    *)
(* ClosePeer frame: sendLoop ends, and unregisterClient is to follow.      *)
Close(c) ==
    /\ life[c] = "on" /\ c \notin noting
    /\ life' = [life EXCEPT ![c] = "closing"]
    /\ UNCHANGED <<active, dup, isDup, noting, cur, dupConns, dupKeys,
                   watchers, outbox>>

(* The loop of removeClient over sendHistory, with trim as it grows.       *)
Trimmed(h, set) ==
    LET trim[i \in 0..Len(h)] ==
            IF i = 0 THEN << >>
            ELSE IF h[i] \in set /\ (trim[i - 1] = << >> \/ Last(trim[i - 1]) # h[i])
            THEN Append(trim[i - 1], h[i])
            ELSE trim[i - 1]
    IN  trim[Len(h)]

(* Mutant: nobody takes the place of the last one.                         *)
NoSuccessor(d, c) ==
    [set |-> d.set \ {c}, history |-> Trimmed(d.history, d.set \ {c}),
     last |-> IF d.last = c THEN None ELSE d.last]

(* Mutant: the history keeps the one that left.                            *)
HistoryKept(d, c) ==
    [set |-> d.set \ {c}, history |-> d.history,
     last |-> IF d.last # c THEN d.last ELSE Last(d.history)]

(* dupClientSet.removeClient: its place is taken by the last that spoke.   *)
RemoveClient(d, c) ==
    LET set == d.set \ {c}
        history == Trimmed(d.history, set)
    IN  [set |-> set, history |-> history,
         last |-> IF d.last # c THEN d.last
                  ELSE IF history # << >> THEN Last(history) ELSE None]

(* unregisterClient, when the connection is the only one of its key, ...   *)
UnregisterSingle(c) ==
    LET k == KeyOf[c]
    IN  /\ dup[k] = NoDup
        /\ active' = [active EXCEPT ![k] = None]
        /\ changes' = [Queued(Gone(k)) EXCEPT ![c] = << >>]
        /\ request' = [Requested EXCEPT ![c] = FALSE]
        /\ UNCHANGED <<dup, isDup, dupConns, dupKeys>>

(* ... and when it is not: the one that remains is no duplicate any more.  *)
UnregisterDup(c) ==
    LET k == KeyOf[c]
        d == RemoveClient(dup[k], c)
        single == Cardinality(d.set) = 1
    IN  /\ dup[k] # NoDup
        /\ dup' = [dup EXCEPT ![k] = IF single THEN NoDup ELSE d]
        /\ active' = [active EXCEPT ![k] =
               IF single THEN CHOOSE x \in d.set : TRUE ELSE d.last]
        /\ isDup' = isDup \ (IF single THEN dup[k].set ELSE {c})
        /\ dupConns' = dupConns - (IF single THEN 2 ELSE 1)
        /\ dupKeys' = dupKeys - (IF single THEN 1 ELSE 0)
        /\ changes' = [changes EXCEPT ![c] = << >>]
        /\ request' = [request EXCEPT ![c] = FALSE]

(* The sclient is gone: the name may be given to a new one.                *)
UnregisterClient(c) ==
    /\ life[c] = "closing" /\ HasRoom(watchers \ {c})
    /\ life' = [life EXCEPT ![c] = "off"]
    /\ UnregisterSingle(c) \/ UnregisterDup(c)
    /\ cur' = cur - 1
    /\ watchers' = watchers \ {c}
    /\ token' = [token EXCEPT ![c] = FALSE]
    /\ sender' = [sender EXCEPT ![c] = "select"]
    /\ batch' = [batch EXCEPT ![c] = << >>]
    /\ notices' = [notices EXCEPT ![c] = {}]
    /\ told' = [told EXCEPT ![c] = {}]
    /\ noticed' = [noticed EXCEPT ![c] = {}]
    /\ UNCHANGED noting

-----------------------------------------------------------------------------
Init ==
    /\ life = [c \in Conns |-> "off"]
    /\ active = [k \in Keys |-> None] /\ dup = [k \in Keys |-> NoDup]
    /\ isDup = {} /\ noting = {}
    /\ cur = 0 /\ dupConns = 0 /\ dupKeys = 0
    /\ watchers = {}
    /\ changes = [w \in Conns |-> << >>]
    /\ request = [w \in Conns |-> FALSE]
    /\ token = [w \in Conns |-> FALSE]
    /\ sender = [w \in Conns |-> "select"]
    /\ batch = [w \in Conns |-> << >>]
    /\ notices = [w \in Conns |-> {}]
    /\ told = [w \in Conns |-> {}]
    /\ noticed = [w \in Conns |-> {}]

SendLoop(c) == TakeToken(c) \/ TakeAll(c) \/ WriteChange(c)

Next ==
    \E c \in Conns :
        \/ RegisterClient(c) \/ Close(c) \/ UnregisterClient(c)
        \/ NoteFast(c) \/ NoteActivity(c)
        \/ AddWatcher(c) \/ RequestMeshUpdate(c)
        \/ SendLoop(c) \/ WriteOther(c)
        \/ \E k \in Keys : ForwardNotHere(c, k) \/ WriteNotice(c, k)

Spec == Init /\ [][Next]_vars

(* Goroutines are scheduled; every write of sendLoop ends, for it has a    *)
(* deadline; and a select of sendLoop that is always ready for the token   *)
(* takes it some day, though other frames are ready too.                   *)
FairSpec ==
    /\ Spec
    /\ \A c \in CanMesh :
        /\ WF_vars(RequestMeshUpdate(c))
        /\ SF_vars(TakeToken(c)) /\ WF_vars(TakeAll(c)) /\ WF_vars(WriteChange(c))
        /\ WF_vars(sender[c] = "busy" /\ WriteOther(c))
        /\ WF_vars(UnregisterClient(c))

-----------------------------------------------------------------------------
Connected(k) == {c \in Conns : KeyOf[c] = k /\ life[c] # "off"}
Shared == {k \in Keys : Cardinality(Connected(k)) > 1}

TypeOK ==
    /\ life \in [Conns -> {"off", "on", "closing"}]
    /\ active \in [Keys -> Conns \union {None}]
    /\ \A k \in Keys :
        /\ DOMAIN dup[k] = {"set", "last", "history"}
        /\ dup[k].set \subseteq Conns /\ dup[k].last \in Conns \union {None}
        /\ dup[k].history \in Seq(dup[k].set)
        /\ Len(dup[k].history) <= MaxHistory
    /\ isDup \subseteq Conns /\ noting \subseteq Conns
    /\ {cur, dupConns} \subseteq 0..Cardinality(Conns)
    /\ dupKeys \in 0..Cardinality(Keys)
    /\ watchers \subseteq CanMesh
    /\ changes \in [Conns -> Seq([peer : Keys, present : BOOLEAN])]
    /\ batch \in [Conns -> Seq([peer : Keys, present : BOOLEAN])]
    /\ request \in [Conns -> BOOLEAN] /\ token \in [Conns -> BOOLEAN]
    /\ sender \in [Conns -> {"select", "busy", "mesh"}]
    /\ {notices, told, noticed} \subseteq [Conns -> SUBSET Keys]

(* However connections of one key come, speak and go, a key with a         *)
(* connection always has one of them to get its packets, the dup set is    *)
(* there exactly when there are several and holds exactly these, and the   *)
(* gauges count them: unregisterClient and removeClient undo registerClient*)
(* from every state, and noteClientActivity never revives what is gone.    *)
(* cur counts connections: see ConsistencyCheck for what the server says   *)
(* of it.  That the connections of a cloned key get no frames and are      *)
(* disabled, as the comments of clientSet and dupClientSet have it, is so  *)
(* with the other dupPolicy only.                                          *)
SetsMatch ==
    /\ \A k \in Keys :
        LET cs == Connected(k)
        IN  /\ active[k] \in (IF cs = {} THEN {None} ELSE cs)
            /\ dup[k].set = (IF k \in Shared THEN cs ELSE {})
            /\ k \in Shared => dup[k].last = active[k]
            /\ cs \intersect isDup = dup[k].set
    /\ cur = Cardinality(UNION {Connected(k) : k \in Keys})
    /\ dupConns = Cardinality(UNION {Connected(k) : k \in Shared})
    /\ dupKeys = Cardinality(Shared)

(* A key is present for one who knew keys and then hears the changes of s: *)
(* the last of them about it says so, or it was known and none is about it.*)
Knows(keys, s, k) ==
    \/ \E i \in 1..Len(s) :
        s[i] = Present(k) /\ \A j \in (i + 1)..Len(s) : s[j].peer # k
    \/ k \in keys /\ \A i \in 1..Len(s) : s[i].peer # k

(* The comparison Server.ConsistencyCheck makes of curClients with the map *)
(* of the keys, which cmd/derper serves at /debug/check.  It fails as soon *)
(* as a key has two connections, which SetsMatch says cur counts.          *)
ConsistencyCheck == cur = Cardinality(clients)

Unsaid(s, k) == \A i \in 1..Len(s) : s[i].peer # k

(* What a watcher has been told, with what is queued for it and what is    *)
(* being written, never has a key that is not connected, and it has all    *)
(* that are but those a late notice made it forget: no key is missed       *)
(* between the snapshot of addWatcher and the first change, the changes    *)
(* come in the order in which they happened, and only a notice written     *)
(* after the last change of a key contradicts it.                          *)
WatcherInSync ==
    \A w \in watchers, k \in Keys :
        LET pending == batch[w] \o changes[w]
        IN  /\ Knows(told[w], pending, k) => Connected(k) # {}
            /\ Connected(k) # {} => \/ Knows(told[w], pending, k)
                                    \/ k \in noticed[w] /\ Unsaid(pending, k)

(* FrameWatchConns: "the client is initially flooded with FramePeerPresent *)
(* for all connected nodes, and then a stream of FramePeerPresent &        *)
(* FramePeerGone has peers connect and disconnect": with all of it         *)
(* received, the watcher knows the connected keys.  WriteNotice breaks it: *)
(* a late notice makes the watcher forget a key that is connected.         *)
WatcherKnows ==
    \A w \in watchers, k \in Keys :
        Connected(k) # {} => Knows(told[w], batch[w] \o changes[w], k)

(* A queued change is taken by sendLoop, although requestMeshUpdate never  *)
(* waits and its channel has room for one request.                         *)
UpdatesArrive ==
    \A w \in CanMesh : changes[w] # << >> ~> changes[w] = << >>

(* What UpdatesArrive rests on.  Queued changes never wait for nobody: a   *)
(* goroutine is about to ask for them, its request is in the channel, or   *)
(* sendMeshUpdates is at work and looks again before it returns.  So when  *)
(* none of the three is the case, the watcher knows the keys that are      *)
(* connected and no others, though a request that finds the channel full   *)
(* is dropped; all but those of which a notice was the last it received.   *)
Underway(w) == request[w] \/ token[w] \/ sender[w] = "mesh"
NoUpdateLost ==
    /\ \A w \in Conns : changes[w] # << >> => Underway(w)
    /\ \A w \in watchers : \/ Underway(w)
                           \/ \A k \in Keys :
                                /\ k \in told[w] => Connected(k) # {}
                                /\ Connected(k) # {} => k \in told[w] \union noticed[w]

(* PeerFeed: seen by a watcher, the queue, the batches and the requests    *)
(* that may be dropped are one feed, which opens with all keys there are   *)
(* and then tells every change in order, and the notices that overtake it. *)
Feed(w) == INSTANCE PeerFeed WITH
               keys <- {k \in Keys : Connected(k) # {}},
               open <- w \in watchers,
               wire <- batch[w] \o changes[w],
               late <- notices[w]

=============================================================================
