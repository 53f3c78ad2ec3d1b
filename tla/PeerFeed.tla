------------------------------ MODULE PeerFeed ------------------------------
(***************************************************************************)
(* The contract between two servers of a DERP mesh: what a server sends to *)
(* one that watches which keys it has.  When the feed opens, every key     *)
(* there is, once and in any order; from then on every change, in order    *)
(* and none twice; and nothing of it after the feed is shut.  Whoever      *)
(* watches may also ask after a key, by forwarding a packet for it.  When  *)
(* the key is not there the answer is a notice that reads like the change  *)
(* that it left; it comes at any time, before what is under way or after   *)
(* the key has come back.                                                  *)
(*                                                                         *)
(* DerpClients keeps this contract towards each of its watchers, with a    *)
(* queue, a channel that drops requests and a sender that takes batches.   *)
(* DerpMesh relies on it for each of its peers.                            *)
(***************************************************************************)
EXTENDS Naturals, Sequences

CONSTANTS Keys,        \* the keys of the clients
          Present(_),  \* the message that a key is there
          Gone(_)      \* the message that it no longer is

VARIABLES keys,  \* the keys that are connected to the server
          open,  \* whether somebody watches
          wire,  \* what is under way to whoever watches
          late   \* the keys a notice may still come about

vars == <<keys, open, wire, late>>

Init == keys \in SUBSET Keys /\ open = FALSE /\ wire = << >> /\ late = {}

Open ==
    /\ ~open /\ open' = TRUE
    /\ {wire'[i] : i \in 1..Len(wire')} = {Present(k) : k \in keys}
    /\ \A i, j \in 1..Len(wire') : wire'[i] = wire'[j] => i = j
    /\ UNCHANGED <<keys, late>>

Say(m) == wire' = IF open THEN Append(wire, m) ELSE wire

(* A connection of a key, be it the first one or not.                      *)
Come(k) == keys' = keys \union {k} /\ Say(Present(k)) /\ UNCHANGED <<open, late>>

(* The last connection of a key ends.                                      *)
Go(k) ==
    k \in keys /\ keys' = keys \ {k} /\ Say(Gone(k)) /\ UNCHANGED <<open, late>>

Deliver ==
    open /\ wire # << >> /\ wire' = Tail(wire) /\ UNCHANGED <<keys, open, late>>

(* A packet for a key that is not there arrives; and one of the notices    *)
(* that answer such packets is delivered, perhaps not the last.            *)
Ask(k) == k \notin keys /\ late' = late \union {k} /\ UNCHANGED <<keys, open, wire>>

Notice(k) ==
    k \in late /\ late' \in {late, late \ {k}} /\ UNCHANGED <<keys, open, wire>>

(* The connection that watches ends, which may be the last one of its key. *)
Shut ==
    /\ open /\ open' = FALSE /\ wire' = << >> /\ late' = {}
    /\ \E k \in Keys : keys' \in {keys, keys \ {k}}

Next == \/ Open \/ Deliver \/ Shut
        \/ \E k \in Keys : Come(k) \/ Go(k) \/ Ask(k) \/ Notice(k)

Spec == Init /\ [][Next]_vars

=============================================================================
