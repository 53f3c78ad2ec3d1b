---------------------------- MODULE DerpMeshProofs ----------------------------
(***************************************************************************)
(* Proofs about DerpMesh, for every finite set of peers and keys and every *)
(* bound: the forwarders of a key are exactly the peers whose watch loop   *)
(* has it, and the preferred one stays until it is removed.  All that is   *)
(* assumed of a peer is the contract PeerFeed; from it, the loop of a peer *)
(* comes to know exactly the keys of that peer, whichever goroutine broke  *)
(* or renewed the connection.                                              *)
(***************************************************************************)
EXTENDS DerpMesh, FiniteSetTheorems, TLAPS

-----------------------------------------------------------------------------
(* Facts about numbers, sets and sequences.                                *)

(* A set of natural numbers that is not empty has a least element.         *)
LEMMA NatMin ==
    ASSUME NEW T \in SUBSET Nat, T # {}
    PROVE  \E x \in T : \A y \in T : x <= y
<1>1. PICK x \in T : \A y \in T : ~(<<y, x>> \in OpToRel(<, Nat))
  BY WFMin, NatLessThanWellFounded
<1>2. \A y \in T : ~(y < x)
  BY <1>1 DEF OpToRel
<1> QED
  BY <1>2

(* A bounded one has a greatest element, which is what Max returns.        *)
LEMMA MaxNat ==
    ASSUME NEW T \in SUBSET Nat, T # {}, NEW n \in Nat, \A y \in T : y <= n
    PROVE  Max(T) \in T
<1> DEFINE D == {n - y : y \in T}
<1>0. \A y \in T : n - y \in Nat
  OBVIOUS
<1>1. D \in SUBSET Nat /\ D # {}
  BY <1>0
<1>2. PICK d \in D : \A c \in D : d <= c
  BY <1>1, NatMin
<1>3. PICK x \in T : d = n - x
  OBVIOUS
<1>4. \A y \in T : x >= y
  BY <1>2, <1>3
<1> QED
  BY <1>4 DEF Max

(* SetToSeq lists a finite set.                                            *)
LEMMA SetToSeqType ==
    ASSUME NEW S, IsFiniteSet(S)
    PROVE  SetToSeq(S) \in Seq(S)
<1>1. Cardinality(S) \in Nat /\ ExistsBijection(1..Cardinality(S), S)
  BY FS_CardinalityType
<1>2. \E f \in [1..Cardinality(S) -> S] : IsInjective(f)
  BY <1>1 DEF ExistsBijection, Bijection, Injection
<1>3. SetToSeq(S) \in [1..Cardinality(S) -> S]
  BY <1>2 DEF SetToSeq
<1> QED
  BY <1>1, <1>3

-----------------------------------------------------------------------------
(* An entry of clientsMesh.                                                *)

MultiOf(S) == {Multi(p, all) : p \in S, all \in [S -> 0..(IdxMod - 1)]}

IsOne(e)   == \E p \in Peers : e = One(p)
IsMulti(e) == \E S \in SUBSET Peers : Cardinality(S) > 1 /\ e \in MultiOf(S)

(* A multiForwarder has at least two forwarders and prefers one of them.   *)
EntryOK(e) == e = Absent \/ e = Nil \/ IsOne(e) \/ IsMulti(e)

(* An entry with one forwarder, taken apart.                               *)
LEMMA OneEntry ==
    ASSUME NEW p \in Peers
    PROVE  /\ EntryOK(One(p)) /\ One(p).kind = "one" /\ One(p).fwd = p
           /\ Forwarders(One(p)) = {p}
BY DEF EntryOK, IsOne, One, Forwarders

(* An entry with a multiForwarder, taken apart.                            *)
LEMMA MultiEntry ==
    ASSUME NEW S \in SUBSET Peers, NEW p \in S, Cardinality(S) > 1,
           NEW all \in [S -> 0..(IdxMod - 1)]
    PROVE  LET e == Multi(p, all)
           IN  /\ EntryOK(e) /\ e.kind = "multi" /\ e.fwd = p /\ e.all = all
               /\ Forwarders(e) = S
<1>1. IsMulti(Multi(p, all))
  BY DEF IsMulti, MultiOf
<1> QED
  BY <1>1 DEF EntryOK, Multi, Forwarders

(* An entry of the map is of one of four kinds, and has the forwarders of  *)
(* its kind.                                                               *)
LEMMA EntryCases ==
    ASSUME NEW e, EntryOK(e)
    PROVE  \/ e = Absent /\ e.kind = "absent" /\ Forwarders(e) = {}
           \/ e = Nil /\ e.kind = "nil" /\ Forwarders(e) = {}
           \/ /\ e.kind = "one" /\ e.fwd \in Peers /\ e = One(e.fwd)
              /\ Forwarders(e) = {e.fwd}
           \/ /\ e.kind = "multi" /\ e.fwd \in Forwarders(e)
              /\ Forwarders(e) = DOMAIN e.all /\ DOMAIN e.all \in SUBSET Peers
              /\ e.all \in [DOMAIN e.all -> 0..(IdxMod - 1)]
              /\ e = Multi(e.fwd, e.all) /\ Cardinality(DOMAIN e.all) > 1
<1>1. CASE e = Absent \/ e = Nil
  BY <1>1 DEF Absent, Nil, Forwarders
<1>2. CASE IsOne(e)
  BY <1>2 DEF IsOne, One, Forwarders
<1>3. CASE IsMulti(e)
  BY <1>3 DEF IsMulti, MultiOf, Multi, Forwarders
<1> QED
  BY <1>1, <1>2, <1>3 DEF EntryOK

(* An entry has finitely many forwarders, as there are finitely many peers.*)
LEMMA ForwardersFinite ==
    ASSUME NEW e, EntryOK(e)
    PROVE  /\ Forwarders(e) \in SUBSET Peers
           /\ IsFiniteSet(Forwarders(e))
           /\ Cardinality(Forwarders(e)) \in Nat
<1>1. Forwarders(e) \in SUBSET Peers
  BY EntryCases
<1> QED
  BY <1>1, DerpMeshAssumption, FS_Subset, FS_CardinalityType

(* The kind of an entry says how many forwarders it has.                   *)
LEMMA KindCounts ==
    ASSUME NEW e, EntryOK(e)
    PROVE  /\ e.kind = "multi" <=> Cardinality(Forwarders(e)) > 1
           /\ Forwarders(e) = {} <=> e \in {Absent, Nil}
<1>1. \A x : Cardinality({x}) = 1
  BY FS_Singleton
<1>2. Cardinality({}) = 0
  BY FS_EmptySet
<1> QED
  <2>1. CASE e = Absent \/ e = Nil
    BY <1>2, <2>1, EntryCases DEF Absent, Nil
  <2>2. CASE e.kind = "one"
    <3>1. Forwarders(e) = {e.fwd} /\ e \notin {Absent, Nil}
      BY <2>2, EntryCases DEF Absent, Nil
    <3>2. Cardinality(Forwarders(e)) = 1
      BY <1>1, <3>1
    <3> QED
      BY <2>2, <3>1, <3>2
  <2>3. CASE e.kind = "multi"
    <3>1. Forwarders(e) # {}
      BY <2>3, EntryCases DEF Absent, Nil
    <3> QED
      BY <2>3, <3>1, EntryCases DEF Absent, Nil
  <2> QED
    BY <2>1, <2>2, <2>3, EntryCases

(* AddPacketForwarder adds one forwarder and keeps the preferred one.      *)
LEMMA AddedEntry ==
    ASSUME NEW e, EntryOK(e), NEW p \in Peers
    PROVE  /\ EntryOK(Added(e, p))
           /\ Forwarders(Added(e, p)) = Forwarders(e) \union {p}
           /\ Forwarders(e) # {} => Added(e, p).fwd = e.fwd
<1> USE DerpMeshAssumption
<1>1. CASE e = Absent \/ e = Nil
  <2>1. Added(e, p) = One(p)
    BY <1>1 DEF Added, Absent, Nil
  <2>2. Forwarders(e) = {}
    BY <1>1, EntryCases DEF Absent, Nil
  <2> QED
    BY <2>1, <2>2, OneEntry
<1>2. CASE e.kind = "one" /\ e.fwd = p
  <2>1. Added(e, p) = e /\ Forwarders(e) = {p}
    BY <1>2, EntryCases DEF Added, Absent, Nil
  <2> QED
    BY <2>1
<1>3. CASE e.kind = "one" /\ e.fwd # p
  <2> DEFINE S == {e.fwd, p}
             all == [q \in S |-> IF q = e.fwd THEN 0 ELSE 1]
  <2>1. Added(e, p) = Multi(e.fwd, all)
    BY <1>3 DEF Added, NewMultiForwarder
  <2>2. e.fwd \in Peers /\ Forwarders(e) = {e.fwd}
    BY <1>3, EntryCases DEF Absent, Nil
  <2>3. Cardinality(S) > 1
    <3>1. Cardinality({e.fwd} \union {p}) = Cardinality({e.fwd}) + 1
      BY <1>3, FS_AddElement, FS_Singleton
    <3>2. Cardinality({e.fwd}) = 1 /\ S = {e.fwd} \union {p}
      BY FS_Singleton
    <3> QED
      BY <3>1, <3>2
  <2>4. all \in [S -> 0..(IdxMod - 1)]
    OBVIOUS
  <2> HIDE DEF all, S
  <2>5. e.fwd \in S /\ S \in SUBSET Peers /\ S = Forwarders(e) \union {p}
    BY <2>2 DEF S
  <2> QED
    BY <2>1, <2>3, <2>4, <2>5, MultiEntry
<1>4. CASE e.kind = "multi" /\ p \in DOMAIN e.all
  <2>1. Added(e, p) = e /\ p \in Forwarders(e)
    BY <1>4, EntryCases DEF Added, Absent, Nil
  <2> QED
    BY <2>1
<1>5. CASE e.kind = "multi" /\ p \notin DOMAIN e.all
  <2> DEFINE T == {e.all[q] : q \in DOMAIN e.all}
             S == DOMAIN e.all \union {p}
             all == [q \in S |-> IF q = p THEN (Max(T) + 1) % IdxMod
                                           ELSE e.all[q]]
  <2>1. Added(e, p) = Multi(e.fwd, all)
    BY <1>5 DEF Added, MultiAdd
  <2>2. /\ e.fwd \in DOMAIN e.all /\ Forwarders(e) = DOMAIN e.all
        /\ DOMAIN e.all \in SUBSET Peers /\ Cardinality(DOMAIN e.all) > 1
        /\ e.all \in [DOMAIN e.all -> 0..(IdxMod - 1)]
    BY <1>5, EntryCases DEF Absent, Nil
  <2>3. Max(T) \in Nat
    <3>1. \A q \in DOMAIN e.all : e.all[q] \in Nat /\ e.all[q] <= IdxMod
      BY <2>2
    <3>2. T \in SUBSET Nat /\ \A y \in T : y <= IdxMod
      BY <3>1
    <3>3. e.all[e.fwd] \in T
      BY <2>2
    <3> QED
      BY <3>2, <3>3, MaxNat
  <2>4. all \in [S -> 0..(IdxMod - 1)]
    <3>1. (Max(T) + 1) % IdxMod \in 0..(IdxMod - 1)
      BY <2>3
    <3> HIDE DEF T
    <3> QED
      BY <2>2, <3>1
  <2>5. Cardinality(S) > 1
    BY <1>5, <2>2, FS_Subset, FS_AddElement, FS_CardinalityType
  <2> HIDE DEF all, S, T
  <2>6. e.fwd \in S /\ S \in SUBSET Peers /\ S = Forwarders(e) \union {p}
    BY <2>2 DEF S
  <2>7. LET f == Multi(e.fwd, all)
        IN  EntryOK(f) /\ f.fwd = e.fwd /\ Forwarders(f) = S
    BY <2>4, <2>5, <2>6, MultiEntry
  <2> QED
    BY <2>1, <2>6, <2>7
<1> QED
  BY <1>1, <1>2, <1>3, <1>4, <1>5, EntryCases

(* RemovePacketForwarder removes one forwarder and keeps the preferred one *)
(* if it is another; what is left of a single one depends on local clients.*)
LEMMA RemovedEntry ==
    ASSUME NEW e, EntryOK(e), NEW p \in Peers, NEW isLocal,
           e = Nil => isLocal, e = Absent => ~isLocal
    PROVE  LET f == Removed(e, p, isLocal)
           IN  /\ EntryOK(f)
               /\ Forwarders(f) = Forwarders(e) \ {p}
               /\ Forwarders(f) = {} => f = (IF isLocal THEN Nil ELSE Absent)
               /\ Forwarders(f) # {} /\ e.fwd # p => f.fwd = e.fwd
<1> USE DerpMeshAssumption
<1>1. CASE e = Absent \/ e = Nil
  <2>1. Removed(e, p, isLocal) = e
    BY <1>1 DEF Removed, Absent, Nil
  <2>2. Forwarders(e) = {}
    BY <1>1, EntryCases DEF Absent, Nil
  <2> QED
    BY <1>1, <2>1, <2>2
<1>2. CASE e.kind = "one" /\ e.fwd = p
  <2> DEFINE f == IF isLocal THEN Nil ELSE Absent
  <2>1. Removed(e, p, isLocal) = f
    BY <1>2 DEF Removed
  <2>2. EntryOK(f) /\ Forwarders(f) = {}
    BY DEF EntryOK, Forwarders, Nil, Absent
  <2>3. Forwarders(e) = {p}
    BY <1>2, EntryCases DEF Absent, Nil
  <2> QED
    BY <2>1, <2>2, <2>3
<1>3. CASE e.kind = "one" /\ e.fwd # p
  <2>1. Removed(e, p, isLocal) = e
    BY <1>3 DEF Removed
  <2>2. Forwarders(e) = {e.fwd}
    BY <1>3, EntryCases DEF Absent, Nil
  <2> QED
    BY <1>3, <2>1, <2>2
<1>4. CASE e.kind = "multi"
  <2> DEFINE S == DOMAIN e.all \ {p}
             all == [q \in S |-> e.all[q]]
             lowest == CHOOSE q \in S : \A r \in S : all[q] <= all[r]
             fwd == IF p = e.fwd /\ S # {} THEN lowest ELSE e.fwd
             f == IF Cardinality(S) = 1 THEN One(lowest) ELSE Multi(fwd, all)
  <2>1. Removed(e, p, isLocal) = f
    BY <1>4 DEF Removed, MultiDelete
  <2>2. /\ e.fwd \in DOMAIN e.all /\ Forwarders(e) = DOMAIN e.all
        /\ DOMAIN e.all \in SUBSET Peers /\ Cardinality(DOMAIN e.all) > 1
        /\ e.all \in [DOMAIN e.all -> 0..(IdxMod - 1)]
    BY <1>4, EntryCases DEF Absent, Nil
  <2>3. /\ IsFiniteSet(DOMAIN e.all) /\ IsFiniteSet(S)
        /\ Cardinality(S) \in Nat /\ Cardinality(S) >= 1 /\ S # {}
    <3>1. IsFiniteSet(DOMAIN e.all) /\ Cardinality(DOMAIN e.all) \in Nat
      BY <2>2, FS_Subset, FS_CardinalityType
    <3>2. IsFiniteSet(S) /\ Cardinality(S) >= Cardinality(DOMAIN e.all) - 1
      <4>1. Cardinality(S) = IF p \in DOMAIN e.all
                               THEN Cardinality(DOMAIN e.all) - 1
                               ELSE Cardinality(DOMAIN e.all)
        BY <3>1, FS_RemoveElement
      <4> QED
        BY <3>1, <4>1, FS_RemoveElement
    <3>3. Cardinality(S) \in Nat
      BY <3>2, FS_CardinalityType
    <3>4. Cardinality(S) >= 1
      BY <2>2, <3>1, <3>2, <3>3
    <3> QED
      BY <3>1, <3>2, <3>3, <3>4, FS_EmptySet
  <2>4. all \in [S -> 0..(IdxMod - 1)]
    BY <2>2
  <2>5. lowest \in S
    <3> DEFINE T == {all[q] : q \in S}
    <3>0. \A q \in S : all[q] \in Nat
      BY <2>4
    <3>1. T \in SUBSET Nat /\ T # {}
      BY <2>3, <3>0
    <3>2. PICK x \in T : \A y \in T : x <= y
      BY <3>1, NatMin
    <3>3. \E q \in S : \A r \in S : all[q] <= all[r]
      <4>1. PICK q \in S : x = all[q]
        OBVIOUS
      <4>2. \A r \in S : all[r] \in T
        OBVIOUS
      <4> HIDE DEF T, all, S
      <4> QED
        BY <3>2, <4>1, <4>2
    <3> QED
      BY <3>3
  <2> HIDE DEF lowest, all
  <2>6. S \in SUBSET Peers /\ Forwarders(e) \ {p} = S /\ fwd \in S
    BY <2>2, <2>5
  <2>7. CASE Cardinality(S) = 1
    <3>1. S = {lowest}
      BY <2>3, <2>5, <2>7, FS_Singleton
    <3>2. f = One(lowest) /\ lowest \in Peers
      BY <2>7, <2>5, <2>6
    <3>3. e.fwd # p => e.fwd = lowest
      BY <2>2, <3>1
    <3>4. Removed(e, p, isLocal) = One(lowest)
      BY <2>1, <3>2
    <3> HIDE DEF f, S, fwd
    <3> QED
      BY <2>6, <3>1, <3>2, <3>3, <3>4, OneEntry
  <2>8. CASE Cardinality(S) # 1
    <3>1. Removed(e, p, isLocal) = Multi(fwd, all) /\ Cardinality(S) > 1
      BY <2>1, <2>3, <2>8
    <3>2. e.fwd # p => fwd = e.fwd
      OBVIOUS
    <3> HIDE DEF f, S, fwd
    <3> QED
      BY <2>3, <2>4, <2>6, <3>1, <3>2, MultiEntry
  <2> QED
    BY <2>7, <2>8
<1> QED
  BY <1>1, <1>2, <1>3, <1>4, EntryCases

-----------------------------------------------------------------------------
(* The inductive invariant.                                                *)

EntriesOK ==
    /\ clientsMesh = [k \in AllKeys |-> clientsMesh[k]]
    /\ \A k \in AllKeys : EntryOK(clientsMesh[k])

LoopsOK ==
    /\ local \subseteq Keys /\ panicked \in BOOLEAN
    /\ present \in [Peers -> SUBSET AllKeys]
    /\ link \in [Peers -> {"up", "broken", "down", "renewed"}]
    /\ fresh \in [Peers -> BOOLEAN] /\ clearing \in [Peers -> BOOLEAN]
    /\ wire \in [Peers -> Seq(Msgs)]
    /\ hand \in [Peers -> Msgs \union {None}]
    /\ theirs \in [Peers -> SUBSET Keys] /\ notices \in [Peers -> SUBSET Keys]
    /\ noticed \in [Peers -> SUBSET AllKeys]
    /\ breaks \in 0..MaxBreaks /\ changes \in 0..MaxChanges

Has(k) == {p \in Peers : k \in present[p]}

MatchInv ==
    /\ ~panicked
    /\ \A k \in AllKeys :
         /\ Forwarders(clientsMesh[k]) = Has(k)
         /\ Has(k) = {} => clientsMesh[k] = (IF k \in local THEN Nil ELSE Absent)

IInv == EntriesOK /\ LoopsOK /\ MatchInv

(* The invariant contains the types.                                       *)
LEMMA InvImpliesType ==
    ASSUME EntriesOK, LoopsOK
    PROVE  TypeOK
<1>1. ASSUME NEW k \in AllKeys
      PROVE  LET e == clientsMesh[k]
             IN  \/ e \in {Absent, Nil}
                 \/ e.kind = "one" /\ e.fwd \in Peers
                 \/ /\ e.kind = "multi" /\ e.fwd \in DOMAIN e.all
                    /\ DOMAIN e.all \subseteq Peers
                    /\ \A p \in DOMAIN e.all : e.all[p] \in 0..(IdxMod - 1)
  <2> DEFINE e == clientsMesh[k]
  <2>1. EntryOK(e)
    BY DEF EntriesOK
  <2> HIDE DEF e
  <2>2. \/ e \in {Absent, Nil}
        \/ e.kind = "one" /\ e.fwd \in Peers
        \/ /\ e.kind = "multi" /\ e.fwd \in DOMAIN e.all
           /\ DOMAIN e.all \subseteq Peers
           /\ \A p \in DOMAIN e.all : e.all[p] \in 0..(IdxMod - 1)
    BY <2>1, EntryCases
  <2> QED
    BY <2>2 DEF e
<1> QED
  BY <1>1 DEF TypeOK, LoopsOK

(* The invariant contains the agreement of the map with the loops.         *)
LEMMA InvImpliesMatches ==
    ASSUME EntriesOK, MatchInv
    PROVE  MeshMatches
<1>1. ASSUME NEW k \in AllKeys
      PROVE  /\ Forwarders(clientsMesh[k]) = Has(k)
             /\ clientsMesh[k].kind = "multi" <=> Cardinality(Has(k)) > 1
             /\ Has(k) = {} => clientsMesh[k] = (IF k \in local THEN Nil ELSE Absent)
  BY KindCounts DEF EntriesOK, MatchInv
<1> QED
  BY <1>1 DEF MeshMatches, MatchInv, Has

-----------------------------------------------------------------------------
(* What the steps do to the map and to what the loops know.                *)

(* The preferred forwarder of a key changes only if it is removed.         *)
Sticky ==
    \A k \in AllKeys :
         Forwarders(clientsMesh[k]) # {} /\ Forwarders(clientsMesh'[k]) # {}
           /\ clientsMesh'[k].fwd # clientsMesh[k].fwd
             => clientsMesh[k].fwd \notin Forwarders(clientsMesh'[k])

(* AddPacketForwarder keeps the map in agreement with a loop that notes    *)
(* the key, and the forwarder of every key.                                *)
LEMMA AddStep ==
    ASSUME IInv, NEW key \in AllKeys, NEW p \in Peers,
           AddPacketForwarder(key, p),
           present' = [present EXCEPT ![p] = @ \union {key}]
    PROVE  EntriesOK' /\ MatchInv' /\ Sticky
<1> DEFINE e == clientsMesh[key]
           f == Added(e, p)
<1>1. EntryOK(e)
  BY DEF IInv, EntriesOK
<1>2. /\ EntryOK(f) /\ Forwarders(f) = Forwarders(e) \union {p}
      /\ Forwarders(e) # {} => f.fwd = e.fwd
  BY <1>1, AddedEntry
<1>3. /\ clientsMesh'[key] = f
      /\ \A k \in AllKeys \ {key} : clientsMesh'[k] = clientsMesh[k]
      /\ clientsMesh' = [k \in AllKeys |-> clientsMesh'[k]]
      /\ local' = local /\ panicked' = panicked
  BY DEF AddPacketForwarder, IInv, EntriesOK
<1>4. /\ Has(key)' = Has(key) \union {p}
      /\ \A k \in AllKeys \ {key} : Has(k)' = Has(k)
  BY DEF Has, IInv, LoopsOK
<1> HIDE DEF f
<1>5. EntriesOK'
  BY <1>2, <1>3 DEF IInv, EntriesOK
<1>6. MatchInv'
  <2>1. ASSUME NEW k \in AllKeys
        PROVE  /\ Forwarders(clientsMesh'[k]) = Has(k)'
               /\ Has(k)' = {} =>
                    clientsMesh'[k] = (IF k \in local' THEN Nil ELSE Absent)
    BY <1>2, <1>3, <1>4 DEF IInv, MatchInv
  <2> QED
    BY <2>1, <1>3 DEF IInv, MatchInv
<1>7. Sticky
  BY <1>2, <1>3 DEF Sticky
<1> QED
  BY <1>5, <1>6, <1>7

(* So does RemovePacketForwarder with a loop that forgets the key.         *)
LEMMA RemoveStep ==
    ASSUME IInv, NEW key \in AllKeys, NEW p \in Peers,
           RemovePacketForwarder(key, p),
           present' = [present EXCEPT ![p] = @ \ {key}]
    PROVE  EntriesOK' /\ MatchInv' /\ Sticky
<1> DEFINE e == clientsMesh[key]
           f == Removed(e, p, key \in local)
<1>1. EntryOK(e)
  BY DEF IInv, EntriesOK
<1>2. (e = Nil => key \in local) /\ (e = Absent => key \notin local)
  BY <1>1, KindCounts DEF IInv, MatchInv, Nil, Absent
<1>3. /\ EntryOK(f) /\ Forwarders(f) = Forwarders(e) \ {p}
      /\ Forwarders(f) = {} => f = (IF key \in local THEN Nil ELSE Absent)
      /\ Forwarders(f) # {} /\ e.fwd # p => f.fwd = e.fwd
  <2> DEFINE isLocal == key \in local
  <2>1. (e = Nil => isLocal) /\ (e = Absent => ~isLocal)
    BY <1>2
  <2> HIDE DEF isLocal, e
  <2>2. LET g == Removed(e, p, isLocal)
        IN  /\ EntryOK(g) /\ Forwarders(g) = Forwarders(e) \ {p}
            /\ Forwarders(g) = {} => g = (IF isLocal THEN Nil ELSE Absent)
            /\ Forwarders(g) # {} /\ e.fwd # p => g.fwd = e.fwd
    BY <1>1, <2>1, RemovedEntry
  <2> QED
    BY <2>2 DEF isLocal
<1>4. ~(e.kind = "multi" /\ Cardinality(DOMAIN e.all) < 2)
  <2>1. e.kind = "multi" => Cardinality(DOMAIN e.all) > 1
    BY <1>1, EntryCases DEF Absent, Nil
  <2>2. e.kind = "multi" => Cardinality(DOMAIN e.all) \in Nat
    BY <1>1, EntryCases, ForwardersFinite DEF Absent, Nil
  <2> QED
    BY <2>1, <2>2
<1>5. /\ clientsMesh'[key] = f
      /\ \A k \in AllKeys \ {key} : clientsMesh'[k] = clientsMesh[k]
      /\ clientsMesh' = [k \in AllKeys |-> clientsMesh'[k]]
      /\ local' = local
  BY DEF RemovePacketForwarder, IInv, EntriesOK
<1>6. ~panicked'
  BY <1>4 DEF RemovePacketForwarder, IInv, MatchInv
<1>7. /\ Has(key)' = Has(key) \ {p}
      /\ \A k \in AllKeys \ {key} : Has(k)' = Has(k)
  BY DEF Has, IInv, LoopsOK
<1> HIDE DEF f
<1>8. EntriesOK'
  BY <1>3, <1>5 DEF IInv, EntriesOK
<1>9. MatchInv'
  <2>1. ASSUME NEW k \in AllKeys
        PROVE  /\ Forwarders(clientsMesh'[k]) = Has(k)'
               /\ Has(k)' = {} =>
                    clientsMesh'[k] = (IF k \in local' THEN Nil ELSE Absent)
    <3>1. CASE k = key
      BY <3>1, <1>3, <1>5, <1>7 DEF IInv, MatchInv
    <3>2. CASE k # key
      BY <3>2, <1>5, <1>7 DEF IInv, MatchInv
    <3> QED
      BY <3>1, <3>2
  <2> QED
    BY <2>1, <1>6 DEF MatchInv
<1>10. Sticky
  BY <1>3, <1>5 DEF Sticky
<1> QED
  BY <1>8, <1>9, <1>10

(* A local client comes or goes.                                           *)
LEMMA LocalStep ==
    ASSUME IInv, NEW key \in Keys, RegisterClient(key) \/ UnregisterClient(key)
    PROVE  EntriesOK' /\ MatchInv' /\ Sticky
<1>1. key \in AllKeys
  BY DEF AllKeys
<1>2. EntryOK(clientsMesh[key])
  BY <1>1 DEF IInv, EntriesOK
<1>3. /\ clientsMesh' = [k \in AllKeys |-> clientsMesh'[k]]
      /\ \A k \in AllKeys \ {key} : clientsMesh'[k] = clientsMesh[k]
      /\ \A k \in AllKeys \ {key} : k \in local' <=> k \in local
      /\ UNCHANGED <<panicked, present>>
  BY DEF RegisterClient, UnregisterClient, loop, IInv, EntriesOK
<1>4. \/ /\ clientsMesh[key] \in {Absent, Nil}
         /\ clientsMesh'[key] = (IF key \in local' THEN Nil ELSE Absent)
      \/ clientsMesh[key] \notin {Absent, Nil} /\ clientsMesh'[key] = clientsMesh[key]
  <2>1. clientsMesh[key] \in {Absent, Nil} =>
          clientsMesh[key] = (IF key \in local THEN Nil ELSE Absent)
    BY <1>1, <1>2, KindCounts DEF IInv, MatchInv
  <2>2. Absent # Nil
    BY DEF Absent, Nil
  <2>3. CASE RegisterClient(key)
    BY <1>1, <2>1, <2>2, <2>3 DEF RegisterClient, IInv, EntriesOK
  <2>4. CASE UnregisterClient(key)
    BY <1>1, <2>1, <2>2, <2>4 DEF UnregisterClient, IInv, EntriesOK
  <2> QED
    BY <2>3, <2>4
<1>5. EntryOK(Absent) /\ Forwarders(Absent) = {} /\ EntryOK(Nil) /\ Forwarders(Nil) = {}
  BY DEF EntryOK, Forwarders, Absent, Nil
<1>6. \A k \in AllKeys : Has(k)' = Has(k)
  BY <1>3 DEF Has
<1>7. EntriesOK'
  BY <1>2, <1>3, <1>4, <1>5 DEF IInv, EntriesOK
<1>8. /\ Forwarders(clientsMesh'[key]) = Forwarders(clientsMesh[key])
      /\ Forwarders(clientsMesh[key]) # {} => clientsMesh'[key] = clientsMesh[key]
  BY <1>4, <1>5
<1>9. MatchInv'
  <2>1. ASSUME NEW k \in AllKeys
        PROVE  /\ Forwarders(clientsMesh'[k]) = Has(k)'
               /\ Has(k)' = {} =>
                    clientsMesh'[k] = (IF k \in local' THEN Nil ELSE Absent)
    <3>1. CASE k = key
      <4>1. Has(k)' = {} => clientsMesh[key] \in {Absent, Nil}
        BY <3>1, <1>2, <1>6, KindCounts DEF IInv, MatchInv
      <4> QED
        BY <3>1, <4>1, <1>4, <1>6, <1>8 DEF IInv, MatchInv
    <3>2. CASE k # key
      BY <3>2, <1>3, <1>6 DEF IInv, MatchInv
    <3> QED
      BY <3>1, <3>2
  <2> QED
    BY <2>1, <1>3 DEF IInv, MatchInv
<1>10. Sticky
  BY <1>3, <1>8 DEF Sticky
<1> QED
  BY <1>7, <1>9, <1>10

(* Nothing else touches the map.                                           *)
LEMMA MapUntouched ==
    ASSUME IInv, UNCHANGED <<clientsMesh, local, panicked, present>>
    PROVE  EntriesOK' /\ MatchInv' /\ Sticky
<1>1. \A k \in AllKeys : Has(k)' = Has(k)
  BY DEF Has
<1> QED
  BY <1>1 DEF IInv, EntriesOK, MatchInv, Sticky

-----------------------------------------------------------------------------
(* The loops and the connections keep their types.                         *)
LEMMA LoopsStep ==
    ASSUME LoopsOK, [Next]_vars
    PROVE  LoopsOK'
<1> USE DerpMeshAssumption DEF LoopsOK, server, loop, remote, AllKeys
<1>1. ASSUME NEW k \in Keys, RegisterClient(k) PROVE LoopsOK'
  BY <1>1 DEF RegisterClient
<1>2. ASSUME NEW k \in Keys, UnregisterClient(k) PROVE LoopsOK'
  BY <1>2 DEF UnregisterClient
<1>3. ASSUME NEW p \in Peers, Recv(p) PROVE LoopsOK'
  <2>1. wire[p] \in Seq(Msgs) /\ wire[p] # << >>
    BY <1>3 DEF Recv
  <2>2. Head(wire[p]) \in Msgs /\ Tail(wire[p]) \in Seq(Msgs)
    BY <2>1
  <2>3. /\ hand' \in [Peers -> Msgs \union {None}]
        /\ wire' \in [Peers -> Seq(Msgs)]
    BY <1>3, <2>2 DEF Recv
  <2>4. noticed' \in [Peers -> SUBSET AllKeys]
    BY <1>3 DEF Recv
  <2> QED
    BY <1>3, <2>3, <2>4 DEF Recv
<1>4. ASSUME NEW p \in Peers, RecvError(p) PROVE LoopsOK'
  BY <1>4 DEF RecvError
<1>5. ASSUME NEW p \in Peers, ClearOne(p) PROVE LoopsOK'
  <2>1. present' \in [Peers -> SUBSET AllKeys] /\ local' = local
    BY <1>5 DEF ClearOne, RemovePacketForwarder
  <2>2. panicked' \in BOOLEAN
    BY <1>5 DEF ClearOne, RemovePacketForwarder
  <2> QED
    BY <1>5, <2>1, <2>2 DEF ClearOne
<1>6. ASSUME NEW p \in Peers, ClearDone(p) PROVE LoopsOK'
  BY <1>6 DEF ClearDone
<1>7. ASSUME NEW p \in Peers, Handle(p) PROVE LoopsOK'
  <2>1. hand[p] \in Msgs
    BY <1>7 DEF Handle
  <2>2. hand[p].key \in AllKeys
    BY <2>1 DEF Msgs
  <2>3. present' \in [Peers -> SUBSET AllKeys] /\ local' = local
    <3>1. /\ \/ present' = [present EXCEPT ![p] = @ \union {hand[p].key}]
             \/ present' = [present EXCEPT ![p] = @ \ {hand[p].key}]
          /\ local' = local
      BY <1>7 DEF Handle, AddPacketForwarder, RemovePacketForwarder
    <3>2. present[p] \union {hand[p].key} \in SUBSET AllKeys
          /\ present[p] \ {hand[p].key} \in SUBSET AllKeys
      BY <2>2
    <3> HIDE DEF AllKeys
    <3>3. present \in [Peers -> SUBSET AllKeys]
      OBVIOUS
    <3> QED
      BY <3>1, <3>2, <3>3
  <2>4. panicked' \in BOOLEAN
    BY <1>7 DEF Handle, AddPacketForwarder, RemovePacketForwarder
  <2> QED
    BY <1>7, <2>3, <2>4 DEF Handle
<1>8. ASSUME NEW p \in Peers, Break(p) PROVE LoopsOK'
  <2>1. wire' \in [Peers -> Seq(Msgs)]
    BY <1>8 DEF Break
  <2>2. /\ notices' \in [Peers -> SUBSET Keys]
        /\ noticed' \in [Peers -> SUBSET AllKeys]
    BY <1>8 DEF Break
  <2> QED
    BY <1>8, <2>1, <2>2 DEF Break
<1>9. ASSUME NEW p \in Peers, Connect(p) PROVE LoopsOK'
  <2> DEFINE T == theirs[p] \union {Self}
             S == {[key |-> k, present |-> TRUE] : k \in T}
             f == [k \in T |-> [key |-> k, present |-> TRUE]]
  <2>1. IsFiniteSet(T) /\ T \subseteq AllKeys
    <3>1. theirs[p] \in SUBSET Keys
      OBVIOUS
    <3> QED
      BY <3>1, FS_Subset, FS_AddElement
  <2>2. f \in Surjection(T, S)
    BY DEF Surjection
  <2>3. IsFiniteSet(S) /\ S \subseteq Msgs
    <3>1. \A k \in T : [key |-> k, present |-> TRUE] \in Msgs
      BY <2>1 DEF Msgs
    <3>2. S \subseteq Msgs
      BY <3>1
    <3> HIDE DEF S, T, f
    <3> QED
      BY <2>1, <2>2, <3>2, FS_Surjection
  <2> HIDE DEF S, T, f
  <2>4. SetToSeq(S) \in Seq(Msgs)
    <3>1. SetToSeq(S) \in Seq(S)
      BY <2>3, SetToSeqType
    <3> QED
      BY <2>3, <3>1
  <2>5. wire' = [wire EXCEPT ![p] = SetToSeq(S)]
    BY <1>9 DEF Connect, S, T
  <2>6. wire' \in [Peers -> Seq(Msgs)]
    BY <2>4, <2>5
  <2>7. link' \in [Peers -> {"up", "broken", "down", "renewed"}]
    BY <1>9 DEF Connect
  <2> QED
    BY <1>9, <2>6, <2>7 DEF Connect
<1>10. ASSUME NEW p \in Peers, NEW k \in Keys, NEW b \in BOOLEAN, Told(p, k, b)
       PROVE  /\ wire' \in [Peers -> Seq(Msgs)] /\ changes' \in 0..MaxChanges
              /\ UNCHANGED <<server, loop, link, fresh, notices, noticed, breaks>>
  <2>1. [key |-> k, present |-> b] \in Msgs
    BY DEF Msgs
  <2>2. Append(wire[p], [key |-> k, present |-> b]) \in Seq(Msgs)
    BY <2>1
  <2>3. wire' \in [Peers -> Seq(Msgs)]
    BY <1>10, <2>2 DEF Told
  <2> QED
    BY <1>10, <2>3 DEF Told
<1>11. ASSUME NEW p \in Peers, NEW k \in Keys, PeerPresent(p, k) PROVE LoopsOK'
  BY <1>10, <1>11 DEF PeerPresent
<1>12. ASSUME NEW p \in Peers, NEW k \in Keys, PeerGone(p, k) PROVE LoopsOK'
  BY <1>10, <1>12 DEF PeerGone
<1>13. CASE UNCHANGED vars
  BY <1>13 DEF vars
<1>14. ASSUME NEW p \in Peers, NEW k \in Keys, PeerNotHere(p, k) PROVE LoopsOK'
  BY <1>14 DEF PeerNotHere
<1>15. ASSUME NEW p \in Peers, NEW k \in Keys, RecvNotice(p, k) PROVE LoopsOK'
  <2>1. [key |-> k, present |-> FALSE] \in Msgs
    BY DEF Msgs
  <2>2. hand' \in [Peers -> Msgs \union {None}]
    BY <1>15, <2>1 DEF RecvNotice
  <2>3. /\ notices' \in [Peers -> SUBSET Keys]
        /\ noticed' \in [Peers -> SUBSET AllKeys]
    BY <1>15 DEF RecvNotice
  <2> QED
    BY <1>15, <2>2, <2>3 DEF RecvNotice
<1> QED
  BY <1>1, <1>2, <1>3, <1>4, <1>5, <1>6, <1>7, <1>8, <1>9, <1>11, <1>12, <1>13,
     <1>14, <1>15 DEF Next, WatchLoop

(* Every step keeps the map in line with the loops.                        *)
LEMMA MapStep ==
    ASSUME IInv, [Next]_vars
    PROVE  EntriesOK' /\ MatchInv' /\ Sticky
<1>1. ASSUME NEW k \in Keys, RegisterClient(k) \/ UnregisterClient(k)
      PROVE  EntriesOK' /\ MatchInv' /\ Sticky
  BY <1>1, LocalStep
<1>2. ASSUME NEW p \in Peers, ClearOne(p)
      PROVE  EntriesOK' /\ MatchInv' /\ Sticky
  <2>1. PICK k \in present[p] : /\ RemovePacketForwarder(k, p)
                                /\ present' = [present EXCEPT ![p] = @ \ {k}]
    BY <1>2 DEF ClearOne
  <2>2. k \in AllKeys
    BY DEF IInv, LoopsOK
  <2> QED
    BY <2>1, <2>2, RemoveStep
<1>3. ASSUME NEW p \in Peers, Handle(p)
      PROVE  EntriesOK' /\ MatchInv' /\ Sticky
  <2>1. hand[p].key \in AllKeys
    BY <1>3 DEF Handle, IInv, LoopsOK, Msgs
  <2> QED
    BY <1>3, <2>1, AddStep, RemoveStep DEF Handle
<1>4. \/ \E k \in Keys : RegisterClient(k) \/ UnregisterClient(k)
      \/ \E p \in Peers : ClearOne(p) \/ Handle(p)
      \/ UNCHANGED <<clientsMesh, local, panicked, present>>
  <2>1. ASSUME NEW p \in Peers, NEW k \in Keys,
               RecvNotice(p, k) \/ PeerNotHere(p, k)
        PROVE  UNCHANGED <<clientsMesh, local, panicked, present>>
    BY <2>1 DEF RecvNotice, PeerNotHere, server, loop
  <2>2. ASSUME NEW p \in Peers,
               Recv(p) \/ RecvError(p) \/ ClearDone(p) \/ Break(p) \/ Connect(p)
        PROVE  UNCHANGED <<clientsMesh, local, panicked, present>>
    BY <2>2 DEF Recv, RecvError, ClearDone, Break, Connect, server, loop
  <2>3. ASSUME NEW p \in Peers, NEW k \in Keys, PeerPresent(p, k) \/ PeerGone(p, k)
        PROVE  UNCHANGED <<clientsMesh, local, panicked, present>>
    BY <2>3 DEF PeerPresent, PeerGone, Told, server, loop
  <2>4. CASE UNCHANGED vars
    BY <2>4 DEF vars, server, loop
  <2> QED
    BY <2>1, <2>2, <2>3, <2>4 DEF Next, WatchLoop
<1> QED
  BY <1>1, <1>2, <1>3, <1>4, MapUntouched

(* A mesh in which no loop has connected yet satisfies the invariant.      *)
LEMMA InitInv == Init => IInv
<1> SUFFICES ASSUME Init PROVE IInv
  OBVIOUS
<1>1. EntryOK(Absent) /\ Forwarders(Absent) = {}
  BY DEF EntryOK, Forwarders, Absent
<1>2. \A k \in AllKeys : clientsMesh[k] = Absent /\ Has(k) = {}
  BY DEF Init, Has
<1>3. EntriesOK
  BY <1>1, <1>2 DEF Init, EntriesOK
<1>4. LoopsOK
  <2>1. wire \in [Peers -> Seq(Msgs)]
    BY DEF Init
  <2> QED
    <3>1. /\ present \in [Peers -> SUBSET AllKeys]
          /\ theirs \in [Peers -> SUBSET Keys] /\ notices \in [Peers -> SUBSET Keys]
          /\ noticed \in [Peers -> SUBSET AllKeys]
      BY DEF Init
    <3>2. hand \in [Peers -> Msgs \union {None}]
      BY DEF Init
    <3>3. /\ link \in [Peers -> {"up", "broken", "down", "renewed"}]
          /\ local \subseteq Keys
          /\ breaks \in 0..MaxBreaks /\ changes \in 0..MaxChanges
      BY DerpMeshAssumption DEF Init
    <3>4. /\ fresh \in [Peers -> BOOLEAN] /\ clearing \in [Peers -> BOOLEAN]
          /\ panicked \in BOOLEAN
      BY Zenon DEF Init
    <3> QED
      BY <2>1, <3>1, <3>2, <3>3, <3>4 DEF LoopsOK
<1>5. MatchInv
  BY <1>1, <1>2 DEF Init, MatchInv
<1> QED
  BY <1>3, <1>4, <1>5 DEF IInv

(* The invariant holds in every behaviour of the mesh.                     *)
LEMMA Inductive == Spec => []IInv
<1>1. IInv /\ [Next]_vars => IInv'
  BY LoopsStep, MapStep DEF IInv
<1> QED
  BY <1>1, InitInv, PTL DEF Spec

-----------------------------------------------------------------------------
(* Every variable keeps its type; in particular a multiForwarder always    *)
(* prefers one of its forwarders, and its numbers stay within a uint8.     *)
THEOREM TypeCorrect == Spec => []TypeOK
<1>1. IInv => TypeOK
  BY InvImpliesType DEF IInv
<1> QED
  BY <1>1, Inductive, PTL

(* The forwarders of a key are the peers whose watch loop has it, and the  *)
(* panic of RemovePacketForwarder is never met, however connections break  *)
(* and come back.                                                          *)
THEOREM MapMatchesLoops == Spec => []MeshMatches
<1>1. IInv => MeshMatches
  BY InvImpliesMatches DEF IInv
<1> QED
  BY <1>1, Inductive, PTL

(* Packets for a key keep going to the same node until that is removed:    *)
(* neither AddPacketForwarder nor deleteLocked changes its mind.           *)
THEOREM ForwarderIsSticky == Spec => StickyForwarder
<1>1. IInv /\ [Next]_vars => [Sticky]_vars
  BY MapStep
<1> QED
  BY <1>1, Inductive, PTL DEF Spec, StickyForwarder, Sticky

-----------------------------------------------------------------------------
(* What a loop will know.                                                  *)

Here(k) == [key |-> k, present |-> TRUE]

(* A message that is sent is the last word about its key.                  *)
LEMMA KnowsAppend ==
    ASSUME NEW keys, NEW s \in Seq(Msgs), NEW m \in Msgs, NEW k
    PROVE  Knows(keys, Append(s, m), k)
               <=> IF m.key = k THEN m.present ELSE Knows(keys, s, k)
<1> DEFINE t == Append(s, m)
           n == Len(t)
<1>1. /\ Len(s) \in Nat /\ n = Len(s) + 1 /\ t[n] = m
      /\ \A i \in 1..Len(s) : t[i] = s[i]
  OBVIOUS
<1>2. m.key = k /\ m.present => m = Here(k)
  BY DEF Msgs, Here
<1> HIDE DEF t
<1>3. ASSUME m.key = k, m.present PROVE Knows(keys, t, k)
  <2>1. n \in 0..n /\ n # 0 /\ \A j \in (n + 1)..n : FALSE
    BY <1>1
  <2> QED
    BY <1>1, <1>2, <1>3, <2>1 DEF Knows, Here
<1>4. ASSUME m.key = k, Knows(keys, t, k) PROVE m.present
  <2>1. PICK i \in 0..n :
          /\ IF i = 0 THEN k \in keys ELSE t[i] = Here(k)
          /\ \A j \in (i + 1)..n : t[j].key # k
    BY <1>4 DEF Knows, Here
  <2>2. i = n
    <3>1. i # n => n \in (i + 1)..n
      BY <1>1
    <3> QED
      BY <1>1, <1>4, <2>1, <3>1
  <2>3. t[n] = Here(k)
    BY <1>1, <2>1, <2>2
  <2> QED
    BY <1>1, <2>3 DEF Here
<1>5. ASSUME m.key # k, Knows(keys, t, k) PROVE Knows(keys, s, k)
  <2>1. PICK i \in 0..n :
          /\ IF i = 0 THEN k \in keys ELSE t[i] = Here(k)
          /\ \A j \in (i + 1)..n : t[j].key # k
    BY <1>5 DEF Knows, Here
  <2>2. i # n
    BY <1>1, <1>5, <2>1 DEF Here
  <2>3. i \in 0..Len(s)
    BY <1>1, <2>2
  <2>4. i # 0 => s[i] = Here(k)
    BY <1>1, <2>1, <2>3
  <2>5. \A j \in (i + 1)..Len(s) : j \in (i + 1)..n /\ t[j] = s[j]
    BY <1>1, <2>3
  <2> QED
    BY <2>1, <2>3, <2>4, <2>5 DEF Knows, Here
<1>6. ASSUME m.key # k, Knows(keys, s, k) PROVE Knows(keys, t, k)
  <2>1. PICK i \in 0..Len(s) :
          /\ IF i = 0 THEN k \in keys ELSE s[i] = Here(k)
          /\ \A j \in (i + 1)..Len(s) : s[j].key # k
    BY <1>6 DEF Knows, Here
  <2>2. i \in 0..n /\ (i # 0 => t[i] = Here(k))
    BY <1>1, <2>1
  <2>3. ASSUME NEW j \in (i + 1)..n PROVE t[j].key # k
    <3>1. j = n \/ (j \in (i + 1)..Len(s) /\ t[j] = s[j])
      BY <1>1, <2>1
    <3> QED
      BY <1>1, <1>6, <2>1, <3>1
  <2> QED
    BY <2>1, <2>2, <2>3 DEF Knows, Here
<1> QED
  BY <1>3, <1>4, <1>5, <1>6 DEF t

(* A message that is received changes nothing of what will be known.       *)
LEMMA KnowsHead ==
    ASSUME NEW keys, NEW s \in Seq(Msgs), s # << >>, NEW k
    PROVE  Knows(Heard(keys, Head(s)), Tail(s), k) <=> Knows(keys, s, k)
<1> DEFINE t == Tail(s)
           m == s[1]
           known == Heard(keys, m)
<1>1. /\ Len(s) \in Nat \ {0} /\ Len(t) = Len(s) - 1 /\ Head(s) = m
      /\ m \in Msgs
  OBVIOUS
<1>2. \A i \in 1..Len(t) : i + 1 \in 1..Len(s) /\ t[i] = s[i + 1]
  BY <1>1
<1>3. k \in known <=> IF m.key = k THEN m.present ELSE k \in keys
  BY <1>1 DEF Heard, Msgs
<1>4. m.key = k /\ m.present => m = Here(k)
  BY <1>1 DEF Msgs, Here
<1> HIDE DEF t, m, known
<1>5. ASSUME Knows(known, t, k) PROVE Knows(keys, s, k)
  <2>1. PICK i \in 0..Len(t) :
          /\ IF i = 0 THEN k \in known ELSE t[i] = Here(k)
          /\ \A j \in (i + 1)..Len(t) : t[j].key # k
    BY <1>5 DEF Knows, Here
  <2>2. ASSUME NEW j \in (i + 2)..Len(s) PROVE s[j].key # k
    <3>1. j - 1 \in (i + 1)..Len(t) /\ j - 1 \in 1..Len(t)
      BY <1>1, <2>1
    <3>2. t[j - 1] = s[j]
      BY <1>2, <3>1
    <3> QED
      BY <2>1, <3>1, <3>2
  <2>3. CASE i # 0 \/ m.key = k
    <3>1. i + 1 \in 0..Len(s) /\ i + 1 # 0
      BY <1>1
    <3>2. s[i + 1] = Here(k)
      <4>1. CASE i # 0
        BY <1>2, <2>1, <4>1
      <4>2. CASE i = 0
        BY <1>3, <1>4, <2>1, <2>3, <4>2 DEF m
      <4> QED
        BY <4>1, <4>2
    <3>3. \A j \in (i + 1 + 1)..Len(s) : j \in (i + 2)..Len(s)
      OBVIOUS
    <3> QED
      BY <2>2, <3>1, <3>2, <3>3 DEF Knows, Here
  <2>4. CASE i = 0 /\ m.key # k
    <3>1. k \in keys /\ 0 \in 0..Len(s)
      BY <1>1, <1>3, <2>1, <2>4
    <3>2. \A j \in (0 + 1)..Len(s) : j = 1 \/ j \in (i + 2)..Len(s)
      BY <2>4
    <3>3. \A j \in (0 + 1)..Len(s) : s[j].key # k
      BY <2>2, <2>4, <3>2 DEF m
    <3> QED
      BY <3>1, <3>3 DEF Knows
  <2> QED
    BY <2>3, <2>4
<1>6. ASSUME Knows(keys, s, k) PROVE Knows(known, t, k)
  <2>1. PICK i \in 0..Len(s) :
          /\ IF i = 0 THEN k \in keys ELSE s[i] = Here(k)
          /\ \A j \in (i + 1)..Len(s) : s[j].key # k
    BY <1>6 DEF Knows, Here
  <2>2. CASE i > 1
    <3>1. i - 1 \in 0..Len(t) /\ i - 1 \in 1..Len(t) /\ i - 1 # 0
      BY <1>1, <2>2
    <3>2. t[i - 1] = Here(k)
      BY <1>2, <2>1, <2>2, <3>1
    <3>3. ASSUME NEW j \in (i - 1 + 1)..Len(t) PROVE t[j].key # k
      <4>1. j \in 1..Len(t) /\ j + 1 \in (i + 1)..Len(s)
        BY <1>1, <2>2
      <4> QED
        BY <1>2, <2>1, <4>1
    <3> QED
      BY <3>1, <3>2, <3>3 DEF Knows, Here
  <2>3. CASE i \in {0, 1}
    <3>1. k \in known
      <4>1. CASE i = 1
        <5>1. m = Here(k)
          BY <2>1, <4>1 DEF m
        <5> QED
          BY <1>3, <5>1 DEF Here
      <4>2. CASE i = 0
        <5>1. 1 \in (i + 1)..Len(s)
          BY <1>1, <4>2
        <5>2. m.key # k
          BY <2>1, <5>1 DEF m
        <5> QED
          BY <1>3, <2>1, <4>2, <5>2
      <4> QED
        BY <2>3, <4>1, <4>2
    <3>2. ASSUME NEW j \in (0 + 1)..Len(t) PROVE t[j].key # k
      <4>1. j \in 1..Len(t) /\ j + 1 \in (i + 1)..Len(s)
        BY <1>1, <2>3
      <4> QED
        BY <1>2, <2>1, <4>1
    <3>3. 0 \in 0..Len(t)
      BY <1>1
    <3> QED
      BY <3>1, <3>2, <3>3 DEF Knows
  <2> QED
    BY <2>2, <2>3
<1> QED
  BY <1>1, <1>5, <1>6 DEF known, t, m

(* A key that is unsaid in a message and what follows it is neither.       *)
LEMMA UnsaidHead ==
    ASSUME NEW s \in Seq(Msgs), s # << >>, NEW k, Unsaid(s, k)
    PROVE  Head(s).key # k /\ Unsaid(Tail(s), k)
<1>1. Len(s) \in Nat \ {0} /\ Len(Tail(s)) = Len(s) - 1 /\ Head(s) = s[1]
  OBVIOUS
<1>2. \A i \in 1..Len(Tail(s)) : i + 1 \in 1..Len(s) /\ Tail(s)[i] = s[i + 1]
  BY <1>1
<1> QED
  BY <1>1, <1>2 DEF Unsaid

(* Of k one who has keys and then hears s gets to know what set says, but  *)
(* for a key of lost of which s says nothing.                              *)
InStep(keys, s, set, lost, k) ==
    /\ Knows(keys, s, k) => k \in set
    /\ k \in set => Knows(keys, s, k) \/ (k \in lost /\ Unsaid(s, k))

(* A message that is received is no longer the last word of a notice.      *)
LEMMA StepHead ==
    ASSUME NEW keys, NEW s \in Seq(Msgs), s # << >>, NEW set, NEW lost, NEW k,
           InStep(keys, s, set, lost, k)
    PROVE  InStep(Heard(keys, Head(s)), Tail(s), set, lost \ {Head(s).key}, k)
<1>1. Knows(Heard(keys, Head(s)), Tail(s), k) <=> Knows(keys, s, k)
  BY KnowsHead
<1>2. Unsaid(s, k) => Head(s).key # k /\ Unsaid(Tail(s), k)
  BY UnsaidHead
<1> QED
  BY <1>1, <1>2 DEF InStep

(* A change of the set that is sent.                                       *)
LEMMA StepAppend ==
    ASSUME NEW keys, NEW s \in Seq(Msgs), NEW m \in Msgs, NEW set, NEW now,
           NEW lost, NEW k, InStep(keys, s, set, lost, k),
           k \in now <=> IF m.key = k THEN m.present ELSE k \in set
    PROVE  InStep(keys, Append(s, m), now, lost, k)
<1>1. Knows(keys, Append(s, m), k)
          <=> IF m.key = k THEN m.present ELSE Knows(keys, s, k)
  BY KnowsAppend
<1>2. m.key # k /\ Unsaid(s, k) => Unsaid(Append(s, m), k)
  <2>1. /\ Len(Append(s, m)) = Len(s) + 1 /\ Append(s, m)[Len(s) + 1] = m
        /\ \A i \in 1..Len(s) : Append(s, m)[i] = s[i]
    OBVIOUS
  <2> QED
    BY <2>1 DEF Unsaid
<1>3. CASE m.key = k
  BY <1>1, <1>3 DEF InStep
<1>4. CASE m.key # k
  BY <1>1, <1>2, <1>4 DEF InStep
<1> QED
  BY <1>3, <1>4

(* A notice about q takes q away, and is the last word of it.              *)
LEMMA StepNotice ==
    ASSUME NEW keys, NEW s \in Seq(Msgs), NEW set, NEW lost, NEW q, NEW k,
           InStep(keys, s, set, lost, k)
    PROVE  InStep(keys \ {q}, s, set, lost \union {q}, k)
<1>1. /\ Knows(keys \ {q}, s, k) => Knows(keys, s, k)
      /\ Knows(keys, s, k) => Knows(keys \ {q}, s, k) \/ (k = q /\ Unsaid(s, k))
  <2>1. Knows(keys \ {q}, s, k) => Knows(keys, s, k)
    BY DEF Knows
  <2>2. ASSUME Knows(keys, s, k), ~Knows(keys \ {q}, s, k)
        PROVE  k = q /\ Unsaid(s, k)
    <3>1. PICK i \in 0..Len(s) :
            /\ IF i = 0 THEN k \in keys ELSE s[i] = [key |-> k, present |-> TRUE]
            /\ \A j \in (i + 1)..Len(s) : s[j].key # k
      BY <2>2 DEF Knows
    <3>2. i = 0 /\ k = q
      BY <2>2, <3>1 DEF Knows
    <3> QED
      BY <3>1, <3>2 DEF Unsaid
  <2> QED
    BY <2>1, <2>2
<1> QED
  BY <1>1 DEF InStep

(* A new connection begins with the keys of the peer, and never silently.  *)
LEMMA Snapshot ==
    ASSUME NEW T \in SUBSET AllKeys, T # {}
    PROVE  LET s == SetToSeq({[key |-> k, present |-> TRUE] : k \in T})
           IN  /\ s \in Seq(Msgs) /\ s # << >>
               /\ {s[i] : i \in 1..Len(s)}
                    = {[key |-> k, present |-> TRUE] : k \in T}
               /\ \A i, j \in 1..Len(s) : s[i] = s[j] => i = j
               /\ \A k \in AllKeys : Knows({}, s, k) <=> k \in T
<1> DEFINE P == {[key |-> k, present |-> TRUE] : k \in T}
           s == SetToSeq(P)
           n == Cardinality(P)
<1>1. IsFiniteSet(P)
  <2> DEFINE f == [k \in T |-> Here(k)]
  <2>1. f \in Surjection(T, P)
    BY DEF Surjection, Here
  <2>2. IsFiniteSet(T)
    <3>1. IsFiniteSet(AllKeys)
      BY DerpMeshAssumption, FS_AddElement DEF AllKeys
    <3> QED
      BY <3>1, FS_Subset
  <2> HIDE DEF f, P
  <2> QED
    BY <2>1, <2>2, FS_Surjection
<1>2. P \subseteq Msgs /\ P # {}
  <2>1. \A k \in T : [key |-> k, present |-> TRUE] \in Msgs
    BY DEF Msgs
  <2> QED
    BY <2>1
<1>3. \A x \in P : x.key \in T /\ x = Here(x.key)
  BY DEF Here
<1>4. \A k \in T : Here(k) \in P
  BY DEF Here
<1> HIDE DEF P
<1>5. n \in Nat /\ ExistsBijection(1..n, P)
  BY <1>1, FS_CardinalityType
<1>6. \E f \in [1..n -> P] : IsInjective(f)
  BY <1>5 DEF ExistsBijection, Bijection, Injection
<1>7. s \in [1..n -> P] /\ IsInjective(s)
  BY <1>6 DEF SetToSeq
<1> HIDE DEF s
<1>8. s \in Injection(1..n, P)
  BY <1>7 DEF Injection
<1>9. s \in Surjection(1..n, P)
  <2>1. Cardinality(1..n) = n
    BY <1>5, FS_Interval
  <2> QED
    BY <1>1, <1>8, <2>1, FS_Injection
<1>10. s \in Seq(Msgs) /\ Len(s) = n
  BY <1>2, <1>5, <1>7
<1>11. s # << >>
  <2>1. PICK i \in 1..n : TRUE
    BY <1>2, <1>9 DEF Surjection
  <2> QED
    BY <1>5, <1>10, <2>1
<1>12. ASSUME NEW k \in AllKeys, Knows({}, s, k) PROVE k \in T
  <2>1. PICK i \in 0..n : i # 0 /\ s[i] = Here(k)
    BY <1>10, <1>12 DEF Knows, Here
  <2>2. i \in 1..n /\ Here(k).key = k
    BY <1>5, <2>1 DEF Here
  <2> QED
    BY <1>3, <1>7, <2>1, <2>2
<1>13. ASSUME NEW k \in T PROVE Knows({}, s, k)
  <2>1. PICK i \in 1..n : s[i] = Here(k)
    BY <1>4, <1>9 DEF Surjection
  <2>2. ASSUME NEW j \in (i + 1)..n, s[j].key = k PROVE FALSE
    <3>1. j \in 1..n /\ j # i
      BY <1>5
    <3>2. s[j] = Here(k)
      BY <1>3, <1>7, <2>2, <3>1
    <3> QED
      BY <1>8, <2>1, <3>1, <3>2 DEF Injection, IsInjective
  <2>3. i \in 0..n /\ i # 0
    BY <1>5
  <2> QED
    BY <1>10, <2>1, <2>2, <2>3 DEF Knows, Here
<1>14. {s[i] : i \in 1..Len(s)} = P
  BY <1>9, <1>10 DEF Surjection
<1>15. \A i, j \in 1..Len(s) : s[i] = s[j] => i = j
  BY <1>8, <1>10 DEF Injection, IsInjective
<1> QED
  BY <1>10, <1>11, <1>12, <1>13, <1>14, <1>15 DEF s, P

-----------------------------------------------------------------------------
(* The loops follow their peers.                                           *)

(* Over a connection to p the loop will know the keys of p, late notices   *)
(* apart; a connection that is new still has messages to tell so, and one  *)
(* that the loop has not noticed yet is new.                               *)
Follows(p) ==
    Linked(p) => /\ \A k \in Keys :
                      InStep(Learned(p), wire[p], theirs[p], noticed[p], k)
                 /\ fresh[p] => wire[p] # << >>
                 /\ link[p] = "renewed" => fresh[p]
FollowInv == \A p \in Peers : Follows(p)

(* A step that touches neither the loop nor the connection of a peer.      *)
Apart(p) ==
    /\ present'[p] = present[p] /\ hand'[p] = hand[p]
    /\ clearing'[p] = clearing[p] /\ fresh'[p] = fresh[p]
    /\ link'[p] = link[p] /\ wire'[p] = wire[p] /\ theirs'[p] = theirs[p]
    /\ noticed'[p] = noticed[p]

(* Such a step leaves what the loop will know alone.                       *)
LEMMA FollowsApart ==
    ASSUME NEW p \in Peers, Follows(p), Apart(p)
    PROVE  Follows(p)'
<1>1. Learned(p)' = Learned(p) /\ (Linked(p)' <=> Linked(p))
  BY DEF Apart, Learned, Linked
<1> QED
  BY <1>1 DEF Apart, Follows

(* The steps of the loop itself.                                           *)
LEMMA LoopFollows ==
    ASSUME LoopsOK, NEW p \in Peers, Follows(p), WatchLoop(p)
    PROVE  Follows(p)'
<1> USE DEF LoopsOK
<1>1. CASE Recv(p)
  <2>1. /\ hand[p] = None /\ ~clearing[p] /\ link[p] = "up"
        /\ wire[p] # << >> /\ wire[p] \in Seq(Msgs)
        /\ hand'[p] = Head(wire[p]) /\ wire'[p] = Tail(wire[p])
        /\ UNCHANGED <<present, link, theirs>>
    BY <1>1 DEF Recv
  <2>2. fresh'[p] = FALSE /\ clearing'[p] = fresh[p]
    BY <1>1 DEF Recv
  <2>3. Head(wire[p]) # None
    <3>1. Head(wire[p]) \in Msgs
      BY <2>1
    <3> QED
      BY <3>1, NoMessageAssumption DEF Msgs, AllKeys
  <2> DEFINE keys == IF fresh[p] THEN {} ELSE present[p]
  <2>4. Learned(p) = keys /\ Learned(p)' = Heard(keys, Head(wire[p]))
    BY <2>1, <2>2, <2>3 DEF Learned
  <2>5. \A k \in Keys : InStep(keys, wire[p], theirs[p], noticed[p], k)
    BY <2>1, <2>4 DEF Follows, Linked
  <2> HIDE DEF keys
  <2>6. \A k \in Keys :
            InStep(Heard(keys, Head(wire[p])), Tail(wire[p]), theirs[p],
                   noticed[p] \ {Head(wire[p]).key}, k)
    BY <2>1, <2>5, StepHead
  <2>7. noticed'[p] = noticed[p] \ {Head(wire[p]).key}
    BY <1>1 DEF Recv
  <2>8. \A k \in Keys : InStep(Learned(p)', wire'[p], theirs'[p], noticed'[p], k)
    BY <2>1, <2>4, <2>6, <2>7
  <2> QED
    BY <2>1, <2>2, <2>8 DEF Follows
<1>2. CASE RecvError(p)
  <2>1. /\ link[p] \in {"broken", "renewed"}
        /\ link'[p] = IF link[p] = "broken" THEN "down" ELSE "up"
        /\ UNCHANGED <<present, hand, fresh, wire, theirs, noticed>>
    BY <1>2 DEF RecvError
  <2>2. CASE link[p] = "broken"
    BY <2>1, <2>2 DEF Follows, Linked
  <2>3. CASE link[p] = "renewed"
    <3>1. fresh[p] /\ Linked(p) /\ link'[p] = "up"
      BY <2>1, <2>3 DEF Follows, Linked
    <3>2. Learned(p) = {} /\ Learned(p)' = {}
      BY <2>1, <3>1 DEF Learned
    <3> QED
      BY <2>1, <3>1, <3>2 DEF Follows
  <2> QED
    BY <2>1, <2>2, <2>3
<1>3. CASE ClearOne(p)
  <2>1. clearing[p] /\ UNCHANGED <<hand, clearing, link, fresh, wire, theirs, noticed>>
    BY <1>3 DEF ClearOne, remote
  <2>2. Learned(p)' = Learned(p)
    BY <2>1 DEF Learned
  <2> QED
    BY <2>1, <2>2 DEF Follows, Linked
<1>4. CASE ClearDone(p)
  <2>1. /\ clearing[p] /\ present[p] = {} /\ clearing'[p] = FALSE
        /\ UNCHANGED <<present, hand, link, fresh, wire, theirs, noticed>>
    BY <1>4 DEF ClearDone, remote
  <2>2. Learned(p)' = Learned(p)
    BY <2>1 DEF Learned
  <2> QED
    BY <2>1, <2>2 DEF Follows, Linked
<1>5. CASE Handle(p)
  <2>1. /\ hand[p] # None /\ ~clearing[p] /\ hand'[p] = None
        /\ UNCHANGED <<clearing, link, fresh, wire, theirs, noticed>>
    BY <1>5 DEF Handle, remote
  <2>2. present'[p] = Heard(present[p], hand[p])
    BY <1>5 DEF Handle, Heard
  <2>3. Learned(p)' = Learned(p)
    BY <2>1, <2>2 DEF Learned
  <2> QED
    BY <2>1, <2>3 DEF Follows, Linked
<1> QED
  BY <1>1, <1>2, <1>3, <1>4, <1>5 DEF WatchLoop

(* A notice is received, which may be the first of a connection.           *)
LEMMA NoticeFollows ==
    ASSUME LoopsOK, NEW p \in Peers, Follows(p), NEW q \in Keys, RecvNotice(p, q)
    PROVE  Follows(p)'
<1> DEFINE m == [key |-> q, present |-> FALSE]
           keys == IF fresh[p] THEN {} ELSE present[p]
<1>1. /\ hand[p] = None /\ ~clearing[p] /\ link[p] = "up"
      /\ wire[p] \in Seq(Msgs) /\ hand'[p] = m
      /\ noticed'[p] = noticed[p] \union {q}
      /\ UNCHANGED <<present, link, theirs, wire>>
  BY DEF RecvNotice, LoopsOK
<1>2. fresh'[p] = FALSE /\ clearing'[p] = fresh[p]
  BY DEF RecvNotice, LoopsOK
<1>3. m # None
  <2>1. m \in Msgs
    BY DEF Msgs, AllKeys
  <2> QED
    BY <2>1, NoMessageAssumption DEF Msgs, AllKeys
<1>4. Heard(keys, m) = keys \ {q}
  BY DEF Heard
<1> HIDE DEF m
<1>5. Learned(p) = keys /\ Learned(p)' = Heard(keys, m)
  BY <1>1, <1>2, <1>3 DEF Learned
<1>6. \A k \in Keys : InStep(keys, wire[p], theirs[p], noticed[p], k)
  BY <1>1, <1>5 DEF Follows, Linked
<1> HIDE DEF keys
<1>7. \A k \in Keys :
          InStep(keys \ {q}, wire[p], theirs[p], noticed[p] \union {q}, k)
  BY <1>1, <1>6, StepNotice
<1>8. \A k \in Keys : InStep(Learned(p)', wire'[p], theirs'[p], noticed'[p], k)
  BY <1>1, <1>4, <1>5, <1>7
<1> QED
  BY <1>1, <1>2, <1>8 DEF Follows

(* The peer tells a change, or nobody if there is no connection.           *)
LEMMA ToldFollows ==
    ASSUME LoopsOK, NEW p \in Peers, Follows(p), NEW k \in Keys,
           PeerPresent(p, k) \/ PeerGone(p, k)
    PROVE  Follows(p)'
<1>1. \/ /\ Told(p, k, TRUE)
         /\ theirs' = [theirs EXCEPT ![p] = @ \union {k}]
      \/ /\ Told(p, k, FALSE)
         /\ theirs' = [theirs EXCEPT ![p] = @ \ {k}]
  BY DEF PeerPresent, PeerGone
<1>2. PICK c \in BOOLEAN :
        /\ Told(p, k, c)
        /\ \A x \in Keys : x \in theirs'[p] <=> IF x = k THEN c ELSE x \in theirs[p]
  <2>1. CASE /\ Told(p, k, TRUE)
             /\ theirs' = [theirs EXCEPT ![p] = @ \union {k}]
    <3>1. theirs'[p] = theirs[p] \union {k}
      BY <2>1 DEF LoopsOK
    <3>2. \A x \in Keys : x \in theirs'[p] <=> IF x = k THEN TRUE ELSE x \in theirs[p]
      BY <3>1
    <3> QED
      BY <2>1, <3>2
  <2>2. CASE /\ Told(p, k, FALSE)
             /\ theirs' = [theirs EXCEPT ![p] = @ \ {k}]
    <3>1. theirs'[p] = theirs[p] \ {k}
      BY <2>2 DEF LoopsOK
    <3>2. \A x \in Keys : x \in theirs'[p] <=> IF x = k THEN FALSE ELSE x \in theirs[p]
      BY <3>1
    <3> QED
      BY <2>2, <3>2
  <2> QED
    BY <1>1, <2>1, <2>2
<1> DEFINE d == [key |-> k, present |-> c]
<1>3. /\ UNCHANGED <<present, hand, clearing, link, fresh, noticed>>
      /\ Linked(p) => wire'[p] = Append(wire[p], d)
  BY <1>2 DEF Told, loop, LoopsOK
<1>4. Learned(p)' = Learned(p) /\ (Linked(p)' <=> Linked(p))
  BY <1>3 DEF Learned, Linked
<1>5. d \in Msgs /\ d.key = k /\ d.present = c /\ wire[p] \in Seq(Msgs)
  BY DEF Msgs, AllKeys, LoopsOK
<1> HIDE DEF d
<1> SUFFICES ASSUME Linked(p)
             PROVE  /\ \A x \in Keys :
                         InStep(Learned(p), wire'[p], theirs'[p], noticed[p], x)
                    /\ wire'[p] # << >> /\ link[p] = "renewed" => fresh[p]
  BY <1>3, <1>4 DEF Follows
<1>6. wire'[p] = Append(wire[p], d) /\ wire'[p] # << >>
  BY <1>3, <1>5
<1>7. ASSUME NEW x \in Keys
      PROVE  InStep(Learned(p), wire'[p], theirs'[p], noticed[p], x)
  <2>1. InStep(Learned(p), wire[p], theirs[p], noticed[p], x)
    BY DEF Follows
  <2>2. x \in theirs'[p] <=> IF d.key = x THEN d.present ELSE x \in theirs[p]
    BY <1>2, <1>5
  <2>3. InStep(Learned(p), Append(wire[p], d), theirs'[p], noticed[p], x)
    BY <1>5, <2>1, <2>2, StepAppend
  <2> QED
    BY <1>6, <2>3
<1> QED
  BY <1>6, <1>7 DEF Follows

(* A connection starts with the keys of the peer.                          *)
LEMMA ConnectFollows ==
    ASSUME LoopsOK, NEW p \in Peers, Connect(p)
    PROVE  Follows(p)'
<1> DEFINE T == theirs[p] \union {Self}
           s == SetToSeq({[key |-> k, present |-> TRUE] : k \in T})
<1>1. /\ wire'[p] = s /\ theirs' = theirs
  BY DEF Connect, LoopsOK
<1>2. fresh'[p] = TRUE
  BY DEF Connect, LoopsOK
<1>3. T \in SUBSET AllKeys /\ T # {}
  BY DEF LoopsOK, AllKeys
<1> HIDE DEF T
<1>4. s # << >> /\ \A k \in AllKeys : Knows({}, s, k) <=> k \in T
  BY <1>3, Snapshot
<1> HIDE DEF s
<1>5. \A k \in Keys : k \in AllKeys /\ (k \in T <=> k \in theirs[p])
  BY DerpMeshAssumption DEF T, AllKeys
<1>6. Learned(p)' = {}
  BY <1>2 DEF Learned
<1>7. \A k \in Keys : Knows({}, s, k) <=> k \in theirs[p]
  BY <1>4, <1>5
<1>8. \A k \in Keys : InStep(Learned(p)', wire'[p], theirs'[p], noticed'[p], k)
  <2>1. \A k \in Keys : InStep({}, s, theirs[p], noticed'[p], k)
    BY <1>7 DEF InStep
  <2> QED
    BY <1>1, <1>6, <2>1
<1> QED
  BY <1>1, <1>2, <1>4, <1>8 DEF Follows

(* Every step keeps every loop in line with its peer.                      *)
LEMMA FollowStep ==
    ASSUME LoopsOK, FollowInv, [Next]_vars
    PROVE  FollowInv'
<1> SUFFICES ASSUME NEW p \in Peers PROVE Follows(p)'
  BY DEF FollowInv
<1>0. Follows(p)
  BY DEF FollowInv
<1>1. CASE \/ UNCHANGED vars
           \/ \E k \in Keys : RegisterClient(k) \/ UnregisterClient(k)
  <2>1. UNCHANGED <<present, hand, clearing, fresh, link, wire, theirs, noticed>>
    BY <1>1 DEF vars, loop, remote, RegisterClient, UnregisterClient
  <2> QED
    BY <1>0, <2>1, FollowsApart DEF Apart
<1>2. ASSUME NEW q \in Peers, q # p,
             \/ WatchLoop(q) \/ Break(q) \/ Connect(q)
             \/ \E k \in Keys : \/ RecvNotice(q, k) \/ PeerNotHere(q, k)
                                \/ PeerPresent(q, k) \/ PeerGone(q, k)
      PROVE  Follows(p)'
  <2> USE DEF LoopsOK
  <2>1. CASE WatchLoop(q)
    <3>1. ASSUME Recv(q) PROVE Apart(p)
      BY <1>2, <3>1 DEF Recv, Apart
    <3>2. ASSUME RecvError(q) PROVE Apart(p)
      BY <1>2, <3>2 DEF RecvError, Apart
    <3>3. ASSUME ClearOne(q) PROVE Apart(p)
      BY <1>2, <3>3 DEF ClearOne, Apart, remote
    <3>4. ASSUME ClearDone(q) PROVE Apart(p)
      BY <1>2, <3>4 DEF ClearDone, Apart, remote
    <3>5. ASSUME Handle(q) PROVE Apart(p)
      BY <1>2, <3>5 DEF Handle, Apart, remote
    <3>6. Apart(p)
      BY <2>1, <3>1, <3>2, <3>3, <3>4, <3>5 DEF WatchLoop
    <3> QED
      BY <1>0, <3>6, FollowsApart
  <2>2. CASE Break(q)
    <3>1. Apart(p)
      BY <1>2, <2>2 DEF Break, loop, Apart
    <3> QED
      BY <1>0, <3>1, FollowsApart
  <2>3. CASE Connect(q)
    <3>1. Apart(p)
      BY <1>2, <2>3 DEF Connect, loop, Apart
    <3> QED
      BY <1>0, <3>1, FollowsApart
  <2>4. ASSUME NEW k \in Keys, PeerPresent(q, k) \/ PeerGone(q, k)
        PROVE  Follows(p)'
    <3>1. Apart(p)
      BY <1>2, <2>4 DEF PeerPresent, PeerGone, Told, loop, Apart
    <3> QED
      BY <1>0, <3>1, FollowsApart
  <2>5. ASSUME NEW k \in Keys, RecvNotice(q, k) \/ PeerNotHere(q, k)
        PROVE  Follows(p)'
    <3>1. Apart(p)
      BY <1>2, <2>5 DEF RecvNotice, PeerNotHere, loop, Apart
    <3> QED
      BY <1>0, <3>1, FollowsApart
  <2> QED
    BY <1>2, <2>1, <2>2, <2>3, <2>4, <2>5
<1>3. CASE Break(p)
  <2>1. link'[p] = "broken"
    BY <1>3 DEF Break, LoopsOK
  <2> QED
    BY <2>1 DEF Follows, Linked
<1>4. CASE WatchLoop(p) \/ Connect(p)
           \/ \E k \in Keys : RecvNotice(p, k) \/ PeerPresent(p, k) \/ PeerGone(p, k)
  BY <1>0, <1>4, LoopFollows, NoticeFollows, ConnectFollows, ToldFollows
<1>5. ASSUME NEW k \in Keys, PeerNotHere(p, k) PROVE Follows(p)'
  <2>1. Apart(p)
    BY <1>5 DEF PeerNotHere, loop, Apart
  <2> QED
    BY <1>0, <2>1, FollowsApart
<1> QED
  BY <1>1, <1>2, <1>3, <1>4, <1>5 DEF Next

(* The loops of mesh_client.go follow their peers in every behaviour.      *)
LEMMA Following == Spec => []FollowInv
<1>1. Init => FollowInv
  BY DEF Init, FollowInv, Follows, Linked
<1>2. IInv /\ FollowInv /\ [Next]_vars => FollowInv'
  BY FollowStep DEF IInv
<1> QED
  BY <1>1, <1>2, Inductive, PTL DEF Spec

(* LoopInSync: whoever made the connection and whatever the loop was doing *)
(* at the time, what is under way makes the keys of the loop those of the  *)
(* peer, but for what a late notice took away; the connection number that  *)
(* RecvDetail returns is what it rests on.                                 *)
THEOREM LoopsInSync == Spec => []LoopInSync
<1>1. FollowInv => LoopInSync
  BY DEF FollowInv, Follows, InStep, LoopInSync
<1> QED
  BY <1>1, Following, PTL

(* SettledMesh: a loop that has heard everything its connection said has   *)
(* made its peer the forwarder of no key that the peer has not, and of all *)
(* it has but those of which a late notice was the last that was received; *)
(* the safety core of MeshConverges.                                       *)
THEOREM MeshSettles == Spec => []SettledMesh
<1>1. IInv /\ FollowInv => SettledMesh
  <2> SUFFICES ASSUME IInv, FollowInv, NEW p \in Peers, NEW k \in Keys,
                      link[p] = "up", wire[p] = << >>, hand[p] = None,
                      ~clearing[p]
               PROVE  /\ p \in Forwarders(clientsMesh[k]) => k \in theirs[p]
                      /\ k \in theirs[p] \ noticed[p]
                           => p \in Forwarders(clientsMesh[k])
    BY DEF SettledMesh
  <2>1. Follows(p) /\ Linked(p)
    BY DEF FollowInv, Linked
  <2>2. ~fresh[p]
    BY <2>1 DEF Follows
  <2>3. Learned(p) = present[p]
    BY <2>2 DEF Learned
  <2>4. InStep(present[p], wire[p], theirs[p], noticed[p], k)
    BY <2>1, <2>3 DEF Follows
  <2>5. Len(wire[p]) = 0
    OBVIOUS
  <2>6. Knows(present[p], wire[p], k) <=> k \in present[p]
    BY <2>5 DEF Knows
  <2>7. p \in Forwarders(clientsMesh[k]) <=> k \in present[p]
    BY DEF IInv, MatchInv, Has, AllKeys
  <2> QED
    BY <2>4, <2>6, <2>7 DEF InStep
<1> QED
  BY <1>1, Inductive, Following, PTL

-----------------------------------------------------------------------------
(* What the peers are assumed to do.                                       *)

(* A feed opens with every key of T, once.                                 *)
Opens(s, T) ==
    /\ {s[i] : i \in 1..Len(s)} = {Present(k) : k \in T}
    /\ \A i, j \in 1..Len(s) : s[i] = s[j] => i = j

(* A step that leaves the connection of p alone is none of its feed.       *)
LEMMA FeedApart ==
    ASSUME NEW p \in Peers, theirs'[p] = theirs[p], wire'[p] = wire[p],
           notices'[p] = notices[p], Linked(p)' <=> Linked(p)
    PROVE  UNCHANGED Feed(p)!vars
<1>1. Linked(p) \in BOOLEAN /\ Linked(p)' \in BOOLEAN
  BY DEF Linked
<1>2. Linked(p)' = Linked(p)
  BY <1>1
<1> QED
  BY <1>2 DEF Feed!vars

(* Every step is one of the feed of p, or none of its business.            *)
LEMMA FeedStep ==
    ASSUME LoopsOK, NEW p \in Peers, [Next]_vars
    PROVE  [Feed(p)!Next]_(Feed(p)!vars)
<1> USE DEF LoopsOK
<1>1. CASE \/ UNCHANGED vars
           \/ \E k \in Keys : RegisterClient(k) \/ UnregisterClient(k)
           \/ \E q \in Peers : ClearOne(q) \/ ClearDone(q) \/ Handle(q)
  <2>1. UNCHANGED <<theirs, wire, notices, link>>
    BY <1>1 DEF vars, remote, RegisterClient, UnregisterClient, ClearOne,
                ClearDone, Handle
  <2> QED
    BY <2>1, FeedApart DEF Linked
<1>2. ASSUME NEW q \in Peers, RecvError(q) PROVE UNCHANGED Feed(p)!vars
  <2>1. UNCHANGED <<theirs, wire, notices>> /\ (Linked(p)' <=> Linked(p))
    BY <1>2 DEF RecvError, Linked
  <2> QED
    BY <2>1, FeedApart
<1>3. ASSUME NEW q \in Peers, q # p,
             \/ Recv(q) \/ Break(q) \/ Connect(q)
             \/ \E k \in Keys : \/ RecvNotice(q, k) \/ PeerNotHere(q, k)
                                \/ PeerPresent(q, k) \/ PeerGone(q, k)
      PROVE  UNCHANGED Feed(p)!vars
  <2>1. /\ theirs'[p] = theirs[p] /\ wire'[p] = wire[p]
        /\ notices'[p] = notices[p] /\ link'[p] = link[p]
    BY <1>3 DEF Recv, RecvNotice, Break, Connect, PeerPresent, PeerGone,
                PeerNotHere, Told
  <2> QED
    BY <2>1, FeedApart DEF Linked
<1>4. CASE Recv(p)
  <2>1. /\ Linked(p) /\ wire[p] # << >> /\ wire'[p] = Tail(wire[p])
        /\ UNCHANGED <<theirs, notices, link>>
    BY <1>4 DEF Recv, Linked
  <2>2. Feed(p)!Deliver
    BY <2>1 DEF Feed!Deliver, Linked
  <2> QED
    BY <2>2 DEF Feed!Next
<1>5. CASE Break(p)
  <2>1. /\ Linked(p) /\ wire'[p] = << >> /\ link'[p] = "broken"
        /\ notices'[p] = {} /\ UNCHANGED theirs
    BY <1>5 DEF Break
  <2>2. Feed(p)!Shut
    BY <2>1 DEF Feed!Shut, Linked, AllKeys
  <2> QED
    BY <2>2 DEF Feed!Next
<1>6. CASE Connect(p)
  <2> DEFINE T == theirs[p] \union {Self}
             s == SetToSeq({[key |-> k, present |-> TRUE] : k \in T})
  <2>1. ~Linked(p) /\ wire'[p] = s /\ UNCHANGED <<theirs, notices>>
    BY <1>6 DEF Connect
  <2>2. Linked(p)'
    BY <1>6 DEF Connect, Linked
  <2>3. T \in SUBSET AllKeys /\ T # {}
    BY DEF AllKeys
  <2>4. Opens(s, T)
    <3> HIDE DEF T
    <3> QED
      BY <2>3, Snapshot DEF Opens, Present
  <2> HIDE DEF s
  <2>5. Feed(p)!Open
    <3>1. Opens(wire'[p], theirs[p] \union {Self})
      BY <2>1, <2>4
    <3>2. /\ theirs'[p] = theirs[p] /\ notices'[p] = notices[p]
          /\ Linked(p)' = TRUE /\ ~Linked(p)
      BY <2>1, <2>2 DEF Linked
    <3> QED
      BY <3>1, <3>2, Zenon DEF Feed!Open, Opens
  <2> QED
    BY <2>5 DEF Feed!Next
<1>7. ASSUME NEW k \in Keys, PeerPresent(p, k) PROVE Feed(p)!Next
  <2>1. /\ theirs'[p] \union {Self} = (theirs[p] \union {Self}) \union {k}
        /\ UNCHANGED <<link, notices>>
        /\ wire'[p] = IF Linked(p) THEN Append(wire[p], Present(k)) ELSE wire[p]
    BY <1>7 DEF PeerPresent, Told, Present
  <2>2. Feed(p)!Come(k)
    BY <2>1 DEF Feed!Come, Feed!Say, Linked
  <2> QED
    BY <2>2 DEF Feed!Next, AllKeys
<1>8. ASSUME NEW k \in Keys, PeerGone(p, k) PROVE Feed(p)!Next
  <2>1. /\ k \in theirs[p] /\ theirs'[p] = theirs[p] \ {k}
        /\ UNCHANGED <<link, notices>>
        /\ wire'[p] = IF Linked(p) THEN Append(wire[p], Gone(k)) ELSE wire[p]
    BY <1>8 DEF PeerGone, Told, Gone
  <2>2. theirs'[p] \union {Self} = (theirs[p] \union {Self}) \ {k}
    BY <2>1, DerpMeshAssumption
  <2>3. Feed(p)!Go(k)
    BY <2>1, <2>2 DEF Feed!Go, Feed!Say, Linked
  <2> QED
    BY <2>3 DEF Feed!Next, AllKeys
<1>9. ASSUME NEW k \in Keys, PeerNotHere(p, k) PROVE Feed(p)!Next
  <2>1. /\ k \notin theirs[p] \union {Self}
        /\ notices'[p] = notices[p] \union {k}
        /\ UNCHANGED <<theirs, link, wire>>
    BY <1>9, DerpMeshAssumption DEF PeerNotHere
  <2>2. Feed(p)!Ask(k)
    BY <2>1 DEF Feed!Ask, Linked
  <2> QED
    BY <2>2 DEF Feed!Next, AllKeys
<1>10. ASSUME NEW k \in Keys, RecvNotice(p, k) PROVE Feed(p)!Next
  <2>1. /\ k \in notices[p] /\ notices'[p] \in {notices[p], notices[p] \ {k}}
        /\ UNCHANGED <<theirs, link, wire>>
    BY <1>10 DEF RecvNotice
  <2>2. Feed(p)!Notice(k)
    BY <2>1 DEF Feed!Notice, Linked
  <2> QED
    BY <2>2 DEF Feed!Next, AllKeys
<1> QED
  BY <1>1, <1>2, <1>3, <1>4, <1>5, <1>6, <1>7, <1>8, <1>9, <1>10
     DEF Next, WatchLoop

(* Of each of its peers this server assumes the contract PeerFeed, and no  *)
(* more: the module DerpClients, which models such a peer, keeps it (the   *)
(* theorem FeedImplemented there).                                         *)
THEOREM FeedAssumed ==
    ASSUME NEW p \in Peers
    PROVE  Spec => Feed(p)!Spec
<1>1. Init => Feed(p)!Init
  BY DEF Init, Feed!Init, Linked, AllKeys
<1>2. IInv /\ [Next]_vars => [Feed(p)!Next]_(Feed(p)!vars)
  BY FeedStep DEF IInv
<1> QED
  BY <1>1, <1>2, Inductive, PTL DEF Spec, Feed!Spec

=============================================================================
