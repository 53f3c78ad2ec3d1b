-------------------------- MODULE DerpClientsProofs --------------------------
(***************************************************************************)
(* Proofs about DerpClients, for any finite number of connections and      *)
(* keys.  That the sets match the connections needs a fact the code        *)
(* nowhere states: at most one member of a dupClientSet is missing from    *)
(* its sendHistory, so that removeClient always finds a successor as long  *)
(* as two members are left.  That a watcher is in sync needs that one who  *)
(* is no watcher has nothing queued and was told nothing.  From both it    *)
(* follows that the server keeps the contract PeerFeed, and from PendInv   *)
(* that no change waits in a queue which nobody is going to look at.       *)
(***************************************************************************)
EXTENDS DerpClients, FiniteSetTheorems, TLAPS

Msgs == [peer : Keys, present : BOOLEAN]
DupSets == [set : SUBSET Conns, last : Conns \union {None}, history : Seq(Conns)]

(* The connections there are, and those of them that share their key.      *)
Live == {c \in Conns : life[c] # "off"}
SharedConns == {c \in Live : KeyOf[c] \in Shared}

LocalTypes ==
    /\ life \in [Conns -> {"off", "on", "closing"}]
    /\ active \in [Keys -> Conns \union {None}]
    /\ dup \in [Keys -> DupSets]
    /\ isDup \subseteq Live /\ noting \subseteq Conns

OutboxTypes ==
    /\ watchers \subseteq CanMesh
    /\ changes \in [Conns -> Seq(Msgs)] /\ batch \in [Conns -> Seq(Msgs)]
    /\ request \in [Conns -> BOOLEAN] /\ token \in [Conns -> BOOLEAN]
    /\ sender \in [Conns -> {"select", "busy", "mesh"}]
    /\ notices \in [Conns -> SUBSET Keys] /\ told \in [Conns -> SUBSET Keys]
    /\ noticed \in [Conns -> SUBSET Keys]

(* The clientSet of a key whose connections are cs.                        *)
KeyOK(k, cs) ==
    /\ active[k] \in (IF cs = {} THEN {None} ELSE cs)
    /\ cs \intersect isDup = dup[k].set
    /\ IF Cardinality(cs) > 1
         THEN dup[k].set = cs /\ dup[k].last = active[k]
         ELSE dup[k] = NoDup

(* Every member of the dup set, except perhaps one, is in the history.     *)
Missing(k) == {c \in dup[k].set : \A i \in 1..Len(dup[k].history) :
                                      dup[k].history[i] # c}

(* A sendHistory has no adjacent duplicates.                               *)
NoRepeats(h) == \A i \in 1..Len(h) : i > 1 => h[i] # h[i - 1]

Noting(k) == {c \in noting : KeyOf[c] = k}

HistoryOK(k) ==
    /\ dup[k].history \in Seq(dup[k].set) /\ NoRepeats(dup[k].history)
    /\ \A c, d \in Missing(k) : c = d
    /\ Len(dup[k].history) + Cardinality(Noting(k)) <= MaxHistory

Gauges ==
    /\ cur = Cardinality(Live)
    /\ dupConns = Cardinality(SharedConns)
    /\ dupKeys = Cardinality(Shared)

LocalInv ==
    /\ LocalTypes /\ Gauges
    /\ \A c \in noting : life[c] = "on"
    /\ \A k \in Keys : KeyOK(k, Connected(k)) /\ HistoryOK(k)

(* One that is not a watcher was told nothing.                             *)
Silent ==
    \A c \in Conns \ watchers :
        /\ changes[c] = << >> /\ batch[c] = << >>
        /\ told[c] = {} /\ notices[c] = {} /\ noticed[c] = {}

WatchInv == /\ OutboxTypes /\ Silent /\ WatcherInSync
            /\ \A w \in watchers : life[w] # "off"

IInv == LocalInv /\ WatchInv

-----------------------------------------------------------------------------
(* The loop of removeClient.                                               *)

(* A set of natural numbers that is not empty has a least element.         *)
LEMMA NatMin ==
    ASSUME NEW T \in SUBSET Nat, T # {}
    PROVE  \E x \in T : \A y \in T : x <= y
<1>1. PICK x \in T : \A y \in T : ~(<<y, x>> \in OpToRel(<, Nat))
  BY WFMin, NatLessThanWellFounded
<1>2. \A y \in T : ~(y < x)
  BY <1>1 DEF OpToRel
<1> QED
  BY <1>2

(* One turn of the loop, and what holds of trim after i turns.             *)
TrimStep(t, x, set) ==
    IF x \in set /\ (t = << >> \/ Last(t) # x) THEN Append(t, x) ELSE t

TrimOK(t, h, set, i) ==
    /\ t \in Seq(set) /\ Len(t) <= i /\ NoRepeats(t)
    /\ \A j \in 1..i : h[j] \in set => \E m \in 1..Len(t) : t[m] = h[j]

(* One turn of the loop of removeClient keeps what TrimOK says of it.      *)
LEMMA TrimTurn ==
    ASSUME NEW h, NEW set, NEW n \in Nat, NEW t, TrimOK(t, h, set, n)
    PROVE  TrimOK(TrimStep(t, h[n + 1], set), h, set, n + 1)
<1> DEFINE x == h[n + 1]
           u == TrimStep(t, x, set)
<1>1. t \in Seq(set) /\ Len(t) \in Nat /\ Len(t) <= n  BY DEF TrimOK
<1>2. CASE x \in set /\ (t = << >> \/ Last(t) # x)
  <2>1. u = Append(t, x)  BY <1>2 DEF TrimStep
  <2>2. /\ u \in Seq(set) /\ Len(u) = Len(t) + 1 /\ u[Len(u)] = x
        /\ \A m \in 1..Len(t) : u[m] = t[m]
    BY <1>1, <1>2, <2>1
  <2> HIDE DEF u
  <2>3. NoRepeats(u)
    <3> SUFFICES ASSUME NEW i \in 1..Len(u), i > 1
                 PROVE  u[i] # u[i - 1]
      BY DEF NoRepeats
    <3>1. CASE i \in 1..Len(t)
      BY <1>1, <2>2, <3>1 DEF TrimOK, NoRepeats
    <3>2. CASE i = Len(u)
      <4>1. i - 1 = Len(t) /\ i - 1 \in 1..Len(t)  BY <1>1, <2>2, <3>2
      <4>2. u[i - 1] = Last(t) /\ t # << >>  BY <1>1, <2>2, <4>1 DEF Last
      <4> QED  BY <1>2, <2>2, <3>2, <4>2
    <3> QED  BY <1>1, <2>2, <3>1, <3>2
  <2>4. \A j \in 1..(n + 1) : h[j] \in set => \E m \in 1..Len(u) : u[m] = h[j]
    <3> SUFFICES ASSUME NEW j \in 1..(n + 1), h[j] \in set
                 PROVE  \E m \in 1..Len(u) : u[m] = h[j]
      OBVIOUS
    <3>1. CASE j = n + 1
      <4>1. Len(u) \in 1..Len(u)  BY <1>1, <2>2
      <4> QED  BY <2>2, <3>1, <4>1
    <3>2. CASE j \in 1..n
      <4>1. PICK m \in 1..Len(t) : t[m] = h[j]  BY <3>2 DEF TrimOK
      <4> QED  BY <1>1, <2>2, <4>1
    <3> QED  BY <3>1, <3>2
  <2> QED  BY <1>1, <2>2, <2>3, <2>4 DEF TrimOK, u
<1>3. CASE ~(x \in set /\ (t = << >> \/ Last(t) # x))
  <2>1. u = t  BY <1>3 DEF TrimStep
  <2>2. x \in set => Len(t) \in 1..Len(t) /\ t[Len(t)] = x
    BY <1>1, <1>3 DEF Last
  <2>3. \A j \in 1..(n + 1) : h[j] \in set => \E m \in 1..Len(t) : t[m] = h[j]
    <3> SUFFICES ASSUME NEW j \in 1..(n + 1), h[j] \in set
                 PROVE  \E m \in 1..Len(t) : t[m] = h[j]
      OBVIOUS
    <3>1. CASE j = n + 1  BY <2>2, <3>1
    <3>2. CASE j \in 1..n  BY <3>2 DEF TrimOK
    <3> QED  BY <3>1, <3>2
  <2> QED  BY <1>1, <2>1, <2>3 DEF TrimOK
<1> QED  BY <1>2, <1>3

(* The loop, as a function of the number of its turns.                     *)
IsTrim(g, h, set, n) ==
    g = [i \in 0..n |->
            IF i = 0 THEN << >>
            ELSE IF h[i] \in set /\ (g[i - 1] = << >> \/ Last(g[i - 1]) # h[i])
            THEN Append(g[i - 1], h[i])
            ELSE g[i - 1]]

(* A function as the recursive definition of trim asks for exists, for a   *)
(* history of every length.                                                *)
LEMMA TrimExists ==
    ASSUME NEW h, NEW set, NEW n \in Nat
    PROVE  \E g : IsTrim(g, h, set, n)
<1> DEFINE B == {m \in Nat : ~\E g : IsTrim(g, h, set, m)}
<1> SUFFICES ASSUME B # {} PROVE FALSE
  OBVIOUS
<1>1. PICK m \in B : \A y \in B : m <= y
  BY NatMin
<1>2. CASE m = 0
  <2> DEFINE g == [i \in 0..0 |-> << >>]
  <2>1. g[0] = << >>  OBVIOUS
  <2>2. IsTrim(g, h, set, 0)  BY DEF IsTrim
  <2> QED  BY <1>1, <1>2, <2>2
<1>3. CASE m # 0
  <2>1. m - 1 \in Nat /\ m - 1 \notin B  BY <1>1, <1>3
  <2>2. PICK g : IsTrim(g, h, set, m - 1)  BY <2>1
  <2> DEFINE f == [i \in 0..m |->
                      IF i = m THEN TrimStep(g[m - 1], h[m], set) ELSE g[i]]
  <2>3. \A i \in 0..(m - 1) : f[i] = g[i]  BY <1>3
  <2>4. f[m] = TrimStep(g[m - 1], h[m], set) /\ f[m - 1] = g[m - 1]
    BY <1>3, <2>1
  <2> DEFINE body(w, i) ==
        IF i = 0 THEN << >>
        ELSE IF h[i] \in set /\ (w[i - 1] = << >> \/ Last(w[i - 1]) # h[i])
        THEN Append(w[i - 1], h[i])
        ELSE w[i - 1]
  <2>5. \A i \in 0..m : f[i] = body(f, i)
    <3> SUFFICES ASSUME NEW i \in 0..m PROVE f[i] = body(f, i)
      OBVIOUS
    <3>1. CASE i = m
      BY <1>3, <2>4, <3>1 DEF TrimStep
    <3>2. CASE i \in 0..(m - 1)
      <4>1. g[i] = body(g, i)  BY <2>2, <3>2 DEF IsTrim
      <4>2. i = 0 \/ i - 1 \in 0..(m - 1)  BY <3>2, <2>1
      <4>3. f[i] = g[i] /\ (i # 0 => f[i - 1] = g[i - 1])
        BY <2>3, <3>2, <4>2
      <4> HIDE DEF f
      <4> QED  BY <4>1, <4>3
    <3> QED  BY <3>1, <3>2, <2>1
  <2>6. f = [i \in 0..m |-> f[i]]  OBVIOUS
  <2> HIDE DEF f
  <2>7. IsTrim(f, h, set, m)  BY <2>5, <2>6 DEF IsTrim
  <2> QED  BY <1>1, <2>7
<1> QED  BY <1>2, <1>3

(* Whatever removeClient keeps was there, adjacent duplicates are removed  *)
(* again, and no member of the set is lost.                                *)
LEMMA TrimmedOK ==
    ASSUME NEW S, NEW h \in Seq(S), NEW set
    PROVE  TrimOK(Trimmed(h, set), h, set, Len(h))
<1> DEFINE n == Len(h)
           g == CHOOSE g : IsTrim(g, h, set, n)
<1>0. n \in Nat  OBVIOUS
<1>1. Trimmed(h, set) = g[n]  BY DEF Trimmed, IsTrim
<1>2. IsTrim(g, h, set, n)  BY <1>0, TrimExists
<1> HIDE DEF g
<1>3. /\ g[0] = << >>
      /\ \A i \in 1..n : g[i] = TrimStep(g[i - 1], h[i], set)
  <2> DEFINE G == [i \in 0..n |->
            IF i = 0 THEN << >>
            ELSE IF h[i] \in set /\ (g[i - 1] = << >> \/ Last(g[i - 1]) # h[i])
            THEN Append(g[i - 1], h[i])
            ELSE g[i - 1]]
  <2>1. g = G  BY <1>2 DEF IsTrim
  <2>2. 0 \in 0..n /\ G[0] = << >>  BY <1>0
  <2>3. \A i \in 1..n : G[i] = TrimStep(g[i - 1], h[i], set)
    BY <1>0 DEF TrimStep
  <2> HIDE DEF G
  <2> QED  BY <2>1, <2>2, <2>3
<1> DEFINE B == {m \in 0..n : ~TrimOK(g[m], h, set, m)}
<1>4. B = {}
  <2> SUFFICES ASSUME B # {} PROVE FALSE
    OBVIOUS
  <2>0. B \in SUBSET Nat  BY <1>0
  <2>1. PICK m \in B : \A y \in B : m <= y
    BY <2>0, NatMin
  <2>2. CASE m = 0
    <3>1. TrimOK(<< >>, h, set, 0)  BY DEF TrimOK, NoRepeats
    <3> QED  BY <1>3, <2>1, <2>2, <3>1
  <2>3. CASE m # 0
    <3>1. m - 1 \in 0..n /\ m - 1 \in Nat /\ m \in 1..n /\ (m - 1) + 1 = m
      BY <1>0, <2>0, <2>1, <2>3
    <3>2. TrimOK(g[m - 1], h, set, m - 1)  BY <2>1, <3>1
    <3>3. TrimOK(TrimStep(g[m - 1], h[(m - 1) + 1], set), h, set, (m - 1) + 1)
      BY <3>1, <3>2, TrimTurn
    <3>4. TrimOK(g[m], h, set, m)  BY <1>3, <3>1, <3>3
    <3> QED  BY <2>1, <3>4
  <2> QED  BY <2>2, <2>3
<1> QED  BY <1>0, <1>1, <1>4

-----------------------------------------------------------------------------
(* Sets of connections.                                                    *)

(* What Append does to the places of a sequence.                           *)
LEMMA Appended ==
    ASSUME NEW S, NEW s \in Seq(S), NEW x \in S
    PROVE  /\ Append(s, x) \in Seq(S)
           /\ Len(s) \in Nat /\ Len(Append(s, x)) = Len(s) + 1
           /\ \A i \in 1..Len(s) : Append(s, x)[i] = s[i]
           /\ Append(s, x)[Len(s) + 1] = x
OBVIOUS

(* How many members a finite set has.                                      *)
LEMMA Several ==
    ASSUME NEW S, IsFiniteSet(S)
    PROVE  /\ Cardinality(S) \in Nat
           /\ Cardinality(S) = 0 <=> S = {}
           /\ Cardinality(S) = 1 <=> \E x : S = {x}
BY FS_CardinalityType, FS_EmptySet, FS_Singleton

(* Every set of connections, or of keys, is finite.                        *)
LEMMA Finite ==
    /\ \A T \in SUBSET Conns : IsFiniteSet(T) /\ Cardinality(T) \in Nat
    /\ \A T \in SUBSET Keys : IsFiniteSet(T) /\ Cardinality(T) \in Nat
BY DerpClientsAssumption, FS_Subset, FS_CardinalityType

(* What the invariant says of one key.                                     *)
LEMMA KeyFacts ==
    ASSUME LocalInv, NEW k \in Keys
    PROVE  /\ Connected(k) \in SUBSET Conns /\ IsFiniteSet(Connected(k))
           /\ Cardinality(Connected(k)) \in Nat
           /\ Noting(k) \in SUBSET Connected(k) /\ Cardinality(Noting(k)) \in Nat
           /\ dup[k] \in DupSets /\ dup[k].history \in Seq(dup[k].set)
           /\ Len(dup[k].history) \in Nat
           /\ KeyOK(k, Connected(k)) /\ HistoryOK(k)
           /\ dup[k] = NoDup <=> Cardinality(Connected(k)) <= 1
           /\ active[k] = None <=> Connected(k) = {}
           /\ k \in Shared <=> Cardinality(Connected(k)) > 1
<1>1. /\ Connected(k) \in SUBSET Conns /\ IsFiniteSet(Connected(k))
      /\ Cardinality(Connected(k)) \in Nat
  BY Finite DEF Connected
<1>2. Noting(k) \in SUBSET Connected(k) /\ Cardinality(Noting(k)) \in Nat
  <2>1. Noting(k) \in SUBSET Conns  BY DEF LocalInv, LocalTypes, Noting
  <2>2. Noting(k) \in SUBSET Connected(k)
    BY DEF LocalInv, LocalTypes, Noting, Connected
  <2> QED  BY <2>1, <2>2, Finite
<1>3. KeyOK(k, Connected(k)) /\ HistoryOK(k) /\ dup[k] \in DupSets
  BY DEF LocalInv, LocalTypes
<1>4. dup[k].history \in Seq(dup[k].set) /\ Len(dup[k].history) \in Nat
  BY <1>3 DEF HistoryOK
<1>5. dup[k] = NoDup <=> Cardinality(Connected(k)) <= 1
  <2>1. Cardinality(Connected(k)) > 1 => dup[k].set # {}
    BY <1>1, <1>3, FS_EmptySet DEF KeyOK
  <2> QED  BY <1>1, <1>3, <2>1 DEF KeyOK, NoDup
<1>6. active[k] = None <=> Connected(k) = {}
  BY <1>1, <1>3, DerpClientsAssumption DEF KeyOK
<1>7. k \in Shared <=> Cardinality(Connected(k)) > 1
  BY DEF Shared
<1> QED  BY <1>1, <1>2, <1>3, <1>4, <1>5, <1>6, <1>7

(* A key that a step leaves alone.                                         *)
LEMMA OtherKey ==
    ASSUME LocalInv, NEW q \in Keys,
           Connected(q)' = Connected(q), Noting(q)' = Noting(q),
           active'[q] = active[q], dup'[q] = dup[q],
           Connected(q) \intersect isDup' = Connected(q) \intersect isDup
    PROVE  KeyOK(q, Connected(q))' /\ HistoryOK(q)'
<1>1. KeyOK(q, Connected(q)) /\ HistoryOK(q)  BY DEF LocalInv
<1>2. KeyOK(q, Connected(q))'  BY <1>1 DEF KeyOK, NoDup
<1>3. HistoryOK(q)'  BY <1>1 DEF HistoryOK, Missing
<1> QED  BY <1>2, <1>3

-----------------------------------------------------------------------------
(* A connection comes.                                                     *)

(* Which connections a key has after registerClient.                       *)
LEMMA RegisterKeys ==
    ASSUME LocalInv, NEW c \in Conns, RegisterClient(c)
    PROVE  /\ c \notin Live /\ Live' = Live \union {c}
           /\ c \notin Connected(KeyOf[c])
           /\ Connected(KeyOf[c])' = Connected(KeyOf[c]) \union {c}
           /\ \A q \in Keys \ {KeyOf[c]} : Connected(q)' = Connected(q)
           /\ \A q \in Keys : Noting(q)' = Noting(q)
<1>1. life \in [Conns -> {"off", "on", "closing"}]  BY DEF LocalInv, LocalTypes
<1>2. life[c] = "off" /\ life' = [life EXCEPT ![c] = "on"] /\ noting' = noting
  BY DEF RegisterClient
<1>3. \A x \in Conns : life'[x] = IF x = c THEN "on" ELSE life[x]
  BY <1>1, <1>2
<1> QED  BY <1>2, <1>3 DEF Live, Connected, Noting

(* Its key gets the new connection, whatever it had before.                *)
LEMMA RegisterKey ==
    ASSUME LocalInv, NEW c \in Conns, RegisterClient(c)
    PROVE  /\ LocalTypes'
           /\ KeyOK(KeyOf[c], Connected(KeyOf[c]))' /\ HistoryOK(KeyOf[c])'
<1> DEFINE k == KeyOf[c]
           was == active[k]
           d == dup[k]
           cs == Connected(k)
           new == IF d # NoDup
                    THEN [set |-> d.set \union {c}, last |-> c,
                          history |-> Append(d.history, c)]
                  ELSE IF was # None
                    THEN [set |-> {c, was}, last |-> c, history |-> <<was>>]
                  ELSE NoDup
<1>1. k \in Keys  BY DerpClientsAssumption
<1>2. /\ cs \in SUBSET Conns /\ IsFiniteSet(cs) /\ Cardinality(cs) \in Nat
      /\ Noting(k) \in SUBSET cs /\ Cardinality(Noting(k)) \in Nat
      /\ d \in DupSets /\ d.history \in Seq(d.set) /\ Len(d.history) \in Nat
      /\ KeyOK(k, cs) /\ HistoryOK(k)
      /\ d = NoDup <=> Cardinality(cs) <= 1
      /\ was = None <=> cs = {}
  BY <1>1, KeyFacts
<1>3. /\ c \notin Live /\ Live' = Live \union {c}
      /\ c \notin cs /\ Connected(k)' = cs \union {c}
      /\ Noting(k)' = Noting(k)
  BY <1>1, RegisterKeys
<1>4. Cardinality(cs \union {c}) = Cardinality(cs) + 1
  BY <1>2, <1>3, FS_AddElement
<1>5. /\ active' = [active EXCEPT ![k] = c] /\ dup' = [dup EXCEPT ![k] = new]
      /\ isDup' = (IF was = None THEN isDup ELSE isDup \union {was, c})
      /\ life' = [life EXCEPT ![c] = "on"] /\ noting' = noting
      /\ Len(d.history) + Cardinality(Noting(k)) < MaxHistory
  BY DEF RegisterClient, HistoryRoom, Noting
<1>6. was # None => was \in cs /\ was \in Conns /\ was \in Live
  BY <1>2 DEF KeyOK, Connected, Live
<1>7. isDup \subseteq Live /\ cs \subseteq Live /\ cs \intersect isDup = d.set
  BY <1>2 DEF LocalInv, LocalTypes, Connected, Live, KeyOK
<1>8. /\ new \in DupSets /\ new.history \in Seq(new.set) /\ NoRepeats(new.history)
      /\ Len(new.history) <= Len(d.history) + 1
      /\ \A x, y \in new.set :
            /\ \A i \in 1..Len(new.history) : new.history[i] # x
            /\ \A i \in 1..Len(new.history) : new.history[i] # y
            => x = y
      /\ cs = {} => new = NoDup
      /\ cs # {} => new.set = cs \union {c} /\ new.last = c
  <2>1. CASE d # NoDup
    <3> DEFINE h == Append(d.history, c)
    <3>1. new = [set |-> d.set \union {c}, last |-> c, history |-> h]
      BY <2>1
    <3>2. d.set = cs /\ cs # {}
      BY <1>2, <2>1, FS_EmptySet DEF KeyOK
    <3>3. d.history \in Seq(d.set \union {c}) /\ d.history \in Seq(Conns)
      BY <1>2 DEF DupSets
    <3>4. /\ h \in Seq(d.set \union {c}) /\ h \in Seq(Conns)
          /\ Len(h) = Len(d.history) + 1 /\ h[Len(h)] = c
          /\ \A i \in 1..Len(d.history) : h[i] = d.history[i]
      BY <3>3, <1>2
    <3> HIDE DEF h
    <3>5. \A i \in 1..Len(d.history) : d.history[i] # c
      BY <1>2, <1>3, <3>2
    <3>6. NoRepeats(h)
      <4> SUFFICES ASSUME NEW i \in 1..Len(h), i > 1 PROVE h[i] # h[i - 1]
        BY DEF NoRepeats
      <4>1. i - 1 \in 1..Len(d.history)  BY <1>2, <3>4
      <4>2. CASE i = Len(h)  BY <3>4, <3>5, <4>1, <4>2
      <4>3. CASE i \in 1..Len(d.history)
        BY <1>2, <3>4, <4>1, <4>3 DEF HistoryOK, NoRepeats
      <4>4. Len(d.history) \in Nat /\ Len(h) = Len(d.history) + 1  BY <1>2, <3>4
      <4>5. i = Len(h) \/ i \in 1..Len(d.history)  BY <4>4
      <4> QED  BY <4>2, <4>3, <4>5
    <3>7. ASSUME NEW x \in d.set \union {c}, NEW y \in d.set \union {c},
                 \A i \in 1..Len(h) : h[i] # x, \A i \in 1..Len(h) : h[i] # y
          PROVE  x = y
      <4>1. Len(h) \in 1..Len(h) /\ \A i \in 1..Len(d.history) : i \in 1..Len(h)
        BY <1>2, <3>4
      <4>2. x # c /\ y # c  BY <3>4, <3>7, <4>1
      <4>3. x \in Missing(k) /\ y \in Missing(k)
        BY <3>4, <3>7, <4>1, <4>2 DEF Missing
      <4> QED  BY <1>2, <4>3 DEF HistoryOK
    <3>8. new \in DupSets
      BY <1>2, <3>1, <3>2, <3>4 DEF DupSets
    <3> HIDE DEF new
    <3> QED  BY <3>1, <3>2, <3>4, <3>6, <3>7, <3>8
  <2>2. CASE d = NoDup /\ was # None
    <3>1. new = [set |-> {c, was}, last |-> c, history |-> <<was>>]
      BY <2>2
    <3>2. cs = {was}
      <4>1. Cardinality(cs) = 1  BY <1>2, <2>2, Several
      <4>2. PICK x : cs = {x}  BY <1>2, <4>1, Several
      <4> QED  BY <1>6, <2>2, <4>2
    <3>3. <<was>> \in Seq({c, was}) /\ <<was>> \in Seq(Conns) /\ Len(<<was>>) = 1
      BY <1>6, <2>2
    <3>4. NoRepeats(<<was>>)  BY DEF NoRepeats
    <3>5. new \in DupSets  BY <1>6, <2>2, <3>1, <3>3 DEF DupSets
    <3>6. \A x \in {c, was} : (\A i \in 1..1 : <<was>>[i] # x) => x = c
      <4>1. 1 \in 1..1 /\ <<was>>[1] = was  OBVIOUS
      <4> QED  BY <4>1
    <3> HIDE DEF new
    <3> QED  BY <1>2, <3>1, <3>2, <3>3, <3>4, <3>5, <3>6
  <2>3. CASE d = NoDup /\ was = None
    <3>1. new = NoDup /\ cs = {}  BY <1>2, <2>3
    <3>2. NoDup \in DupSets /\ NoDup.set = {} /\ NoDup.history = << >>
      BY DEF NoDup, DupSets
    <3>3. << >> \in Seq({}) /\ Len(<< >>) = 0 /\ NoRepeats(<< >>)
      BY DEF NoRepeats
    <3> HIDE DEF new
    <3> QED  BY <1>2, <3>1, <3>2, <3>3
  <2> QED  BY <2>1, <2>2, <2>3
<1> HIDE DEF new
<1>9. LocalTypes'
  <2>1. isDup' \subseteq Live'  BY <1>3, <1>5, <1>6, <1>7
  <2> QED  BY <1>1, <1>5, <1>8, <2>1 DEF LocalInv, LocalTypes
<1>10. active'[k] = c /\ dup'[k] = new
  BY <1>1, <1>5 DEF LocalInv, LocalTypes
<1>11. KeyOK(k, Connected(k))'
  <2>1. CASE cs = {}
    <3>1. Cardinality(cs \union {c}) = 1 /\ cs \union {c} = {c}
      BY <1>4, <2>1, FS_EmptySet
    <3>2. isDup' = isDup /\ c \notin isDup  BY <1>2, <1>3, <1>5, <1>7, <2>1
    <3> QED  BY <1>3, <1>8, <1>10, <2>1, <3>1, <3>2 DEF KeyOK, NoDup
  <2>2. CASE cs # {}
    <3>1. Cardinality(cs \union {c}) > 1  BY <1>2, <1>4, <2>2, FS_EmptySet
    <3>2. (cs \union {c}) \intersect isDup' = cs \union {c}
      <4>1. isDup' = isDup \union {was, c} /\ was \in cs
        BY <1>2, <1>5, <1>6, <2>2
      <4>2. cs \subseteq isDup \union {was}
        <5>1. CASE Cardinality(cs) > 1
          BY <1>2, <1>7, <5>1 DEF KeyOK
        <5>2. CASE Cardinality(cs) = 1
          BY <1>2, <4>1, <5>2, Several
        <5> QED  BY <1>2, <2>2, <5>1, <5>2, Several
      <4> QED  BY <4>1, <4>2
    <3> QED  BY <1>3, <1>8, <1>10, <2>2, <3>1, <3>2 DEF KeyOK
  <2> QED  BY <2>1, <2>2
<1>12. HistoryOK(k)'
  <2>1. Len(new.history) \in Nat  BY <1>8
  <2>2. Len(new.history) + Cardinality(Noting(k)) <= MaxHistory
    BY <1>2, <1>5, <1>8, <2>1, DerpClientsAssumption
  <2> QED  BY <1>3, <1>8, <1>10, <2>2 DEF HistoryOK, Missing
<1> QED  BY <1>9, <1>11, <1>12

(* The gauges count it.                                                    *)
LEMMA RegisterGauges ==
    ASSUME LocalInv, NEW c \in Conns, RegisterClient(c)
    PROVE  Gauges'
<1> DEFINE k == KeyOf[c]
           cs == Connected(k)
<1>1. k \in Keys  BY DerpClientsAssumption
<1>2. /\ cs \in SUBSET Conns /\ IsFiniteSet(cs) /\ Cardinality(cs) \in Nat
      /\ dup[k] = NoDup <=> Cardinality(cs) <= 1
      /\ active[k] = None <=> cs = {}
      /\ k \in Shared <=> Cardinality(cs) > 1
  BY <1>1, KeyFacts
<1>3. /\ c \notin Live /\ Live' = Live \union {c}
      /\ c \notin cs /\ Connected(k)' = cs \union {c}
      /\ \A q \in Keys \ {k} : Connected(q)' = Connected(q)
  BY RegisterKeys
<1>4. Cardinality(cs \union {c}) = Cardinality(cs) + 1
  BY <1>2, <1>3, FS_AddElement
<1>5. Live \in SUBSET Conns /\ SharedConns \in SUBSET Conns /\ Shared \in SUBSET Keys
  BY DEF Live, SharedConns, Shared
<1>6. /\ IsFiniteSet(Live) /\ IsFiniteSet(SharedConns) /\ IsFiniteSet(Shared)
      /\ Cardinality(Live) \in Nat /\ Cardinality(SharedConns) \in Nat
      /\ Cardinality(Shared) \in Nat
  BY <1>5, Finite
<1>7. /\ cur' = cur + 1
      /\ dupConns' = dupConns + (IF dup[k] # NoDup THEN 1
                                 ELSE IF active[k] # None THEN 2 ELSE 0)
      /\ dupKeys' = dupKeys + (IF dup[k] = NoDup /\ active[k] # None THEN 1 ELSE 0)
  BY DEF RegisterClient
<1>8. Gauges  BY DEF LocalInv
<1>9. cur' = Cardinality(Live')
  BY <1>3, <1>6, <1>7, <1>8, FS_AddElement DEF Gauges
<1>10. /\ Shared' = IF cs = {} THEN Shared ELSE Shared \union {k}
  <2>1. k \in Shared' <=> cs # {}
    <3>1. k \in Shared' <=> Cardinality(cs) + 1 > 1
      BY <1>1, <1>3, <1>4 DEF Shared
    <3> QED  BY <1>2, <3>1, Several
  <2>2. \A q \in Keys \ {k} : q \in Shared' <=> q \in Shared
    BY <1>3 DEF Shared
  <2>3. cs = {} => k \notin Shared  BY <1>2, Several
  <2>4. Shared' \in SUBSET Keys  BY DEF Shared
  <2> QED  BY <1>1, <1>5, <2>1, <2>2, <2>3, <2>4
<1>11. \A x \in Conns : x \in SharedConns <=> x \in Live /\ KeyOf[x] \in Shared
  BY DEF SharedConns, Live
<1>12. \A x \in Conns : x \in SharedConns' <=> x \in Live' /\ KeyOf[x] \in Shared'
  BY DEF SharedConns, Live
<1>13. SharedConns' \in SUBSET Conns  BY DEF SharedConns, Live
<1>14. \A x \in Conns : x \in cs <=> x \in Live /\ KeyOf[x] = k
  BY DEF Connected, Live
<1>15. CASE cs = {}
  <2>1. Shared' = Shared /\ k \notin Shared
    BY <1>2, <1>10, <1>15, Several
  <2>2. SharedConns' = SharedConns
    BY <1>3, <1>5, <1>11, <1>12, <1>13, <2>1
  <2>3. dup[k] = NoDup /\ active[k] = None
    BY <1>2, <1>15, Several
  <2> QED  BY <1>6, <1>7, <1>8, <1>9, <2>1, <2>2, <2>3 DEF Gauges
<1>16. CASE Cardinality(cs) = 1
  <2>1. PICK x : cs = {x}  BY <1>2, <1>16, Several
  <2>2. Shared' = Shared \union {k} /\ k \notin Shared
    BY <1>2, <1>10, <1>16, <2>1
  <2>3. x # c /\ x \notin SharedConns /\ c \notin SharedConns /\ x \in Conns
    BY <1>2, <1>3, <1>11, <1>14, <2>1, <2>2
  <2>4. SharedConns' = (SharedConns \union {x}) \union {c}
    <3>1. \A y \in Conns : y \in SharedConns' <=>
              y \in (SharedConns \union {x}) \union {c}
      BY <1>3, <1>11, <1>12, <1>14, <2>1, <2>2
    <3> QED  BY <1>5, <1>13, <2>3, <3>1
  <2>5. Cardinality(SharedConns') = Cardinality(SharedConns) + 2
    <3>1. /\ IsFiniteSet(SharedConns \union {x})
          /\ Cardinality(SharedConns \union {x}) = Cardinality(SharedConns) + 1
      BY <1>6, <2>3, FS_AddElement
    <3>2. Cardinality(SharedConns') = Cardinality(SharedConns \union {x}) + 1
      BY <2>3, <2>4, <3>1, FS_AddElement
    <3> QED  BY <1>6, <3>1, <3>2
  <2>6. Cardinality(Shared') = Cardinality(Shared) + 1
    BY <1>6, <2>2, FS_AddElement
  <2>7. dup[k] = NoDup /\ active[k] # None
    BY <1>2, <1>16, <2>1
  <2> QED  BY <1>7, <1>8, <1>9, <2>5, <2>6, <2>7 DEF Gauges
<1>17. CASE Cardinality(cs) > 1
  <2>1. Shared' = Shared /\ k \in Shared
    BY <1>2, <1>10, <1>17, Several
  <2>2. c \notin SharedConns  BY <1>3, <1>11
  <2>3. SharedConns' = SharedConns \union {c}
    <3>1. \A y \in Conns : y \in SharedConns' <=> y \in SharedConns \union {c}
      BY <1>3, <1>11, <1>12, <2>1
    <3> QED  BY <1>5, <1>13, <3>1
  <2>4. Cardinality(SharedConns') = Cardinality(SharedConns) + 1
    BY <1>6, <2>2, <2>3, FS_AddElement
  <2>5. dup[k] # NoDup  BY <1>2, <1>17
  <2> QED  BY <1>6, <1>7, <1>8, <1>9, <2>1, <2>4, <2>5 DEF Gauges
<1>18. cs = {} \/ Cardinality(cs) = 1 \/ Cardinality(cs) > 1
  <2>1. Cardinality(cs) = 0 \/ Cardinality(cs) = 1 \/ Cardinality(cs) > 1
    BY <1>2
  <2> QED  BY <1>2, <2>1, Several
<1> QED  BY <1>15, <1>16, <1>17, <1>18

(* registerClient keeps the local invariant.                               *)
LEMMA RegisterStep ==
    ASSUME LocalInv, NEW c \in Conns, RegisterClient(c)
    PROVE  LocalInv'
<1> DEFINE k == KeyOf[c]
<1>1. LocalTypes' /\ KeyOK(k, Connected(k))' /\ HistoryOK(k)'
  BY RegisterKey
<1>2. Gauges'  BY RegisterGauges
<1>3. \A x \in noting' : life'[x] = "on"
  BY DEF RegisterClient, LocalInv, LocalTypes
<1>4. ASSUME NEW q \in Keys, q # k
      PROVE  KeyOK(q, Connected(q))' /\ HistoryOK(q)'
  <2>1. Connected(q)' = Connected(q) /\ Noting(q)' = Noting(q)
    BY <1>4, RegisterKeys
  <2>2. active'[q] = active[q] /\ dup'[q] = dup[q]
    BY <1>4 DEF RegisterClient, LocalInv, LocalTypes
  <2>3. k \in Keys /\ (active[k] # None => active[k] \in Connected(k))
    BY DerpClientsAssumption DEF LocalInv, KeyOK
  <2>4. Connected(q) \intersect isDup' = Connected(q) \intersect isDup
    BY <1>4, <2>3 DEF RegisterClient, Connected
  <2> QED  BY <2>1, <2>2, <2>4, OtherKey
<1> QED  BY <1>1, <1>2, <1>3, <1>4 DEF LocalInv

-----------------------------------------------------------------------------
(* A connection speaks.                                                    *)

(* noteClientActivity, with and without the lock, keeps the local          *)
(* invariant.                                                              *)
LEMMA NoteStep ==
    ASSUME LocalInv, NEW c \in Conns, NoteFast(c) \/ NoteActivity(c)
    PROVE  LocalInv'
<1> DEFINE k == KeyOf[c]
           d == dup[k]
<1>1. k \in Keys  BY DerpClientsAssumption
<1>2. /\ Connected(k) \in SUBSET Conns /\ IsFiniteSet(Connected(k))
      /\ Noting(k) \in SUBSET Connected(k) /\ Cardinality(Noting(k)) \in Nat
      /\ d \in DupSets /\ d.history \in Seq(d.set) /\ Len(d.history) \in Nat
      /\ KeyOK(k, Connected(k)) /\ HistoryOK(k)
      /\ d = NoDup <=> Cardinality(Connected(k)) <= 1
      /\ Cardinality(Connected(k)) \in Nat
  BY <1>1, KeyFacts
<1>3. UNCHANGED <<life, isDup, cur, dupConns, dupKeys>>
  BY DEF NoteFast, NoteActivity
<1>4. \A q \in Keys : Connected(q)' = Connected(q)
  BY <1>3 DEF Connected
<1>5. Gauges'
  <2>1. Live' = Live /\ Shared' = Shared  BY <1>3, <1>4 DEF Live, Shared
  <2>2. SharedConns' = SharedConns  BY <2>1 DEF SharedConns
  <2> QED  BY <1>3, <2>1, <2>2 DEF LocalInv, Gauges
<1>6. \A q \in Keys \ {k} : Noting(q)' = Noting(q)
  BY DEF NoteFast, NoteActivity, Noting
<1>7. IsFiniteSet(Noting(k))
  BY <1>2, Finite
<1>8. CASE NoteFast(c)
  <2>1. UNCHANGED <<active, dup>> /\ life[c] = "on" /\ noting' = noting \union {c}
    BY <1>8 DEF NoteFast
  <2>2. LocalTypes' /\ \A x \in noting' : life'[x] = "on"
    BY <1>3, <2>1 DEF LocalInv, LocalTypes, Live
  <2>3. ASSUME NEW q \in Keys, q # k
        PROVE  KeyOK(q, Connected(q))' /\ HistoryOK(q)'
    BY <1>3, <1>4, <1>6, <2>1, <2>3, OtherKey
  <2>4. Noting(k)' = Noting(k) \union {c} /\ c \notin Noting(k)
    BY <1>8, <2>1 DEF Noting, NoteFast
  <2>5. Cardinality(Noting(k)') = Cardinality(Noting(k)) + 1
    BY <1>7, <2>4, FS_AddElement
  <2>6. Len(d.history) + Cardinality(Noting(k)) < MaxHistory
    BY <1>8 DEF NoteFast, HistoryRoom, Noting
  <2>7. Len(d.history) + Cardinality(Noting(k)') <= MaxHistory
    BY <1>2, <2>5, <2>6, DerpClientsAssumption
  <2>8. HistoryOK(k)'
    BY <1>2, <2>1, <2>7 DEF HistoryOK, Missing
  <2>9. KeyOK(k, Connected(k))'
    BY <1>1, <1>2, <1>3, <1>4, <2>1 DEF KeyOK, NoDup
  <2> QED  BY <1>5, <2>2, <2>3, <2>8, <2>9 DEF LocalInv
<1>9. CASE NoteActivity(c)
  <2>1. c \in noting /\ noting' = noting \ {c}
    BY <1>9 DEF NoteActivity
  <2>2. c \in Connected(k) /\ c \in Noting(k) /\ Noting(k)' = Noting(k) \ {c}
    BY <1>2, <2>1 DEF Noting
  <2>3. Cardinality(Noting(k)') = Cardinality(Noting(k)) - 1
    BY <1>7, <2>2, FS_RemoveElement
  <2>4. \A x \in noting' : life'[x] = "on"
    BY <1>3, <2>1 DEF LocalInv
  <2>5. CASE d = NoDup
    <3>1. UNCHANGED <<active, dup>>  BY <1>9, <2>5 DEF NoteActivity
    <3>2. LocalTypes'  BY <1>3, <2>1, <3>1 DEF LocalInv, LocalTypes, Live
    <3>3. ASSUME NEW q \in Keys, q # k
          PROVE  KeyOK(q, Connected(q))' /\ HistoryOK(q)'
      BY <1>3, <1>4, <1>6, <3>1, <3>3, OtherKey
    <3>4. KeyOK(k, Connected(k))'
      BY <1>1, <1>2, <1>3, <1>4, <3>1 DEF KeyOK, NoDup
    <3>5. Len(d.history) + Cardinality(Noting(k)') <= MaxHistory
      BY <1>2, <2>3, DerpClientsAssumption DEF HistoryOK
    <3>6. HistoryOK(k)'
      BY <1>2, <3>1, <3>5 DEF HistoryOK, Missing
    <3> QED  BY <1>5, <2>4, <3>2, <3>3, <3>4, <3>6 DEF LocalInv
  <2>6. CASE d # NoDup
    <3> DEFINE h == IF d.history # << >> /\ Last(d.history) = c
                      THEN d.history ELSE Append(d.history, c)
               new == [d EXCEPT !.last = c, !.history = h]
    <3>1. active' = [active EXCEPT ![k] = c] /\ dup' = [dup EXCEPT ![k] = new]
      BY <1>1, <1>9, <2>6 DEF NoteActivity, LocalInv, LocalTypes
    <3>2. d.set = Connected(k) /\ Cardinality(Connected(k)) > 1
      BY <1>2, <2>6 DEF KeyOK
    <3>3. /\ h \in Seq(d.set) /\ h \in Seq(Conns) /\ NoRepeats(h)
          /\ Len(h) \in Nat /\ Len(h) <= Len(d.history) + 1
          /\ \A x \in d.set : (\E i \in 1..Len(d.history) : d.history[i] = x)
                                  => \E i \in 1..Len(h) : h[i] = x
      <4>1. CASE d.history # << >> /\ Last(d.history) = c
        <5>1. h = d.history  BY <4>1
        <5>2. d.history \in Seq(Conns)  BY <1>2 DEF DupSets
        <5> QED  BY <1>2, <5>1, <5>2 DEF HistoryOK
      <4>2. CASE ~(d.history # << >> /\ Last(d.history) = c)
        <5>1. h = Append(d.history, c)  BY <4>2
        <5>2. d.history \in Seq(Conns) /\ d.history \in Seq(d.set) /\ c \in d.set
          BY <1>2, <2>2, <3>2 DEF DupSets
        <5> HIDE DEF h
        <5>3. /\ h \in Seq(d.set) /\ h \in Seq(Conns)
              /\ Len(h) = Len(d.history) + 1 /\ h[Len(h)] = c
              /\ \A i \in 1..Len(d.history) : h[i] = d.history[i]
          <6>1. h \in Seq(Conns)  BY <5>1, <5>2, Appended
          <6> DEFINE S == d.set
                     g == d.history
          <6>2. g \in Seq(S) /\ c \in S /\ h = Append(g, c)  BY <5>1, <5>2
          <6> HIDE DEF S, g, d
          <6>3. /\ h \in Seq(S) /\ Len(g) \in Nat /\ Len(h) = Len(g) + 1
                /\ \A i \in 1..Len(g) : h[i] = g[i]
                /\ h[Len(g) + 1] = c
            BY <6>2, Appended
          <6> QED  BY <6>1, <6>3 DEF S, g
        <5>4. NoRepeats(h)
          <6> SUFFICES ASSUME NEW i \in 1..Len(h), i > 1 PROVE h[i] # h[i - 1]
            BY DEF NoRepeats
          <6>0. Len(d.history) \in Nat /\ Len(h) = Len(d.history) + 1
            BY <1>2, <5>3
          <6>1. i - 1 \in 1..Len(d.history) /\ h[i - 1] = d.history[i - 1]
            BY <5>3, <6>0
          <6>2. CASE i = Len(h)
            <7>1. h[i - 1] = Last(d.history) /\ d.history # << >>
              BY <6>0, <6>1, <6>2 DEF Last
            <7> QED  BY <4>2, <5>3, <6>2, <7>1
          <6>3. CASE i \in 1..Len(d.history)
            BY <1>2, <5>3, <6>1, <6>3 DEF HistoryOK, NoRepeats
          <6>4. i = Len(h) \/ i \in 1..Len(d.history)  BY <6>0
          <6> QED  BY <6>2, <6>3, <6>4
        <5>5. \A i \in 1..Len(d.history) : i \in 1..Len(h)  BY <1>2, <5>3
        <5> QED  BY <1>2, <5>3, <5>4, <5>5
      <4> QED  BY <4>1, <4>2
    <3> HIDE DEF h
    <3>4. /\ new \in DupSets /\ new.set = d.set /\ new.last = c
          /\ new.history = h
      BY <1>2, <3>3 DEF DupSets
    <3> HIDE DEF new
    <3>5. LocalTypes'
      BY <1>1, <1>3, <2>1, <3>1, <3>4 DEF LocalInv, LocalTypes, Live
    <3>6. active'[k] = c /\ dup'[k] = new
      BY <1>1, <3>1 DEF LocalInv, LocalTypes
    <3>7. KeyOK(k, Connected(k))'
      BY <1>1, <1>2, <1>3, <1>4, <2>2, <3>2, <3>4, <3>6 DEF KeyOK
    <3>8. Len(h) + Cardinality(Noting(k)') <= MaxHistory
      BY <1>2, <2>3, <3>3, DerpClientsAssumption DEF HistoryOK
    <3>9. Missing(k)' \subseteq Missing(k)
      BY <3>3, <3>4, <3>6 DEF Missing
    <3>10. HistoryOK(k)'
      BY <1>2, <3>3, <3>4, <3>6, <3>8, <3>9 DEF HistoryOK
    <3>11. ASSUME NEW q \in Keys, q # k
           PROVE  KeyOK(q, Connected(q))' /\ HistoryOK(q)'
      <4>1. active'[q] = active[q] /\ dup'[q] = dup[q]
        BY <3>1, <3>11 DEF LocalInv, LocalTypes
      <4> QED  BY <1>3, <1>4, <1>6, <3>11, <4>1, OtherKey
    <3> QED  BY <1>5, <2>4, <3>5, <3>7, <3>10, <3>11 DEF LocalInv
  <2> QED  BY <2>5, <2>6
<1> QED  BY <1>8, <1>9

-----------------------------------------------------------------------------
(* A connection goes.                                                      *)

(* A connection that is closing, and still in its set, keeps it too.       *)
LEMMA CloseStep ==
    ASSUME LocalInv, NEW c \in Conns, Close(c)
    PROVE  LocalInv'
<1>1. /\ life' = [life EXCEPT ![c] = "closing"] /\ life[c] = "on" /\ c \notin noting
      /\ UNCHANGED <<active, dup, isDup, noting, cur, dupConns, dupKeys>>
  BY DEF Close
<1>2. life \in [Conns -> {"off", "on", "closing"}]  BY DEF LocalInv, LocalTypes
<1>3. \A x \in Conns : life'[x] # "off" <=> life[x] # "off"  BY <1>1, <1>2
<1>4. /\ Live' = Live /\ \A q \in Keys : Connected(q)' = Connected(q)
      /\ \A q \in Keys : Noting(q)' = Noting(q)
  BY <1>1, <1>3 DEF Live, Connected, Noting
<1>5. Shared' = Shared  BY <1>4 DEF Shared
<1>6. SharedConns' = SharedConns  BY <1>4, <1>5 DEF SharedConns
<1>7. Gauges'  BY <1>1, <1>4, <1>5, <1>6 DEF LocalInv, Gauges
<1>8. LocalTypes'  BY <1>1, <1>2, <1>4 DEF LocalInv, LocalTypes
<1>9. \A x \in noting' : life'[x] = "on"
  BY <1>1, <1>2 DEF LocalInv, LocalTypes
<1>10. \A q \in Keys : KeyOK(q, Connected(q))' /\ HistoryOK(q)'
  BY <1>1, <1>4, OtherKey
<1> QED  BY <1>7, <1>8, <1>9, <1>10 DEF LocalInv

(* Which connections a key has after unregisterClient.                     *)
LEMMA UnregisterKeys ==
    ASSUME LocalInv, NEW c \in Conns, UnregisterClient(c)
    PROVE  /\ c \in Live /\ Live' = Live \ {c} /\ c \notin noting
           /\ c \in Connected(KeyOf[c])
           /\ Connected(KeyOf[c])' = Connected(KeyOf[c]) \ {c}
           /\ \A q \in Keys \ {KeyOf[c]} : Connected(q)' = Connected(q)
           /\ \A q \in Keys : Noting(q)' = Noting(q)
           /\ life' \in [Conns -> {"off", "on", "closing"}]
           /\ \A x \in noting' : life'[x] = "on"
<1>1. life \in [Conns -> {"off", "on", "closing"}]  BY DEF LocalInv, LocalTypes
<1>2. life[c] = "closing" /\ life' = [life EXCEPT ![c] = "off"] /\ noting' = noting
  BY DEF UnregisterClient
<1>3. \A x \in Conns : life'[x] = IF x = c THEN "off" ELSE life[x]
  BY <1>1, <1>2
<1>4. c \notin noting /\ \A x \in noting : life[x] = "on" /\ x \in Conns
  BY <1>2 DEF LocalInv, LocalTypes
<1> QED  BY <1>1, <1>2, <1>3, <1>4 DEF Live, Connected, Noting

(* removeClient: as long as two are left, one of them takes over, though   *)
(* one of them may never have spoken.                                      *)
LEMMA Successor ==
    ASSUME LocalInv, NEW k \in Keys, NEW c \in Connected(k),
           Cardinality(Connected(k) \ {c}) > 1
    PROVE  LET r == RemoveClient(dup[k], c)
           IN  /\ r \in DupSets /\ r.set = Connected(k) \ {c}
               /\ r.last \in r.set
               /\ r.history \in Seq(r.set) /\ NoRepeats(r.history)
               /\ Len(r.history) <= Len(dup[k].history)
               /\ \A x \in r.set :
                    (\A i \in 1..Len(r.history) : r.history[i] # x)
                        => x \in Missing(k)
<1> DEFINE d == dup[k]
           set == Connected(k) \ {c}
           h == Trimmed(d.history, set)
           r == RemoveClient(d, c)
<1>1. /\ Connected(k) \in SUBSET Conns /\ IsFiniteSet(Connected(k))
      /\ Cardinality(Connected(k)) \in Nat
      /\ d \in DupSets /\ d.history \in Seq(d.set) /\ Len(d.history) \in Nat
      /\ KeyOK(k, Connected(k)) /\ HistoryOK(k)
  BY KeyFacts
<1>2. Cardinality(set) = Cardinality(Connected(k)) - 1 /\ IsFiniteSet(set)
  BY <1>1, FS_RemoveElement
<1>3. d.set = Connected(k) /\ d.last \in Connected(k)
  <2>1. Cardinality(Connected(k)) > 1  BY <1>1, <1>2
  <2> QED  BY <1>1, <2>1, FS_EmptySet DEF KeyOK
<1>4. TrimOK(h, d.history, set, Len(d.history))
  BY <1>1, TrimmedOK
<1>5. r = [set |-> set, history |-> h,
           last |-> IF d.last # c THEN d.last
                    ELSE IF h # << >> THEN Last(h) ELSE None]
  BY <1>3 DEF RemoveClient
<1> HIDE DEF h, r, set
<1>6. h \in Seq(set) /\ Len(h) \in Nat /\ Len(h) <= Len(d.history) /\ NoRepeats(h)
  BY <1>4 DEF TrimOK
<1>7. \A x \in set : (\A i \in 1..Len(h) : h[i] # x) => x \in Missing(k)
  <2> SUFFICES ASSUME NEW x \in set, \A i \in 1..Len(h) : h[i] # x
               PROVE  x \in Missing(k)
    OBVIOUS
  <2>1. x \in d.set  BY <1>3 DEF set
  <2>2. \A j \in 1..Len(d.history) : d.history[j] # x
    BY <1>4 DEF TrimOK
  <2> QED  BY <2>1, <2>2 DEF Missing
<1>8. h # << >>
  <2> SUFFICES ASSUME h = << >> PROVE FALSE
    OBVIOUS
  <2>1. \A x \in set : x \in Missing(k)
    BY <1>7
  <2>2. \A x, y \in set : x = y
    BY <1>1, <2>1 DEF HistoryOK
  <2>3. Cardinality(set) > 1  BY DEF set
  <2>4. set # {}  BY <1>2, <2>3, FS_EmptySet
  <2>5. PICK x : x \in set  BY <2>4
  <2>6. set = {x}  BY <2>2, <2>5
  <2>7. Cardinality(set) = 1  BY <2>6, FS_Singleton
  <2> QED  BY <2>3, <2>7
<1>9. Last(h) \in set  BY <1>6, <1>8 DEF Last
<1>10. r.last \in set /\ r.set = set /\ r.history = h
  BY <1>3, <1>5, <1>8, <1>9 DEF set
<1>11. set \in SUBSET Conns /\ h \in Seq(Conns)
  <2>1. set \in SUBSET Conns  BY <1>1 DEF set
  <2> QED  BY <1>6, <2>1
<1>12. r \in DupSets
  <2>1. r = [set |-> set, history |-> h, last |-> r.last]  BY <1>5
  <2> QED  BY <1>10, <1>11, <2>1 DEF DupSets
<1> QED  BY <1>6, <1>7, <1>10, <1>12 DEF r, set

(* What unregisterClient leaves of its key's clientSet.                    *)
LEMMA UnregisterKey ==
    ASSUME LocalInv, NEW c \in Conns, UnregisterClient(c)
    PROVE  /\ LocalTypes'
           /\ KeyOK(KeyOf[c], Connected(KeyOf[c]))' /\ HistoryOK(KeyOf[c])'
<1> DEFINE k == KeyOf[c]
           d == dup[k]
           cs == Connected(k)
           set == cs \ {c}
           r == RemoveClient(d, c)
<1>1. k \in Keys  BY DerpClientsAssumption
<1>2. /\ cs \in SUBSET Conns /\ IsFiniteSet(cs) /\ Cardinality(cs) \in Nat
      /\ d \in DupSets /\ d.history \in Seq(d.set) /\ Len(d.history) \in Nat
      /\ Cardinality(Noting(k)) \in Nat
      /\ KeyOK(k, cs) /\ HistoryOK(k)
      /\ d = NoDup <=> Cardinality(cs) <= 1
  BY <1>1, KeyFacts
<1>3. /\ c \in Live /\ Live' = Live \ {c} /\ c \in cs /\ Connected(k)' = set
      /\ Noting(k)' = Noting(k) /\ noting' = noting
      /\ life' \in [Conns -> {"off", "on", "closing"}]
  BY <1>1, UnregisterKeys DEF UnregisterClient
<1>4. /\ IsFiniteSet(set) /\ Cardinality(set) = Cardinality(cs) - 1
      /\ Cardinality(set) \in Nat
  BY <1>2, <1>3, FS_RemoveElement, FS_CardinalityType
<1>5. isDup \subseteq Live /\ cs \intersect isDup = d.set
  BY <1>2 DEF LocalInv, LocalTypes, KeyOK
<1>6. Len(NoDup.history) = 0 /\ NoDup \in DupSets /\ NoDup.set = {}
      /\ NoDup.history \in Seq({}) /\ NoRepeats(NoDup.history)
  BY DEF NoDup, DupSets, NoRepeats
<1>7. Cardinality(Noting(k)) <= MaxHistory
  BY <1>2, DerpClientsAssumption DEF HistoryOK
<1>8. CASE UnregisterSingle(c)
  <2>1. d = NoDup /\ active' = [active EXCEPT ![k] = None] /\ UNCHANGED <<dup, isDup>>
    BY <1>8 DEF UnregisterSingle
  <2>2. set = {}
    <3>1. Cardinality(cs) <= 1  BY <1>2, <2>1
    <3>2. Cardinality(set) = 0  BY <1>2, <1>4, <3>1
    <3> QED  BY <1>4, <3>2, Several
  <2>3. c \notin isDup  BY <1>3, <1>5, <1>6, <2>1
  <2>4. LocalTypes'
    BY <1>1, <1>3, <1>5, <2>1, <2>3 DEF LocalInv, LocalTypes
  <2>5. active'[k] = None /\ dup'[k] = NoDup
    BY <1>1, <2>1 DEF LocalInv, LocalTypes
  <2>6. KeyOK(k, Connected(k))'
    BY <1>3, <1>6, <2>2, <2>5, FS_EmptySet DEF KeyOK, NoDup
  <2>7. HistoryOK(k)'
    BY <1>2, <1>3, <2>1, <2>5 DEF HistoryOK, Missing
  <2> QED  BY <2>4, <2>6, <2>7
<1>9. CASE UnregisterDup(c)
  <2>1. Cardinality(cs) > 1 /\ d.set = cs /\ r.set = set
    BY <1>2, <1>9 DEF UnregisterDup, KeyOK, RemoveClient
  <2>2. /\ dup' = [dup EXCEPT ![k] = IF Cardinality(r.set) = 1 THEN NoDup ELSE r]
        /\ active' = [active EXCEPT ![k] =
               IF Cardinality(r.set) = 1 THEN CHOOSE x \in r.set : TRUE ELSE r.last]
        /\ isDup' = isDup \ (IF Cardinality(r.set) = 1 THEN d.set ELSE {c})
    BY <1>9 DEF UnregisterDup
  <2> HIDE DEF r
  <2>3. CASE Cardinality(set) = 1
    <3>1. PICK x : set = {x}  BY <1>4, <2>3, Several
    <3>2. /\ dup' = [dup EXCEPT ![k] = NoDup] /\ active' = [active EXCEPT ![k] = x]
          /\ isDup' = isDup \ cs /\ x \in Conns
      <4>1. (CHOOSE y \in set : TRUE) = x  BY <3>1
      <4> QED  BY <1>2, <2>1, <2>2, <2>3, <3>1, <4>1
    <3>3. LocalTypes'
      BY <1>1, <1>3, <1>5, <1>6, <3>2 DEF LocalInv, LocalTypes
    <3>4. active'[k] = x /\ dup'[k] = NoDup
      BY <1>1, <3>2 DEF LocalInv, LocalTypes
    <3>5. KeyOK(k, Connected(k))'
      BY <1>3, <1>6, <2>3, <3>1, <3>2, <3>4 DEF KeyOK, NoDup
    <3>6. HistoryOK(k)'
      BY <1>2, <1>3, <1>6, <1>7, <3>4 DEF HistoryOK, Missing
    <3> QED  BY <3>3, <3>5, <3>6
  <2>4. CASE Cardinality(set) # 1
    <3>0. Cardinality(set) > 1  BY <1>2, <1>4, <2>1, <2>4
    <3>1. /\ r \in DupSets /\ r.set = set /\ r.last \in set
          /\ r.history \in Seq(r.set) /\ NoRepeats(r.history)
          /\ Len(r.history) <= Len(d.history)
          /\ \A x \in r.set : (\A i \in 1..Len(r.history) : r.history[i] # x)
                                  => x \in Missing(k)
      BY <1>1, <1>3, <3>0, Successor DEF r
    <3>2. /\ dup' = [dup EXCEPT ![k] = r] /\ active' = [active EXCEPT ![k] = r.last]
          /\ isDup' = isDup \ {c} /\ r.last \in Conns
      BY <1>2, <2>1, <2>2, <2>4, <3>1
    <3>3. LocalTypes'
      BY <1>1, <1>3, <1>5, <3>1, <3>2 DEF LocalInv, LocalTypes
    <3>4. active'[k] = r.last /\ dup'[k] = r
      BY <1>1, <3>2 DEF LocalInv, LocalTypes
    <3>5. KeyOK(k, Connected(k))'
      BY <1>3, <1>5, <2>1, <3>0, <3>1, <3>2, <3>4 DEF KeyOK
    <3>6. Len(r.history) + Cardinality(Noting(k)) <= MaxHistory
      <4>1. Len(r.history) \in Nat  BY <3>1
      <4> QED  BY <1>2, <3>1, <4>1, DerpClientsAssumption DEF HistoryOK
    <3>7. Missing(k)' \subseteq Missing(k)  BY <3>1, <3>4 DEF Missing
    <3>8. HistoryOK(k)'
      BY <1>2, <1>3, <3>1, <3>4, <3>6, <3>7 DEF HistoryOK
    <3> QED  BY <3>3, <3>5, <3>8
  <2> QED  BY <2>3, <2>4
<1> QED  BY <1>8, <1>9 DEF UnregisterClient

(* The gauges no longer count it.                                          *)
LEMMA UnregisterGauges ==
    ASSUME LocalInv, NEW c \in Conns, UnregisterClient(c)
    PROVE  Gauges'
<1> DEFINE k == KeyOf[c]
           cs == Connected(k)
           set == cs \ {c}
           r == RemoveClient(dup[k], c)
<1>1. k \in Keys  BY DerpClientsAssumption
<1>2. /\ cs \in SUBSET Conns /\ IsFiniteSet(cs) /\ Cardinality(cs) \in Nat
      /\ KeyOK(k, cs)
      /\ dup[k] = NoDup <=> Cardinality(cs) <= 1
      /\ k \in Shared <=> Cardinality(cs) > 1
  BY <1>1, KeyFacts
<1>3. /\ c \in Live /\ Live' = Live \ {c} /\ c \in cs /\ Connected(k)' = set
      /\ \A q \in Keys \ {k} : Connected(q)' = Connected(q)
  BY UnregisterKeys
<1>4. /\ IsFiniteSet(set) /\ Cardinality(set) = Cardinality(cs) - 1
      /\ Cardinality(set) \in Nat
  BY <1>2, <1>3, FS_RemoveElement, FS_CardinalityType
<1>5. Live \in SUBSET Conns /\ SharedConns \in SUBSET Conns /\ Shared \in SUBSET Keys
  BY DEF Live, SharedConns, Shared
<1>6. /\ IsFiniteSet(Live) /\ IsFiniteSet(SharedConns) /\ IsFiniteSet(Shared)
      /\ Cardinality(Live) \in Nat /\ Cardinality(SharedConns) \in Nat
      /\ Cardinality(Shared) \in Nat
  BY <1>5, Finite
<1>7. Gauges  BY DEF LocalInv
<1>8. cur' = Cardinality(Live')
  BY <1>3, <1>6, <1>7, FS_RemoveElement DEF Gauges, UnregisterClient
<1>9. k \in Shared' <=> Cardinality(set) > 1
  BY <1>1, <1>3 DEF Shared
<1>10. \A q \in Keys \ {k} : q \in Shared' <=> q \in Shared
  BY <1>3 DEF Shared
<1>11. Shared' \in SUBSET Keys /\ SharedConns' \in SUBSET Conns
  BY DEF Shared, SharedConns, Live
<1>12. \A x \in Conns : x \in SharedConns <=> x \in Live /\ KeyOf[x] \in Shared
  BY DEF SharedConns, Live
<1>13. \A x \in Conns : x \in SharedConns' <=> x \in Live' /\ KeyOf[x] \in Shared'
  BY DEF SharedConns, Live
<1>14. \A x \in Conns : x \in cs <=> x \in Live /\ KeyOf[x] = k
  BY DEF Connected, Live
<1>15. CASE UnregisterSingle(c)
  <2>1. k \notin Shared /\ k \notin Shared' /\ UNCHANGED <<dupConns, dupKeys>>
    BY <1>2, <1>4, <1>9, <1>15 DEF UnregisterSingle
  <2>2. Shared' = Shared  BY <1>5, <1>10, <1>11, <2>1
  <2>3. SharedConns' = SharedConns
    <3>1. \A x \in Conns : x \in SharedConns' <=> x \in SharedConns
      BY <1>3, <1>12, <1>13, <2>1, <2>2
    <3> QED  BY <1>5, <1>11, <3>1
  <2> QED  BY <1>7, <1>8, <2>1, <2>2, <2>3 DEF Gauges
<1>16. CASE UnregisterDup(c)
  <2>1. Cardinality(cs) > 1 /\ r.set = set /\ k \in Shared
    BY <1>2, <1>16 DEF UnregisterDup, KeyOK, RemoveClient
  <2>2. /\ dupConns' = dupConns - (IF Cardinality(r.set) = 1 THEN 2 ELSE 1)
        /\ dupKeys' = dupKeys - (IF Cardinality(r.set) = 1 THEN 1 ELSE 0)
    BY <1>16 DEF UnregisterDup
  <2> HIDE DEF r
  <2>3. c \in SharedConns  BY <1>3, <1>12, <2>1
  <2>4. /\ IsFiniteSet(SharedConns \ {c})
        /\ Cardinality(SharedConns \ {c}) = Cardinality(SharedConns) - 1
    BY <1>6, <2>3, FS_RemoveElement
  <2>5. CASE Cardinality(set) = 1
    <3>1. PICK x : set = {x}  BY <1>4, <2>5, Several
    <3>2. x \in cs /\ x \in Conns /\ x # c /\ cs = {c, x}  BY <1>2, <1>3, <3>1
    <3>3. Shared' = Shared \ {k}
      BY <1>5, <1>9, <1>10, <1>11, <2>5
    <3>4. SharedConns' = (SharedConns \ {c}) \ {x}
      <4>1. \A y \in Conns : y \in SharedConns' <=> y \in (SharedConns \ {c}) \ {x}
        BY <1>3, <1>12, <1>13, <1>14, <3>2, <3>3
      <4> QED  BY <1>5, <1>11, <4>1
    <3>5. x \in SharedConns \ {c}  BY <1>12, <1>14, <2>1, <3>2
    <3>6. Cardinality(SharedConns') = Cardinality(SharedConns \ {c}) - 1
      BY <2>4, <3>4, <3>5, FS_RemoveElement
    <3>7. Cardinality(SharedConns') = Cardinality(SharedConns) - 2
      BY <1>6, <2>4, <3>6
    <3>8. Cardinality(Shared') = Cardinality(Shared) - 1
      BY <1>6, <2>1, <3>3, FS_RemoveElement
    <3> QED  BY <1>7, <1>8, <2>1, <2>2, <2>5, <3>7, <3>8 DEF Gauges
  <2>6. CASE Cardinality(set) # 1
    <3>1. k \in Shared'  BY <1>2, <1>4, <1>9, <2>1, <2>6
    <3>2. Shared' = Shared  BY <1>5, <1>10, <1>11, <2>1, <3>1
    <3>3. SharedConns' = SharedConns \ {c}
      <4>1. \A y \in Conns : y \in SharedConns' <=> y \in SharedConns \ {c}
        BY <1>3, <1>12, <1>13, <3>2
      <4> QED  BY <1>5, <1>11, <4>1
    <3> QED
      BY <1>6, <1>7, <1>8, <2>1, <2>2, <2>4, <2>6, <3>2, <3>3 DEF Gauges
  <2> QED  BY <2>5, <2>6
<1> QED  BY <1>15, <1>16 DEF UnregisterClient

(* unregisterClient keeps the local invariant.                             *)
LEMMA UnregisterStep ==
    ASSUME LocalInv, NEW c \in Conns, UnregisterClient(c)
    PROVE  LocalInv'
<1> DEFINE k == KeyOf[c]
<1>1. LocalTypes' /\ KeyOK(k, Connected(k))' /\ HistoryOK(k)'
  BY UnregisterKey
<1>2. Gauges'  BY UnregisterGauges
<1>3. \A x \in noting' : life'[x] = "on"  BY UnregisterKeys
<1>4. ASSUME NEW q \in Keys, q # k
      PROVE  KeyOK(q, Connected(q))' /\ HistoryOK(q)'
  <2>1. /\ Connected(q)' = Connected(q) /\ Noting(q)' = Noting(q)
        /\ c \in Connected(k)
    BY <1>4, UnregisterKeys
  <2>2. active'[q] = active[q] /\ dup'[q] = dup[q]
    BY <1>4
       DEF UnregisterClient, UnregisterSingle, UnregisterDup, LocalInv, LocalTypes
  <2>3. k \in Keys /\ dup[k].set \subseteq Connected(k)
    BY DerpClientsAssumption DEF LocalInv, KeyOK
  <2>4. Connected(q) \intersect Connected(k) = {}
    BY <1>4 DEF Connected
  <2>5. isDup' = isDup \/ isDup' = isDup \ dup[k].set \/ isDup' = isDup \ {c}
    BY DEF UnregisterClient, UnregisterSingle, UnregisterDup
  <2>6. Connected(q) \intersect isDup' = Connected(q) \intersect isDup
    BY <2>1, <2>3, <2>4, <2>5
  <2> QED  BY <2>1, <2>2, <2>6, OtherKey
<1> QED  BY <1>1, <1>2, <1>3, <1>4 DEF LocalInv

-----------------------------------------------------------------------------
(* What a watcher knows.                                                   *)

(* A change that is queued is the last word about its key.                 *)
LEMMA KnowsAppend ==
    ASSUME NEW keys, NEW s \in Seq(Msgs), NEW m \in Msgs, NEW k \in Keys
    PROVE  Knows(keys, Append(s, m), k)
               <=> IF m.peer = k THEN m.present ELSE Knows(keys, s, k)
<1> DEFINE t == Append(s, m)
<1>1. /\ Len(s) \in Nat /\ Len(t) = Len(s) + 1 /\ t[Len(t)] = m
      /\ \A i \in 1..Len(s) : t[i] = s[i]
  BY Appended
<1>2. Len(t) \in 1..Len(t) /\ \A i \in 1..Len(s) : i \in 1..Len(t)
  BY <1>1
<1>3. \A i \in 1..Len(t) : i = Len(t) \/ i \in 1..Len(s)
  BY <1>1
<1> HIDE DEF t
<1>4. CASE m.peer = k
  <2>1. m.present => m = Present(k)
    BY <1>4 DEF Msgs, Present
  <2>2. m.present => Knows(keys, t, k)
    <3>1. \A j \in (Len(t) + 1)..Len(t) : FALSE  BY <1>1
    <3> QED  BY <1>1, <1>2, <2>1, <3>1 DEF Knows
  <2>3. Knows(keys, t, k) => m.present
    <3> SUFFICES ASSUME Knows(keys, t, k), ~m.present PROVE FALSE
      OBVIOUS
    <3>1. PICK i \in 1..Len(t) :
              t[i] = Present(k) /\ \A j \in (i + 1)..Len(t) : t[j].peer # k
      BY <1>1, <1>2, <1>4 DEF Knows
    <3>2. i # Len(t)  BY <1>1, <3>1 DEF Present
    <3>3. Len(t) \in (i + 1)..Len(t)  BY <1>1, <3>2
    <3> QED  BY <1>1, <1>4, <3>1, <3>3
  <2> QED  BY <1>4, <2>2, <2>3 DEF t
<1>5. CASE m.peer # k
  <2>1. Knows(keys, t, k) => Knows(keys, s, k)
    <3> SUFFICES ASSUME Knows(keys, t, k) PROVE Knows(keys, s, k)
      OBVIOUS
    <3>1. CASE \E i \in 1..Len(t) :
              t[i] = Present(k) /\ \A j \in (i + 1)..Len(t) : t[j].peer # k
      <4>1. PICK i \in 1..Len(t) :
              t[i] = Present(k) /\ \A j \in (i + 1)..Len(t) : t[j].peer # k
        BY <3>1
      <4>a. i # Len(t)  BY <1>1, <1>5, <4>1 DEF Present
      <4>2. i \in 1..Len(s) /\ s[i] = Present(k)
        BY <1>1, <1>3, <4>1, <4>a
      <4>3. \A j \in (i + 1)..Len(s) : j \in (i + 1)..Len(t) /\ t[j] = s[j]
        BY <1>1, <4>2
      <4> QED  BY <4>1, <4>2, <4>3 DEF Knows
    <3>2. CASE k \in keys /\ \A i \in 1..Len(t) : t[i].peer # k
      BY <1>1, <1>2, <3>2 DEF Knows
    <3> QED  BY <3>1, <3>2 DEF Knows
  <2>2. Knows(keys, s, k) => Knows(keys, t, k)
    <3> SUFFICES ASSUME Knows(keys, s, k) PROVE Knows(keys, t, k)
      OBVIOUS
    <3>1. CASE \E i \in 1..Len(s) :
              s[i] = Present(k) /\ \A j \in (i + 1)..Len(s) : s[j].peer # k
      <4>1. PICK i \in 1..Len(s) :
              s[i] = Present(k) /\ \A j \in (i + 1)..Len(s) : s[j].peer # k
        BY <3>1
      <4>2. \A j \in (i + 1)..Len(t) : j = Len(t) \/ j \in (i + 1)..Len(s)
        BY <1>1
      <4>3. \A j \in (i + 1)..Len(s) : t[j] = s[j]  BY <1>1
      <4>4. \A j \in (i + 1)..Len(t) : t[j].peer # k
        BY <1>1, <1>5, <4>1, <4>2, <4>3
      <4> QED  BY <1>1, <1>2, <4>1, <4>4 DEF Knows
    <3>2. CASE k \in keys /\ \A i \in 1..Len(s) : s[i].peer # k
      BY <1>1, <1>3, <1>5, <3>2 DEF Knows
    <3> QED  BY <3>1, <3>2 DEF Knows
  <2> QED  BY <1>5, <2>1, <2>2 DEF t
<1> QED  BY <1>4, <1>5

(* A change that is written changes nothing of what will be known.         *)
LEMMA KnowsHead ==
    ASSUME NEW keys, NEW s \in Seq(Msgs), s # << >>, NEW k \in Keys
    PROVE  Knows(Heard(keys, Head(s)), Tail(s), k) <=> Knows(keys, s, k)
<1> DEFINE t == Tail(s)
           m == s[1]
           known == Heard(keys, m)
<1>1. /\ Len(s) \in Nat \ {0} /\ Len(t) = Len(s) - 1 /\ Head(s) = m /\ m \in Msgs
      /\ t \in Seq(Msgs)
  OBVIOUS
<1>2. \A i \in 1..Len(t) : i + 1 \in 1..Len(s) /\ t[i] = s[i + 1]
  BY <1>1
<1>3. \A i \in 1..Len(s) : i = 1 \/ (i - 1 \in 1..Len(t) /\ t[i - 1] = s[i])
  BY <1>1, <1>2
<1>4. k \in known <=> IF m.peer = k THEN m.present ELSE k \in keys
  BY <1>1 DEF Heard, Msgs
<1>5. 1 \in 1..Len(s)  BY <1>1
<1> HIDE DEF t, known, m
<1>6. ASSUME Knows(known, t, k) PROVE Knows(keys, s, k)
  <2>1. CASE \E i \in 1..Len(t) :
            t[i] = Present(k) /\ \A j \in (i + 1)..Len(t) : t[j].peer # k
    <3>1. PICK i \in 1..Len(t) :
            t[i] = Present(k) /\ \A j \in (i + 1)..Len(t) : t[j].peer # k
      BY <2>1
    <3>2. i + 1 \in 1..Len(s) /\ s[i + 1] = Present(k)  BY <1>2, <3>1
    <3>3. ASSUME NEW j \in (i + 1 + 1)..Len(s) PROVE s[j].peer # k
      <4>1. j - 1 \in (i + 1)..Len(t) /\ j \in 1..Len(s) /\ j # 1  BY <1>1
      <4> QED  BY <1>3, <3>1, <4>1
    <3> QED  BY <3>2, <3>3 DEF Knows
  <2>2. CASE k \in known /\ \A i \in 1..Len(t) : t[i].peer # k
    <3>1. \A i \in 1..Len(s) : i = 1 \/ s[i].peer # k  BY <1>3, <2>2
    <3>2. CASE m.peer = k
      <4>1. s[1] = Present(k)
        BY <1>1, <1>4, <2>2, <3>2 DEF Present, Msgs, m
      <4>2. \A j \in (1 + 1)..Len(s) : j \in 1..Len(s) /\ j # 1  BY <1>1
      <4> QED  BY <1>5, <3>1, <4>1, <4>2 DEF Knows
    <3>3. CASE m.peer # k
      <4>1. s[1].peer # k /\ k \in keys  BY <1>4, <2>2, <3>3 DEF m
      <4> QED  BY <3>1, <4>1 DEF Knows
    <3> QED  BY <3>2, <3>3
  <2> QED  BY <1>6, <2>1, <2>2 DEF Knows
<1>7. ASSUME Knows(keys, s, k) PROVE Knows(known, t, k)
  <2>1. CASE \E i \in 1..Len(s) :
            s[i] = Present(k) /\ \A j \in (i + 1)..Len(s) : s[j].peer # k
    <3>1. PICK i \in 1..Len(s) :
            s[i] = Present(k) /\ \A j \in (i + 1)..Len(s) : s[j].peer # k
      BY <2>1
    <3>2. CASE i = 1
      <4>1. \A j \in 1..Len(t) : j + 1 \in (i + 1)..Len(s) /\ t[j] = s[j + 1]
        BY <1>1, <1>2, <3>2
      <4>2. m.peer = k /\ m.present  BY <3>1, <3>2 DEF Present, m
      <4> QED  BY <1>4, <3>1, <4>1, <4>2 DEF Knows
    <3>3. CASE i # 1
      <4>1. i - 1 \in 1..Len(t) /\ t[i - 1] = Present(k)  BY <1>3, <3>1, <3>3
      <4>2. \A j \in (i - 1 + 1)..Len(t) :
                j + 1 \in (i + 1)..Len(s) /\ j \in 1..Len(t)
        BY <1>1
      <4>3. \A j \in (i - 1 + 1)..Len(t) : t[j].peer # k
        BY <1>2, <3>1, <4>2
      <4> QED  BY <4>1, <4>3 DEF Knows
    <3> QED  BY <3>2, <3>3
  <2>2. CASE k \in keys /\ \A i \in 1..Len(s) : s[i].peer # k
    BY <1>2, <1>4, <1>5, <2>2 DEF Knows, m
  <2> QED  BY <1>7, <2>1, <2>2 DEF Knows
<1> QED  BY <1>1, <1>6, <1>7 DEF known, t, m

(* Batches and queues: how the two of a watcher hang together.             *)
LEMMA Joined ==
    ASSUME NEW a \in Seq(Msgs), NEW b \in Seq(Msgs), NEW m \in Msgs
    PROVE  /\ a \o b \in Seq(Msgs)
           /\ a \o Append(b, m) = Append(a \o b, m)
           /\ << >> \o a = a /\ a \o << >> = a
           /\ a # << >> => /\ a \o b # << >> /\ Head(a \o b) = Head(a)
                           /\ Tail(a \o b) = Tail(a) \o b
<1>1. a \o b \in Seq(Msgs)  OBVIOUS
<1>2. a \o Append(b, m) = Append(a \o b, m)  OBVIOUS
<1>3. << >> \o a = a  OBVIOUS
<1>4. a \o << >> = a  OBVIOUS
<1>5. ASSUME a # << >>
      PROVE  /\ a \o b # << >> /\ Head(a \o b) = Head(a)
             /\ Tail(a \o b) = Tail(a) \o b
  <2>1. Len(a \o b) = Len(a) + Len(b) /\ Len(a) \in Nat \ {0} /\ Len(b) \in Nat
    BY <1>5
  <2>2. a \o b # << >>  BY <2>1
  <2>3. Head(a \o b) = Head(a)  BY <1>5, <2>1
  <2>4. Tail(a \o b) = Tail(a) \o b  BY <1>5, <2>1
  <2> QED  BY <2>2, <2>3, <2>4
<1> QED  BY <1>1, <1>2, <1>3, <1>4, <1>5

(* A key that is unsaid in a change and what follows it is neither.        *)
LEMMA UnsaidHead ==
    ASSUME NEW s \in Seq(Msgs), s # << >>, NEW k, Unsaid(s, k)
    PROVE  Head(s).peer # k /\ Unsaid(Tail(s), k)
<1>1. Len(s) \in Nat \ {0} /\ Len(Tail(s)) = Len(s) - 1 /\ Head(s) = s[1]
  OBVIOUS
<1>2. \A i \in 1..Len(Tail(s)) : i + 1 \in 1..Len(s) /\ Tail(s)[i] = s[i + 1]
  BY <1>1
<1> QED  BY <1>1, <1>2 DEF Unsaid

(* One who was told keys and then hears s gets to know whether k is here,  *)
(* unless k is one of lost and s says nothing of it.                       *)
Sync(keys, s, lost, here, k) ==
    /\ Knows(keys, s, k) => here
    /\ here => Knows(keys, s, k) \/ (k \in lost /\ Unsaid(s, k))

(* A change that is written makes up for a notice about its key.           *)
LEMMA SyncHead ==
    ASSUME NEW keys, NEW s \in Seq(Msgs), s # << >>, NEW lost, NEW here,
           NEW k \in Keys, Sync(keys, s, lost, here, k)
    PROVE  Sync(Heard(keys, Head(s)), Tail(s), lost \ {Head(s).peer}, here, k)
<1>1. Knows(Heard(keys, Head(s)), Tail(s), k) <=> Knows(keys, s, k)
  BY KnowsHead
<1>2. Unsaid(s, k) => Head(s).peer # k /\ Unsaid(Tail(s), k)
  BY UnsaidHead
<1> QED  BY <1>1, <1>2 DEF Sync

(* A change that is queued.                                                *)
LEMMA SyncAppend ==
    ASSUME NEW keys, NEW s \in Seq(Msgs), NEW m \in Msgs, NEW lost, NEW here,
           NEW now, NEW k \in Keys, Sync(keys, s, lost, here, k),
           IF m.peer = k THEN m.present <=> now ELSE now <=> here
    PROVE  Sync(keys, Append(s, m), lost, now, k)
<1>1. Knows(keys, Append(s, m), k)
          <=> IF m.peer = k THEN m.present ELSE Knows(keys, s, k)
  BY KnowsAppend
<1>2. m.peer # k /\ Unsaid(s, k) => Unsaid(Append(s, m), k)
  <2>1. /\ Len(Append(s, m)) = Len(s) + 1 /\ Append(s, m)[Len(s) + 1] = m
        /\ \A i \in 1..Len(s) : Append(s, m)[i] = s[i]
    OBVIOUS
  <2> QED  BY <2>1 DEF Unsaid
<1>3. CASE m.peer = k  BY <1>1, <1>3 DEF Sync
<1>4. CASE m.peer # k  BY <1>1, <1>2, <1>4 DEF Sync
<1> QED  BY <1>3, <1>4

(* A notice about q takes q away, and is the last word of it.              *)
LEMMA SyncNotice ==
    ASSUME NEW keys, NEW s \in Seq(Msgs), NEW lost, NEW here, NEW q, NEW k \in Keys,
           Sync(keys, s, lost, here, k)
    PROVE  Sync(keys \ {q}, s, lost \union {q}, here, k)
<1>1. Knows(keys \ {q}, s, k) => Knows(keys, s, k)
  BY DEF Knows
<1>2. ASSUME Knows(keys, s, k), ~Knows(keys \ {q}, s, k)
      PROVE  k = q /\ Unsaid(s, k)
  BY <1>2 DEF Knows, Unsaid
<1> QED  BY <1>1, <1>2 DEF Sync

(* The snapshot that addWatcher queues names just the keys there are.      *)
LEMMA Snapshot ==
    ASSUME NEW T \in SUBSET Keys
    PROVE  LET s == SetToSeq({Present(q) : q \in T})
           IN  /\ s \in Seq(Msgs)
               /\ \A k \in Keys : Knows({}, s, k) <=> k \in T
               /\ {s[i] : i \in 1..Len(s)} = {Present(q) : q \in T}
               /\ \A i, j \in 1..Len(s) : s[i] = s[j] => i = j
<1> DEFINE P == {Present(q) : q \in T}
           s == SetToSeq(P)
           n == Cardinality(P)
<1>1. IsFiniteSet(P)
  <2> DEFINE f == [q \in T |-> Present(q)]
  <2>1. f \in Surjection(T, P)  BY DEF Surjection
  <2>2. IsFiniteSet(T)  BY Finite
  <2> HIDE DEF f, P
  <2> QED  BY <2>1, <2>2, FS_Surjection
<1>2. P \subseteq Msgs
  <2>1. \A q \in T : Present(q) \in Msgs  BY DEF Present, Msgs
  <2> QED  BY <2>1
<1>3. \A x \in P : x.present = TRUE /\ x = Present(x.peer) /\ x.peer \in T
  BY DEF Present
<1>4. \A q \in T : Present(q) \in P /\ Present(q).peer = q  BY DEF Present
<1> HIDE DEF P
<1>5. n \in Nat /\ ExistsBijection(1..n, P)  BY <1>1, FS_CardinalityType
<1>6. \E f \in [1..n -> P] : IsInjective(f)
  BY <1>5 DEF ExistsBijection, Bijection, Injection
<1>7. s \in [1..n -> P] /\ IsInjective(s)
  BY <1>6 DEF SetToSeq
<1> HIDE DEF s
<1>8. s \in Injection(1..n, P)
  BY <1>7 DEF Injection
<1>9. s \in Surjection(1..n, P)
  <2>1. Cardinality(1..n) = n  BY <1>5, FS_Interval
  <2> QED  BY <1>1, <1>8, <2>1, FS_Injection
<1>10. s \in Seq(Msgs) /\ Len(s) = n
  BY <1>2, <1>5, <1>7
<1>11. ASSUME NEW k \in Keys, Knows({}, s, k) PROVE k \in T
  <2>1. PICK i \in 1..n : s[i] = Present(k)
    BY <1>10, <1>11 DEF Knows
  <2> QED  BY <1>3, <1>7, <2>1 DEF Present
<1>12. ASSUME NEW k \in T PROVE Knows({}, s, k)
  <2>1. PICK i \in 1..n : s[i] = Present(k)
    BY <1>4, <1>9 DEF Surjection
  <2>2. \A j \in (i + 1)..n : s[j].peer # k
    <3> SUFFICES ASSUME NEW j \in (i + 1)..n, s[j].peer = k PROVE FALSE
      OBVIOUS
    <3>1. j \in 1..n /\ j # i  BY <1>5
    <3>2. s[j] = Present(k)  BY <1>3, <1>7, <3>1
    <3> QED  BY <1>8, <2>1, <3>1, <3>2 DEF Injection, IsInjective
  <2> QED  BY <1>10, <2>1, <2>2 DEF Knows
<1>13. {s[i] : i \in 1..Len(s)} = P
  <2>1. \A x \in P : \E i \in 1..n : s[i] = x  BY <1>9 DEF Surjection
  <2> QED  BY <1>7, <1>10, <2>1
<1>14. \A i, j \in 1..Len(s) : s[i] = s[j] => i = j
  BY <1>8, <1>10 DEF Injection, IsInjective
<1> QED  BY <1>10, <1>11, <1>12, <1>13, <1>14 DEF s, P

-----------------------------------------------------------------------------
(* The watchers stay in sync.                                              *)

Here(k) == Connected(k) # {}

(* A step that changes neither the queues nor which keys are there.        *)
LEMMA WatchUnchanged ==
    ASSUME WatchInv, \A k \in Keys : Here(k)' <=> Here(k),
           \A c \in watchers : life'[c] # "off",
           UNCHANGED <<watchers, outbox>>
    PROVE  WatchInv'
<1>1. OutboxTypes' /\ Silent'  BY DEF WatchInv, OutboxTypes, Silent, outbox
<1>2. WatcherInSync'
  <2>1. UNCHANGED <<watchers, changes, batch, told, noticed>>  BY DEF outbox
  <2>2. \A w \in watchers', k \in Keys :
            Sync(told'[w], batch'[w] \o changes'[w], noticed'[w], Here(k)', k)
    BY <2>1 DEF WatchInv, WatcherInSync, Sync, Here
  <2> QED  BY <2>2 DEF WatcherInSync, Knows, Unsaid, Sync, Here, Present
<1> QED  BY <1>1, <1>2 DEF WatchInv, outbox

(* broadcastPeerStateChangeLocked: all watchers ws that stay hear of the   *)
(* change of one key, and nothing else has changed.                        *)
LEMMA Broadcast ==
    ASSUME WatchInv, NEW k \in Keys, NEW m \in Msgs, m.peer = k,
           m.present <=> Here(k)',
           \A q \in Keys \ {k} : Here(q)' <=> Here(q),
           NEW w \in watchers,
           changes'[w] = Append(changes[w], m),
           batch'[w] = batch[w], told'[w] = told[w], noticed'[w] = noticed[w]
    PROVE  \A q \in Keys :
               Sync(told'[w], batch'[w] \o changes'[w], noticed'[w], Here(q)', q)
<1> DEFINE s == batch[w] \o changes[w]
<1>1. w \in Conns /\ batch[w] \in Seq(Msgs) /\ changes[w] \in Seq(Msgs)
  BY DerpClientsAssumption DEF WatchInv, OutboxTypes
<1>2. s \in Seq(Msgs) /\ batch'[w] \o changes'[w] = Append(s, m)
  <2> DEFINE a == batch[w]
             b == changes[w]
  <2>1. /\ a \in Seq(Msgs) /\ b \in Seq(Msgs) /\ s = a \o b
        /\ batch'[w] \o changes'[w] = a \o Append(b, m)
    BY <1>1
  <2> HIDE DEF a, b, s
  <2> QED  BY <2>1, Joined
<1> HIDE DEF s
<1> SUFFICES ASSUME NEW q \in Keys
             PROVE  Sync(told[w], Append(s, m), noticed[w], Here(q)', q)
  BY <1>2
<1>3. Sync(told[w], s, noticed[w], Here(q), q)
  BY DEF WatchInv, WatcherInSync, Sync, Here, s
<1>4. IF m.peer = q THEN m.present <=> Here(q)' ELSE Here(q)' <=> Here(q)
  OBVIOUS
<1> QED  BY <1>2, <1>3, <1>4, SyncAppend

(* registerClient queues for every watcher what keeps it in sync.          *)
LEMMA RegisterWatch ==
    ASSUME LocalInv, WatchInv, NEW c \in Conns, RegisterClient(c)
    PROVE  WatchInv'
<1> DEFINE k == KeyOf[c]
           m == Present(k)
<1>1. k \in Keys /\ watchers \subseteq Conns
  BY DerpClientsAssumption DEF WatchInv, OutboxTypes
<1>2. m \in Msgs /\ m.peer = k /\ m.present = TRUE  BY <1>1 DEF Present, Msgs
<1>3. /\ changes' = Queued(m) /\ request' = Requested
      /\ UNCHANGED <<watchers, token, sender, batch, notices, told, noticed>>
  BY DEF RegisterClient
<1>4. /\ \A w \in watchers : changes'[w] = Append(changes[w], m)
      /\ \A w \in Conns \ watchers : changes'[w] = changes[w]
      /\ changes' \in [Conns -> Seq(Msgs)]
  <2>1. \A w \in Conns : /\ changes[w] \in Seq(Msgs)
                         /\ Append(changes[w], m) \in Seq(Msgs)
    BY <1>2, Appended DEF WatchInv, OutboxTypes
  <2> HIDE DEF m
  <2> QED  BY <1>1, <1>3, <2>1 DEF Queued
<1>5. Here(k)' /\ \A q \in Keys \ {k} : Here(q)' <=> Here(q)
  BY RegisterKeys DEF Here
<1> HIDE DEF m
<1>6. \A w \in watchers, q \in Keys :
          Sync(told'[w], batch'[w] \o changes'[w], noticed'[w], Here(q)', q)
  <2> SUFFICES ASSUME NEW w \in watchers
               PROVE  \A q \in Keys :
                        Sync(told'[w], batch'[w] \o changes'[w], noticed'[w], Here(q)', q)
    OBVIOUS
  <2> QED  BY <1>1, <1>2, <1>3, <1>4, <1>5, Broadcast
<1>7. WatcherInSync'  BY <1>3, <1>6 DEF WatcherInSync, Knows, Unsaid, Sync, Here, Present
<1>8. request' \in [Conns -> BOOLEAN]
  BY <1>3, Zenon DEF Requested, WatchInv, OutboxTypes
<1>9. OutboxTypes'  BY <1>3, <1>4, <1>8 DEF WatchInv, OutboxTypes
<1>10. Silent'  BY <1>3, <1>4 DEF WatchInv, Silent
<1>11. \A w \in watchers' : life'[w] # "off"
  BY <1>1, <1>3 DEF WatchInv, RegisterClient, LocalInv, LocalTypes
<1> QED  BY <1>7, <1>9, <1>10, <1>11 DEF WatchInv

(* So does unregisterClient, which also ends a watcher.                    *)
LEMMA UnregisterWatch ==
    ASSUME LocalInv, WatchInv, NEW c \in Conns, UnregisterClient(c)
    PROVE  WatchInv'
<1> DEFINE k == KeyOf[c]
           m == Gone(k)
<1>1. k \in Keys /\ watchers \subseteq Conns
  BY DerpClientsAssumption DEF WatchInv, OutboxTypes
<1>2. m \in Msgs /\ m.peer = k /\ m.present = FALSE  BY <1>1 DEF Gone, Msgs
<1>3. /\ watchers' = watchers \ {c}
      /\ token' = [token EXCEPT ![c] = FALSE]
      /\ sender' = [sender EXCEPT ![c] = "select"]
      /\ batch' = [batch EXCEPT ![c] = << >>]
      /\ told' = [told EXCEPT ![c] = {}]
      /\ notices' = [notices EXCEPT ![c] = {}]
      /\ noticed' = [noticed EXCEPT ![c] = {}]
      /\ life' = [life EXCEPT ![c] = "off"]
  BY DEF UnregisterClient
<1>4. /\ \A w \in Conns \ {c} :
            /\ batch'[w] = batch[w] /\ told'[w] = told[w]
            /\ notices'[w] = notices[w] /\ noticed'[w] = noticed[w]
      /\ batch'[c] = << >> /\ told'[c] = {} /\ notices'[c] = {} /\ noticed'[c] = {}
  BY <1>3 DEF WatchInv, OutboxTypes
<1>5. \A q \in Keys \ {k} : Here(q)' <=> Here(q)
  BY UnregisterKeys DEF Here
<1>6. /\ changes' \in [Conns -> Seq(Msgs)] /\ changes'[c] = << >>
      /\ \A w \in Conns \ watchers : w # c => changes'[w] = changes[w]
      /\ request' \in [Conns -> BOOLEAN]
      /\ \A w \in watchers', q \in Keys :
            Sync(told'[w], batch'[w] \o changes'[w], noticed'[w], Here(q)', q)
  <2>0. \A w \in Conns : /\ changes[w] \in Seq(Msgs)
                         /\ Append(changes[w], m) \in Seq(Msgs)
    BY <1>2, Appended DEF WatchInv, OutboxTypes
  <2> HIDE DEF m
  <2>1. CASE UnregisterSingle(c)
    <3>1. /\ changes' = [Queued(m) EXCEPT ![c] = << >>]
          /\ request' = [Requested EXCEPT ![c] = FALSE] /\ dup[k] = NoDup
      BY <2>1 DEF UnregisterSingle, m
    <3>2. \A w \in Conns : changes'[w] =
              IF w = c THEN << >>
              ELSE IF w \in watchers THEN Append(changes[w], m) ELSE changes[w]
      BY <3>1 DEF Queued
    <3>3. changes' \in [Conns -> Seq(Msgs)]
      <4>1. Queued(m) \in [Conns -> Seq(Msgs)]  BY <2>0 DEF Queued
      <4> QED  BY <3>1, <4>1
    <3>4. request' \in [Conns -> BOOLEAN]
      <4>1. Requested \in [Conns -> BOOLEAN]
        BY Zenon DEF Requested, WatchInv, OutboxTypes
      <4> QED  BY <3>1, <4>1
    <3>5. ~Here(k)'
      <4>1. /\ Connected(k) \in SUBSET Conns /\ IsFiniteSet(Connected(k))
            /\ Cardinality(Connected(k)) \in Nat /\ Cardinality(Connected(k)) <= 1
        BY <1>1, <3>1, KeyFacts
      <4>2. c \in Connected(k) /\ Connected(k)' = Connected(k) \ {c}
        BY UnregisterKeys
      <4>3. Cardinality(Connected(k)) = 1  BY <4>1, <4>2, Several
      <4>4. PICK x : Connected(k) = {x}  BY <4>1, <4>3, Several
      <4> QED  BY <4>2, <4>4 DEF Here
    <3>6. \A w \in watchers', q \in Keys :
              Sync(told'[w], batch'[w] \o changes'[w], noticed'[w], Here(q)', q)
      <4> SUFFICES ASSUME NEW w \in watchers'
                   PROVE  \A q \in Keys :
                        Sync(told'[w], batch'[w] \o changes'[w], noticed'[w], Here(q)', q)
        OBVIOUS
      <4>1. /\ w \in watchers /\ changes'[w] = Append(changes[w], m)
            /\ batch'[w] = batch[w] /\ told'[w] = told[w]
            /\ noticed'[w] = noticed[w]
        BY <1>1, <1>3, <1>4, <3>2
      <4> QED  BY <1>1, <1>2, <1>5, <3>5, <4>1, Broadcast
    <3> QED  BY <3>2, <3>3, <3>4, <3>6
  <2>2. CASE UnregisterDup(c)
    <3>1. /\ changes' = [changes EXCEPT ![c] = << >>]
          /\ request' = [request EXCEPT ![c] = FALSE] /\ dup[k] # NoDup
      BY <2>2 DEF UnregisterDup
    <3>2. \A w \in Conns : changes'[w] = IF w = c THEN << >> ELSE changes[w]
      BY <3>1 DEF WatchInv, OutboxTypes
    <3>3. changes' \in [Conns -> Seq(Msgs)] /\ request' \in [Conns -> BOOLEAN]
      BY <3>1 DEF WatchInv, OutboxTypes
    <3>4. Here(k)' /\ Here(k)
      <4>1. /\ IsFiniteSet(Connected(k)) /\ Cardinality(Connected(k)) \in Nat
            /\ ~(Cardinality(Connected(k)) <= 1)
        BY <1>1, <3>1, KeyFacts
      <4>2. c \in Connected(k) /\ Connected(k)' = Connected(k) \ {c}
        BY UnregisterKeys
      <4>3. Connected(k) # {c}  BY <4>1, FS_Singleton
      <4> QED  BY <4>2, <4>3 DEF Here
    <3>5. \A w \in watchers' : /\ w \in watchers /\ changes'[w] = changes[w]
                               /\ batch'[w] = batch[w] /\ told'[w] = told[w]
                               /\ noticed'[w] = noticed[w]
      BY <1>1, <1>3, <1>4, <3>2
    <3>6. \A w \in watchers', q \in Keys :
              Sync(told'[w], batch'[w] \o changes'[w], noticed'[w], Here(q)', q)
      BY <1>1, <1>5, <3>4, <3>5 DEF WatchInv, WatcherInSync, Sync, Here
    <3> QED  BY <3>2, <3>3, <3>6
  <2> QED  BY <2>1, <2>2 DEF UnregisterClient
<1>7. WatcherInSync'  BY <1>6 DEF WatcherInSync, Knows, Unsaid, Sync, Here, Present
<1>8. OutboxTypes'
  BY <1>3, <1>6 DEF WatchInv, OutboxTypes
<1>9. Silent'  BY <1>3, <1>4, <1>6 DEF WatchInv, Silent
<1>10. \A w \in watchers' : life'[w] # "off"
  BY <1>1, <1>3 DEF WatchInv, LocalInv, LocalTypes
<1> QED  BY <1>7, <1>8, <1>9, <1>10 DEF WatchInv

(* addWatcher: the new watcher has the snapshot, the others are left alone.*)
LEMMA AddWatch ==
    ASSUME LocalInv, WatchInv, NEW c \in Conns, AddWatcher(c)
    PROVE  WatchInv'
<1> DEFINE T == {k \in clients : active[k] # None}
           s == SetToSeq({Present(k) : k \in T})
<1>1. /\ c \in CanMesh \ watchers /\ life[c] = "on"
      /\ changes' = [changes EXCEPT ![c] = @ \o s]
      /\ watchers' = watchers \union {c}
      /\ request' = [request EXCEPT ![c] = TRUE]
      /\ UNCHANGED <<locals, token, sender, batch, notices, told, noticed>>
  BY DEF AddWatcher
<1>2. T \in SUBSET Keys /\ \A k \in Keys : k \in T <=> Here(k)
  <2>1. \A k \in Keys : active[k] = None <=> Connected(k) = {}
    BY KeyFacts
  <2> QED  BY <2>1 DEF clients, Here
<1> HIDE DEF T
<1>3. s \in Seq(Msgs) /\ \A k \in Keys : Knows({}, s, k) <=> k \in T
  BY <1>2, Snapshot
<1> HIDE DEF s
<1>4. changes[c] = << >> /\ batch[c] = << >> /\ told[c] = {}
  BY <1>1 DEF WatchInv, Silent
<1>5. << >> \o s = s  BY <1>3, Joined
<1>6. /\ changes' \in [Conns -> Seq(Msgs)] /\ changes'[c] = s
      /\ \A w \in Conns \ {c} : changes'[w] = changes[w]
  BY <1>1, <1>3, <1>4, <1>5 DEF WatchInv, OutboxTypes
<1>7. \A k \in Keys : Here(k)' <=> Here(k)
  BY <1>1 DEF Here, Connected, locals
<1>8. ASSUME NEW w \in watchers', NEW k \in Keys
      PROVE  Sync(told'[w], batch'[w] \o changes'[w], noticed'[w], Here(k)', k)
  <2>1. CASE w = c
    <3>1. told'[w] = {} /\ batch'[w] \o changes'[w] = s
      BY <1>1, <1>4, <1>5, <1>6, <2>1
    <3>2. Knows({}, s, k) <=> Here(k)'
      BY <1>2, <1>3, <1>7
    <3>3. Sync({}, s, noticed'[w], Here(k)', k)
      BY <3>2 DEF Sync
    <3> QED  BY <3>1, <3>3
  <2>2. CASE w # c
    <3>1. w \in watchers /\ w \in Conns
      BY <1>1, <2>2, DerpClientsAssumption DEF WatchInv, OutboxTypes
    <3> QED
      BY <1>1, <1>6, <1>7, <2>2, <3>1 DEF WatchInv, WatcherInSync, Sync, Here
  <2> QED  BY <2>1, <2>2
<1>9. WatcherInSync'  BY <1>8 DEF WatcherInSync, Knows, Unsaid, Sync, Here, Present
<1>10. OutboxTypes'  BY <1>1, <1>6 DEF WatchInv, OutboxTypes
<1>11. Silent'  BY <1>1, <1>6 DEF WatchInv, Silent
<1>12. \A w \in watchers' : life'[w] # "off"
  BY <1>1 DEF WatchInv, locals
<1> QED  BY <1>9, <1>10, <1>11, <1>12 DEF WatchInv

(* sendLoop moves the changes on, in their order.                          *)
LEMMA SendWatch ==
    ASSUME LocalInv, WatchInv, NEW c \in Conns,
           RequestMeshUpdate(c) \/ WriteOther(c) \/ SendLoop(c)
    PROVE  WatchInv'
<1>1. UNCHANGED <<locals, watchers, notices>>
  BY DEF RequestMeshUpdate, WriteOther, SendLoop, TakeToken, TakeAll, WriteChange
<1>2. \A k \in Keys : Here(k)' <=> Here(k)
  BY <1>1 DEF Here, Connected, locals
<1>3. \A w \in watchers' : life'[w] # "off"  BY <1>1 DEF WatchInv, locals
<1>4. watchers \subseteq Conns  BY DerpClientsAssumption DEF WatchInv, OutboxTypes
<1>5. CASE UNCHANGED <<changes, batch, notices, told, noticed>>
  <2>0. \A w \in watchers', k \in Keys :
            Sync(told'[w], batch'[w] \o changes'[w], noticed'[w], Here(k)', k)
    BY <1>1, <1>2, <1>5 DEF WatchInv, WatcherInSync, Sync, Here
  <2>1. WatcherInSync'  BY <2>0 DEF WatcherInSync, Knows, Unsaid, Sync, Here, Present
  <2>2. Silent'  BY <1>1, <1>5 DEF WatchInv, Silent
  <2>3. /\ request' \in [Conns -> BOOLEAN] /\ token' \in [Conns -> BOOLEAN]
        /\ sender' \in [Conns -> {"select", "busy", "mesh"}]
    BY DEF RequestMeshUpdate, WriteOther, SendLoop, TakeToken, TakeAll,
           WriteChange, WatchInv, OutboxTypes
  <2>4. OutboxTypes'  BY <1>1, <1>5, <2>3 DEF WatchInv, OutboxTypes
  <2> QED  BY <1>3, <2>1, <2>2, <2>4 DEF WatchInv
<1>6. CASE TakeAll(c)
  <2>1. /\ batch[c] = << >> /\ batch' = [batch EXCEPT ![c] = changes[c]]
        /\ changes' = [changes EXCEPT ![c] = << >>]
        /\ sender' = [sender EXCEPT ![c] = IF changes[c] = << >> THEN "select" ELSE @]
        /\ UNCHANGED <<request, token, notices, told, noticed>>
    BY <1>6 DEF TakeAll
  <2>2. changes[c] \in Seq(Msgs)  BY DEF WatchInv, OutboxTypes
  <2>3. << >> \o changes[c] = changes[c] \o << >>
    BY <2>2, Joined
  <2>4. /\ batch'[c] \o changes'[c] = batch[c] \o changes[c]
        /\ \A w \in Conns \ {c} : changes'[w] = changes[w] /\ batch'[w] = batch[w]
    BY <2>1, <2>3 DEF WatchInv, OutboxTypes
  <2>5. ASSUME NEW w \in watchers', NEW k \in Keys
        PROVE  Sync(told'[w], batch'[w] \o changes'[w], noticed'[w], Here(k)', k)
    <3>1. /\ w \in watchers /\ w \in Conns
          /\ told'[w] = told[w] /\ noticed'[w] = noticed[w]
      BY <1>1, <1>4, <2>1
    <3>2. batch'[w] \o changes'[w] = batch[w] \o changes[w]
      BY <2>4, <3>1
    <3> QED  BY <1>2, <3>1, <3>2 DEF WatchInv, WatcherInSync, Sync, Here
  <2>6. WatcherInSync'  BY <2>5 DEF WatcherInSync, Knows, Unsaid, Sync, Here, Present
  <2>7. OutboxTypes'  BY <1>1, <2>1, <2>2 DEF WatchInv, OutboxTypes
  <2>8. Silent'
    BY <1>1, <2>1 DEF WatchInv, Silent, OutboxTypes
  <2> QED  BY <1>3, <2>6, <2>7, <2>8 DEF WatchInv
<1>7. CASE WriteChange(c)
  <2>1. /\ batch[c] # << >> /\ batch' = [batch EXCEPT ![c] = Tail(batch[c])]
        /\ told' = [told EXCEPT ![c] = Heard(told[c], Head(batch[c]))]
        /\ noticed' = [noticed EXCEPT ![c] = @ \ {Head(batch[c]).peer}]
        /\ UNCHANGED <<changes, request, token, sender, notices>>
    BY <1>7 DEF WriteChange
  <2>2. /\ batch[c] \in Seq(Msgs) /\ changes[c] \in Seq(Msgs) /\ told[c] \in SUBSET Keys
        /\ c \in watchers
    BY <2>1 DEF WatchInv, OutboxTypes, Silent
  <2>3. Tail(batch[c]) \in Seq(Msgs) /\ Head(batch[c]) \in Msgs
    BY <2>1, <2>2
  <2>4. Heard(told[c], Head(batch[c])) \in SUBSET Keys
    BY <2>2, <2>3 DEF Heard, Msgs
  <2>5. /\ batch'[c] = Tail(batch[c]) /\ told'[c] = Heard(told[c], Head(batch[c]))
        /\ noticed'[c] = noticed[c] \ {Head(batch[c]).peer}
        /\ noticed' \in [Conns -> SUBSET Keys]
        /\ \A w \in Conns \ {c} : /\ batch'[w] = batch[w] /\ told'[w] = told[w]
                                  /\ noticed'[w] = noticed[w]
    BY <2>1 DEF WatchInv, OutboxTypes
  <2>6. ASSUME NEW w \in watchers', NEW k \in Keys
        PROVE  Sync(told'[w], batch'[w] \o changes'[w], noticed'[w], Here(k)', k)
    <3>1. w \in watchers /\ w \in Conns  BY <1>1, <1>4
    <3>2. Sync(told[w], batch[w] \o changes[w], noticed[w], Here(k), k)
      BY <3>1 DEF WatchInv, WatcherInSync, Sync, Here
    <3>3. CASE w # c
      <4>1. Sync(told'[w], batch'[w] \o changes'[w], noticed'[w], Here(k), k)
        BY <2>1, <2>5, <3>1, <3>2, <3>3
      <4> QED  BY <1>2, <4>1 DEF Sync
    <3>4. CASE w = c
      <4> DEFINE s == batch[c] \o changes[c]
      <4>1. /\ s \in Seq(Msgs) /\ s # << >> /\ Head(s) = Head(batch[c])
            /\ Tail(s) = Tail(batch[c]) \o changes[c]
        BY <2>1, <2>2, <2>3, Joined
      <4> HIDE DEF s
      <4>2. Sync(told[c], s, noticed[c], Here(k), k)  BY <3>2, <3>4 DEF s
      <4>3. Sync(Heard(told[c], Head(s)), Tail(s), noticed[c] \ {Head(s).peer},
                 Here(k), k)
        BY <4>1, <4>2, SyncHead
      <4>4. Sync(told'[c], batch'[c] \o changes'[c], noticed'[c], Here(k), k)
        BY <2>1, <2>5, <4>1, <4>3
      <4> QED  BY <1>2, <3>4, <4>4 DEF Sync
    <3> QED  BY <3>3, <3>4
  <2>7. WatcherInSync'  BY <2>6 DEF WatcherInSync, Knows, Unsaid, Sync, Here, Present
  <2>8. OutboxTypes'
    BY <1>1, <2>1, <2>3, <2>4, <2>5 DEF WatchInv, OutboxTypes
  <2>9. Silent'  BY <1>1, <2>1, <2>2, <2>5 DEF WatchInv, Silent
  <2> QED  BY <1>3, <2>7, <2>8, <2>9 DEF WatchInv
<1> QED
  BY <1>5, <1>6, <1>7 DEF RequestMeshUpdate, WriteOther, SendLoop, TakeToken

(* A notice is asked for, and written.                                     *)
LEMMA NoticeWatch ==
    ASSUME LocalInv, WatchInv, NEW c \in Conns, NEW q \in Keys,
           ForwardNotHere(c, q) \/ WriteNotice(c, q)
    PROVE  WatchInv'
<1>1. UNCHANGED <<locals, watchers, changes, batch, request, token>>
  BY DEF ForwardNotHere, WriteNotice
<1>2. \A k \in Keys : Here(k)' <=> Here(k)
  BY <1>1 DEF Here, Connected, locals
<1>3. \A w \in watchers' : life'[w] # "off"  BY <1>1 DEF WatchInv, locals
<1>4. watchers \subseteq Conns  BY DerpClientsAssumption DEF WatchInv, OutboxTypes
<1>5. CASE ForwardNotHere(c, q)
  <2>1. /\ c \in watchers /\ notices' = [notices EXCEPT ![c] = @ \union {q}]
        /\ UNCHANGED <<told, noticed, sender>>
    BY <1>5 DEF ForwardNotHere
  <2>2. \A w \in watchers', k \in Keys :
            Sync(told'[w], batch'[w] \o changes'[w], noticed'[w], Here(k)', k)
    BY <1>1, <1>2, <2>1 DEF WatchInv, WatcherInSync, Sync, Here
  <2>3. WatcherInSync'
    BY <2>2 DEF WatcherInSync, Knows, Unsaid, Sync, Here, Present
  <2>4. OutboxTypes'  BY <1>1, <2>1 DEF WatchInv, OutboxTypes
  <2>5. Silent'  BY <1>1, <2>1 DEF WatchInv, Silent, OutboxTypes
  <2> QED  BY <1>3, <2>3, <2>4, <2>5 DEF WatchInv
<1>6. CASE WriteNotice(c, q)
  <2>1. /\ q \in notices[c] /\ told' = [told EXCEPT ![c] = @ \ {q}]
        /\ noticed' = [noticed EXCEPT ![c] = @ \union {q}]
        /\ sender' = [sender EXCEPT ![c] = "busy"]
    BY <1>6 DEF WriteNotice, Heard, Gone
  <2>2. /\ c \in watchers /\ notices' \in [Conns -> SUBSET Keys]
        /\ \A w \in Conns \ {c} : notices'[w] = notices[w]
    <3>1. c \in watchers  BY <2>1 DEF WatchInv, Silent
    <3>2. PICK rest \in {notices[c], notices[c] \ {q}} :
              notices' = [notices EXCEPT ![c] = rest]
      BY <1>6 DEF WriteNotice
    <3> QED  BY <3>1, <3>2 DEF WatchInv, OutboxTypes
  <2>3. /\ told'[c] = told[c] \ {q} /\ noticed'[c] = noticed[c] \union {q}
        /\ \A w \in Conns \ {c} : told'[w] = told[w] /\ noticed'[w] = noticed[w]
    BY <2>1 DEF WatchInv, OutboxTypes
  <2>4. ASSUME NEW w \in watchers', NEW k \in Keys
        PROVE  Sync(told'[w], batch'[w] \o changes'[w], noticed'[w], Here(k)', k)
    <3>1. w \in watchers /\ w \in Conns  BY <1>1, <1>4
    <3>2. Sync(told[w], batch[w] \o changes[w], noticed[w], Here(k), k)
      BY <3>1 DEF WatchInv, WatcherInSync, Sync, Here
    <3>3. batch[w] \o changes[w] \in Seq(Msgs)
      BY <3>1 DEF WatchInv, OutboxTypes
    <3>4. Sync(told'[w], batch[w] \o changes[w], noticed'[w], Here(k), k)
      <4>1. CASE w = c
        <5>1. Sync(told[w] \ {q}, batch[w] \o changes[w], noticed[w] \union {q},
                   Here(k), k)
          BY <3>2, <3>3, SyncNotice
        <5> QED  BY <2>3, <4>1, <5>1
      <4>2. CASE w # c
        BY <2>3, <3>1, <3>2, <4>2
      <4> QED  BY <4>1, <4>2
    <3> QED  BY <1>1, <1>2, <3>4 DEF Sync
  <2>5. WatcherInSync'
    BY <2>4 DEF WatcherInSync, Knows, Unsaid, Sync, Here, Present
  <2>6. OutboxTypes'  BY <1>1, <2>1, <2>2 DEF WatchInv, OutboxTypes
  <2>7. Silent'  BY <1>1, <2>2, <2>3 DEF WatchInv, Silent
  <2> QED  BY <1>3, <2>5, <2>6, <2>7 DEF WatchInv
<1> QED  BY <1>5, <1>6

-----------------------------------------------------------------------------
(* The invariant holds at the start and is kept.                           *)

(* A server that has just been made satisfies the invariant.               *)
LEMMA InitInv == Init => IInv
<1> SUFFICES ASSUME Init PROVE IInv
  OBVIOUS
<1>1. NoDup \in DupSets /\ Len(NoDup.history) = 0 /\ NoDup.set = {}
      /\ NoDup.history \in Seq({}) /\ NoRepeats(NoDup.history)
  BY DEF NoDup, DupSets, NoRepeats
<1>2. Live = {} /\ \A k \in Keys : Connected(k) = {} /\ Noting(k) = {}
  BY DEF Init, Live, Connected, Noting
<1>3. LocalTypes
  BY <1>1, <1>2 DEF Init, LocalTypes
<1>4. Cardinality({}) = 0  BY FS_EmptySet
<1>5. Gauges
  <2>1. Shared = {} /\ SharedConns = {}  BY <1>2, <1>4 DEF Shared, SharedConns
  <2> QED  BY <1>2, <1>4, <2>1 DEF Init, Gauges
<1>6. ASSUME NEW k \in Keys
      PROVE  KeyOK(k, Connected(k)) /\ HistoryOK(k)
  <2>1. dup[k] = NoDup /\ active[k] = None  BY DEF Init
  <2>a. Connected(k) = {} /\ Cardinality(Connected(k)) = 0 /\ ~(0 > 1)
    BY <1>2, <1>4
  <2>2. KeyOK(k, Connected(k))  BY <1>1, <2>1, <2>a DEF KeyOK
  <2>b. Missing(k) = {}  BY <1>1, <2>1 DEF Missing
  <2>c. Len(dup[k].history) + Cardinality(Noting(k)) <= MaxHistory
    <3>1. Len(dup[k].history) = 0 /\ Cardinality(Noting(k)) = 0
      BY <1>1, <1>2, <1>4, <2>1
    <3> QED  BY <3>1, DerpClientsAssumption
  <2>3. HistoryOK(k)
    BY <1>1, <2>1, <2>b, <2>c DEF HistoryOK
  <2> QED  BY <2>2, <2>3
<1>7. LocalInv  BY <1>3, <1>5, <1>6 DEF LocalInv, Init
<1>8. OutboxTypes
  <2>1. request \in [Conns -> BOOLEAN] /\ token \in [Conns -> BOOLEAN]
    BY Zenon DEF Init
  <2> QED  BY <2>1 DEF Init, OutboxTypes
<1>9. WatchInv
  BY <1>8 DEF Init, WatchInv, Silent, WatcherInSync
<1> QED  BY <1>7, <1>9 DEF IInv

(* Every step keeps the invariant.                                         *)
LEMMA Inductive == IInv /\ [Next]_vars => IInv'
<1> SUFFICES ASSUME LocalInv, WatchInv, [Next]_vars PROVE IInv'
  BY DEF IInv
<1>1. ASSUME UNCHANGED locals PROVE LocalInv'
  <2>1. UNCHANGED <<life, active, dup, isDup, noting, cur, dupConns, dupKeys>>
    BY <1>1 DEF locals
  <2>2. /\ Live' = Live /\ \A k \in Keys : Connected(k)' = Connected(k)
        /\ \A k \in Keys : Noting(k)' = Noting(k)
    BY <2>1 DEF Live, Connected, Noting
  <2>3. Shared' = Shared /\ SharedConns' = SharedConns
    BY <2>2 DEF Shared, SharedConns
  <2>4. \A k \in Keys : KeyOK(k, Connected(k))' /\ HistoryOK(k)'
    BY <2>1, <2>2, OtherKey
  <2> QED
    BY <2>1, <2>2, <2>3, <2>4 DEF LocalInv, LocalTypes, Gauges
<1>2. CASE UNCHANGED vars
  <2>1. UNCHANGED locals /\ UNCHANGED <<watchers, outbox>>  BY <1>2 DEF vars
  <2>2. (\A k \in Keys : Here(k)' <=> Here(k)) /\ \A c \in watchers : life'[c] # "off"
    BY <2>1 DEF locals, Here, Connected, WatchInv
  <2> QED  BY <1>1, <2>1, <2>2, WatchUnchanged DEF IInv
<1>3. ASSUME NEW c \in Conns, RegisterClient(c) PROVE IInv'
  BY <1>3, RegisterStep, RegisterWatch DEF IInv
<1>4. ASSUME NEW c \in Conns, UnregisterClient(c) PROVE IInv'
  BY <1>4, UnregisterStep, UnregisterWatch DEF IInv
<1>5. ASSUME NEW c \in Conns, NoteFast(c) \/ NoteActivity(c) PROVE IInv'
  <2>1. UNCHANGED <<life, watchers, outbox>>
    BY <1>5 DEF NoteFast, NoteActivity
  <2>2. (\A k \in Keys : Here(k)' <=> Here(k)) /\ \A w \in watchers : life'[w] # "off"
    BY <2>1 DEF Here, Connected, WatchInv
  <2> QED  BY <1>5, <2>1, <2>2, NoteStep, WatchUnchanged DEF IInv
<1>6. ASSUME NEW c \in Conns, Close(c) PROVE IInv'
  <2>1. /\ life[c] = "on" /\ life' = [life EXCEPT ![c] = "closing"]
        /\ UNCHANGED <<watchers, outbox>>
    BY <1>6 DEF Close
  <2>2. \A x \in Conns : life'[x] # "off" <=> life[x] # "off"
    BY <2>1 DEF LocalInv, LocalTypes
  <2>3. (\A k \in Keys : Here(k)' <=> Here(k)) /\ \A w \in watchers : life'[w] # "off"
    BY <2>2, DerpClientsAssumption DEF Here, Connected, WatchInv, OutboxTypes
  <2> QED  BY <1>6, <2>1, <2>3, CloseStep, WatchUnchanged DEF IInv
<1>7. ASSUME NEW c \in Conns, AddWatcher(c) PROVE IInv'
  <2>1. UNCHANGED locals  BY <1>7 DEF AddWatcher
  <2> QED  BY <1>1, <1>7, <2>1, AddWatch DEF IInv
<1>8. ASSUME NEW c \in Conns, RequestMeshUpdate(c) \/ WriteOther(c) \/ SendLoop(c)
      PROVE  IInv'
  <2>1. UNCHANGED locals
    BY <1>8 DEF RequestMeshUpdate, WriteOther, SendLoop, TakeToken, TakeAll, WriteChange
  <2> QED  BY <1>1, <1>8, <2>1, SendWatch DEF IInv
<1>9. ASSUME NEW c \in Conns, NEW k \in Keys,
             ForwardNotHere(c, k) \/ WriteNotice(c, k)
      PROVE  IInv'
  <2>1. UNCHANGED locals  BY <1>9 DEF ForwardNotHere, WriteNotice
  <2> QED  BY <1>1, <1>9, <2>1, NoticeWatch DEF IInv
<1> QED  BY <1>2, <1>3, <1>4, <1>5, <1>6, <1>7, <1>8, <1>9 DEF Next

(* The invariant holds in every behaviour of the server.                   *)
LEMMA Invariance == Spec => []IInv
BY InitInv, Inductive, PTL DEF Spec

-----------------------------------------------------------------------------
(* SetsMatch: from every state that registerClient, noteClientActivity and *)
(* unregisterClient can reach together, a key with a connection has one of *)
(* them to get its packets, its dupClientSet is there exactly when there   *)
(* are several and holds exactly these, and the gauges count them.         *)
THEOREM ClientSetsMatch == Spec => []SetsMatch
<1>1. IInv => SetsMatch
  <2> SUFFICES ASSUME LocalInv PROVE SetsMatch
    BY DEF IInv
  <2>1. ASSUME NEW k \in Keys
        PROVE  /\ active[k] \in (IF Connected(k) = {} THEN {None} ELSE Connected(k))
               /\ dup[k].set = (IF k \in Shared THEN Connected(k) ELSE {})
               /\ k \in Shared => dup[k].last = active[k]
               /\ Connected(k) \intersect isDup = dup[k].set
    <3>1. KeyOK(k, Connected(k)) /\ (k \in Shared <=> Cardinality(Connected(k)) > 1)
      BY KeyFacts
    <3>2. NoDup.set = {}  BY DEF NoDup
    <3>3. CASE k \in Shared  BY <3>1, <3>3 DEF KeyOK
    <3>4. CASE k \notin Shared
      <4>1. dup[k] = NoDup  BY <3>1, <3>4 DEF KeyOK
      <4> QED  BY <3>1, <3>2, <3>4, <4>1 DEF KeyOK
    <3> QED  BY <3>3, <3>4
  <2>2. Live = UNION {Connected(k) : k \in Keys}
    BY DerpClientsAssumption DEF Live, Connected
  <2>3. SharedConns = UNION {Connected(k) : k \in Shared}
    <3>1. Shared \subseteq Keys  BY DEF Shared
    <3> QED  BY <3>1, DerpClientsAssumption DEF SharedConns, Live, Connected
  <2> QED  BY <2>1, <2>2, <2>3 DEF SetsMatch, LocalInv, Gauges
<1> QED  BY <1>1, Invariance, PTL

(* WatcherInSync: what a mesh watcher has been told, with what is queued   *)
(* and being written, has no key that is not connected, and every one that *)
(* is unless a late notice was the last word of it.                        *)
THEOREM WatchersInSync == Spec => []WatcherInSync
<1>1. IInv => WatcherInSync  BY DEF IInv, WatchInv
<1> QED  BY <1>1, Invariance, PTL

(* Every variable keeps its type; in particular the gauges never count     *)
(* below zero, and a sendHistory names only members of its set.            *)
THEOREM TypeCorrect == Spec => []TypeOK
<1>1. IInv => TypeOK
  <2> SUFFICES ASSUME LocalInv, WatchInv PROVE TypeOK
    BY DEF IInv
  <2>1. ASSUME NEW k \in Keys
        PROVE  /\ DOMAIN dup[k] = {"set", "last", "history"}
               /\ dup[k].set \subseteq Conns /\ dup[k].last \in Conns \union {None}
               /\ dup[k].history \in Seq(dup[k].set)
               /\ Len(dup[k].history) <= MaxHistory
    <3>1. /\ dup[k] \in DupSets /\ dup[k].history \in Seq(dup[k].set)
          /\ Len(dup[k].history) \in Nat /\ Cardinality(Noting(k)) \in Nat
          /\ HistoryOK(k)
      BY KeyFacts
    <3>2. Len(dup[k].history) <= MaxHistory
      BY <3>1, DerpClientsAssumption DEF HistoryOK
    <3> QED  BY <3>1, <3>2 DEF DupSets
  <2>2. /\ cur \in 0..Cardinality(Conns) /\ dupConns \in 0..Cardinality(Conns)
        /\ dupKeys \in 0..Cardinality(Keys)
    <3>1. /\ Live \in SUBSET Conns /\ SharedConns \in SUBSET Conns
          /\ Shared \in SUBSET Keys
      BY DEF Live, SharedConns, Shared
    <3>2. /\ Cardinality(Live) <= Cardinality(Conns)
          /\ Cardinality(SharedConns) <= Cardinality(Conns)
          /\ Cardinality(Shared) <= Cardinality(Keys)
      BY <3>1, FS_Subset, DerpClientsAssumption
    <3>3. /\ Cardinality(Live) \in Nat /\ Cardinality(SharedConns) \in Nat
          /\ Cardinality(Shared) \in Nat /\ Cardinality(Conns) \in Nat
          /\ Cardinality(Keys) \in Nat
      BY <3>1, Finite
    <3> QED  BY <3>2, <3>3 DEF LocalInv, Gauges
  <2>3. isDup \subseteq Conns  BY DEF LocalInv, LocalTypes, Live
  <2> QED
    BY <2>1, <2>2, <2>3 DEF TypeOK, LocalInv, LocalTypes, WatchInv, OutboxTypes, Msgs
<1> QED  BY <1>1, Invariance, PTL

(* HistoryOK: at most one member of a dupClientSet is missing from its     *)
(* sendHistory, which names members only and has no adjacent duplicates,   *)
(* as the comment on sendHistory says: removeClient, which relies on it to *)
(* find a successor, keeps it so.                                          *)
THEOREM HistoriesCover == Spec => [](\A k \in Keys : HistoryOK(k))
<1>1. IInv => \A k \in Keys : HistoryOK(k)  BY DEF IInv, LocalInv
<1> QED  BY <1>1, Invariance, PTL

-----------------------------------------------------------------------------
(* No update is lost.                                                      *)

(* Only sendMeshUpdates has changes in hand, and queued ones are on their  *)
(* way to it.                                                              *)
PendInv ==
    \A w \in Conns : /\ changes[w] # << >> => Underway(w)
                     /\ batch[w] # << >> => sender[w] = "mesh"

(* What is not in the outbox of a connection does not matter to it.        *)
LEMMA PendSame ==
    ASSUME PendInv, NEW w \in Conns,
           changes'[w] = changes[w], batch'[w] = batch[w],
           sender'[w] = sender[w],
           request[w] \/ token[w] => request'[w] \/ token'[w]
    PROVE  /\ changes'[w] # << >> => Underway(w)'
           /\ batch'[w] # << >> => sender'[w] = "mesh"
BY DEF PendInv, Underway

(* A broadcast asks for an update of every watcher it leaves a change for. *)
LEMMA PendBroadcast ==
    ASSUME PendInv, NEW w \in Conns, NEW m,
           changes'[w] = Queued(m)[w], request'[w] = Requested[w],
           batch'[w] = batch[w], sender'[w] = sender[w], token'[w] = token[w]
    PROVE  /\ changes'[w] # << >> => Underway(w)'
           /\ batch'[w] # << >> => sender'[w] = "mesh"
<1>1. Requested[w] <=> w \in watchers \/ request[w]
  BY DEF Requested
<1>2. CASE w \in watchers
  BY <1>1, <1>2 DEF PendInv, Underway
<1>3. CASE w \notin watchers
  <2>1. changes'[w] = changes[w]  BY <1>3 DEF Queued
  <2> QED  BY <1>1, <2>1, PendSame
<1> QED  BY <1>2, <1>3

(* Every step keeps the changes on their way.                              *)
LEMMA PendStep ==
    ASSUME WatchInv, PendInv, [Next]_vars
    PROVE  PendInv'
<1>0. /\ changes \in [Conns -> Seq(Msgs)] /\ batch \in [Conns -> Seq(Msgs)]
      /\ request \in [Conns -> BOOLEAN] /\ token \in [Conns -> BOOLEAN]
      /\ sender \in [Conns -> {"select", "busy", "mesh"}]
  BY DEF WatchInv, OutboxTypes
<1> SUFFICES ASSUME NEW w \in Conns
             PROVE  /\ changes'[w] # << >> => Underway(w)'
                    /\ batch'[w] # << >> => sender'[w] = "mesh"
  BY DEF PendInv
<1> DEFINE Goal == /\ changes'[w] # << >> => Underway(w)'
                   /\ batch'[w] # << >> => sender'[w] = "mesh"
<1>a. /\ changes[w] # << >> => Underway(w)
      /\ batch[w] # << >> => sender[w] = "mesh"
  BY DEF PendInv
<1>1. ASSUME UNCHANGED outbox PROVE Goal
  BY <1>1, PendSame DEF outbox
<1>2. ASSUME NEW c \in Conns, RegisterClient(c) PROVE Goal
  <2>1. /\ changes' = Queued(Present(KeyOf[c])) /\ request' = Requested
        /\ UNCHANGED <<token, sender, batch>>
    BY <1>2 DEF RegisterClient
  <2> QED  BY <2>1, PendBroadcast
<1>3. ASSUME NEW c \in Conns, UnregisterClient(c) PROVE Goal
  <2>1. /\ token' = [token EXCEPT ![c] = FALSE]
        /\ sender' = [sender EXCEPT ![c] = "select"]
        /\ batch' = [batch EXCEPT ![c] = << >>]
    BY <1>3 DEF UnregisterClient
  <2>2. CASE w = c
    <3>1. changes'[c] = << >>
      <4>1. CASE UnregisterSingle(c)
        <5>1. changes' = [Queued(Gone(KeyOf[c])) EXCEPT ![c] = << >>]
          BY <4>1 DEF UnregisterSingle
        <5> QED  BY <5>1 DEF Queued
      <4>2. CASE UnregisterDup(c)
        BY <1>0, <4>2 DEF UnregisterDup
      <4> QED  BY <1>3, <4>1, <4>2 DEF UnregisterClient
    <3>2. batch'[c] = << >>  BY <1>0, <2>1
    <3> QED  BY <2>2, <3>1, <3>2
  <2>3. CASE w # c
    <3>1. token'[w] = token[w] /\ sender'[w] = sender[w] /\ batch'[w] = batch[w]
      BY <1>0, <2>1, <2>3
    <3>2. CASE UnregisterSingle(c)
      <4>1. /\ changes' = [Queued(Gone(KeyOf[c])) EXCEPT ![c] = << >>]
            /\ request' = [Requested EXCEPT ![c] = FALSE]
        BY <3>2 DEF UnregisterSingle
      <4>2. changes'[w] = Queued(Gone(KeyOf[c]))[w]
        BY <2>3, <4>1 DEF Queued
      <4>3. request'[w] = Requested[w]
        BY <2>3, <4>1, Zenon DEF Requested
      <4> QED  BY <3>1, <4>2, <4>3, PendBroadcast
    <3>3. CASE UnregisterDup(c)
      <4>1. changes'[w] = changes[w] /\ request'[w] = request[w]
        BY <1>0, <2>3, <3>3 DEF UnregisterDup
      <4> QED  BY <3>1, <4>1, PendSame
    <3> QED  BY <1>3, <3>2, <3>3 DEF UnregisterClient
  <2> QED  BY <2>2, <2>3
<1>4. ASSUME NEW c \in Conns, NoteFast(c) \/ NoteActivity(c) \/ Close(c)
      PROVE  Goal
  <2>1. UNCHANGED outbox  BY <1>4 DEF NoteFast, NoteActivity, Close
  <2> QED  BY <1>1, <2>1
<1>5. ASSUME NEW c \in Conns, AddWatcher(c) PROVE Goal
  <2>1. /\ request' = [request EXCEPT ![c] = TRUE]
        /\ UNCHANGED <<token, sender, batch>>
    BY <1>5 DEF AddWatcher
  <2>2. CASE w = c
    <3>1. request'[w]  BY <1>0, <2>1, <2>2
    <3> QED  BY <1>a, <2>1, <3>1 DEF Underway
  <2>3. CASE w # c
    <3>1. changes'[w] = changes[w]  BY <1>0, <1>5, <2>3 DEF AddWatcher
    <3>2. request'[w] = request[w]  BY <1>0, <2>1, <2>3
    <3> QED  BY <2>1, <3>1, <3>2, PendSame
  <2> QED  BY <2>2, <2>3
<1>6. ASSUME NEW c \in Conns, RequestMeshUpdate(c) PROVE Goal
  <2>1. /\ request' = [request EXCEPT ![c] = FALSE]
        /\ token' = [token EXCEPT ![c] = TRUE]
        /\ UNCHANGED <<changes, sender, batch>>
    BY <1>6 DEF RequestMeshUpdate
  <2>2. token'[w] \/ (token'[w] = token[w] /\ request'[w] = request[w])
    BY <1>0, <2>1
  <2> QED  BY <2>1, <2>2, PendSame
<1>7. ASSUME NEW c \in Conns, WriteOther(c) PROVE Goal
  <2>1. /\ sender[c] # "mesh" /\ UNCHANGED <<changes, request, token, batch>>
        /\ \A x \in Conns \ {c} : sender'[x] = sender[x]
    BY <1>0, <1>7 DEF WriteOther
  <2> QED  BY <1>a, <2>1 DEF Underway
<1>8. ASSUME NEW c \in Conns, TakeToken(c) PROVE Goal
  <2>1. /\ token' = [token EXCEPT ![c] = FALSE]
        /\ sender' = [sender EXCEPT ![c] = "mesh"]
        /\ UNCHANGED <<changes, request, batch>>
    BY <1>8 DEF TakeToken
  <2>2. CASE w = c
    <3>1. sender'[w] = "mesh"  BY <1>0, <2>1, <2>2
    <3> QED  BY <3>1 DEF Underway
  <2>3. CASE w # c
    <3>1. token'[w] = token[w] /\ sender'[w] = sender[w]  BY <1>0, <2>1, <2>3
    <3> QED  BY <2>1, <3>1, PendSame
  <2> QED  BY <2>2, <2>3
<1>9. ASSUME NEW c \in Conns, TakeAll(c) PROVE Goal
  <2>1. /\ sender[c] = "mesh" /\ UNCHANGED <<request, token>>
        /\ batch' = [batch EXCEPT ![c] = changes[c]]
        /\ changes' = [changes EXCEPT ![c] = << >>]
        /\ sender' = [sender EXCEPT ![c] = IF changes[c] = << >>
                                           THEN "select" ELSE @]
    BY <1>9 DEF TakeAll
  <2>2. CASE w = c
    <3>1. changes'[w] = << >> /\ batch'[w] = changes[w]  BY <1>0, <2>1, <2>2
    <3>2. changes[w] # << >> => sender'[w] = "mesh"  BY <1>0, <2>1, <2>2
    <3> QED  BY <3>1, <3>2
  <2>3. CASE w # c
    <3>1. /\ changes'[w] = changes[w] /\ batch'[w] = batch[w]
          /\ sender'[w] = sender[w]
      BY <1>0, <2>1, <2>3
    <3> QED  BY <2>1, <3>1, PendSame
  <2> QED  BY <2>2, <2>3
<1>10. ASSUME NEW c \in Conns, WriteChange(c) PROVE Goal
  <2>1. /\ batch[c] # << >> /\ UNCHANGED <<changes, request, token, sender>>
        /\ \A x \in Conns \ {c} : batch'[x] = batch[x]
    BY <1>0, <1>10 DEF WriteChange
  <2> QED  BY <1>a, <2>1 DEF Underway
<1>11. CASE UNCHANGED vars
  BY <1>1, <1>11 DEF vars
<1>12. ASSUME NEW c \in Conns, NEW k \in Keys,
              ForwardNotHere(c, k) \/ WriteNotice(c, k)
       PROVE  Goal
  <2>1. /\ UNCHANGED <<changes, request, token, batch>>
        /\ sender[c] # "mesh" \/ sender' = sender
        /\ \A x \in Conns \ {c} : sender'[x] = sender[x]
    BY <1>0, <1>12 DEF ForwardNotHere, WriteNotice
  <2> QED  BY <1>a, <2>1 DEF Underway
<1> QED
  BY <1>2, <1>3, <1>4, <1>5, <1>6, <1>7, <1>8, <1>9, <1>10, <1>11, <1>12
     DEF Next, SendLoop

(* NoUpdateLost: although requestMeshUpdate drops a request that finds its *)
(* channel full, a watcher with nothing under way has been told no key     *)
(* that is not connected and all that are, those apart of which a notice   *)
(* was the last it received; the safety core of UpdatesArrive.             *)
THEOREM UpdatesUnderway == Spec => []NoUpdateLost
<1>1. Init => PendInv
  BY DEF Init, PendInv
<1>2. IInv /\ PendInv => NoUpdateLost
  <2> SUFFICES ASSUME IInv, PendInv, NEW w \in watchers, ~Underway(w),
                      NEW k \in Keys
               PROVE  /\ k \in told[w] => Connected(k) # {}
                      /\ Connected(k) # {} => k \in told[w] \union noticed[w]
    BY DEF NoUpdateLost, PendInv
  <2>1. w \in Conns  BY DerpClientsAssumption DEF IInv, WatchInv, OutboxTypes
  <2>2. changes[w] = << >> /\ batch[w] = << >>
    BY <2>1 DEF PendInv, Underway
  <2>3. Sync(told[w], batch[w] \o changes[w], noticed[w], Here(k), k)
    BY DEF IInv, WatchInv, WatcherInSync, Sync, Here
  <2>4. Len(batch[w] \o changes[w]) = 0  BY <2>2
  <2>5. Knows(told[w], batch[w] \o changes[w], k) <=> k \in told[w]
    <3> HIDE <2>2, <2>3
    <3> QED  BY <2>4 DEF Knows
  <2> QED  BY <2>3, <2>5 DEF Sync, Here
<1>3. IInv /\ PendInv /\ [Next]_vars => PendInv'
  BY PendStep DEF IInv
<1> QED  BY <1>1, <1>2, <1>3, Invariance, PTL DEF Spec

-----------------------------------------------------------------------------
(* PeerFeed: what a watcher sees of this server.                           *)

Online == {k \in Keys : Connected(k) # {}}
Wire(w) == batch[w] \o changes[w]

(* A step that a watcher does not see.                                     *)
LEMMA FeedApart ==
    ASSUME NEW w \in Conns, Online' = Online, Wire(w)' = Wire(w),
           notices'[w] = notices[w], w \in watchers' <=> w \in watchers
    PROVE  UNCHANGED Feed(w)!vars
<1>1. (w \in watchers) \in BOOLEAN /\ (w \in watchers') \in BOOLEAN
  OBVIOUS
<1>2. (w \in watchers') = (w \in watchers)
  BY <1>1
<1> QED
  BY <1>2 DEF Feed!vars, Online, Wire

(* What a broadcast does to the feed of a connection that stays.           *)
LEMMA FeedSays ==
    ASSUME WatchInv, NEW w \in Conns, NEW m \in Msgs,
           changes'[w] = Queued(m)[w], batch'[w] = batch[w]
    PROVE  Wire(w)' = IF w \in watchers THEN Append(Wire(w), m) ELSE Wire(w)
<1> DEFINE a == batch[w]
           b == changes[w]
<1>1. a \in Seq(Msgs) /\ b \in Seq(Msgs)
  BY DEF WatchInv, OutboxTypes
<1>2. changes'[w] = IF w \in watchers THEN Append(b, m) ELSE b
  BY DEF Queued
<1>3. a \o Append(b, m) = Append(a \o b, m)
  <2> HIDE DEF a, b
  <2> QED  BY <1>1, Joined
<1> QED
  BY <1>2, <1>3 DEF Wire

(* registerClient is a coming of the key.                                  *)
LEMMA FeedComes ==
    ASSUME LocalInv, WatchInv, NEW w \in Conns, NEW c \in Conns,
           RegisterClient(c)
    PROVE  Feed(w)!Come(KeyOf[c])
<1> DEFINE k == KeyOf[c]
<1>1. k \in Keys /\ Present(k) \in Msgs
  BY DerpClientsAssumption DEF Present, Msgs
<1>2. Online' = Online \union {k}
  BY <1>1, RegisterKeys DEF Online
<1>3. changes' = Queued(Present(k)) /\ UNCHANGED <<watchers, batch, notices>>
  BY DEF RegisterClient
<1>4. Wire(w)' = IF w \in watchers THEN Append(Wire(w), Present(k)) ELSE Wire(w)
  BY <1>1, <1>3, FeedSays
<1> QED
  BY <1>2, <1>3, <1>4 DEF Feed!Come, Feed!Say, Online, Wire

(* What unregisterClient does to the keys: with the last connection of a   *)
(* key the key goes, otherwise it stays.                                   *)
LEMMA KeyGoes ==
    ASSUME LocalInv, NEW c \in Conns, UnregisterClient(c)
    PROVE  /\ KeyOf[c] \in Keys /\ KeyOf[c] \in Online
           /\ UnregisterSingle(c) => Online' = Online \ {KeyOf[c]}
           /\ UnregisterDup(c) => Online' = Online
<1> DEFINE k == KeyOf[c]
<1>1. k \in Keys
  BY DerpClientsAssumption
<1>2. /\ c \in Connected(k) /\ Connected(k)' = Connected(k) \ {c}
      /\ \A q \in Keys \ {k} : Connected(q)' = Connected(q)
  BY UnregisterKeys
<1>3. /\ IsFiniteSet(Connected(k)) /\ Cardinality(Connected(k)) \in Nat
      /\ dup[k] = NoDup <=> Cardinality(Connected(k)) <= 1
  BY <1>1, KeyFacts
<1>4. ASSUME UnregisterSingle(c) PROVE Connected(k)' = {}
  <2>1. Cardinality(Connected(k)) <= 1  BY <1>3, <1>4 DEF UnregisterSingle
  <2>2. Cardinality(Connected(k)) = 1  BY <1>2, <1>3, <2>1, Several
  <2>3. PICK x : Connected(k) = {x}  BY <1>3, <2>2, Several
  <2> QED  BY <1>2, <2>3
<1>5. ASSUME UnregisterDup(c) PROVE Connected(k)' # {}
  <2>1. ~(Cardinality(Connected(k)) <= 1)  BY <1>3, <1>5 DEF UnregisterDup
  <2>2. Connected(k) # {c}  BY <1>3, <2>1, FS_Singleton
  <2> QED  BY <1>2, <2>2
<1> QED
  BY <1>1, <1>2, <1>4, <1>5 DEF Online

(* unregisterClient is a going of the key, the end of the feed, or neither.*)
LEMMA FeedGoes ==
    ASSUME LocalInv, WatchInv, NEW w \in Conns, NEW c \in Conns,
           UnregisterClient(c)
    PROVE  [Feed(w)!Next]_(Feed(w)!vars)
<1> DEFINE k == KeyOf[c]
<1>0. changes \in [Conns -> Seq(Msgs)] /\ batch \in [Conns -> Seq(Msgs)]
  BY DEF WatchInv, OutboxTypes
<1>1. k \in Keys /\ Gone(k) \in Msgs /\ k \in Online
  BY KeyGoes DEF Gone, Msgs
<1>2. watchers' = watchers \ {c} /\ batch' = [batch EXCEPT ![c] = << >>]
  BY DEF UnregisterClient
<1>5. /\ notices'[c] = {}
      /\ w # c => notices'[w] = notices[w]
  BY DEF UnregisterClient, WatchInv, OutboxTypes
<1>3. CASE w = c
  <2>1. Online' \in {Online, Online \ {k}}
    BY KeyGoes DEF UnregisterClient
  <2>2. changes'[c] = << >>
    <3>1. ASSUME UnregisterSingle(c) PROVE changes'[c] = << >>
      <4>1. changes' = [Queued(Gone(k)) EXCEPT ![c] = << >>]
        BY <3>1 DEF UnregisterSingle
      <4> QED  BY <4>1 DEF Queued
    <3>2. ASSUME UnregisterDup(c) PROVE changes'[c] = << >>
      BY <1>0, <3>2 DEF UnregisterDup
    <3> QED  BY <3>1, <3>2 DEF UnregisterClient
  <2>3. Wire(w)' = << >>
    BY <1>0, <1>2, <1>3, <2>2 DEF Wire
  <2>4. w \notin watchers'
    BY <1>2, <1>3
  <2>5. CASE w \in watchers
    <3>1. \E q \in Keys : Online' \in {Online, Online \ {q}}
      BY <1>1, <2>1
    <3>2. /\ (w \in watchers)' = FALSE /\ (batch[w] \o changes[w])' = << >>
          /\ (notices[w])' = {}
      BY <1>3, <1>5, <2>3, <2>4 DEF Wire
    <3>3. Feed(w)!Shut
      BY <2>5, <3>1, <3>2, Zenon DEF Feed!Shut, Online
    <3> QED  BY <3>3 DEF Feed!Next
  <2>6. CASE w \notin watchers
    <3>1. Wire(w) = << >> /\ notices'[w] = notices[w]
      BY <1>3, <1>5, <2>6 DEF WatchInv, Silent, Wire
    <3>2. CASE Online' = Online
      BY <2>3, <2>4, <2>6, <3>1, <3>2, FeedApart
    <3>3. CASE Online' = Online \ {k}
      <4>1. Feed(w)!Go(k)
        BY <1>1, <2>3, <2>4, <2>6, <3>1, <3>3
           DEF Feed!Go, Feed!Say, Online, Wire
      <4> QED  BY <1>1, <4>1 DEF Feed!Next
    <3> QED  BY <2>1, <3>2, <3>3
  <2> QED  BY <2>5, <2>6
<1>4. CASE w # c
  <2>1. batch'[w] = batch[w] /\ (w \in watchers' <=> w \in watchers)
    BY <1>0, <1>2, <1>4
  <2>2. CASE UnregisterSingle(c)
    <3>1. changes' = [Queued(Gone(k)) EXCEPT ![c] = << >>]
      BY <2>2 DEF UnregisterSingle
    <3>2. changes'[w] = Queued(Gone(k))[w]
      BY <1>4, <3>1 DEF Queued
    <3>3. Wire(w)' = IF w \in watchers THEN Append(Wire(w), Gone(k)) ELSE Wire(w)
      BY <1>1, <2>1, <3>2, FeedSays
    <3>4. Online' = Online \ {k}
      BY <2>2, KeyGoes
    <3>5. Feed(w)!Go(k)
      BY <1>1, <1>4, <1>5, <2>1, <3>3, <3>4 DEF Feed!Go, Feed!Say, Online, Wire
    <3> QED  BY <1>1, <3>5 DEF Feed!Next
  <2>3. CASE UnregisterDup(c)
    <3>1. changes'[w] = changes[w]
      BY <1>0, <1>4, <2>3 DEF UnregisterDup
    <3>2. Online' = Online /\ Wire(w)' = Wire(w)
      BY <2>1, <2>3, <3>1, KeyGoes DEF Wire
    <3> QED  BY <1>4, <1>5, <2>1, <3>2, FeedApart
  <2> QED  BY <2>2, <2>3 DEF UnregisterClient
<1> QED  BY <1>3, <1>4

(* addWatcher opens the feed of the new watcher with all keys there are.   *)
LEMMA FeedOpens ==
    ASSUME LocalInv, WatchInv, NEW w \in Conns, AddWatcher(w)
    PROVE  Feed(w)!Open
<1> DEFINE T == {k \in clients : active[k] # None}
           s == SetToSeq({Present(k) : k \in T})
<1>1. /\ w \notin watchers /\ watchers' = watchers \union {w}
      /\ changes' = [changes EXCEPT ![w] = @ \o s]
      /\ UNCHANGED <<locals, batch, notices>>
  BY DEF AddWatcher
<1>2. T \in SUBSET Keys /\ T = Online
  <2>1. \A k \in Keys : active[k] = None <=> Connected(k) = {}
    BY KeyFacts
  <2> QED  BY <2>1 DEF clients, Online
<1> HIDE DEF T
<1>3. /\ s \in Seq(Msgs)
      /\ {s[i] : i \in 1..Len(s)} = {Present(k) : k \in T}
      /\ \A i, j \in 1..Len(s) : s[i] = s[j] => i = j
  BY <1>2, Snapshot
<1> HIDE DEF s
<1>4. changes[w] = << >> /\ batch[w] = << >>
  BY <1>1 DEF WatchInv, Silent
<1>5. << >> \o s = s
  BY <1>3
<1>6. Wire(w)' = s
  BY <1>1, <1>4, <1>5 DEF WatchInv, OutboxTypes, Wire
<1>7. Online' = Online
  BY <1>1 DEF Online, Connected, locals
<1>8. {s[i] : i \in 1..Len(s)} = {Present(k) : k \in Online}
  BY <1>2, <1>3
<1>9. w \in watchers'
  BY <1>1
<1> QED
  <2> DEFINE t == (batch[w] \o changes[w])'
  <2>1. t = s
    BY <1>6 DEF Wire
  <2>2. {t[i] : i \in 1..Len(t)} = {Present(k) : k \in Online}
    BY <1>8, <2>1
  <2>3. \A i, j \in 1..Len(t) : t[i] = t[j] => i = j
    BY <1>3, <2>1
  <2>4. /\ w \notin watchers /\ (w \in watchers)' = TRUE
        /\ (notices[w])' = notices[w]
    BY <1>1, <1>9
  <2> QED
    BY <1>7, <2>2, <2>3, <2>4, Zenon DEF Feed!Open, Online

(* sendLoop delivers, and what it and the channel do besides is not seen.  *)
LEMMA FeedSends ==
    ASSUME WatchInv, NEW w \in Conns, NEW c \in Conns,
           RequestMeshUpdate(c) \/ WriteOther(c) \/ SendLoop(c)
    PROVE  [Feed(w)!Next]_(Feed(w)!vars)
<1>0. changes \in [Conns -> Seq(Msgs)] /\ batch \in [Conns -> Seq(Msgs)]
  BY DEF WatchInv, OutboxTypes
<1>1. UNCHANGED <<locals, watchers, notices>>
  BY DEF RequestMeshUpdate, WriteOther, SendLoop, TakeToken, TakeAll, WriteChange
<1>2. Online' = Online
  BY <1>1 DEF Online, Connected, locals
<1>3. ASSUME Wire(w)' = Wire(w) PROVE UNCHANGED Feed(w)!vars
  BY <1>1, <1>2, <1>3, FeedApart
<1>4. CASE changes'[w] = changes[w] /\ batch'[w] = batch[w]
  BY <1>3, <1>4 DEF Wire
<1>5. CASE TakeAll(c) /\ c = w
  <2>1. changes'[w] = << >> /\ batch'[w] = changes[w] /\ batch[w] = << >>
    BY <1>0, <1>5 DEF TakeAll
  <2>2. << >> \o changes[w] = changes[w] \o << >>
    BY <1>0, Joined
  <2> QED  BY <1>3, <2>1, <2>2 DEF Wire
<1>6. CASE WriteChange(c) /\ c = w
  <2>1. /\ batch[w] # << >> /\ batch'[w] = Tail(batch[w])
        /\ changes'[w] = changes[w]
    BY <1>0, <1>6 DEF WriteChange
  <2>2. w \in watchers
    BY <2>1 DEF WatchInv, Silent
  <2> DEFINE a == batch[w]
             b == changes[w]
  <2>3. a \in Seq(Msgs) /\ b \in Seq(Msgs) /\ a # << >>
    BY <1>0, <2>1
  <2>4. a \o b # << >> /\ Tail(a \o b) = Tail(a) \o b
    <3>1. Head(a) \in Msgs  BY <2>3
    <3> HIDE DEF a, b
    <3> QED  BY <2>3, <3>1, Joined
  <2>5. Wire(w) # << >> /\ Wire(w)' = Tail(Wire(w))
    BY <2>1, <2>4 DEF Wire
  <2>6. Feed(w)!Deliver
    BY <1>1, <1>2, <2>2, <2>5 DEF Feed!Deliver, Online, Wire
  <2> QED  BY <2>6 DEF Feed!Next
<1>7. CASE c # w
  <2>1. changes'[w] = changes[w] /\ batch'[w] = batch[w]
    BY <1>0, <1>7 DEF RequestMeshUpdate, WriteOther, SendLoop, TakeToken,
                      TakeAll, WriteChange
  <2> QED  BY <1>4, <2>1
<1> QED
  BY <1>4, <1>5, <1>6, <1>7 DEF RequestMeshUpdate, WriteOther, SendLoop, TakeToken

(* What the notices are to the feed of w: a packet that asks after a key,  *)
(* and the answer.                                                         *)
LEMMA FeedNotes ==
    ASSUME LocalInv, WatchInv, NEW w \in Conns, NEW c \in Conns, NEW k \in Keys,
           ForwardNotHere(c, k) \/ WriteNotice(c, k)
    PROVE  [Feed(w)!Next]_(Feed(w)!vars)
<1>1. UNCHANGED <<locals, watchers, changes, batch>>
  BY DEF ForwardNotHere, WriteNotice
<1>2. Online' = Online
  BY <1>1 DEF Online, Connected, locals
<1>3. Wire(w)' = Wire(w) /\ (w \in watchers)' = (w \in watchers)
  BY <1>1 DEF Wire
<1>4. notices \in [Conns -> SUBSET Keys]
  BY DEF WatchInv, OutboxTypes
<1>5. CASE c # w
  <2>1. notices'[w] = notices[w]
    BY <1>4, <1>5 DEF ForwardNotHere, WriteNotice
  <2> QED  BY <1>1, <1>2, <1>3, <2>1, FeedApart
<1>6. CASE c = w /\ ForwardNotHere(c, k)
  <2>1. k \notin Online
    <3>1. active[k] = None <=> Connected(k) = {}
      BY KeyFacts
    <3> QED  BY <1>6, <3>1 DEF ForwardNotHere, clients, Online
  <2>2. (notices[w])' = notices[w] \union {k}
    BY <1>4, <1>6 DEF ForwardNotHere
  <2>3. Feed(w)!Ask(k)
    BY <1>2, <1>3, <2>1, <2>2, Zenon DEF Feed!Ask, Online, Wire
  <2> QED  BY <2>3 DEF Feed!Next
<1>7. CASE c = w /\ WriteNotice(c, k)
  <2>1. k \in notices[w] /\ (notices[w])' \in {notices[w], notices[w] \ {k}}
    BY <1>4, <1>7 DEF WriteNotice
  <2>2. Feed(w)!Notice(k)
    BY <1>2, <1>3, <2>1, Zenon DEF Feed!Notice, Online, Wire
  <2> QED  BY <2>2 DEF Feed!Next
<1> QED  BY <1>5, <1>6, <1>7

(* Every step is one of the feed of w, or is not seen.                     *)
LEMMA FeedStep ==
    ASSUME LocalInv, WatchInv, NEW w \in Conns, [Next]_vars
    PROVE  [Feed(w)!Next]_(Feed(w)!vars)
<1>1. ASSUME Online' = Online, UNCHANGED <<watchers, changes, batch, notices>>
      PROVE  UNCHANGED Feed(w)!vars
  BY <1>1, FeedApart DEF Wire
<1>2. CASE UNCHANGED vars
  BY <1>1, <1>2 DEF vars, locals, outbox, Online, Connected
<1>3. ASSUME NEW c \in Conns, NoteFast(c) \/ NoteActivity(c)
      PROVE  UNCHANGED Feed(w)!vars
  <2>1. UNCHANGED <<life, watchers, outbox>>
    BY <1>3 DEF NoteFast, NoteActivity
  <2> QED  BY <1>1, <2>1 DEF outbox, Online, Connected
<1>4. ASSUME NEW c \in Conns, Close(c) PROVE UNCHANGED Feed(w)!vars
  <2>1. /\ life[c] = "on" /\ life' = [life EXCEPT ![c] = "closing"]
        /\ UNCHANGED <<watchers, outbox>>
    BY <1>4 DEF Close
  <2>2. \A x \in Conns : life'[x] # "off" <=> life[x] # "off"
    BY <2>1 DEF LocalInv, LocalTypes
  <2>3. Online' = Online  BY <2>2 DEF Online, Connected
  <2> QED  BY <1>1, <2>1, <2>3 DEF outbox
<1>5. ASSUME NEW c \in Conns, AddWatcher(c)
      PROVE  [Feed(w)!Next]_(Feed(w)!vars)
  <2>1. CASE c = w
    BY <1>5, <2>1, FeedOpens DEF Feed!Next
  <2>2. CASE c # w
    <3>1. Online' = Online  BY <1>5 DEF AddWatcher, locals, Online, Connected
    <3>2. changes'[w] = changes[w] /\ batch' = batch /\ notices' = notices
      BY <1>5, <2>2 DEF AddWatcher, WatchInv, OutboxTypes
    <3>3. w \in watchers' <=> w \in watchers  BY <1>5, <2>2 DEF AddWatcher
    <3> QED  BY <3>1, <3>2, <3>3, FeedApart DEF Wire
  <2> QED  BY <2>1, <2>2
<1>6. ASSUME NEW c \in Conns, RegisterClient(c) PROVE Feed(w)!Next
  BY <1>6, FeedComes, DerpClientsAssumption DEF Feed!Next
<1> QED
  BY <1>2, <1>3, <1>4, <1>5, <1>6, FeedGoes, FeedSends, FeedNotes DEF Next

(* The queue, the channel that drops requests and the batches of sendLoop  *)
(* keep the contract PeerFeed towards every connection that may watch:     *)
(* the keys there are first, then every change in order, none twice and    *)
(* none lost, and nothing once the watcher is gone.  Only the notices that *)
(* answer packets for a key that was not there come out of order.          *)
THEOREM FeedImplemented ==
    ASSUME NEW w \in Conns
    PROVE  Spec => Feed(w)!Spec
<1>1. Init => Feed(w)!Init
  <2> SUFFICES ASSUME Init PROVE Feed(w)!Init
    OBVIOUS
  <2>1. w \notin watchers /\ Wire(w) = << >> /\ notices[w] = {}
    BY DEF Init, Wire
  <2> QED  BY <2>1 DEF Feed!Init, Wire
<1>2. IInv /\ [Next]_vars => [Feed(w)!Next]_(Feed(w)!vars)
  BY FeedStep DEF IInv
<1> QED
  BY <1>1, <1>2, Invariance, PTL DEF Spec, Feed!Spec

=============================================================================
