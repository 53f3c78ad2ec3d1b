------------------------ MODULE TrafficShaperProofs ------------------------
(***************************************************************************)
(* Proofs about TrafficShaper for any number of packets, sizes, limits,    *)
(* changes and seconds: the operators, the invariant in its parts, what    *)
(* each action does to them, and that no packet waits for a limiter that   *)
(* nobody will cancel.                                                     *)
(***************************************************************************)
EXTENDS TrafficShaper, TLAPS

CtlType == [op : {"none", "configure", "close"}, i : 1..2,
            swapped : BOOLEAN, old : 0..MaxConfigs]

-----------------------------------------------------------------------------
(* The operators.                                                          *)

(* The larger and the smaller of two numbers.                              *)
LEMMA Bounds ==
    ASSUME NEW a \in Int, NEW b \in Int
    PROVE  /\ AtLeast(a, b) \in {a, b} /\ AtLeast(a, b) >= a
           /\ AtLeast(a, b) >= b
           /\ AtMost(a, b) \in {a, b} /\ AtMost(a, b) <= a
           /\ AtMost(a, b) <= b
BY DEF AtLeast, AtMost

(* A limiter made for any limit earns something, starts without tokens and *)
(* holds a burst of at least MinBurst.                                     *)
LEMMA NewLimiterType ==
    ASSUME NEW bits \in Nat
    PROVE  /\ NewLimiter(bits) \in Limiters
           /\ NewLimiter(bits).rate > 0
           /\ ~NewLimiter(bits).cancelled
           /\ NewLimiter(bits).tokens = 0
           /\ NewLimiter(bits).earned = 0
           /\ NewLimiter(bits).reserved = 0
           /\ NewLimiter(bits).served = 0
<1>1. BytesPerSecond(bits) \in Nat /\ BytesPerSecond(bits) > 0
  BY DEF BytesPerSecond, AtLeast
<1>2. Burst(BytesPerSecond(bits)) \in 0..MaxBurst
  <2>1. BytesPerSecond(bits) \div BurstShare \in Nat
    BY <1>1, ShaperAssumption
  <2> QED
    BY <2>1, ShaperAssumption DEF Burst, AtLeast, AtMost
<1> QED
  BY <1>1, <1>2 DEF NewLimiter, Limiters

(* The records of the packets.                                             *)
LEMMA PacketTypes ==
    ASSUME NEW s \in PacketStates, NEW n \in Nat
    PROVE  /\ Idle \in PacketStates
           /\ Again(s, n) \in PacketStates /\ Again(s, n).at = "check"
           /\ Returned(s) \in PacketStates
           /\ Returned(s).at \in {"idle", "count"}
           /\ Passed(s) \in PacketStates
           /\ Passed(s).at \in {"idle", "count", "check"}
<1>1. Idle \in PacketStates
  BY ShaperAssumption DEF Idle, PacketStates, PacketPoints, Dirs
<1>2. ASSUME NEW m \in Nat
      PROVE  Again(s, m) \in PacketStates /\ Again(s, m).at = "check"
  BY <1>1 DEF Again, Idle, PacketStates, PacketPoints
<1>3. Returned(s) \in PacketStates /\ Returned(s).at \in {"idle", "count"}
  BY <1>1 DEF Returned, Idle, PacketStates, PacketPoints
<1>4. s.left > s.chunk => s.left - s.chunk \in Nat
  BY DEF PacketStates
<1> QED
  BY <1>1, <1>2, <1>3, <1>4 DEF Passed

(* What a step of one packet does to the others.                           *)
LEMMA OnePacket ==
    ASSUME TypeOK, NEW p \in Packets, NEW s \in PacketStates, Set(p, s)
    PROVE  /\ packet' \in [Packets -> PacketStates]
           /\ packet'[p] = s
           /\ \A q \in Packets \ {p} : packet'[q] = packet[q]
BY DEF TypeOK, Set

(* What a step on one limiter does to the others.                          *)
LEMMA OneLimiter ==
    ASSUME TypeOK, NEW d \in Dirs, NEW g \in 1..MaxConfigs,
           NEW l \in Limiters, Put(d, g, l)
    PROVE  /\ limiter' \in [Dirs -> [1..MaxConfigs -> Limiters]]
           /\ limiter'[d][g] = l
           /\ \A e \in Dirs, h \in 1..MaxConfigs :
                e # d \/ h # g => limiter'[e][h] = limiter[e][h]
BY DEF TypeOK, Put

-----------------------------------------------------------------------------
(* The invariant, in parts.                                                *)

(* A packet that has loaded a limiter and not yet left it.                 *)
Holds(p) == packet[p].at \in {"reserve", "wait"}

(* The Configure or close under way has not come to the pacer d yet.       *)
Todo(d) ==
    /\ ctl.op # "none"
    /\ (ctl.i = 1 /\ d = Order[2]) \/ (~ctl.swapped /\ d = Order[ctl.i])

(* Only limiters that have been made are in use: a Configure under way has *)
(* not used its own yet where it is still to come.                         *)
InUse(d, g) ==
    g <= configs /\ (ctl.op = "configure" /\ Todo(d) => g < configs)
MadeInv ==
    /\ \A d \in Dirs : InUse(d, state[d])
    /\ \A p \in Packets : Holds(p) =>
         packet[p].lim # 0 /\ InUse(packet[p].dir, packet[p].lim)

(* The limiter to be cancelled is no longer the current one, and a         *)
(* Configure is only under way while the shaper is open.                   *)
CtlInv ==
    /\ ctl.swapped /\ ctl.old # 0 => ctl.old # state[Order[ctl.i]]
    /\ ctl.op = "none" => ctl = NoCtl
    /\ ctl.op = "configure" => ~closed
    /\ ctl.op = "close" => closed
    /\ ctl.op = "configure" => configs > 0
    /\ closed => config = NoLimits
    /\ \A d \in Dirs : shut[d] => closed

(* A packet asks a limiter for no more than it can hold.                   *)
ChunkInv ==
    \A p \in Packets : packet[p].at = "reserve" =>
        packet[p].chunk <= limiter[packet[p].dir][packet[p].lim].burst

(* What a bucket holds and what has been reserved from it never exceed     *)
(* what its rate has earned; a packet's debt covers the rest of the way to *)
(* its own mark.                                                           *)
Sound(l) == l.tokens + l.reserved <= l.earned /\ l.served <= l.earned
RateInv ==
    /\ \A d \in Dirs, g \in 1..MaxConfigs : Sound(limiter[d][g])
    /\ \A p \in Packets : packet[p].at = "wait" =>
         packet[p].mark <=
           limiter[packet[p].dir][packet[p].lim].earned + packet[p].debt

(* Where nothing is left to do, a direction is paced if it has a limit.    *)
ForceInv ==
    \A d \in Dirs : ~Todo(d) => ((state[d] # 0) <=> (config[d] > 0))

IInv == TypeOK /\ MadeInv /\ CtlInv /\ ChunkInv /\ RateInv
        /\ CurrentIsLive /\ ForceInv /\ DropsOnlyWhenClosed

-----------------------------------------------------------------------------
(* Types.                                                                  *)

(* The initial state has its types.                                        *)
LEMMA TypeInit == Init => TypeOK
<1> SUFFICES ASSUME Init PROVE TypeOK
  OBVIOUS
<1>1. Idle \in PacketStates
  BY ShaperAssumption DEF Idle, PacketStates, PacketPoints, Dirs
<1>2. Unmade \in Limiters
  BY ShaperAssumption DEF Unmade, Limiters
<1>3. NoCtl \in CtlType
  BY ShaperAssumption DEF NoCtl, CtlType
<1>4. NoLimits \in [Dirs -> Nat]
  BY DEF NoLimits
<1>5. ctl \in CtlType /\ packet \in [Packets -> PacketStates]
  BY <1>1, <1>3 DEF Init
<1>6. limiter \in [Dirs -> [1..MaxConfigs -> Limiters]]
  BY <1>2 DEF Init
<1>7. /\ state \in [Dirs -> 0..MaxConfigs] /\ shut \in [Dirs -> BOOLEAN]
      /\ configs \in 0..MaxConfigs /\ ticks \in 0..MaxTicks
      /\ batches \in 0..MaxBatches
  BY ShaperAssumption DEF Init
<1> QED
  BY <1>4, <1>5, <1>6, <1>7 DEF Init, TypeOK, CtlType

(* The steps of a Reserve that changes its limiter.                        *)
LEMMA Reservation ==
    ASSUME NEW l \in Limiters, NEW n \in Nat
    PROVE  /\ Take(l, n) \in Limiters
           /\ Take(l, n).tokens = l.tokens - n
           /\ Take(l, n).reserved = l.reserved + n
           /\ Take(l, n).burst = l.burst /\ Take(l, n).rate = l.rate
           /\ Take(l, n).earned = l.earned /\ Take(l, n).served = l.served
           /\ Take(l, n).cancelled = l.cancelled
<1>1. l.tokens - n \in Int /\ l.reserved + n \in Nat
  BY DEF Limiters
<1> QED
  BY <1>1 DEF Limiters, Take

(* ... and of one that lets the packet through.                            *)
LEMMA Serving ==
    ASSUME NEW l \in Limiters, NEW m \in Nat
    PROVE  /\ Serve(l, m) \in Limiters
           /\ Serve(l, m).tokens = l.tokens
           /\ Serve(l, m).reserved = l.reserved
           /\ Serve(l, m).burst = l.burst /\ Serve(l, m).rate = l.rate
           /\ Serve(l, m).earned = l.earned
           /\ Serve(l, m).cancelled = l.cancelled
           /\ Serve(l, m).served \in {l.served, m}
<1>1. AtLeast(l.served, m) \in {l.served, m} /\ AtLeast(l.served, m) \in Nat
  BY DEF AtLeast, Limiters
<1> QED
  BY <1>1 DEF Limiters, Serve

(* ... of one that is cancelled.                                           *)
LEMMA Cancelling ==
    ASSUME NEW l \in Limiters
    PROVE  /\ Cancel(l) \in Limiters
           /\ Cancel(l).burst = l.burst /\ Cancel(l).rate = l.rate
           /\ Cancel(l).earned = l.earned /\ Cancel(l).tokens = l.tokens
           /\ Cancel(l).reserved = l.reserved /\ Cancel(l).served = l.served
BY DEF Limiters, Cancel

(* ... and of a bucket that fills up.                                      *)
LEMMA Refilling ==
    ASSUME NEW l \in Limiters
    PROVE  /\ Refill(l) \in Limiters
           /\ Refill(l).tokens <= l.tokens + l.rate
           /\ Refill(l).earned = l.earned + l.rate
           /\ Refill(l).reserved = l.reserved /\ Refill(l).served = l.served
           /\ Refill(l).burst = l.burst /\ Refill(l).rate = l.rate
           /\ Refill(l).cancelled = l.cancelled
<1>1. /\ AtMost(l.burst, l.tokens + l.rate) \in Int
      /\ AtMost(l.burst, l.tokens + l.rate) <= l.tokens + l.rate
      /\ l.earned + l.rate \in Nat
  BY ShaperAssumption DEF AtMost, Limiters
<1> QED
  BY <1>1 DEF Limiters, Refill

(* A packet that holds a limiter holds one that exists.                    *)
LEMMA HeldLimiter ==
    ASSUME TypeOK, MadeInv, NEW p \in Packets, Holds(p)
    PROVE  /\ packet[p] \in PacketStates /\ packet[p].dir \in Dirs
           /\ packet[p].lim \in 1..MaxConfigs
           /\ limiter[packet[p].dir][packet[p].lim] \in Limiters
<1>1. packet[p] \in PacketStates
  BY DEF TypeOK
<1>2. packet[p].dir \in Dirs /\ packet[p].lim \in 1..MaxConfigs
  BY <1>1, ShaperAssumption DEF MadeInv, PacketStates
<1> QED
  BY <1>1, <1>2 DEF TypeOK

(* A reservation, seen from outside: the packet goes back, fails, waits    *)
(* with a mark or passes, and only the last two change the limiter.        *)
Waiting(s, r) ==
    [s EXCEPT !.at = "wait", !.debt = 0 - r.tokens, !.mark = r.reserved]
(* These are the four outcomes.                                            *)
LEMMA ReserveCases ==
    ASSUME TypeOK, MadeInv, NEW p \in Packets, Reserve(p)
    PROVE  LET s == packet[p]
               l == limiter[s.dir][s.lim]
               r == Take(l, s.chunk)
           IN  /\ s.at = "reserve" /\ s \in PacketStates
               /\ s.lim \in 1..MaxConfigs /\ l \in Limiters
               /\ r \in Limiters
               /\ UNCHANGED <<config, closed, counted, ctl, state, shut,
                              configs, ticks, batches>>
               /\ \/ Set(p, Again(s, s.left)) /\ limiter' = limiter
                  \/ /\ s.chunk > l.burst
                     /\ Set(p, [s EXCEPT !.at = "failed"])
                     /\ limiter' = limiter
                  \/ /\ r.tokens < 0
                     /\ Set(p, Waiting(s, r))
                     /\ Put(s.dir, s.lim, r)
                  \/ /\ r.tokens >= 0
                     /\ Set(p, Passed(s))
                     /\ Put(s.dir, s.lim, Serve(r, r.reserved))
<1> DEFINE s == packet[p]
           l == limiter[s.dir][s.lim]
           r == Take(l, s.chunk)
<1>0. s.at = "reserve"
  BY DEF Reserve
<1>1. s.at = "reserve" /\ s \in PacketStates /\ s.lim \in 1..MaxConfigs
  BY <1>0, HeldLimiter DEF Holds
<1>2. l \in Limiters /\ s.chunk \in Nat
  BY <1>1, HeldLimiter DEF Holds, PacketStates
<1>3. r \in Limiters
  BY <1>2, Reservation
<1> QED
  BY <1>1, <1>2, <1>3 DEF Reserve, bounds, Waiting

(* The packet record of a reservation that has to wait.                    *)
LEMMA WaitingType ==
    ASSUME NEW s \in PacketStates, NEW r \in Limiters, r.tokens < 0
    PROVE  /\ Waiting(s, r) \in PacketStates
           /\ Waiting(s, r).at = "wait" /\ Waiting(s, r).lim = s.lim
           /\ Waiting(s, r).dir = s.dir
           /\ Waiting(s, r).debt = 0 - r.tokens
           /\ Waiting(s, r).mark = r.reserved
<1>1. 0 - r.tokens \in Nat /\ r.reserved \in Nat
  BY DEF Limiters
<1> QED
  BY <1>1 DEF Waiting, PacketStates, PacketPoints

(* A tick shrinks the debts and leaves the rest of a packet alone.         *)
LEMMA TickPackets ==
    ASSUME TypeOK, MadeInv, Tick, NEW p \in Packets
    PROVE  /\ packet'[p] \in PacketStates
           /\ packet'[p].at = packet[p].at /\ packet'[p].dir = packet[p].dir
           /\ packet'[p].lim = packet[p].lim
           /\ packet'[p].chunk = packet[p].chunk
           /\ packet'[p].mark = packet[p].mark
           /\ packet[p].at = "wait" =>
                packet'[p].debt >= packet[p].debt
                    - limiter[packet[p].dir][packet[p].lim].rate
<1>1. packet[p] \in PacketStates
  BY DEF TypeOK
<1>2. CASE packet[p].at # "wait"
  BY <1>1, <1>2 DEF Tick
<1>3. CASE packet[p].at = "wait"
  <2> DEFINE l == limiter[packet[p].dir][packet[p].lim]
             n == AtLeast(0, packet[p].debt - l.rate)
  <2>1. l.rate \in Nat
    BY <1>3, HeldLimiter DEF Holds, Limiters
  <2>2. n \in Nat /\ n >= packet[p].debt - l.rate
    BY <1>1, <2>1 DEF AtLeast, PacketStates
  <2>3. packet'[p] = [packet[p] EXCEPT !.debt = n]
    BY <1>3 DEF Tick
  <2> HIDE DEF n
  <2> QED
    BY <1>1, <2>2, <2>3 DEF PacketStates
<1> QED
  BY <1>2, <1>3

(* Every step keeps the types.                                             *)
LEMMA TypeStep ==
    ASSUME TypeOK, MadeInv, CtlInv, [Next]_vars
    PROVE  TypeOK'
<1> USE ShaperAssumption
<1>a. NoLimits \in [Dirs -> Nat] /\ NoCtl \in CtlType
  BY DEF NoLimits, NoCtl, CtlType
<1>b. \A d \in {Order[ctl.i]} : d \in Dirs
  BY DEF TypeOK, Order, Dirs
<1>1. ASSUME NEW limits \in Limits, Configure(limits) PROVE TypeOK'
  <2>1. ctl' \in CtlType
    BY <1>1, <1>a DEF Configure, Begin, CtlType
  <2>2. limits \in [Dirs -> Nat] /\ configs + 1 \in 0..MaxConfigs
    BY <1>1 DEF Configure, TypeOK
  <2> QED
    BY <1>1, <1>a, <2>1, <2>2 DEF Configure, Begin, TypeOK, CtlType
<1>2. CASE Close
  <2>1. ctl' \in CtlType
    BY <1>2, <1>a DEF Close, Begin, CtlType
  <2> QED
    BY <1>2, <1>a, <2>1 DEF Close, Begin, TypeOK, CtlType
<1>3. CASE Swap
  <2> DEFINE d == Order[ctl.i]
  <2>1. d \in Dirs
    BY <1>b
  <2>2. ctl' \in CtlType
    <3>1. state[d] \in 0..MaxConfigs
      BY <2>1 DEF TypeOK
    <3> QED
      BY <1>3, <3>1 DEF Swap, TypeOK, CtlType
  <2>3. shut' \in [Dirs -> BOOLEAN]
    BY <1>3, <2>1 DEF Swap, TypeOK
  <2>4. /\ limiter' \in [Dirs -> [1..MaxConfigs -> Limiters]]
        /\ state' \in [Dirs -> 0..MaxConfigs]
    <3>1. NewLimiter(config[d]) \in Limiters
      BY <2>1, NewLimiterType DEF TypeOK
    <3>2. configs \in 0..MaxConfigs
      BY DEF TypeOK
    <3>3. CASE ctl.op = "configure" /\ config[d] > 0 /\ ~shut[d]
      <4>1. configs \in 1..MaxConfigs
        BY <3>2, <3>3 DEF CtlInv
      <4>2. /\ Put(d, configs, NewLimiter(config[d]))
            /\ state' = [state EXCEPT ![d] = configs]
        BY <1>3, <3>3 DEF Swap
      <4>3. limiter' \in [Dirs -> [1..MaxConfigs -> Limiters]]
        BY <2>1, <3>1, <4>1, <4>2, OneLimiter
      <4> QED
        BY <3>2, <4>2, <4>3 DEF TypeOK
    <3>4. CASE ~(ctl.op = "configure" /\ config[d] > 0 /\ ~shut[d])
      <4>1. state' = [state EXCEPT ![d] = 0] /\ limiter' = limiter
        BY <1>3, <3>4 DEF Swap
      <4>2. state \in [Dirs -> 0..MaxConfigs] /\ 0 \in 0..MaxConfigs
        BY DEF TypeOK
      <4>3. state' \in [Dirs -> 0..MaxConfigs]
        <5> HIDE DEF d
        <5> QED
          BY <4>1, <4>2
      <4> QED
        BY <4>1, <4>3 DEF TypeOK
    <3> QED
      BY <3>3, <3>4
  <2> QED
    BY <1>3, <2>2, <2>3, <2>4 DEF Swap, TypeOK, CtlType, bounds
<1>4. CASE CancelOld
  <2> DEFINE d == Order[ctl.i]
  <2>1. d \in Dirs
    BY <1>b
  <2>2. ctl' \in CtlType
    <3>1. [NoCtl EXCEPT !.op = ctl.op, !.i = 2] \in CtlType
      <4>1. ctl.op \in {"none", "configure", "close"} /\ 2 \in 1..2
        BY DEF TypeOK
      <4> QED
        BY <1>a, <4>1 DEF CtlType
    <3> QED
      BY <1>4, <1>a, <3>1 DEF CancelOld, NextPacer
  <2>3. limiter' \in [Dirs -> [1..MaxConfigs -> Limiters]]
    <3>1. CASE ctl.old = 0
      BY <1>4, <3>1 DEF CancelOld, TypeOK
    <3>2. CASE ctl.old # 0
      <4>1. ctl.old \in 1..MaxConfigs
        BY <3>2 DEF TypeOK
      <4>2. limiter[d][ctl.old] \in Limiters
        BY <2>1, <4>1 DEF TypeOK
      <4>3. Cancel(limiter[d][ctl.old]) \in Limiters
        BY <4>2, Cancelling
      <4>4. Put(d, ctl.old, Cancel(limiter[d][ctl.old]))
        BY <1>4, <3>2 DEF CancelOld
      <4> QED
        BY <2>1, <4>1, <4>3, <4>4, OneLimiter
    <3> QED
      BY <3>1, <3>2
  <2> QED
    BY <1>4, <2>2, <2>3 DEF CancelOld, TypeOK, CtlType, bounds
<1>5. ASSUME NEW p \in Packets, NEW d \in Dirs, NEW n \in Sizes,
             Arrive(p, d, n)
      PROVE  TypeOK'
  <2> DEFINE s == [Idle EXCEPT !.at = "check", !.dir = d, !.size = n,
                               !.left = n]
  <2>1. s \in PacketStates
    <3>1. n \in Nat /\ 0 \in 0..MaxConfigs
      OBVIOUS
    <3> QED
      BY <3>1 DEF Idle, PacketStates, PacketPoints
  <2>2. packet' \in [Packets -> PacketStates]
    BY <1>5, <2>1, OnePacket DEF Arrive
  <2>3. batches' \in 0..MaxBatches
    <3>1. batches \in 0..MaxBatches /\ batches < MaxBatches
      BY <1>5 DEF Arrive, TypeOK
    <3>2. batches' = batches + 1
      BY <1>5 DEF Arrive
    <3> QED
      BY <3>1, <3>2
  <2> QED
    BY <1>5, <2>2, <2>3 DEF Arrive, TypeOK
<1>6. ASSUME NEW p \in Packets, Check(p) PROVE TypeOK'
  <2>0. packet[p] \in PacketStates
    BY DEF TypeOK
  <2>1. \A a \in PacketPoints : [packet[p] EXCEPT !.at = a] \in PacketStates
    BY <2>0 DEF PacketStates
  <2>2. (IF shut[packet[p].dir] THEN "failed" ELSE "load") \in PacketPoints
    BY DEF PacketPoints
  <2>3. [packet[p] EXCEPT !.at = IF shut[packet[p].dir]
                                 THEN "failed" ELSE "load"] \in PacketStates
    BY <2>1, <2>2
  <2> QED
    BY <1>6, <2>3, OnePacket DEF Check, TypeOK, bounds
<1>7. ASSUME NEW p \in Packets, Load(p) PROVE TypeOK'
  <2> DEFINE s == packet[p]
             g == state[s.dir]
             t == [s EXCEPT !.at = "reserve", !.lim = g, !.paced = TRUE,
                     !.chunk = Chunk(s.left, limiter[s.dir][g].burst)]
  <2>1. s \in PacketStates /\ g \in 0..MaxConfigs
    BY DEF TypeOK, PacketStates
  <2>2. g # 0 => t \in PacketStates
    <3> SUFFICES ASSUME g # 0 PROVE t \in PacketStates
      OBVIOUS
    <3>1. Chunk(s.left, limiter[s.dir][g].burst) \in Nat
      <4>1. s.dir \in Dirs /\ g \in 1..MaxConfigs /\ s.left \in Nat
        BY <2>1 DEF PacketStates
      <4>2. limiter[s.dir][g] \in Limiters
        BY <4>1 DEF TypeOK
      <4>3. limiter[s.dir][g].burst \in Nat
        BY <4>2 DEF Limiters
      <4> QED
        BY <4>1, <4>3 DEF Chunk, AtMost
    <3> QED
      BY <2>1, <3>1 DEF PacketStates, PacketPoints
  <2>3. Returned(s) \in PacketStates
    BY <2>1, PacketTypes
  <2>4. packet' \in [Packets -> PacketStates]
    BY <1>7, <2>2, <2>3, OnePacket DEF Load
  <2> QED
    BY <1>7, <2>4 DEF Load, TypeOK, bounds
<1>8. ASSUME NEW p \in Packets, Reserve(p) PROVE TypeOK'
  <2> DEFINE s == packet[p]
             l == limiter[s.dir][s.lim]
             r == Take(l, s.chunk)
  <2>1. /\ s \in PacketStates /\ s.lim \in 1..MaxConfigs /\ s.dir \in Dirs
        /\ r \in Limiters /\ r.reserved \in Nat /\ s.left \in Nat
    BY <1>8, ReserveCases DEF PacketStates, Limiters
  <2>2. Serve(r, r.reserved) \in Limiters
    BY <2>1, Serving
  <2>3. [s EXCEPT !.at = "failed"] \in PacketStates
    BY <2>1 DEF PacketStates, PacketPoints
  <2>4. Again(s, s.left) \in PacketStates /\ Passed(s) \in PacketStates
    BY <2>1, PacketTypes
  <2>5. r.tokens < 0 => Waiting(s, r) \in PacketStates
    BY <2>1, WaitingType
  <2>6. /\ packet' \in [Packets -> PacketStates]
        /\ limiter' \in [Dirs -> [1..MaxConfigs -> Limiters]]
    <3>1. CASE Set(p, Again(s, s.left)) /\ limiter' = limiter
      BY <3>1, <2>4, OnePacket DEF TypeOK
    <3>2. CASE Set(p, [s EXCEPT !.at = "failed"]) /\ limiter' = limiter
      BY <3>2, <2>3, OnePacket DEF TypeOK
    <3>3. CASE /\ r.tokens < 0 /\ Set(p, Waiting(s, r))
               /\ Put(s.dir, s.lim, r)
      BY <3>3, <2>1, <2>5, OnePacket, OneLimiter
    <3>4. CASE /\ Set(p, Passed(s))
               /\ Put(s.dir, s.lim, Serve(r, r.reserved))
      BY <3>4, <2>1, <2>2, <2>4, OnePacket, OneLimiter
    <3> HIDE DEF r
    <3> QED
      BY <1>8, ReserveCases, <3>1, <3>2, <3>3, <3>4 DEF r
  <2> QED
    BY <1>8, ReserveCases, <2>6 DEF TypeOK
<1>9. ASSUME NEW p \in Packets, Due(p) PROVE TypeOK'
  <2> DEFINE s == packet[p]
  <2>1. /\ s \in PacketStates /\ s.lim \in 1..MaxConfigs /\ s.dir \in Dirs
        /\ s.mark \in Nat
    BY <1>9, HeldLimiter DEF Due, Holds, PacketStates
  <2>2. Serve(limiter[s.dir][s.lim], s.mark) \in Limiters
    BY <1>9, <2>1, Serving, HeldLimiter DEF Due, Holds
  <2>3. Passed(s) \in PacketStates
    BY <2>1, PacketTypes
  <2>4. /\ packet' \in [Packets -> PacketStates]
        /\ limiter' \in [Dirs -> [1..MaxConfigs -> Limiters]]
    BY <1>9, <2>1, <2>2, <2>3, OnePacket, OneLimiter DEF Due
  <2> QED
    BY <1>9, <2>4 DEF Due, TypeOK, bounds
<1>10. ASSUME NEW p \in Packets, Cancelled(p) PROVE TypeOK'
  <2>1. packet[p] \in PacketStates /\ packet[p].left \in Nat
    BY DEF TypeOK, PacketStates
  <2>2. Again(packet[p], packet[p].left) \in PacketStates
    BY <2>1, PacketTypes
  <2> QED
    BY <1>10, <2>2, OnePacket DEF Cancelled, TypeOK, bounds
<1>11. ASSUME NEW p \in Packets, Count(p) PROVE TypeOK'
  <2>1. packet[p] \in PacketStates
    BY DEF TypeOK
  <2>2. packet' \in [Packets -> PacketStates]
    BY <1>11, <2>1, PacketTypes, OnePacket DEF Count
  <2>3. counted' \in [Dirs -> Nat]
    BY <1>11, <2>1 DEF Count, TypeOK, PacketStates
  <2> QED
    BY <1>11, <2>2, <2>3 DEF Count, TypeOK, bounds
<1>12. ASSUME NEW p \in Packets, Drop(p) PROVE TypeOK'
  <2>1. packet[p] \in PacketStates
    BY DEF TypeOK
  <2> QED
    BY <1>12, <2>1, PacketTypes, OnePacket DEF Drop, TypeOK, bounds
<1>13. CASE Tick
  <2>1. packet' \in [Packets -> PacketStates]
    <3>1. \A p \in Packets : packet'[p] \in PacketStates
      BY <1>13, TickPackets
    <3>2. packet' = [p \in Packets |-> packet'[p]]
      BY <1>13 DEF Tick
    <3> QED
      BY <3>1, <3>2
  <2>2. limiter' \in [Dirs -> [1..MaxConfigs -> Limiters]]
    BY <1>13, Refilling DEF Tick, TypeOK
  <2>3. ticks' \in 0..MaxTicks
    BY <1>13 DEF Tick, TypeOK
  <2>4. UNCHANGED <<config, closed, counted, ctl, state, shut, configs,
                    batches>>
    BY <1>13 DEF Tick
  <2> QED
    BY <2>1, <2>2, <2>3, <2>4 DEF TypeOK
<1>14. CASE UNCHANGED vars
  BY <1>14 DEF vars, TypeOK
<1> QED
  BY <1>1, <1>2, <1>3, <1>4, <1>5, <1>6, <1>7, <1>8, <1>9, <1>10, <1>11,
     <1>12, <1>13, <1>14 DEF Next, Work

-----------------------------------------------------------------------------
(* What the steps do, as far as the other parts of the invariant need it.  *)

Away == {"idle", "check", "load", "count"}

(* A packet goes to s: away from the limiters, or to an error, or to the   *)
(* limiter it has loaded, or into a reservation, or through.               *)
PacketStep(p, s) ==
    LET o == packet[p]
        l == limiter[o.dir][o.lim]
        r == Take(l, o.chunk)
    IN  \/ /\ s.at \in Away
           /\ limiter' = limiter
        \/ /\ s.at = "failed"
           /\ shut[o.dir] \/ (o.at = "reserve" /\ o.chunk > l.burst)
           /\ limiter' = limiter
        \/ /\ s.at = "reserve" /\ s.lim = state[s.dir] /\ s.lim # 0
           /\ s.chunk <= limiter[s.dir][s.lim].burst
           /\ limiter' = limiter
        \/ /\ o.at = "reserve" /\ s.at = "wait"
           /\ s.dir = o.dir /\ s.lim = o.lim
           /\ s.debt = 0 - r.tokens /\ s.mark = r.reserved
           /\ Put(o.dir, o.lim, r)
        \/ /\ o.at = "reserve" /\ s.at \in Away
           /\ r.tokens >= 0
           /\ Put(o.dir, o.lim, Serve(r, r.reserved))
        \/ /\ o.at = "wait" /\ o.debt = 0 /\ s.at \in Away
           /\ Put(o.dir, o.lim, Serve(l, o.mark))

(* Every step of a packet is such a step, and no packet changes anything   *)
(* else that the invariant looks at.                                       *)
LEMMA PacketSteps ==
    ASSUME TypeOK, MadeInv, NEW p \in Packets,
           \/ Work(p)
           \/ \E d \in Dirs, n \in Sizes : Arrive(p, d, n)
    PROVE  /\ \E s \in PacketStates : Set(p, s) /\ PacketStep(p, s)
           /\ UNCHANGED <<config, closed, ctl, state, shut, configs>>
<1> USE ShaperAssumption
<1> DEFINE o == packet[p]
<1>0. o \in PacketStates /\ o.left \in Nat /\ o.dir \in Dirs
  BY DEF TypeOK, PacketStates
<1>1. ASSUME NEW d \in Dirs, NEW n \in Sizes, Arrive(p, d, n)
      PROVE  \E s \in PacketStates : Set(p, s) /\ PacketStep(p, s)
  <2> DEFINE s == [Idle EXCEPT !.at = "check", !.dir = d, !.size = n,
                               !.left = n]
  <2>1. n \in Nat /\ 0 \in 0..MaxConfigs
    OBVIOUS
  <2>2. s \in PacketStates /\ s.at = "check"
    BY <2>1 DEF Idle, PacketStates, PacketPoints
  <2> QED
    BY <1>1, <2>2 DEF Arrive, PacketStep, Away
<1>2. ASSUME Check(p)
      PROVE  \E s \in PacketStates : Set(p, s) /\ PacketStep(p, s)
  <2>1. CASE shut[o.dir]
    <3>1. Set(p, [o EXCEPT !.at = "failed"]) /\ limiter' = limiter
      BY <1>2, <2>1 DEF Check
    <3>2. /\ [o EXCEPT !.at = "failed"] \in PacketStates
          /\ [o EXCEPT !.at = "failed"].at = "failed"
      BY <1>0 DEF PacketStates, PacketPoints
    <3> QED
      BY <2>1, <3>1, <3>2 DEF PacketStep
  <2>2. CASE ~shut[o.dir]
    <3>1. Set(p, [o EXCEPT !.at = "load"]) /\ limiter' = limiter
      BY <1>2, <2>2 DEF Check
    <3>2. /\ [o EXCEPT !.at = "load"] \in PacketStates
          /\ [o EXCEPT !.at = "load"].at = "load"
      BY <1>0 DEF PacketStates, PacketPoints
    <3> QED
      BY <3>1, <3>2 DEF PacketStep, Away
  <2> QED
    BY <2>1, <2>2
<1>3. ASSUME Load(p)
      PROVE  \E s \in PacketStates : Set(p, s) /\ PacketStep(p, s)
  <2> DEFINE g == state[o.dir]
             n == Chunk(o.left, limiter[o.dir][g].burst)
             s == [o EXCEPT !.at = "reserve", !.lim = g, !.paced = TRUE,
                     !.chunk = n]
  <2>1. CASE g = 0
    BY <1>0, <1>3, <2>1, PacketTypes DEF Load, PacketStep, Away
  <2>2. CASE g # 0
    <3>1. g \in 1..MaxConfigs
      BY <1>0, <2>2 DEF TypeOK
    <3>2. limiter[o.dir][g] \in Limiters
      BY <1>0, <3>1 DEF TypeOK
    <3>3. n \in Nat /\ n <= limiter[o.dir][g].burst
      BY <1>0, <3>2 DEF Chunk, AtMost, Limiters
    <3>4. /\ s \in PacketStates /\ s.at = "reserve" /\ s.dir = o.dir
          /\ s.lim = g /\ s.chunk = n
      <4>1. g \in 0..MaxConfigs /\ "reserve" \in PacketPoints
        BY <3>1 DEF PacketPoints
      <4> HIDE DEF g, n
      <4> QED
        BY <1>0, <3>3, <4>1 DEF PacketStates
    <3>5. Set(p, s) /\ limiter' = limiter
      BY <1>3, <2>2 DEF Load
    <3> HIDE DEF s
    <3> QED
      BY <2>2, <3>3, <3>4, <3>5 DEF PacketStep
  <2> QED
    BY <2>1, <2>2
<1>4. ASSUME Reserve(p)
      PROVE  \E s \in PacketStates : Set(p, s) /\ PacketStep(p, s)
  <2> DEFINE l == limiter[o.dir][o.lim]
             r == Take(l, o.chunk)
  <2>0. o.at = "reserve" /\ r \in Limiters
    BY <1>4, ReserveCases
  <2>1. CASE Set(p, Again(o, o.left)) /\ limiter' = limiter
    <3>1. Again(o, o.left) \in PacketStates /\ Again(o, o.left).at = "check"
      BY <1>0, PacketTypes
    <3> QED
      BY <2>1, <3>1 DEF PacketStep, Away
  <2>2. CASE /\ o.chunk > l.burst /\ Set(p, [o EXCEPT !.at = "failed"])
             /\ limiter' = limiter
    <3>1. /\ [o EXCEPT !.at = "failed"] \in PacketStates
          /\ [o EXCEPT !.at = "failed"].at = "failed"
      BY <1>0 DEF PacketStates, PacketPoints
    <3> QED
      BY <2>0, <2>2, <3>1 DEF PacketStep
  <2>3. CASE /\ r.tokens < 0 /\ Set(p, Waiting(o, r))
             /\ Put(o.dir, o.lim, r)
    BY <1>0, <2>0, <2>3, WaitingType DEF PacketStep
  <2>4. CASE /\ r.tokens >= 0 /\ Set(p, Passed(o))
             /\ Put(o.dir, o.lim, Serve(r, r.reserved))
    BY <1>0, <2>0, <2>4, PacketTypes DEF PacketStep, Away
  <2> QED
    BY <1>4, ReserveCases, <2>1, <2>2, <2>3, <2>4
<1>5. ASSUME Due(p)
      PROVE  \E s \in PacketStates : Set(p, s) /\ PacketStep(p, s)
  BY <1>0, <1>5, PacketTypes DEF Due, PacketStep, Away
<1>6. ASSUME Cancelled(p)
      PROVE  \E s \in PacketStates : Set(p, s) /\ PacketStep(p, s)
  BY <1>0, <1>6, PacketTypes DEF Cancelled, PacketStep, Away
<1>7. ASSUME Count(p) \/ Drop(p)
      PROVE  \E s \in PacketStates : Set(p, s) /\ PacketStep(p, s)
  <2>1. Idle \in PacketStates /\ Idle.at = "idle"
    BY <1>0, PacketTypes DEF Idle
  <2> QED
    BY <1>7, <2>1 DEF Count, Drop, PacketStep, Away
<1>8. UNCHANGED <<config, closed, ctl, state, shut, configs>>
  BY DEF Work, Arrive, Check, Load, Reserve, Due, Cancelled, Count, Drop,
         bounds
<1> QED
  BY <1>1, <1>2, <1>3, <1>4, <1>5, <1>6, <1>7, <1>8 DEF Work

(* A packet only ever touches the tokens of the limiter it holds, and what *)
(* it lets through has been earned.                                        *)
LEMMA PacketKeepsLimiters ==
    ASSUME TypeOK, MadeInv, RateInv,
           NEW p \in Packets, NEW s \in PacketStates,
           PacketStep(p, s), NEW d \in Dirs, NEW g \in 1..MaxConfigs
    PROVE  /\ limiter'[d][g].burst = limiter[d][g].burst
           /\ limiter'[d][g].rate = limiter[d][g].rate
           /\ limiter'[d][g].cancelled = limiter[d][g].cancelled
           /\ limiter'[d][g].earned = limiter[d][g].earned
           /\ Sound(limiter'[d][g])
<1> DEFINE o == packet[p]
           l == limiter[o.dir][o.lim]
           r == Take(l, o.chunk)
<1>1. CASE limiter' = limiter
  BY <1>1 DEF RateInv
<1>2. ASSUME NEW u \in Limiters, o.at \in {"reserve", "wait"},
             Put(o.dir, o.lim, u),
             u.burst = l.burst, u.rate = l.rate, u.cancelled = l.cancelled,
             u.earned = l.earned, Sound(u)
      PROVE  /\ limiter'[d][g].burst = limiter[d][g].burst
             /\ limiter'[d][g].rate = limiter[d][g].rate
             /\ limiter'[d][g].cancelled = limiter[d][g].cancelled
             /\ limiter'[d][g].earned = limiter[d][g].earned
             /\ Sound(limiter'[d][g])
  <2>1. o.dir \in Dirs /\ o.lim \in 1..MaxConfigs
    BY <1>2, HeldLimiter DEF Holds
  <2>2. CASE d = o.dir /\ g = o.lim
    <3>1. limiter'[d][g] = u
      BY <1>2, <2>1, <2>2, OneLimiter
    <3> QED
      BY <1>2, <2>2, <3>1
  <2>3. CASE ~(d = o.dir /\ g = o.lim)
    <3>1. limiter'[d][g] = limiter[d][g]
      BY <1>2, <2>1, <2>3, OneLimiter
    <3> QED
      BY <3>1 DEF RateInv
  <2> QED
    BY <2>2, <2>3
<1>3. ASSUME o.at = "reserve"
      PROVE  /\ r \in Limiters /\ r.burst = l.burst /\ r.rate = l.rate
             /\ r.cancelled = l.cancelled /\ r.earned = l.earned
             /\ Sound(r)
  <2>1. /\ o.dir \in Dirs /\ o.lim \in 1..MaxConfigs /\ l \in Limiters
        /\ o.chunk \in Nat
    BY <1>3, HeldLimiter DEF Holds, PacketStates
  <2>2. Sound(l)
    BY <2>1 DEF RateInv
  <2> HIDE DEF l
  <2>3. /\ r \in Limiters /\ r.burst = l.burst /\ r.rate = l.rate
        /\ r.cancelled = l.cancelled /\ r.earned = l.earned
        /\ r.tokens = l.tokens - o.chunk /\ r.served = l.served
        /\ r.reserved = l.reserved + o.chunk
    BY <2>1, Reservation
  <2> HIDE DEF r
  <2>4. Sound(r)
    BY <2>1, <2>2, <2>3 DEF Sound, Limiters
  <2> QED
    BY <2>3, <2>4
<1>4. CASE o.at = "reserve" /\ Put(o.dir, o.lim, r)
  <2> HIDE DEF l, r
  <2> QED
    BY <1>2, <1>3, <1>4
<1>5. CASE /\ o.at = "reserve" /\ r.tokens >= 0
           /\ Put(o.dir, o.lim, Serve(r, r.reserved))
  <2> DEFINE u == Serve(r, r.reserved)
  <2> HIDE DEF l, r
  <2>1. /\ r \in Limiters /\ r.burst = l.burst /\ r.rate = l.rate
        /\ r.cancelled = l.cancelled /\ r.earned = l.earned /\ Sound(r)
        /\ r.reserved \in Nat /\ r.tokens \in Int
    BY <1>3, <1>5 DEF Limiters
  <2>2. /\ u \in Limiters /\ u.burst = r.burst /\ u.rate = r.rate
        /\ u.cancelled = r.cancelled /\ u.earned = r.earned
        /\ u.tokens = r.tokens /\ u.reserved = r.reserved
        /\ u.served \in {r.served, r.reserved}
    BY <2>1, Serving
  <2>3. Put(o.dir, o.lim, u)
    BY <1>5
  <2> HIDE DEF u
  <2>4. Sound(u)
    BY <1>5, <2>1, <2>2 DEF Sound, Limiters
  <2> QED
    BY <1>2, <1>5, <2>1, <2>2, <2>3, <2>4
<1>6. CASE /\ o.at = "wait" /\ o.debt = 0
           /\ Put(o.dir, o.lim, Serve(l, o.mark))
  <2> DEFINE u == Serve(l, o.mark)
  <2>1. /\ o.dir \in Dirs /\ o.lim \in 1..MaxConfigs /\ l \in Limiters
        /\ o.mark \in Nat
    BY <1>6, HeldLimiter DEF Holds, PacketStates
  <2>2. Sound(l) /\ o.mark <= l.earned + 0
    BY <1>6, <2>1 DEF RateInv
  <2> HIDE DEF l
  <2>3. /\ u \in Limiters /\ u.burst = l.burst /\ u.rate = l.rate
        /\ u.cancelled = l.cancelled /\ u.earned = l.earned
        /\ u.tokens = l.tokens /\ u.reserved = l.reserved
        /\ u.served \in {l.served, o.mark}
    BY <2>1, Serving
  <2>4. Put(o.dir, o.lim, u)
    BY <1>6
  <2> HIDE DEF u
  <2>5. Sound(u)
    BY <2>1, <2>2, <2>3 DEF Sound, Limiters
  <2> QED
    BY <1>2, <1>6, <2>3, <2>4, <2>5
<1> QED
  BY <1>1, <1>4, <1>5, <1>6 DEF PacketStep

(* Swap at the pacer d: the fresh limiter is used by nobody yet.           *)
LEMMA SwapEffect ==
    ASSUME IInv, Swap
    PROVE  LET d == Order[ctl.i]
           IN  /\ d \in Dirs /\ Todo(d)
               /\ packet' = packet /\ config' = config /\ closed' = closed
               /\ configs' = configs
               /\ ctl' = [ctl EXCEPT !.swapped = TRUE, !.old = state[d]]
               /\ \A e \in Dirs \ {d} : /\ state'[e] = state[e]
                                        /\ limiter'[e] = limiter[e]
                                        /\ shut'[e] = shut[e]
               /\ shut'[d] = (shut[d] \/ ctl.op = "close")
               /\ \/ /\ ctl.op = "configure" /\ config[d] > 0
                     /\ configs \in 1..MaxConfigs
                     /\ state'[d] = configs
                     /\ limiter'[d][configs] = NewLimiter(config[d])
                     /\ \A g \in 1..MaxConfigs \ {configs} :
                          limiter'[d][g] = limiter[d][g]
                  \/ /\ config[d] = 0
                     /\ state'[d] = 0
                     /\ limiter' = limiter
<1> DEFINE d == Order[ctl.i]
<1>1. d \in Dirs /\ Todo(d)
  BY DEF IInv, TypeOK, Order, Dirs, Swap, Todo
<1>2. /\ packet' = packet /\ config' = config /\ closed' = closed
      /\ configs' = configs
      /\ ctl' = [ctl EXCEPT !.swapped = TRUE, !.old = state[d]]
  BY DEF Swap, bounds
<1>3. /\ \A e \in Dirs \ {d} : shut'[e] = shut[e]
      /\ shut'[d] = (shut[d] \/ ctl.op = "close")
  BY <1>1 DEF Swap, IInv, TypeOK
<1>4. config[d] \in Nat
  BY <1>1 DEF IInv, TypeOK
<1>5. CASE ctl.op = "configure" /\ config[d] > 0
  <2>1. ~shut[d] /\ configs \in 1..MaxConfigs
    BY <1>1, <1>5 DEF IInv, CtlInv, TypeOK
  <2>2. /\ Put(d, configs, NewLimiter(config[d]))
        /\ state' = [state EXCEPT ![d] = configs]
    BY <1>5, <2>1 DEF Swap
  <2>3. NewLimiter(config[d]) \in Limiters
    BY <1>4, NewLimiterType
  <2>4. /\ limiter'[d][configs] = NewLimiter(config[d])
        /\ \A e \in Dirs, g \in 1..MaxConfigs :
             e # d \/ g # configs => limiter'[e][g] = limiter[e][g]
    <3>1. TypeOK
      BY DEF IInv
    <3> DEFINE l == NewLimiter(config[d])
    <3>2. d \in Dirs /\ l \in Limiters
      BY <1>1, <2>3
    <3>3. Put(d, configs, l)
      BY <2>2
    <3> HIDE DEF d, l
    <3>4. /\ limiter'[d][configs] = l
          /\ \A e \in Dirs, g \in 1..MaxConfigs :
               e # d \/ g # configs => limiter'[e][g] = limiter[e][g]
      BY <2>1, <3>1, <3>2, <3>3, OneLimiter
    <3> QED
      BY <3>4 DEF l
  <2>5. \A e \in Dirs \ {d} : limiter'[e] = limiter[e] /\ state'[e] = state[e]
    BY <2>2 DEF IInv, TypeOK, Put
  <2>6. state'[d] = configs
    BY <1>1, <2>2 DEF IInv, TypeOK
  <2> QED
    BY <1>1, <1>2, <1>3, <1>5, <2>1, <2>4, <2>5, <2>6
<1>6. CASE ~(ctl.op = "configure" /\ config[d] > 0)
  <2>1. state' = [state EXCEPT ![d] = 0] /\ limiter' = limiter
    BY <1>6 DEF Swap
  <2>2. config[d] = 0
    <3>1. CASE ctl.op = "close"
      BY <1>1, <3>1 DEF IInv, CtlInv, NoLimits
    <3>2. CASE ctl.op = "configure"
      BY <1>4, <1>6, <3>2
    <3> QED
      BY <3>1, <3>2 DEF Swap, IInv, TypeOK
  <2>3. /\ state'[d] = 0
        /\ \A e \in Dirs \ {d} : state'[e] = state[e]
    BY <1>1, <2>1 DEF IInv, TypeOK
  <2> QED
    BY <1>1, <1>2, <1>3, <2>1, <2>2, <2>3
<1> QED
  BY <1>5, <1>6

(* CancelOld changes one flag of a limiter that is not current.            *)
LEMMA CancelEffect ==
    ASSUME IInv, CancelOld
    PROVE  /\ packet' = packet /\ config' = config /\ closed' = closed
           /\ configs' = configs /\ state' = state /\ shut' = shut
           /\ ctl' = IF ctl.i = 1 THEN [NoCtl EXCEPT !.op = ctl.op, !.i = 2]
                     ELSE NoCtl
           /\ ctl.op # "none" /\ ctl.swapped
           /\ \A d \in Dirs, g \in 1..MaxConfigs :
                /\ limiter'[d][g] \in Limiters
                /\ limiter'[d][g].burst = limiter[d][g].burst
                /\ limiter'[d][g].rate = limiter[d][g].rate
                /\ limiter'[d][g].earned = limiter[d][g].earned
                /\ limiter'[d][g].tokens = limiter[d][g].tokens
                /\ limiter'[d][g].reserved = limiter[d][g].reserved
                /\ limiter'[d][g].served = limiter[d][g].served
                /\ g = state[d] =>
                     limiter'[d][g].cancelled = limiter[d][g].cancelled
<1> DEFINE e == Order[ctl.i]
<1>1. e \in Dirs
  BY DEF IInv, TypeOK, Order, Dirs
<1>2. /\ packet' = packet /\ config' = config /\ closed' = closed
      /\ configs' = configs /\ state' = state /\ shut' = shut
      /\ ctl' = IF ctl.i = 1 THEN [NoCtl EXCEPT !.op = ctl.op, !.i = 2]
                ELSE NoCtl
      /\ ctl.op # "none" /\ ctl.swapped
  BY DEF CancelOld, NextPacer, bounds
<1>3. CASE ctl.old = 0
  <2>1. limiter' = limiter
    BY <1>3 DEF CancelOld
  <2>2. \A d \in Dirs, g \in 1..MaxConfigs : limiter[d][g] \in Limiters
    BY DEF IInv, TypeOK
  <2> QED
    BY <1>2, <2>1, <2>2
<1>4. CASE ctl.old # 0
  <2>1. ctl.old \in 1..MaxConfigs
    BY <1>4, ShaperAssumption DEF IInv, TypeOK
  <2>2. ctl.old # state[e]
    BY <1>2, <1>4 DEF IInv, CtlInv
  <2> DEFINE l == limiter[e][ctl.old]
             c == Cancel(l)
  <2>3. l \in Limiters
    <3>1. limiter \in [Dirs -> [1..MaxConfigs -> Limiters]]
      BY DEF IInv, TypeOK
    <3> HIDE DEF e
    <3> QED
      BY <1>1, <2>1, <3>1
  <2>4. /\ c \in Limiters /\ c.burst = l.burst /\ c.rate = l.rate
        /\ c.earned = l.earned /\ c.tokens = l.tokens
        /\ c.reserved = l.reserved /\ c.served = l.served
    BY <2>3, Cancelling
  <2>5. TypeOK /\ Put(e, ctl.old, c)
    BY <1>4 DEF CancelOld, IInv
  <2>6. /\ limiter'[e][ctl.old] = c
        /\ \A d \in Dirs, g \in 1..MaxConfigs :
             d # e \/ g # ctl.old => limiter'[d][g] = limiter[d][g]
    <3> HIDE DEF e, c
    <3> QED
      BY <1>1, <2>1, <2>4, <2>5, OneLimiter
  <2>7. \A d \in Dirs, g \in 1..MaxConfigs : limiter[d][g] \in Limiters
    BY DEF IInv, TypeOK
  <2> HIDE DEF c
  <2> QED
    BY <1>2, <2>2, <2>4, <2>6, <2>7
<1> QED
  BY <1>3, <1>4

-----------------------------------------------------------------------------
(* The other parts of the invariant.                                       *)

Rest == MadeInv /\ CtlInv /\ ChunkInv /\ RateInv /\ CurrentIsLive
        /\ ForceInv /\ DropsOnlyWhenClosed

(* A packet that has a reservation to wait for owes what is missing of its *)
(* mark.                                                                   *)
LEMMA WaitOwes ==
    ASSUME TypeOK, MadeInv, RateInv, NEW p \in Packets,
           packet[p].at = "reserve",
           NEW l, l = limiter[packet[p].dir][packet[p].lim],
           NEW r, r = Take(l, packet[p].chunk)
    PROVE  r.reserved <= l.earned + (0 - r.tokens)
<1>1. /\ packet[p].dir \in Dirs /\ packet[p].lim \in 1..MaxConfigs
      /\ l \in Limiters /\ packet[p].chunk \in Nat
  BY HeldLimiter DEF Holds, PacketStates
<1>2. l.tokens + l.reserved <= l.earned
  BY <1>1 DEF RateInv, Sound
<1>3. /\ r.tokens = l.tokens - packet[p].chunk
      /\ r.reserved = l.reserved + packet[p].chunk
  BY <1>1, Reservation
<1>4. l.tokens \in Int /\ l.reserved \in Nat /\ l.earned \in Nat
  BY <1>1 DEF Limiters
<1>5. ASSUME NEW t \in Int, NEW v \in Nat, NEW e \in Nat, NEW n \in Nat,
             t + v <= e
      PROVE  v + n <= e + (0 - (t - n))
  BY <1>5
<1> QED
  BY <1>1, <1>2, <1>3, <1>4, <1>5, SMTT(20)

(* A step of a packet keeps the rest of the invariant.                     *)
LEMMA PacketRest ==
    ASSUME IInv, NEW p \in Packets,
           \/ Work(p)
           \/ \E d \in Dirs, n \in Sizes : Arrive(p, d, n)
    PROVE  Rest'
<1>0. /\ TypeOK /\ MadeInv /\ CtlInv /\ ChunkInv /\ RateInv
      /\ CurrentIsLive /\ ForceInv /\ DropsOnlyWhenClosed
  BY DEF IInv
<1>1. UNCHANGED <<config, closed, ctl, state, shut, configs>>
  BY <1>0, PacketSteps
<1>2. PICK s \in PacketStates : Set(p, s) /\ PacketStep(p, s)
  BY <1>0, PacketSteps
<1>3. packet'[p] = s /\ \A q \in Packets \ {p} : packet'[q] = packet[q]
  BY <1>0, <1>2, OnePacket
<1>4. \A d \in Dirs, g \in 1..MaxConfigs :
        /\ limiter'[d][g].burst = limiter[d][g].burst
        /\ limiter'[d][g].rate = limiter[d][g].rate
        /\ limiter'[d][g].cancelled = limiter[d][g].cancelled
        /\ limiter'[d][g].earned = limiter[d][g].earned
        /\ Sound(limiter'[d][g])
  BY <1>0, <1>2, PacketKeepsLimiters
<1>5. s.dir \in Dirs
  BY DEF PacketStates
<1>6. \A d, g : InUse(d, g)' <=> InUse(d, g)
  BY <1>1 DEF InUse, Todo
<1>7. s.at \in {"reserve", "wait"} => s.lim # 0 /\ InUse(s.dir, s.lim)
  <2>1. CASE s.at = "reserve"
    <3>1. s.lim = state[s.dir] /\ s.lim # 0
      BY <1>2, <2>1 DEF PacketStep, Away
    <3> QED
      BY <1>0, <1>5, <3>1 DEF MadeInv
  <2>2. CASE s.at = "wait"
    <3>1. /\ packet[p].at = "reserve"
          /\ s.dir = packet[p].dir /\ s.lim = packet[p].lim
      BY <1>2, <2>2 DEF PacketStep, Away
    <3> QED
      BY <1>0, <3>1 DEF MadeInv, Holds
  <2> QED
    BY <2>1, <2>2
<1>8. MadeInv'
  <2>1. \A d \in Dirs : InUse(d, state[d])'
    BY <1>0, <1>1, <1>6 DEF MadeInv
  <2>2. ASSUME NEW q \in Packets, Holds(q)'
        PROVE  packet'[q].lim # 0 /\ InUse(packet[q].dir, packet[q].lim)'
    <3>1. CASE q = p
      BY <1>1, <1>3, <1>7, <2>2, <3>1 DEF Holds, InUse, Todo
    <3>2. CASE q # p
      BY <1>0, <1>1, <1>3, <2>2, <3>2 DEF MadeInv, Holds, InUse, Todo
    <3> QED
      BY <3>1, <3>2
  <2> QED
    BY <2>1, <2>2 DEF MadeInv
<1>9. CtlInv'
  BY <1>0, <1>1 DEF CtlInv
<1>10. ChunkInv'
  <2> SUFFICES ASSUME NEW q \in Packets, packet'[q].at = "reserve"
               PROVE  packet'[q].chunk <=
                        limiter'[packet'[q].dir][packet'[q].lim].burst
    BY DEF ChunkInv
  <2>1. CASE q = p
    <3>1. s.lim = state[s.dir] /\ s.lim # 0
          /\ s.chunk <= limiter[s.dir][s.lim].burst
      BY <1>2, <1>3, <2>1 DEF PacketStep, Away
    <3>2. s.lim \in 1..MaxConfigs
      BY <1>0, <1>5, <3>1 DEF TypeOK
    <3> QED
      BY <1>3, <1>4, <1>5, <2>1, <3>1, <3>2
  <2>2. CASE q # p
    <3>1. packet'[q] = packet[q]
      BY <1>3, <2>2
    <3>2. packet[q].dir \in Dirs /\ packet[q].lim \in 1..MaxConfigs
      BY <1>0, <3>1, HeldLimiter DEF Holds
    <3> QED
      BY <1>0, <1>4, <3>1, <3>2 DEF ChunkInv
  <2> QED
    BY <2>1, <2>2
<1>11. RateInv'
  <2>1. \A d \in Dirs, g \in 1..MaxConfigs : Sound(limiter'[d][g])
    BY <1>4
  <2>2. ASSUME NEW q \in Packets, packet'[q].at = "wait"
        PROVE  packet'[q].mark <=
                 limiter'[packet'[q].dir][packet'[q].lim].earned
                   + packet'[q].debt
    <3>1. CASE q = p
      <4> DEFINE o == packet[p]
                 l == limiter[o.dir][o.lim]
                 r == Take(l, o.chunk)
      <4>1. /\ o.at = "reserve" /\ s.dir = o.dir /\ s.lim = o.lim
            /\ s.debt = 0 - r.tokens /\ s.mark = r.reserved
        BY <1>2, <1>3, <2>2, <3>1 DEF PacketStep, Away
      <4>2. r.reserved <= l.earned + (0 - r.tokens)
        BY <1>0, <4>1, WaitOwes
      <4>3. o.dir \in Dirs /\ o.lim \in 1..MaxConfigs
        BY <1>0, <4>1, HeldLimiter DEF Holds
      <4>4. limiter'[s.dir][s.lim].earned = l.earned
        BY <1>4, <4>1, <4>3
      <4> HIDE DEF r, l
      <4> QED
        BY <1>3, <3>1, <4>1, <4>2, <4>4
    <3>2. CASE q # p
      <4>1. packet'[q] = packet[q]
        BY <1>3, <3>2
      <4>2. packet[q].dir \in Dirs /\ packet[q].lim \in 1..MaxConfigs
        BY <1>0, <2>2, <4>1, HeldLimiter DEF Holds
      <4> QED
        BY <1>0, <1>4, <2>2, <4>1, <4>2 DEF RateInv
    <3> QED
      BY <3>1, <3>2
  <2> QED
    BY <2>1, <2>2 DEF RateInv
<1>12. CurrentIsLive'
  <2> SUFFICES ASSUME NEW d \in Dirs, state[d] # 0
               PROVE  /\ ~limiter'[d][state[d]].cancelled
                      /\ limiter'[d][state[d]].rate > 0
    BY <1>1 DEF CurrentIsLive
  <2>1. state[d] \in 1..MaxConfigs
    BY <1>0 DEF TypeOK
  <2> QED
    BY <1>0, <1>4, <2>1 DEF CurrentIsLive
<1>13. ForceInv'
  BY <1>0, <1>1 DEF ForceInv, Todo
<1>14. DropsOnlyWhenClosed'
  <2> SUFFICES ASSUME NEW q \in Packets, packet'[q].at = "failed"
               PROVE  closed
    BY <1>1 DEF DropsOnlyWhenClosed
  <2>1. CASE q # p
    BY <1>0, <1>3, <2>1 DEF DropsOnlyWhenClosed
  <2>2. CASE q = p
    <3> DEFINE o == packet[p]
    <3>1. \/ shut[o.dir]
          \/ /\ o.at = "reserve"
             /\ o.chunk > limiter[o.dir][o.lim].burst
      BY <1>2, <1>3, <2>2 DEF PacketStep, Away
    <3>2. o.dir \in Dirs /\ o.chunk \in Nat
      BY <1>0 DEF TypeOK, PacketStates
    <3>3. CASE shut[o.dir]
      BY <1>0, <3>2, <3>3 DEF CtlInv
    <3>4. CASE o.at = "reserve" /\ o.chunk > limiter[o.dir][o.lim].burst
      <4>1. limiter[o.dir][o.lim].burst \in Nat
        <5>1. limiter[o.dir][o.lim] \in Limiters
          BY <1>0, <3>4, HeldLimiter DEF Holds
        <5> QED
          BY <5>1, ShaperAssumption DEF Limiters
      <4>2. o.chunk <= limiter[o.dir][o.lim].burst
        BY <1>0, <3>4 DEF ChunkInv
      <4> QED
        BY <3>2, <3>4, <4>1, <4>2
    <3> QED
      BY <3>1, <3>3, <3>4
  <2> QED
    BY <2>1, <2>2
<1> QED
  BY <1>8, <1>9, <1>10, <1>11, <1>12, <1>13, <1>14 DEF Rest

(* What the beginning of a change leaves alone.                            *)
LEMMA BeginRest ==
    ASSUME IInv, NEW op \in {"configure", "close"}, NEW limits,
           Begin(op, limits)
    PROVE  /\ ctl' = [NoCtl EXCEPT !.op = op] /\ ctl'.op = op
           /\ ctl'.i = 1 /\ ~ctl'.swapped /\ ctl'.old = 0
           /\ ~closed /\ ctl.op = "none" /\ \A d \in Dirs : ~shut[d]
           /\ ChunkInv' /\ RateInv' /\ CurrentIsLive' /\ ForceInv'
<1>1. /\ ctl' = [NoCtl EXCEPT !.op = op] /\ ~closed /\ ctl.op = "none"
      /\ UNCHANGED <<limiter, state, shut, packet>>
  BY DEF Begin
<1>2. ctl'.op = op /\ ctl'.i = 1 /\ ~ctl'.swapped /\ ctl'.old = 0
  BY <1>1 DEF NoCtl
<1>3. \A d \in Dirs : ~shut[d]
  BY <1>1 DEF IInv, CtlInv
<1>4. ChunkInv' /\ RateInv' /\ CurrentIsLive'
  BY <1>1 DEF IInv, ChunkInv, RateInv, CurrentIsLive
<1>5. \A d \in Dirs : Todo(d)'
  BY <1>2 DEF Todo, Dirs, Order
<1>6. ForceInv'
  BY <1>5 DEF ForceInv
<1> QED
  BY <1>1, <1>2, <1>3, <1>4, <1>6

(* The beginning of a Configure keeps the rest.                            *)
LEMMA ConfigureRest ==
    ASSUME IInv, NEW limits \in Limits, Configure(limits)
    PROVE  Rest'
<1>0. TypeOK /\ MadeInv /\ CtlInv /\ DropsOnlyWhenClosed
  BY DEF IInv
<1>1. /\ Begin("configure", limits) /\ configs' = configs + 1
      /\ closed' = closed /\ state' = state /\ packet' = packet
      /\ shut' = shut
  BY DEF Configure, Begin
<1>2. /\ ctl'.op = "configure" /\ ctl'.i = 1 /\ ~ctl'.swapped
      /\ ~closed /\ ctl.op = "none" /\ \A d \in Dirs : ~shut[d]
      /\ ChunkInv' /\ RateInv' /\ CurrentIsLive' /\ ForceInv'
  BY <1>1, BeginRest
<1>3. configs \in Nat
  BY <1>0 DEF TypeOK
<1>4. ASSUME NEW d, NEW g \in Nat, InUse(d, g)
      PROVE  g <= configs' /\ g < configs'
  BY <1>1, <1>3, <1>4 DEF InUse
<1>5. MadeInv'
  <2>1. ASSUME NEW d \in Dirs PROVE InUse(d, state[d])'
    <3>1. state[d] \in Nat
      BY <1>0 DEF TypeOK
    <3>2. InUse(d, state[d])
      BY <1>0 DEF MadeInv
    <3>3. state[d] <= configs' /\ state[d] < configs'
      BY <1>4, <3>1, <3>2
    <3> QED
      BY <1>1, <3>3 DEF InUse
  <2>2. ASSUME NEW p \in Packets, Holds(p)'
        PROVE  packet'[p].lim # 0 /\ InUse(packet[p].dir, packet[p].lim)'
    <3>1. packet[p].lim \in Nat
      BY <1>0 DEF TypeOK, PacketStates
    <3>2. packet[p].lim # 0 /\ InUse(packet[p].dir, packet[p].lim)
      BY <1>0, <1>1, <2>2 DEF MadeInv, Holds
    <3>3. packet[p].lim <= configs' /\ packet[p].lim < configs'
      BY <1>4, <3>1, <3>2
    <3> QED
      BY <1>1, <3>2, <3>3 DEF InUse
  <2> QED
    BY <2>1, <2>2 DEF MadeInv
<1>6. CtlInv'
  BY <1>1, <1>2, <1>3 DEF CtlInv
<1>7. DropsOnlyWhenClosed'
  BY <1>0, <1>1 DEF DropsOnlyWhenClosed
<1> QED
  BY <1>2, <1>5, <1>6, <1>7 DEF Rest

(* ... and so does that of close.                                          *)
LEMMA CloseRest ==
    ASSUME IInv, Close
    PROVE  Rest'
<1>0. TypeOK /\ MadeInv /\ CtlInv /\ DropsOnlyWhenClosed
  BY DEF IInv
<1>1. /\ Begin("close", NoLimits) /\ configs' = configs /\ closed' = TRUE
      /\ state' = state /\ packet' = packet /\ shut' = shut
      /\ config' = NoLimits
  BY DEF Close, Begin
<1>2. /\ ctl'.op = "close" /\ ctl'.i = 1 /\ ~ctl'.swapped
      /\ ChunkInv' /\ RateInv' /\ CurrentIsLive' /\ ForceInv'
  BY <1>1, BeginRest
<1>3. MadeInv'
  BY <1>0, <1>1, <1>2 DEF MadeInv, InUse, Holds
<1>4. CtlInv'
  BY <1>1, <1>2 DEF CtlInv
<1>5. DropsOnlyWhenClosed'
  BY <1>1 DEF DropsOnlyWhenClosed
<1> QED
  BY <1>2, <1>3, <1>4, <1>5 DEF Rest

(* Swap is what brings a change to its pacer.                              *)
LEMMA TodoSwap ==
    ASSUME TypeOK, Swap, NEW d \in Dirs
    PROVE  /\ d = Order[ctl.i] => Todo(d) /\ ~Todo(d)'
           /\ d # Order[ctl.i] => (Todo(d)' <=> Todo(d))
<1>1. /\ ctl \in CtlType /\ ctl.i \in 1..2 /\ ctl.op # "none"
      /\ ~ctl.swapped
      /\ ctl' = [ctl EXCEPT !.swapped = TRUE, !.old = state[Order[ctl.i]]]
  BY DEF TypeOK, CtlType, Swap
<1>2. ctl'.op = ctl.op /\ ctl'.i = ctl.i /\ ctl'.swapped
  BY <1>1 DEF CtlType
<1>3. CASE ctl.i = 1
  BY <1>1, <1>2, <1>3 DEF Todo, Order
<1>4. CASE ctl.i = 2
  BY <1>1, <1>2, <1>4 DEF Todo, Order
<1> QED
  BY <1>1, <1>3, <1>4

(* CancelOld moves on without changing what is still to come.              *)
LEMMA TodoCancel ==
    ASSUME TypeOK, CancelOld, NEW d \in Dirs
    PROVE  Todo(d)' <=> Todo(d)
<1>1. /\ ctl \in CtlType /\ ctl.i \in 1..2 /\ ctl.op # "none"
      /\ ctl.swapped
      /\ ctl' = IF ctl.i = 1 THEN [NoCtl EXCEPT !.op = ctl.op, !.i = 2]
                ELSE NoCtl
  BY DEF TypeOK, CtlType, CancelOld, NextPacer
<1>2. CASE ctl.i = 1
  <2>1. ctl'.op = ctl.op /\ ctl'.i = 2 /\ ~ctl'.swapped
    BY <1>1, <1>2 DEF NoCtl
  <2> QED
    BY <1>1, <1>2, <2>1 DEF Todo, Order
<1>3. CASE ctl.i = 2
  <2>1. ctl'.op = "none"
    BY <1>1, <1>3 DEF NoCtl
  <2> QED
    BY <1>1, <1>3, <2>1 DEF Todo, Order
<1> QED
  BY <1>1, <1>2, <1>3

(* Swap keeps the rest: the limiter it makes is used by nobody, and the    *)
(* one it replaces is not the current one any more.                        *)
LEMMA SwapRest ==
    ASSUME IInv, Swap
    PROVE  Rest'
<1> DEFINE d == Order[ctl.i]
<1>0. /\ TypeOK /\ MadeInv /\ CtlInv /\ ChunkInv /\ RateInv
      /\ CurrentIsLive /\ ForceInv /\ DropsOnlyWhenClosed
  BY DEF IInv
<1>1. /\ d \in Dirs /\ Todo(d)
      /\ packet' = packet /\ config' = config /\ closed' = closed
      /\ configs' = configs
      /\ ctl' = [ctl EXCEPT !.swapped = TRUE, !.old = state[d]]
  BY SwapEffect
<1>2. \A e \in Dirs \ {d} : /\ state'[e] = state[e]
                            /\ limiter'[e] = limiter[e]
                            /\ shut'[e] = shut[e]
  BY SwapEffect
<1>3. shut'[d] = (shut[d] \/ ctl.op = "close")
  BY SwapEffect
<1>4. \/ /\ ctl.op = "configure" /\ config[d] > 0
         /\ configs \in 1..MaxConfigs
         /\ state'[d] = configs
         /\ limiter'[d][configs] = NewLimiter(config[d])
         /\ \A g \in 1..MaxConfigs \ {configs} :
              limiter'[d][g] = limiter[d][g]
      \/ config[d] = 0 /\ state'[d] = 0 /\ limiter' = limiter
  BY SwapEffect
<1>5. /\ ctl'.op = ctl.op /\ ctl'.i = ctl.i /\ ctl'.swapped
      /\ ctl'.old = state[d] /\ ctl.op # "none"
  BY <1>0, <1>1 DEF TypeOK, Swap
<1>6. \A e \in Dirs : /\ e = d => ~Todo(e)'
                      /\ e # d => (Todo(e)' <=> Todo(e))
  BY <1>0, TodoSwap
<1>7. state[d] \in Nat /\ configs \in Nat
  BY <1>0, <1>1 DEF TypeOK
<1>8. config[d] \in Nat
  BY <1>0, <1>1 DEF TypeOK
<1>9. /\ NewLimiter(config[d]) \in Limiters
      /\ NewLimiter(config[d]).rate > 0 /\ ~NewLimiter(config[d]).cancelled
      /\ Sound(NewLimiter(config[d]))
  BY <1>8, NewLimiterType DEF Sound
<1> HIDE DEF d
<1>10. ASSUME NEW e \in Dirs, NEW g \in 1..MaxConfigs, InUse(e, g)
       PROVE  limiter'[e][g] = limiter[e][g]
  <2>1. CASE e # d
    BY <1>2, <2>1
  <2>2. CASE e = d
    <3>1. ctl.op = "configure" => g < configs
      BY <1>1, <1>10, <2>2 DEF InUse
    <3> QED
      BY <1>4, <1>7, <2>2, <3>1
  <2> QED
    BY <2>1, <2>2
<1>11. \A e \in Dirs : \A g : InUse(e, g) => InUse(e, g)'
  BY <1>1, <1>5, <1>6 DEF InUse
<1>12. MadeInv'
  <2>1. ASSUME NEW e \in Dirs PROVE InUse(e, state[e])'
    <3>1. CASE e = d
      <4>1. state'[d] <= configs
        BY <1>4, <1>7
      <4> QED
        BY <1>1, <1>6, <3>1, <4>1 DEF InUse
    <3>2. CASE e # d
      <4>1. InUse(e, state[e]) /\ state'[e] = state[e]
        BY <1>0, <1>2, <3>2 DEF MadeInv
      <4> QED
        BY <1>1, <1>5, <1>6, <3>2, <4>1 DEF InUse
    <3> QED
      BY <3>1, <3>2
  <2>2. ASSUME NEW p \in Packets, Holds(p)'
        PROVE  packet'[p].lim # 0 /\ InUse(packet[p].dir, packet[p].lim)'
    <3>1. packet[p].lim # 0 /\ InUse(packet[p].dir, packet[p].lim)
      BY <1>0, <1>1, <2>2 DEF MadeInv, Holds
    <3>2. packet[p].dir \in Dirs
      BY <1>0 DEF TypeOK, PacketStates
    <3> QED
      BY <1>1, <1>5, <1>6, <3>1, <3>2 DEF InUse
  <2> QED
    BY <2>1, <2>2 DEF MadeInv
<1>13. CtlInv'
  <2>1. state[d] # 0 => state[d] # state'[d]
    <3>1. CASE state'[d] = 0
      BY <3>1
    <3>2. CASE ctl.op = "configure" /\ state'[d] = configs
      <4>1. state[d] < configs
        BY <1>0, <1>1, <3>2 DEF MadeInv, InUse
      <4> QED
        BY <1>7, <3>2, <4>1
    <3> QED
      BY <1>4, <3>1, <3>2
  <2>2. ctl'.old # state'[Order[ctl'.i]] \/ ctl'.old = 0
    BY <1>5, <2>1 DEF d
  <2>3. \A e \in Dirs : shut'[e] => closed
    BY <1>0, <1>2, <1>3 DEF CtlInv
  <2> QED
    BY <1>0, <1>1, <1>5, <2>2, <2>3 DEF CtlInv
<1>14. ASSUME NEW p \in Packets, Holds(p)
       PROVE  limiter'[packet[p].dir][packet[p].lim] =
                limiter[packet[p].dir][packet[p].lim]
  <2>1. packet[p].dir \in Dirs /\ packet[p].lim \in 1..MaxConfigs
    BY <1>0, <1>14, HeldLimiter
  <2>2. InUse(packet[p].dir, packet[p].lim)
    BY <1>0, <1>14 DEF MadeInv
  <2> QED
    BY <1>10, <2>1, <2>2
<1>15. ChunkInv'
  BY <1>0, <1>1, <1>14 DEF ChunkInv, Holds
<1>16. RateInv'
  <2>1. ASSUME NEW e \in Dirs, NEW g \in 1..MaxConfigs
        PROVE  Sound(limiter'[e][g])
    <3>1. CASE limiter'[e][g] = limiter[e][g]
      BY <1>0, <3>1 DEF RateInv
    <3>2. CASE limiter'[e][g] = NewLimiter(config[d])
      BY <1>9, <3>2
    <3> QED
      BY <1>2, <1>4, <3>1, <3>2
  <2> QED
    BY <1>0, <1>1, <1>14, <2>1 DEF RateInv, Holds
<1>17. CurrentIsLive'
  <2> SUFFICES ASSUME NEW e \in Dirs, state'[e] # 0
               PROVE  /\ ~limiter'[e][state'[e]].cancelled
                      /\ limiter'[e][state'[e]].rate > 0
    BY DEF CurrentIsLive
  <2>1. CASE e = d
    BY <1>4, <1>9, <2>1
  <2>2. CASE e # d
    BY <1>0, <1>2, <2>2 DEF CurrentIsLive
  <2> QED
    BY <2>1, <2>2
<1>18. ForceInv'
  <2> SUFFICES ASSUME NEW e \in Dirs, ~Todo(e)'
               PROVE  (state'[e] # 0) <=> (config[e] > 0)
    BY <1>1 DEF ForceInv
  <2>1. CASE e = d
    BY <1>4, <1>7, <2>1
  <2>2. CASE e # d
    BY <1>0, <1>2, <1>6, <2>2 DEF ForceInv
  <2> QED
    BY <2>1, <2>2
<1>19. DropsOnlyWhenClosed'
  BY <1>0, <1>1 DEF DropsOnlyWhenClosed
<1> QED
  BY <1>12, <1>13, <1>15, <1>16, <1>17, <1>18, <1>19 DEF Rest

(* CancelOld keeps the rest.                                               *)
LEMMA CancelRest ==
    ASSUME IInv, CancelOld
    PROVE  Rest'
<1>0. /\ TypeOK /\ MadeInv /\ CtlInv /\ ChunkInv /\ RateInv
      /\ CurrentIsLive /\ ForceInv /\ DropsOnlyWhenClosed
  BY DEF IInv
<1>1. /\ packet' = packet /\ config' = config /\ closed' = closed
      /\ configs' = configs /\ state' = state /\ shut' = shut
      /\ ctl' = IF ctl.i = 1 THEN [NoCtl EXCEPT !.op = ctl.op, !.i = 2]
                ELSE NoCtl
      /\ ctl.op # "none" /\ ctl.swapped
  BY CancelEffect
<1>2. \A d \in Dirs, g \in 1..MaxConfigs :
        /\ limiter'[d][g].burst = limiter[d][g].burst
        /\ limiter'[d][g].rate = limiter[d][g].rate
        /\ limiter'[d][g].earned = limiter[d][g].earned
        /\ Sound(limiter[d][g]) => Sound(limiter'[d][g])
        /\ g = state[d] => limiter'[d][g].cancelled = limiter[d][g].cancelled
  BY CancelEffect DEF Sound
<1>3. \A d \in Dirs : Todo(d)' <=> Todo(d)
  BY <1>0, TodoCancel
<1>4. /\ ctl'.op \in {"none", ctl.op} /\ ~ctl'.swapped
      /\ ctl'.op = "none" => ctl' = NoCtl
  BY <1>1 DEF NoCtl
<1>5. MadeInv'
  <2>1. \A d \in Dirs : InUse(d, state[d])'
    BY <1>0, <1>1, <1>3, <1>4 DEF MadeInv, InUse
  <2>2. ASSUME NEW p \in Packets, Holds(p)'
        PROVE  packet'[p].lim # 0 /\ InUse(packet[p].dir, packet[p].lim)'
    <3>1. packet[p].dir \in Dirs
      BY <1>0 DEF TypeOK, PacketStates
    <3> QED
      BY <1>0, <1>1, <1>3, <1>4, <2>2, <3>1 DEF MadeInv, InUse, Holds
  <2> QED
    BY <2>1, <2>2 DEF MadeInv
<1>6. CtlInv'
  BY <1>0, <1>1, <1>4 DEF CtlInv
<1>7. \A p \in Packets : Holds(p) =>
        packet[p].dir \in Dirs /\ packet[p].lim \in 1..MaxConfigs
  BY <1>0, HeldLimiter
<1>8. ChunkInv'
  BY <1>0, <1>1, <1>2, <1>7 DEF ChunkInv, Holds
<1>9. RateInv'
  BY <1>0, <1>1, <1>2, <1>7 DEF RateInv, Holds
<1>10. CurrentIsLive'
  <2> SUFFICES ASSUME NEW d \in Dirs, state[d] # 0
               PROVE  /\ ~limiter'[d][state[d]].cancelled
                      /\ limiter'[d][state[d]].rate > 0
    BY <1>1 DEF CurrentIsLive
  <2>1. state[d] \in 1..MaxConfigs
    BY <1>0 DEF TypeOK
  <2> QED
    BY <1>0, <1>2, <2>1 DEF CurrentIsLive
<1>11. ForceInv'
  BY <1>0, <1>1, <1>3 DEF ForceInv
<1>12. DropsOnlyWhenClosed'
  BY <1>0, <1>1 DEF DropsOnlyWhenClosed
<1> QED
  BY <1>5, <1>6, <1>8, <1>9, <1>10, <1>11, <1>12 DEF Rest

(* A second that passes keeps the rest: what a debt loses its limiter has  *)
(* earned.                                                                 *)
LEMMA TickRest ==
    ASSUME IInv, Tick
    PROVE  Rest'
<1>0. /\ TypeOK /\ MadeInv /\ CtlInv /\ ChunkInv /\ RateInv
      /\ CurrentIsLive /\ ForceInv /\ DropsOnlyWhenClosed
  BY DEF IInv
<1>1. UNCHANGED <<config, closed, ctl, state, shut, configs>>
  BY DEF Tick
<1>2. \A p \in Packets :
        /\ packet'[p].at = packet[p].at /\ packet'[p].dir = packet[p].dir
        /\ packet'[p].lim = packet[p].lim
        /\ packet'[p].chunk = packet[p].chunk
        /\ packet'[p].mark = packet[p].mark
  BY <1>0, TickPackets
<1>3. ASSUME NEW d \in Dirs, NEW g \in 1..MaxConfigs
      PROVE  /\ limiter'[d][g].burst = limiter[d][g].burst
             /\ limiter'[d][g].rate = limiter[d][g].rate
             /\ limiter'[d][g].cancelled = limiter[d][g].cancelled
             /\ limiter'[d][g].earned =
                  limiter[d][g].earned + limiter[d][g].rate
             /\ Sound(limiter'[d][g])
  <2> DEFINE l == limiter[d][g]
  <2>1. l \in Limiters /\ Sound(l)
    BY <1>0 DEF TypeOK, RateInv
  <2>2. limiter'[d][g] = Refill(l)
    BY DEF Tick
  <2> HIDE DEF l
  <2>3. Sound(Refill(l))
    <3>1. /\ Refill(l) \in Limiters
          /\ Refill(l).tokens <= l.tokens + l.rate
          /\ Refill(l).earned = l.earned + l.rate
          /\ Refill(l).reserved = l.reserved /\ Refill(l).served = l.served
      BY <2>1, Refilling
    <3>2. /\ l.tokens \in Int /\ l.rate \in Nat /\ l.earned \in Nat
          /\ l.reserved \in Nat /\ l.served \in Nat
          /\ Refill(l).tokens \in Int
      BY <2>1, <3>1 DEF Limiters
    <3> QED
      BY <2>1, <3>1, <3>2 DEF Sound
  <2> QED
    BY <2>1, <2>2, <2>3, Refilling DEF l
<1>4. MadeInv'
  BY <1>0, <1>1, <1>2 DEF MadeInv, InUse, Holds, Todo
<1>5. CtlInv'
  BY <1>0, <1>1 DEF CtlInv
<1>6. \A p \in Packets : Holds(p) =>
        packet[p].dir \in Dirs /\ packet[p].lim \in 1..MaxConfigs
  BY <1>0, HeldLimiter
<1>7. ChunkInv'
  BY <1>0, <1>2, <1>3, <1>6 DEF ChunkInv, Holds
<1>8. RateInv'
  <2>1. ASSUME NEW p \in Packets, packet'[p].at = "wait"
        PROVE  packet'[p].mark <=
                 limiter'[packet'[p].dir][packet'[p].lim].earned
                   + packet'[p].debt
    <3> DEFINE l == limiter[packet[p].dir][packet[p].lim]
    <3>1. packet[p].at = "wait" /\ Holds(p)
      BY <1>2, <2>1 DEF Holds
    <3>2. l \in Limiters /\ packet[p] \in PacketStates
      BY <1>0, <3>1, HeldLimiter
    <3>3. packet[p].mark <= l.earned + packet[p].debt
      BY <1>0, <3>1 DEF RateInv
    <3>4. /\ packet'[p].debt >= packet[p].debt - l.rate
          /\ packet'[p] \in PacketStates
      BY <1>0, <3>1, TickPackets
    <3>5. limiter'[packet'[p].dir][packet'[p].lim].earned
            = l.earned + l.rate
      BY <1>2, <1>3, <1>6, <3>1
    <3>6. /\ l.earned \in Nat /\ l.rate \in Nat /\ packet[p].mark \in Nat
          /\ packet[p].debt \in Nat /\ packet'[p].debt \in Nat
      BY <3>2, <3>4 DEF Limiters, PacketStates
    <3> HIDE DEF l
    <3> QED
      BY <1>2, <3>3, <3>4, <3>5, <3>6
  <2> QED
    BY <1>3, <2>1 DEF RateInv
<1>9. CurrentIsLive'
  <2> SUFFICES ASSUME NEW d \in Dirs, state[d] # 0
               PROVE  /\ ~limiter'[d][state[d]].cancelled
                      /\ limiter'[d][state[d]].rate > 0
    BY <1>1 DEF CurrentIsLive
  <2>1. state[d] \in 1..MaxConfigs
    BY <1>0 DEF TypeOK
  <2> QED
    BY <1>0, <1>3, <2>1 DEF CurrentIsLive
<1>10. ForceInv'
  BY <1>0, <1>1 DEF ForceInv, Todo
<1>11. DropsOnlyWhenClosed'
  BY <1>0, <1>1, <1>2 DEF DropsOnlyWhenClosed
<1> QED
  BY <1>4, <1>5, <1>7, <1>8, <1>9, <1>10, <1>11 DEF Rest

-----------------------------------------------------------------------------
(* The theorems.                                                           *)

(* The invariant holds initially.                                          *)
LEMMA InvInit == Init => IInv
<1> SUFFICES ASSUME Init PROVE IInv
  OBVIOUS
<1>1. TypeOK
  BY TypeInit
<1>2. /\ \A p \in Packets : packet[p].at = "idle"
      /\ \A d \in Dirs : state[d] = 0 /\ config[d] = 0 /\ shut[d] = FALSE
  BY DEF Init, Idle, NoLimits
<1>3. \A d \in Dirs, g \in 1..MaxConfigs : Sound(limiter[d][g])
  BY DEF Init, Unmade, Sound
<1>4. ctl.op = "none" /\ ~ctl.swapped /\ ctl = NoCtl
  BY DEF Init, NoCtl
<1>5. MadeInv
  BY <1>2, <1>4 DEF MadeInv, Holds, InUse, Init
<1>6. CtlInv
  BY <1>2, <1>4 DEF CtlInv, Init
<1>7. ChunkInv /\ RateInv /\ CurrentIsLive /\ ForceInv
      /\ DropsOnlyWhenClosed
  BY <1>2, <1>3 DEF ChunkInv, RateInv, CurrentIsLive, ForceInv,
                    DropsOnlyWhenClosed
<1> QED
  BY <1>1, <1>5, <1>6, <1>7 DEF IInv

(* Every step keeps the invariant.                                         *)
LEMMA InvNext == IInv /\ [Next]_vars => IInv'
<1> SUFFICES ASSUME IInv, [Next]_vars PROVE IInv'
  OBVIOUS
<1> SUFFICES Rest'
  BY TypeStep DEF IInv, Rest
<1>1. ASSUME NEW limits \in Limits, Configure(limits) PROVE Rest'
  BY <1>1, ConfigureRest
<1>2. CASE Close
  BY <1>2, CloseRest
<1>3. CASE Swap
  BY <1>3, SwapRest
<1>4. CASE CancelOld
  BY <1>4, CancelRest
<1>5. ASSUME NEW p \in Packets,
             Work(p) \/ \E d \in Dirs, n \in Sizes : Arrive(p, d, n)
      PROVE  Rest'
  BY <1>5, PacketRest
<1>6. CASE Tick
  BY <1>6, TickRest
<1>7. CASE UNCHANGED vars
  BY <1>7 DEF IInv, Rest, vars, MadeInv, CtlInv, ChunkInv, RateInv,
              CurrentIsLive, ForceInv, DropsOnlyWhenClosed, InUse, Todo,
              Holds
<1> QED
  BY <1>1, <1>2, <1>3, <1>4, <1>5, <1>6, <1>7 DEF Next

(* The invariant holds throughout.                                         *)
LEMMA Invariant == Spec => []IInv
BY InvInit, InvNext, PTL DEF Spec

(* The state keeps its types: no burst is larger than its maximum, and no  *)
(* Configure makes a limiter in a slot that does not exist.                *)
THEOREM TypeCorrect == Spec => []TypeOK
<1>1. IInv => TypeOK
  BY DEF IInv
<1> QED
  BY <1>1, Invariant, PTL

(* However many goroutines share a limiter, and whatever the configuration *)
(* does meanwhile, it never lets a byte through before it is earned.       *)
THEOREM RateKept == Spec => []WithinRate
<1>1. IInv => WithinRate
  BY DEF IInv, RateInv, Sound, WithinRate
<1> QED
  BY <1>1, Invariant, PTL

(* The limiter a packet loads is never one that has been cancelled, nor    *)
(* one that earns nothing.                                                 *)
THEOREM LimiterLive == Spec => []CurrentIsLive
<1>1. IInv => CurrentIsLive
  BY DEF IInv
<1> QED
  BY <1>1, Invariant, PTL

(* Between two changes of the configuration exactly the limits configured  *)
(* last are in force.                                                      *)
THEOREM LimitsHold == Spec => []LimitsInForce
<1>1. IInv => LimitsInForce
  BY DEF IInv, ForceInv, LimitsInForce, Todo
<1> QED
  BY <1>1, Invariant, PTL

(* Pacing fails for no other reason than that the device is closed.        *)
THEOREM NoDrops == Spec => []DropsOnlyWhenClosed
<1>1. IInv => DropsOnlyWhenClosed
  BY DEF IInv
<1> QED
  BY <1>1, Invariant, PTL

-----------------------------------------------------------------------------
(* Nobody is stranded.                                                     *)

(* A packet that has loaded a limiter holds the current one, a cancelled   *)
(* one, or the one that is about to be cancelled.                          *)
Freed(d, g) ==
    g = state[d] \/ limiter[d][g].cancelled \/ AboutToCancel(d, g)
HeldInv == \A p \in Packets : Holds(p) => Freed(packet[p].dir, packet[p].lim)

(* CancelOld cancels the limiter it has in hand, and no other step of its  *)
(* own takes a cancellation back.                                          *)
LEMMA CancelCancels ==
    ASSUME IInv, CancelOld, NEW d \in Dirs, NEW g \in 1..MaxConfigs,
           limiter[d][g].cancelled \/ AboutToCancel(d, g)
    PROVE  limiter'[d][g].cancelled
<1>1. limiter[d][g] \in Limiters /\ TypeOK
  BY DEF IInv, TypeOK
<1>2. CASE ctl.old = 0
  BY <1>2, ShaperAssumption DEF CancelOld, AboutToCancel
<1>3. CASE ctl.old # 0
  <2> DEFINE e == Order[ctl.i]
             l == limiter[e][ctl.old]
  <2>1. e \in Dirs /\ ctl.old \in 1..MaxConfigs
    BY <1>1, <1>3, ShaperAssumption DEF TypeOK, Order, Dirs
  <2>2. l \in Limiters /\ Put(e, ctl.old, Cancel(l))
    BY <1>1, <1>3, <2>1 DEF TypeOK, CancelOld
  <2>3. Cancel(l).cancelled = TRUE /\ Cancel(l) \in Limiters
    BY <2>2, Cancelling DEF Cancel, Limiters
  <2>4. /\ limiter'[e][ctl.old] = Cancel(l)
        /\ e # d \/ ctl.old # g => limiter'[d][g] = limiter[d][g]
    <3> HIDE DEF l, e
    <3> QED  BY <1>1, <2>1, <2>2, <2>3, OneLimiter
  <2> QED  BY <2>3, <2>4 DEF AboutToCancel
<1> QED  BY <1>2, <1>3

(* A packet keeps to such a limiter through each step.                     *)
LEMMA HeldStep ==
    ASSUME IInv, HeldInv, [Next]_vars
    PROVE  HeldInv'
<1>0. /\ TypeOK /\ MadeInv /\ CtlInv /\ RateInv
  BY DEF IInv
<1> SUFFICES ASSUME NEW p \in Packets, Holds(p)'
             PROVE  Freed(packet[p].dir, packet[p].lim)'
  BY DEF HeldInv
<1> DEFINE d == packet[p].dir
           g == packet[p].lim
<1>a. Holds(p) => d \in Dirs /\ g \in 1..MaxConfigs
  BY <1>0, HeldLimiter
<1>b. Holds(p) => Freed(d, g)
  BY DEF HeldInv
<1>1. CASE \/ \E limits \in Limits : Configure(limits)
           \/ Close
  <2>1. UNCHANGED <<packet, limiter, state>> /\ ctl.op = "none"
    BY <1>1 DEF Configure, Close, Begin
  <2> QED  BY <1>b, <2>1 DEF Holds, Freed, AboutToCancel
<1>2. CASE Swap
  <2> DEFINE e == Order[ctl.i]
  <2>1. /\ packet' = packet /\ e \in Dirs /\ Todo(e)
        /\ ctl' = [ctl EXCEPT !.swapped = TRUE, !.old = state[e]]
        /\ \A f \in Dirs \ {e} : /\ state'[f] = state[f]
                                 /\ limiter'[f] = limiter[f]
    BY <1>2, SwapEffect
  <2>2. Holds(p) /\ ~ctl.swapped /\ ctl.op # "none"
    BY <1>2, <2>1 DEF Holds, Swap
  <2>3. d \in Dirs /\ g \in 1..MaxConfigs
        /\ (g = state[d] \/ limiter[d][g].cancelled)
    BY <1>a, <1>b, <2>2 DEF Freed, AboutToCancel
  <2>4. CASE d # e
    BY <2>1, <2>3, <2>4 DEF Freed
  <2>5. CASE d = e /\ g = state[d]
    <3>1. /\ ctl'.op = ctl.op /\ ctl'.swapped = TRUE
          /\ ctl'.i = ctl.i /\ ctl'.old = g
      BY <1>0, <2>1, <2>5 DEF TypeOK
    <3> QED  BY <2>1, <2>2, <2>5, <3>1 DEF Freed, AboutToCancel
  <2>6. CASE d = e /\ limiter[d][g].cancelled
    <3>1. limiter'[d][g] = limiter[d][g]
      <4>1. CASE limiter' = limiter
        BY <4>1
      <4>2. CASE /\ ctl.op = "configure" /\ configs \in 1..MaxConfigs
                 /\ \A h \in 1..MaxConfigs \ {configs} :
                      limiter'[e][h] = limiter[e][h]
        <5>1. g < configs
          BY <1>0, <2>1, <2>2, <2>6, <4>2 DEF MadeInv, InUse
        <5> QED  BY <2>3, <2>6, <4>2, <5>1
      <4> QED  BY <1>2, <4>1, <4>2, SwapEffect
    <3> QED  BY <2>1, <2>6, <3>1 DEF Freed
  <2> QED  BY <2>3, <2>4, <2>5, <2>6
<1>3. CASE CancelOld
  <2>1. packet' = packet /\ state' = state
    BY <1>3, CancelEffect
  <2>2. Holds(p)
    BY <2>1 DEF Holds
  <2>3. CASE g = state[d]
    BY <2>1, <2>3 DEF Freed
  <2>4. CASE limiter[d][g].cancelled \/ AboutToCancel(d, g)
    <3>1. limiter'[d][g].cancelled
      BY <1>3, <1>a, <2>2, <2>4, CancelCancels
    <3> QED  BY <2>1, <3>1 DEF Freed
  <2> QED  BY <1>b, <2>2, <2>3, <2>4 DEF Freed
<1>4. ASSUME NEW q \in Packets,
             Work(q) \/ \E e \in Dirs, n \in Sizes : Arrive(q, e, n)
      PROVE  Freed(d, g)'
  <2>1. UNCHANGED <<ctl, state>>
    BY <1>0, <1>4, PacketSteps
  <2>2. PICK s \in PacketStates : Set(q, s) /\ PacketStep(q, s)
    BY <1>0, <1>4, PacketSteps
  <2>3. packet'[q] = s /\ \A r \in Packets \ {q} : packet'[r] = packet[r]
    BY <1>0, <2>2, OnePacket
  <2>4. \A e \in Dirs, h \in 1..MaxConfigs :
          limiter'[e][h].cancelled = limiter[e][h].cancelled
    BY <1>0, <2>2, PacketKeepsLimiters
  <2>5. CASE Holds(p) /\ packet'[p].dir = d /\ packet'[p].lim = g
    BY <1>a, <1>b, <2>1, <2>4, <2>5 DEF Freed, AboutToCancel
  <2>6. CASE p = q /\ s.at = "reserve" /\ s.lim = state[s.dir]
    BY <2>1, <2>3, <2>6 DEF Freed
  <2>7. p # q => packet'[p] = packet[p] /\ Holds(p)
    BY <2>3 DEF Holds
  <2>8. p = q => \/ s.at = "reserve" /\ s.lim = state[s.dir]
                 \/ Holds(p) /\ s.dir = d /\ s.lim = g
    BY <2>2, <2>3 DEF PacketStep, Holds, Away
  <2> QED  BY <2>3, <2>5, <2>6, <2>7, <2>8
<1>5. CASE Tick
  <2>1. /\ packet'[p].at = packet[p].at /\ packet'[p].dir = d
        /\ packet'[p].lim = g /\ UNCHANGED <<ctl, state>>
    BY <1>0, <1>5, TickPackets DEF Tick
  <2>2. Holds(p)
    BY <2>1 DEF Holds
  <2>3. limiter[d][g] \in Limiters
    BY <1>0, <2>2, HeldLimiter
  <2>4. limiter'[d][g] = Refill(limiter[d][g])
    BY <1>5, <1>a, <2>2 DEF Tick
  <2>5. limiter'[d][g].cancelled = limiter[d][g].cancelled
    BY <2>3, <2>4, Refilling
  <2> QED  BY <1>b, <2>1, <2>2, <2>5 DEF Freed, AboutToCancel
<1>6. CASE UNCHANGED vars
  BY <1>b, <1>6 DEF vars, Holds, Freed, AboutToCancel
<1> QED
  BY <1>1, <1>2, <1>3, <1>4, <1>5, <1>6 DEF Next

(* Whatever Configure and close do while packets wait, none of them waits  *)
(* for a limiter that was replaced without being woken: the safety core of *)
(* NoneLeftBehind and of CloseDrains.                                      *)
THEOREM NobodyStranded == Spec => []NoneStranded
<1>1. Init => HeldInv
  BY DEF Init, HeldInv, Holds, Idle
<1>2. IInv /\ HeldInv => NoneStranded
  <2> SUFFICES ASSUME IInv, HeldInv, NEW p \in Packets,
                      packet[p].at = "wait"
               PROVE  LET d == packet[p].dir
                          g == packet[p].lim
                      IN  /\ Freed(d, g)
                          /\ closed /\ ctl.op = "none"
                               => limiter[d][g].cancelled
    BY DEF NoneStranded, Freed
  <2> DEFINE d == packet[p].dir
             g == packet[p].lim
  <2>1. Freed(d, g)
    BY DEF HeldInv, Holds
  <2>2. d \in Dirs /\ g \in 1..MaxConfigs
    BY HeldLimiter DEF IInv, Holds
  <2>3. ASSUME closed, ctl.op = "none" PROVE limiter[d][g].cancelled
    <3>1. config = NoLimits
      BY <2>3 DEF IInv, CtlInv
    <3>2. state[d] = 0
      BY <2>2, <2>3, <3>1 DEF IInv, ForceInv, Todo, NoLimits
    <3> QED  BY <2>1, <2>2, <2>3, <3>2 DEF Freed, AboutToCancel
  <2> QED  BY <2>1, <2>3
<1>3. HeldInv /\ IInv /\ [Next]_vars => HeldInv'
  BY HeldStep
<1> QED
  BY <1>1, <1>2, <1>3, Invariant, PTL DEF Spec

=============================================================================
