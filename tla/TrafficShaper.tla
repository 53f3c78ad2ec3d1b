---------------------------- MODULE TrafficShaper ----------------------------
(***************************************************************************)
(* The bandwidth limits of the tunnel, net/tstun/traffic_shaper.go: packet *)
(* goroutines wait for the limiter of their direction while Configure      *)
(* replaces the limiters and close ends the device.                        *)
(*                                                                         *)
(* Configure holds s.mu from its check to its end and close from its check *)
(* to its counters; what follows in close can only meet a Configure that   *)
(* returns at once.  So at most one of them is under way (`ctl`), while    *)
(* the packets, which take no lock, may run between any two of its steps.  *)
(* Time passes in ticks of one second.  The limiter is that of             *)
(* golang.org/x/time/rate: a token bucket whose reservations may put it    *)
(* into debt, and which each then wait their debt out.                     *)
(***************************************************************************)
EXTENDS Integers

Order == <<"upload", "download">>
Dirs  == {"upload", "download"}

CONSTANTS
    Packets,      \* goroutines that carry packet batches through the TUN
    Sizes,        \* sizes of a batch in bytes
    Limits,       \* the configurations, in bits per second; 0 is no limit
    MinBurst,     \* minTrafficShaperBurstBytes
    MaxBurst,     \* maxTrafficShaperBurstBytes
    BurstShare,   \* the burst is this fraction of a second, 20 in the code
    MaxConfigs,   \* bound on the changes of the configuration
    MaxTicks,     \* bound on the seconds that pass
    MaxBatches    \* bound on the batches that arrive

ASSUME ShaperAssumption ==
    /\ Sizes \subseteq Nat \ {0}
    /\ Limits \subseteq [Dirs -> Nat]
    /\ MinBurst \in Nat \ {0} /\ MaxBurst \in Nat /\ MinBurst <= MaxBurst
    /\ BurstShare \in Nat \ {0}
    /\ MaxConfigs \in Nat /\ MaxTicks \in Nat /\ MaxBatches \in Nat

VARIABLES
    config,   \* s.config
    closed,   \* s.closed
    counted,  \* s.uploadBytes and s.downloadBytes
    ctl,      \* the Configure or close under way: the pacer it is at, and,
              \*   after the swap, the limiter that it has yet to cancel
    limiter,  \* every limiter of a pacer, by the Configure that made it
    state,    \* p.state of each pacer: its current limiter, 0 for nil
    shut,     \* p.closed of each pacer
    packet,   \* the goroutines
    configs, ticks, batches

vars == <<config, closed, counted, ctl, limiter, state, shut, packet,
          configs, ticks, batches>>
bounds == <<configs, ticks, batches>>

(* A token bucket.  earned, reserved and served are history: the bytes the *)
(* rate has allowed so far, the bytes asked for so far, and the position   *)
(* among these of the last byte that has been let through.                 *)
Limiters == [rate : Nat, burst : 0..MaxBurst, tokens : Int,
             cancelled : BOOLEAN, earned : Nat, reserved : Nat, served : Nat]

Unmade == [rate |-> 0, burst |-> 0, tokens |-> 0, cancelled |-> FALSE,
           earned |-> 0, reserved |-> 0, served |-> 0]

PacketPoints == {"idle", "check", "load", "reserve", "wait", "count",
                 "failed"}
PacketStates == [at : PacketPoints, dir : Dirs, size : Nat, left : Nat,
                 lim : 0..MaxConfigs, chunk : Nat, debt : Nat, mark : Nat,
                 paced : BOOLEAN]

Idle     == [at |-> "idle", dir |-> "upload", size |-> 0, left |-> 0,
             lim |-> 0, chunk |-> 0, debt |-> 0, mark |-> 0, paced |-> FALSE]
NoLimits == [d \in Dirs |-> 0]
NoCtl    == [op |-> "none", i |-> 1, swapped |-> FALSE, old |-> 0]

TypeOK ==
    /\ config \in [Dirs -> Nat]
    /\ closed \in BOOLEAN
    /\ counted \in [Dirs -> Nat]
    /\ ctl \in [op : {"none", "configure", "close"}, i : 1..2,
                swapped : BOOLEAN, old : 0..MaxConfigs]
    /\ limiter \in [Dirs -> [1..MaxConfigs -> Limiters]]
    /\ state \in [Dirs -> 0..MaxConfigs]
    /\ shut \in [Dirs -> BOOLEAN]
    /\ packet \in [Packets -> PacketStates]
    /\ configs \in 0..MaxConfigs
    /\ ticks \in 0..MaxTicks
    /\ batches \in 0..MaxBatches

Init ==
    /\ config = NoLimits /\ closed = FALSE /\ counted = NoLimits
    /\ ctl = NoCtl
    /\ limiter = [d \in Dirs |-> [g \in 1..MaxConfigs |-> Unmade]]
    /\ state = [d \in Dirs |-> 0]
    /\ shut = [d \in Dirs |-> FALSE]
    /\ packet = [p \in Packets |-> Idle]
    /\ configs = 0 /\ ticks = 0 /\ batches = 0

AtLeast(a, b) == IF a >= b THEN a ELSE b
AtMost(a, b)  == IF a <= b THEN a ELSE b

(* A step on one limiter, and on one packet.                               *)
Put(d, g, l) == limiter' = [limiter EXCEPT ![d][g] = l]
Set(p, s)    == packet' = [packet EXCEPT ![p] = s]

-----------------------------------------------------------------------------
(* Configuration.                                                          *)

(* Mutant: a limit below one byte per second becomes a rate of zero.       *)
TruncatedRate(bits) == bits \div 8

BytesPerSecond(bits) == AtLeast(1, bits \div 8)

(* Mutant: the burst has no upper bound.                                   *)
UncappedBurst(bytes) == AtLeast(bytes \div BurstShare, MinBurst)

(* trafficShaperBurst.                                                     *)
Burst(bytes) == AtMost(AtLeast(bytes \div BurstShare, MinBurst), MaxBurst)

(* Mutant: the new bucket is full.                                         *)
FullLimiter(bits) ==
    [rate |-> BytesPerSecond(bits), burst |-> Burst(BytesPerSecond(bits)),
     tokens |-> Burst(BytesPerSecond(bits)), cancelled |-> FALSE,
     earned |-> 0, reserved |-> 0, served |-> 0]

(* NewLimiter, and AllowN that takes its initial burst away.               *)
NewLimiter(bits) ==
    [rate |-> BytesPerSecond(bits), burst |-> Burst(BytesPerSecond(bits)),
     tokens |-> 0, cancelled |-> FALSE,
     earned |-> 0, reserved |-> 0, served |-> 0]

Begin(op, limits) ==
    /\ ctl.op = "none" /\ ~closed
    /\ config' = limits
    /\ counted' = NoLimits
    /\ ctl' = [NoCtl EXCEPT !.op = op]
    /\ UNCHANGED <<limiter, state, shut, packet, ticks, batches>>

(* Configure, from SetTrafficShaper and ClearTrafficShaper: nothing when   *)
(* closed or unchanged, else the counters and then one pacer after the     *)
(* other.                                                                  *)
Configure(limits) ==
    /\ limits # config /\ configs < MaxConfigs
    /\ Begin("configure", limits)
    /\ configs' = configs + 1
    /\ UNCHANGED closed

(* TrafficShaper.close, once, from Wrapper.Close.                          *)
Close ==
    /\ Begin("close", NoLimits)
    /\ closed' = TRUE
    /\ UNCHANGED configs

(* trafficPacer.configure and trafficPacer.close up to p.state.Swap.       *)
Swap ==
    LET d == Order[ctl.i]
    IN  /\ ctl.op # "none" /\ ~ctl.swapped
        /\ shut' = [shut EXCEPT ![d] = @ \/ ctl.op = "close"]
        /\ IF ctl.op = "configure" /\ config[d] > 0 /\ ~shut[d]
           THEN /\ Put(d, configs, NewLimiter(config[d]))
                /\ state' = [state EXCEPT ![d] = configs]
           ELSE /\ state' = [state EXCEPT ![d] = 0]
                /\ UNCHANGED limiter
        /\ ctl' = [ctl EXCEPT !.swapped = TRUE, !.old = state[d]]
        /\ UNCHANGED <<config, closed, counted, packet, bounds>>

(* Go on to the other pacer, or return.                                    *)
NextPacer ==
    ctl' = IF ctl.i = 1 THEN [NoCtl EXCEPT !.op = ctl.op, !.i = 2]
           ELSE NoCtl

(* Mutant: the replaced limiter is forgotten without being cancelled.      *)
ForgetOld ==
    /\ ctl.op # "none" /\ ctl.swapped
    /\ NextPacer
    /\ UNCHANGED <<config, closed, counted, limiter, state, shut, packet,
                   bounds>>

(* ... and old.cancel().                                                   *)
Cancel(l) == [l EXCEPT !.cancelled = TRUE]
CancelOld ==
    /\ ctl.op # "none" /\ ctl.swapped
    /\ LET d == Order[ctl.i]
       IN  IF ctl.old = 0 THEN UNCHANGED limiter
           ELSE Put(d, ctl.old, Cancel(limiter[d][ctl.old]))
    /\ NextPacer
    /\ UNCHANGED <<config, closed, counted, state, shut, packet, bounds>>

-----------------------------------------------------------------------------
(* The packets: waitUpload and waitDownload, and waitBytes inside.         *)

(* A batch of n bytes enters waitUpload or waitDownload.                   *)
Arrive(p, d, n) ==
    /\ packet[p].at = "idle" /\ batches < MaxBatches
    /\ batches' = batches + 1
    /\ Set(p, [Idle EXCEPT !.at = "check", !.dir = d, !.size = n, !.left = n])
    /\ UNCHANGED <<config, closed, counted, ctl, limiter, state, shut,
                   configs, ticks>>

(* p.closed.Load.                                                          *)
Check(p) ==
    /\ packet[p].at = "check"
    /\ Set(p, [packet[p] EXCEPT !.at = IF shut[packet[p].dir]
                                       THEN "failed" ELSE "load"])
    /\ UNCHANGED <<config, closed, counted, ctl, limiter, state, shut, bounds>>

(* The next iteration of waitBytes, with n bytes left.                     *)
Again(s, n) == [Idle EXCEPT !.at = "check", !.dir = s.dir, !.size = s.size,
                            !.left = n, !.paced = s.paced]

(* waitBytes returns without an error; the caller counts what was paced.   *)
Returned(s) ==
    IF s.paced
    THEN [Idle EXCEPT !.at = "count", !.dir = s.dir, !.size = s.size]
    ELSE Idle

(* Mutant: the batch is not cut into chunks the bucket can hold.           *)
WholeBatch(left, burst) == left

(* The chunk asked for at a time.                                          *)
Chunk(left, burst) == AtMost(left, burst)

(* p.state.Load.                                                           *)
Load(p) ==
    LET s == packet[p]
        g == state[s.dir]
    IN  /\ s.at = "load"
        /\ Set(p, IF g = 0 THEN Returned(s)
                  ELSE [s EXCEPT !.at = "reserve", !.lim = g, !.paced = TRUE,
                          !.chunk = Chunk(s.left, limiter[s.dir][g].burst)])
        /\ UNCHANGED <<config, closed, counted, ctl, limiter, state, shut,
                       bounds>>

(* A chunk has been let through: the next one, or the end of the batch.    *)
Passed(s) ==
    IF s.left > s.chunk THEN Again(s, s.left - s.chunk) ELSE Returned(s)

(* A chunk is taken from a bucket, and let through.                        *)
Take(l, n)     == [l EXCEPT !.tokens = @ - n, !.reserved = @ + n]
Serve(l, mark) == [l EXCEPT !.served = AtLeast(@, mark)]

(* Limiter.WaitN up to its wait: an error for more than the burst and for  *)
(* a cancelled context, else a reservation, which may be due at once.      *)
Reserve(p) ==
    LET s == packet[p]
        l == limiter[s.dir][s.lim]
        r == Take(l, s.chunk)
        m == r.reserved
    IN  /\ s.at = "reserve"
        /\ \/ /\ s.chunk > l.burst \/ l.cancelled
              /\ Set(p, IF s.chunk > l.burst THEN [s EXCEPT !.at = "failed"]
                        ELSE Again(s, s.left))
              /\ UNCHANGED limiter
           \/ /\ s.chunk <= l.burst /\ ~l.cancelled /\ r.tokens < 0
              /\ Set(p, [s EXCEPT !.at = "wait", !.debt = 0 - r.tokens,
                                  !.mark = m])
              /\ Put(s.dir, s.lim, r)
           \/ /\ s.chunk <= l.burst /\ ~l.cancelled /\ r.tokens >= 0
              /\ Set(p, Passed(s))
              /\ Put(s.dir, s.lim, Serve(r, m))
        /\ UNCHANGED <<config, closed, counted, ctl, state, shut, bounds>>

(* ... its timer fires.                                                    *)
Due(p) ==
    LET s == packet[p]
    IN  /\ s.at = "wait" /\ s.debt = 0
        /\ Set(p, Passed(s))
        /\ Put(s.dir, s.lim, Serve(limiter[s.dir][s.lim], s.mark))
        /\ UNCHANGED <<config, closed, counted, ctl, state, shut, bounds>>

(* ... or its context is cancelled: on to the replacement.                 *)
Cancelled(p) ==
    LET s == packet[p]
    IN  /\ s.at = "wait" /\ limiter[s.dir][s.lim].cancelled
        /\ Set(p, Again(s, s.left))
        /\ UNCHANGED <<config, closed, counted, ctl, limiter, state, shut,
                       bounds>>

(* The caller adds the whole batch to its counter.                         *)
Count(p) ==
    LET s == packet[p]
    IN  /\ s.at = "count"
        /\ counted' = [counted EXCEPT ![s.dir] = @ + s.size]
        /\ Set(p, Idle)
        /\ UNCHANGED <<config, closed, ctl, limiter, state, shut, bounds>>

(* An error: the TUN's Read or Write drops the batch.                      *)
Drop(p) ==
    /\ packet[p].at = "failed"
    /\ Set(p, Idle)
    /\ UNCHANGED <<config, closed, counted, ctl, limiter, state, shut, bounds>>

(* A second passes: the buckets fill up to their burst, the debts shrink.  *)
Refill(l) == [l EXCEPT !.tokens = AtMost(l.burst, @ + l.rate),
                       !.earned = @ + l.rate]
Tick ==
    /\ ticks < MaxTicks
    /\ ticks' = ticks + 1
    /\ limiter' = [d \in Dirs |-> [g \in 1..MaxConfigs |->
                                     Refill(limiter[d][g])]]
    /\ packet' = [p \in Packets |->
         IF packet[p].at # "wait" THEN packet[p]
         ELSE [packet[p] EXCEPT !.debt =
                 AtLeast(0, @ - limiter[packet[p].dir][packet[p].lim].rate)]]
    /\ UNCHANGED <<config, closed, counted, ctl, state, shut, configs,
                   batches>>

-----------------------------------------------------------------------------
Work(p) == Check(p) \/ Load(p) \/ Reserve(p) \/ Due(p) \/ Cancelled(p)
           \/ Count(p) \/ Drop(p)

Next ==
    \/ \E limits \in Limits : Configure(limits)
    \/ Close \/ Swap \/ CancelOld
    \/ \E p \in Packets :
         Work(p) \/ \E d \in Dirs, n \in Sizes : Arrive(p, d, n)
    \/ Tick

Spec == Init /\ [][Next]_vars

(* The goroutines are scheduled.  Nothing is assumed of the time.          *)
FairSpec ==
    Spec /\ WF_vars(Swap) /\ WF_vars(CancelOld)
         /\ \A p \in Packets : WF_vars(Work(p))

-----------------------------------------------------------------------------
(* Properties.                                                             *)

(* The limit is an aggregate one: however many batches share a limiter and *)
(* however they are cut, it never lets a byte through before its rate has  *)
(* earned all the bytes reserved up to it; there is no free first burst.   *)
WithinRate ==
    \A d \in Dirs, g \in 1..MaxConfigs :
        limiter[d][g].served <= limiter[d][g].earned

(* A pacer never hands out a limiter that has been cancelled (waitBytes    *)
(* would spin on it), nor one that never earns anything.                   *)
CurrentIsLive ==
    \A d \in Dirs : state[d] # 0 =>
        /\ ~limiter[d][state[d]].cancelled
        /\ limiter[d][state[d]].rate > 0

(* Outside of a change, a direction is paced exactly if it has a limit.    *)
LimitsInForce ==
    ctl.op = "none" => \A d \in Dirs : (state[d] # 0) <=> (config[d] > 0)

(* Pacing never loses a batch: an error means that the device is closing.  *)
DropsOnlyWhenClosed ==
    \A p \in Packets : packet[p].at = "failed" => closed

(* A change of the limits wakes the packets that wait for the old ones,    *)
(* whatever rate they had: none is left behind on a replaced limiter.      *)
NoneLeftBehind ==
    \A p \in Packets :
        (packet[p].at = "wait" /\ packet[p].lim # state[packet[p].dir])
            ~> (packet[p].at # "wait")

(* Closing the device ends every wait.                                     *)
CloseDrains ==
    \A p \in Packets : closed ~> (packet[p].at = "idle")

(* What NoneLeftBehind and CloseDrains rest on.  A packet only ever waits  *)
(* for the current limiter, for one that is already cancelled, or for the  *)
(* one that the change under way is about to cancel; and once a close has  *)
(* returned, every limiter that is still waited for is cancelled.          *)
AboutToCancel(d, g) ==
    ctl.op # "none" /\ ctl.swapped /\ Order[ctl.i] = d /\ ctl.old = g
NoneStranded ==
    \A p \in Packets : packet[p].at = "wait" =>
        LET d == packet[p].dir
            g == packet[p].lim
        IN  /\ g = state[d] \/ limiter[d][g].cancelled \/ AboutToCancel(d, g)
            /\ closed /\ ctl.op = "none" => limiter[d][g].cancelled

=============================================================================
