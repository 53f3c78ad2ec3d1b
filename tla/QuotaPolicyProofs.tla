-------------------------- MODULE QuotaPolicyProofs --------------------------
(***************************************************************************)
(* Proofs about QuotaPolicy.  That the limits in force are current rests   *)
(* on three facts about the queue and the daemon: the last request of the  *)
(* queue belongs to the current epoch, whatever the requests before it; a  *)
(* request that the daemon handles and the client has not given up is the  *)
(* first one of the queue, and the only one; and one that was given up has *)
(* been noted as missed.  So the queue cannot become empty without the     *)
(* daemon having seen a request of the current epoch.  The same order of   *)
(* the queue shows that no await of the client is for a lost answer.       *)
(***************************************************************************)
EXTENDS QuotaPolicy, TLAPS

PollStates == {"off", "status", "report", "guard", "fetch", "apply", "state"}
Calls == [req : Requests, at : {"received", "clearing"}, late : BOOLEAN]

PollShape ==
    poll \in [pc : PollStates, epoch : 0..epoch, bytes : 0..MaxTraffic,
              policy : Policies]

(* An operation that resets at its end has room for the reset.             *)
RoomLeft == op \in {"logout", "suspend", "resume"} => epoch < MaxResets

QueueOrder ==
    /\ \A i \in 1..Len(queue) : queue[i].epoch \in 0..epoch
    /\ queue # << >> => queue[Len(queue)].epoch = epoch

CallsOrder ==
    /\ posted => queue # << >>
    /\ \A c \in calls : c.req.epoch \in 0..epoch /\ (c.late => missed)
    /\ \A c \in calls : ~c.late => posted /\ c.req = queue[1]
    /\ \A c, d \in calls : ~c.late /\ ~d.late => c = d

(* A limit of an older epoch is noted, or a request is still to come.      *)
Accounted == shaper.rate # 0 /\ shaper.by # epoch => missed \/ queue # << >>

(* Where the poll awaits a request.                                        *)
AwaitOf(req) == IF req.from = "guard" THEN "guard" ELSE "apply"

(* The poll awaits at most one request, that one is in the queue, and no   *)
(* other is: every answer finds the poll at the await it is for.           *)
PollAwaits ==
    /\ \A i \in 1..Len(queue) :
        queue[i].from # "reset" => poll.pc = AwaitOf(queue[i])
    /\ \A i, j \in 1..Len(queue) :
        queue[i].from # "reset" /\ queue[j].from # "reset" => i = j
    /\ poll.pc \in {"guard", "apply"} =>
        \E i \in 1..Len(queue) : queue[i].from # "reset"

CoreType ==
    /\ epoch \in Nat /\ guard \in Guards /\ queue \in Seq(Requests)
    /\ posted \in BOOLEAN /\ missed \in BOOLEAN
    /\ shaper \in [rate : Nat, by : 0..epoch] /\ calls \subseteq Calls

(* What the poll, the queue and the daemon's handlers have to do with each *)
(* other, ...                                                              *)
CoreInv == /\ CoreType /\ PollShape
           /\ QueueOrder /\ CallsOrder /\ Accounted /\ PollAwaits

core == <<epoch, guard, poll, queue, posted, calls, missed, shaper>>

(* ... and the rest of the state.                                          *)
Flags ==
    /\ timerOn \in BOOLEAN /\ forced \in BOOLEAN /\ intent \in BOOLEAN
    /\ want \in BOOLEAN /\ loggedIn \in BOOLEAN

Counts ==
    /\ epoch \in 0..MaxResets /\ traffic \in 0..MaxTraffic
    /\ op \in {"none", "connect", "logout", "suspend", "resume"}
    /\ server \in Policies /\ changes \in 0..MaxChanges
    /\ faults \in 0..MaxFaults /\ toggles \in 0..MaxToggles
    /\ RoomLeft

RestInv == Flags /\ Counts

IInv == CoreInv /\ RestInv

-----------------------------------------------------------------------------
(* Sequences, requests and polls.                                          *)

(* A queue without places is empty.                                        *)
LEMMA EmptyLen ==
    ASSUME NEW S, NEW q \in Seq(S)
    PROVE  q = << >> <=> Len(q) = 0
OBVIOUS

(* What Append and Tail do to the places of a queue.                       *)
LEMMA Appended ==
    ASSUME NEW S, NEW q \in Seq(S), NEW x \in S
    PROVE  /\ Append(q, x) \in Seq(S) /\ Append(q, x) # << >>
           /\ Len(q) \in Nat /\ Len(Append(q, x)) = Len(q) + 1
           /\ \A i \in 1..Len(q) : Append(q, x)[i] = q[i]
           /\ Append(q, x)[Len(q) + 1] = x
OBVIOUS

(* See above.                                                              *)
LEMMA Shortened ==
    ASSUME NEW S, NEW q \in Seq(S), q # << >>
    PROVE  /\ Tail(q) \in Seq(S) /\ Head(q) = q[1] /\ q[1] \in S
           /\ Len(q) \in Nat \ {0} /\ Len(Tail(q)) = Len(q) - 1
           /\ \A i \in 1..Len(Tail(q)) : Tail(q)[i] = q[i + 1]
           /\ Tail(q) = << >> <=> Len(q) = 1
<1>1. /\ Tail(q) \in Seq(S) /\ Head(q) = q[1] /\ q[1] \in S
      /\ Len(q) \in Nat \ {0} /\ Len(Tail(q)) = Len(q) - 1
  OBVIOUS
<1>2. \A i \in 1..Len(Tail(q)) : Tail(q)[i] = q[i + 1]
  BY <1>1
<1>3. Tail(q) = << >> <=> Len(Tail(q)) = 0
  BY <1>1, EmptyLen
<1> QED  BY <1>1, <1>2, <1>3

(* The poll that is off, and the requests the client makes, are typed.     *)
LEMMA OffType ==
    ASSUME NEW e \in Nat
    PROVE  Off \in [pc : PollStates, epoch : 0..e, bytes : 0..MaxTraffic,
                    policy : Policies]
<1>1. (CHOOSE p \in Policies : TRUE) \in Policies  BY QuotaAssumption
<1>2. 0 \in 0..e /\ 0 \in 0..MaxTraffic  BY QuotaAssumption
<1> QED  BY <1>1, <1>2 DEF Off, PollStates

(* The requests the client makes have the type of a request.               *)
LEMMA RequestTypes ==
    /\ NoGuard \in Guards
    /\ NoLimit \in [rate : Nat, by : {0}]
    /\ \A e \in Nat : Empty(e) \in Requests
    /\ \A g \in Guards, x \in BOOLEAN, e \in Nat :
           Request(g, x, e, "guard") \in Requests
    /\ \A p \in Policies, x \in BOOLEAN, e \in Nat :
           Request(p, x, e, "policy") \in Requests
    /\ \A p \in Policies, b \in Nat : GuardOf(p, b) \in Guards
<1>1. Policies \subseteq [rate : Nat, quota : Nat, month : Nat, action : Actions]
  BY QuotaAssumption
<1> QED
  BY <1>1 DEF NoGuard, Guards, NoLimit, Empty, Requests, Request, GuardOf, Actions

-----------------------------------------------------------------------------
(* Every kind of step keeps the core.                                      *)

(* At most the limit is lifted.                                            *)
LEMMA LiftStep ==
    ASSUME CoreInv, shaper' \in {shaper, NoLimit},
           UNCHANGED <<epoch, guard, poll, queue, posted, calls, missed>>
    PROVE  CoreInv'
BY RequestTypes
   DEF CoreInv, CoreType, PollShape, QueueOrder, CallsOrder, Accounted,
       PollAwaits, NoLimit, AwaitOf

(* The poll moves on without a request.                                    *)
LEMMA PollStep ==
    ASSUME CoreInv, guard' \in Guards, poll.pc \notin {"guard", "apply"},
           poll'.pc \notin {"guard", "apply"},
           poll' \in [pc : PollStates, epoch : 0..epoch, bytes : 0..MaxTraffic,
                      policy : Policies],
           UNCHANGED <<epoch, queue, posted, calls, missed, shaper>>
    PROVE  CoreInv'
BY DEF CoreInv, CoreType, PollShape, QueueOrder, CallsOrder, Accounted,
       PollAwaits, AwaitOf

(* The poll makes a request, of the current epoch, and awaits it.          *)
LEMMA RequestStep ==
    ASSUME CoreInv, NEW req \in Requests, queue' = Append(queue, req),
           req.epoch = epoch, req.from # "reset",
           poll.pc \notin {"guard", "apply"}, poll'.pc = AwaitOf(req),
           poll' \in [pc : PollStates, epoch : 0..epoch, bytes : 0..MaxTraffic,
                      policy : Policies],
           UNCHANGED <<epoch, guard, posted, calls, missed, shaper>>
    PROVE  CoreInv'
<1>1. /\ queue' \in Seq(Requests) /\ queue' # << >>
      /\ Len(queue) \in Nat /\ Len(queue') = Len(queue) + 1
      /\ \A i \in 1..Len(queue) : queue'[i] = queue[i]
      /\ queue'[Len(queue) + 1] = req
  BY Appended DEF CoreInv, CoreType
<1>2. CoreType' /\ PollShape' /\ Accounted'
  BY <1>1 DEF CoreInv, CoreType, PollShape, Accounted
<1>3. QueueOrder'
  BY <1>1 DEF CoreInv, CoreType, QueueOrder
<1>4. queue # << >> => queue'[1] = queue[1]
  BY <1>1 DEF CoreInv, CoreType
<1>5. CallsOrder'
  BY <1>1, <1>4 DEF CoreInv, CallsOrder
<1>6. \A i \in 1..Len(queue) : queue[i].from = "reset"
  <2>1. poll.pc \notin {"guard", "apply"}  OBVIOUS
  <2> QED  BY <2>1 DEF CoreInv, PollAwaits, AwaitOf
<1>7. \A i \in 1..Len(queue') : queue'[i].from # "reset" => i = Len(queue')
  BY <1>1, <1>6
<1>8. PollAwaits'
  BY <1>1, <1>7 DEF PollAwaits, AwaitOf
<1> QED  BY <1>2, <1>3, <1>5, <1>8 DEF CoreInv

(* resetTelemetryPolicyState.                                              *)
LEMMA ResetStep ==
    ASSUME CoreInv, Reset, UNCHANGED <<poll, posted, calls, shaper>>
    PROVE  CoreInv'
<1>1. epoch \in Nat /\ epoch' = epoch + 1 /\ Empty(epoch') \in Requests
  BY RequestTypes DEF CoreInv, CoreType, Reset
<1>2. /\ queue' \in Seq(Requests) /\ queue' # << >>
      /\ Len(queue) \in Nat /\ Len(queue') = Len(queue) + 1
      /\ \A i \in 1..Len(queue) : queue'[i] = queue[i]
      /\ queue'[Len(queue) + 1] = Empty(epoch')
  BY <1>1, Appended DEF CoreInv, CoreType, Reset
<1>3. CoreType'
  <2>1. missed' \in BOOLEAN  BY DEF Reset
  <2>2. guard' \in Guards  BY RequestTypes DEF Reset
  <2>3. shaper' \in [rate : Nat, by : 0..epoch']
    BY <1>1 DEF CoreInv, CoreType
  <2> QED  BY <1>1, <1>2, <2>1, <2>2, <2>3 DEF CoreInv, CoreType
<1>4. PollShape' /\ Accounted'
  BY <1>1, <1>2 DEF CoreInv, PollShape, Accounted
<1>5. QueueOrder'
  BY <1>1, <1>2 DEF CoreInv, QueueOrder, Empty
<1>6. queue # << >> => queue'[1] = queue[1]
  BY <1>2 DEF CoreInv, CoreType
<1>7. CallsOrder'
  BY <1>1, <1>2, <1>6 DEF CoreInv, CallsOrder, Reset
<1>8. PollAwaits'
  BY <1>2 DEF CoreInv, PollAwaits, AwaitOf, Empty
<1> QED  BY <1>3, <1>4, <1>5, <1>7, <1>8 DEF CoreInv

(* The first request is over: the poll that awaits it, and no other, goes  *)
(* on.  The rest of the queue keeps its order.                             *)
LEMMA Resolved ==
    ASSUME CoreInv, queue # << >>, NEW answered \in BOOLEAN, Resolve(answered),
           epoch' = epoch
    PROVE  /\ queue' \in Seq(Requests) /\ queue' = Tail(queue)
           /\ posted' = FALSE /\ guard' \in Guards
           /\ PollShape' /\ QueueOrder' /\ PollAwaits'
<1>1. /\ queue' \in Seq(Requests) /\ queue' = Tail(queue)
      /\ Head(queue) = queue[1] /\ queue[1] \in Requests
      /\ Len(queue) \in Nat \ {0} /\ Len(queue') = Len(queue) - 1
      /\ \A i \in 1..Len(queue') : queue'[i] = queue[i + 1]
      /\ queue' = << >> <=> Len(queue) = 1
  BY Shortened DEF CoreInv, CoreType, Resolve
<1>2. QueueOrder'
  BY <1>1 DEF CoreInv, QueueOrder
<1>3. posted' = FALSE  BY DEF Resolve
<1> DEFINE Polls == [pc : PollStates, epoch : 0..epoch, bytes : 0..MaxTraffic,
                     policy : Policies]
<1>a. /\ queue[1].from \in {"reset", "guard", "policy"}
      /\ poll \in Polls /\ epoch \in Nat
  BY <1>1 DEF CoreInv, CoreType, PollShape, Requests
<1>b. \A s \in PollStates :
          [poll EXCEPT !.pc = s] \in Polls /\ [poll EXCEPT !.pc = s].pc = s
  BY <1>a
<1>4. poll.policy \in Policies /\ poll.bytes \in Nat
  BY <1>a, QuotaAssumption
<1>5. CASE queue[1].from = "reset"
  <2>1. UNCHANGED <<poll, guard>>  BY <1>1, <1>5 DEF Resolve
  <2>2. PollAwaits'
    <3>1. \A i \in 1..Len(queue') :
              i + 1 \in 1..Len(queue) /\ queue'[i] = queue[i + 1]
      BY <1>1
    <3>2. \A i \in 1..Len(queue) : queue[i].from # "reset" =>
              i - 1 \in 1..Len(queue') /\ queue'[i - 1] = queue[i]
      <4> SUFFICES ASSUME NEW i \in 1..Len(queue), queue[i].from # "reset"
                   PROVE  i - 1 \in 1..Len(queue') /\ queue'[i - 1] = queue[i]
        OBVIOUS
      <4>1. i # 1  BY <1>5
      <4>2. i - 1 \in 1..Len(queue') /\ (i - 1) + 1 = i  BY <1>1, <4>1
      <4> QED  BY <1>1, <4>2
    <3>3. \A i \in 1..Len(queue') :
              queue'[i].from # "reset" => poll'.pc = AwaitOf(queue'[i])
      BY <2>1, <3>1 DEF CoreInv, PollAwaits, AwaitOf
    <3>4. \A i, j \in 1..Len(queue') :
              queue'[i].from # "reset" /\ queue'[j].from # "reset" => i = j
      <4> SUFFICES ASSUME NEW i \in 1..Len(queue'), NEW j \in 1..Len(queue'),
                          queue'[i].from # "reset", queue'[j].from # "reset"
                   PROVE  i = j
        OBVIOUS
      <4>1. i + 1 = j + 1  BY <3>1 DEF CoreInv, PollAwaits
      <4> QED  BY <4>1, <1>1
    <3>5. poll'.pc \in {"guard", "apply"} =>
              \E i \in 1..Len(queue') : queue'[i].from # "reset"
      BY <2>1, <3>2 DEF CoreInv, PollAwaits
    <3> QED  BY <3>3, <3>4, <3>5 DEF PollAwaits, AwaitOf
  <2> QED
    BY <1>1, <1>2, <1>3, <2>1, <2>2 DEF CoreInv, CoreType, PollShape
<1>6. CASE queue[1].from # "reset"
  <2>1. \A i \in 1..Len(queue') : queue'[i].from = "reset"
    BY <1>1, <1>6 DEF CoreInv, PollAwaits
  <2>2. PollShape' /\ poll'.pc \notin {"guard", "apply"} /\ guard' \in Guards
    <3>1. CASE queue[1].from = "guard"
      <4>1. PICK s \in {"state", "fetch"} : poll' = [poll EXCEPT !.pc = s]
        BY <1>1, <3>1 DEF Resolve, Await
      <4>2. poll' \in Polls /\ poll'.pc = s  BY <1>b, <4>1 DEF PollStates
      <4>3. guard' = guard  BY <1>1, <3>1 DEF Resolve
      <4> QED  BY <4>2, <4>3 DEF PollShape, CoreInv, CoreType
    <3>2. CASE queue[1].from = "policy" /\ answered
      <4>1. /\ poll' = [poll EXCEPT !.pc = "state"]
            /\ guard' = GuardOf(poll.policy, poll.bytes)
        BY <1>1, <3>2 DEF Resolve, Await
      <4>2. guard' \in Guards  BY <4>1, <1>4, RequestTypes
      <4>3. poll' \in Polls /\ poll'.pc = "state"
        BY <1>b, <4>1 DEF PollStates
      <4> QED  BY <4>2, <4>3 DEF PollShape
    <3>3. CASE queue[1].from = "policy" /\ ~answered
      <4>1. poll' = Off /\ guard' = guard  BY <1>1, <3>3 DEF Resolve
      <4> QED
        BY <4>1, <1>a, OffType DEF PollShape, Off, CoreInv, CoreType
    <3> QED  BY <1>a, <1>6, <3>1, <3>2, <3>3
  <2>3. PollAwaits'
    BY <2>1, <2>2 DEF PollAwaits
  <2> QED  BY <1>1, <1>2, <1>3, <2>2, <2>3
<1> QED  BY <1>5, <1>6

(* The queue's turn, with nothing new in force: the first request is       *)
(* skipped, given up or fails, and what it leaves behind is still noted.   *)
LEMMA OverStep ==
    ASSUME CoreInv, queue # << >>, NEW answered \in BOOLEAN, Resolve(answered),
           shaper' \in [rate : Nat, by : 0..epoch], epoch' = epoch,
           missed' \in BOOLEAN, missed => missed', calls' \subseteq Calls,
           \A c \in calls' : c.late /\ c.req.epoch \in 0..epoch /\ missed',
           \/ shaper'.rate = 0 \/ shaper'.by = epoch
           \/ missed' \/ queue[1].epoch # epoch
    PROVE  CoreInv'
<1>1. /\ queue' \in Seq(Requests) /\ queue' = Tail(queue)
      /\ posted' = FALSE /\ guard' \in Guards
      /\ PollShape' /\ QueueOrder' /\ PollAwaits'
  BY Resolved
<1>2. Len(queue) = 1 \/ queue' # << >>
  BY <1>1, Shortened DEF CoreInv, CoreType
<1>3. queue[1].epoch # epoch => queue' # << >>
  BY <1>2 DEF CoreInv, QueueOrder
<1>4. CoreType'  BY <1>1 DEF CoreInv, CoreType
<1>5. CallsOrder'  BY <1>1 DEF CallsOrder
<1>6. Accounted'  BY <1>3 DEF Accounted
<1> QED  BY <1>1, <1>4, <1>5, <1>6 DEF CoreInv

(* What is known of a request that the daemon handles.                     *)
LEMMA CallFacts ==
    ASSUME CoreInv, NEW c \in calls
    PROVE  /\ c \in Calls /\ c.req \in Requests /\ c.late \in BOOLEAN
           /\ c.req.epoch \in 0..epoch /\ (c.late => missed)
           /\ ~c.late => /\ queue # << >> /\ c.req = queue[1]
                         /\ \A d \in calls \ {c} : d.late
BY DEF CoreInv, CoreType, CallsOrder, Calls

(* The daemon is through with a request; the client may have given it up.  *)
LEMMA FinishStep ==
    ASSUME CoreInv, NEW c \in calls, Finish(c), epoch' = epoch,
           shaper' \in [rate : Nat, by : 0..epoch],
           missed' \in BOOLEAN, missed => missed',
           \/ shaper'.rate = 0 \/ shaper'.by = c.req.epoch
           \/ UNCHANGED shaper /\ (c.req.epoch = epoch => missed')
    PROVE  CoreInv'
<1>1. /\ c \in Calls /\ c.req \in Requests /\ c.late \in BOOLEAN
      /\ c.req.epoch \in 0..epoch /\ (c.late => missed)
      /\ ~c.late => /\ queue # << >> /\ c.req = queue[1]
                    /\ \A d \in calls \ {c} : d.late
  BY CallFacts
<1>2. calls' = calls \ {c} /\ calls' \subseteq Calls
  BY DEF Finish, CoreInv, CoreType
<1>3. CASE c.late
  <2>1. missed' /\ UNCHANGED <<queue, posted, poll, guard>>
    BY <1>1, <1>3 DEF Finish
  <2> QED
    BY <1>2, <2>1 DEF CoreInv, CoreType, PollShape, QueueOrder, CallsOrder,
                      Accounted, PollAwaits, AwaitOf
<1>4. CASE ~c.late
  <2>1. Resolve(TRUE) /\ queue # << >> /\ c.req = queue[1]
    BY <1>1, <1>4 DEF Finish
  <2>2. \A d \in calls' : d.late /\ d.req.epoch \in 0..epoch /\ missed'
    BY <1>1, <1>2, <1>4 DEF CoreInv, CallsOrder
  <2>3. \/ shaper'.rate = 0 \/ shaper'.by = epoch
        \/ missed' \/ queue[1].epoch # epoch
    BY <2>1
  <2> QED  BY <1>2, <2>1, <2>2, <2>3, OverStep
<1> QED  BY <1>3, <1>4

-----------------------------------------------------------------------------
(* The actions, one by one.                                                *)

(* The poll's own steps.                                                   *)
LEMMA PollCore ==
    ASSUME IInv, Poll
    PROVE  CoreInv'
<1> DEFINE Polls == [pc : PollStates, epoch : 0..epoch, bytes : 0..MaxTraffic,
                     policy : Policies]
<1>1. /\ CoreInv /\ epoch \in Nat /\ guard \in Guards /\ poll \in Polls
      /\ traffic \in 0..MaxTraffic /\ server \in Policies
  BY DEF IInv, CoreInv, CoreType, PollShape, RestInv, Counts
<1>2. NoGuard \in Guards /\ Off \in Polls /\ Off.pc = "off"
  <2>1. Off \in Polls  BY <1>1, OffType
  <2> QED  BY <2>1, RequestTypes DEF Off
<1>3. CASE PollStart
  <2>1. poll' = [Off EXCEPT !.pc = "status", !.epoch = epoch]
    BY <1>3 DEF PollStart
  <2>2. poll' \in Polls /\ poll'.pc = "status"
    <3>1. epoch \in 0..epoch  BY <1>1
    <3> QED  BY <1>2, <2>1, <3>1 DEF PollStates
  <2> QED  BY <1>1, <1>3, <2>2, PollStep DEF PollStart, daemon, bounds
<1>4. CASE GotStatus
  <2>1. \/ poll' = [poll EXCEPT !.pc = "report", !.bytes = traffic] /\ guard' = guard
        \/ poll' = Off /\ guard' = NoGuard
    BY <1>4 DEF GotStatus
  <2>2. poll' \in Polls /\ poll'.pc \in {"report", "off"} /\ guard' \in Guards
    BY <1>1, <1>2, <2>1 DEF PollStates
  <2> QED  BY <1>1, <1>4, <2>2, PollStep DEF GotStatus, daemon, bounds
<1>5. CASE Reported
  <2>0. \A s \in PollStates :
            [poll EXCEPT !.pc = s] \in Polls /\ [poll EXCEPT !.pc = s].pc = s
    BY <1>1
  <2>1. CASE UNCHANGED queue
    <3>1. poll' = Off \/ poll' = [poll EXCEPT !.pc = "fetch"]
      <4>1. queue # Append(queue, Request(guard, TRUE, epoch, "guard"))
        <5> DEFINE req == Request(guard, TRUE, epoch, "guard")
        <5>1. req \in Requests  BY <1>1, RequestTypes
        <5> HIDE DEF req
        <5>2. Len(Append(queue, req)) # Len(queue)
          BY <1>1, <5>1, Appended DEF CoreInv, CoreType
        <5> QED  BY <5>2 DEF req
      <4> QED  BY <1>5, <2>1, <4>1 DEF Reported, Await
    <3>2. poll' \in Polls /\ poll'.pc \in {"off", "fetch"}
      BY <1>2, <2>0, <3>1 DEF PollStates
    <3> QED  BY <1>1, <1>5, <2>1, <3>2, PollStep DEF Reported, daemon, bounds
  <2>2. CASE ~UNCHANGED queue
    <3> DEFINE req == Request(guard, TRUE, epoch, "guard")
    <3>1. /\ queue' = Append(queue, req)
          /\ poll' = [poll EXCEPT !.pc = "guard"]
      BY <1>5, <2>2 DEF Reported, Await
    <3>2. req \in Requests /\ req.epoch = epoch /\ req.from = "guard"
      <4>1. req \in Requests  BY <1>1, RequestTypes
      <4> QED  BY <4>1 DEF Request
    <3> HIDE DEF req
    <3>3. poll' \in Polls /\ poll'.pc = AwaitOf(req)
      BY <2>0, <3>1, <3>2 DEF PollStates, AwaitOf
    <3> QED
      BY <1>1, <1>5, <3>1, <3>2, <3>3, RequestStep DEF Reported, daemon, bounds
  <2> QED  BY <2>1, <2>2
<1>6. CASE Fetched
  <2>1. CASE poll.epoch # epoch
    <3>1. poll' = Off /\ UNCHANGED queue  BY <1>6, <2>1 DEF Fetched
    <3> QED  BY <1>1, <1>2, <1>6, <3>1, PollStep DEF Fetched, daemon, bounds
  <2>2. CASE poll.epoch = epoch
    <3> DEFINE x == Exceeded(server.quota, server.month)
               req == Request(server, x, epoch, "policy")
    <3>1. /\ queue' = Append(queue, req)
          /\ poll' = [poll EXCEPT !.pc = "apply", !.policy = server]
      BY <1>6, <2>2 DEF Fetched
    <3>2. x \in BOOLEAN  BY DEF Exceeded
    <3> HIDE DEF x
    <3>3. req \in Requests /\ req.epoch = epoch /\ req.from = "policy"
      <4>1. req \in Requests  BY <1>1, <3>2, RequestTypes
      <4> QED  BY <4>1 DEF Request
    <3> HIDE DEF req
    <3>4. poll' \in Polls /\ poll'.pc = AwaitOf(req)
      BY <1>1, <3>1, <3>3 DEF PollStates, AwaitOf
    <3> QED
      BY <1>1, <1>6, <3>1, <3>3, <3>4, RequestStep DEF Fetched, daemon, bounds
  <2> QED  BY <2>1, <2>2
<1>7. CASE StatusFails \/ FetchFails \/ PollEnd
  BY <1>1, <1>2, <1>7, PollStep DEF StatusFails, FetchFails, PollEnd, daemon, bounds
<1> QED  BY <1>3, <1>4, <1>5, <1>6, <1>7 DEF Poll

(* The queue's steps.                                                      *)
LEMMA QueueCore ==
    ASSUME IInv, Skip \/ Send \/ \E c \in calls : TimeOut(c)
    PROVE  CoreInv'
<1>1. CoreInv /\ CoreType /\ CallsOrder  BY DEF IInv, CoreInv
<1>2. CASE Skip
  <2>1. \A c \in calls : c.late /\ c.req.epoch \in 0..epoch /\ missed
    BY <1>1, <1>2 DEF CallsOrder, Skip, CoreType, Calls
  <2>2. queue[1].epoch # epoch
    BY <1>1, <1>2 DEF Skip, CoreType
  <2>3. UNCHANGED <<epoch, shaper, missed, calls>> /\ Resolve(FALSE) /\ queue # << >>
    BY <1>2 DEF Skip, daemon
  <2> QED  BY <1>1, <2>1, <2>2, <2>3, OverStep DEF CoreType
<1>3. CASE Send
  <2>1. Head(queue) = queue[1] /\ queue[1] \in Requests /\ queue[1].epoch = epoch
    BY <1>1, <1>3, Shortened DEF Send, CoreType
  <2> DEFINE n == [req |-> queue[1], at |-> "received", late |-> FALSE]
  <2>2. n \in Calls /\ n.req = queue[1] /\ n.late = FALSE
    BY <2>1 DEF Calls
  <2>3. \A c \in calls : c.late  BY <1>1, <1>3 DEF CallsOrder, Send, CoreType, Calls
  <2>4. calls' = calls \union {n} /\ posted' = TRUE /\ queue # << >>
    BY <1>3, <2>1 DEF Send
  <2> HIDE DEF n
  <2>5. UNCHANGED <<epoch, guard, poll, queue, shaper, missed>>
    BY <1>3 DEF Send
  <2>6. CallsOrder'
    BY <1>1, <2>1, <2>2, <2>3, <2>4, <2>5 DEF CallsOrder, CoreType
  <2>7. CoreType'  BY <1>1, <2>2, <2>4, <2>5 DEF CoreType
  <2> QED
    BY <1>1, <2>5, <2>6, <2>7
       DEF CoreInv, PollShape, QueueOrder, Accounted, PollAwaits, AwaitOf
<1>4. CASE \E c \in calls : TimeOut(c)
  <2>1. PICK c \in calls : TimeOut(c)  BY <1>4
  <2>2. /\ c \in Calls /\ c.req.epoch \in 0..epoch
        /\ ~c.late /\ queue # << >> /\ \A d \in calls \ {c} : d.late
    BY <1>1, <2>1, CallFacts DEF TimeOut
  <2> DEFINE n == [c EXCEPT !.late = TRUE]
  <2>3. n \in Calls /\ n.late = TRUE /\ n.req = c.req
    BY <2>2 DEF Calls
  <2>4. /\ calls' = (calls \ {c}) \union {n} /\ missed' = TRUE
        /\ Resolve(TRUE) /\ UNCHANGED <<epoch, shaper>>
    BY <2>1 DEF TimeOut
  <2> HIDE DEF n
  <2>5. /\ calls' \subseteq Calls
        /\ \A d \in calls' : d.late /\ d.req.epoch \in 0..epoch /\ missed'
    BY <1>1, <2>2, <2>3, <2>4 DEF CoreType, CallsOrder
  <2> QED  BY <1>1, <2>2, <2>4, <2>5, OverStep DEF CoreType
<1> QED  BY <1>2, <1>3, <1>4

(* The daemon's steps.                                                     *)
LEMMA DaemonCore ==
    ASSUME IInv, Handle \/ \E c \in calls : CallFails(c)
    PROVE  CoreInv'
<1>1. CoreInv /\ CoreType /\ CallsOrder  BY DEF IInv, CoreInv
<1>2. PICK c \in calls : SetShaper(c) \/ Block(c) \/ Blocked(c) \/ CallFails(c)
  BY DEF Handle
<1>3. c \in Calls /\ c.req \in Requests /\ c.req.epoch \in 0..epoch
  BY <1>1, CallFacts
<1>4. NoLimit \in [rate : Nat, by : 0..epoch] /\ NoLimit.rate = 0
  BY <1>1 DEF NoLimit, CoreType
<1>5. CASE SetShaper(c)
  <2>1. /\ shaper'.by = c.req.epoch /\ shaper'.rate \in Nat
        /\ shaper' \in [rate : Nat, by : 0..epoch]
    BY <1>3, <1>5, QuotaAssumption DEF SetShaper, Throttled, Requests
  <2>2. Finish(c) /\ UNCHANGED <<epoch, missed>>  BY <1>5 DEF SetShaper
  <2> QED  BY <1>1, <2>1, <2>2, FinishStep DEF CoreType
<1>6. CASE Block(c)
  <2> DEFINE n == [c EXCEPT !.at = "clearing"]
  <2>1. n \in Calls /\ n.late = c.late /\ n.req = c.req
    BY <1>3 DEF Calls
  <2>2. /\ calls' = (calls \ {c}) \union {n}
        /\ UNCHANGED <<epoch, guard, poll, queue, posted, missed>>
        /\ shaper' = shaper \/ shaper' = NoLimit
    BY <1>6 DEF Block, StopNetwork, client
  <2> HIDE DEF n
  <2>3. CoreType'  BY <1>1, <1>4, <2>1, <2>2 DEF CoreType
  <2>4. CallsOrder'  BY <1>1, <2>1, <2>2 DEF CallsOrder
  <2>5. Accounted'  BY <1>1, <1>4, <2>2 DEF CoreInv, Accounted
  <2> QED
    BY <1>1, <2>2, <2>3, <2>4, <2>5
       DEF CoreInv, PollShape, QueueOrder, PollAwaits, AwaitOf
<1>7. CASE Blocked(c)
  <2>1. shaper' = NoLimit /\ Finish(c) /\ UNCHANGED <<epoch, missed>>
    BY <1>7 DEF Blocked
  <2> QED  BY <1>1, <1>4, <2>1, FinishStep DEF CoreType
<1>8. CASE CallFails(c)
  <2>1. /\ missed' = (missed \/ c.req.epoch = epoch)
        /\ Finish(c) /\ UNCHANGED <<epoch, shaper>>
    BY <1>8 DEF CallFails
  <2>2. missed' \in BOOLEAN /\ (missed => missed')
        /\ (c.req.epoch = epoch => missed')
    BY <2>1
  <2> QED  BY <1>1, <2>1, <2>2, FinishStep DEF CoreType
<1> QED  BY <1>2, <1>5, <1>6, <1>7, <1>8

(* The command line, the account operations and the server.                *)
LEMMA OtherCore ==
    ASSUME IInv,
           \/ Carry \/ Down \/ Up \/ Connect \/ Logout \/ Suspend \/ Withdraw
           \/ AccountStep \/ NewPolicy
    PROVE  CoreInv'
<1>1. CoreInv  BY DEF IInv
<1>2. CASE Carry \/ Up \/ Withdraw \/ Connected \/ ResumeFails \/ NewPolicy
  <2>1. UNCHANGED core
    BY <1>2 DEF Carry, Up, Withdraw, Connected, ResumeFails, NewPolicy,
                client, daemon, core
  <2> QED  BY <1>1, <2>1, LiftStep DEF core
<1>3. CASE Down \/ Logout \/ Suspend
  <2>1. /\ shaper' \in {shaper, NoLimit}
        /\ UNCHANGED <<epoch, guard, poll, queue, posted, calls, missed>>
    BY <1>3 DEF Down, Logout, Suspend, StopNetwork, client
  <2> QED  BY <1>1, <2>1, LiftStep
<1>4. CASE Connect \/ LoggedOut \/ Suspended \/ Resumed
  <2>1. Reset /\ UNCHANGED <<poll, posted, calls, shaper>>
    BY <1>4 DEF Connect, LoggedOut, Suspended, Resumed, daemon
  <2> QED  BY <1>1, <2>1, ResetStep
<1> QED  BY <1>2, <1>3, <1>4 DEF AccountStep

(* The rest of the state: every flag is set or left alone, ...             *)
LEMMA FlagsStep ==
    ASSUME IInv, [Next]_vars
    PROVE  Flags'
<1> USE DEF client, daemon, update
<1>1. /\ timerOn' = timerOn \/ timerOn' \in BOOLEAN
      /\ want' = want \/ want' \in BOOLEAN
      /\ loggedIn' = loggedIn \/ loggedIn' \in BOOLEAN
  BY DEF Next, vars, Poll, PollStart, GotStatus, StatusFails, Reported, Fetched, FetchFails,
         PollEnd, Skip, Send, Handle, SetShaper, Block, Blocked, TimeOut,
         CallFails, Carry, Down, Up, Connect, Logout, Suspend, Withdraw,
         AccountStep, Connected, LoggedOut, Suspended, Resumed, ResumeFails,
         NewPolicy, StopNetwork, StartNetwork
<1>2. /\ forced' = forced \/ forced' \in BOOLEAN
      /\ intent' = intent \/ intent' \in BOOLEAN
  BY DEF Next, vars, Poll, PollStart, GotStatus, StatusFails, Reported, Fetched, FetchFails,
         PollEnd, Skip, Send, Handle, SetShaper, Block, Blocked, TimeOut,
         CallFails, Carry, Down, Up, Connect, Logout, Suspend, Withdraw,
         AccountStep, Connected, LoggedOut, Suspended, Resumed, ResumeFails,
         NewPolicy
<1> QED  BY <1>1, <1>2 DEF IInv, RestInv, Flags

(* ... and every counter stays within its bound.                           *)
LEMMA CountsStep ==
    ASSUME IInv, [Next]_vars
    PROVE  Counts'
<1> USE DEF client, daemon, bounds
<1>0. Counts  BY DEF IInv, RestInv
<1>1. CASE Poll \/ Skip \/ Send \/ Handle \/ UNCHANGED vars
  <2>1. UNCHANGED <<epoch, op, traffic, server, changes, faults, toggles>>
    BY <1>1 DEF Poll, PollStart, GotStatus, StatusFails, Reported, Fetched, FetchFails,
                PollEnd, Skip, Send, Handle, SetShaper, Block, Blocked, vars
  <2> QED  BY <1>0, <2>1 DEF Counts, RoomLeft
<1>2. CASE \E c \in calls : TimeOut(c) \/ CallFails(c)
  <2>1. /\ UNCHANGED <<epoch, op, traffic, server, changes, toggles>>
        /\ faults < MaxFaults /\ faults' = faults + 1
    BY <1>2 DEF TimeOut, CallFails
  <2> QED  BY <1>0, <2>1, QuotaAssumption DEF Counts, RoomLeft
<1>3. CASE Carry
  <2>1. /\ UNCHANGED <<epoch, op, server, changes, faults, toggles>>
        /\ traffic < MaxTraffic /\ traffic' = traffic + 1
    BY <1>3 DEF Carry
  <2> QED  BY <1>0, <2>1, QuotaAssumption DEF Counts, RoomLeft
<1>4. CASE Down \/ Up
  <2>1. /\ UNCHANGED <<epoch, op, server, changes, faults>>
        /\ toggles < MaxToggles /\ toggles' = toggles + 1
        /\ traffic' = traffic \/ traffic' = 0
    BY <1>4 DEF Down, Up, StartNetwork
  <2> QED  BY <1>0, <2>1, QuotaAssumption DEF Counts, RoomLeft
<1>5. CASE NewPolicy
  <2>1. /\ UNCHANGED <<epoch, op, traffic, faults, toggles>>
        /\ changes < MaxChanges /\ changes' = changes + 1 /\ server' \in Policies
    BY <1>5 DEF NewPolicy
  <2> QED  BY <1>0, <2>1, QuotaAssumption DEF Counts, RoomLeft
<1>6. CASE Connect \/ LoggedOut \/ Suspended \/ Resumed
  <2>1. /\ UNCHANGED <<traffic, server, changes, faults, toggles>>
        /\ epoch < MaxResets /\ epoch' = epoch + 1
        /\ op' = "none" \/ op' = "connect"
    BY <1>0, <1>6
       DEF Connect, LoggedOut, Suspended, Resumed, Reset, Counts, RoomLeft
  <2> QED  BY <1>0, <2>1, QuotaAssumption DEF Counts, RoomLeft
<1>7. CASE Logout \/ Suspend \/ Withdraw \/ Connected \/ ResumeFails
  <2>1. /\ UNCHANGED <<epoch, server, changes, faults, toggles>>
        /\ \/ op' = "none" \/ op' = op
           \/ epoch < MaxResets /\ op' \in {"logout", "suspend", "resume"}
        /\ traffic' = traffic \/ traffic' = 0
    BY <1>7 DEF Logout, Suspend, Withdraw, Connected, ResumeFails, StartNetwork
  <2> QED  BY <1>0, <2>1, QuotaAssumption DEF Counts, RoomLeft
<1> QED
  BY <1>1, <1>2, <1>3, <1>4, <1>5, <1>6, <1>7 DEF Next, AccountStep

-----------------------------------------------------------------------------
(* The invariant holds at the start and is kept.                           *)

(* The client and the daemon as they start satisfy the invariant.          *)
LEMMA InitInv == Init => IInv
<1> SUFFICES ASSUME Init PROVE IInv
  OBVIOUS
<1>1. PollShape  BY OffType DEF Init, PollShape
<1>2. CoreType
  <2>1. shaper \in [rate : Nat, by : 0..epoch]  BY DEF Init, NoLimit
  <2>2. posted \in BOOLEAN /\ missed \in BOOLEAN  BY DEF Init
  <2>3. queue \in Seq(Requests) /\ guard \in Guards  BY RequestTypes DEF Init
  <2>4. epoch \in Nat /\ calls \subseteq Calls  BY DEF Init
  <2> QED  BY <2>1, <2>2, <2>3, <2>4 DEF CoreType
<1>3. QueueOrder /\ CallsOrder /\ Accounted
  BY DEF Init, QueueOrder, CallsOrder, Accounted, NoLimit
<1>4. PollAwaits  BY DEF Init, PollAwaits, Off
<1>5. Flags  BY DEF Init, Flags
<1>6. Counts  BY QuotaAssumption DEF Init, Counts, RoomLeft
<1> QED  BY <1>1, <1>2, <1>3, <1>4, <1>5, <1>6 DEF IInv, CoreInv, RestInv

(* Every step keeps the invariant.                                         *)
LEMMA Inductive == IInv /\ [Next]_vars => IInv'
<1> SUFFICES ASSUME IInv, [Next]_vars PROVE IInv'
  OBVIOUS
<1>1. RestInv'  BY FlagsStep, CountsStep DEF RestInv
<1>2. CASE UNCHANGED vars
  <2>1. UNCHANGED core  BY <1>2 DEF vars, client, daemon, core
  <2>2. CoreInv'  BY <2>1, LiftStep DEF core, IInv
  <2> QED  BY <1>1, <2>2 DEF IInv
<1>3. CASE Next
  <2>1. CoreInv'
    BY <1>3, PollCore, QueueCore, DaemonCore, OtherCore DEF Next
  <2> QED  BY <1>1, <2>1 DEF IInv
<1> QED  BY <1>2, <1>3

(* The invariant holds in every behaviour of the client and the daemon.    *)
LEMMA Invariance == Spec => []IInv
BY InitInv, Inductive, PTL DEF Spec

(* Every variable keeps its type, for any policies and bounds: in          *)
(* particular no request and no limit is of an epoch to come, and an       *)
(* operation under way never resets beyond the bound.                      *)
THEOREM TypeCorrect == Spec => []TypeOK
<1>1. IInv => TypeOK
  BY DEF IInv, CoreInv, CoreType, PollShape, PollStates, RestInv, Flags,
         Counts, Calls, TypeOK
<1> QED  BY <1>1, Invariance, PTL

(* LimitsAreCurrent: once the requests are through, the limits that        *)
(* serveTrafficShaper has put in force were asked for since the last       *)
(* resetTelemetryPolicyState, unless one failed or ran out of time.        *)
THEOREM NoLimitSurvives == Spec => []LimitsAreCurrent
<1>1. IInv => LimitsAreCurrent
  BY DEF IInv, CoreInv, Accounted, LimitsAreCurrent
<1> QED  BY <1>1, Invariance, PTL

(* PollAwaits: the promise chain of trafficShaperQueue and the locals of   *)
(* collectAndReport never come apart.  However often the policy is reset   *)
(* while the poll awaits, at most one of its requests is queued, and its   *)
(* answer finds collectAndReport at the await it is for.                   *)
THEOREM AnswersFindPoll == Spec => []PollAwaits
<1>1. IInv => PollAwaits  BY DEF IInv, CoreInv
<1> QED  BY <1>1, Invariance, PTL

-----------------------------------------------------------------------------
(* No await hangs.                                                         *)

(* A request that is posted is being handled and was not given up.         *)
PostedInv == posted => \E c \in calls : ~c.late

(* Each step keeps it so.                                                  *)
LEMMA PostedStep ==
    ASSUME IInv, PostedInv, [Next]_vars
    PROVE  PostedInv'
<1>0. CoreType  BY DEF IInv, CoreInv
<1>1. ASSUME UNCHANGED <<posted, calls>> PROVE PostedInv'
  BY <1>1 DEF PostedInv
<1>2. ASSUME NEW c \in calls, Finish(c) PROVE PostedInv'
  <2>1. CASE c.late
    <3>1. UNCHANGED posted /\ calls' = calls \ {c}
      BY <1>2, <2>1 DEF Finish
    <3> QED  BY <2>1, <3>1 DEF PostedInv
  <2>2. CASE ~c.late
    <3>1. posted' = FALSE  BY <1>2, <2>2 DEF Finish, Resolve
    <3> QED  BY <3>1 DEF PostedInv
  <2> QED  BY <2>1, <2>2
<1>3. CASE Handle
  <2>1. PICK c \in calls : SetShaper(c) \/ Block(c) \/ Blocked(c)
    BY <1>3 DEF Handle
  <2>2. CASE SetShaper(c) \/ Blocked(c)
    BY <1>2, <2>2 DEF SetShaper, Blocked
  <2>3. CASE Block(c)
    <3> DEFINE n == [c EXCEPT !.at = "clearing"]
    <3>1. c \in Calls  BY <1>0 DEF CoreType
    <3>2. n.late = c.late  BY <3>1 DEF Calls
    <3>3. UNCHANGED posted /\ calls' = (calls \ {c}) \union {n}
      BY <2>3 DEF Block, client
    <3> HIDE DEF n
    <3> QED  BY <3>2, <3>3 DEF PostedInv
  <2> QED  BY <2>1, <2>2, <2>3
<1>4. CASE Send
  <2> DEFINE n == [req |-> Head(queue), at |-> "received", late |-> FALSE]
  <2>1. n \in calls' /\ ~n.late  BY <1>4 DEF Send
  <2> QED  BY <2>1 DEF PostedInv
<1>5. CASE Skip \/ \E c \in calls : TimeOut(c)
  <2>1. posted' = FALSE  BY <1>5 DEF Skip, TimeOut, Resolve
  <2> QED  BY <2>1 DEF PostedInv
<1>6. CASE \E c \in calls : CallFails(c)
  BY <1>2, <1>6 DEF CallFails
<1>7. CASE \/ Poll \/ Carry \/ Down \/ Up
           \/ Connect \/ Logout \/ Suspend \/ Withdraw
           \/ AccountStep \/ NewPolicy \/ UNCHANGED vars
  <2>1. CASE Poll
    BY <1>1, <2>1 DEF Poll, PollStart, GotStatus, Reported, Fetched,
                      StatusFails, FetchFails, PollEnd, daemon
  <2>2. CASE Carry \/ Down \/ Up \/ NewPolicy \/ UNCHANGED vars
    BY <1>1, <2>2 DEF Carry, Down, Up, NewPolicy, vars, client, daemon
  <2>3. CASE Connect \/ Logout \/ Suspend \/ Withdraw \/ AccountStep
    BY <1>1, <2>3 DEF Connect, Logout, Suspend, Withdraw, AccountStep,
                      Connected, LoggedOut, Suspended, Resumed, ResumeFails,
                      daemon
  <2> QED  BY <1>7, <2>1, <2>2, <2>3
<1> QED  BY <1>3, <1>4, <1>5, <1>6, <1>7 DEF Next

(* NoAwaitHangs: through resets, time-outs and failed calls, the request   *)
(* that collectAndReport awaits stays in trafficShaperQueue, and the one   *)
(* that is posted is being handled; the safety core of GuardEnforced.      *)
THEOREM AwaitsEnd == Spec => []NoAwaitHangs
<1>1. Init => PostedInv  BY DEF Init, PostedInv
<1>2. IInv /\ PostedInv => NoAwaitHangs
  <2> SUFFICES ASSUME IInv, PostedInv PROVE NoAwaitHangs
    OBVIOUS
  <2>0. CoreType /\ PollAwaits /\ CallsOrder  BY DEF IInv, CoreInv
  <2>1. ASSUME poll.pc \in {"guard", "apply"}
        PROVE  \E i \in 1..Len(queue) :
                 queue[i].from = IF poll.pc = "guard" THEN "guard" ELSE "policy"
    <3>1. PICK i \in 1..Len(queue) : queue[i].from # "reset"
      BY <2>0, <2>1 DEF PollAwaits
    <3>2. poll.pc = AwaitOf(queue[i])  BY <2>0, <3>1 DEF PollAwaits
    <3>3. queue[i] \in Requests  BY <2>0, <3>1 DEF CoreType
    <3>4. queue[i].from \in {"guard", "policy"}  BY <3>1, <3>3 DEF Requests
    <3> QED  BY <3>1, <3>2, <3>4 DEF AwaitOf
  <2>2. ASSUME posted PROVE \E c \in calls : ~c.late /\ c.req = Head(queue)
    <3>1. PICK c \in calls : ~c.late  BY <2>2 DEF PostedInv
    <3>2. c.req = queue[1] /\ queue # << >>
      BY <2>0, <2>2, <3>1 DEF CallsOrder
    <3>3. Head(queue) = queue[1]  BY <2>0, <3>2, Shortened DEF CoreType
    <3> QED  BY <3>1, <3>2, <3>3
  <2> QED  BY <2>1, <2>2 DEF NoAwaitHangs
<1>3. IInv /\ PostedInv /\ [Next]_vars => PostedInv'
  BY PostedStep
<1> QED  BY <1>1, <1>2, <1>3, Invariance, PTL DEF Spec

=============================================================================
