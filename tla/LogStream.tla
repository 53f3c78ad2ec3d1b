------------------------------ MODULE LogStream ------------------------------
(***************************************************************************)
(* What the log pipeline promises, without files, wake-ups or timers:      *)
(* lines are queued in the order they were written and are taken from the  *)
(* queue in that order, one batch at a time.  A batch leaves when the log  *)
(* server has it, when the logger is told to stop, or with the process.    *)
(* Unread lines are lost in three ways only: the oldest, when the queue is *)
(* too long; those at risk after a restart, which later lines replace; and *)
(* the oldest together with a raw line that went astray.  After one that   *)
(* did, a restart may have the newer part of the queue before the older.   *)
(***************************************************************************)
EXTENDS Naturals, Sequences, SequencesExt

CONSTANTS MaxLines,  \* bound on the lines that are written: 1, 2, ...
          RawLines,  \* those of them that may go astray
          MinKept    \* an overflow keeps at least so many of the newest lines

VARIABLES
    written,   \* the number of lines written so far
    queue,     \* the lines that nobody has read
    risk,      \* so many lines at the end of queue will be replaced
    mixed,     \* whether a restart may mistake the order of the queue
    batch,     \* the lines taken for the next upload
    received,  \* the lines the log server has
    stopping   \* whether the logger has been told to stop

vars == <<written, queue, risk, mixed, batch, received, stopping>>

Init ==
    /\ written = 0 /\ queue = << >> /\ risk = 0 /\ mixed = FALSE
    /\ batch = << >> /\ received = {} /\ stopping = FALSE

(* A new line goes to the end, or over the first line that is at risk.     *)
Put ==
    /\ written < MaxLines
    /\ written' = written + 1
    /\ IF risk = 0
         THEN queue' = Append(queue, written') /\ UNCHANGED risk
         ELSE /\ queue' = [queue EXCEPT ![Len(queue) - risk + 1] = written']
              /\ risk' = risk - 1
    /\ mixed' = FALSE
    /\ UNCHANGED <<batch, received, stopping>>

(* A raw line goes astray: it is lost, and the next to be read may be.     *)
Stray ==
    /\ written < MaxLines
    /\ written' = written + 1 /\ written' \in RawLines
    /\ \/ UNCHANGED queue
       \/ Len(queue) > risk /\ queue' = Tail(queue)
    /\ mixed' \in BOOLEAN
    /\ UNCHANGED <<risk, batch, received, stopping>>

(* The oldest lines are dropped, which also ends the risk.                 *)
Drop ==
    /\ \E n \in 0..Len(queue) :
          /\ Len(queue) - n >= MinKept
          /\ queue' = SubSeq(queue, n + 1, Len(queue))
    /\ risk' = 0 /\ mixed' = FALSE
    /\ UNCHANGED <<written, batch, received, stopping>>

Take ==
    /\ queue # << >>
    /\ batch' = Append(batch, Head(queue))
    /\ queue' = Tail(queue)
    /\ risk' \in {risk, 0} /\ mixed' \in {mixed, FALSE}
    /\ UNCHANGED <<written, received, stopping>>

(* The server has the batch; the client may not have learnt it.            *)
Deliver ==
    /\ received' = received \union ToSet(batch)
    /\ batch' \in {batch, << >>}
    /\ UNCHANGED <<written, queue, risk, mixed, stopping>>

Stop ==
    /\ stopping' = TRUE
    /\ UNCHANGED <<written, queue, risk, mixed, batch, received>>

GiveUp ==
    /\ stopping
    /\ batch' = << >>
    /\ UNCHANGED <<written, queue, risk, mixed, received, stopping>>

(* The batch is gone with the process.  Lines that had been read may be    *)
(* unread again, in front of the others; those stay as they were, or those *)
(* of the first part are the last.                                         *)
Halves ==
    \E i \in 0..Len(queue) :
        /\ IsPrefix(SubSeq(queue, i + 1, Len(queue)), queue')
        /\ IsSuffix(SubSeq(queue, 1, i), queue')

Restart ==
    /\ IsSuffix(queue, queue') \/ (mixed /\ Halves)
    /\ IsInjective(queue')
    /\ ToSet(queue') \subseteq 1..written
    /\ risk' \in 0..Len(queue') /\ mixed' = FALSE
    /\ batch' = << >> /\ stopping' = FALSE
    /\ UNCHANGED <<written, received>>

Next ==
    Put \/ Stray \/ Drop \/ Take \/ Deliver \/ Stop \/ GiveUp \/ Restart

Spec == Init /\ [][Next]_vars

=============================================================================
