------------------------------- MODULE LogTail -------------------------------
(***************************************************************************)
(* The log pipeline of the daemon: logtail/logtail.go over the buffer of   *)
(* logtail/filch/filch.go.  Writers append lines to the newer of two files *)
(* and wake the uploader, at once or by a timer; the uploader reads the    *)
(* older file, rotates the two when it has read it all, and uploads what   *)
(* it read until the log server takes it or the logger is shut down.  Raw  *)
(* lines reach the newer file through stderr, without f.mu and without a   *)
(* wake-up; one that was under way when the files were rotated still goes  *)
(* to the file that was the newer.  The process may end at any step and is *)
(* started again on the files it left.                                     *)
(*                                                                         *)
(* Every line has the same length, so sizes and offsets count lines.  A    *)
(* disabled logger drops what is written to it, which is not to write.     *)
(***************************************************************************)
EXTENDS Naturals, Sequences, SequencesExt

CONSTANTS
    MaxFileSize,   \* f.maxFileSize, the soft limit of one file
    MaxBatch,      \* lines of one upload (maxUploadSize)
    MaxLines,      \* bound on the lines that are written: 1, 2, ...
    RawLines,      \* those of them that may come through stderr
    UpAtStart,     \* whether the machine starts with a network
    MaxRestarts,   \* bound on the restarts of the process
    MaxFlaps       \* bound on the changes of the network

ASSUME LogTailAssumption ==
    /\ MaxFileSize \in Nat /\ MaxBatch \in Nat \ {0}
    /\ MaxLines \in Nat /\ RawLines \subseteq 1..MaxLines
    /\ UpAtStart \in BOOLEAN /\ MaxRestarts \in Nat /\ MaxFlaps \in Nat

VARIABLES
    file,      \* the two files on disk
    lastMod,   \* the file that was modified last
    newer,     \* f.newer; f.older is the other one
    wOff,      \* the offset at which f.newer is written
    rOff,      \* the lines of f.older that have been read
    newly,     \* newlyWrittenBytes + newlyFilchedBytes
    moved,     \* whether dup2Stderr has moved stderr since New
    writer,    \* where the holder of writeLock is in sendLocked
    flush,     \* flushPending
    armed,     \* whether flushTimer is running
    firing,    \* a tryDrainWake that has cleared flush and not woken yet
    wake,      \* whether drainWake holds a token
    at,        \* where the uploader is
    body,      \* the lines it has drained
    shut,      \* "no", "called", "started": Shutdown and shutdownStart
    cancelled, \* the context of the uploader, cancelled by uploadCancel
    up,        \* whether the machine has a network
    deltas,    \* network changes on the event bus, not handled yet
    ready,     \* networkIsUp
    written,   \* the number of lines written
    received,  \* the lines the log server has
    restarts, flaps

files    == <<file, lastMod, newer, wOff, rOff, newly>>
filch    == <<files, moved>>
wakers   == <<writer, flush, armed, firing, wake>>
uploader == <<at, body, shut, cancelled>>
net      == <<up, deltas, ready>>
lines    == <<written, received>>
bounds   == <<restarts, flaps>>
vars     == <<filch, wakers, uploader, net, lines, bounds>>

Other(f) == 3 - f
older == Other(newer)
Unread == SubSeq(file[older], rOff + 1, Len(file[older])) \o file[newer]

-----------------------------------------------------------------------------
(* filch.go                                                                *)

(* The files after rotateLocked: the older is truncated and becomes the    *)
(* newer, whatever was unread in it; the read buffer is reset.             *)
Truncated == [file EXCEPT ![older] = << >>]

(* A line at the write offset of f, which is not always its end.           *)
PutAt(fs, f, off, l) ==
    [fs EXCEPT ![f] = IF off < Len(@) THEN [@ EXCEPT ![off + 1] = l]
                                      ELSE Append(@, l)]

(* Write: the limit is looked at again, with the lines that came through   *)
(* stderr, whenever it seems to be reached and once in a hundred calls.    *)
(* Either the files are rotated first, ...                                 *)
SizeSeen(stat) ==
    IF stat /\ Len(file[newer]) > newly THEN Len(file[newer]) ELSE newly

FilchRotate ==
    /\ SizeSeen(TRUE) > MaxFileSize
    /\ file' = Truncated /\ newer' = older
    /\ wOff' = 0 /\ rOff' = 0 /\ newly' = 0
    /\ lastMod' = IF file[older] # << >> THEN older ELSE lastMod
    /\ moved' = TRUE

(* ... or the line is written.                                             *)
FilchPut(l, size) ==
    /\ file' = PutAt(file, newer, wOff, l)
    /\ wOff' = wOff + 1 /\ newly' = size + 1
    /\ lastMod' = newer
    /\ UNCHANGED <<newer, rOff, moved>>

FilchWrite(l) ==
    \E stat \in {newly > MaxFileSize, TRUE} :
        /\ ~(stat /\ SizeSeen(stat) > MaxFileSize)
        /\ FilchPut(l, SizeSeen(stat))

(* Mutant: the file that was modified last is read first.                  *)
NewestFirst == IF file[Other(lastMod)] = << >> THEN Other(lastMod)
               ELSE IF file[lastMod] = << >> THEN lastMod ELSE Other(lastMod)

(* New: the files are opened at their beginning, and the one that is not   *)
(* empty, or was modified first, is the older.                             *)
NewerOnOpen ==
    IF Len(file[1]) > 0 /\ Len(file[2]) = 0 THEN 2
    ELSE IF Len(file[2]) > 0 /\ Len(file[1]) = 0 THEN 1
    ELSE lastMod

FilchNew ==
    /\ newer' = NewerOnOpen
    /\ wOff' = 0 /\ rOff' = 0
    /\ newly' = Len(file[newer']) /\ moved' = FALSE
    /\ UNCHANGED <<file, lastMod>>

(* TryReadLine: the next line of the older file, after a rotation if it    *)
(* has been read; `none' if both are empty.                                *)
TryReadLine(none) ==
    IF rOff < Len(file[older])
      THEN /\ body' = Append(body, file[older][rOff + 1])
           /\ rOff' = rOff + 1
           /\ UNCHANGED <<file, lastMod, newer, wOff, newly, moved, at>>
      ELSE /\ file' = Truncated
           /\ lastMod' = IF file[older] # << >> THEN older ELSE lastMod
           /\ newer' = older
           /\ wOff' = 0 /\ newly' = 0 /\ moved' = TRUE
           /\ IF file[newer] # << >>
                THEN /\ body' = Append(body, Head(file[newer]))
                     /\ rOff' = 1 /\ UNCHANGED at
                ELSE rOff' = 0 /\ none

-----------------------------------------------------------------------------
(* logtail.go: writers and wake-ups.                                       *)

Running == at # "done"

(* Write, and the same by Shutdown: the line is in the buffer, ...         *)
Write ==
    /\ writer = "idle" /\ written < MaxLines
    /\ FilchWrite(written + 1)
    /\ written' = written + 1
    /\ writer' = "buffered"
    /\ UNCHANGED <<flush, armed, firing, wake, uploader, net, received, bounds>>

(* ... after a rotation, and with f.mu held all the while, if need be.     *)
WriteRotates ==
    /\ writer = "idle" /\ written < MaxLines
    /\ FilchRotate
    /\ writer' = "rotated"
    /\ UNCHANGED <<flush, armed, firing, wake, uploader, net, lines, bounds>>

WriteRotated ==
    /\ writer = "rotated" /\ written < MaxLines
    /\ FilchPut(written + 1, newly)
    /\ written' = written + 1
    /\ writer' = "buffered"
    /\ UNCHANGED <<flush, armed, firing, wake, uploader, net, received, bounds>>

(* The rest of sendLocked: with a delay, the usual case, ...               *)
SetTimer ==
    /\ writer = "buffered"
    /\ flush' = TRUE
    /\ armed' = (armed \/ ~flush)
    /\ writer' = "idle"
    /\ UNCHANGED <<filch, firing, wake, uploader, net, lines, bounds>>

(* ... and without: it calls tryDrainWake itself.                          *)
FlushNow ==
    /\ writer = "buffered" /\ ~firing
    /\ writer' = "idle"
    /\ flush' = FALSE
    /\ firing' = TRUE
    /\ UNCHANGED <<filch, armed, wake, uploader, net, lines, bounds>>

(* Mutant: the flag is never taken back.                                   *)
FlagStays ==
    /\ ~firing
    /\ armed' \in {armed, FALSE}
    /\ firing' = TRUE
    /\ UNCHANGED <<filch, writer, flush, wake, uploader, net, lines, bounds>>

(* The timer fires, or StartFlush is called: tryDrainWake.                 *)
ClearPending ==
    /\ ~firing
    /\ armed' \in {armed, FALSE}
    /\ flush' = FALSE
    /\ firing' = TRUE
    /\ UNCHANGED <<filch, writer, wake, uploader, net, lines, bounds>>

TimerFires == armed /\ ClearPending /\ ~armed'
StartFlush == ClearPending /\ UNCHANGED armed

SendWake ==
    /\ firing
    /\ firing' = FALSE
    /\ wake' = TRUE
    /\ UNCHANGED <<filch, writer, flush, armed, uploader, net, lines, bounds>>

(* A line that some other code of the process writes to stderr; the bound  *)
(* leaves room for the line of a writer that has rotated.                  *)
RawLine ==
    /\ written + 1 \in RawLines
    /\ writer = "rotated" => written + 1 < MaxLines
    /\ written' = written + 1

StderrWrite ==
    /\ RawLine
    /\ file' = PutAt(file, newer, wOff, written')
    /\ wOff' = wOff + 1
    /\ lastMod' = newer
    /\ UNCHANGED <<newer, rOff, newly, moved, wakers, uploader, net, received,
                   bounds>>

(* A write that got hold of the newer file before a dup2Stderr and goes    *)
(* there after it, while that file is the older.  stderr and the file      *)
(* share their offset, which is by now the one of the reader: the line     *)
(* replaces the next that it has not read, and it goes on behind it.       *)
StderrLate ==
    /\ moved /\ RawLine
    /\ file' = PutAt(file, older, rOff, written')
    /\ rOff' = rOff + 1
    /\ lastMod' = older
    /\ UNCHANGED <<newer, wOff, newly, moved, wakers, uploader, net, received,
                   bounds>>

-----------------------------------------------------------------------------
(* logtail.go: the uploader and Shutdown.                                  *)

(* Mutant: a batch has no limit.                                           *)
DrainAll ==
    /\ at = "drain" /\ writer # "rotated"
    /\ TryReadLine(/\ at' = IF body = << >> THEN "block" ELSE "upload"
                   /\ UNCHANGED body)
    /\ UNCHANGED <<wakers, shut, cancelled, net, lines, bounds>>

(* One turn of the loop of drainPending, which waits for f.mu.             *)
Drain ==
    /\ at = "drain"
    /\ IF Len(body) < MaxBatch
         THEN /\ writer # "rotated"
              /\ TryReadLine(/\ at' = IF body = << >> THEN "block" ELSE "upload"
                             /\ UNCHANGED body)
         ELSE at' = "upload" /\ UNCHANGED <<filch, body>>
    /\ UNCHANGED <<wakers, shut, cancelled, net, lines, bounds>>

(* drainBlock.                                                             *)
Woken ==
    /\ at = "block" /\ wake
    /\ wake' = FALSE
    /\ at' = "drain"
    /\ UNCHANGED <<filch, writer, flush, armed, firing, body, shut, cancelled,
                   net, lines, bounds>>

BlockEnds ==
    /\ at = "block" /\ shut = "started"
    /\ at' = "done"
    /\ UNCHANGED <<filch, wakers, body, shut, cancelled, net, lines, bounds>>

(* The end of a turn of uploading.                                         *)
NextTurn ==
    /\ body' = << >>
    /\ at' = IF shut = "started" THEN "done" ELSE "drain"

UploadOk ==
    /\ at = "upload" /\ ~cancelled /\ up
    /\ received' = received \union ToSet(body)
    /\ NextTurn
    /\ UNCHANGED <<filch, wakers, shut, cancelled, net, written, bounds>>

InternetUp == ready \/ up

(* The upload fails, possibly after the server took it.                    *)
UploadFails ==
    /\ at = "upload" /\ ~cancelled
    /\ \/ UNCHANGED received
       \/ up /\ received' = received \union ToSet(body)
    /\ at' = IF InternetUp THEN "sleep" ELSE "await"
    /\ UNCHANGED <<filch, wakers, body, shut, cancelled, net, written, bounds>>

(* Its context is cancelled: what has been drained is given up.            *)
UploadCancelled ==
    /\ at = "upload" /\ cancelled
    /\ NextTurn
    /\ UNCHANGED <<filch, wakers, shut, cancelled, net, lines, bounds>>

(* The sleep before the next attempt ends by itself or by the context.     *)
Retry ==
    /\ at = "sleep"
    /\ at' = "upload"
    /\ UNCHANGED <<filch, wakers, body, shut, cancelled, net, lines, bounds>>

(* Mutant: only the network ends the wait.                                 *)
AwaitNetwork ==
    /\ at = "await" /\ ready
    /\ at' = "upload"
    /\ UNCHANGED <<filch, wakers, body, shut, cancelled, net, lines, bounds>>

(* awaitInternetUp.                                                        *)
AwaitEnds ==
    /\ at = "await" /\ (ready \/ cancelled)
    /\ at' = "upload"
    /\ UNCHANGED <<filch, wakers, body, shut, cancelled, net, lines, bounds>>

(* Shutdown: its goroutine may cancel the uploads before shutdownStart is  *)
(* closed.  The line it then writes is one of Write.                       *)
Shutdown ==
    /\ Running /\ shut = "no"
    /\ shut' = "called"
    /\ UNCHANGED <<filch, wakers, at, body, cancelled, net, lines, bounds>>

CloseStart ==
    /\ shut = "called"
    /\ shut' = "started"
    /\ UNCHANGED <<filch, wakers, at, body, cancelled, net, lines, bounds>>

UploadCancel ==
    /\ Running /\ shut # "no" /\ ~cancelled
    /\ cancelled' = TRUE
    /\ UNCHANGED <<filch, wakers, at, body, shut, net, lines, bounds>>

-----------------------------------------------------------------------------
(* The network and the process.                                            *)

LinkChange ==
    /\ flaps < MaxFlaps
    /\ flaps' = flaps + 1
    /\ up' = ~up
    /\ deltas' = Append(deltas, up')
    /\ UNCHANGED <<filch, wakers, uploader, ready, lines, restarts>>

OnChangeDelta ==
    /\ deltas # << >> /\ shut = "no"
    /\ ready' = Head(deltas)
    /\ deltas' = Tail(deltas)
    /\ UNCHANGED <<filch, wakers, uploader, up, lines, bounds>>

(* The process ends, by a crash or after Shutdown, and a new one opens the *)
(* files it left and starts an uploader.                                   *)
Restart ==
    /\ restarts < MaxRestarts
    /\ restarts' = restarts + 1
    /\ FilchNew
    /\ writer' = "idle" /\ flush' = FALSE /\ armed' = FALSE
    /\ firing' = FALSE /\ wake' = FALSE
    /\ at' = "drain" /\ body' = << >> /\ shut' = "no" /\ cancelled' = FALSE
    /\ deltas' = << >> /\ ready' = FALSE
    /\ UNCHANGED <<up, lines, flaps>>

Init ==
    /\ file = [f \in 1..2 |-> << >>] /\ lastMod = 1 /\ newer = 1
    /\ wOff = 0 /\ rOff = 0 /\ newly = 0 /\ moved = FALSE
    /\ writer = "idle" /\ flush = FALSE /\ armed = FALSE
    /\ firing = FALSE /\ wake = FALSE
    /\ at = "drain" /\ body = << >> /\ shut = "no" /\ cancelled = FALSE
    /\ up = UpAtStart /\ deltas = << >> /\ ready = FALSE
    /\ written = 0 /\ received = {}
    /\ restarts = 0 /\ flaps = 0

Upload == UploadOk \/ UploadFails \/ UploadCancelled \/ Retry \/ AwaitEnds
UploaderStep == Drain \/ Woken \/ BlockEnds \/ Upload
WriterStep == WriteRotated \/ SetTimer \/ FlushNow

Next ==
    \/ Write \/ WriteRotates \/ WriterStep
    \/ TimerFires \/ StartFlush \/ SendWake
    \/ StderrWrite \/ StderrLate
    \/ UploaderStep
    \/ Shutdown \/ CloseStart \/ UploadCancel
    \/ LinkChange \/ OnChangeDelta
    \/ Restart

Spec == Init /\ [][Next]_vars

(* The goroutines and the timer are scheduled, changes of the network are  *)
(* delivered, and a server that can be reached takes an upload some day.   *)
FairSpec ==
    /\ Spec
    /\ WF_vars(UploaderStep) /\ SF_vars(UploadOk) /\ SF_vars(BlockEnds)
    /\ WF_vars(WriterStep) /\ WF_vars(TimerFires) /\ WF_vars(SendWake)
    /\ WF_vars(OnChangeDelta) /\ WF_vars(CloseStart)

-----------------------------------------------------------------------------
TypeOK ==
    /\ file \in [1..2 -> Seq(1..written)] /\ lastMod \in 1..2 /\ newer \in 1..2
    /\ wOff \in 0..MaxLines /\ rOff \in 0..Len(file[older])
    /\ newly \in 0..MaxLines
    /\ writer \in {"idle", "rotated", "buffered"}
    /\ {moved, flush, armed, firing, wake, cancelled, up, ready} \subseteq BOOLEAN
    /\ at \in {"drain", "block", "upload", "sleep", "await", "done"}
    /\ body \in Seq(1..written) /\ Len(body) <= MaxBatch
    /\ shut \in {"no", "called", "started"}
    /\ deltas \in Seq(BOOLEAN)
    /\ written \in 0..MaxLines /\ received \subseteq 1..written
    /\ restarts \in 0..MaxRestarts /\ flaps \in 0..MaxFlaps

(* The two files, their rotations and the uploader are the queue of        *)
(* LogStream: between a write and the upload no step of filch or logtail   *)
(* reorders, repeats or loses a line except as LogStream says.  A line     *)
(* that goes astray is a write to stderr which outlasts a rotation; it     *)
(* makes the older file the one that was modified last, by which New would *)
(* take it for the newer.                                                  *)
Mixed == file[1] # << >> /\ file[2] # << >> /\ lastMod # newer

Stream == INSTANCE LogStream WITH
    MinKept  <- MaxFileSize \div 2 + 1,
    queue    <- Unread,
    risk     <- Len(file[newer]) - wOff,
    mixed    <- Mixed,
    batch    <- body,
    stopping <- shut # "no"

ImplementsStream == Stream!Spec

(* A logged line never waits for the next one to be written: if the        *)
(* network stays up, all are uploaded, or dropped, or the logger is shut   *)
(* down.  The flag and the one-place channel of the wake-ups lose none.    *)
Waiting == ToSet(Unread \o body) \ RawLines

LoggedLeaves == <>[]up => (Waiting # {} ~> Waiting = {} \/ shut # "no")

(* A cancelled shutdown ends, wherever the uploader was waiting.           *)
ShutdownEnds == cancelled ~> ~Running \/ ~cancelled

(* What LoggedLeaves rests on, without fairness: while a logged line is    *)
(* unread the uploader is not blocked, or its wake-up is on its way, with  *)
(* the writer, the timer, a tryDrainWake or in the channel.                *)
WakeUpPending ==
    at = "block" /\ Waiting # {} =>
        writer # "idle" \/ armed \/ firing \/ wake

(* rotateLocked: "f.older is guaranteed to be immutable": until the next   *)
(* rotation it is only read.  StderrLate breaks it.                        *)
OlderImmutable == [][newer' = newer => file'[older] = file[older]]_vars

=============================================================================
