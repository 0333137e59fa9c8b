----------------------------- MODULE AsyncLogger -----------------------------
(***************************************************************************)
(* The asynchronous log (src/net/Log): front-end threads append messages   *)
(* to currentBuffer_, a back-end thread swaps the filled buffers out and   *)
(* writes them to files, an owner starts and stops it.  append() takes no  *)
(* lock: a step of it that overlaps what the back-end or another thread    *)
(* does with the same buffers is a data race, and the behaviours end there *)
(* (raced); what they do up to then is in this module.                     *)
(*   A unique_ptr is a sequence of at most one buffer, so that moving it   *)
(* into a vector is concatenation and a moved one is <<>>.                 *)
(***************************************************************************)
EXTENDS Buffer, FiniteSets, SequencesExt

CONSTANTS
  Threads,      \* the threads that log
  Lengths,      \* of messages
  RollSize,     \* rollSize_
  MaxBytes,     \* bound: bytes ever appended
  MaxDay        \* bound: the last day of the calendar

ASSUME AsyncLoggerAssumption ==
  /\ Lengths \subseteq Nat \ {0}
  /\ RollSize \in Nat /\ MaxBytes \in Nat /\ MaxDay \in Nat

VARIABLES
  currentBuffer, nextBuffer, buffers,     \* the members of these names
  running,                                \* running_
  front,      \* per thread: the message it is appending, if any
  backPc,     \* where threadFunc is
  buffA, buffB, buffersToWrite, at,       \* threadFunc's locals; at: its place
  ownerPc,    \* where stop() is
  today,      \* the calendar's date
  file,       \* file_ and the members that write() keeps with it
  sizes,      \* the length of every file on the disk
  appended,   \* history: how many bytes were appended; they are 1, 2, ...
  log,        \* history: what write() was given, with the file it went to
  stopAt,     \* history: how much was appended when stop() cleared running_
  late,       \* history: running_ was cleared while the back-end was writing
  missed,     \* history: stop() notified a back-end about to sleep
  burst,      \* history: the back-end took more buffers than it has places for
  raced       \* history: two threads were at the buffers at once

buffvars == <<currentBuffer, nextBuffer, buffers, buffA, buffB, buffersToWrite, at>>
filevars == <<file, sizes, log>>
lvars == <<buffvars, filevars, running, front, backPc, ownerPc, today, appended,
          stopAt, late, missed, burst, raced>>

Held(buffer) == buffer # <<>> /\ ReadableBytes(buffer[1]) > 0
Bytes(bs) == FlattenSeq([i \in DOMAIN bs |-> Peek(bs[i])])

LInit ==
  /\ currentBuffer = <<NewBuffer>> /\ nextBuffer = <<NewBuffer>> /\ buffers = <<>>
  /\ buffA = <<NewBuffer>> /\ buffB = <<NewBuffer>>
  /\ buffersToWrite = <<>> /\ at = 0
  /\ running = FALSE
  /\ front = [t \in Threads |-> <<>>]
  /\ backPc = "none" /\ ownerPc = "new"
  /\ today = 1
  /\ file = [open |-> FALSE, bad |-> FALSE, name |-> <<0, 0>>,
             lastDate |-> 0, sequence |-> 0, hasWritten |-> 0]
  \* the first day's file may be there from an earlier run of the program
  /\ \E old \in {0, RollSize} :
       sizes = [name \in (1..MaxDay) \X (0..1) |-> IF name = <<1, 0>> THEN old ELSE 0]
  /\ appended = 0 /\ log = <<>> /\ stopAt = 0
  /\ late = FALSE /\ missed = FALSE /\ burst = FALSE /\ raced = FALSE

-----------------------------------------------------------------------------
(* append(), by a thread's Logger at the end of its statement *)

Inside == {t \in Threads : front[t] # <<>>}

\* at the head of append(): from here on the thread uses the buffers
BeginAppend(t) ==
  /\ front[t] = <<>>
  /\ \E len \in Lengths :
       /\ appended + len <= MaxBytes
       /\ front' = [front EXCEPT ![t] = [i \in 1..len |-> appended + i]]
  /\ raced' = (Inside # {} \/ backPc \in {"locked", "swapping"})
  /\ UNCHANGED <<buffvars, filevars, running, backPc, ownerPc, today, appended,
                 stopAt, late, missed, burst>>

\* notify_one(): the back-end wakes if it sleeps
Woken == IF backPc = "asleep" THEN "locked" ELSE backPc

\* Fault: the full buffer is dropped.
FillNextOnly(data) ==
  /\ buffers' = buffers
  /\ currentBuffer' = <<BufferAppend((nextBuffer \o <<NewBuffer>>)[1], data)>>
  /\ nextBuffer' = <<>>

\* the buffer is full: it joins the others, nextBuffer_ or a new one follows it
FillNext(data) ==
  /\ buffers' = buffers \o currentBuffer
  /\ currentBuffer' = <<BufferAppend((nextBuffer \o <<NewBuffer>>)[1], data)>>
  /\ nextBuffer' = <<>>

AppendData(t) ==
  LET data == front[t]
  IN /\ data # <<>>
     /\ IF WriteableBytes(currentBuffer[1]) > Len(data)
        THEN /\ currentBuffer' = <<BufferAppend(currentBuffer[1], data)>>
             /\ UNCHANGED <<nextBuffer, buffers, backPc>>
        ELSE FillNext(data) /\ backPc' = Woken
     /\ front' = [front EXCEPT ![t] = <<>>]
     /\ appended' = appended + Len(data)
     /\ UNCHANGED <<buffA, buffB, buffersToWrite, at, filevars, running, ownerPc,
                    today, stopAt, late, missed, burst, raced>>

-----------------------------------------------------------------------------
(* write(): one buffer to the file of the day *)

\* the date has changed: the file is closed and counting starts again
Dated(f) ==
  IF today = f.lastDate THEN f
  ELSE [f EXCEPT !.open = FALSE, !.sequence = 0, !.hasWritten = 0, !.lastDate = today]
FileName(f) == <<today, f.sequence>>

Opened(f) == [f EXCEPT !.open = TRUE, !.bad = FALSE, !.name = FileName(f),
                       !.hasWritten = sizes[FileName(f)]]

\* What write() may have found or opened; a failed open leaves no file.  Only a
\* file that has just been opened is looked at for its size.
Ready(f, len) ==
  IF f.open /\ f.name = FileName(f) THEN {f}
  ELSE LET full == Opened(f).hasWritten + len > RollSize /\ Opened(f).hasWritten > 0
           next == [f EXCEPT !.sequence = @ + 1]
       IN {[f EXCEPT !.open = FALSE]}
          \cup IF full THEN {[Opened(next) EXCEPT !.hasWritten = 0],
                             [next EXCEPT !.open = FALSE]}
               ELSE {Opened(f)}

Write(data) ==
  \E f \in Ready(Dated(file), Len(data)), fails \in BOOLEAN :
    LET lost == ~f.open \/ f.bad \/ fails
    IN /\ file' = IF ~f.open THEN f
                  ELSE [f EXCEPT !.bad = @ \/ fails, !.hasWritten = @ + Len(data)]
       /\ sizes' = IF lost THEN sizes ELSE [sizes EXCEPT ![f.name] = @ + Len(data)]
       /\ log' = log \o [i \in DOMAIN data |->
                           [byte |-> data[i], name |-> f.name, lost |-> lost]]

-----------------------------------------------------------------------------
(* threadFunc() *)

Stays == UNCHANGED <<running, front, ownerPc, today, appended, stopAt, late, missed>>

\* while(running_), and the mutex
TestRunning ==
  /\ backPc = "head"
  /\ backPc' = IF running THEN "locked" ELSE "done"
  /\ raced' = (running /\ Inside # {})
  /\ Stays /\ UNCHANGED <<buffvars, filevars, burst>>

\* Faults: the predicate looks at the buffers alone, or lacks its negation.
MayGoOnFilled == buffers # <<>>
MayGoOnRunning == running \/ buffers # <<>>
\* the predicate of wait()
MayGoOn == ~running \/ buffers # <<>>

TestWaiting ==
  /\ backPc = "locked"
  /\ backPc' = IF MayGoOn THEN "swapping" ELSE "falling asleep"
  /\ Stays /\ UNCHANGED <<buffvars, filevars, burst, raced>>
FallAsleep ==
  /\ backPc = "falling asleep"
  /\ backPc' = "asleep"
  /\ Stays /\ UNCHANGED <<buffvars, filevars, burst, raced>>
WakeSpuriously ==
  /\ backPc = "asleep"
  /\ backPc' = "locked"
  /\ raced' = (Inside # {})
  /\ Stays /\ UNCHANGED <<buffvars, filevars, burst>>

\* The filled buffers and the current one are taken; what was left over of the
\* last round goes back into buffers_.
TakeBuffers ==
  /\ buffersToWrite' = buffers \o currentBuffer
  /\ buffers' = buffersToWrite
  /\ currentBuffer' = buffA /\ buffA' = <<>>
  /\ IF nextBuffer = <<>> THEN nextBuffer' = buffB /\ buffB' = <<>>
     ELSE UNCHANGED <<nextBuffer, buffB>>
Swap ==
  /\ backPc = "swapping"
  /\ IF buffers # <<>> \/ Held(currentBuffer)
     THEN TakeBuffers /\ backPc' = "writing" /\ at' = 0
     ELSE /\ backPc' = IF running THEN "writing" ELSE "done"
          /\ UNCHANGED buffvars
  /\ Stays /\ UNCHANGED <<filevars, burst, raced>>

WriteOne ==
  /\ backPc = "writing" /\ at < Len(buffersToWrite)
  /\ Write(Peek(buffersToWrite[at + 1]))
  /\ at' = at + 1
  /\ Stays
  /\ UNCHANGED <<currentBuffer, nextBuffer, buffers, buffA, buffB, buffersToWrite,
                 backPc, burst, raced>>

\* buffA, then buffB, are filled again from the back, if they were used.
Refilled(empty) ==
  LET left == IF buffA = <<>> THEN Front(empty) ELSE empty
      takeB == buffB = <<>> /\ left # <<>>
  IN /\ buffA' = IF buffA = <<>> THEN <<Last(empty)>> ELSE buffA
     /\ buffB' = IF takeB THEN <<Last(left)>> ELSE buffB
     /\ buffersToWrite' = IF takeB THEN Front(left) ELSE left
Refill ==
  /\ backPc = "writing" /\ at = Len(buffersToWrite)
  /\ Refilled([i \in DOMAIN buffersToWrite |-> RetrieveAll(buffersToWrite[i])])
  /\ backPc' = "head"
  /\ burst' = (burst \/ buffersToWrite' # <<>>)
  /\ at' = 0
  /\ Stays /\ UNCHANGED <<currentBuffer, nextBuffer, buffers, filevars, raced>>

-----------------------------------------------------------------------------
(* start() and stop(), by the owner *)

OwnerKeeps == UNCHANGED <<buffvars, filevars, front, today, appended, burst, raced>>

Start ==
  /\ ownerPc = "new"
  /\ running' = TRUE /\ backPc' = "head" /\ ownerPc' = "started"
  /\ OwnerKeeps /\ UNCHANGED <<stopAt, late, missed>>
StopClears ==
  /\ ownerPc = "started"
  /\ running' = FALSE /\ ownerPc' = "stopping"
  /\ stopAt' = appended
  /\ late' = (backPc \in {"head", "writing"})
  /\ OwnerKeeps /\ UNCHANGED <<backPc, missed>>
StopNotifies ==
  /\ ownerPc = "stopping"
  /\ backPc' = Woken /\ ownerPc' = "joining"
  /\ missed' = (backPc = "falling asleep")
  /\ raced' = (backPc = "asleep" /\ Inside # {})
  /\ UNCHANGED <<buffvars, filevars, front, today, appended, burst, running, stopAt, late>>
StopJoins ==
  /\ ownerPc = "joining" /\ backPc = "done"
  /\ ownerPc' = "stopped"
  /\ OwnerKeeps /\ UNCHANGED <<running, backPc, stopAt, late, missed>>

NextDay ==
  /\ today < MaxDay
  /\ today' = today + 1
  /\ UNCHANGED <<buffvars, filevars, running, front, backPc, ownerPc, appended,
                 stopAt, late, missed, burst, raced>>

BackStep == TestRunning \/ TestWaiting \/ FallAsleep \/ Swap \/ WriteOne \/ Refill

LNext ==
  /\ ~raced
  /\ \/ \E t \in Threads : BeginAppend(t) \/ AppendData(t)
     \/ BackStep \/ WakeSpuriously
     \/ Start \/ StopClears \/ StopNotifies \/ StopJoins
     \/ NextDay

LSpec == LInit /\ [][LNext]_lvars

\* Every thread that can go on does; nobody need log, stop or wait for midnight.
LFairSpec ==
  /\ LSpec
  /\ WF_lvars(~raced /\ BackStep)
  /\ WF_lvars(~raced /\ StopNotifies) /\ WF_lvars(~raced /\ StopJoins)
  /\ \A t \in Threads : WF_lvars(~raced /\ AppendData(t))

-----------------------------------------------------------------------------
(* Properties *)

\* Every byte that was appended is in exactly one place, in order: given to
\* write(), or in the buffers on their way there, however the buffers change
\* places; and write() never goes back to an older file (append, threadFunc).
LogInOrder ==
  ~raced =>
    /\ [i \in 1..appended |-> i]
         = [i \in DOMAIN log |-> log[i].byte]
             \o Bytes(SubSeq(buffersToWrite, at + 1, Len(buffersToWrite)))
             \o Bytes(buffers) \o Bytes(currentBuffer)
    /\ \A i, j \in DOMAIN log :
         i < j => \/ log[i].name[1] < log[j].name[1]
                  \/ /\ log[i].name[1] = log[j].name[1]
                     /\ log[i].name[2] <= log[j].name[2]

\* stop() returns, with all that was appended before it handed to write(), unless
\* its notification found the back-end between its test and its sleep, or
\* running_ was cleared while the back-end was writing (AsyncLogger.cc:23, 59).
StopReturns ==
  (ownerPc = "joining")
    ~> \/ ownerPc = "stopped" /\ (late \/ Len(log) >= stopAt)
       \/ missed \/ raced

\* The back-end goes to sleep again and again, or is over: it does not go round
\* its loop for nothing, unless it once took more buffers than it can put back
\* into buffA and buffB (threadFunc, AsyncLogger.cc:86).
BackEndRests ==
  []<>(backPc \in {"none", "asleep", "done"} \/ burst \/ raced)
=============================================================================
