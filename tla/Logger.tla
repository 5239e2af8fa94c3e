------------------------------ MODULE Logger ------------------------------
(***************************************************************************)
(* The logger of client and server.  Print, called by any thread, puts a   *)
(* line on m_oLogList under m_oPrintLock and, when the list was empty,     *)
(* writes a byte to a pipe, still holding the lock.  LogThread empties the *)
(* list line by line and then blocks in a read of the pipe.  Terminate     *)
(* sets a flag that Print tests before it takes the lock, writes a byte    *)
(* and joins LogThread.                                                    *)
(*                                                                         *)
(* A line is <<its printer, its number there>>.  Nothing in the tree calls *)
(* SetSync, so m_bSync is FALSE; DEBUG lines, which a release build drops, *)
(* are left out.  Opening the log file is taken to succeed: a line whose   *)
(* file does not open is reported on stderr in the place of its output.    *)
(***************************************************************************)
EXTENDS Naturals, Sequences, Functions

CONSTANTS
  Printers,  \* threads that call Print
  MaxLines,  \* bound: lines of one printer
  PipeSize,  \* bytes the pipe holds
  Many,      \* 1024: list sizes that bring a warning
  Detached,  \* TRUE on Linux: Join does not wait
  NULL       \* no line, or nobody

ASSUME LoggerAssumption ==
  /\ MaxLines \in Nat /\ PipeSize \in Nat \ {0}
  /\ Many \in Nat \ {0} /\ 1 % Many # 0
  /\ Detached \in BOOLEAN
  /\ NULL \notin Printers

VARIABLES
  setup,         \* Init: "no", "pipe" (pipe made), "thread" (thread made)
  m_bTerminate,  \* set by Terminate
  terminate,     \* where the thread in Terminate is
  m_oLogList,    \* lines queued
  lock,          \* holder of m_oPrintLock across the write, or NULL
  pipe,          \* bytes in the pipe
  pc,            \* printer -> where its call of Print is
  printed,       \* printer -> number of its last line
  closed,        \* lines Print answered with a message of its own
  logThread,     \* where LogThread is
  poLog,         \* the line LogThread has taken off the list
  out,           \* lines written
  due            \* lines queued when m_bTerminate was set

stopping == <<m_bTerminate, terminate, due>>
callers  == <<pc, printed, closed>>
reader   == <<logThread, poLog, out>>
vars == <<setup, stopping, m_oLogList, lock, pipe, callers, reader>>

Line(p) == <<p, printed[p]>>
Warning == <<NULL, 0>>
Lines   == (Printers \X (1..MaxLines)) \cup {Warning}

-----------------------------------------------------------------------------
Init ==
  /\ setup = "no" /\ m_bTerminate = FALSE /\ terminate = "no" /\ due = {}
  /\ m_oLogList = <<>> /\ lock = NULL /\ pipe = 0
  /\ pc = [p \in Printers |-> "idle"]
  /\ printed = [p \in Printers |-> 0]
  /\ closed = {}
  /\ logThread = "none" /\ poLog = Warning /\ out = <<>>

\* Logger::Init, the pipe first.
CreatePipe ==
  /\ setup = "no" /\ setup' = "pipe"
  /\ UNCHANGED <<stopping, m_oLogList, lock, pipe, callers, reader>>

CreateThread ==
  /\ setup = "pipe" /\ setup' = "thread"
  /\ logThread' = "take"
  /\ UNCHANGED <<stopping, m_oLogList, lock, pipe, callers, poLog, out>>

-----------------------------------------------------------------------------
(* Print.                                                                  *)

\* The tests before the lock.
PrintLine(p) ==
  /\ pc[p] = "idle" /\ printed[p] < MaxLines
  /\ printed' = [printed EXCEPT ![p] = @ + 1]
  /\ IF setup = "no" \/ m_bTerminate
     THEN /\ closed' = closed \cup {<<p, printed[p] + 1>>}
          /\ pc' = pc
     ELSE /\ pc' = [pc EXCEPT ![p] = "lock"]
          /\ closed' = closed
  /\ UNCHANGED <<setup, stopping, m_oLogList, lock, pipe, reader>>

\* The list with a line at its back, and a warning in front when it is long.
Queued(line) ==
  LET back == Append(m_oLogList, line)
  IN IF Len(back) % Many = 0 THEN <<Warning>> \o back ELSE back

\* Mutant: only a second line brings a byte.
NeedsByteMutant(list) == Len(list) = 2

NeedsByte(list) == Len(list) = 1

\* Who holds the lock during the write.
Holder(p) == p

Enqueue(p) ==
  /\ pc[p] = "lock" /\ lock = NULL
  /\ m_oLogList' = Queued(Line(p))
  /\ IF NeedsByte(m_oLogList')
     THEN lock' = Holder(p) /\ pc' = [pc EXCEPT ![p] = "write"]
     ELSE lock' = lock /\ pc' = [pc EXCEPT ![p] = "idle"]
  /\ UNCHANGED <<setup, stopping, pipe, printed, closed, reader>>

\* The write blocks while the pipe is full.
WriteByte(p) ==
  /\ pc[p] = "write" /\ pipe < PipeSize
  /\ pipe' = pipe + 1
  /\ lock' = NULL
  /\ pc' = [pc EXCEPT ![p] = "idle"]
  /\ UNCHANGED <<setup, stopping, m_oLogList, printed, closed, reader>>

-----------------------------------------------------------------------------
(* LogThread.                                                              *)

Take ==
  /\ logThread = "take" /\ lock = NULL
  /\ IF m_oLogList = <<>>
     THEN /\ logThread' = "test"
          /\ UNCHANGED <<m_oLogList, poLog>>
     ELSE /\ logThread' = "emit"
          /\ poLog' = Head(m_oLogList)
          /\ m_oLogList' = Tail(m_oLogList)
  /\ UNCHANGED <<setup, stopping, lock, pipe, callers, out>>

Emit ==
  /\ logThread = "emit" /\ logThread' = "take"
  /\ out' = Append(out, poLog)
  /\ poLog' = Warning
  /\ UNCHANGED <<setup, stopping, m_oLogList, lock, pipe, callers>>

\* Mutant: the list is not looked at again.
MayEndMutant == m_bTerminate

\* The test that ends the thread, without the lock.
MayEnd == m_bTerminate /\ m_oLogList = <<>>

Test ==
  /\ logThread = "test"
  /\ logThread' = IF MayEnd THEN "ended" ELSE "read"
  /\ UNCHANGED <<setup, stopping, m_oLogList, lock, pipe, callers, poLog, out>>

Read ==
  /\ logThread = "read" /\ pipe > 0
  /\ pipe' = pipe - 1
  /\ logThread' = "take"
  /\ UNCHANGED <<setup, stopping, m_oLogList, lock, callers, poLog, out>>

-----------------------------------------------------------------------------
(* Terminate, called once and after Init.                                  *)

SetTerminate ==
  /\ setup = "thread" /\ terminate = "no"
  /\ m_bTerminate' = TRUE /\ terminate' = "write"
  /\ due' = Range(m_oLogList)
  /\ UNCHANGED <<setup, m_oLogList, lock, pipe, callers, reader>>

Bytes == 1

Notify ==
  /\ terminate = "write" /\ pipe < PipeSize
  /\ pipe' = pipe + Bytes
  /\ terminate' = "join"
  /\ UNCHANGED <<setup, m_bTerminate, due, m_oLogList, lock, callers, reader>>

Join ==
  /\ terminate = "join" /\ (Detached \/ logThread = "ended")
  /\ terminate' = "joined"
  /\ UNCHANGED <<setup, m_bTerminate, due, m_oLogList, lock, pipe, callers,
                 reader>>

Caller(p) == Enqueue(p) \/ WriteByte(p)
LogThread == Take \/ Emit \/ Test \/ Read
Terminate == SetTerminate \/ Notify \/ Join

Next ==
  \/ CreatePipe \/ CreateThread
  \/ \E p \in Printers : PrintLine(p) \/ Caller(p)
  \/ LogThread
  \/ Terminate

Spec == Init /\ [][Next]_vars

-----------------------------------------------------------------------------
\* The types, and which of them go together: the lock is held exactly by the
\* printer that is writing.
TypeOK ==
  /\ setup \in {"no", "pipe", "thread"}
  /\ setup = "thread" <=> logThread # "none"
  /\ m_bTerminate \in BOOLEAN
  /\ m_bTerminate <=> terminate # "no"
  /\ terminate \in {"no", "write", "join", "joined"}
  /\ due \subseteq Lines
  /\ m_oLogList \in Seq(Lines) /\ out \in Seq(Lines)
  /\ lock \in Printers \cup {NULL}
  /\ pipe \in 0..PipeSize
  /\ pc \in [Printers -> {"idle", "lock", "write"}]
  /\ \A p \in Printers : (pc[p] = "write") <=> (lock = p)
  /\ printed \in [Printers -> 0..MaxLines]
  /\ \A p \in Printers : pc[p] # "idle" => printed[p] > 0
  /\ closed \subseteq Lines
  /\ logThread \in {"none", "take", "emit", "test", "read", "ended"}
  /\ poLog \in Lines

\* No wake-up is lost: when LogThread is about to block, or blocks, in the
\* read while lines are queued, a byte is in the pipe or a printer is about
\* to write it.
NoLostWakeup ==
  logThread \in {"test", "read"} /\ m_oLogList # <<>> =>
    \/ pipe > 0
    \/ \E p \in Printers : pc[p] = "write"

\* Every line a printer has handed over is in one place: refused with a
\* message, waiting for the lock, queued, in LogThread's hands or written.
\* Each printer's lines keep its own order from the list to the output.
InHand == IF logThread = "emit" THEN {poLog} ELSE {}

Ordered(lines) ==
  \A i, j \in DOMAIN lines :
    i < j /\ lines[i][1] = lines[j][1] /\ lines[i][1] \in Printers =>
      lines[i][2] < lines[j][2]

Precede(earlier, later) ==
  \A k \in earlier, l \in later :
    k[1] = l[1] /\ k[1] \in Printers => k[2] < l[2]

LinesKept ==
  /\ Ordered(out) /\ Ordered(m_oLogList)
  /\ Precede(Range(out), InHand \cup Range(m_oLogList))
  /\ Precede(InHand, Range(m_oLogList))
  /\ \A p \in Printers : \A n \in 1..printed[p] :
       \/ <<p, n>> \in closed \cup Range(out) \cup InHand \cup Range(m_oLogList)
       \/ n = printed[p] /\ pc[p] = "lock"

\* LogThread does not end before it has written everything that was queued
\* when Terminate was called.
DueIsWritten == logThread = "ended" => due \subseteq Range(out)

\* Only a line whose Print had passed the test before Terminate set the flag
\* can be left on the list for good, so at most one of each printer.
LateLines ==
  logThread = "ended" =>
    \A p \in Printers : \A i, j \in DOMAIN m_oLogList :
      m_oLogList[i][1] = p /\ m_oLogList[j][1] = p => i = j

\* What the logger never does wrong (Logger.cpp).
LoggerSafe == TypeOK /\ NoLostWakeup /\ LinesKept /\ DueIsWritten /\ LateLines

\* The two ways the pipe stops the logger for good once it is full, as only
\* LogThread reads it: a printer blocks in its write holding m_oPrintLock
\* (Logger.cpp:185) and LogThread waits for that lock (:204); or LogThread has
\* seen m_bTerminate and ended before Terminate's own write (:66).
PipeLock ==
  pipe = PipeSize /\ logThread = "take" /\ \E p \in Printers : pc[p] = "write"

ReaderGone == pipe = PipeSize /\ logThread = "ended" /\ terminate = "write"

\* A queued line is written unless somebody has terminated the logger, or the
\* pipe is full and its printer and LogThread wait for each other.
QueuedIsWritten ==
  \A p \in Printers : \A n \in 1..MaxLines :
    (<<p, n>> \in Range(m_oLogList)) ~>
      (<<p, n>> \in Range(out) \/ m_bTerminate \/ PipeLock)

\* Terminate returns, but for those two.
TerminateReturns ==
  (terminate = "write") ~> (terminate = "joined" \/ PipeLock \/ ReaderGone)
=============================================================================
