---------------------------- MODULE MCBackground ----------------------------
(***************************************************************************)
(* Small instances of what runs, or is switched on and off, behind the     *)
(* program: the logger, the collector of dead threads, and the mirror      *)
(* driver.  They share no state; a behaviour is one of the instance that   *)
(* `subject' names, with the others as they were made.                     *)
(***************************************************************************)
EXTENDS Logger, ThreadLife, MirrorDriver

VARIABLE subject

backgroundVars == <<subject, vars, lifeVars, driverVars>>

BackgroundInit ==
  /\ subject \in {"logger", "collector", "driver"}
  /\ Init /\ LifeInit /\ DriverInit

BackgroundNext ==
  /\ UNCHANGED subject
  /\ \/ subject = "logger" /\ Next /\ UNCHANGED <<lifeVars, driverVars>>
     \/ subject = "collector" /\ LifeNext /\ UNCHANGED <<vars, driverVars>>
     \/ subject = "driver" /\ DriverNext /\ UNCHANGED <<vars, lifeVars>>

\* A thread that can run does.  After the printers' last lines the logger's lock
\* is free for good, or with a printer that waits for room in the pipe, so weak
\* fairness is enough to get it; nobody need print or terminate.  A thread that
\* was asked to end does, and the collector's destructor goes on.
Fairness ==
  /\ WF_vars(subject = "logger" /\ CreateThread)
  /\ \A p \in Printers : WF_vars(subject = "logger" /\ Caller(p))
  /\ WF_vars(subject = "logger" /\ LogThread)
  /\ WF_vars(subject = "logger" /\ Notify)
  /\ WF_vars(subject = "logger" /\ Join)
  /\ WF_lifeVars(subject = "collector" /\ Destructor)
  /\ \A t \in Threads :
       /\ WF_lifeVars(subject = "collector" /\ t \in m_terminated /\ Leave(t))
       /\ WF_lifeVars(subject = "collector" /\ End(t))

BackgroundSpec == BackgroundInit /\ [][BackgroundNext]_backgroundVars /\ Fairness

\* Whoever waits behind the program is served: a queued line is written, and
\* Terminate and the collector's destructor return, but where the full pipe
\* stops the logger (PipeLock, ReaderGone).
AllReturn == QueuedIsWritten /\ TerminateReturns /\ DestructorReturns
=============================================================================
