----------------------------- MODULE MirrorDriver -----------------------------
(***************************************************************************)
(* MirrorDriverClient: how the client of PandaRC switches the mirror       *)
(* display driver on for a screen that is watched, and off again.  The     *)
(* object lives as long as an update handler does, from the first viewer   *)
(* to the last; the driver, its registry value and the buffers it maps     *)
(* into the program outlive it.  Each call of Windows or of the driver may *)
(* fail: the code prints a line and goes on.                               *)
(*                                                                         *)
(* The driver and Windows are external: modelled is what the calls are     *)
(* for.  The listener window and its thread are commented out in the code, *)
(* so m_isDisplayChanged stays FALSE and applyNewProperties has no caller  *)
(* that reaches it.                                                        *)
(***************************************************************************)
EXTENDS Naturals

CONSTANTS
  MaxLives,   \* bound: objects made
  MaxFailures \* bound: calls that fail, in all lives

ASSUME MirrorDriverAssumption == MaxLives \in Nat /\ MaxFailures \in Nat

VARIABLES
  step,       \* what the constructor or dispose() does next
  isOpened, isLoaded, isAttached, isConnected, \* the object's flags
  driverDC, \* there is a device context
  buffer,   \* m_changesBuffer and m_screenBuffer are set
  system,       \* the registry value; the display is on; the buffers are mapped
  lives, failures,
  clean     \* no call has failed in this life, or in the last one

clientFlags == <<isOpened, isLoaded, isAttached, isConnected>>
driverVars  == <<step, clientFlags, driverDC, buffer, system, lives, failures, clean>>

DriverSteps == {"none", "open", "load", "connect", "ready", "disconnect", "unload", "close"}

DriverInit ==
  /\ step = "none"
  /\ isOpened = FALSE /\ isLoaded = FALSE /\ isAttached = FALSE /\ isConnected = FALSE
  /\ driverDC = FALSE /\ buffer = FALSE
  /\ system = [attach |-> FALSE, active |-> FALSE, mapped |-> FALSE]
  /\ lives = 0 /\ failures = 0 /\ clean = TRUE

-----------------------------------------------------------------------------
(* The calls.  ok says which of a step's calls succeed.                    *)

\* n of the step's calls failed.
Failed(n) ==
  /\ failures + n <= MaxFailures
  /\ failures' = failures + n
  /\ clean' = (clean /\ n = 0)

Count(b) == IF b THEN 0 ELSE 1

\* setAttachToDesktop(value): the registry, and the flag with it.
SetAttach(o, value, ok) == IF ok THEN [o EXCEPT !.attach = value] ELSE o

\* ChangeDisplaySettingsEx: the display is on when the registry says so.
Commit(o, ok) == IF ok THEN [o EXCEPT !.active = o.attach] ELSE o

-----------------------------------------------------------------------------
(* The constructor: open(), load(), connect().                             *)

\* A new object: another handler's screen driver is made.
MakeClient ==
  /\ step = "none" /\ lives < MaxLives
  /\ step' = "open"
  /\ lives' = lives + 1
  /\ isOpened' = FALSE /\ isLoaded' = FALSE /\ isAttached' = FALSE /\ isConnected' = FALSE
  /\ driverDC' = FALSE /\ buffer' = FALSE /\ clean' = TRUE
  /\ UNCHANGED <<system, failures>>

\* open(): whatever is not found, the object is taken for open.
Open ==
  /\ step = "open" /\ step' = "load"
  /\ isOpened' = TRUE
  /\ \E found \in BOOLEAN : Failed(Count(found))
  /\ UNCHANGED <<isLoaded, isAttached, isConnected, driverDC, buffer, system, lives>>

\* load(): the driver is attached and switched on before the device context
\* is made; without the context the object does not count as loaded.
CountsAsLoaded(dc) == dc

Load ==
  /\ step = "load" /\ step' = "connect"
  /\ \E set, committed, created \in BOOLEAN :
       LET o == Commit(SetAttach(system, TRUE, set), committed)
       IN  /\ created => o.active
           /\ Failed(Count(set) + Count(committed) + (IF o.active THEN Count(created) ELSE 0))
           /\ system' = o
           /\ isAttached' = (IF set THEN TRUE ELSE isAttached)
           /\ driverDC' = created
           /\ isLoaded' = CountsAsLoaded(created)
  /\ UNCHANGED <<isOpened, isConnected, buffer, lives>>

\* connect(): the driver maps its buffers, which needs a device context; the
\* object is taken for connected in any case.
TakesBuffer(mapped) == mapped

ConnectDriver ==
  /\ step = "connect" /\ step' = "ready"
  /\ \E ok \in BOOLEAN :
       /\ ok => driverDC
       /\ Failed(IF driverDC THEN Count(ok) ELSE 0)
       /\ system' = [system EXCEPT !.mapped = @ \/ ok]
       /\ buffer' = TakesBuffer(ok)
  /\ isConnected' = TRUE
  /\ UNCHANGED <<isOpened, isLoaded, isAttached, driverDC, lives>>

-----------------------------------------------------------------------------
(* The destructor: dispose() is disconnect(), unload() and close().        *)

DestroyClient ==
  /\ step = "ready" /\ step' = "disconnect"
  /\ UNCHANGED <<clientFlags, driverDC, buffer, system, lives, failures, clean>>

Disconnect ==
  /\ step = "disconnect" /\ step' = "unload"
  /\ IF isConnected
     THEN \E ok \in BOOLEAN :
            /\ ok => driverDC
            /\ Failed(IF driverDC THEN Count(ok) ELSE 0)
            /\ system' = [system EXCEPT !.mapped = @ /\ ~ ok]
     ELSE UNCHANGED <<system, failures, clean>>
  /\ isConnected' = FALSE
  /\ UNCHANGED <<isOpened, isLoaded, isAttached, driverDC, buffer, lives>>

\* unload(): the driver is detached and switched off when the object attached
\* it, and the program prints that it is unloaded whatever the calls returned.
\* Mutant: the registry value is left as it is.
DetachMutant(o, ok) == o
Detach(o, ok) == SetAttach(o, FALSE, ok)

Unload ==
  /\ step = "unload" /\ step' = "close"
  /\ IF isLoaded
     THEN /\ driverDC' = FALSE
          /\ IF isAttached
             THEN \E set, committed \in BOOLEAN :
                    /\ Failed(Count(set) + Count(committed))
                    /\ system' = Commit(Detach(system, set), committed)
                    /\ isAttached' = (IF set THEN FALSE ELSE isAttached)
             ELSE UNCHANGED <<isAttached, system, failures, clean>>
     ELSE UNCHANGED <<driverDC, isAttached, system, failures, clean>>
  /\ isLoaded' = FALSE
  /\ UNCHANGED <<isOpened, isConnected, buffer, lives>>

Close ==
  /\ step = "close" /\ step' = "none"
  /\ isOpened' = FALSE
  /\ UNCHANGED <<isLoaded, isAttached, isConnected, driverDC, buffer, system, lives, failures, clean>>

DriverNext == MakeClient \/ Open \/ Load \/ ConnectDriver \/ DestroyClient \/ Disconnect \/ Unload \/ Close

DriverSpec == DriverInit /\ [][DriverNext]_driverVars

-----------------------------------------------------------------------------
\* The types of the variables; the object counts as loaded as long as it has
\* a device context.
DriverTypeOK ==
  /\ step \in DriverSteps
  /\ isOpened \in BOOLEAN /\ isAttached \in BOOLEAN /\ isConnected \in BOOLEAN
  /\ driverDC \in BOOLEAN /\ buffer \in BOOLEAN /\ clean \in BOOLEAN
  /\ isLoaded = driverDC
  /\ system \in [attach : BOOLEAN, active : BOOLEAN, mapped : BOOLEAN]
  /\ lives \in 0 .. MaxLives /\ failures \in 0 .. MaxFailures

\* A life in which every call succeeds leaves the driver off, detached and
\* with nothing mapped, whatever the lives before it left behind.
LeavesItOff == step = "none" /\ clean => ~ system.attach /\ ~ system.active /\ ~ system.mapped

\* While the object is in use, the buffers the detector and grab() read are
\* mapped, and there is a device context to unmap them with.
ReadsWhatIsMapped == step = "ready" /\ buffer => system.mapped /\ driverDC

\* What holds of driver and client whatever fails (MirrorDriverClient.cpp).
DriverSafe == DriverTypeOK /\ LeavesItOff /\ ReadsWhatIsMapped
=============================================================================
