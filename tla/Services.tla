------------------------------ MODULE Services ------------------------------
(***************************************************************************)
(* What the sessions share besides speech: the connections to FunASR, the  *)
(* pool of Silero detectors, the MCP sessions of a device and the global   *)
(* MCP manager.  They share no state: a behaviour is one of the one or the *)
(* other, so that one run checks, and one module proves, what the four     *)
(* promise.                                                                *)
(***************************************************************************)
EXTENDS FunasrPool, Sequences

CONSTANTS
  VadGoroutines, VadSessions, VadSessionOf, MaxVads,             \* of SileroPool
  WsHandlers, IotHandlers, Closers, Checker, MaxSessions,        \* of DeviceMcp
  Monitor, Checks, Callers, Lists, MaxAttempts, MaxClients,      \* of GlobalMcp
  None

\* A pool_size that is not positive is not taken (silero_vad/vad.go).
ASSUME VadAssumption ==
  /\ VadSessionOf \in [VadGoroutines -> VadSessions]
  /\ MaxVads \in Nat \ {0}
ASSUME DeviceAssumption == MaxSessions \in Nat
ASSUME GlobalAssumption == MaxAttempts \in Nat /\ MaxClients \in Nat
ASSUME NoneAssumption ==
  None \notin Nat \cup VadGoroutines \cup {Monitor} \cup Checks \cup Callers \cup Lists

VARIABLES
  which,
  initialized, availableVADs, allocatedVADs, destroyed, VadProvider, lock, vadStep,
  hand, vadCrashed,
  device2McpClient, sessions, ended, link, device, stale, off, mcpStep, mine, target,
  loop, firstLoop,
  registered, client, clients, connected, retryCount, connTools, globalTools, connMu,
  globalStep, listed, globalCrashed

funasrVars == vars
sileroVars == <<initialized, availableVADs, allocatedVADs, destroyed, VadProvider,
                lock, vadStep, hand, vadCrashed>>
deviceVars == <<device2McpClient, sessions, ended, link, device, stale, off, mcpStep,
                mine, target, loop, firstLoop>>
globalVars == <<registered, client, clients, connected, retryCount, connTools,
                globalTools, connMu, globalStep, listed, globalCrashed>>
allVars == <<which, funasrVars, sileroVars, deviceVars, globalVars>>

----------------------------------------------------------------------------
(* The parts                                                               *)

Silero == INSTANCE SileroPool WITH
  Goroutines <- VadGoroutines, Sessions <- VadSessions, SessionOf <- VadSessionOf,
  MaxSize <- MaxVads, step <- vadStep, crashed <- vadCrashed

Device == INSTANCE DeviceMcp WITH
  made <- sessions, cancelled <- ended, step <- mcpStep

Global == INSTANCE GlobalMcp WITH
  made <- clients, step <- globalStep, crashed <- globalCrashed

----------------------------------------------------------------------------
(* The union                                                               *)

ServicesInit ==
  /\ which \in {"funasr", "silero", "device", "global"}
  /\ Init /\ Silero!Init /\ Device!Init /\ Global!Init

ServicesNext ==
  \/ which = "funasr" /\ Next /\ UNCHANGED <<which, sileroVars, deviceVars, globalVars>>
  \/ which = "silero" /\ Silero!Next
       /\ UNCHANGED <<which, funasrVars, deviceVars, globalVars>>
  \/ which = "device" /\ Device!Next
       /\ UNCHANGED <<which, funasrVars, sileroVars, globalVars>>
  \/ which = "global" /\ Global!Next
       /\ UNCHANGED <<which, funasrVars, sileroVars, deviceVars>>

ServicesSpec == ServicesInit /\ [][ServicesNext]_allVars

----------------------------------------------------------------------------
(* Properties                                                              *)

\* Every variable of the four has a value of its type.
TypesOK == TypeOK /\ Silero!TypeOK /\ Device!TypeOK /\ Global!TypeOK

\* A detector is never with two sessions, nor with one and in the channel (SileroPool).
DetectorInOnePlace == Silero!DetectorInOnePlace

\* A device that does not answer any more does not keep its session (DeviceMcp).
QuietLeaves == Device!QuietLeaves

\* Whoever has cancelled a session takes it out of the pool (DeviceMcp).
CancelledIsRemoved == Device!CancelledIsRemoved

\* The two tables of tools agree between refreshes (GlobalMcp).
TablesAgree == Global!TablesAgree
=============================================================================
