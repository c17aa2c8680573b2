----------------------------- MODULE GuestProofs -----------------------------
(***************************************************************************)
(* Proofs about the guest agent, for any number of dials, shells and       *)
(* orphans.                                                                *)
(*                                                                         *)
(* The argument.  A workload or a shell starts only on a closed readyCh,   *)
(* and readyCh never opens again: the one step that puts the setup         *)
(* goroutine back to its beginning is the one that starts it, which main   *)
(* takes once, while it has not listened yet.  That is what NotStarted     *)
(* adds to ReadyFirst.                                                     *)
(***************************************************************************)
EXTENDS Guest, SequenceTheorems, TLAPS

\* Until main listens on the control port the setup goroutine does not run.
NotStarted == main \in {"base", "listen"} => setup = "idle"

ReadyInv == TypeOK /\ NotStarted /\ ReadyFirst

\* A guest that boots has started nothing.
LEMMA ReadyInit == Init => ReadyInv
<1> SUFFICES ASSUME Init PROVE ReadyInv
  OBVIOUS
<1>1. TypeOK
  <2>1. try \in Tries /\ backlog \in Seq(Tries)
    BY GuestAssumption, EmptySeq DEF Init, Tries
  <2> QED
    BY <2>1, Zenon DEF Init, TypeOK
<1>2. NotStarted /\ ReadyFirst
  BY DEF Init, NotStarted, ReadyFirst, Procs
<1> QED
  BY <1>1, <1>2 DEF ReadyInv

\* Every step keeps the types.
LEMMA TypeStep == TypeOK /\ [Next]_vars => TypeOK'
<1> SUFFICES ASSUME TypeOK, [Next]_vars PROVE TypeOK'
  OBVIOUS
<1> USE DEF TypeOK, Procs, agentVars, procVars, hostVars, linkVars
<1>1. CASE mountBaseFilesystems \/ listenVsock \/ MainFails \/ Decode \/ Report \/ Reboot
  BY <1>1 DEF mountBaseFilesystems, listenVsock, MainFails, die, Decode, Report, Reboot
<1>2. CASE Accept
  <2>1. Head(backlog) \in Tries /\ Tail(backlog) \in Seq(Tries)
    BY <1>2, HeadTailProperties DEF Accept
  <2> QED
    BY <1>2, <2>1 DEF Accept
<1>3. CASE handleExecution \/ WaitWorkload \/ CopiersEnd
  BY <1>3 DEF handleExecution, WaitWorkload, WaitProcess, CopiersEnd
<1>4. CASE SetupStep \/ startExecServer
  BY <1>4 DEF SetupStep, mountContainerFilesystems, configureNetworking, SetupFails, die,
     startExecServer
<1>5. CASE ReaperStep \/ Notify
  <2>1. CASE reapZombies
    BY <1>5, <2>1 DEF reapZombies
  <2>2. CASE ReceiveSignal
    <3>1. channel' \in BOOLEAN /\ reaper' \in {"recv", "drain"}
      BY <2>2, Zenon DEF ReceiveSignal
    <3>2. UNCHANGED <<vm, agentVars, signal, proc, hostVars, linkVars>>
      BY <2>2, Zenon DEF ReceiveSignal
    <3> QED
      BY <3>1, <3>2
  <2>3. CASE Notify
    <3>1. signal' \in BOOLEAN /\ channel' \in BOOLEAN
      BY <2>3, Zenon DEF Notify
    <3>2. UNCHANGED <<vm, agentVars, reaper, proc, hostVars, linkVars>>
      BY <2>3, Zenon DEF Notify
    <3> QED
      BY <3>1, <3>2
  <2> QED
    BY <1>5, <2>1, <2>2, <2>3 DEF ReaperStep
<1>6. ASSUME NEW s \in Shells, ExecSession(s) \/ ShellStep(s) PROVE TypeOK'
  BY <1>6 DEF ExecSession, ShellStep, AcceptExec, handleInteractiveShell, ShellReturns,
     WaitProcess
<1>7. ASSUME NEW o \in Orphans, Reparent(o) PROVE TypeOK'
  BY <1>7 DEF Reparent
<1>8. ASSUME NEW p \in Procs, Exit(p) PROVE TypeOK'
  BY <1>8 DEF Exit
<1>9. ASSUME NEW c \in Tries, Answer(c) PROVE TypeOK'
  <2>1. Append(backlog, c) \in Seq(Tries)
    BY <1>9, AppendProperties
  <2> QED
    BY <1>9, <2>1 DEF Answer
<1>10. CASE DialFirecracker \/ ReadOK \/ Execute
  BY <1>10 DEF DialFirecracker, ReadOK, Execute
<1>11. CASE DialFails
  BY <1>11, GuestAssumption DEF DialFails, Redial, Tries
<1>12. CASE ReadFails
  BY <1>12, GuestAssumption DEF ReadFails, Redial, Tries
<1>13. CASE StreamEnds \/ Kill
  BY <1>13 DEF StreamEnds, Kill
<1>14. CASE UNCHANGED vars
  BY <1>14 DEF vars
<1> QED
  BY <1>1, <1>2, <1>3, <1>4, <1>5, <1>6, <1>7, <1>8, <1>9, <1>10, <1>11, <1>12, <1>13, <1>14
     DEF Next, MainStep, DialStep

\* No step starts a process before readyCh is closed, or opens readyCh again.
LEMMA ReadyStep == ReadyInv /\ [Next]_vars => NotStarted' /\ ReadyFirst'
<1> SUFFICES ASSUME ReadyInv, [Next]_vars PROVE NotStarted' /\ ReadyFirst'
  OBVIOUS
<1> USE GuestAssumption
    DEF ReadyInv, TypeOK, NotStarted, ReadyFirst, Procs, agentVars, procVars, hostVars, linkVars
<1>1. CASE MainStep
  BY <1>1 DEF MainStep, mountBaseFilesystems, listenVsock, MainFails, die, Accept, Decode,
     handleExecution, WaitWorkload, WaitProcess, Dead, CopiersEnd, Report, Reboot
<1>2. CASE SetupStep \/ startExecServer
  BY <1>2 DEF SetupStep, mountContainerFilesystems, configureNetworking, SetupFails, die,
     startExecServer
<1>3. CASE ReaperStep \/ Notify
  BY <1>3 DEF ReaperStep, ReceiveSignal, reapZombies, Notify
<1>4. ASSUME NEW s \in Shells, ExecSession(s) \/ ShellStep(s) PROVE NotStarted' /\ ReadyFirst'
  BY <1>4 DEF ExecSession, ShellStep, AcceptExec, handleInteractiveShell, ShellReturns,
     WaitProcess, Dead
<1>5. ASSUME NEW o \in Orphans, Reparent(o) PROVE NotStarted' /\ ReadyFirst'
  BY <1>5 DEF Reparent
<1>6. ASSUME NEW p \in Procs, Exit(p) PROVE NotStarted' /\ ReadyFirst'
  BY <1>6 DEF Exit
<1>7. ASSUME NEW c \in Tries, Answer(c) PROVE NotStarted' /\ ReadyFirst'
  BY <1>7 DEF Answer
<1>8. CASE DialStep \/ StreamEnds \/ Kill
  BY <1>8 DEF DialStep, DialFirecracker, DialFails, ReadOK, ReadFails, Execute, StreamEnds, Kill
<1>9. CASE UNCHANGED vars
  BY <1>9 DEF vars
<1> QED
  BY <1>1, <1>2, <1>3, <1>4, <1>5, <1>6, <1>7, <1>8, <1>9 DEF Next

\* The inductive invariant holds in every reachable state of a guest.
LEMMA Ready == Spec => []ReadyInv
<1>1. ReadyInv /\ [Next]_vars => ReadyInv'
  BY TypeStep, ReadyStep DEF ReadyInv
<1> QED
  BY <1>1, ReadyInit, PTL DEF Spec

\* The variables of the agent, the device and the host keep their types: the backlog
\* holds dials only, and the host never dials past its last try.
THEOREM GuestTypeCorrect == Spec => []TypeOK
<1>1. ReadyInv => TypeOK
  BY DEF ReadyInv
<1> QED
  BY <1>1, Ready, PTL

\* main.go, phase 3: whatever the host, the shells' clients and the two servers do
\* while the container is being mounted, no workload and no shell starts before it is.
THEOREM ReadyFirstHolds == Spec => []ReadyFirst
<1>1. ReadyInv => ReadyFirst
  BY DEF ReadyInv
<1> QED
  BY <1>1, Ready, PTL
=============================================================================
