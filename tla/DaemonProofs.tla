---------------------------- MODULE DaemonProofs ----------------------------
(***************************************************************************)
(* Proofs about the daemon process around the pool.                        *)
(*                                                                         *)
(* The argument.  What the daemon does to the pool is a step of the pool,  *)
(* or the end of the process, which leaves the pool as New makes it: so    *)
(* the pool's invariants hold in the daemon (DaemonSteps).  pool.Shutdown  *)
(* runs after the last drain and after cloudClient.Close, so when it takes *)
(* its list no new request or command arrives (StopOrder).  Then, unless   *)
(* some goroutine was on its way to a spawn, no VM is started any more     *)
(* (Quiescent), and every VM that runs is on the list, because pinned      *)
(* workers and workers about to be pinned are (ListInv), or is being       *)
(* closed by somebody else (Covered).                                      *)
(***************************************************************************)
EXTENDS Daemon, PoolListProofs

\* The cloud client is closed before the pool is shut down, and nothing but the
\* main goroutine's last call shuts it down.
StopOrder ==
    /\ main = "shutdown" => stream = FALSE
    /\ shut # "running" => main = "shutdown"
    /\ shut = "down" => todo = <<>>

\* discard is a state of PoolLibrary, which the daemon does not reach.
NoDiscard == \A p \in Procs : pc[p] # "discard"

Listed == shut # "running" /\ late = {}

\* Once the list is taken with no goroutine on its way to a spawn, there is none.
Quiescent == Listed => \A p \in Procs : ~MaySpawn(p)

\* From then on every running VM is still to be closed by Shutdown or by a killer.
Covered ==
    Listed => \A w \in alive :
        \/ w \in Elements(todo)
        \/ \E p \in Procs : pc[p] = "close" /\ held[p] = w

DaemonInv ==
    /\ PoolInv /\ ListInv /\ DaemonTypeOK
    /\ StopOrder /\ NoDiscard /\ Quiescent /\ Covered

-----------------------------------------------------------------------------
(* The daemon and the pool *)

\* A step of the daemon is a step of its pool, leaves the pool alone, or ends the
\* process.
LEMMA DaemonSteps == [DaemonNext]_daemonVars => [Next]_vars \/ Gone
<1> SUFFICES ASSUME [DaemonNext]_daemonVars PROVE [Next]_vars \/ Gone
  OBVIOUS
<1>0. Callers \subseteq Procs /\ Handlers \subseteq Procs /\ Reaper \in Procs
  BY ProcsAssumption DEF Callers
<1> USE <1>0
<1>1. ASSUME Listen PROVE [Next]_vars \/ Gone
  BY <1>1 DEF Listen
<1>2. ASSUME Connect PROVE [Next]_vars \/ Gone
  BY <1>2 DEF Connect
<1>3. ASSUME StopOnSignal PROVE [Next]_vars \/ Gone
  BY <1>3 DEF StopOnSignal
<1>4. ASSUME DrainData PROVE [Next]_vars \/ Gone
  BY <1>4 DEF DrainData
<1>5. ASSUME CloseListener PROVE [Next]_vars \/ Gone
  BY <1>5 DEF CloseListener
<1>6. ASSUME DrainControl PROVE [Next]_vars \/ Gone
  BY <1>6 DEF DrainControl
<1>7. ASSUME CloseCloud PROVE [Next]_vars \/ Gone
  BY <1>7 DEF CloseCloud
<1>8. ASSUME TakeList PROVE [Next]_vars \/ Gone
  BY <1>8 DEF TakeList, Next
<1>9. ASSUME CloseListed PROVE [Next]_vars \/ Gone
  BY <1>9 DEF CloseListed, Next
<1>10. ASSUME Exit PROVE [Next]_vars \/ Gone
  BY <1>10 DEF Exit
<1>11. ASSUME Start PROVE [Next]_vars \/ Gone
  BY <1>11 DEF Start
<1>12. ASSUME ListenFails PROVE [Next]_vars \/ Gone
  BY <1>12 DEF ListenFails
<1>13. ASSUME StopOnError PROVE [Next]_vars \/ Gone
  BY <1>13 DEF StopOnError
<1>14. ASSUME DrainTimesOut PROVE [Next]_vars \/ Gone
  BY <1>14 DEF DrainTimesOut
<1>15. ASSUME Signal PROVE [Next]_vars \/ Gone
  BY <1>15 DEF Signal
<1>16. ASSUME Crash PROVE [Next]_vars \/ Gone
  BY <1>16 DEF Crash
<1>17. ASSUME StreamEnds PROVE [Next]_vars \/ Gone
  BY <1>17 DEF StreamEnds
<1>18. ASSUME StopReaper PROVE [Next]_vars \/ Gone
  BY <1>18 DEF StopReaper
<1>19. ASSUME NEW p \in Handlers, Request(p) PROVE [Next]_vars \/ Gone
  BY <1>19 DEF Request
<1>20. ASSUME NEW p \in Handlers, Refuse(p) PROVE [Next]_vars \/ Gone
  BY <1>20 DEF Refuse
<1>21. ASSUME NEW p \in Boots, BootVM(p) PROVE [Next]_vars \/ Gone
  BY <1>21 DEF BootVM
<1>22. ASSUME NEW p \in Callers, NEW s \in Sessions, Create(p, s) PROVE [Next]_vars \/ Gone
  BY <1>22 DEF Create, Next
<1>23. ASSUME NEW p \in Handlers, NEW s \in Sessions, Delete(p, s) PROVE [Next]_vars \/ Gone
  BY <1>23 DEF Delete, Next
<1>24. ASSUME NEW p \in Callers, GiveUp(p) PROVE [Next]_vars \/ Gone
  BY <1>24 DEF GiveUp, Next
<1>25. ASSUME NEW s \in Sessions, Sweep(s) PROVE [Next]_vars \/ Gone
  BY <1>25 DEF Sweep, Next
<1>26. ASSUME NEW p \in Procs, Owed(p) PROVE [Next]_vars \/ Gone
  BY <1>26 DEF Owed, Reply, Next
<1>27. ASSUME UNCHANGED daemonVars PROVE [Next]_vars \/ Gone
  BY <1>27 DEF daemonVars
<1> QED
  BY <1>1, <1>2, <1>3, <1>4, <1>5, <1>6, <1>7, <1>8, <1>9, <1>10, <1>11, <1>12, <1>13, <1>14,
     <1>15, <1>16, <1>17, <1>18, <1>19, <1>20, <1>21, <1>22, <1>23, <1>24, <1>25, <1>26, <1>27
     DEF DaemonNext, Main

\* The end of the process leaves the pool as New makes it.
LEMMA GoneIsInit == Gone => Init'
  BY DEF Gone, Init

\* The pool's invariants hold in the daemon too.
LEMMA PoolStep == PoolInv /\ ListInv /\ [DaemonNext]_daemonVars => PoolInv' /\ ListInv'
<1>1. (Init => PoolInv /\ ListInv)'
  BY PoolListInit, PTL
<1> QED
  BY <1>1, DaemonSteps, GoneIsInit, PoolListStep

-----------------------------------------------------------------------------
(* The daemon's own state *)

\* The main goroutine keeps the order of its calls.
LEMMA StopOrderStep == DaemonInv /\ [DaemonNext]_daemonVars => StopOrder'
<1> SUFFICES ASSUME DaemonInv, [DaemonNext]_daemonVars PROVE StopOrder'
  OBVIOUS
<1>0. StopOrder /\ DaemonTypeOK
  BY DEF DaemonInv
<1> USE <1>0 DEF StopOrder, vars, mainVars, local
<1>1. ASSUME Listen PROVE StopOrder'
  BY <1>1 DEF Listen
<1>2. ASSUME Connect PROVE StopOrder'
  BY <1>2 DEF Connect
<1>3. ASSUME StopOnSignal PROVE StopOrder'
  BY <1>3 DEF StopOnSignal
<1>4. ASSUME DrainData PROVE StopOrder'
  BY <1>4 DEF DrainData
<1>5. ASSUME CloseListener PROVE StopOrder'
  BY <1>5 DEF CloseListener
<1>6. ASSUME DrainControl PROVE StopOrder'
  BY <1>6 DEF DrainControl
<1>7. ASSUME CloseCloud PROVE StopOrder'
  BY <1>7 DEF CloseCloud
<1>8. ASSUME TakeList PROVE StopOrder'
  BY <1>8 DEF TakeList, Shutdown
<1>9. ASSUME CloseListed PROVE StopOrder'
  BY <1>9 DEF CloseListed, ShutdownClose
<1>10. ASSUME Exit PROVE StopOrder'
  BY <1>10 DEF Exit, Gone
<1>11. ASSUME Start PROVE StopOrder'
  BY <1>11 DEF Start
<1>12. ASSUME ListenFails PROVE StopOrder'
  BY <1>12 DEF ListenFails, Gone
<1>13. ASSUME StopOnError PROVE StopOrder'
  BY <1>13 DEF StopOnError
<1>14. ASSUME DrainTimesOut PROVE StopOrder'
  BY <1>14 DEF DrainTimesOut
<1>15. ASSUME Signal PROVE StopOrder'
  BY <1>15 DEF Signal
<1>16. ASSUME Crash PROVE StopOrder'
  BY <1>16 DEF Crash, Gone
<1>17. ASSUME StreamEnds PROVE StopOrder'
  BY <1>17 DEF StreamEnds
<1>18. ASSUME StopReaper PROVE StopOrder'
  BY <1>18 DEF StopReaper
<1>19. ASSUME NEW p \in Handlers, Request(p) PROVE StopOrder'
  BY <1>19 DEF Request
<1>20. ASSUME NEW p \in Handlers, Refuse(p) PROVE StopOrder'
  BY <1>20 DEF Refuse
<1>21. ASSUME NEW p \in Boots, BootVM(p) PROVE StopOrder'
  BY <1>21 DEF BootVM
<1>22. ASSUME NEW p \in Callers, NEW s \in Sessions, Create(p, s) PROVE StopOrder'
  BY <1>22 DEF Create, Acquire, Goto
<1>23. ASSUME NEW p \in Handlers, NEW s \in Sessions, Delete(p, s) PROVE StopOrder'
  BY <1>23 DEF Delete, KillWorker, Goto
<1>24. ASSUME NEW p \in Callers, GiveUp(p) PROVE StopOrder'
  BY <1>24 DEF GiveUp, WaitCancelled, TicketCancelled, Return, Goto
<1>25. ASSUME NEW s \in Sessions, Sweep(s) PROVE StopOrder'
  BY <1>25 DEF Sweep, KillWorker, Goto
<1>26. ASSUME NEW p \in Procs, Owed(p) PROVE StopOrder'
  BY <1>26 DEF Owed, Reply, Step, LookupFound, LookupPending, LookupLead, WaitDone, TakeTicket,
     SpawnOK, SpawnFail, RefundTicket, DropInflight, Wire, Put, CloseChan, CloseWorker, RemoveWorker, GiveBack
<1>27. ASSUME UNCHANGED daemonVars PROVE StopOrder'
  BY <1>27 DEF daemonVars
<1> QED
  BY <1>1, <1>2, <1>3, <1>4, <1>5, <1>6, <1>7, <1>8, <1>9, <1>10, <1>11, <1>12, <1>13, <1>14,
     <1>15, <1>16, <1>17, <1>18, <1>19, <1>20, <1>21, <1>22, <1>23, <1>24, <1>25, <1>26, <1>27
     DEF DaemonNext, Main

\* What Shutdown has closed leaves its list.
LEMMA TailElements ==
    ASSUME todo \in Seq(Workers), todo # <<>>
    PROVE  Elements(todo) \subseteq Elements(Tail(todo)) \cup {Head(todo)}
<1>1. /\ Len(todo) \in Nat \ {0} /\ Tail(todo) \in Seq(Workers) /\ Len(Tail(todo)) = Len(todo) - 1
      /\ \A i \in 1..Len(Tail(todo)) : Tail(todo)[i] = todo[i + 1]
      /\ DOMAIN todo = 1..Len(todo) /\ Head(todo) = todo[1]
  BY HeadTailProperties, LenProperties, EmptySeq
<1>2. DOMAIN Tail(todo) = 1..Len(todo) - 1
  BY <1>1, LenProperties
<1>3. ASSUME NEW i \in 1..Len(todo), i # 1 PROVE todo[i] \in Elements(Tail(todo))
  <2>1. i - 1 \in 1..Len(todo) - 1 /\ (i - 1) + 1 = i
    BY <1>1, <1>3
  <2>2. Tail(todo)[i - 1] = todo[i]
    BY <1>1, <2>1
  <2> QED
    BY <1>2, <2>1, <2>2 DEF Elements
<1> QED
  BY <1>1, <1>3 DEF Elements

\* Every step keeps the types of the daemon's own variables.
LEMMA DaemonTypeStep == DaemonInv /\ TypeOK' /\ [DaemonNext]_daemonVars => DaemonTypeOK'
<1> SUFFICES ASSUME DaemonInv, TypeOK', [DaemonNext]_daemonVars PROVE DaemonTypeOK'
  OBVIOUS
<1>0. DaemonTypeOK
  BY DEF DaemonInv
<1> DEFINE Own == /\ main \in {"off", "listen", "connect", "serve"} \cup Stopping
                  /\ call \in [Callers -> {"none", "got", "pool"}]
                  /\ late \in SUBSET Procs
           Flags == cancelled \in BOOLEAN /\ stream \in BOOLEAN /\ reaping \in BOOLEAN
<1>a. Own /\ Flags
  BY <1>0 DEF DaemonTypeOK
<1>b. Handlers \subseteq Callers /\ Boots \subseteq Callers
  BY DEF Callers
<1>c. [DaemonNext]_daemonVars => Own'
  <2> USE <1>a, <1>b DEF Stopping, mainVars
  <2> QED
    BY DEF DaemonNext, daemonVars, Main, Listen, Connect, StopOnSignal, DrainData, CloseListener,
       DrainControl, CloseCloud, TakeList, CloseListed, Exit, Start, ListenFails, StopOnError,
       DrainTimesOut, Signal, Crash, StreamEnds, StopReaper, Request, Refuse, BootVM, Create,
       Delete, GiveUp, Sweep, Owed, Reply, Gone
<1>d. [DaemonNext]_daemonVars => Flags'
  BY <1>a, Zenon DEF DaemonNext, daemonVars, mainVars, Main, Listen, Connect, StopOnSignal, DrainData,
       CloseListener, DrainControl, CloseCloud, TakeList, CloseListed, Exit, Start, ListenFails,
       StopOnError, DrainTimesOut, Signal, Crash, StreamEnds, StopReaper, Request, Refuse, BootVM,
       Create, Delete, GiveUp, Sweep, Owed, Reply, Gone
<1> QED
  BY <1>c, <1>d DEF DaemonTypeOK

\* The goroutine steps of the pool: none reaches discard, none but a goroutine on its
\* way to a spawn gets there or starts a VM, and a VM stops being closed when it is.
LEMMA GoroutineStep ==
    ASSUME PoolInv, NoDiscard, NEW p \in Procs, Step(p)
    PROVE  /\ NoDiscard'
           /\ \A q \in Procs \ {p} : pc'[q] = pc[q] /\ held'[q] = held[q]
           /\ (\A q \in Procs : ~MaySpawn(q)) /\ UNCHANGED call =>
                /\ \A q \in Procs : ~MaySpawn(q)'
                /\ alive' = IF pc[p] = "close" THEN alive \ {held[p]} ELSE alive
           /\ UNCHANGED <<todo, shut>>
<1>0. TypeOK /\ InCall
  BY DEF PoolInv, OwnershipInv
<1> USE <1>0 DEF TypeOK, InCall, NoDiscard, MaySpawn, local
<1>1. CASE LookupFound(p)
  BY <1>1 DEF LookupFound, Return, Goto
<1>2. CASE LookupPending(p)
  BY <1>2 DEF LookupPending, Goto
<1>3. CASE LookupLead(p)
  BY <1>3 DEF LookupLead, Goto
<1>4. CASE WaitDone(p)
  BY <1>4 DEF WaitDone, Goto
<1>5. CASE TakeTicket(p)
  BY <1>5 DEF TakeTicket, Goto
<1>6. CASE SpawnOK(p, AnyOf(Fresh(sess[p])))
  BY <1>6 DEF SpawnOK, Goto
<1>7. CASE SpawnFail(p)
  BY <1>7 DEF SpawnFail, Goto
<1>8. CASE RefundTicket(p)
  BY <1>8 DEF RefundTicket, Goto
<1>9. CASE DropInflight(p)
  BY <1>9 DEF DropInflight, Goto
<1>10. CASE Wire(p)
  BY <1>10 DEF Wire, Goto
<1>11. CASE Put(p)
  BY <1>11 DEF Put, Goto
<1>12. CASE CloseChan(p)
  BY <1>12 DEF CloseChan, Goto
<1>13. CASE CloseWorker(p)
  BY <1>13 DEF CloseWorker, Goto
<1>14. CASE RemoveWorker(p)
  BY <1>14 DEF RemoveWorker, Goto
<1>15. CASE GiveBack(p)
  BY <1>15 DEF GiveBack, Return, Goto
<1> QED
  BY <1>1, <1>2, <1>3, <1>4, <1>5, <1>6, <1>7, <1>8, <1>9, <1>10, <1>11, <1>12, <1>13, <1>14, <1>15
     DEF Step

\* No step reaches discard.
LEMMA NoDiscardStep == DaemonInv /\ [DaemonNext]_daemonVars => NoDiscard'
<1> SUFFICES ASSUME DaemonInv, [DaemonNext]_daemonVars PROVE NoDiscard'
  OBVIOUS
<1>0. NoDiscard /\ PoolInv /\ TypeOK /\ Callers \subseteq Procs
  BY ProcsAssumption DEF DaemonInv, PoolInv, OwnershipInv, Callers
<1> USE <1>0 DEF TypeOK, NoDiscard, vars, local
<1>1. ASSUME Listen PROVE NoDiscard'
  BY <1>1 DEF Listen
<1>2. ASSUME Connect PROVE NoDiscard'
  BY <1>2 DEF Connect
<1>3. ASSUME StopOnSignal PROVE NoDiscard'
  BY <1>3 DEF StopOnSignal
<1>4. ASSUME DrainData PROVE NoDiscard'
  BY <1>4 DEF DrainData
<1>5. ASSUME CloseListener PROVE NoDiscard'
  BY <1>5 DEF CloseListener
<1>6. ASSUME DrainControl PROVE NoDiscard'
  BY <1>6 DEF DrainControl
<1>7. ASSUME CloseCloud PROVE NoDiscard'
  BY <1>7 DEF CloseCloud
<1>8. ASSUME TakeList PROVE NoDiscard'
  BY <1>8 DEF TakeList, Shutdown
<1>9. ASSUME CloseListed PROVE NoDiscard'
  BY <1>9 DEF CloseListed, ShutdownClose
<1>10. ASSUME Exit PROVE NoDiscard'
  BY <1>10 DEF Exit, Gone
<1>11. ASSUME Start PROVE NoDiscard'
  BY <1>11 DEF Start
<1>12. ASSUME ListenFails PROVE NoDiscard'
  BY <1>12 DEF ListenFails, Gone
<1>13. ASSUME StopOnError PROVE NoDiscard'
  BY <1>13 DEF StopOnError
<1>14. ASSUME DrainTimesOut PROVE NoDiscard'
  BY <1>14 DEF DrainTimesOut
<1>15. ASSUME Signal PROVE NoDiscard'
  BY <1>15 DEF Signal
<1>16. ASSUME Crash PROVE NoDiscard'
  BY <1>16 DEF Crash, Gone
<1>17. ASSUME StreamEnds PROVE NoDiscard'
  BY <1>17 DEF StreamEnds
<1>18. ASSUME StopReaper PROVE NoDiscard'
  BY <1>18 DEF StopReaper
<1>19. ASSUME NEW p \in Handlers, Request(p) PROVE NoDiscard'
  BY <1>19 DEF Request
<1>20. ASSUME NEW p \in Handlers, Refuse(p) PROVE NoDiscard'
  BY <1>20 DEF Refuse
<1>21. ASSUME NEW p \in Boots, BootVM(p) PROVE NoDiscard'
  BY <1>21 DEF BootVM
<1>22. ASSUME NEW p \in Callers, NEW s \in Sessions, Create(p, s) PROVE NoDiscard'
  BY <1>22, ProcsAssumption DEF Create, Acquire, Goto, Callers
<1>23. ASSUME NEW p \in Handlers, NEW s \in Sessions, Delete(p, s) PROVE NoDiscard'
  BY <1>23, ProcsAssumption DEF Delete, KillWorker, Goto
<1>24. ASSUME NEW p \in Callers, GiveUp(p) PROVE NoDiscard'
  BY <1>24, ProcsAssumption DEF GiveUp, WaitCancelled, TicketCancelled, Return, Goto, Callers
<1>25. ASSUME NEW s \in Sessions, Sweep(s) PROVE NoDiscard'
  BY <1>25, ProcsAssumption DEF Sweep, KillWorker, Goto
<1>26. ASSUME NEW p \in Procs, Owed(p) PROVE NoDiscard'
  <2>1. CASE Step(p)
    BY <2>1, GoroutineStep
  <2>2. CASE p \in Callers /\ Reply(p)
    BY <2>2 DEF Reply
  <2> QED
    BY <1>26, <2>1, <2>2 DEF Owed
<1>27. ASSUME UNCHANGED daemonVars PROVE NoDiscard'
  BY <1>27 DEF daemonVars
<1> QED
  BY <1>1, <1>2, <1>3, <1>4, <1>5, <1>6, <1>7, <1>8, <1>9, <1>10, <1>11, <1>12, <1>13, <1>14,
     <1>15, <1>16, <1>17, <1>18, <1>19, <1>20, <1>21, <1>22, <1>23, <1>24, <1>25, <1>26, <1>27
     DEF DaemonNext, Main

\* Once the list is taken with no goroutine on its way to a spawn, none gets there.
LEMMA QuiescentStep == DaemonInv /\ [DaemonNext]_daemonVars => Quiescent'
<1> SUFFICES ASSUME DaemonInv, [DaemonNext]_daemonVars PROVE Quiescent'
  OBVIOUS
<1>0. /\ NoDiscard /\ PoolInv /\ TypeOK /\ Callers \subseteq Procs /\ Quiescent /\ StopOrder
      /\ call \in [Callers -> {"none", "got", "pool"}]
      /\ Handlers \subseteq Callers /\ Boots \subseteq Callers
  BY ProcsAssumption DEF DaemonInv, DaemonTypeOK, PoolInv, OwnershipInv, Callers
<1> USE <1>0 DEF TypeOK, Quiescent, Listed, StopOrder, MaySpawn, vars, mainVars, local
<1>1. ASSUME Listen PROVE Quiescent'
  BY <1>1 DEF Listen
<1>2. ASSUME Connect PROVE Quiescent'
  BY <1>2 DEF Connect
<1>3. ASSUME StopOnSignal PROVE Quiescent'
  BY <1>3 DEF StopOnSignal
<1>4. ASSUME DrainData PROVE Quiescent'
  BY <1>4 DEF DrainData
<1>5. ASSUME CloseListener PROVE Quiescent'
  BY <1>5 DEF CloseListener
<1>6. ASSUME DrainControl PROVE Quiescent'
  BY <1>6 DEF DrainControl
<1>7. ASSUME CloseCloud PROVE Quiescent'
  BY <1>7 DEF CloseCloud
<1>8. ASSUME TakeList PROVE Quiescent'
  BY <1>8 DEF TakeList, Shutdown
<1>9. ASSUME CloseListed PROVE Quiescent'
  BY <1>9 DEF CloseListed, ShutdownClose
<1>10. ASSUME Exit PROVE Quiescent'
  BY <1>10 DEF Exit, Gone
<1>11. ASSUME Start PROVE Quiescent'
  BY <1>11 DEF Start
<1>12. ASSUME ListenFails PROVE Quiescent'
  BY <1>12 DEF ListenFails, Gone
<1>13. ASSUME StopOnError PROVE Quiescent'
  BY <1>13 DEF StopOnError
<1>14. ASSUME DrainTimesOut PROVE Quiescent'
  BY <1>14 DEF DrainTimesOut
<1>15. ASSUME Signal PROVE Quiescent'
  BY <1>15 DEF Signal
<1>16. ASSUME Crash PROVE Quiescent'
  BY <1>16 DEF Crash, Gone
<1>17. ASSUME StreamEnds PROVE Quiescent'
  BY <1>17 DEF StreamEnds
<1>18. ASSUME StopReaper PROVE Quiescent'
  BY <1>18 DEF StopReaper
<1>19. ASSUME NEW p \in Handlers, Request(p) PROVE Quiescent'
  BY <1>19 DEF Request, Accepting
<1>20. ASSUME NEW p \in Handlers, Refuse(p) PROVE Quiescent'
  BY <1>20 DEF Refuse
<1>21. ASSUME NEW p \in Boots, BootVM(p) PROVE Quiescent'
  <2>1. main # "shutdown"
    BY <1>21, Zenon DEF BootVM
  <2> QED
    BY <1>21, <2>1 DEF BootVM
<1>22. ASSUME NEW p \in Callers, NEW s \in Sessions, Create(p, s) PROVE Quiescent'
  BY <1>22, ProcsAssumption DEF Create, Acquire, Goto, Callers
<1>23. ASSUME NEW p \in Handlers, NEW s \in Sessions, Delete(p, s) PROVE Quiescent'
  BY <1>23, ProcsAssumption DEF Delete, KillWorker, Goto
<1>24. ASSUME NEW p \in Callers, GiveUp(p) PROVE Quiescent'
  BY <1>24, ProcsAssumption DEF GiveUp, WaitCancelled, TicketCancelled, Return, Goto, Callers
<1>25. ASSUME NEW s \in Sessions, Sweep(s) PROVE Quiescent'
  BY <1>25, ProcsAssumption DEF Sweep, KillWorker, Goto
<1>26. ASSUME NEW p \in Procs, Owed(p) PROVE Quiescent'
  <2>1. CASE Step(p) /\ UNCHANGED <<mainVars, call>>
    <3>1. UNCHANGED <<shut, late, call>>
      BY <2>1, GoroutineStep
    <3>2. CASE Listed
      <4>1. \A q \in Procs : ~MaySpawn(q)
        BY <3>2
      <4>2. \A q \in Procs : ~MaySpawn(q)'
        BY <2>1, <3>1, <4>1, GoroutineStep
      <4> QED
        BY <4>2
    <3>3. CASE ~Listed
      BY <3>1, <3>3
    <3> QED
      BY <3>2, <3>3
  <2>2. CASE p \in Callers /\ Reply(p)
    BY <2>2 DEF Reply
  <2> QED
    BY <1>26, <2>1, <2>2 DEF Owed
<1>27. ASSUME UNCHANGED daemonVars PROVE Quiescent'
  BY <1>27 DEF daemonVars
<1> QED
  BY <1>1, <1>2, <1>3, <1>4, <1>5, <1>6, <1>7, <1>8, <1>9, <1>10, <1>11, <1>12, <1>13, <1>14,
     <1>15, <1>16, <1>17, <1>18, <1>19, <1>20, <1>21, <1>22, <1>23, <1>24, <1>25, <1>26, <1>27
     DEF DaemonNext, Main

\* Shutdown's list has every running VM that nobody else is closing, and each VM is
\* on it until it is closed.
LEMMA CoveredStep == DaemonInv /\ [DaemonNext]_daemonVars => Covered'
<1> SUFFICES ASSUME DaemonInv, [DaemonNext]_daemonVars PROVE Covered'
  OBVIOUS
<1>0. /\ NoDiscard /\ PoolInv /\ TypeOK /\ Callers \subseteq Procs /\ Quiescent /\ Covered
      /\ Handlers \subseteq Callers /\ Boots \subseteq Callers
  BY ProcsAssumption DEF DaemonInv, PoolInv, OwnershipInv, Callers
<1> USE <1>0 DEF TypeOK, Covered, Listed, Elements, vars, mainVars, local
<1>1. ASSUME Listen PROVE Covered'
  BY <1>1 DEF Listen
<1>2. ASSUME Connect PROVE Covered'
  BY <1>2 DEF Connect
<1>3. ASSUME StopOnSignal PROVE Covered'
  BY <1>3 DEF StopOnSignal
<1>4. ASSUME DrainData PROVE Covered'
  BY <1>4 DEF DrainData
<1>5. ASSUME CloseListener PROVE Covered'
  BY <1>5 DEF CloseListener
<1>6. ASSUME DrainControl PROVE Covered'
  BY <1>6 DEF DrainControl
<1>7. ASSUME CloseCloud PROVE Covered'
  BY <1>7 DEF CloseCloud
<1>8. ASSUME TakeList PROVE Covered'
  <2>1. todo' = workers /\ alive' = alive /\ pc' = pc /\ held' = held
    BY <1>8 DEF TakeList, Shutdown
  <2>2. ASSUME NEW w \in alive, \A p \in Procs : ~MaySpawn(p)
        PROVE  w \in Elements(workers) \/ \E p \in Procs : pc[p] = "close" /\ held[p] = w
    <3>1. CASE \E s \in Pinned : registry[s] = w
      BY <3>1, LastIsListed DEF DaemonInv, ListInv, Newest
    <3>2. CASE \E p \in Carriers : held[p] = w
      <4>1. PICK p \in Carriers : held[p] = w
        BY <3>2
      <4>2. p \in Procs /\ (pc[p] = "put" \/ pc[p] = "close")
        BY <2>2 DEF Carriers, Carrying, MaySpawn, NoDiscard
      <4>3. pc[p] = "put" => IsLast(w)
        BY <4>1, <4>2 DEF DaemonInv, ListInv, Newest
      <4> QED
        BY <4>1, <4>2, <4>3, LastIsListed
    <3> QED
      BY <3>1, <3>2 DEF PoolInv, OwnershipInv, AliveOwned
  <2>3. late' = {} => \A p \in Procs : ~MaySpawn(p)
    BY <1>8 DEF TakeList
  <2> QED
    BY <2>1, <2>2, <2>3
<1>9. ASSUME CloseListed PROVE Covered'
  <2>1. CASE todo = <<>>
    BY <1>9, <2>1 DEF CloseListed, ShutdownClose
  <2>2. CASE todo # <<>>
    <3>1. /\ alive' = alive \ {Head(todo)} /\ todo' = Tail(todo) /\ late' = late /\ shut' = shut
          /\ pc' = pc /\ held' = held
      BY <1>9, <2>2 DEF CloseListed, ShutdownClose
    <3>2. Elements(todo) \subseteq Elements(Tail(todo)) \cup {Head(todo)}
      BY <2>2, TailElements
    <3>3. ASSUME NEW w \in alive', Listed
          PROVE  w \in Elements(Tail(todo)) \/ \E p \in Procs : pc[p] = "close" /\ held[p] = w
      BY <3>1, <3>2, <3>3
    <3> QED
      BY <3>1, <3>3
  <2> QED
    BY <2>1, <2>2
<1>10. ASSUME Exit PROVE Covered'
  BY <1>10 DEF Exit, Gone
<1>11. ASSUME Start PROVE Covered'
  BY <1>11 DEF Start
<1>12. ASSUME ListenFails PROVE Covered'
  BY <1>12 DEF ListenFails, Gone
<1>13. ASSUME StopOnError PROVE Covered'
  BY <1>13 DEF StopOnError
<1>14. ASSUME DrainTimesOut PROVE Covered'
  BY <1>14 DEF DrainTimesOut
<1>15. ASSUME Signal PROVE Covered'
  BY <1>15 DEF Signal
<1>16. ASSUME Crash PROVE Covered'
  BY <1>16 DEF Crash, Gone
<1>17. ASSUME StreamEnds PROVE Covered'
  BY <1>17 DEF StreamEnds
<1>18. ASSUME StopReaper PROVE Covered'
  BY <1>18 DEF StopReaper
<1>19. ASSUME NEW p \in Handlers, Request(p) PROVE Covered'
  BY <1>19 DEF Request
<1>20. ASSUME NEW p \in Handlers, Refuse(p) PROVE Covered'
  BY <1>20 DEF Refuse
<1>21. ASSUME NEW p \in Boots, BootVM(p) PROVE Covered'
  BY <1>21 DEF BootVM
<1>22. ASSUME NEW p \in Callers, NEW s \in Sessions, Create(p, s) PROVE Covered'
  BY <1>22, ProcsAssumption DEF Create, Acquire, Goto, Callers
<1>23. ASSUME NEW p \in Handlers, NEW s \in Sessions, Delete(p, s) PROVE Covered'
  BY <1>23, ProcsAssumption DEF Delete, KillWorker, Goto
<1>24. ASSUME NEW p \in Callers, GiveUp(p) PROVE Covered'
  BY <1>24, ProcsAssumption DEF GiveUp, WaitCancelled, TicketCancelled, Return, Goto, Callers
<1>25. ASSUME NEW s \in Sessions, Sweep(s) PROVE Covered'
  BY <1>25, ProcsAssumption DEF Sweep, KillWorker, Goto
<1>26. ASSUME NEW p \in Procs, Owed(p) PROVE Covered'
  <2>1. CASE Step(p) /\ UNCHANGED <<mainVars, call>>
    <3>1. UNCHANGED <<shut, late, todo>> /\ \A q \in Procs \ {p} : pc'[q] = pc[q] /\ held'[q] = held[q]
      BY <2>1, GoroutineStep
    <3>2. CASE Listed
      <4>1. alive' = IF pc[p] = "close" THEN alive \ {held[p]} ELSE alive
        BY <2>1, <3>2, GoroutineStep DEF Quiescent
      <4>2. ASSUME NEW w \in alive', w \notin Elements(todo)
            PROVE  \E q \in Procs : pc'[q] = "close" /\ held'[q] = w
        <5>1. PICK q \in Procs : pc[q] = "close" /\ held[q] = w
          BY <3>2, <4>1, <4>2
        <5>2. q # p
          BY <4>1, <4>2, <5>1
        <5> QED
          BY <3>1, <5>1, <5>2
      <4> QED
        BY <3>1, <4>2
    <3>3. CASE ~Listed
      BY <3>1, <3>3
    <3> QED
      BY <3>2, <3>3
  <2>2. CASE p \in Callers /\ Reply(p)
    BY <2>2 DEF Reply
  <2> QED
    BY <1>26, <2>1, <2>2 DEF Owed
<1>27. ASSUME UNCHANGED daemonVars PROVE Covered'
  BY <1>27 DEF daemonVars
<1> QED
  BY <1>1, <1>2, <1>3, <1>4, <1>5, <1>6, <1>7, <1>8, <1>9, <1>10, <1>11, <1>12, <1>13, <1>14,
     <1>15, <1>16, <1>17, <1>18, <1>19, <1>20, <1>21, <1>22, <1>23, <1>24, <1>25, <1>26, <1>27
     DEF DaemonNext, Main

-----------------------------------------------------------------------------
(* Theorems *)

\* The daemon's invariant holds in every reachable state.
LEMMA DaemonAlways == DaemonSpec => []DaemonInv
<1>1. DaemonInit => DaemonInv
  <2> SUFFICES ASSUME DaemonInit PROVE DaemonInv
    OBVIOUS
  <2>1. PoolInv /\ ListInv /\ TypeOK
    BY PoolListInit DEF DaemonInit, PoolInv, OwnershipInv
  <2>2. cancelled \in BOOLEAN /\ stream \in BOOLEAN /\ reaping \in BOOLEAN
    BY Zenon DEF DaemonInit
  <2>3. DaemonTypeOK
    BY <2>1, <2>2 DEF DaemonInit, DaemonTypeOK
  <2>4. StopOrder /\ NoDiscard /\ Quiescent /\ Covered
    BY DEF DaemonInit, Init, StopOrder, NoDiscard, Quiescent, Covered, Listed
  <2> QED
    BY <2>1, <2>3, <2>4 DEF DaemonInv
<1>2. DaemonInv /\ [DaemonNext]_daemonVars => DaemonInv'
  <2> SUFFICES ASSUME DaemonInv, [DaemonNext]_daemonVars PROVE DaemonInv'
    OBVIOUS
  <2>1. PoolInv' /\ ListInv'
    BY PoolStep DEF DaemonInv
  <2>2. DaemonTypeOK'
    BY <2>1, DaemonTypeStep DEF PoolInv, OwnershipInv
  <2> QED
    BY <2>1, <2>2, StopOrderStep, NoDiscardStep, QuiescentStep, CoveredStep DEF DaemonInv
<1> QED
  BY <1>1, <1>2, PTL DEF DaemonSpec

\* The variables of the daemon and of its pool keep their types, over restarts too.
THEOREM DaemonTypeCorrect == DaemonSpec => []DaemonTypeOK
<1>1. DaemonInv => DaemonTypeOK
  BY DEF DaemonInv
<1> QED
  BY <1>1, DaemonAlways, PTL

\* The pool's promises hold in the daemon, whatever its main goroutine, its reaper
\* and its crashes do: tickets are conserved, no more than max VMs run, a session has
\* one creator and a worker one owner, and Shutdown's list misses no pinned worker.
THEOREM DaemonPool ==
    DaemonSpec => [](TicketConservation /\ LiveAtMostMax /\ SingleFlight /\ OneOwner /\ PinnedIsListed)
<1>1. DaemonInv => TicketConservation /\ OneOwner
  BY DEF DaemonInv, PoolInv, OwnerInv
<1>2. DaemonInv => LiveAtMostMax
  BY Ceiling DEF DaemonInv, PoolInv
<1>3. DaemonInv => SingleFlight
  BY DEF DaemonInv, PoolInv, OwnershipInv, TypeOK, InCall, Flights, SingleFlight, Leading
<1>4. DaemonInv => PinnedIsListed
  BY LastIsListed DEF DaemonInv, ListInv, Newest, PinnedIsListed
<1> QED
  BY <1>1, <1>2, <1>3, <1>4, DaemonAlways, PTL

\* start.go's orderly stop: when pool.Shutdown has returned and nothing was on its
\* way to a spawn when it began, every VM is closed or being closed.
THEOREM CleanExitHolds == DaemonSpec => []CleanExit
<1>1. DaemonInv => CleanExit
  BY DEF DaemonInv, CleanExit, Covered, Listed, StopOrder, Elements
<1> QED
  BY <1>1, DaemonAlways, PTL
=============================================================================
