------------------------------- MODULE Daemon -------------------------------
(***************************************************************************)
(* The daemon process: runDaemon of cmd/herd/start.go around the session   *)
(* pool (module Pool).  Goroutines of the control-plane server, goroutines *)
(* that the cloud client's commandLoop starts, and the reaper call the     *)
(* pool while the main goroutine starts up, serves, drains the two servers *)
(* and runs its deferred calls.                                            *)
(*                                                                         *)
(* A signal cancels the daemon's context; a failing listener starts the    *)
(* same shutdown without cancelling it.  The process may be killed at any  *)
(* point and started again: nothing of the pool survives it.  Leases are   *)
(* left to module Lifecycle, so the reaper may kill any session, and what  *)
(* the data-plane server serves only reads the pool's registry.            *)
(***************************************************************************)
EXTENDS Pool

CONSTANTS
    Handlers,  \* goroutines of the control-plane server
    Boots,     \* goroutines of commandLoop, one per boot_vm command
    Reaper     \* the goroutine of StartReaper

ASSUME ProcsAssumption == /\ Procs = Handlers \cup Boots \cup {Reaper}
                          /\ Handlers \cap Boots = {}
                          /\ Reaper \notin Handlers \cup Boots

Callers == Handlers \cup Boots

VARIABLES
    main,      \* where the main goroutine is
    cancelled, \* ctx.Done() is closed
    stream,    \* the stream to the cloud control plane can be received from
    reaping,   \* the reaper's goroutine runs
    call,      \* what each request or command has come to
    late       \* the goroutines that could still spawn a VM when Shutdown took
               \* its list (a history variable)

mainVars == <<main, cancelled, stream, reaping, late>>
daemonVars == <<vars, mainVars, call>>

AcceptingAlways == main \notin {"off", "listen", "connect"}

\* the control-plane server accepts connections
Accepting == main \in {"serve", "drainData", "drainControl"}

\* A request or command is "got" until it enters the pool, "pool" until it is answered.
Answered(p) == call[p] = "pool" /\ pc[p] = "idle"

\* the goroutine may yet come to start a VM that p.workers does not list
MaySpawn(p) ==
    \/ p \in Callers /\ call[p] = "got"
    \/ pc[p] \in {"lookup", "wait", "ticket", "spawn", "wire"}

DaemonInit ==
    /\ Init
    /\ main = "off"
    /\ cancelled = FALSE /\ stream = FALSE /\ reaping = FALSE
    /\ call = [p \in Callers |-> "none"]
    /\ late = {}

\* The process ends: its goroutines and its memory are gone.  The VMs it leaves running,
\* for Spawn sets no parent-death signal, are in no pool any more.
Gone ==
    /\ main' = "off"
    /\ cancelled' = FALSE /\ stream' = FALSE /\ reaping' = FALSE
    /\ call' = [p \in Callers |-> "none"]
    /\ late' = {}
    /\ registry' = [s \in Sessions |-> NoWorker]
    /\ inflight' = [s \in Sessions |-> NoChan]
    /\ workers' = <<>> /\ tickets' = Max /\ alive' = {}
    /\ pc' = [p \in Procs |-> "idle"]
    /\ sess' = [p \in Procs |-> NoSession]
    /\ chan' = [p \in Procs |-> NoChan]
    /\ held' = [p \in Procs |-> NoWorker]
    /\ shut' = "running" /\ todo' = <<>>

-----------------------------------------------------------------------------
(* The main goroutine *)

\* the policy check, config.Load and buildPool; where one fails, log.Fatal
Start ==
    /\ main = "off"
    /\ main' = "listen"
    /\ UNCHANGED <<vars, cancelled, stream, reaping, call, late>>

\* net.Listen, then go lm.StartReaper(ctx)
Listen ==
    /\ main = "listen"
    /\ main' = "connect" /\ reaping' = TRUE
    /\ UNCHANGED <<vars, cancelled, stream, call, late>>

\* log.Fatalf: no deferred call runs
ListenFails == main = "listen" /\ Gone

\* cloudClient.Start is tried once, if the configuration enables it; an error is
\* logged.  Then the servers' goroutines start.
Connect ==
    /\ main = "connect"
    /\ stream' \in BOOLEAN
    /\ main' = "serve"
    /\ UNCHANGED <<vars, cancelled, reaping, call, late>>

\* SIGINT or SIGTERM
Signal ==
    /\ main # "off" /\ ~cancelled
    /\ cancelled' = TRUE
    /\ UNCHANGED <<vars, main, stream, reaping, call, late>>

\* case <-ctx.Done()
StopOnSignal ==
    /\ main = "serve" /\ cancelled
    /\ main' = "drainData"
    /\ UNCHANGED <<vars, cancelled, stream, reaping, call, late>>

\* case err := <-errCh: one of the two servers could not serve
StopOnError ==
    /\ main = "serve"
    /\ main' = "drainData"
    /\ UNCHANGED <<vars, cancelled, stream, reaping, call, late>>

\* httpServer.Shutdown returns: its connections are idle, or ten seconds have passed
DrainData ==
    /\ main = "drainData"
    /\ main' = "drainControl"
    /\ UNCHANGED <<vars, cancelled, stream, reaping, call, late>>

\* controlServer.Shutdown, in a goroutine of its own, closes the listener
CloseListener ==
    /\ main = "drainControl"
    /\ main' = "awaitControl"
    /\ UNCHANGED <<vars, cancelled, stream, reaping, call, late>>

\* case <-done: the listener is closed and every request is answered
DrainControl ==
    /\ main = "awaitControl"
    /\ \A p \in Handlers : call[p] = "none"
    /\ main' = "closeCloud"
    /\ UNCHANGED <<vars, cancelled, stream, reaping, call, late>>

DrainNeverTimesOut ==
    /\ main = "awaitControl"
    /\ \A p \in Handlers : call[p] = "none"
    /\ main' = "closeCloud"
    /\ UNCHANGED <<vars, cancelled, stream, reaping, call, late>>

\* case <-shutdownCtx.Done(): the ten seconds are over, controlServer.Close() closes
\* the listener and the connections.  Handlers in the pool are not waited for.
DrainTimesOut ==
    /\ main \in {"drainControl", "awaitControl"}
    /\ main' = "closeCloud"
    /\ UNCHANGED <<vars, cancelled, stream, reaping, call, late>>

\* the deferred cloudClient.Close and controlLis.Close
CloseCloud ==
    /\ main = "closeCloud"
    /\ main' = "shutdown" /\ stream' = FALSE
    /\ UNCHANGED <<vars, cancelled, reaping, call, late>>

\* the deferred pool.Shutdown: it copies p.workers, then closes one after the other
TakeList ==
    /\ main = "shutdown"
    /\ Shutdown
    /\ late' = {p \in Procs : MaySpawn(p)}
    /\ UNCHANGED <<main, cancelled, stream, reaping, call>>

CloseListed ==
    /\ ShutdownClose
    /\ UNCHANGED <<mainVars, call>>

\* runDaemon returns, and with it the process
Exit == main = "shutdown" /\ shut = "down" /\ Gone

\* SIGKILL, a panic, or the host's memory runs out
Crash == main # "off" /\ Gone

Main == Listen \/ Connect \/ StopOnSignal \/ DrainData \/ CloseListener \/ DrainControl
            \/ CloseCloud \/ TakeList \/ CloseListed \/ Exit

-----------------------------------------------------------------------------
(* Requests, commands and the reaper *)

\* the control-plane server reads a request
Request(p) ==
    /\ Accepting
    /\ call[p] = "none"
    /\ call' = [call EXCEPT ![p] = "got"]
    /\ UNCHANGED <<vars, mainVars>>

\* commandLoop receives boot_vm and starts a goroutine
BootVM(p) ==
    /\ stream
    /\ call[p] = "none"
    /\ call' = [call EXCEPT ![p] = "got"]
    /\ UNCHANGED <<vars, mainVars>>

\* commandLoop gets an error or the end of the stream and returns: nothing dials again
StreamEnds ==
    /\ stream
    /\ stream' = FALSE
    /\ UNCHANGED <<vars, main, cancelled, reaping, call, late>>

\* a request that is refused, whose image cannot be warmed, or that changes nothing
Refuse(p) ==
    /\ call[p] = "got"
    /\ call' = [call EXCEPT ![p] = "none"]
    /\ UNCHANGED <<vars, mainVars>>

\* CreateSession calls pool.Acquire
Create(p, s) ==
    /\ call[p] = "got"
    /\ Acquire(p, s)
    /\ call' = [call EXCEPT ![p] = "pool"]
    /\ UNCHANGED mainVars

\* DeleteSession comes to pool.KillWorker
Delete(p, s) ==
    /\ call[p] = "got"
    /\ KillWorker(p, s)
    /\ call' = [call EXCEPT ![p] = "pool"]
    /\ UNCHANGED mainVars

\* The caller's context ends: a client went away or its connection was closed; a
\* command has the daemon's own context and no deadline.
GiveUp(p) ==
    /\ p \in Boots => cancelled
    /\ WaitCancelled(p) \/ TicketCancelled(p)
    /\ UNCHANGED <<mainVars, call>>

ReplyIfConnected(p) ==
    /\ Answered(p)
    /\ stream
    /\ call' = [call EXCEPT ![p] = "none"]
    /\ UNCHANGED <<vars, mainVars>>

\* the response, or the CommandResponse; an error of Send is logged
Reply(p) ==
    /\ Answered(p)
    /\ call' = [call EXCEPT ![p] = "none"]
    /\ UNCHANGED <<vars, mainVars>>

\* a sweep kills a session whose lease is due
Sweep(s) ==
    /\ reaping
    /\ KillWorker(Reaper, s)
    /\ UNCHANGED <<mainVars, call>>

\* case <-ctx.Done() of StartReaper; a tick that is ready too may be taken first
StopReaper ==
    /\ reaping /\ cancelled
    /\ pc[Reaper] = "idle"
    /\ reaping' = FALSE
    /\ UNCHANGED <<vars, main, cancelled, stream, call, late>>

\* what a goroutine owes while the process runs
Owed(p) ==
    \/ Step(p) /\ UNCHANGED <<mainVars, call>>
    \/ p \in Callers /\ Reply(p)

-----------------------------------------------------------------------------
DaemonNext ==
    \/ Main \/ Start \/ ListenFails \/ StopOnError \/ DrainTimesOut
    \/ Signal \/ Crash \/ StreamEnds \/ StopReaper
    \/ \E p \in Handlers : Request(p) \/ Refuse(p)
    \/ \E p \in Boots : BootVM(p)
    \/ \E p \in Callers, s \in Sessions : Create(p, s)
    \/ \E p \in Handlers, s \in Sessions : Delete(p, s)
    \/ \E p \in Callers : GiveUp(p)
    \/ \E s \in Sessions : Sweep(s)
    \/ \E p \in Procs : Owed(p)

DaemonSpec == DaemonInit /\ [][DaemonNext]_daemonVars

\* The scheduler runs the main goroutine and every goroutine that can go on, and the
\* timer of shutdownCtx fires.  Calls of the pool's workers return (module Pool).
DaemonFairness ==
    /\ WF_daemonVars(Main)
    /\ WF_daemonVars(DrainTimesOut)
    /\ \A p \in Procs : WF_daemonVars(Owed(p))

FairDaemonSpec == DaemonSpec /\ DaemonFairness

-----------------------------------------------------------------------------
(* Properties *)

Stopping == {"drainData", "drainControl", "awaitControl", "closeCloud", "shutdown"}

\* The types of the variables.
DaemonTypeOK ==
    /\ TypeOK
    /\ main \in {"off", "listen", "connect", "serve"} \cup Stopping
    /\ cancelled \in BOOLEAN /\ stream \in BOOLEAN /\ reaping \in BOOLEAN
    /\ call \in [Callers -> {"none", "got", "pool"}]
    /\ late \in SUBSET Procs

\* An orderly stop leaves no VM behind.  When pool.Shutdown has returned, and no
\* request or command was on its way to a spawn when it took its list, what still
\* runs is what another goroutine is closing: nothing can start a VM after the list
\* is taken, and the list misses none, although removeWorker goes by session id.
CleanExit ==
    shut = "down" /\ late = {} =>
        \A w \in alive : \E p \in Procs : pc[p] = "close" /\ held[p] = w

\* The daemon stops once it was told to, or once a listener has failed, which cancels
\* nobody's context: requests that wait for capacity, commands without a deadline, a
\* reaper that goes on and a slow drain do not hold it up.
DaemonStops == (cancelled \/ main \in Stopping) ~> main = "off"

\* The goroutine of a boot_vm command that has its ticket, or whose Acquire has returned,
\* ends unless the process does first: no handler, reaper, stop or lost stream holds it
\* for ever.  Its answer may be lost with the stream, for an error of Send is only logged;
\* and nothing is said of one that waits for a ticket or for another's spawn.
BootEnds ==
    \A p \in Boots :
        (call[p] = "pool" /\ pc[p] \notin {"lookup", "wait", "ticket"}) ~> call[p] = "none"
=============================================================================
