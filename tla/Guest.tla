-------------------------------- MODULE Guest --------------------------------
(***************************************************************************)
(* One VM from boot to power-off: the guest agent that is its PID 1        *)
(* (cmd/herd-guest-agent/main.go), the host's end of its vsock connections *)
(* (internal/vsock/dialer.go, the dial loop of Spawn, the exec handler of  *)
(* the API), and between them Firecracker's vsock device, which is         *)
(* external.                                                               *)
(*                                                                         *)
(* The agent is main, the goroutine that mounts the container, the exec    *)
(* server with a goroutine per shell, and reapZombies.  Processes are the  *)
(* workload W, the shells, and orphans: descendants of the workload that   *)
(* the kernel gives to PID 1 and that keep the workload's output pipe.     *)
(* What a connection carries is left out, but for the payload, which has   *)
(* been written or has not.                                                *)
(***************************************************************************)
EXTENDS Integers, Sequences

CONSTANTS
    MaxTries,    \* bound on the dials that Spawn makes in its 30 seconds
    W, Shells, Orphans

Procs == {W} \cup Shells \cup Orphans
Tries == 1 .. MaxTries

ASSUME GuestAssumption ==
    /\ MaxTries \in Nat \ {0}
    /\ W \notin Shells \cup Orphans /\ Shells \cap Orphans = {}

VARIABLES
    vm,        \* "up" or "off"
    main,      \* main: the next call it makes
    setup,     \* goroutine of phase 3: "idle", "mount", "net" or "ready" (readyCh closed)
    server,    \* startExecServer: "idle", "start", "listening" or "gone"
    shell,     \* per shell, its connection to port 5001
    reaper,    \* reapZombies: "recv" or "drain"
    signal,    \* SIGCHLD is pending
    channel,   \* the buffer of c, of one signal, is full
    proc,      \* per process: "none", "alive", "zombie" or "reaped"
    host,      \* Spawn's dial loop, then vsock.Execute
    try,       \* the dial it is at
    link,      \* per dial: "none", "sent", "reset" or "made" (in the guest's backlog)
    held,      \* the dials whose connection the host has not closed
    paid,      \* the dials on which the payload was written
    backlog,   \* connections that main has not accepted
    served     \* the connection it accepted, or 0

agentVars == <<main, setup, server, shell>>
procVars == <<reaper, signal, channel, proc>>
hostVars == <<host, try, held, paid>>
linkVars == <<link, backlog, served>>
vars == <<vm, agentVars, procVars, hostVars, linkVars>>

Init ==
    /\ vm = "up" /\ main = "base" /\ setup = "idle" /\ server = "idle"
    /\ shell = [s \in Shells |-> "none"]
    /\ reaper = "recv" /\ signal = FALSE /\ channel = FALSE
    /\ proc = [p \in Procs |-> "none"]
    /\ host = "dial" /\ try = 1
    /\ link = [c \in Tries |-> "none"]
    /\ held = {} /\ paid = {} /\ backlog = <<>> /\ served = 0

Up == vm = "up"
Dead(p) == proc[p] \in {"zombie", "reaped"}

-----------------------------------------------------------------------------
(* main *)

\* PowerOff stops the VM; die does the same after logging.
die ==
    /\ vm' = "off"
    /\ UNCHANGED <<agentVars, procVars, hostVars, linkVars>>

mountBaseFilesystems ==
    /\ Up /\ main = "base"
    /\ main' = "listen"
    /\ server' = "start"
    /\ UNCHANGED <<vm, setup, shell, procVars, hostVars, linkVars>>

\* the control listener, then the goroutine of phase 3
listenVsock ==
    /\ Up /\ main = "listen"
    /\ main' = "accept"
    /\ setup' = "mount"
    /\ UNCHANGED <<vm, server, shell, procVars, hostVars, linkVars>>

\* mounts that fail, a port that cannot be had in 51 attempts, a failing Accept
MainFails == Up /\ main \in {"base", "listen", "accept"} /\ die

\* the one connection that main ever accepts
Accept ==
    /\ Up /\ main = "accept" /\ backlog # <<>>
    /\ served' = Head(backlog)
    /\ backlog' = Tail(backlog)
    /\ main' = "decode"
    /\ UNCHANGED <<vm, setup, server, shell, procVars, hostVars, link>>

\* handleExecution, up to <-ready: the payload arrives, or the host has closed the
\* connection without writing one
Decode ==
    /\ Up /\ main = "decode"
    /\ \/ served \in paid /\ main' = "await"
       \/ served \notin paid \cup held /\ main' = "report"
    /\ UNCHANGED <<vm, setup, server, shell, procVars, hostVars, linkVars>>

HandleExecutionEarly ==
    /\ Up /\ main = "await"
    /\ proc' = [proc EXCEPT ![W] = "alive"]
    /\ main' = "wait"
    /\ UNCHANGED <<vm, setup, server, shell, reaper, signal, channel, hostVars, linkVars>>

\* once readyCh is closed: find the executable and start it, or fail to
handleExecution ==
    /\ Up /\ main = "await" /\ setup = "ready"
    /\ \/ proc' = [proc EXCEPT ![W] = "alive"] /\ main' = "wait"
       \/ UNCHANGED proc /\ main' = "report"
    /\ UNCHANGED <<vm, setup, server, shell, reaper, signal, channel, hostVars, linkVars>>

WaitForStatus(p) == proc[p] = "zombie" /\ proc' = [proc EXCEPT ![p] = "reaped"]

\* cmd.Wait, its first half: the process is gone, and either this call reaps it or
\* the reaper was first and the call reports that there is no such child
WaitProcess(p) ==
    /\ Dead(p)
    /\ proc' = [proc EXCEPT ![p] = "reaped"]

WaitWorkload ==
    /\ Up /\ main = "wait"
    /\ WaitProcess(W)
    /\ main' = "copy"
    /\ UNCHANGED <<vm, setup, server, shell, reaper, signal, channel, hostVars, linkVars>>

\* cmd.Wait, its second half.  Stdin, Stdout and Stderr are a net.Conn, so exec copies
\* through pipes and Wait waits for the copiers: the one of Stdin reads the connection
\* until the host closes it, the others read the pipe until its last writer is gone.
CopiersEnd ==
    /\ Up /\ main = "copy"
    /\ served \notin held
    /\ \A o \in Orphans : proc[o] # "alive"
    /\ main' = "report"
    /\ UNCHANGED <<vm, setup, server, shell, procVars, hostVars, linkVars>>

\* conn.Close, then the log lines
Report ==
    /\ Up /\ main = "report"
    /\ main' = "reboot"
    /\ UNCHANGED <<vm, setup, server, shell, procVars, hostVars, linkVars>>

Reboot == Up /\ main = "reboot" /\ die

-----------------------------------------------------------------------------
(* The goroutine of phase 3 *)

mountContainerFilesystems ==
    /\ Up /\ setup = "mount"
    /\ setup' = "net"
    /\ UNCHANGED <<vm, main, server, shell, procVars, hostVars, linkVars>>

\* lo, eth0 if there is one, the route and the resolver; then close(readyCh)
configureNetworking ==
    /\ Up /\ setup = "net"
    /\ setup' = "ready"
    /\ UNCHANGED <<vm, main, server, shell, procVars, hostVars, linkVars>>

SetupReturns ==
    /\ Up /\ setup \in {"mount", "net"}
    /\ setup' = "idle"
    /\ UNCHANGED <<vm, main, server, shell, procVars, hostVars, linkVars>>

SetupFails == Up /\ setup \in {"mount", "net"} /\ die

-----------------------------------------------------------------------------
(* The exec server and its shells *)

\* one attempt, without the retries of the control listener; a failure is logged and
\* the VM goes on without an exec server
startExecServer ==
    /\ Up /\ server = "start"
    /\ \E next \in {"listening", "gone"} : server' = next
    /\ UNCHANGED <<vm, main, setup, shell, procVars, hostVars, linkVars>>

\* handleExecSession dials port 5001 and gets its answer
ExecSession(s) ==
    /\ Up /\ server = "listening" /\ shell[s] = "none"
    /\ shell' = [shell EXCEPT ![s] = "queued"]
    /\ UNCHANGED <<vm, main, setup, server, procVars, hostVars, linkVars>>

AcceptExec(s) ==
    /\ Up /\ server = "listening" /\ shell[s] = "queued"
    /\ shell' = [shell EXCEPT ![s] = "await"]
    /\ UNCHANGED <<vm, main, setup, server, procVars, hostVars, linkVars>>

\* <-ready, then pty.Start, which may fail; the shell has the terminal itself as its
\* standard files, so its Wait has no copiers to wait for
handleInteractiveShell(s) ==
    /\ Up /\ shell[s] = "await" /\ setup = "ready"
    /\ \/ proc' = [proc EXCEPT ![s] = "alive"] /\ shell' = [shell EXCEPT ![s] = "run"]
       \/ UNCHANGED proc /\ shell' = [shell EXCEPT ![s] = "closed"]
    /\ UNCHANGED <<vm, main, setup, server, reaper, signal, channel, hostVars, linkVars>>

\* cmd.Wait returns: the terminal and the connection are closed.  A client that leaves
\* earlier ends the copying, and nothing else: its shell lives on.
ShellReturns(s) ==
    /\ Up /\ shell[s] = "run"
    /\ WaitProcess(s)
    /\ shell' = [shell EXCEPT ![s] = "closed"]
    /\ UNCHANGED <<vm, main, setup, server, reaper, signal, channel, hostVars, linkVars>>

-----------------------------------------------------------------------------
(* Processes, SIGCHLD and reapZombies *)

\* a descendant of the running workload loses its parent
Reparent(o) ==
    /\ Up /\ proc[W] = "alive" /\ proc[o] = "none"
    /\ proc' = [proc EXCEPT ![o] = "alive"]
    /\ UNCHANGED <<vm, agentVars, reaper, signal, channel, hostVars, linkVars>>

\* p ends; a second SIGCHLD while one is pending is the same signal
Exit(p) ==
    /\ Up /\ proc[p] = "alive"
    /\ proc' = [proc EXCEPT ![p] = "zombie"]
    /\ signal' = TRUE
    /\ UNCHANGED <<vm, agentVars, reaper, channel, hostVars, linkVars>>

\* the runtime sends the signal to c, and drops it if the buffer is full
Notify ==
    /\ Up /\ signal
    /\ signal' = FALSE
    /\ channel' = TRUE
    /\ UNCHANGED <<vm, agentVars, reaper, proc, hostVars, linkVars>>

ReceiveSignal ==
    /\ Up /\ reaper = "recv" /\ channel
    /\ channel' = FALSE
    /\ reaper' = "drain"
    /\ UNCHANGED <<vm, agentVars, signal, proc, hostVars, linkVars>>

ReapOnce ==
    /\ Up /\ reaper = "drain"
    /\ \E p \in Procs : proc[p] = "zombie" /\ proc' = [proc EXCEPT ![p] = "reaped"]
    /\ reaper' = "recv"
    /\ UNCHANGED <<vm, agentVars, signal, channel, hostVars, linkVars>>

\* Wait4(-1, WNOHANG), until there is nothing to reap: any child, also one that a
\* cmd.Wait is about to reap
reapZombies ==
    /\ Up /\ reaper = "drain"
    /\ \/ /\ \E p \in Procs : proc[p] = "zombie" /\ proc' = [proc EXCEPT ![p] = "reaped"]
          /\ UNCHANGED reaper
       \/ /\ \A p \in Procs : proc[p] # "zombie"
          /\ reaper' = "recv" /\ UNCHANGED proc
    /\ UNCHANGED <<vm, agentVars, signal, channel, hostVars, linkVars>>

-----------------------------------------------------------------------------
(* The host *)

RedialForever ==
    /\ held' = held \ {try}
    /\ try' = try + 1 /\ host' = "dial"
    /\ UNCHANGED paid

\* the dial failed: Spawn tries again until its 30 seconds are over
Redial ==
    /\ held' = held \ {try}
    /\ IF try < MaxTries THEN try' = try + 1 /\ host' = "dial"
       ELSE host' = "failed" /\ UNCHANGED try
    /\ UNCHANGED paid

\* DialContext and the CONNECT line, then waiting for the answer
DialFirecracker ==
    /\ Up /\ host = "dial"
    /\ host' = "sent"
    /\ held' = held \cup {try}
    /\ link' = [link EXCEPT ![try] = "sent"]
    /\ UNCHANGED <<vm, agentVars, procVars, try, paid, backlog, served>>

\* no socket yet or no longer, or a context that has ended
DialFails ==
    /\ host = "dial"
    /\ Redial
    /\ UNCHANGED <<vm, agentVars, procVars, linkVars>>

\* Firecracker passes the request on, maybe after the host has given up on it
Answer(c) ==
    /\ Up /\ link[c] = "sent"
    /\ IF main \in {"base", "listen"}
       THEN link' = [link EXCEPT ![c] = "reset"] /\ UNCHANGED backlog
       ELSE link' = [link EXCEPT ![c] = "made"] /\ backlog' = Append(backlog, c)
    /\ UNCHANGED <<vm, agentVars, procVars, hostVars, served>>

\* the answer is OK
ReadOK ==
    /\ host = "sent" /\ link[try] = "made"
    /\ host' = "open"
    /\ UNCHANGED <<vm, agentVars, procVars, try, held, paid, linkVars>>

\* the connection was reset, or the read deadline passed
ReadFails ==
    /\ host = "sent"
    /\ Redial
    /\ UNCHANGED <<vm, agentVars, procVars, linkVars>>

\* vsock.Execute: write the payload, then copy the output
Execute ==
    /\ host = "open"
    /\ \/ Up /\ host' = "stream" /\ paid' = paid \cup {try} /\ UNCHANGED held
       \/ ~Up /\ host' = "closed" /\ held' = held \ {try} /\ UNCHANGED paid
    /\ UNCHANGED <<vm, agentVars, procVars, try, linkVars>>

\* io.Copy sees the end of the stream, or workerCtx is cancelled, by Close, by a
\* rollback or with the whole daemon
StreamEnds ==
    /\ host = "stream"
    /\ host' = "closed"
    /\ held' = held \ {try}
    /\ UNCHANGED <<vm, agentVars, procVars, try, paid, linkVars>>

\* Process.Kill, in Close and in the rollback
Kill ==
    /\ Up /\ host \in {"failed", "closed"}
    /\ vm' = "off"
    /\ UNCHANGED <<agentVars, procVars, hostVars, linkVars>>

-----------------------------------------------------------------------------
MainStep ==
    \/ mountBaseFilesystems \/ listenVsock \/ MainFails \/ Accept \/ Decode
    \/ handleExecution \/ WaitWorkload \/ CopiersEnd \/ Report \/ Reboot
SetupStep == mountContainerFilesystems \/ configureNetworking \/ SetupFails
ShellStep(s) == AcceptExec(s) \/ handleInteractiveShell(s) \/ ShellReturns(s)
ReaperStep == ReceiveSignal \/ reapZombies
DialStep == DialFirecracker \/ DialFails \/ ReadOK \/ ReadFails \/ Execute

Next ==
    \/ MainStep \/ SetupStep \/ startExecServer \/ ReaperStep \/ Notify
    \/ \E s \in Shells : ExecSession(s) \/ ShellStep(s)
    \/ \E o \in Orphans : Reparent(o)
    \/ \E p \in Procs : Exit(p)
    \/ \E c \in Tries : Answer(c)
    \/ DialStep \/ StreamEnds \/ Kill

Spec == Init /\ [][Next]_vars

\* Goroutines are scheduled and signals and requests are delivered.  Nothing is
\* assumed of processes, which may run for ever, of clients, or of the host's
\* cancelling or killing anything.
Fairness ==
    /\ WF_vars(MainStep) /\ WF_vars(SetupStep) /\ WF_vars(startExecServer)
    /\ WF_vars(ReaperStep) /\ WF_vars(Notify)
    /\ \A s \in Shells : WF_vars(ShellStep(s))
    /\ \A c \in Tries : WF_vars(Answer(c))
    /\ WF_vars(DialStep)

FairSpec == Spec /\ Fairness

-----------------------------------------------------------------------------
(* Properties *)

\* The types of the variables.
TypeOK ==
    /\ vm \in {"up", "off"}
    /\ main \in {"base", "listen", "accept", "decode", "await", "wait", "copy", "report", "reboot"}
    /\ setup \in {"idle", "mount", "net", "ready"}
    /\ server \in {"idle", "start", "listening", "gone"}
    /\ shell \in [Shells -> {"none", "queued", "await", "run", "closed"}]
    /\ reaper \in {"recv", "drain"} /\ signal \in BOOLEAN /\ channel \in BOOLEAN
    /\ proc \in [Procs -> {"none", "alive", "zombie", "reaped"}]
    /\ host \in {"dial", "sent", "open", "stream", "closed", "failed"}
    /\ try \in Tries /\ link \in [Tries -> {"none", "sent", "reset", "made"}]
    /\ held \in SUBSET Tries /\ paid \in SUBSET Tries
    /\ backlog \in Seq(Tries) /\ served \in Tries \cup {0}

\* main.go, phase 3: although both vsock servers answer before the container is
\* mounted and the network is up, no workload and no shell starts before they are.
ReadyFirst == \A p \in {W} \cup Shells : proc[p] # "none" => setup = "ready"

\* reapZombies: "Loop intensely through Wait4 to catch all dead children".  No dead
\* child stays a zombie, although signals merge and the channel holds one.
ZombiesReaped ==
    \A p \in Procs : proc[p] = "zombie" ~> (proc[p] = "reaped" \/ vm = "off")

\* A dial that Spawn takes for a success leads to a workload or to a VM that is off,
\* whichever step of the boot fails and whichever connection main accepted: nobody
\* waits for ever on readyCh or for a payload that does not come.
DialledIsServed == host = "open" ~> (proc[W] # "none" \/ vm = "off")

\* When the workload and what it left behind are dead and the host has closed the
\* connection, the VM shuts down, also if reapZombies took the exit status.
AbandonedShutsDown ==
    (Dead(W) /\ host = "closed" /\ \A o \in Orphans : proc[o] # "alive") ~> vm = "off"

\* main.go after handleExecution: "Main workload finished ... shutting down VM".
FinishedShutsDown ==
    (Dead(W) /\ \A o \in Orphans : proc[o] # "alive") ~> vm = "off"
=============================================================================
