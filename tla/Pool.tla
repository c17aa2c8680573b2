-------------------------------- MODULE Pool --------------------------------
(***************************************************************************)
(* The session pool of pool.go, as the herd daemon drives it: goroutines   *)
(* call Acquire and KillWorker concurrently, and Shutdown runs once.       *)
(*                                                                         *)
(* One action is one section of code that no other goroutine can observe   *)
(* half done: a critical section of p.mu, one channel operation, or one    *)
(* call of the worker factory.  FirecrackerWorker never calls its OnCrash  *)
(* callback, its Close always returns nil, the local registry never fails, *)
(* and the daemon never calls Session.Release; what those add is the       *)
(* subject of PoolLibrary.                                                 *)
(*                                                                         *)
(* A channel of p.inflight is named by the goroutine that made it while it *)
(* is open, and is ClosedChan from then on: closed channels differ in      *)
(* nothing a receiver can see.                                             *)
(***************************************************************************)
EXTENDS Integers, Sequences, FiniteSets

CONSTANTS
    Sessions,     \* session identifiers clients use
    Serials,      \* tells apart the worker objects of one session
    Procs,        \* goroutines that call the pool
    Max,          \* config.max, the capacity of the tickets channel
    IDIsSession,  \* TRUE: Worker.ID() is the session's id, as in Spawn
    NoSession, NoWorker, NoChan, ClosedChan

\* A worker object: the session it was spawned for and which object of that
\* session it is.  An object that nothing refers to any more is reused.
Workers == Sessions \X Serials

ASSUME MaxAssumption == Max \in Nat \ {0}
ASSUME FlagAssumption == IDIsSession \in BOOLEAN
ASSUME FiniteAssumption == IsFiniteSet(Sessions) /\ IsFiniteSet(Procs)
ASSUME NamesAssumption == /\ NoSession \notin Sessions
                          /\ NoWorker \notin Workers
                          /\ NoChan \notin Procs
                          /\ ClosedChan \notin Procs
                          /\ NoChan # ClosedChan

VARIABLES
    registry,  \* p.registry: the worker each session is pinned to
    inflight,  \* p.inflight: the channel of the Acquire creating the session
    workers,   \* p.workers
    tickets,   \* len(p.tickets)
    alive,     \* the workers spawned and not closed: one that powers itself off
               \* stays, because the pool never hears of it
    pc,        \* where each goroutine is
    sess,      \* the sessionID argument of its current call
    chan,      \* the inflight channel it made or waits on
    held,      \* its local variable w
    shut,      \* progress of Shutdown
    todo       \* Shutdown's copy of p.workers, the part not yet closed

vars == <<registry, inflight, workers, tickets, alive,
          pc, sess, chan, held, shut, todo>>
local == <<sess, chan, held>>

-----------------------------------------------------------------------------
(* Control states. *)

\* between registering the inflight channel and deleting it
Leading == {"ticket", "spawn", "refund", "unflight", "wire", "put"}
\* owning the channel: from its creation to close(ch)
Owning == Leading \cup {"closech"}
\* owning a ticket taken from p.tickets, or one taken over from a session
Charged == {"spawn", "refund", "wire", "put", "close", "discard", "remove", "giveback"}
\* owning a worker that no session is pinned to and that is not closed
Carrying == {"wire", "put", "close", "discard"}
States == Owning \cup Charged \cup {"idle", "lookup", "wait"}

Elements(seq) == {seq[i] : i \in DOMAIN seq}
Pinned == {s \in Sessions : registry[s] # NoWorker}
Holders == {p \in Procs : pc[p] \in Charged}
Carriers == {p \in Procs : pc[p] \in Carrying}

\* worker objects of session s that nothing refers to
Fresh(s) == {w \in {s} \X Serials :
                /\ w \notin alive
                /\ \A t \in Sessions : registry[t] # w
                /\ \A p \in Procs : held[p] # w
                /\ w \notin Elements(workers) \cup Elements(todo)}

AnyOf(S) == CHOOSE x \in S : TRUE

ID(w) == IF IDIsSession THEN w[1] ELSE w

-----------------------------------------------------------------------------
(* New *)
Init ==
    /\ registry = [s \in Sessions |-> NoWorker]
    /\ inflight = [s \in Sessions |-> NoChan]
    /\ workers = <<>>
    /\ tickets = Max
    /\ alive = {}
    /\ pc = [p \in Procs |-> "idle"]
    /\ sess = [p \in Procs |-> NoSession]
    /\ chan = [p \in Procs |-> NoChan]
    /\ held = [p \in Procs |-> NoWorker]
    /\ shut = "running"
    /\ todo = <<>>

Goto(p, label) == pc' = [pc EXCEPT ![p] = label]

\* A call returns: the goroutine keeps no reference.
Return(p) ==
    /\ Goto(p, "idle")
    /\ sess' = [sess EXCEPT ![p] = NoSession]
    /\ chan' = [chan EXCEPT ![p] = NoChan]
    /\ held' = [held EXCEPT ![p] = NoWorker]

-----------------------------------------------------------------------------
(* Acquire *)

\* A goroutine calls Acquire(ctx, s, config).
Acquire(p, s) ==
    /\ pc[p] = "idle"
    /\ Goto(p, "lookup")
    /\ sess' = [sess EXCEPT ![p] = s]
    /\ UNCHANGED <<registry, inflight, workers, tickets, alive, chan, held, shut, todo>>

LookupFound(p) ==
    /\ pc[p] = "lookup"
    /\ registry[sess[p]] # NoWorker
    /\ Return(p)
    /\ UNCHANGED <<registry, inflight, workers, tickets, alive, shut, todo>>

LookupPending(p) ==
    /\ pc[p] = "lookup"
    /\ registry[sess[p]] = NoWorker
    /\ inflight[sess[p]] # NoChan
    /\ Goto(p, "wait")
    /\ chan' = [chan EXCEPT ![p] = inflight[sess[p]]]
    /\ UNCHANGED <<registry, inflight, workers, tickets, alive, sess, held, shut, todo>>

LookupLeadUnchecked(p) ==
    /\ pc[p] = "lookup"
    /\ registry[sess[p]] = NoWorker
    /\ Goto(p, "ticket")
    /\ chan' = [chan EXCEPT ![p] = p]
    /\ inflight' = [inflight EXCEPT ![sess[p]] = p]
    /\ UNCHANGED <<registry, workers, tickets, alive, sess, held, shut, todo>>

LookupLead(p) ==
    /\ pc[p] = "lookup"
    /\ registry[sess[p]] = NoWorker
    /\ inflight[sess[p]] = NoChan
    /\ Goto(p, "ticket")
    /\ chan' = [chan EXCEPT ![p] = p]
    /\ inflight' = [inflight EXCEPT ![sess[p]] = p]
    /\ UNCHANGED <<registry, workers, tickets, alive, sess, held, shut, todo>>

\* case <-ch: continue
WaitDone(p) ==
    /\ pc[p] = "wait"
    /\ chan[p] = ClosedChan
    /\ Goto(p, "lookup")
    /\ chan' = [chan EXCEPT ![p] = NoChan]
    /\ UNCHANGED <<registry, inflight, workers, tickets, alive, sess, held, shut, todo>>

\* case <-ctx.Done() while waiting for the other Acquire
WaitCancelled(p) ==
    /\ pc[p] = "wait"
    /\ Return(p)
    /\ UNCHANGED <<registry, inflight, workers, tickets, alive, shut, todo>>

TakeTicketUnchecked(p) ==
    /\ pc[p] = "ticket"
    /\ tickets' = tickets - 1
    /\ Goto(p, "spawn")
    /\ UNCHANGED <<registry, inflight, workers, alive, local, shut, todo>>

TakeTicket(p) ==
    /\ pc[p] = "ticket"
    /\ tickets > 0
    /\ tickets' = tickets - 1
    /\ Goto(p, "spawn")
    /\ UNCHANGED <<registry, inflight, workers, alive, local, shut, todo>>

\* case <-ctx.Done() while waiting for capacity
TicketCancelledRefunds(p) ==
    /\ pc[p] = "ticket"
    /\ Goto(p, "refund")
    /\ UNCHANGED <<registry, inflight, workers, tickets, alive, local, shut, todo>>

TicketCancelled(p) ==
    /\ pc[p] = "ticket"
    /\ Goto(p, "unflight")
    /\ UNCHANGED <<registry, inflight, workers, tickets, alive, local, shut, todo>>

\* factory.Spawn returns the worker object w; which free object it is has no
\* meaning, and Next leaves TLC one choice.
SpawnOK(p, w) ==
    /\ pc[p] = "spawn"
    /\ w \in Fresh(sess[p])
    /\ held' = [held EXCEPT ![p] = w]
    /\ alive' = alive \cup {w}
    /\ Goto(p, "wire")
    /\ UNCHANGED <<registry, inflight, workers, tickets, sess, chan, shut, todo>>

SpawnFail(p) ==
    /\ pc[p] = "spawn"
    /\ Goto(p, "refund")
    /\ UNCHANGED <<registry, inflight, workers, tickets, alive, local, shut, todo>>

\* p.tickets <- struct{}{} after a failed Spawn: blocks while the channel is full
RefundTicket(p) ==
    /\ pc[p] = "refund"
    /\ tickets < Max
    /\ tickets' = tickets + 1
    /\ Goto(p, "unflight")
    /\ UNCHANGED <<registry, inflight, workers, alive, local, shut, todo>>

\* delete(p.inflight, sessionID) on a failed Acquire
DropInflightOnly(p) ==
    /\ pc[p] = "unflight"
    /\ inflight' = [inflight EXCEPT ![sess[p]] = NoChan]
    /\ Return(p)
    /\ UNCHANGED <<registry, workers, tickets, alive, shut, todo>>

DropInflight(p) ==
    /\ pc[p] = "unflight"
    /\ inflight' = [inflight EXCEPT ![sess[p]] = NoChan]
    /\ Goto(p, "closech")
    /\ UNCHANGED <<registry, workers, tickets, alive, local, shut, todo>>

\* wireWorker.  The OnCrash registration before it changes nothing onCrash reads.
Wire(p) ==
    /\ pc[p] = "wire"
    /\ workers' = Append(workers, held[p])
    /\ Goto(p, "put")
    /\ UNCHANGED <<registry, inflight, tickets, alive, local, shut, todo>>

Put(p) ==
    /\ pc[p] = "put"
    /\ registry' = [registry EXCEPT ![sess[p]] = held[p]]
    /\ inflight' = [inflight EXCEPT ![sess[p]] = NoChan]
    /\ held' = [held EXCEPT ![p] = NoWorker]
    /\ Goto(p, "closech")
    /\ UNCHANGED <<workers, tickets, alive, sess, chan, shut, todo>>

\* close(ch), then Acquire returns: whoever waits on the channel now waits on
\* a closed one.  Were it closed already, close would panic (SingleFlight).
CloseChan(p) ==
    /\ pc[p] = "closech"
    /\ chan[p] = p
    /\ inflight' = [s \in Sessions |-> IF inflight[s] = p THEN ClosedChan ELSE inflight[s]]
    /\ chan' = [q \in Procs |-> IF q = p THEN NoChan
                                ELSE IF chan[q] = p THEN ClosedChan ELSE chan[q]]
    /\ Goto(p, "idle")
    /\ sess' = [sess EXCEPT ![p] = NoSession]
    /\ UNCHANGED <<registry, workers, tickets, alive, held, shut, todo>>

-----------------------------------------------------------------------------
(* KillWorker; Close, removeWorker and the ticket are its tail. *)

KillWorkerLate(p, s) ==
    /\ pc[p] = "idle"
    /\ registry[s] # NoWorker
    /\ sess' = [sess EXCEPT ![p] = s]
    /\ held' = [held EXCEPT ![p] = registry[s]]
    /\ Goto(p, "close")
    /\ UNCHANGED <<registry, inflight, workers, tickets, alive, chan, shut, todo>>

\* Kills of a session that is not pinned return nil and change nothing.
KillWorker(p, s) ==
    /\ pc[p] = "idle"
    /\ registry[s] # NoWorker
    /\ registry' = [registry EXCEPT ![s] = NoWorker]
    /\ sess' = [sess EXCEPT ![p] = s]
    /\ held' = [held EXCEPT ![p] = registry[s]]
    /\ Goto(p, "close")
    /\ UNCHANGED <<inflight, workers, tickets, alive, chan, shut, todo>>

\* w.Close(): the process is gone when it returns
CloseWorker(p) ==
    /\ pc[p] = "close"
    /\ alive' = alive \ {held[p]}
    /\ Goto(p, "remove")
    /\ UNCHANGED <<registry, inflight, workers, tickets, local, shut, todo>>

\* the entries of p.workers that removeWorker(w) takes for w
Hits(w) == {i \in DOMAIN workers : ID(workers[i]) = ID(w)}
Without(i) == SubSeq(workers, 1, i - 1) \o SubSeq(workers, i + 1, Len(workers))

RemoveWorkerLast(p) ==
    /\ pc[p] = "remove"
    /\ IF Hits(held[p]) = {} THEN UNCHANGED workers
       ELSE \E i \in Hits(held[p]) :
                (\A j \in Hits(held[p]) : i >= j) /\ workers' = Without(i)
    /\ Goto(p, "giveback")
    /\ UNCHANGED <<registry, inflight, tickets, alive, local, shut, todo>>

\* removeWorker: drops the first entry with the worker's ID
RemoveWorker(p) ==
    /\ pc[p] = "remove"
    /\ IF Hits(held[p]) = {} THEN UNCHANGED workers
       ELSE \E i \in Hits(held[p]) :
                (\A j \in Hits(held[p]) : i <= j) /\ workers' = Without(i)
    /\ Goto(p, "giveback")
    /\ UNCHANGED <<registry, inflight, tickets, alive, local, shut, todo>>

\* p.tickets <- struct{}{}, then the call returns
GiveBack(p) ==
    /\ pc[p] = "giveback"
    /\ tickets < Max
    /\ tickets' = tickets + 1
    /\ Return(p)
    /\ UNCHANGED <<registry, inflight, workers, alive, shut, todo>>

-----------------------------------------------------------------------------
(* Shutdown: the daemon calls it once, when it exits. *)

Shutdown ==
    /\ shut = "running"
    /\ shut' = "closing"
    /\ todo' = workers
    /\ UNCHANGED <<registry, inflight, workers, tickets, alive, pc, local>>

ShutdownClose ==
    /\ shut = "closing"
    /\ IF todo = <<>>
       THEN shut' = "down" /\ UNCHANGED <<alive, todo>>
       ELSE /\ alive' = alive \ {Head(todo)}
            /\ todo' = Tail(todo)
            /\ UNCHANGED shut
    /\ UNCHANGED <<registry, inflight, workers, tickets, pc, local>>

-----------------------------------------------------------------------------
\* The steps a goroutine owes once it is in a call.
Step(p) ==
    \/ LookupFound(p) \/ LookupPending(p) \/ LookupLead(p) \/ WaitDone(p)
    \/ TakeTicket(p) \/ SpawnOK(p, AnyOf(Fresh(sess[p]))) \/ SpawnFail(p)
    \/ RefundTicket(p) \/ DropInflight(p) \/ Wire(p) \/ Put(p) \/ CloseChan(p)
    \/ CloseWorker(p) \/ RemoveWorker(p) \/ GiveBack(p)

Next ==
    \/ \E p \in Procs :
        \/ \E s \in Sessions : Acquire(p, s) \/ KillWorker(p, s)
        \/ WaitCancelled(p) \/ TicketCancelled(p)
        \/ Step(p)
    \/ Shutdown
    \/ ShutdownClose

Spec == Init /\ [][Next]_vars

\* The Go scheduler runs every runnable goroutine.  Spawn returns: its waits on
\* the guest are bounded by deadlines, its calls to containerd are assumed to
\* end.  Close returns: it waits at most five seconds for the process.
Fairness ==
    /\ \A p \in Procs : WF_vars(Step(p))
    /\ WF_vars(ShutdownClose)

FairSpec == Spec /\ Fairness

-----------------------------------------------------------------------------
(* Properties *)

\* The types of the variables.
TypeOK ==
    /\ registry \in [Sessions -> Workers \cup {NoWorker}]
    /\ inflight \in [Sessions -> Procs \cup {NoChan, ClosedChan}]
    /\ workers \in Seq(Workers)
    /\ tickets \in 0..Max
    /\ alive \in SUBSET Workers
    /\ pc \in [Procs -> States]
    /\ sess \in [Procs -> Sessions \cup {NoSession}]
    /\ chan \in [Procs -> Procs \cup {NoChan, ClosedChan}]
    /\ held \in [Procs -> Workers \cup {NoWorker}]
    /\ shut \in {"running", "closing", "down"}
    /\ todo \in Seq(Workers)

\* Every ticket is in the channel, with a goroutine between taking and returning
\* it, or with a pinned session: none is lost on an error path of Acquire and
\* none is forged, whatever kills, failures and cancellations interleave.
TicketConservation ==
    tickets + Cardinality(Holders) + Cardinality(Pinned) = Max

\* options.go: "max is the ceiling: the pool will never spawn more than this many
\* workers."  Processes still being closed by a KillWorker count.
LiveAtMostMax == Cardinality(alive) <= Max

\* At most one Acquire creates a given session at a time, it owns the inflight
\* entry until it deletes it, nobody is pinned to the session meanwhile, and its
\* channel is open until it closes it: closing a closed channel would panic.
SingleFlight ==
    /\ \A p \in Procs : pc[p] \in Owning => chan[p] = p
    /\ \A p, q \in Procs :
        (pc[p] \in Leading /\ pc[q] \in Leading /\ sess[p] = sess[q]) => p = q
    /\ \A s \in Sessions : inflight[s] # NoChan =>
        /\ registry[s] = NoWorker
        /\ inflight[s] \in Procs
        /\ pc[inflight[s]] \in Leading /\ sess[inflight[s]] = s

\* A worker that a session is pinned to, or that one goroutine has taken over, is
\* in no one else's hands, so of all KillWorker calls one closes it.  Until Shutdown
\* starts, the worker a session is pinned to runs.
OneOwner ==
    /\ \A s, t \in Pinned : registry[s] = registry[t] => s = t
    /\ \A p, q \in Carriers : held[p] = held[q] => p = q
    /\ \A s \in Pinned, p \in Carriers : registry[s] # held[p]
    /\ shut = "running" => \A s \in Pinned : registry[s] \in alive

\* removeWorker goes by ID, and the daemon's IDs are session ids that come back
\* while an older worker of the session is still closing.  It never drops the
\* entry of a pinned worker, so Shutdown finds every one.
PinnedIsListed == \A s \in Pinned : registry[s] \in Elements(workers)

\* What the pool promises, module SessionPool: sessions, running workers and whether
\* Shutdown has begun, as a caller sees them.
Promise == INSTANCE SessionPool WITH
    pin <- registry, running <- alive, stopped <- shut # "running"

\* pool.go: "1 sessionID -> 1 Worker, for the lifetime of the session", and no more
\* than max workers.  Each critical section, channel operation and worker call maps
\* to one step of the promise or to none: a session never changes worker, and no
\* worker is closed under the session it is pinned to before Shutdown.
Implements == Promise!AbsSpec

\* Whoever owns a ticket gets to the end of its call: no send to p.tickets blocks
\* forever on a full channel.
TicketHolderReturns == \A p \in Procs : p \in Holders ~> pc[p] = "idle"

\* An Acquire parked on another's channel gets going once that Acquire has its
\* ticket, whether the spawn works or fails.
WaitersWake ==
    \A p, q \in Procs :
        (pc[p] = "wait" /\ chan[p] = q /\ pc[q] \in Owning \ {"ticket"})
            ~> ~(pc[p] = "wait" /\ chan[p] = q)
=============================================================================
