----------------------------- MODULE PoolLibrary -----------------------------
(***************************************************************************)
(* Package herd as a library.  To what the daemon does (module Pool) it    *)
(* adds the parts of the exported interface that the daemon leaves unused: *)
(* Session.Release, workers that report a crash through OnCrash, and calls *)
(* of a worker or a registry that return an error.                         *)
(***************************************************************************)
EXTENDS Pool

CONSTANT Features   \* which of "release", "crash" and "errors" the client meets

VARIABLES
    handle,    \* the Session each goroutine got from its last Acquire, unreleased
    exited,    \* workers that exited by themselves, their callback still to run
    reported   \* workers whose callback has run

libVars == <<handle, exited, reported>>
allVars == <<vars, libVars>>

LibInit ==
    /\ Init
    /\ handle = [p \in Procs |-> NoWorker]
    /\ exited = {}
    /\ reported = {}

\* worker objects the client or the worker's monitor still refers to
Retained == exited \cup reported \cup {handle[p] : p \in Procs}

\* Session.Release, once per Session, and Pool.release up to its unlock
Release(p) ==
    LET w == handle[p] IN
    /\ "release" \in Features
    /\ pc[p] = "idle" /\ w # NoWorker
    /\ handle' = [handle EXCEPT ![p] = NoWorker]
    /\ registry' = [registry EXCEPT ![w[1]] = NoWorker]
    /\ IF Hits(w) = {}
       THEN UNCHANGED <<pc, sess, held>>
       ELSE /\ Goto(p, "discard")
            /\ sess' = [sess EXCEPT ![p] = w[1]]
            /\ held' = [held EXCEPT ![p] = w]
    /\ UNCHANGED <<inflight, workers, tickets, alive, chan, shut, todo, exited, reported>>

\* w.Close() where the caller ignores an error
DiscardWorker(p) ==
    /\ pc[p] = "discard"
    /\ alive' = alive \ {held[p]}
    /\ Goto(p, "remove")
    /\ UNCHANGED <<registry, inflight, workers, tickets, local, shut, todo, libVars>>

\* w.Close() fails in KillWorker: it returns at once
KillCloseFails(p) ==
    /\ "errors" \in Features
    /\ pc[p] = "close"
    /\ Return(p)
    /\ UNCHANGED <<registry, inflight, workers, tickets, alive, shut, todo, libVars>>

\* registry.Put fails: close(ch), the inflight entry stays, the worker is discarded
PutFails(p) ==
    /\ "errors" \in Features
    /\ pc[p] = "put" /\ chan[p] = p
    /\ inflight' = [s \in Sessions |-> IF inflight[s] = p THEN ClosedChan ELSE inflight[s]]
    /\ chan' = [q \in Procs |-> IF chan[q] = p THEN ClosedChan ELSE chan[q]]
    /\ Goto(p, "discard")
    /\ UNCHANGED <<registry, workers, tickets, alive, sess, held, shut, todo, libVars>>

\* A wired worker exits by itself.
Crash(w) ==
    /\ "crash" \in Features
    /\ w \in alive /\ w \in Elements(workers)
    /\ alive' = alive \ {w}
    /\ exited' = exited \cup {w}
    /\ UNCHANGED <<registry, inflight, workers, tickets, pc, local, shut, todo, handle, reported>>

\* onCrash(sessionID) up to its unlock; removeWorker and the ticket are the tail
OnCrash(p, w) ==
    LET s == w[1]
        c == inflight[s]
    IN
    /\ pc[p] = "idle" /\ w \in exited
    /\ exited' = exited \ {w}
    /\ reported' = reported \cup {w}
    /\ registry' = [registry EXCEPT ![s] = NoWorker]
    /\ inflight' = [inflight EXCEPT ![s] = NoChan]
    /\ chan' = [q \in Procs |-> IF c # NoChan /\ chan[q] = c THEN ClosedChan ELSE chan[q]]
    /\ IF registry[s] = NoWorker
       THEN UNCHANGED <<pc, sess, held>>
       ELSE /\ Goto(p, "remove")
            /\ sess' = [sess EXCEPT ![p] = s]
            /\ held' = [held EXCEPT ![p] = registry[s]]
    /\ UNCHANGED <<workers, tickets, alive, shut, todo, handle>>

\* Acquire returns a Session: the client keeps it.
AcquireReturns(p) ==
    \/ /\ LookupFound(p)
       /\ handle' = [handle EXCEPT ![p] = registry[sess[p]]]
       /\ UNCHANGED <<exited, reported>>
    \/ /\ Put(p)
       /\ handle' = [handle EXCEPT ![p] = held[p]]
       /\ UNCHANGED <<exited, reported>>

\* Every other step of Pool leaves the client's state alone.
PoolStep(p) ==
    /\ \/ \E s \in Sessions : Acquire(p, s) \/ KillWorker(p, s)
       \/ LookupPending(p) \/ LookupLead(p) \/ WaitDone(p) \/ WaitCancelled(p)
       \/ TakeTicket(p) \/ TicketCancelled(p)
       \/ SpawnOK(p, AnyOf(Fresh(sess[p]) \ Retained)) \/ SpawnFail(p)
       \/ RefundTicket(p) \/ DropInflight(p) \/ Wire(p) \/ CloseChan(p)
       \/ CloseWorker(p) \/ RemoveWorker(p) \/ GiveBack(p)
    /\ UNCHANGED libVars

LibNext ==
    \/ \E p \in Procs :
        \/ PoolStep(p) \/ AcquireReturns(p)
        \/ Release(p) \/ DiscardWorker(p) \/ KillCloseFails(p) \/ PutFails(p)
        \/ \E w \in Workers : OnCrash(p, w)
    \/ \E w \in Workers : Crash(w)

LibSpec == LibInit /\ [][LibNext]_allVars
=============================================================================
