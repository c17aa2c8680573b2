----------------------------- MODULE SessionPool -----------------------------
(***************************************************************************)
(* What package herd promises its callers of the session pool, without     *)
(* goroutines, channels or tickets: at most Max workers run, a session has *)
(* one worker from the moment it is pinned until it is unpinned, no two    *)
(* sessions share one, and a worker is closed only once no session is      *)
(* pinned to it, unless the pool is being shut down.  Pool implements it.  *)
(***************************************************************************)
EXTENDS Integers, FiniteSets

CONSTANTS Sessions, Workers, Max, NoWorker

VARIABLES
    pin,      \* the worker each session is pinned to
    running,  \* the workers started and not closed
    stopped   \* Shutdown has begun

absVars == <<pin, running, stopped>>

AbsInit ==
    /\ pin = [s \in Sessions |-> NoWorker]
    /\ running = {}
    /\ stopped = FALSE

Start(w) ==
    /\ w \notin running
    /\ Cardinality(running) < Max
    /\ running' = running \cup {w}
    /\ UNCHANGED <<pin, stopped>>

Pin(s, w) ==
    /\ pin[s] = NoWorker
    /\ \A t \in Sessions : pin[t] # w
    /\ w \in running \/ stopped
    /\ pin' = [pin EXCEPT ![s] = w]
    /\ UNCHANGED <<running, stopped>>

Unpin(s) ==
    /\ pin[s] # NoWorker
    /\ pin' = [pin EXCEPT ![s] = NoWorker]
    /\ UNCHANGED <<running, stopped>>

Close(w) ==
    /\ w \in running
    /\ stopped \/ \A s \in Sessions : pin[s] # w
    /\ running' = running \ {w}
    /\ UNCHANGED <<pin, stopped>>

Stop ==
    /\ ~stopped
    /\ stopped' = TRUE
    /\ UNCHANGED <<pin, running>>

AbsNext ==
    \/ \E w \in Workers : Start(w) \/ Close(w) \/ \E s \in Sessions : Pin(s, w)
    \/ \E s \in Sessions : Unpin(s)
    \/ Stop

AbsSpec == AbsInit /\ [][AbsNext]_absVars
=============================================================================
