------------------------------ MODULE Lifecycle ------------------------------
(***************************************************************************)
(* The session leases of internal/lifecycle, driven by the controller      *)
(* (internal/daemon/controller.go), the data-plane proxy (proxy/proxy.go)  *)
(* and the reaper.  Two registries describe a session, the pool's and the  *)
(* manager's, and no lock covers both: every operation updates one, then   *)
(* the other.                                                              *)
(*                                                                         *)
(* Of the pool only the registry is kept: Acquire and KillWorker are the   *)
(* critical sections that pin and unpin (module Pool).  Of the clock only  *)
(* the two comparisons that sweep makes are kept: the fields expired and   *)
(* stale say that a lease is older than AbsoluteTTL, or idle for longer    *)
(* than IdleTTL.  LastControlHeartbeat is written but never read, so       *)
(* UpdateHeartbeat changes nothing here.                                   *)
(***************************************************************************)
EXTENDS Integers, FiniteSets, Functions

CONSTANTS
    Sessions,
    Procs,     \* goroutines that serve control-plane and data-plane requests
    Leases,    \* addresses of *SessionState objects
    RuleSets,  \* which of "ttl" and "idle" a request may set
    NoSession, NoLease

ASSUME RulesAssumption == RuleSets \subseteq SUBSET {"ttl", "idle"}
ASSUME NamesAssumption == NoSession \notin Sessions /\ NoLease \notin Leases
ASSUME FiniteAssumption == IsFiniteSet(Procs)

VARIABLES
    pinned,    \* the sessions in the pool's registry
    lease,     \* m.registry
    heap,      \* the leases at the addresses that can be read
    pc, sess, ptr,                  \* per goroutine; ptr is its local variable state
    reaper,    \* where the reaper is
    todo,      \* the part of sweep's snapshot not yet examined
    victim,    \* the session sweep is killing
    cut        \* sessions that lost the lease of a live worker to EndRequest's Remove
               \* (a history variable)

procVars == <<pc, sess, ptr>>
reaperVars == <<reaper, todo, victim>>
vars == <<pinned, lease, heap, procVars, reaperVars, cut>>

\* A lease: ActiveConns, which TTLs are set, and whether they have passed.
LeaseType == [conns : Nat, rules : SUBSET {"ttl", "idle"}, expired : BOOLEAN, stale : BOOLEAN]
NewLease(r) == [conns |-> 0, rules |-> r, expired |-> FALSE, stale |-> FALSE]

\* Leases whose contents can still be read: by a lookup or by the sweep.  A lease
\* that only a goroutine's pointer keeps alive takes updates nobody reads.
Readable == ({lease[s] : s \in Sessions} \cup {x[2] : x \in todo}) \ {NoLease}
Free == Leases \ (Readable \cup {ptr[p] : p \in Procs})

\* The heap becomes h, less what the step makes unreadable.
Heap(h) == heap' = Restrict(h, Readable' \cap DOMAIN h)
Update(o, r) == IF o \in DOMAIN heap THEN [heap EXCEPT ![o] = r] ELSE heap

\* requests on s between BeginRequest's increment and the end of EndRequest
Open(s) == {p \in Procs : sess[p] = s /\ pc[p] \in {"route", "serve", "end", "uncount"}}

Init ==
    /\ pinned = {}
    /\ lease = [s \in Sessions |-> NoLease]
    /\ heap = [o \in {} |-> NewLease({})]
    /\ pc = [p \in Procs |-> "idle"]
    /\ sess = [p \in Procs |-> NoSession]
    /\ ptr = [p \in Procs |-> NoLease]
    /\ reaper = "idle"
    /\ todo = {}
    /\ victim = NoSession
    /\ cut = {}

Goto(p, label) == pc' = [pc EXCEPT ![p] = label]
Call(p, s, label) == Goto(p, label) /\ sess' = [sess EXCEPT ![p] = s]
Return(p) ==
    /\ Goto(p, "idle")
    /\ sess' = [sess EXCEPT ![p] = NoSession]
    /\ ptr' = [ptr EXCEPT ![p] = NoLease]

-----------------------------------------------------------------------------
(* Controller *)

\* CreateSession: pool.Acquire finds the worker or makes one
Create(p, s) ==
    /\ pc[p] = "idle"
    /\ pinned' = pinned \cup {s}
    /\ Call(p, s, "register")
    /\ UNCHANGED <<lease, heap, ptr, reaperVars, cut>>

\* CreateSession: lifecycleManager.Register, with the TTLs of the request
Register(p) ==
    /\ pc[p] = "register"
    /\ Free # {}
    /\ Return(p)
    /\ cut' = cut \ {sess[p]}
    /\ UNCHANGED <<pinned, reaperVars>>
    /\ LET o == CHOOSE x \in Free : TRUE IN
        /\ lease' = [lease EXCEPT ![sess[p]] = o]
        /\ \E r \in RuleSets :
            Heap([x \in DOMAIN heap \cup {o} |-> IF x = o THEN NewLease(r) ELSE heap[x]])

UnregisterOnly(p, s) ==
    /\ pc[p] = "idle"
    /\ lease' = [lease EXCEPT ![s] = NoLease]
    /\ UNCHANGED <<pinned, procVars, reaperVars, cut>>
    /\ Heap(heap)

\* DeleteSession -> UnregisterAndKill: the lease goes first
Unregister(p, s) ==
    /\ pc[p] = "idle"
    /\ lease' = [lease EXCEPT ![s] = NoLease]
    /\ Call(p, s, "kill")
    /\ UNCHANGED <<pinned, ptr, reaperVars, cut>>
    /\ Heap(heap)

\* UnregisterAndKill: then pool.KillWorker
Kill(p) ==
    /\ pc[p] = "kill"
    /\ pinned' = pinned \ {sess[p]} /\ cut' = cut \ {sess[p]}
    /\ Return(p)
    /\ UNCHANGED <<lease, heap, reaperVars>>

-----------------------------------------------------------------------------
(* The proxy's ServeHTTP *)

\* BeginRequest looks the lease up; without one it returns
BeginRequest(p, s) ==
    /\ pc[p] = "idle"
    /\ ptr' = [ptr EXCEPT ![p] = lease[s]]
    /\ Call(p, s, IF lease[s] = NoLease THEN "route" ELSE "count")
    /\ UNCHANGED <<pinned, lease, heap, reaperVars, cut>>

\* state.ActiveConns++
CountIn(p) ==
    /\ pc[p] = "count"
    /\ ptr' = [ptr EXCEPT ![p] = NoLease]
    /\ Goto(p, "route")
    /\ UNCHANGED <<pinned, lease, sess, reaperVars, cut>>
    /\ Heap(Update(ptr[p], [heap[ptr[p]] EXCEPT !.conns = @ + 1]))

RouteNoDefer(p) ==
    /\ pc[p] = "route"
    /\ IF sess[p] \in pinned THEN Goto(p, "serve") /\ UNCHANGED <<sess, ptr>>
       ELSE Return(p)
    /\ UNCHANGED <<pinned, lease, heap, reaperVars, cut>>

\* LookupOnly: GetSession, 404 when the session is not pinned
Route(p) ==
    /\ pc[p] = "route"
    /\ Goto(p, IF sess[p] \in pinned THEN "serve" ELSE "end")
    /\ UNCHANGED <<pinned, lease, heap, sess, ptr, reaperVars, cut>>

\* the response is complete, or the client went away
Served(p) ==
    /\ pc[p] = "serve"
    /\ Goto(p, "end")
    /\ UNCHANGED <<pinned, lease, heap, sess, ptr, reaperVars, cut>>

\* EndRequest looks the lease up again
EndRequest(p) ==
    /\ pc[p] = "end"
    /\ IF lease[sess[p]] = NoLease THEN Return(p)
       ELSE /\ ptr' = [ptr EXCEPT ![p] = lease[sess[p]]]
            /\ Goto(p, "uncount")
            /\ UNCHANGED sess
    /\ UNCHANGED <<pinned, lease, heap, reaperVars, cut>>

UncountedUnclamped(o) == Update(o, [heap[o] EXCEPT !.conns = @ - 1, !.stale = FALSE])

\* state.ActiveConns--, not below zero; LastDataActivity = now
Uncounted(o) == Update(o, [heap[o] EXCEPT !.conns = IF @ > 0 THEN @ - 1 ELSE 0, !.stale = FALSE])

CountOut(p) ==
    /\ pc[p] = "uncount"
    /\ Return(p)
    /\ UNCHANGED <<pinned, lease, reaperVars, cut>>
    /\ Heap(Uncounted(ptr[p]))

-----------------------------------------------------------------------------
(* EndRequest when the request's context ran into its deadline.  The daemon's *)
(* servers set none; a handler around the proxy may.                          *)

CountOutLate(p) ==
    /\ pc[p] = "uncount"
    /\ Goto(p, "guillotine")
    /\ ptr' = [ptr EXCEPT ![p] = NoLease]
    /\ UNCHANGED <<pinned, lease, sess, reaperVars, cut>>
    /\ Heap(Uncounted(ptr[p]))

\* m.reaper.KillWorker(sessionID, "data_plane_deadlock")
Guillotine(p) ==
    /\ pc[p] = "guillotine"
    /\ pinned' = pinned \ {sess[p]} /\ cut' = cut \ {sess[p]}
    /\ Goto(p, "remove")
    /\ UNCHANGED <<lease, heap, sess, ptr, reaperVars>>

\* m.Remove(sessionID)
Remove(p) ==
    /\ pc[p] = "remove"
    /\ lease' = [lease EXCEPT ![sess[p]] = NoLease]
    /\ cut' = cut \cup ({sess[p]} \cap pinned)
    /\ Return(p)
    /\ UNCHANGED <<pinned, reaperVars>>
    /\ Heap(heap)

-----------------------------------------------------------------------------
(* The clock.  It does not move for a lease that only the sweep still holds:  *)
(* the sweep compares with the time at which it began.                        *)

Current(o) == \E s \in Sessions : lease[s] = o

TTLPasses(o) ==
    /\ Current(o)
    /\ "ttl" \in heap[o].rules /\ ~heap[o].expired
    /\ heap' = [heap EXCEPT ![o].expired = TRUE]
    /\ UNCHANGED <<pinned, lease, procVars, reaperVars, cut>>

IdlePasses(o) ==
    /\ Current(o)
    /\ "idle" \in heap[o].rules /\ ~heap[o].stale
    /\ heap' = [heap EXCEPT ![o].stale = TRUE]
    /\ UNCHANGED <<pinned, lease, procVars, reaperVars, cut>>

-----------------------------------------------------------------------------
(* The reaper: one sweep at every tick *)

Sweep ==
    /\ reaper = "idle"
    /\ todo' = {<<s, lease[s]>> : s \in {t \in Sessions : lease[t] # NoLease}}
    /\ reaper' = "sweep"
    /\ UNCHANGED <<pinned, lease, heap, procVars, victim, cut>>

\* rules 1 and 3 of sweep
DueUnlessBusy(o) == heap[o].conns = 0 /\ (heap[o].expired \/ heap[o].stale)
Due(o) == heap[o].expired \/ (heap[o].stale /\ heap[o].conns = 0)

\* the loop body up to its decision; maps are ranged over in any order
Examine(x) ==
    /\ reaper = "sweep" /\ x \in todo
    /\ todo' = todo \ {x}
    /\ IF Due(x[2]) THEN reaper' = "unregister" /\ victim' = x[1]
       ELSE UNCHANGED <<reaper, victim>>
    /\ UNCHANGED <<pinned, lease, procVars, cut>>
    /\ Heap(heap)

\* UnregisterAndKill(id): the lease the session has by now
ReapUnregister ==
    /\ reaper = "unregister"
    /\ lease' = [lease EXCEPT ![victim] = NoLease]
    /\ reaper' = "kill"
    /\ UNCHANGED <<pinned, procVars, todo, victim, cut>>
    /\ Heap(heap)

ReapKill ==
    /\ reaper = "kill"
    /\ pinned' = pinned \ {victim} /\ cut' = cut \ {victim}
    /\ reaper' = "sweep" /\ victim' = NoSession
    /\ UNCHANGED <<lease, heap, procVars, todo>>

SweepDone ==
    /\ reaper = "sweep" /\ todo = {}
    /\ reaper' = "idle"
    /\ UNCHANGED <<pinned, lease, heap, procVars, todo, victim, cut>>

-----------------------------------------------------------------------------
Reaper == Sweep \/ (\E x \in todo : Examine(x)) \/ ReapUnregister \/ ReapKill \/ SweepDone

\* what a goroutine owes; Served is the client's to decide
Step(p) ==
    \/ Register(p) \/ Kill(p) \/ CountIn(p) \/ Route(p) \/ EndRequest(p)
    \/ CountOut(p) \/ CountOutLate(p) \/ Guillotine(p) \/ Remove(p)

Next ==
    \/ \E p \in Procs :
        \/ \E s \in Sessions : Create(p, s) \/ Unregister(p, s) \/ BeginRequest(p, s)
        \/ Step(p) \/ Served(p)
    \/ \E o \in Leases : TTLPasses(o) \/ IdlePasses(o)
    \/ Reaper

Spec == Init /\ [][Next]_vars

\* The scheduler runs the goroutines and the reaper's ticker; time passes.
Fairness ==
    /\ \A p \in Procs : WF_vars(Step(p))
    /\ \A o \in Leases : WF_vars(IdlePasses(o))
    /\ WF_vars(Reaper)

FairSpec == Spec /\ Fairness

-----------------------------------------------------------------------------
(* Properties *)

\* The types of the variables.
TypeOK ==
    /\ pinned \in SUBSET Sessions
    /\ lease \in [Sessions -> Leases \cup {NoLease}]
    /\ DOMAIN heap = Readable /\ \A o \in DOMAIN heap : heap[o] \in LeaseType
    /\ pc \in [Procs -> {"idle", "register", "kill", "count", "route", "serve", "end",
                         "uncount", "guillotine", "remove"}]
    /\ sess \in [Procs -> Sessions \cup {NoSession}]
    /\ ptr \in [Procs -> Leases \cup {NoLease}]
    /\ reaper \in {"idle", "sweep", "unregister", "kill"}
    /\ todo \in SUBSET (Sessions \X Leases)
    /\ victim \in Sessions \cup {NoSession}
    /\ cut \in SUBSET Sessions

\* manager.go: "we want to ensure no zombie processes".  A worker no lease covers,
\* which no TTL will ever end, is about to be registered or about to be killed.  One
\* order of steps escapes: EndRequest on a deadline kills first and removes the lease
\* second, and a create in between loses its new lease (cut).
NoOrphanWorker ==
    \A s \in pinned :
        \/ lease[s] # NoLease
        \/ \E p \in Procs : sess[p] = s /\ pc[p] \in {"register", "kill"}
        \/ reaper = "kill" /\ victim = s
        \/ s \in cut

\* ActiveConns never exceeds the requests in flight, although a request may begin
\* on one lease and end on the next: a count that stays above zero would keep an
\* abandoned session forever.
NeverOvercounted ==
    \A s \in Sessions : lease[s] # NoLease => heap[lease[s]].conns <= Cardinality(Open(s))

\* A lease whose absolute TTL has passed is gone some sweeps later, whatever the
\* clients do.
TTLEnforced ==
    \A s \in Sessions, o \in Leases :
        (lease[s] = o /\ heap[o].expired) ~> (lease[s] # o \/ ~heap[o].expired)

\* A session with an idle timeout that clients stop using does not keep its lease.
AbandonedIsReaped ==
    \A s \in Sessions, o \in Leases :
        []<>~(lease[s] = o /\ "idle" \in heap[o].rules /\ \A p \in Procs : sess[p] # s)
=============================================================================
