--------------------------- MODULE LifecycleProofs ---------------------------
(***************************************************************************)
(* Proofs about the session leases, for every number of sessions,          *)
(* goroutines and lease objects.                                           *)
(*                                                                         *)
(* The argument.  A lease object belongs to one session, and a goroutine   *)
(* between a lookup and its counter holds a lease that is its session's or *)
(* nobody's any more (Held).  So a decrement that comes too late, after    *)
(* the session was registered again, hits an object no lookup returns, and *)
(* ActiveConns is bounded by the requests that can still decrement it      *)
(* (Counted): the ones that have yet to look the lease up again, and those *)
(* that found the lease of today.                                          *)
(***************************************************************************)
EXTENDS Lifecycle, FiniteSetTheorems, TLAPS

\* A goroutine in a call has a session, and the reaper a victim while it kills
\* and an empty list between two sweeps.
InCall ==
    /\ \A p \in Procs : pc[p] # "idle" => sess[p] \in Sessions
    /\ reaper \in {"unregister", "kill"} => victim \in Sessions
    /\ reaper = "idle" => todo = {}

\* The lease that a goroutine looked up is its session's, or no session's.
Held ==
    /\ \A s, t \in Sessions : lease[s] = lease[t] /\ lease[s] # NoLease => s = t
    /\ \A p \in Procs : pc[p] \in {"count", "uncount"} =>
        /\ ptr[p] \in Leases
        /\ \A t \in Sessions : lease[t] = ptr[p] => t = sess[p]

\* the types of the variables but heap
BaseType ==
    /\ pinned \in SUBSET Sessions
    /\ lease \in [Sessions -> Leases \cup {NoLease}]
    /\ pc \in [Procs -> {"idle", "register", "kill", "count", "route", "serve", "end",
                         "uncount", "guillotine", "remove"}]
    /\ sess \in [Procs -> Sessions \cup {NoSession}]
    /\ ptr \in [Procs -> Leases \cup {NoLease}]
    /\ reaper \in {"idle", "sweep", "unregister", "kill"}
    /\ todo \in SUBSET (Sessions \X Leases)
    /\ victim \in Sessions \cup {NoSession}
    /\ cut \in SUBSET Sessions

HeapType == DOMAIN heap = Readable /\ \A o \in DOMAIN heap : heap[o] \in LeaseType

LeaseInv == BaseType /\ InCall /\ Held /\ HeapType

\* requests that may be counted in the lease their session has now
Counted(s) == {p \in Procs :
    /\ sess[p] = s
    /\ \/ pc[p] \in {"route", "serve", "end"}
       \/ pc[p] = "uncount" /\ ptr[p] = lease[s]}

\* ActiveConns is at most the number of those.
Bound == \A s \in Sessions : lease[s] # NoLease => heap[lease[s]].conns <= Cardinality(Counted(s))

-----------------------------------------------------------------------------
(* Leases and the heap *)

\* A new lease is well formed and counts nothing.
LEMMA NewLeaseType ==
    ASSUME NEW r \in SUBSET {"ttl", "idle"} PROVE NewLease(r) \in LeaseType /\ NewLease(r).conns = 0
  BY DEF NewLease, LeaseType

\* the lease with these fields
LeaseOf(c, r, e, i) == [conns |-> c, rules |-> r, expired |-> e, stale |-> i]

\* What an assignment to one field of a lease makes of it.
LEMMA FieldUpdate ==
    ASSUME NEW c, NEW r, NEW e, NEW i, NEW x
    PROVE  /\ LeaseOf(c, r, e, i).conns = c
           /\ [LeaseOf(c, r, e, i) EXCEPT !.conns = x] = LeaseOf(x, r, e, i)
           /\ [LeaseOf(c, r, e, i) EXCEPT !.expired = x] = LeaseOf(c, r, x, i)
<1>1. LeaseOf(c, r, e, i).conns = c
  BY DEF LeaseOf
<1>2. [LeaseOf(c, r, e, i) EXCEPT !.conns = x] = LeaseOf(x, r, e, i)
  BY SMTT(30) DEF LeaseOf
<1>3. [LeaseOf(c, r, e, i) EXCEPT !.expired = x] = LeaseOf(c, r, x, i)
  BY SMTT(30) DEF LeaseOf
<1> QED
  BY <1>1, <1>2, <1>3

\* The same of the field stale.
LEMMA StaleUpdate ==
    ASSUME NEW c, NEW r, NEW e, NEW i, NEW x
    PROVE  [LeaseOf(c, r, e, i) EXCEPT !.stale = x] = LeaseOf(c, r, e, x)
  BY SMTT(30) DEF LeaseOf

\* What an update of a lease does to its counter; the result is a lease.
LEMMA UpdateType ==
    ASSUME NEW l \in LeaseType
    PROVE  /\ l.conns \in Nat
           /\ [l EXCEPT !.conns = @ + 1] \in LeaseType
           /\ [l EXCEPT !.conns = @ + 1].conns = l.conns + 1
           /\ [l EXCEPT !.conns = IF @ > 0 THEN @ - 1 ELSE 0, !.stale = FALSE] \in LeaseType
           /\ [l EXCEPT !.conns = IF @ > 0 THEN @ - 1 ELSE 0, !.stale = FALSE].conns
                = IF l.conns > 0 THEN l.conns - 1 ELSE 0
           /\ [l EXCEPT !.expired = TRUE] \in LeaseType
           /\ [l EXCEPT !.expired = TRUE].conns = l.conns
           /\ [l EXCEPT !.stale = TRUE] \in LeaseType
           /\ [l EXCEPT !.stale = TRUE].conns = l.conns
<1>1. \E c \in Nat, r \in SUBSET {"ttl", "idle"}, e \in BOOLEAN, i \in BOOLEAN : l = LeaseOf(c, r, e, i)
  BY Zenon DEF LeaseType, LeaseOf
<1>2. PICK c \in Nat, r \in SUBSET {"ttl", "idle"}, e \in BOOLEAN, i \in BOOLEAN : l = LeaseOf(c, r, e, i)
  BY <1>1
<1>3. \A d \in Nat, f \in BOOLEAN, g \in BOOLEAN : LeaseOf(d, r, f, g) \in LeaseType
  BY Zenon DEF LeaseType, LeaseOf
<1>4. l.conns = c
  BY <1>2, FieldUpdate
<1>5. PICK t : t = TRUE
  OBVIOUS
<1>6. PICK f : f = FALSE
  OBVIOUS
<1>7. t \in BOOLEAN /\ f \in BOOLEAN
  BY <1>5, <1>6, Zenon
<1>8. [l EXCEPT !.conns = @ + 1] = LeaseOf(c + 1, r, e, i)
  <2>1. [l EXCEPT !.conns = @ + 1] = [l EXCEPT !.conns = l.conns + 1]
    BY Zenon
  <2> QED
    BY <1>2, <1>4, <2>1, FieldUpdate
<1>9. PICK d : d = IF c > 0 THEN c - 1 ELSE 0
  OBVIOUS
<1>10. c + 1 \in Nat /\ d \in Nat
  BY <1>9
<1>11. [l EXCEPT !.conns = IF @ > 0 THEN @ - 1 ELSE 0, !.stale = FALSE] = LeaseOf(d, r, e, f)
  <2>1. [l EXCEPT !.conns = IF @ > 0 THEN @ - 1 ELSE 0, !.stale = FALSE]
          = [l EXCEPT !.conns = IF l.conns > 0 THEN l.conns - 1 ELSE 0, !.stale = FALSE]
    BY Zenon
  <2>2. [l EXCEPT !.conns = IF l.conns > 0 THEN l.conns - 1 ELSE 0, !.stale = FALSE]
          = [[l EXCEPT !.conns = d] EXCEPT !.stale = f]
    BY <1>4, <1>6, <1>9, Zenon
  <2>3. PICK m : m = [l EXCEPT !.conns = d]
    OBVIOUS
  <2>4. m = LeaseOf(d, r, e, i)
    BY <1>2, <2>3, FieldUpdate
  <2>5. [m EXCEPT !.stale = f] = LeaseOf(d, r, e, f)
    BY <2>4, StaleUpdate
  <2> QED
    BY <2>1, <2>2, <2>3, <2>5, Zenon
<1>12. [l EXCEPT !.expired = TRUE] = LeaseOf(c, r, t, i)
  <2>1. [l EXCEPT !.expired = t] = LeaseOf(c, r, t, i)
    BY <1>2, FieldUpdate
  <2> QED
    BY <1>5, <2>1, Zenon
<1>13. [l EXCEPT !.stale = TRUE] = LeaseOf(c, r, e, t)
  <2>1. [l EXCEPT !.stale = t] = LeaseOf(c, r, e, t)
    BY <1>2, StaleUpdate
  <2> QED
    BY <1>5, <2>1, Zenon
<1>14. /\ LeaseOf(c + 1, r, e, i) \in LeaseType /\ LeaseOf(c + 1, r, e, i).conns = c + 1
       /\ LeaseOf(d, r, e, f) \in LeaseType /\ LeaseOf(d, r, e, f).conns = d
       /\ LeaseOf(c, r, t, i) \in LeaseType /\ LeaseOf(c, r, t, i).conns = c
       /\ LeaseOf(c, r, e, t) \in LeaseType /\ LeaseOf(c, r, e, t).conns = c
  <2>1. /\ LeaseOf(c + 1, r, e, i) \in LeaseType /\ LeaseOf(d, r, e, f) \in LeaseType
        /\ LeaseOf(c, r, t, i) \in LeaseType /\ LeaseOf(c, r, e, t) \in LeaseType
    BY <1>3, <1>7, <1>10, Zenon
  <2>2. \A y, e1, i1 : LeaseOf(y, r, e1, i1).conns = y
    BY FieldUpdate
  <2> QED
    BY <2>1, <2>2, Zenon
<1> QED
  BY <1>2, <1>4, <1>8, <1>9, <1>11, <1>12, <1>13, <1>14, Zenon

\* The heap after a step is the given one where it can still be read.
LEMMA HeapIs ==
    ASSUME NEW h, Heap(h)
    PROVE  /\ DOMAIN heap' = Readable' \cap DOMAIN h
           /\ \A o \in DOMAIN heap' : heap'[o] = h[o]
  BY DEF Heap, Restrict

\* A current lease can be read.
LEMMA CurrentReadable ==
    ASSUME BaseType, NEW s \in Sessions, lease[s] # NoLease PROVE lease[s] \in Readable
  BY DEF BaseType, Readable

-----------------------------------------------------------------------------
(* The invariant, part by part *)

\* Every step keeps the types of the variables but heap, and the sessions of calls.
LEMMA BaseStep == LeaseInv /\ [Next]_vars => BaseType' /\ InCall'
<1> SUFFICES ASSUME LeaseInv, [Next]_vars PROVE BaseType' /\ InCall'
  OBVIOUS
<1>0. BaseType /\ InCall
  BY DEF LeaseInv
<1> USE <1>0 DEF BaseType, InCall, procVars, reaperVars
<1>1. ASSUME NEW p \in Procs, NEW s \in Sessions, Create(p, s) PROVE BaseType' /\ InCall'
  BY <1>1 DEF Create, Call, Goto
<1>2. ASSUME NEW p \in Procs, NEW s \in Sessions, Unregister(p, s) PROVE BaseType' /\ InCall'
  BY <1>2 DEF Unregister, Call, Goto
<1>3. ASSUME NEW p \in Procs, NEW s \in Sessions, BeginRequest(p, s) PROVE BaseType' /\ InCall'
  BY <1>3 DEF BeginRequest, Call, Goto
<1>4. ASSUME NEW p \in Procs, Register(p) PROVE BaseType' /\ InCall'
  <2>1. (CHOOSE x \in Free : TRUE) \in Leases
    BY <1>4 DEF Register, Free
  <2> QED
    BY <1>4, <2>1 DEF Register, Return, Goto
<1>5. ASSUME NEW p \in Procs, Kill(p) PROVE BaseType' /\ InCall'
  BY <1>5 DEF Kill, Return, Goto
<1>6. ASSUME NEW p \in Procs, CountIn(p) PROVE BaseType' /\ InCall'
  BY <1>6 DEF CountIn, Goto
<1>7. ASSUME NEW p \in Procs, Route(p) PROVE BaseType' /\ InCall'
  BY <1>7 DEF Route, Goto
<1>8. ASSUME NEW p \in Procs, EndRequest(p) PROVE BaseType' /\ InCall'
  BY <1>8 DEF EndRequest, Return, Goto
<1>9. ASSUME NEW p \in Procs, CountOut(p) PROVE BaseType' /\ InCall'
  BY <1>9 DEF CountOut, Return, Goto
<1>10. ASSUME NEW p \in Procs, CountOutLate(p) PROVE BaseType' /\ InCall'
  BY <1>10 DEF CountOutLate, Goto
<1>11. ASSUME NEW p \in Procs, Guillotine(p) PROVE BaseType' /\ InCall'
  BY <1>11 DEF Guillotine, Goto
<1>12. ASSUME NEW p \in Procs, Remove(p) PROVE BaseType' /\ InCall'
  BY <1>12 DEF Remove, Return, Goto
<1>13. ASSUME NEW p \in Procs, Served(p) PROVE BaseType' /\ InCall'
  BY <1>13 DEF Served, Goto
<1>14. ASSUME NEW o \in Leases, TTLPasses(o) PROVE BaseType' /\ InCall'
  BY <1>14 DEF TTLPasses
<1>15. ASSUME NEW o \in Leases, IdlePasses(o) PROVE BaseType' /\ InCall'
  BY <1>15 DEF IdlePasses
<1>16. ASSUME Sweep PROVE BaseType' /\ InCall'
  BY <1>16 DEF Sweep
<1>17. ASSUME NEW x \in todo, Examine(x) PROVE BaseType' /\ InCall'
  BY <1>17 DEF Examine
<1>18. ASSUME ReapUnregister PROVE BaseType' /\ InCall'
  BY <1>18 DEF ReapUnregister
<1>19. ASSUME ReapKill PROVE BaseType' /\ InCall'
  BY <1>19 DEF ReapKill
<1>20. ASSUME SweepDone PROVE BaseType' /\ InCall'
  BY <1>20 DEF SweepDone
<1>21. ASSUME UNCHANGED vars PROVE BaseType' /\ InCall'
  BY <1>21 DEF vars
<1> QED
  BY <1>1, <1>2, <1>3, <1>4, <1>5, <1>6, <1>7, <1>8, <1>9, <1>10, <1>11, <1>12, <1>13, <1>14,
     <1>15, <1>16, <1>17, <1>18, <1>19, <1>20, <1>21 DEF Next, Step, Reaper

\* No step gives one lease object to two sessions, or to a session whose goroutine
\* already holds it from another time.
LEMMA HeldStep == LeaseInv /\ [Next]_vars => Held'
<1> SUFFICES ASSUME LeaseInv, [Next]_vars PROVE Held'
  OBVIOUS
<1>0. BaseType /\ InCall /\ Held
  BY DEF LeaseInv
<1> USE <1>0, NamesAssumption DEF BaseType, InCall, Held, procVars, reaperVars
<1>1. ASSUME NEW p \in Procs, NEW s \in Sessions, Create(p, s) PROVE Held'
  BY <1>1 DEF Create, Call, Goto
<1>2. ASSUME NEW p \in Procs, NEW s \in Sessions, Unregister(p, s) PROVE Held'
  BY <1>2 DEF Unregister, Call, Goto
<1>3. ASSUME NEW p \in Procs, NEW s \in Sessions, BeginRequest(p, s) PROVE Held'
  BY <1>3 DEF BeginRequest, Call, Goto
<1>4. ASSUME NEW p \in Procs, Register(p) PROVE Held'
  <2> DEFINE o == CHOOSE x \in Free : TRUE
  <2>1. o \in Leases /\ (\A t \in Sessions : lease[t] # o) /\ (\A q \in Procs : ptr[q] # o)
    BY <1>4 DEF Register, Free, Readable
  <2>2. lease' = [lease EXCEPT ![sess[p]] = o] /\ Return(p) /\ pc[p] = "register"
    BY <1>4 DEF Register
  <2> HIDE DEF o
  <2> QED
    BY <2>1, <2>2 DEF Return, Goto
<1>5. ASSUME NEW p \in Procs, Kill(p) PROVE Held'
  BY <1>5 DEF Kill, Return, Goto
<1>6. ASSUME NEW p \in Procs, CountIn(p) PROVE Held'
  BY <1>6 DEF CountIn, Goto
<1>7. ASSUME NEW p \in Procs, Route(p) PROVE Held'
  BY <1>7 DEF Route, Goto
<1>8. ASSUME NEW p \in Procs, EndRequest(p) PROVE Held'
  BY <1>8 DEF EndRequest, Return, Goto
<1>9. ASSUME NEW p \in Procs, CountOut(p) PROVE Held'
  BY <1>9 DEF CountOut, Return, Goto
<1>10. ASSUME NEW p \in Procs, CountOutLate(p) PROVE Held'
  BY <1>10 DEF CountOutLate, Goto
<1>11. ASSUME NEW p \in Procs, Guillotine(p) PROVE Held'
  BY <1>11 DEF Guillotine, Goto
<1>12. ASSUME NEW p \in Procs, Remove(p) PROVE Held'
  BY <1>12 DEF Remove, Return, Goto
<1>13. ASSUME NEW p \in Procs, Served(p) PROVE Held'
  BY <1>13 DEF Served, Goto
<1>14. ASSUME NEW o \in Leases, TTLPasses(o) PROVE Held'
  BY <1>14 DEF TTLPasses
<1>15. ASSUME NEW o \in Leases, IdlePasses(o) PROVE Held'
  BY <1>15 DEF IdlePasses
<1>16. ASSUME Sweep PROVE Held'
  BY <1>16 DEF Sweep
<1>17. ASSUME NEW x \in todo, Examine(x) PROVE Held'
  BY <1>17 DEF Examine
<1>18. ASSUME ReapUnregister PROVE Held'
  BY <1>18 DEF ReapUnregister
<1>19. ASSUME ReapKill PROVE Held'
  BY <1>19 DEF ReapKill
<1>20. ASSUME SweepDone PROVE Held'
  BY <1>20 DEF SweepDone
<1>21. ASSUME UNCHANGED vars PROVE Held'
  BY <1>21 DEF vars
<1> QED
  BY <1>1, <1>2, <1>3, <1>4, <1>5, <1>6, <1>7, <1>8, <1>9, <1>10, <1>11, <1>12, <1>13, <1>14,
     <1>15, <1>16, <1>17, <1>18, <1>19, <1>20, <1>21 DEF Next, Step, Reaper

\* Every step keeps the heap and the leases in it.
LEMMA HeapStep == LeaseInv /\ BaseType' /\ [Next]_vars => HeapType'
<1> SUFFICES ASSUME LeaseInv, BaseType', [Next]_vars PROVE HeapType'
  OBVIOUS
<1>0. BaseType /\ InCall /\ HeapType
  BY DEF LeaseInv
<1> DEFINE Same == UNCHANGED <<lease, heap, todo>>
<1>a. Same => HeapType'
  BY <1>0 DEF HeapType, Readable
<1>b. ASSUME NEW h, Heap(h), Readable' \subseteq DOMAIN h, \A o \in DOMAIN h : h[o] \in LeaseType
      PROVE  HeapType'
  BY <1>b, HeapIs DEF HeapType
<1>c. \A o \in Readable : heap[o] \in LeaseType
  BY <1>0 DEF HeapType
<1> USE <1>0, NamesAssumption DEF BaseType, procVars, reaperVars
<1>1. ASSUME NEW p \in Procs, NEW s \in Sessions, Create(p, s) PROVE HeapType'
  BY <1>1, <1>a DEF Create
<1>2. ASSUME NEW p \in Procs, NEW s \in Sessions, Unregister(p, s) PROVE HeapType'
  <2>1. Heap(heap) /\ Readable' \subseteq Readable
    BY <1>2 DEF Unregister, Readable
  <2> QED
    BY <1>b, <1>c, <2>1 DEF HeapType
<1>3. ASSUME NEW p \in Procs, NEW s \in Sessions, BeginRequest(p, s) PROVE HeapType'
  BY <1>3, <1>a DEF BeginRequest
<1>4. ASSUME NEW p \in Procs, Register(p) PROVE HeapType'
  <2> DEFINE o == CHOOSE x \in Free : TRUE
             H(r) == [x \in DOMAIN heap \cup {o} |-> IF x = o THEN NewLease(r) ELSE heap[x]]
  <2>1. o \in Leases /\ lease' = [lease EXCEPT ![sess[p]] = o] /\ todo' = todo
    BY <1>4 DEF Register, Free
  <2>2. PICK r \in RuleSets : Heap(H(r))
    BY <1>4 DEF Register
  <2> HIDE DEF o
  <2>3. Readable' \subseteq Readable \cup {o}
    BY <2>1 DEF Readable
  <2>4. DOMAIN H(r) = DOMAIN heap \cup {o} /\ \A x \in DOMAIN H(r) : H(r)[x] \in LeaseType
    BY <1>c, NewLeaseType, RulesAssumption DEF HeapType
  <2>5. Readable' \subseteq DOMAIN H(r)
    BY <2>3, <2>4 DEF HeapType
  <2> HIDE DEF H
  <2> QED
    BY <1>b, <2>2, <2>4, <2>5
<1>5. ASSUME NEW p \in Procs, Kill(p) PROVE HeapType'
  BY <1>5, <1>a DEF Kill
<1>6. ASSUME NEW p \in Procs, CountIn(p) PROVE HeapType'
  <2>1. Heap(Update(ptr[p], [heap[ptr[p]] EXCEPT !.conns = @ + 1])) /\ Readable' = Readable
    BY <1>6 DEF CountIn, Readable
  <2>2. DOMAIN Update(ptr[p], [heap[ptr[p]] EXCEPT !.conns = @ + 1]) = DOMAIN heap
        /\ \A o \in DOMAIN heap :
            Update(ptr[p], [heap[ptr[p]] EXCEPT !.conns = @ + 1])[o] \in LeaseType
    BY <1>c, UpdateType DEF Update, HeapType
  <2> QED
    BY <1>b, <2>1, <2>2 DEF HeapType
<1>7. ASSUME NEW p \in Procs, Route(p) PROVE HeapType'
  BY <1>7, <1>a DEF Route
<1>8. ASSUME NEW p \in Procs, EndRequest(p) PROVE HeapType'
  BY <1>8, <1>a DEF EndRequest
<1>9. ASSUME NEW p \in Procs, CountOut(p) PROVE HeapType'
  <2>1. Heap(Uncounted(ptr[p])) /\ Readable' = Readable
    BY <1>9 DEF CountOut, Readable
  <2>2. DOMAIN Uncounted(ptr[p]) = DOMAIN heap /\ \A o \in DOMAIN heap : Uncounted(ptr[p])[o] \in LeaseType
    BY <1>c, UpdateType DEF Update, Uncounted, HeapType
  <2> QED
    BY <1>b, <2>1, <2>2 DEF HeapType
<1>10. ASSUME NEW p \in Procs, CountOutLate(p) PROVE HeapType'
  <2>1. Heap(Uncounted(ptr[p])) /\ Readable' = Readable
    BY <1>10 DEF CountOutLate, Readable
  <2>2. DOMAIN Uncounted(ptr[p]) = DOMAIN heap /\ \A o \in DOMAIN heap : Uncounted(ptr[p])[o] \in LeaseType
    BY <1>c, UpdateType DEF Update, Uncounted, HeapType
  <2> QED
    BY <1>b, <2>1, <2>2 DEF HeapType
<1>11. ASSUME NEW p \in Procs, Guillotine(p) PROVE HeapType'
  BY <1>11, <1>a DEF Guillotine
<1>12. ASSUME NEW p \in Procs, Remove(p) PROVE HeapType'
  <2>1. Heap(heap) /\ Readable' \subseteq Readable
    BY <1>12 DEF Remove, Readable
  <2> QED
    BY <1>b, <1>c, <2>1 DEF HeapType
<1>13. ASSUME NEW p \in Procs, Served(p) PROVE HeapType'
  BY <1>13, <1>a DEF Served
<1>14. ASSUME NEW o \in Leases, TTLPasses(o) PROVE HeapType'
  <2>1. o \in DOMAIN heap /\ heap' = [heap EXCEPT ![o].expired = TRUE] /\ Readable' = Readable
    BY <1>14 DEF TTLPasses, Current, Readable, HeapType
  <2>2. DOMAIN heap' = DOMAIN heap /\ \A x \in DOMAIN heap : heap'[x] \in LeaseType
    BY <1>c, <2>1, UpdateType DEF HeapType
  <2> QED
    BY <2>1, <2>2 DEF HeapType
<1>15. ASSUME NEW o \in Leases, IdlePasses(o) PROVE HeapType'
  <2>1. o \in DOMAIN heap /\ heap' = [heap EXCEPT ![o].stale = TRUE] /\ Readable' = Readable
    BY <1>15 DEF IdlePasses, Current, Readable, HeapType
  <2>2. DOMAIN heap' = DOMAIN heap /\ \A x \in DOMAIN heap : heap'[x] \in LeaseType
    BY <1>c, <2>1, UpdateType DEF HeapType
  <2> QED
    BY <2>1, <2>2 DEF HeapType
<1>16. ASSUME Sweep PROVE HeapType'
  <2>1. heap' = heap /\ lease' = lease
    BY <1>16 DEF Sweep
  <2>2. Readable' = Readable
    BY <1>16 DEF Sweep, Readable, InCall
  <2> QED
    BY <2>1, <2>2 DEF HeapType
<1>17. ASSUME NEW x \in todo, Examine(x) PROVE HeapType'
  <2>1. Heap(heap) /\ Readable' \subseteq Readable
    BY <1>17 DEF Examine, Readable
  <2> QED
    BY <1>b, <1>c, <2>1 DEF HeapType
<1>18. ASSUME ReapUnregister PROVE HeapType'
  <2>1. Heap(heap) /\ Readable' \subseteq Readable
    BY <1>18 DEF ReapUnregister, Readable
  <2> QED
    BY <1>b, <1>c, <2>1 DEF HeapType
<1>19. ASSUME ReapKill PROVE HeapType'
  BY <1>19, <1>a DEF ReapKill
<1>20. ASSUME SweepDone PROVE HeapType'
  BY <1>20, <1>a DEF SweepDone
<1>21. ASSUME UNCHANGED vars PROVE HeapType'
  BY <1>21, <1>a DEF vars
<1> QED
  BY <1>1, <1>2, <1>3, <1>4, <1>5, <1>6, <1>7, <1>8, <1>9, <1>10, <1>11, <1>12, <1>13, <1>14,
     <1>15, <1>16, <1>17, <1>18, <1>19, <1>20, <1>21 DEF Next, Step, Reaper

-----------------------------------------------------------------------------
(* Connections *)

\* The requests of a session are finitely many.
LEMMA CountedFinite ==
    ASSUME NEW s PROVE IsFiniteSet(Counted(s)) /\ Cardinality(Counted(s)) \in Nat
<1>1. Counted(s) \in SUBSET Procs
  BY DEF Counted
<1> QED
  BY <1>1, FiniteAssumption, FS_Subset, FS_CardinalityType

\* A request that leaves after the decrement: both sides go down by one, or the lease
\* it decremented is not its session's any more and it was not counted.
LEMMA CountOutBound ==
    ASSUME LeaseInv, LeaseInv', Bound, NEW p \in Procs, pc[p] = "uncount",
           lease' = lease, Heap(Uncounted(ptr[p])), Readable' = Readable,
           NEW label \in {"idle", "guillotine"}, pc' = [pc EXCEPT ![p] = label],
           \A q \in Procs \ {p} : sess'[q] = sess[q] /\ ptr'[q] = ptr[q]
    PROVE  Bound'
<1> SUFFICES ASSUME NEW s \in Sessions, lease[s] # NoLease
             PROVE  heap'[lease[s]].conns <= Cardinality(Counted(s)')
  BY DEF Bound
<1>0. BaseType /\ InCall /\ Held /\ HeapType /\ BaseType' /\ HeapType'
  BY DEF LeaseInv
<1>1. lease[s] \in DOMAIN heap /\ heap[lease[s]] \in LeaseType /\ lease[s] \in DOMAIN heap'
  BY <1>0, CurrentReadable DEF HeapType
<1>2. heap'[lease[s]] = Uncounted(ptr[p])[lease[s]]
  BY <1>1, HeapIs
<1>3. heap[lease[s]].conns <= Cardinality(Counted(s)) /\ heap[lease[s]].conns \in Nat
  BY <1>1, UpdateType DEF Bound
<1>4. CASE ptr[p] = lease[s]
  <2>1. sess[p] = s
    BY <1>0, <1>4 DEF Held
  <2>2. p \in Counted(s) /\ Counted(s)' = Counted(s) \ {p}
    BY <1>0, <1>4, <2>1 DEF Counted, BaseType
  <2>3. Cardinality(Counted(s)') = Cardinality(Counted(s)) - 1 /\ Cardinality(Counted(s)) # 0
    <3>1. Cardinality(Counted(s)') = Cardinality(Counted(s)) - 1
      BY <2>2, CountedFinite, FS_RemoveElement
    <3>2. Cardinality(Counted(s)) # 0
      BY <2>2, CountedFinite, FS_EmptySet
    <3> QED
      BY <3>1, <3>2
  <2>4. heap'[lease[s]].conns = IF heap[lease[s]].conns > 0 THEN heap[lease[s]].conns - 1 ELSE 0
    <3> DEFINE l == heap[lease[s]]
    <3>1. Uncounted(ptr[p])[lease[s]] = [l EXCEPT !.conns = IF @ > 0 THEN @ - 1 ELSE 0, !.stale = FALSE]
      BY <1>1, <1>4, Zenon DEF Uncounted, Update
    <3>2. l \in LeaseType
      BY <1>1
    <3> HIDE DEF l
    <3>3. [l EXCEPT !.conns = IF @ > 0 THEN @ - 1 ELSE 0, !.stale = FALSE].conns = IF l.conns > 0 THEN l.conns - 1 ELSE 0
      BY <3>2, UpdateType
    <3> QED
      BY <1>2, <3>1, <3>3, Zenon DEF l
  <2> QED
    BY <1>3, <2>3, <2>4, CountedFinite
<1>5. CASE ptr[p] # lease[s]
  <2>1. Counted(s)' = Counted(s)
    BY <1>0, <1>5 DEF Counted, BaseType
  <2>2. heap'[lease[s]] = heap[lease[s]]
    <3>1. Uncounted(ptr[p])[lease[s]] = heap[lease[s]]
      <4> DEFINE R == [heap[ptr[p]] EXCEPT !.conns = IF @ > 0 THEN @ - 1 ELSE 0, !.stale = FALSE]
      <4>1. Uncounted(ptr[p]) = Update(ptr[p], R)
        BY DEF Uncounted
      <4> HIDE DEF R
      <4> QED
        BY <1>1, <1>5, <4>1 DEF Update
    <3> QED
      BY <1>2, <3>1
  <2> QED
    BY <1>3, <2>1, <2>2
<1> QED
  BY <1>4, <1>5

\* The increment: both sides go up by one, or only the requests do.
LEMMA CountInBound ==
    ASSUME LeaseInv, LeaseInv', Bound, NEW p \in Procs, CountIn(p)
    PROVE  Bound'
<1>0. BaseType /\ InCall /\ Held /\ HeapType /\ BaseType' /\ HeapType'
  BY DEF LeaseInv
<1> DEFINE R == [heap[ptr[p]] EXCEPT !.conns = @ + 1]
<1>1. /\ pc[p] = "count" /\ pc' = [pc EXCEPT ![p] = "route"] /\ ptr' = [ptr EXCEPT ![p] = NoLease]
      /\ lease' = lease /\ sess' = sess /\ Heap(Update(ptr[p], R)) /\ Readable' = Readable
  BY DEF CountIn, Goto, Readable, reaperVars
<1> SUFFICES ASSUME NEW s \in Sessions, lease[s] # NoLease
             PROVE  heap'[lease[s]].conns <= Cardinality(Counted(s)')
  BY <1>1 DEF Bound
<1>2. lease[s] \in DOMAIN heap /\ heap[lease[s]] \in LeaseType /\ lease[s] \in DOMAIN heap'
  BY <1>0, <1>1, CurrentReadable DEF HeapType
<1>3. heap'[lease[s]] = Update(ptr[p], R)[lease[s]]
  BY <1>1, <1>2, HeapIs
<1>4. heap[lease[s]].conns <= Cardinality(Counted(s)) /\ heap[lease[s]].conns \in Nat
  BY <1>2, UpdateType DEF Bound
<1>5. p \notin Counted(s)
  BY <1>1 DEF Counted
<1>6. CASE ptr[p] = lease[s]
  <2>1. sess[p] = s
    BY <1>0, <1>1, <1>6 DEF Held
  <2>2. Counted(s)' = Counted(s) \cup {p}
    BY <1>0, <1>1, <2>1 DEF Counted, BaseType
  <2>3. Cardinality(Counted(s)') = Cardinality(Counted(s)) + 1
    BY <1>5, <2>2, CountedFinite, FS_AddElement
  <2>4. R.conns = heap[lease[s]].conns + 1
    BY <1>2, <1>6, UpdateType
  <2> HIDE DEF R
  <2>5. heap'[lease[s]] = R
    BY <1>2, <1>3, <1>6 DEF Update
  <2> QED
    BY <1>4, <2>3, <2>4, <2>5, CountedFinite
<1>7. CASE ptr[p] # lease[s]
  <2>1. /\ Counted(s) \in SUBSET (Counted(s)') /\ (sess[p] # s => Counted(s)' = Counted(s))
        /\ (sess[p] = s => Counted(s)' = Counted(s) \cup {p})
    BY <1>0, <1>1 DEF Counted, BaseType
  <2>2. Cardinality(Counted(s)) <= Cardinality(Counted(s)') /\ Cardinality(Counted(s)') \in Nat
    <3>1. sess[p] = s => Cardinality(Counted(s)') = Cardinality(Counted(s)) + 1
      BY <1>5, <2>1, CountedFinite, FS_AddElement
    <3> QED
      BY <2>1, <3>1, CountedFinite
  <2> HIDE DEF R
  <2>3. heap'[lease[s]] = heap[lease[s]]
    BY <1>2, <1>3, <1>7 DEF Update
  <2> QED
    BY <1>4, <2>2, <2>3, CountedFinite
<1> QED
  BY <1>6, <1>7

\* Every step keeps ActiveConns bounded.
LEMMA BoundStep == LeaseInv /\ LeaseInv' /\ Bound /\ [Next]_vars => Bound'
<1> SUFFICES ASSUME LeaseInv, LeaseInv', Bound, [Next]_vars PROVE Bound'
  OBVIOUS
<1> DEFINE Fine(s) == lease'[s] # NoLease =>
             \/ heap'[lease'[s]].conns = 0
             \/ /\ lease'[s] = lease[s] /\ heap'[lease[s]].conns = heap[lease[s]].conns
                /\ \/ Counted(s)' = Counted(s)
                   \/ \E p \in Procs : p \notin Counted(s) /\ Counted(s)' = Counted(s) \cup {p}
           Quiet == \A s \in Sessions : Fine(s)
<1>0. BaseType /\ InCall /\ Held /\ HeapType /\ BaseType' /\ HeapType'
  BY DEF LeaseInv
<1>a. \A s \in Sessions : lease[s] # NoLease =>
        lease[s] \in DOMAIN heap /\ heap[lease[s]].conns \in Nat /\ heap[lease[s]].conns <= Cardinality(Counted(s))
  BY <1>0, CurrentReadable, UpdateType DEF HeapType, Bound
<1>b. Quiet => Bound'
  <2> SUFFICES ASSUME Quiet, NEW s \in Sessions, lease'[s] # NoLease
               PROVE  heap'[lease'[s]].conns <= Cardinality(Counted(s)')
    BY DEF Bound
  <2>1. CASE Counted(s)' = Counted(s)
    BY <1>a, <2>1, CountedFinite
  <2>2. CASE \E p \in Procs : p \notin Counted(s) /\ Counted(s)' = Counted(s) \cup {p}
    <3>1. Cardinality(Counted(s)') = Cardinality(Counted(s)) + 1
      BY <2>2, CountedFinite, FS_AddElement
    <3> QED
      BY <1>a, <3>1, CountedFinite
  <2>3. CASE heap'[lease'[s]].conns = 0
    <3>1. Counted(s)' \in SUBSET Procs
      BY DEF Counted
    <3>2. Cardinality(Counted(s)') \in Nat
      BY <3>1, FiniteAssumption, FS_Subset, FS_CardinalityType
    <3> QED
      BY <2>3, <3>2
  <2> QED
    BY <2>1, <2>2, <2>3
<1>c. ASSUME Heap(heap), NEW s \in Sessions, lease'[s] = lease[s], lease[s] # NoLease
      PROVE  heap'[lease[s]] = heap[lease[s]]
  <2>1. lease[s] \in DOMAIN heap'
    <3>1. lease[s] \in Readable'
      BY <1>0, <1>c, CurrentReadable DEF Readable, BaseType
    <3> QED
      BY <1>0, <3>1 DEF HeapType
  <2> QED
    BY <1>c, <2>1, HeapIs
<1>d. \A s \in Sessions : Counted(s)' = Counted(s) /\ lease'[s] \in {lease[s], NoLease} /\ Heap(heap) => Fine(s)
  BY <1>c
<1> USE <1>0, NamesAssumption DEF BaseType, procVars, reaperVars
<1>1. ASSUME NEW p \in Procs, NEW s \in Sessions, Create(p, s) PROVE Bound'
  BY <1>1, <1>b DEF Create, Call, Goto, Counted
<1>2. ASSUME NEW p \in Procs, NEW s \in Sessions, Unregister(p, s) PROVE Bound'
  <2>1. Heap(heap) /\ \A t \in Sessions : lease'[t] \in {lease[t], NoLease}
    BY <1>2 DEF Unregister, InCall
  <2>2. ASSUME NEW t \in Sessions, lease'[t] # NoLease PROVE Counted(t)' = Counted(t)
    BY <1>2, <2>1, <2>2 DEF Unregister, Call, Goto, Counted, InCall
  <2> QED
    BY <1>b, <1>d, <2>1, <2>2
<1>3. ASSUME NEW p \in Procs, NEW s \in Sessions, BeginRequest(p, s) PROVE Bound'
  BY <1>3, <1>b DEF BeginRequest, Call, Goto, Counted
<1>4. ASSUME NEW p \in Procs, Register(p) PROVE Bound'
  <2> DEFINE o == CHOOSE x \in Free : TRUE
             H(r) == [x \in DOMAIN heap \cup {o} |-> IF x = o THEN NewLease(r) ELSE heap[x]]
  <2>1. /\ o \in Leases /\ lease' = [lease EXCEPT ![sess[p]] = o] /\ \A t \in Sessions : lease[t] # o
        /\ Return(p) /\ pc[p] = "register"
    BY <1>4 DEF Register, Free, Readable
  <2>2. PICK r \in RuleSets : Heap(H(r))
    BY <1>4 DEF Register
  <2>3. \A x \in DOMAIN heap' : heap'[x] = H(r)[x]
    BY <2>2, HeapIs
  <2>4. NewLease(r).conns = 0
    BY NewLeaseType, RulesAssumption
  <2>5. \A s \in Sessions : lease'[s] # NoLease => lease'[s] \in Readable'
    BY <1>0 DEF Readable
  <2> HIDE DEF o
  <2>6. ASSUME NEW s \in Sessions, lease'[s] # NoLease PROVE Fine(s)
    <3>1. lease'[s] \in DOMAIN heap'
      BY <1>0, <2>5, <2>6 DEF HeapType
    <3>2. CASE s = sess[p]
      BY <2>1, <2>3, <2>4, <3>1, <3>2
    <3>3. CASE s # sess[p]
      <4>1. lease'[s] = lease[s] /\ lease[s] # o
        BY <2>1, <3>3 DEF InCall
      <4>2. heap'[lease[s]] = heap[lease[s]]
        BY <1>a, <2>3, <2>6, <3>1, <4>1
      <4>3. Counted(s)' = Counted(s)
        BY <2>1, <4>1 DEF Return, Goto, Counted
      <4> QED
        BY <4>1, <4>2, <4>3
    <3> QED
      BY <3>2, <3>3
  <2> QED
    BY <1>b, <2>6
<1>5. ASSUME NEW p \in Procs, Kill(p) PROVE Bound'
  BY <1>5, <1>b DEF Kill, Return, Goto, Counted
<1>6. ASSUME NEW p \in Procs, CountIn(p) PROVE Bound'
  BY <1>6, CountInBound
<1>7. ASSUME NEW p \in Procs, Route(p) PROVE Bound'
  BY <1>7, <1>b DEF Route, Goto, Counted
<1>8. ASSUME NEW p \in Procs, EndRequest(p) PROVE Bound'
  <2>1. ASSUME NEW s \in Sessions, lease[s] # NoLease PROVE Counted(s)' = Counted(s)
    BY <1>8, <2>1 DEF EndRequest, Return, Goto, Counted
  <2> QED
    BY <1>8, <1>b, <2>1 DEF EndRequest
<1>9. ASSUME NEW p \in Procs, CountOut(p) PROVE Bound'
  <2>1. Readable' = Readable
    BY <1>9 DEF CountOut, Readable
  <2> HIDE DEF BaseType
  <2> QED
    BY <1>9, <2>1, <1>0, CountOutBound DEF CountOut, Return, Goto, BaseType
<1>10. ASSUME NEW p \in Procs, CountOutLate(p) PROVE Bound'
  <2>1. Readable' = Readable
    BY <1>10 DEF CountOutLate, Readable
  <2> HIDE DEF BaseType
  <2> QED
    BY <1>10, <2>1, <1>0, CountOutBound DEF CountOutLate, Goto, BaseType
<1>11. ASSUME NEW p \in Procs, Guillotine(p) PROVE Bound'
  BY <1>11, <1>b DEF Guillotine, Goto, Counted
<1>12. ASSUME NEW p \in Procs, Remove(p) PROVE Bound'
  <2>1. Heap(heap) /\ \A t \in Sessions : lease'[t] \in {lease[t], NoLease}
    BY <1>12 DEF Remove, InCall
  <2>2. ASSUME NEW t \in Sessions, lease'[t] # NoLease PROVE Counted(t)' = Counted(t)
    BY <1>12, <2>1, <2>2 DEF Remove, Return, Goto, Counted, InCall
  <2> QED
    BY <1>b, <1>d, <2>1, <2>2
<1>13. ASSUME NEW p \in Procs, Served(p) PROVE Bound'
  BY <1>13, <1>b DEF Served, Goto, Counted
<1>14. ASSUME NEW o \in Leases, TTLPasses(o) PROVE Bound'
  <2> DEFINE l == heap[o]
  <2>1. o \in DOMAIN heap /\ l \in LeaseType
    BY <1>14 DEF TTLPasses, Current, Readable, HeapType
  <2>2. [l EXCEPT !.expired = TRUE].conns = l.conns
    BY <2>1, UpdateType
  <2>3. heap' = [heap EXCEPT ![o] = [l EXCEPT !.expired = TRUE]] /\ UNCHANGED <<lease, pc, sess, ptr>>
    BY <1>14, Zenon DEF TTLPasses, procVars
  <2>4. \A t \in Sessions : Counted(t)' = Counted(t)
    BY <2>3 DEF Counted
  <2> DEFINE m == [l EXCEPT !.expired = TRUE]
  <2>5. m.conns = l.conns /\ heap' = [heap EXCEPT ![o] = m]
    BY <2>2, <2>3, Zenon
  <2> HIDE DEF m
  <2>6. \A x \in DOMAIN heap : heap'[x].conns = heap[x].conns
    BY <2>5
  <2> HIDE DEF l
  <2> QED
    BY <1>a, <1>b, <2>3, <2>4, <2>6
<1>15. ASSUME NEW o \in Leases, IdlePasses(o) PROVE Bound'
  <2> DEFINE l == heap[o]
  <2>1. o \in DOMAIN heap /\ l \in LeaseType
    BY <1>15 DEF IdlePasses, Current, Readable, HeapType
  <2>2. [l EXCEPT !.stale = TRUE].conns = l.conns
    BY <2>1, UpdateType
  <2>3. heap' = [heap EXCEPT ![o] = [l EXCEPT !.stale = TRUE]] /\ UNCHANGED <<lease, pc, sess, ptr>>
    BY <1>15, Zenon DEF IdlePasses, procVars
  <2>4. \A t \in Sessions : Counted(t)' = Counted(t)
    BY <2>3 DEF Counted
  <2> DEFINE m == [l EXCEPT !.stale = TRUE]
  <2>5. m.conns = l.conns /\ heap' = [heap EXCEPT ![o] = m]
    BY <2>2, <2>3, Zenon
  <2> HIDE DEF m
  <2>6. \A x \in DOMAIN heap : heap'[x].conns = heap[x].conns
    BY <2>5
  <2> HIDE DEF l
  <2> QED
    BY <1>a, <1>b, <2>3, <2>4, <2>6
<1>16. ASSUME Sweep PROVE Bound'
  BY <1>16, <1>b DEF Sweep, Counted
<1>17. ASSUME NEW x \in todo, Examine(x) PROVE Bound'
  <2>1. Heap(heap) /\ \A t \in Sessions : lease'[t] \in {lease[t], NoLease}
    BY <1>17 DEF Examine, InCall
  <2>2. ASSUME NEW t \in Sessions, lease'[t] # NoLease PROVE Counted(t)' = Counted(t)
    BY <1>17, <2>1, <2>2 DEF Examine, Counted, InCall
  <2> QED
    BY <1>b, <1>d, <2>1, <2>2
<1>18. ASSUME ReapUnregister PROVE Bound'
  <2>1. Heap(heap) /\ \A t \in Sessions : lease'[t] \in {lease[t], NoLease}
    BY <1>18 DEF ReapUnregister, InCall
  <2>2. ASSUME NEW t \in Sessions, lease'[t] # NoLease PROVE Counted(t)' = Counted(t)
    BY <1>18, <2>1, <2>2 DEF ReapUnregister, Counted, InCall
  <2> QED
    BY <1>b, <1>d, <2>1, <2>2
<1>19. ASSUME ReapKill PROVE Bound'
  BY <1>19, <1>b DEF ReapKill, Counted
<1>20. ASSUME SweepDone PROVE Bound'
  BY <1>20, <1>b DEF SweepDone, Counted
<1>21. ASSUME UNCHANGED vars PROVE Bound'
  BY <1>21, <1>b DEF vars, Counted
<1> QED
  BY <1>1, <1>2, <1>3, <1>4, <1>5, <1>6, <1>7, <1>8, <1>9, <1>10, <1>11, <1>12, <1>13, <1>14,
     <1>15, <1>16, <1>17, <1>18, <1>19, <1>20, <1>21 DEF Next, Step, Reaper

-----------------------------------------------------------------------------
(* Theorems *)

\* The invariant holds in every reachable state.
LEMMA LeasesAlways == Spec => [](LeaseInv /\ Bound)
<1>1. Init => LeaseInv /\ Bound
  <2> SUFFICES ASSUME Init PROVE LeaseInv /\ Bound
    OBVIOUS
  <2>1. BaseType /\ InCall /\ Held
    BY DEF Init, BaseType, InCall, Held
  <2>2. Readable = {} /\ DOMAIN heap = {}
    BY DEF Init, Readable
  <2> QED
    BY <2>1, <2>2 DEF LeaseInv, HeapType, Bound, Init
<1>2. LeaseInv /\ Bound /\ [Next]_vars => (LeaseInv /\ Bound)'
  BY BaseStep, HeldStep, HeapStep, BoundStep DEF LeaseInv
<1> QED
  BY <1>1, <1>2, PTL DEF Spec

\* The variables keep their types, and the leases that can be read are exactly the
\* ones that exist.
THEOREM LifecycleTypeCorrect == Spec => []TypeOK
<1>1. LeaseInv => TypeOK
  BY DEF LeaseInv, BaseType, HeapType, TypeOK
<1> QED
  BY <1>1, LeasesAlways, PTL

\* BeginRequest and EndRequest of manager.go: ActiveConns never exceeds the requests
\* in flight, although sessions are deleted and registered again under them.
THEOREM NeverOvercountedHolds == Spec => []NeverOvercounted
<1>1. LeaseInv /\ Bound => NeverOvercounted
  <2> SUFFICES ASSUME LeaseInv, Bound, NEW s \in Sessions, lease[s] # NoLease
               PROVE  heap[lease[s]].conns <= Cardinality(Open(s))
    BY DEF NeverOvercounted
  <2>1. heap[lease[s]].conns \in Nat /\ heap[lease[s]].conns <= Cardinality(Counted(s))
    BY CurrentReadable, UpdateType DEF LeaseInv, HeapType, Bound
  <2>2. Counted(s) \in SUBSET Open(s) /\ Open(s) \in SUBSET Procs
    BY DEF Counted, Open
  <2>3. IsFiniteSet(Open(s)) /\ Cardinality(Open(s)) \in Nat
    BY <2>2, FiniteAssumption, FS_Subset, FS_CardinalityType
  <2>4. Cardinality(Counted(s)) <= Cardinality(Open(s))
    BY <2>2, <2>3, FS_Subset
  <2> QED
    BY <2>1, <2>3, <2>4, CountedFinite
<1> QED
  BY <1>1, LeasesAlways, PTL

\* Every step that takes the lease of a worker away is followed by its kill.
LEMMA OrphanStep == LeaseInv /\ NoOrphanWorker /\ [Next]_vars => NoOrphanWorker'
<1> SUFFICES ASSUME LeaseInv, NoOrphanWorker, [Next]_vars PROVE NoOrphanWorker'
  OBVIOUS
<1>0. BaseType /\ InCall
  BY DEF LeaseInv
<1> USE <1>0, NamesAssumption DEF BaseType, InCall, NoOrphanWorker, procVars, reaperVars
<1>1. ASSUME NEW p \in Procs, NEW s \in Sessions, Create(p, s) PROVE NoOrphanWorker'
  BY <1>1 DEF Create, Call, Goto
<1>2. ASSUME NEW p \in Procs, NEW s \in Sessions, Unregister(p, s) PROVE NoOrphanWorker'
  BY <1>2 DEF Unregister, Call, Goto
<1>3. ASSUME NEW p \in Procs, NEW s \in Sessions, BeginRequest(p, s) PROVE NoOrphanWorker'
  BY <1>3 DEF BeginRequest, Call, Goto
<1>4. ASSUME NEW p \in Procs, Register(p) PROVE NoOrphanWorker'
  <2> DEFINE o == CHOOSE x \in Free : TRUE
  <2>1. /\ o \in Leases /\ lease' = [lease EXCEPT ![sess[p]] = o] /\ pc[p] = "register" /\ Return(p)
        /\ cut' = cut \ {sess[p]} /\ UNCHANGED <<pinned, reaper, victim>>
    BY <1>4 DEF Register, Free
  <2> HIDE DEF o
  <2> QED
    BY <2>1 DEF Return, Goto
<1>5. ASSUME NEW p \in Procs, Kill(p) PROVE NoOrphanWorker'
  BY <1>5 DEF Kill, Return, Goto
<1>6. ASSUME NEW p \in Procs, CountIn(p) PROVE NoOrphanWorker'
  BY <1>6 DEF CountIn, Goto
<1>7. ASSUME NEW p \in Procs, Route(p) PROVE NoOrphanWorker'
  BY <1>7 DEF Route, Goto
<1>8. ASSUME NEW p \in Procs, EndRequest(p) PROVE NoOrphanWorker'
  BY <1>8 DEF EndRequest, Return, Goto
<1>9. ASSUME NEW p \in Procs, CountOut(p) PROVE NoOrphanWorker'
  BY <1>9 DEF CountOut, Return, Goto
<1>10. ASSUME NEW p \in Procs, CountOutLate(p) PROVE NoOrphanWorker'
  BY <1>10 DEF CountOutLate, Goto
<1>11. ASSUME NEW p \in Procs, Guillotine(p) PROVE NoOrphanWorker'
  BY <1>11 DEF Guillotine, Goto
<1>12. ASSUME NEW p \in Procs, Remove(p) PROVE NoOrphanWorker'
  BY <1>12 DEF Remove, Return, Goto
<1>13. ASSUME NEW p \in Procs, Served(p) PROVE NoOrphanWorker'
  BY <1>13 DEF Served, Goto
<1>14. ASSUME NEW o \in Leases, TTLPasses(o) PROVE NoOrphanWorker'
  BY <1>14 DEF TTLPasses
<1>15. ASSUME NEW o \in Leases, IdlePasses(o) PROVE NoOrphanWorker'
  BY <1>15 DEF IdlePasses
<1>16. ASSUME Sweep PROVE NoOrphanWorker'
  BY <1>16 DEF Sweep
<1>17. ASSUME NEW x \in todo, Examine(x) PROVE NoOrphanWorker'
  BY <1>17 DEF Examine
<1>18. ASSUME ReapUnregister PROVE NoOrphanWorker'
  BY <1>18 DEF ReapUnregister
<1>19. ASSUME ReapKill PROVE NoOrphanWorker'
  BY <1>19 DEF ReapKill
<1>20. ASSUME SweepDone PROVE NoOrphanWorker'
  BY <1>20 DEF SweepDone
<1>21. ASSUME UNCHANGED vars PROVE NoOrphanWorker'
  BY <1>21 DEF vars
<1> QED
  BY <1>1, <1>2, <1>3, <1>4, <1>5, <1>6, <1>7, <1>8, <1>9, <1>10, <1>11, <1>12, <1>13, <1>14,
     <1>15, <1>16, <1>17, <1>18, <1>19, <1>20, <1>21 DEF Next, Step, Reaper

\* manager.go's "no zombie processes": a worker without a lease is about to get one or
\* to be killed, except for the create that EndRequest's late Remove overtakes (cut).
THEOREM NoOrphanHolds == Spec => []NoOrphanWorker
<1>1. Init => NoOrphanWorker
  BY DEF Init, NoOrphanWorker
<1>2. (LeaseInv /\ Bound) /\ NoOrphanWorker /\ [Next]_vars => NoOrphanWorker'
  BY OrphanStep
<1> QED
  BY <1>1, <1>2, LeasesAlways, PTL DEF Spec
=============================================================================
