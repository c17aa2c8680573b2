----------------------------- MODULE PoolProofs -----------------------------
(***************************************************************************)
(* Proofs about the session pool, for every number of sessions, goroutines *)
(* and tickets.                                                            *)
(*                                                                         *)
(* The argument.  Three facts about who owns what are inductive together   *)
(* (OwnershipInv): the Acquire that creates a session is the one its       *)
(* inflight entry names; a session with such an entry is not pinned; and   *)
(* every running worker is the one of a pinned session or in the hands of  *)
(* a goroutine that has yet to pin or close it.  The first two make Put    *)
(* overwrite nothing, so tickets are conserved; the third bounds the       *)
(* running workers by the tickets that are out.                            *)
(***************************************************************************)
EXTENDS Pool, FiniteSetTheorems, SequenceTheorems, TLAPS

\* A goroutine in a call has a session, one that carries a worker has a worker.
InCall ==
    /\ \A p \in Procs : pc[p] # "idle" => sess[p] \in Sessions
    /\ \A p \in Carriers : held[p] \in Workers

\* The inflight entry of a session names the Acquire that creates it.
Flights ==
    /\ \A p \in Procs : pc[p] \in Leading => inflight[sess[p]] = p
    /\ \A s \in Sessions : inflight[s] # NoChan =>
        /\ registry[s] = NoWorker
        /\ inflight[s] \in Procs
        /\ pc[inflight[s]] \in Leading /\ sess[inflight[s]] = s
    /\ \A p \in Procs : pc[p] \in Owning => chan[p] = p

\* A running worker is pinned or carried.
AliveOwned ==
    \A w \in alive :
        \/ \E s \in Pinned : registry[s] = w
        \/ \E p \in Carriers : held[p] = w

\* Until Shutdown starts, the worker a goroutine carries runs.
CarriedAlive == shut = "running" => \A p \in Carriers : held[p] \in alive

OwnershipInv == TypeOK /\ InCall /\ Flights /\ AliveOwned

-----------------------------------------------------------------------------
(* Facts about p.workers *)

\* Dropping one entry of p.workers leaves a list of workers.
LEMMA WithoutType ==
    ASSUME workers \in Seq(Workers), NEW i \in 1..Len(workers)
    PROVE  Without(i) \in Seq(Workers)
<1>1. Len(workers) \in Nat /\ \A j \in 1..Len(workers) : workers[j] \in Workers
  BY LenProperties, ElementOfSeq
<1>2. SubSeq(workers, 1, i - 1) \in Seq(Workers)
  BY <1>1, SubSeqProperties
<1>3. SubSeq(workers, i + 1, Len(workers)) \in Seq(Workers)
  BY <1>1, SubSeqProperties
<1> QED
  BY <1>2, <1>3, ConcatProperties DEF Without

-----------------------------------------------------------------------------
(* Types and ownership *)

\* An empty pool satisfies the invariant.
LEMMA OwnershipInit == Init => OwnershipInv
<1> SUFFICES ASSUME Init PROVE OwnershipInv
  OBVIOUS
<1>1. TypeOK
  BY MaxAssumption, EmptySeq DEF Init, TypeOK, States
<1>2. InCall /\ Flights /\ AliveOwned
  BY DEF Init, InCall, Flights, AliveOwned, Carriers, Carrying, Leading, Owning
<1> QED
  BY <1>1, <1>2 DEF OwnershipInv

\* Every step keeps the types.
LEMMA TypeStep == OwnershipInv /\ [Next]_vars => TypeOK'
<1> SUFFICES ASSUME OwnershipInv, [Next]_vars PROVE TypeOK'
  OBVIOUS
<1> USE DEF OwnershipInv, TypeOK, InCall, States, Owning, Leading, Charged, local
<1>1. ASSUME NEW p \in Procs, NEW s \in Sessions, Acquire(p, s) PROVE TypeOK'
  BY <1>1 DEF Acquire, Goto
<1>2. ASSUME NEW p \in Procs, NEW s \in Sessions, KillWorker(p, s) PROVE TypeOK'
  BY <1>2 DEF KillWorker, Goto
<1>3. ASSUME NEW p \in Procs, WaitCancelled(p) PROVE TypeOK'
  BY <1>3 DEF WaitCancelled, Return, Goto
<1>4. ASSUME NEW p \in Procs, TicketCancelled(p) PROVE TypeOK'
  BY <1>4 DEF TicketCancelled, Goto
<1>5. ASSUME NEW p \in Procs, LookupFound(p) PROVE TypeOK'
  BY <1>5 DEF LookupFound, Return, Goto
<1>6. ASSUME NEW p \in Procs, LookupPending(p) PROVE TypeOK'
  BY <1>6 DEF LookupPending, Goto
<1>7. ASSUME NEW p \in Procs, LookupLead(p) PROVE TypeOK'
  BY <1>7 DEF LookupLead, Goto
<1>8. ASSUME NEW p \in Procs, WaitDone(p) PROVE TypeOK'
  BY <1>8 DEF WaitDone, Goto
<1>9. ASSUME NEW p \in Procs, TakeTicket(p) PROVE TypeOK'
  BY <1>9, MaxAssumption DEF TakeTicket, Goto
<1>10. ASSUME NEW p \in Procs, NEW w, SpawnOK(p, w) PROVE TypeOK'
  BY <1>10 DEF SpawnOK, Fresh, Workers, Goto
<1>11. ASSUME NEW p \in Procs, SpawnFail(p) PROVE TypeOK'
  BY <1>11 DEF SpawnFail, Goto
<1>12. ASSUME NEW p \in Procs, RefundTicket(p) PROVE TypeOK'
  BY <1>12, MaxAssumption DEF RefundTicket, Goto
<1>13. ASSUME NEW p \in Procs, DropInflight(p) PROVE TypeOK'
  BY <1>13 DEF DropInflight, Goto
<1>14. ASSUME NEW p \in Procs, Wire(p) PROVE TypeOK'
  <2>1. held[p] \in Workers
    BY <1>14 DEF Wire, Carriers, Carrying
  <2>2. workers' \in Seq(Workers)
    BY <1>14, <2>1, AppendProperties DEF Wire
  <2> QED
    BY <1>14, <2>2 DEF Wire, Goto
<1>15. ASSUME NEW p \in Procs, Put(p) PROVE TypeOK'
  BY <1>15 DEF Put, Goto
<1>16. ASSUME NEW p \in Procs, CloseChan(p) PROVE TypeOK'
  BY <1>16 DEF CloseChan, Goto
<1>17. ASSUME NEW p \in Procs, CloseWorker(p) PROVE TypeOK'
  BY <1>17 DEF CloseWorker, Goto
<1>18. ASSUME NEW p \in Procs, RemoveWorker(p) PROVE TypeOK'
  <2>1. Hits(held[p]) \subseteq 1..Len(workers)
    BY LenProperties DEF Hits
  <2>2. workers' \in Seq(Workers)
    BY <1>18, <2>1, WithoutType DEF RemoveWorker
  <2> QED
    BY <1>18, <2>2 DEF RemoveWorker, Goto
<1>19. ASSUME NEW p \in Procs, GiveBack(p) PROVE TypeOK'
  BY <1>19, MaxAssumption DEF GiveBack, Return, Goto
<1>20. CASE Shutdown
  BY <1>20 DEF Shutdown
<1>21. CASE ShutdownClose
  <2>1. todo # <<>> => Tail(todo) \in Seq(Workers)
    BY HeadTailProperties
  <2> QED
    BY <1>21, <2>1 DEF ShutdownClose
<1>22. CASE UNCHANGED vars
  BY <1>22 DEF vars
<1> QED
  BY <1>1, <1>2, <1>3, <1>4, <1>5, <1>6, <1>7, <1>8, <1>9, <1>10, <1>11, <1>12, <1>13,
     <1>14, <1>15, <1>16, <1>17, <1>18, <1>19, <1>20, <1>21, <1>22 DEF Next, Step

\* Every step keeps each call's session and each carried worker.
LEMMA InCallStep == OwnershipInv /\ [Next]_vars => InCall'
<1> SUFFICES ASSUME OwnershipInv, [Next]_vars PROVE InCall'
  OBVIOUS
<1> USE NamesAssumption DEF OwnershipInv, TypeOK, InCall, Carriers, Carrying, local
<1>1. ASSUME NEW p \in Procs, NEW s \in Sessions, Acquire(p, s) PROVE InCall'
  BY <1>1 DEF Acquire, Goto
<1>2. ASSUME NEW p \in Procs, NEW s \in Sessions, KillWorker(p, s) PROVE InCall'
  BY <1>2 DEF KillWorker, Goto
<1>3. ASSUME NEW p \in Procs, WaitCancelled(p) PROVE InCall'
  BY <1>3 DEF WaitCancelled, Return, Goto
<1>4. ASSUME NEW p \in Procs, TicketCancelled(p) PROVE InCall'
  BY <1>4 DEF TicketCancelled, Goto
<1>5. ASSUME NEW p \in Procs, LookupFound(p) PROVE InCall'
  BY <1>5 DEF LookupFound, Return, Goto
<1>6. ASSUME NEW p \in Procs, LookupPending(p) PROVE InCall'
  BY <1>6 DEF LookupPending, Goto
<1>7. ASSUME NEW p \in Procs, LookupLead(p) PROVE InCall'
  BY <1>7 DEF LookupLead, Goto
<1>8. ASSUME NEW p \in Procs, WaitDone(p) PROVE InCall'
  BY <1>8 DEF WaitDone, Goto
<1>9. ASSUME NEW p \in Procs, TakeTicket(p) PROVE InCall'
  BY <1>9 DEF TakeTicket, Goto
<1>10. ASSUME NEW p \in Procs, NEW w, SpawnOK(p, w) PROVE InCall'
  BY <1>10 DEF SpawnOK, Fresh, Workers, Goto
<1>11. ASSUME NEW p \in Procs, SpawnFail(p) PROVE InCall'
  BY <1>11 DEF SpawnFail, Goto
<1>12. ASSUME NEW p \in Procs, RefundTicket(p) PROVE InCall'
  BY <1>12 DEF RefundTicket, Goto
<1>13. ASSUME NEW p \in Procs, DropInflight(p) PROVE InCall'
  BY <1>13 DEF DropInflight, Goto
<1>14. ASSUME NEW p \in Procs, Wire(p) PROVE InCall'
  BY <1>14 DEF Wire, Goto
<1>15. ASSUME NEW p \in Procs, Put(p) PROVE InCall'
  BY <1>15 DEF Put, Goto
<1>16. ASSUME NEW p \in Procs, CloseChan(p) PROVE InCall'
  BY <1>16 DEF CloseChan, Goto
<1>17. ASSUME NEW p \in Procs, CloseWorker(p) PROVE InCall'
  BY <1>17 DEF CloseWorker, Goto
<1>18. ASSUME NEW p \in Procs, RemoveWorker(p) PROVE InCall'
  BY <1>18 DEF RemoveWorker, Goto
<1>19. ASSUME NEW p \in Procs, GiveBack(p) PROVE InCall'
  BY <1>19 DEF GiveBack, Return, Goto
<1>20. CASE Shutdown
  BY <1>20 DEF Shutdown
<1>21. CASE ShutdownClose
  BY <1>21 DEF ShutdownClose
<1>22. CASE UNCHANGED vars
  BY <1>22 DEF vars
<1> QED
  BY <1>1, <1>2, <1>3, <1>4, <1>5, <1>6, <1>7, <1>8, <1>9, <1>10, <1>11, <1>12, <1>13,
     <1>14, <1>15, <1>16, <1>17, <1>18, <1>19, <1>20, <1>21, <1>22 DEF Next, Step

\* Every step keeps the correspondence of inflight entries and creating calls.
LEMMA FlightsStep == OwnershipInv /\ [Next]_vars => Flights'
<1> SUFFICES ASSUME OwnershipInv, [Next]_vars PROVE Flights'
  OBVIOUS
<1> USE NamesAssumption DEF OwnershipInv, TypeOK, InCall, Flights, States, Owning, Leading, Charged, local
<1>1. ASSUME NEW p \in Procs, NEW s \in Sessions, Acquire(p, s) PROVE Flights'
  BY <1>1 DEF Acquire, Goto
<1>2. ASSUME NEW p \in Procs, NEW s \in Sessions, KillWorker(p, s) PROVE Flights'
  BY <1>2 DEF KillWorker, Goto
<1>3. ASSUME NEW p \in Procs, WaitCancelled(p) PROVE Flights'
  BY <1>3 DEF WaitCancelled, Return, Goto
<1>4. ASSUME NEW p \in Procs, TicketCancelled(p) PROVE Flights'
  BY <1>4 DEF TicketCancelled, Goto
<1>5. ASSUME NEW p \in Procs, LookupFound(p) PROVE Flights'
  BY <1>5 DEF LookupFound, Return, Goto
<1>6. ASSUME NEW p \in Procs, LookupPending(p) PROVE Flights'
  BY <1>6 DEF LookupPending, Goto
<1>7. ASSUME NEW p \in Procs, LookupLead(p) PROVE Flights'
  BY <1>7 DEF LookupLead, Goto
<1>8. ASSUME NEW p \in Procs, WaitDone(p) PROVE Flights'
  BY <1>8 DEF WaitDone, Goto
<1>9. ASSUME NEW p \in Procs, TakeTicket(p) PROVE Flights'
  BY <1>9 DEF TakeTicket, Goto
<1>10. ASSUME NEW p \in Procs, NEW w, SpawnOK(p, w) PROVE Flights'
  BY <1>10 DEF SpawnOK, Fresh, Workers, Goto
<1>11. ASSUME NEW p \in Procs, SpawnFail(p) PROVE Flights'
  BY <1>11 DEF SpawnFail, Goto
<1>12. ASSUME NEW p \in Procs, RefundTicket(p) PROVE Flights'
  BY <1>12 DEF RefundTicket, Goto
<1>13. ASSUME NEW p \in Procs, DropInflight(p) PROVE Flights'
  BY <1>13 DEF DropInflight, Goto
<1>14. ASSUME NEW p \in Procs, Wire(p) PROVE Flights'
  BY <1>14 DEF Wire, Goto
<1>15. ASSUME NEW p \in Procs, Put(p) PROVE Flights'
  BY <1>15 DEF Put, Goto
<1>16. ASSUME NEW p \in Procs, CloseChan(p) PROVE Flights'
  BY <1>16 DEF CloseChan, Goto
<1>17. ASSUME NEW p \in Procs, CloseWorker(p) PROVE Flights'
  BY <1>17 DEF CloseWorker, Goto
<1>18. ASSUME NEW p \in Procs, RemoveWorker(p) PROVE Flights'
  BY <1>18 DEF RemoveWorker, Goto
<1>19. ASSUME NEW p \in Procs, GiveBack(p) PROVE Flights'
  BY <1>19 DEF GiveBack, Return, Goto
<1>20. CASE Shutdown
  BY <1>20 DEF Shutdown
<1>21. CASE ShutdownClose
  BY <1>21 DEF ShutdownClose
<1>22. CASE UNCHANGED vars
  BY <1>22 DEF vars
<1> QED
  BY <1>1, <1>2, <1>3, <1>4, <1>5, <1>6, <1>7, <1>8, <1>9, <1>10, <1>11, <1>12, <1>13,
     <1>14, <1>15, <1>16, <1>17, <1>18, <1>19, <1>20, <1>21, <1>22 DEF Next, Step

\* No step leaves a running worker without an owner.
LEMMA AliveOwnedStep == OwnershipInv /\ [Next]_vars => AliveOwned'
<1> SUFFICES ASSUME OwnershipInv, [Next]_vars PROVE AliveOwned'
  OBVIOUS
<1> USE NamesAssumption DEF OwnershipInv, TypeOK, InCall, Flights, Leading, AliveOwned, Pinned, Carriers, Carrying, local
<1>1. ASSUME NEW p \in Procs, NEW s \in Sessions, Acquire(p, s) PROVE AliveOwned'
  BY <1>1 DEF Acquire, Goto
<1>2. ASSUME NEW p \in Procs, NEW s \in Sessions, KillWorker(p, s) PROVE AliveOwned'
  BY <1>2 DEF KillWorker, Goto
<1>3. ASSUME NEW p \in Procs, WaitCancelled(p) PROVE AliveOwned'
  BY <1>3 DEF WaitCancelled, Return, Goto
<1>4. ASSUME NEW p \in Procs, TicketCancelled(p) PROVE AliveOwned'
  BY <1>4 DEF TicketCancelled, Goto
<1>5. ASSUME NEW p \in Procs, LookupFound(p) PROVE AliveOwned'
  BY <1>5 DEF LookupFound, Return, Goto
<1>6. ASSUME NEW p \in Procs, LookupPending(p) PROVE AliveOwned'
  BY <1>6 DEF LookupPending, Goto
<1>7. ASSUME NEW p \in Procs, LookupLead(p) PROVE AliveOwned'
  BY <1>7 DEF LookupLead, Goto
<1>8. ASSUME NEW p \in Procs, WaitDone(p) PROVE AliveOwned'
  BY <1>8 DEF WaitDone, Goto
<1>9. ASSUME NEW p \in Procs, TakeTicket(p) PROVE AliveOwned'
  BY <1>9 DEF TakeTicket, Goto
<1>10. ASSUME NEW p \in Procs, NEW w, SpawnOK(p, w) PROVE AliveOwned'
  BY <1>10 DEF SpawnOK, Fresh, Workers, Goto
<1>11. ASSUME NEW p \in Procs, SpawnFail(p) PROVE AliveOwned'
  BY <1>11 DEF SpawnFail, Goto
<1>12. ASSUME NEW p \in Procs, RefundTicket(p) PROVE AliveOwned'
  BY <1>12 DEF RefundTicket, Goto
<1>13. ASSUME NEW p \in Procs, DropInflight(p) PROVE AliveOwned'
  BY <1>13 DEF DropInflight, Goto
<1>14. ASSUME NEW p \in Procs, Wire(p) PROVE AliveOwned'
  BY <1>14 DEF Wire, Goto
<1>15. ASSUME NEW p \in Procs, Put(p) PROVE AliveOwned'
  BY <1>15 DEF Put, Goto
<1>16. ASSUME NEW p \in Procs, CloseChan(p) PROVE AliveOwned'
  BY <1>16 DEF CloseChan, Goto
<1>17. ASSUME NEW p \in Procs, CloseWorker(p) PROVE AliveOwned'
  BY <1>17 DEF CloseWorker, Goto
<1>18. ASSUME NEW p \in Procs, RemoveWorker(p) PROVE AliveOwned'
  BY <1>18 DEF RemoveWorker, Goto
<1>19. ASSUME NEW p \in Procs, GiveBack(p) PROVE AliveOwned'
  BY <1>19 DEF GiveBack, Return, Goto
<1>20. CASE Shutdown
  BY <1>20 DEF Shutdown
<1>21. CASE ShutdownClose
  BY <1>21 DEF ShutdownClose
<1>22. CASE UNCHANGED vars
  BY <1>22 DEF vars
<1> QED
  BY <1>1, <1>2, <1>3, <1>4, <1>5, <1>6, <1>7, <1>8, <1>9, <1>10, <1>11, <1>12, <1>13,
     <1>14, <1>15, <1>16, <1>17, <1>18, <1>19, <1>20, <1>21, <1>22 DEF Next, Step

\* The ownership facts hold in every reachable state.
LEMMA Ownership == Spec => []OwnershipInv
<1>1. OwnershipInv /\ [Next]_vars => OwnershipInv'
  BY TypeStep, InCallStep, FlightsStep, AliveOwnedStep DEF OwnershipInv
<1> QED
  BY <1>1, OwnershipInit, PTL DEF Spec

\* The variables keep their types: p.tickets holds between 0 and max tickets,
\* although no counter guards it but the channel itself.
THEOREM TypeCorrect == Spec => []TypeOK
<1>1. OwnershipInv => TypeOK
  BY DEF OwnershipInv
<1> QED
  BY <1>1, Ownership, PTL

\* Acquire's singleflight: one creator per session, and close(ch) never panics.
THEOREM SingleFlightHolds == Spec => []SingleFlight
<1>1. OwnershipInv => SingleFlight
  BY DEF OwnershipInv, TypeOK, InCall, Flights, SingleFlight, Leading
<1> QED
  BY <1>1, Ownership, PTL

-----------------------------------------------------------------------------
(* Tickets *)

\* Who holds a ticket, and what is pinned, are finite sets.
LEMMA FiniteOwners ==
    /\ IsFiniteSet(Holders) /\ Cardinality(Holders) \in Nat
    /\ IsFiniteSet(Carriers) /\ Cardinality(Carriers) \in Nat
    /\ IsFiniteSet(Pinned) /\ Cardinality(Pinned) \in Nat
<1>1. Holders \in SUBSET Procs /\ Carriers \in SUBSET Procs /\ Pinned \in SUBSET Sessions
  BY DEF Holders, Carriers, Pinned
<1>2. IsFiniteSet(Holders) /\ IsFiniteSet(Carriers) /\ IsFiniteSet(Pinned)
  BY <1>1, FiniteAssumption, FS_Subset
<1> QED
  BY <1>2, FS_CardinalityType

\* Every step moves a ticket from one owner to another, or none.
LEMMA TicketStep == OwnershipInv /\ TicketConservation /\ [Next]_vars => TicketConservation'
<1> SUFFICES ASSUME OwnershipInv, TicketConservation, [Next]_vars PROVE TicketConservation'
  OBVIOUS
<1> DEFINE Quiet == Holders' = Holders /\ Pinned' = Pinned /\ tickets' = tickets
<1>0. TypeOK /\ InCall /\ Flights
  BY DEF OwnershipInv
<1> USE <1>0 DEF TypeOK, InCall, Flights, States, Owning, Leading, Holders, Charged, Pinned, local
<1>1. ASSUME NEW p \in Procs, NEW s \in Sessions, Acquire(p, s) PROVE Quiet
  BY <1>1 DEF Acquire, Goto
<1>2. ASSUME NEW p \in Procs, NEW s \in Sessions, KillWorker(p, s) PROVE TicketConservation'
  <2>1. Holders' = Holders \cup {p} /\ p \notin Holders
    BY <1>2 DEF KillWorker, Goto
  <2>2. Pinned' = Pinned \ {s} /\ s \in Pinned
    BY <1>2 DEF KillWorker
  <2> HIDE DEF Holders, Pinned
  <2>3. /\ Cardinality(Holders') = Cardinality(Holders) + 1
        /\ Cardinality(Pinned') = Cardinality(Pinned) - 1
    BY <2>1, <2>2, FiniteOwners, FS_RemoveElement, FS_AddElement
  <2> QED
    BY <1>2, <2>3, FiniteOwners DEF KillWorker, TicketConservation
<1>3. ASSUME NEW p \in Procs, WaitCancelled(p) PROVE Quiet
  BY <1>3 DEF WaitCancelled, Return, Goto
<1>4. ASSUME NEW p \in Procs, TicketCancelled(p) PROVE Quiet
  BY <1>4 DEF TicketCancelled, Goto
<1>5. ASSUME NEW p \in Procs, LookupFound(p) PROVE Quiet
  BY <1>5 DEF LookupFound, Return, Goto
<1>6. ASSUME NEW p \in Procs, LookupPending(p) PROVE Quiet
  BY <1>6 DEF LookupPending, Goto
<1>7. ASSUME NEW p \in Procs, LookupLead(p) PROVE Quiet
  BY <1>7 DEF LookupLead, Goto
<1>8. ASSUME NEW p \in Procs, WaitDone(p) PROVE Quiet
  BY <1>8 DEF WaitDone, Goto
<1>9. ASSUME NEW p \in Procs, TakeTicket(p) PROVE TicketConservation'
  <2>1. Holders' = Holders \cup {p} /\ p \notin Holders /\ Pinned' = Pinned
    BY <1>9 DEF TakeTicket, Goto
  <2> HIDE DEF Holders, Pinned
  <2>2. Cardinality(Holders') = Cardinality(Holders) + 1
    BY <2>1, FiniteOwners, FS_AddElement
  <2> QED
    BY <1>9, <2>1, <2>2, FiniteOwners DEF TakeTicket, TicketConservation
<1>10. ASSUME NEW p \in Procs, NEW w, SpawnOK(p, w) PROVE Quiet
  BY <1>10 DEF SpawnOK, Fresh, Workers, Goto
<1>11. ASSUME NEW p \in Procs, SpawnFail(p) PROVE Quiet
  BY <1>11 DEF SpawnFail, Goto
<1>12. ASSUME NEW p \in Procs, RefundTicket(p) PROVE TicketConservation'
  <2>1. Holders' = Holders \ {p} /\ p \in Holders /\ Pinned' = Pinned
    BY <1>12 DEF RefundTicket, Goto
  <2> HIDE DEF Holders, Pinned
  <2>2. Cardinality(Holders') = Cardinality(Holders) - 1
    BY <2>1, FiniteOwners, FS_RemoveElement
  <2> QED
    BY <1>12, <2>1, <2>2, FiniteOwners DEF RefundTicket, TicketConservation
<1>13. ASSUME NEW p \in Procs, DropInflight(p) PROVE Quiet
  BY <1>13 DEF DropInflight, Goto
<1>14. ASSUME NEW p \in Procs, Wire(p) PROVE Quiet
  BY <1>14 DEF Wire, Goto
<1>15. ASSUME NEW p \in Procs, Put(p) PROVE TicketConservation'
  <2>1. Holders' = Holders \ {p} /\ p \in Holders
    BY <1>15 DEF Put, Goto
  <2>2. Pinned' = Pinned \cup {sess[p]} /\ sess[p] \notin Pinned
    BY <1>15, NamesAssumption DEF Put, Goto, Carriers, Carrying
  <2> HIDE DEF Holders, Pinned
  <2>3. /\ Cardinality(Holders') = Cardinality(Holders) - 1
        /\ Cardinality(Pinned') = Cardinality(Pinned) + 1
    BY <2>1, <2>2, FiniteOwners, FS_RemoveElement, FS_AddElement
  <2> QED
    BY <1>15, <2>3, FiniteOwners DEF Put, TicketConservation
<1>16. ASSUME NEW p \in Procs, CloseChan(p) PROVE Quiet
  BY <1>16 DEF CloseChan, Goto
<1>17. ASSUME NEW p \in Procs, CloseWorker(p) PROVE Quiet
  BY <1>17 DEF CloseWorker, Goto
<1>18. ASSUME NEW p \in Procs, RemoveWorker(p) PROVE Quiet
  BY <1>18 DEF RemoveWorker, Goto
<1>19. ASSUME NEW p \in Procs, GiveBack(p) PROVE TicketConservation'
  <2>1. Holders' = Holders \ {p} /\ p \in Holders /\ Pinned' = Pinned
    BY <1>19 DEF GiveBack, Return, Goto
  <2> HIDE DEF Holders, Pinned
  <2>2. Cardinality(Holders') = Cardinality(Holders) - 1
    BY <2>1, FiniteOwners, FS_RemoveElement
  <2> QED
    BY <1>19, <2>1, <2>2, FiniteOwners DEF GiveBack, TicketConservation
<1>20. ASSUME Shutdown PROVE Quiet
  BY <1>20 DEF Shutdown
<1>21. ASSUME ShutdownClose PROVE Quiet
  BY <1>21 DEF ShutdownClose
<1>22. ASSUME UNCHANGED vars PROVE Quiet
  BY <1>22 DEF vars
<1>23. Quiet => TicketConservation'
  BY DEF TicketConservation
<1> QED
  BY <1>1, <1>2, <1>3, <1>4, <1>5, <1>6, <1>7, <1>8, <1>9, <1>10, <1>11, <1>12, <1>13,
     <1>14, <1>15, <1>16, <1>17, <1>18, <1>19, <1>20, <1>21, <1>22, <1>23 DEF Next, Step

\* New fills the channel.
LEMMA TicketsInit == Init => TicketConservation
<1> SUFFICES ASSUME Init PROVE TicketConservation
  OBVIOUS
<1>1. Holders = {} /\ Pinned = {}
  BY DEF Init, Holders, Charged, Pinned
<1> QED
  BY <1>1, FS_EmptySet, MaxAssumption DEF Init, TicketConservation

\* The tickets of Pool: none lost, none forged.
LEMMA Tickets == Spec => [](OwnershipInv /\ TicketConservation)
  BY TicketsInit, TicketStep, Ownership, PTL DEF Spec

\* Every ticket is in the channel, with one goroutine, or with one pinned session.
THEOREM TicketsConserved == Spec => []TicketConservation
  BY Tickets, PTL

\* A function's image is no larger than its domain.
LEMMA ImageBound ==
    ASSUME NEW D, IsFiniteSet(D), NEW f, NEW T, T = {f[x] : x \in D}
    PROVE  IsFiniteSet(T) /\ Cardinality(T) <= Cardinality(D)
<1> DEFINE g == [x \in D |-> f[x]]
<1>1. g \in Surjection(D, T)
  BY DEF Surjection
<1> QED
  BY <1>1, FS_Surjection

\* A union is no larger than its parts together.
LEMMA UnionBound ==
    ASSUME NEW A, IsFiniteSet(A), NEW B, IsFiniteSet(B)
    PROVE  IsFiniteSet(A \cup B) /\ Cardinality(A \cup B) <= Cardinality(A) + Cardinality(B)
<1>1. IsFiniteSet(A \cap B) /\ Cardinality(A \cap B) \in Nat
  BY FS_Subset, FS_CardinalityType
<1>2. Cardinality(A) \in Nat /\ Cardinality(B) \in Nat
  BY FS_CardinalityType
<1> QED
  BY <1>1, <1>2, FS_Union

\* The running workers are finitely many, and no more than the tickets that are out.
LEMMA Ceiling == OwnershipInv /\ TicketConservation => IsFiniteSet(alive) /\ LiveAtMostMax
<1> SUFFICES ASSUME OwnershipInv, TicketConservation PROVE IsFiniteSet(alive) /\ LiveAtMostMax
  OBVIOUS
<1> DEFINE A == {registry[s] : s \in Pinned}
           B == {held[p] : p \in Carriers}
<1>1. IsFiniteSet(A) /\ Cardinality(A) <= Cardinality(Pinned) /\ Cardinality(A) \in Nat
  BY FiniteOwners, ImageBound, FS_CardinalityType
<1>2. IsFiniteSet(B) /\ Cardinality(B) <= Cardinality(Carriers) /\ Cardinality(B) \in Nat
  BY FiniteOwners, ImageBound, FS_CardinalityType
<1>3. Cardinality(Carriers) <= Cardinality(Holders)
  <2>1. Carriers \in SUBSET Holders
    BY DEF Carriers, Holders, Carrying, Charged
  <2> QED
    BY <2>1, FiniteOwners, FS_Subset
<1>4. IsFiniteSet(A \cup B) /\ Cardinality(A \cup B) <= Cardinality(A) + Cardinality(B)
  BY <1>1, <1>2, UnionBound
<1>5. alive \in SUBSET (A \cup B)
  BY DEF OwnershipInv, AliveOwned
<1>6. IsFiniteSet(alive) /\ Cardinality(alive) <= Cardinality(A \cup B) /\ Cardinality(alive) \in Nat
  BY <1>4, <1>5, FS_Subset, FS_CardinalityType
<1>7. Cardinality(A \cup B) \in Nat
  BY <1>4, FS_CardinalityType
<1> HIDE DEF A, B
<1> QED
  BY <1>1, <1>2, <1>3, <1>4, <1>6, <1>7, FiniteOwners, MaxAssumption
     DEF TicketConservation, LiveAtMostMax, OwnershipInv, TypeOK

\* options.go's ceiling: KillWorker, failing spawns and cancelled calls never let
\* more than max workers run, those still being closed included.
THEOREM CeilingHolds == Spec => []LiveAtMostMax
  BY Ceiling, Tickets, PTL

-----------------------------------------------------------------------------
(* Ownership of workers *)

OwnerInv == OneOwner /\ CarriedAlive

\* No step hands one worker to two owners.
LEMMA OwnerStep == OwnershipInv /\ OwnerInv /\ [Next]_vars => OwnerInv'
<1> SUFFICES ASSUME OwnershipInv, OwnerInv, [Next]_vars PROVE OwnerInv'
  OBVIOUS
<1> USE NamesAssumption DEF OwnershipInv, OwnerInv, TypeOK, InCall, Flights, OneOwner, CarriedAlive, Leading, Pinned, Carriers, Carrying, local
<1>1. ASSUME NEW p \in Procs, NEW s \in Sessions, Acquire(p, s) PROVE OwnerInv'
  BY <1>1 DEF Acquire, Goto
<1>2. ASSUME NEW p \in Procs, NEW s \in Sessions, KillWorker(p, s) PROVE OwnerInv'
  BY <1>2 DEF KillWorker, Goto
<1>3. ASSUME NEW p \in Procs, WaitCancelled(p) PROVE OwnerInv'
  BY <1>3 DEF WaitCancelled, Return, Goto
<1>4. ASSUME NEW p \in Procs, TicketCancelled(p) PROVE OwnerInv'
  BY <1>4 DEF TicketCancelled, Goto
<1>5. ASSUME NEW p \in Procs, LookupFound(p) PROVE OwnerInv'
  BY <1>5 DEF LookupFound, Return, Goto
<1>6. ASSUME NEW p \in Procs, LookupPending(p) PROVE OwnerInv'
  BY <1>6 DEF LookupPending, Goto
<1>7. ASSUME NEW p \in Procs, LookupLead(p) PROVE OwnerInv'
  BY <1>7 DEF LookupLead, Goto
<1>8. ASSUME NEW p \in Procs, WaitDone(p) PROVE OwnerInv'
  BY <1>8 DEF WaitDone, Goto
<1>9. ASSUME NEW p \in Procs, TakeTicket(p) PROVE OwnerInv'
  BY <1>9 DEF TakeTicket, Goto
<1>10. ASSUME NEW p \in Procs, NEW w, SpawnOK(p, w) PROVE OwnerInv'
  BY <1>10 DEF SpawnOK, Fresh, Workers, Goto
<1>11. ASSUME NEW p \in Procs, SpawnFail(p) PROVE OwnerInv'
  BY <1>11 DEF SpawnFail, Goto
<1>12. ASSUME NEW p \in Procs, RefundTicket(p) PROVE OwnerInv'
  BY <1>12 DEF RefundTicket, Goto
<1>13. ASSUME NEW p \in Procs, DropInflight(p) PROVE OwnerInv'
  BY <1>13 DEF DropInflight, Goto
<1>14. ASSUME NEW p \in Procs, Wire(p) PROVE OwnerInv'
  BY <1>14 DEF Wire, Goto
<1>15. ASSUME NEW p \in Procs, Put(p) PROVE OwnerInv'
  BY <1>15 DEF Put, Goto
<1>16. ASSUME NEW p \in Procs, CloseChan(p) PROVE OwnerInv'
  BY <1>16 DEF CloseChan, Goto
<1>17. ASSUME NEW p \in Procs, CloseWorker(p) PROVE OwnerInv'
  BY <1>17 DEF CloseWorker, Goto
<1>18. ASSUME NEW p \in Procs, RemoveWorker(p) PROVE OwnerInv'
  BY <1>18 DEF RemoveWorker, Goto
<1>19. ASSUME NEW p \in Procs, GiveBack(p) PROVE OwnerInv'
  BY <1>19 DEF GiveBack, Return, Goto
<1>20. CASE Shutdown
  BY <1>20 DEF Shutdown
<1>21. CASE ShutdownClose
  BY <1>21 DEF ShutdownClose
<1>22. CASE UNCHANGED vars
  BY <1>22 DEF vars
<1> QED
  BY <1>1, <1>2, <1>3, <1>4, <1>5, <1>6, <1>7, <1>8, <1>9, <1>10, <1>11, <1>12, <1>13,
     <1>14, <1>15, <1>16, <1>17, <1>18, <1>19, <1>20, <1>21, <1>22 DEF Next, Step

\* Who owns which worker, in every reachable state.
LEMMA Owners == Spec => []OwnerInv
<1>1. Init => OwnerInv
  BY DEF Init, OwnerInv, OneOwner, CarriedAlive, Pinned, Carriers, Carrying
<1> QED
  BY <1>1, OwnerStep, Ownership, PTL DEF Spec

\* A worker has one owner, so of all KillWorker calls one closes it, and a pinned
\* worker runs until Shutdown begins.
THEOREM OneOwnerHolds == Spec => []OneOwner
<1>1. OwnerInv => OneOwner
  BY DEF OwnerInv
<1> QED
  BY <1>1, Owners, PTL

-----------------------------------------------------------------------------
(* Refinement *)

PoolInv == OwnershipInv /\ OwnerInv /\ TicketConservation

\* SpawnOK starts a worker: there was room for one more.
LEMMA SpawnRefines ==
    ASSUME PoolInv, PoolInv', NEW p \in Procs, NEW w, SpawnOK(p, w)
    PROVE  w \in Workers /\ Promise!Start(w)
<1>1. w \in Workers /\ w \notin alive /\ alive' = alive \cup {w}
  BY DEF PoolInv, OwnershipInv, InCall, SpawnOK, Fresh, Workers
<1>2. IsFiniteSet(alive) /\ Cardinality(alive) \in Nat
  BY Ceiling, FS_CardinalityType DEF PoolInv
<1>3. Cardinality(alive') = Cardinality(alive) + 1
  BY <1>1, <1>2, FS_AddElement
<1>4. Cardinality(alive') <= Max
  <2>1. OwnershipInv' /\ TicketConservation'
    BY DEF PoolInv
  <2>2. (OwnershipInv /\ TicketConservation => IsFiniteSet(alive) /\ LiveAtMostMax)'
    BY Ceiling, PTL
  <2> QED
    BY <2>1, <2>2 DEF LiveAtMostMax
<1>5. Cardinality(alive) < Max
  BY <1>2, <1>3, <1>4, MaxAssumption
<1>6. Promise!Cardinality(alive) = Cardinality(alive)
  BY DEF Promise!Cardinality, Cardinality
<1> QED
  BY <1>1, <1>5, <1>6 DEF SpawnOK, Promise!Start

\* Every step of the pool is a step of its promise, or changes nothing of it.
LEMMA StepRefines == PoolInv /\ PoolInv' /\ [Next]_vars => [Promise!AbsNext]_(Promise!absVars)
<1> SUFFICES ASSUME PoolInv, PoolInv', [Next]_vars
             PROVE  Promise!AbsNext \/ UNCHANGED Promise!absVars
  OBVIOUS
<1> USE DEF PoolInv, OwnershipInv, OwnerInv, TypeOK
<1>1. ASSUME NEW p \in Procs, NEW w, SpawnOK(p, w) PROVE Promise!AbsNext
  BY <1>1, SpawnRefines DEF Promise!AbsNext
<1>2. ASSUME NEW p \in Procs, Put(p) PROVE Promise!AbsNext
  <2>1. sess[p] \in Sessions /\ held[p] \in Workers /\ registry[sess[p]] = NoWorker
    BY <1>2, NamesAssumption DEF Put, InCall, Flights, Carriers, Carrying, Leading
  <2>2. \A t \in Sessions : registry[t] # held[p]
    BY <1>2, <2>1, NamesAssumption DEF Put, OneOwner, Pinned, Carriers, Carrying
  <2>3. shut = "running" => held[p] \in alive
    BY <1>2 DEF Put, CarriedAlive, Carriers, Carrying
  <2>4. Promise!Pin(sess[p], held[p])
    BY <1>2, <2>1, <2>2, <2>3 DEF Put, Promise!Pin
  <2> QED
    BY <2>1, <2>4 DEF Promise!AbsNext
<1>3. ASSUME NEW p \in Procs, NEW s \in Sessions, KillWorker(p, s) PROVE Promise!AbsNext
  <2>1. Promise!Unpin(s)
    BY <1>3 DEF KillWorker, Promise!Unpin
  <2> QED
    BY <2>1 DEF Promise!AbsNext
<1>4. ASSUME NEW p \in Procs, CloseWorker(p) PROVE Promise!AbsNext \/ UNCHANGED Promise!absVars
  <2>1. CASE held[p] \in alive
    <3>1. \A s \in Sessions : registry[s] # held[p]
      BY <1>4, <2>1, NamesAssumption DEF CloseWorker, OneOwner, Pinned, Carriers, Carrying
    <3>2. Promise!Close(held[p])
      BY <1>4, <2>1, <3>1 DEF CloseWorker, Promise!Close
    <3> QED
      BY <2>1, <3>2 DEF Promise!AbsNext
  <2>2. CASE held[p] \notin alive
    BY <1>4, <2>2 DEF CloseWorker, Promise!absVars
  <2> QED
    BY <2>1, <2>2
<1>5. CASE Shutdown
  <2>1. Promise!Stop
    BY <1>5 DEF Shutdown, Promise!Stop
  <2> QED
    BY <2>1 DEF Promise!AbsNext
<1>6. CASE ShutdownClose
  <2>1. CASE todo # <<>> /\ Head(todo) \in alive
    <3>1. Promise!Close(Head(todo))
      BY <1>6, <2>1 DEF ShutdownClose, Promise!Close
    <3> QED
      BY <2>1, <3>1 DEF Promise!AbsNext
  <2>2. CASE todo = <<>> \/ Head(todo) \notin alive
    BY <1>6, <2>2 DEF ShutdownClose, Promise!absVars
  <2> QED
    BY <2>1, <2>2
<1>7. CASE UNCHANGED <<registry, alive, shut>>
  BY <1>7 DEF Promise!absVars
<1> QED
  BY <1>1, <1>2, <1>3, <1>4, <1>5, <1>6, <1>7 DEF Next, Step, Acquire, WaitCancelled,
     TicketCancelled, LookupFound, LookupPending, LookupLead, WaitDone, TakeTicket,
     SpawnFail, RefundTicket, DropInflight, Wire, CloseChan, RemoveWorker, GiveBack, vars

\* Pool.Acquire, KillWorker and Shutdown keep the promise of SessionPool.
THEOREM PoolImplements == Spec => Implements
<1>1. Init => Promise!AbsInit
  BY DEF Init, Promise!AbsInit
<1>2. Spec => []PoolInv
  BY Ownership, Owners, Tickets, PTL DEF PoolInv
<1> QED
  BY <1>1, <1>2, StepRefines, PTL DEF Spec, Implements, Promise!AbsSpec
=============================================================================
