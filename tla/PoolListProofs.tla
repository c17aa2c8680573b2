--------------------------- MODULE PoolListProofs ---------------------------
(***************************************************************************)
(* Proofs about p.workers, the list that Shutdown goes by.                 *)
(*                                                                         *)
(* The argument.  removeWorker drops the first entry with the ID of the    *)
(* worker it was given, which need not be that worker's entry.  The list   *)
(* survives this because of a count and an order: an ID has as many        *)
(* entries as there are pins of it and goroutines from wireWorker's append *)
(* to removeWorker (Entries), and the entry of a worker that is pinned, or *)
(* about to be, is the last of its ID (Newest).  So a removeWorker that    *)
(* runs while a newer worker of the session is pinned finds two entries    *)
(* at least, and takes another than the last.                              *)
(***************************************************************************)
EXTENDS PoolProofs

\* where a goroutine accounts for one entry of p.workers
Listing == {"put", "close", "remove"}
Listers(w) == {p \in Procs : pc[p] \in Listing /\ ID(held[p]) = ID(w)}
Pins(w) == {s \in Pinned : ID(registry[s]) = ID(w)}

\* Every entry of an ID is accounted for by a pin or by a goroutine.
Entries ==
    \A w \in Workers : Cardinality(Hits(w)) = Cardinality(Listers(w)) + Cardinality(Pins(w))

\* A worker is used for the session it was spawned for.
Belongs ==
    /\ \A s \in Pinned : registry[s][1] = s
    /\ \A p \in Procs : pc[p] \in Carrying \cup {"remove"} =>
        held[p] \in Workers /\ held[p][1] = sess[p]

\* the last entry of w's ID is w
IsLast(w) == \E k \in Hits(w) : workers[k] = w /\ \A j \in Hits(w) : j <= k

\* A worker that is pinned, or about to be, has the last entry of its ID.
Newest ==
    /\ \A s \in Pinned : IsLast(registry[s])
    /\ \A p \in Procs : pc[p] = "put" => IsLast(held[p])

ListInv == Belongs /\ Entries /\ Newest

-----------------------------------------------------------------------------
(* Facts about the list *)

\* What dropping one entry does to the others.
LEMMA WithoutEntries ==
    ASSUME workers \in Seq(Workers), NEW i \in 1..Len(workers)
    PROVE  /\ Without(i) \in Seq(Workers)
           /\ Len(Without(i)) = Len(workers) - 1
           /\ \A j \in 1..Len(workers) - 1 :
                Without(i)[j] = IF j < i THEN workers[j] ELSE workers[j + 1]
<1>1. Len(workers) \in Nat /\ \A j \in 1..Len(workers) : workers[j] \in Workers
  BY LenProperties, ElementOfSeq
<1> DEFINE l == SubSeq(workers, 1, i - 1)
           r == SubSeq(workers, i + 1, Len(workers))
<1>2. l \in Seq(Workers) /\ Len(l) = i - 1 /\ \A j \in 1..i - 1 : l[j] = workers[j]
  BY <1>1, SubSeqProperties
<1>3. /\ r \in Seq(Workers) /\ Len(r) = Len(workers) - i
      /\ \A j \in 1..Len(workers) - i : r[j] = workers[i + j]
  BY <1>1, SubSeqProperties
<1>4. Without(i) = l \o r
  BY DEF Without
<1> HIDE DEF l, r
<1>5. /\ l \o r \in Seq(Workers) /\ Len(l \o r) = Len(l) + Len(r)
      /\ \A j \in 1..Len(l) + Len(r) : (l \o r)[j] = IF j <= Len(l) THEN l[j] ELSE r[j - Len(l)]
  BY <1>2, <1>3, ConcatProperties
<1>6. Len(l \o r) = Len(workers) - 1
  BY <1>1, <1>2, <1>3, <1>5
<1>7. ASSUME NEW j \in 1..Len(workers) - 1
      PROVE  (l \o r)[j] = IF j < i THEN workers[j] ELSE workers[j + 1]
  <2>1. CASE j < i
    BY <1>1, <1>2, <1>3, <1>5, <2>1
  <2>2. CASE j >= i
    <3>1. (l \o r)[j] = r[j - (i - 1)]
      BY <1>1, <1>2, <1>3, <1>5, <2>2
    <3>2. j - (i - 1) \in 1..Len(workers) - i
      BY <1>1, <2>2
    <3>3. r[j - (i - 1)] = workers[i + (j - (i - 1))]
      BY <1>3, <3>2
    <3>4. i + (j - (i - 1)) = j + 1
      BY <1>1, <2>2
    <3> QED
      BY <2>2, <3>1, <3>3, <3>4
  <2>3. j < i \/ j >= i
    BY <1>1
  <2> QED
    BY <2>1, <2>2, <2>3
<1> QED
  BY <1>4, <1>5, <1>6, <1>7

\* The entries of an ID are finitely many.
LEMMA HitsFinite ==
    ASSUME TypeOK, NEW w
    PROVE  /\ Hits(w) \in SUBSET (1..Len(workers)) /\ Len(workers) \in Nat
           /\ IsFiniteSet(Hits(w)) /\ Cardinality(Hits(w)) \in Nat
<1>1. Hits(w) \in SUBSET (1..Len(workers)) /\ Len(workers) \in Nat
  BY LenProperties DEF Hits, TypeOK
<1>2. IsFiniteSet(1..Len(workers))
  BY <1>1, FS_Interval
<1> QED
  BY <1>1, <1>2, FS_Subset, FS_CardinalityType

\* Those who account for an entry are finitely many.
LEMMA ListersFinite ==
    ASSUME NEW w
    PROVE  /\ IsFiniteSet(Listers(w)) /\ Cardinality(Listers(w)) \in Nat
           /\ IsFiniteSet(Pins(w)) /\ Cardinality(Pins(w)) \in Nat
<1>1. Listers(w) \in SUBSET Procs /\ Pins(w) \in SUBSET Sessions
  BY DEF Listers, Pins, Pinned
<1> QED
  BY <1>1, FiniteAssumption, FS_Subset, FS_CardinalityType

\* The entries of an ID after one entry is dropped: as many as before, or one less.
LEMMA HitsWithout ==
    ASSUME TypeOK, TypeOK', NEW i \in 1..Len(workers), workers' = Without(i), NEW v
    PROVE  /\ i \in Hits(v) => Cardinality(Hits(v)') = Cardinality(Hits(v)) - 1
           /\ i \notin Hits(v) => Cardinality(Hits(v)') = Cardinality(Hits(v))
<1> DEFINE n == Len(workers)
           D == Hits(v) \ {i}
           f == [j \in D |-> IF j < i THEN j ELSE j - 1]
<1>1. n \in Nat /\ Len(workers') = n - 1
  BY WithoutEntries, HitsFinite DEF TypeOK
<1>2. \A j \in 1..n - 1 : workers'[j] = IF j < i THEN workers[j] ELSE workers[j + 1]
  BY WithoutEntries DEF TypeOK
<1>3. Hits(v) = {j \in 1..n : ID(workers[j]) = ID(v)}
  BY LenProperties DEF Hits, TypeOK
<1>4. Hits(v)' = {j \in 1..n - 1 : ID(workers'[j]) = ID(v)}
  BY <1>1, LenProperties DEF Hits, TypeOK, ID
<1> HIDE DEF n
<1>5. f \in [D -> Hits(v)']
  <2> SUFFICES ASSUME NEW j \in D PROVE f[j] \in Hits(v)'
    OBVIOUS
  <2>1. j \in 1..n /\ j # i /\ ID(workers[j]) = ID(v)
    BY <1>3
  <2>2. CASE j < i
    BY <1>1, <1>2, <1>4, <2>1, <2>2 DEF n
  <2>3. CASE j > i
    <3>1. j - 1 \in 1..n - 1 /\ ~(j - 1 < i) /\ (j - 1) + 1 = j
      BY <1>1, <2>1, <2>3
    <3>2. workers'[j - 1] = workers[j]
      BY <1>2, <3>1
    <3> QED
      BY <1>4, <2>1, <2>3, <3>1, <3>2
  <2> QED
    BY <1>1, <2>1, <2>2, <2>3
<1>6. \A j, k \in D : f[j] = f[k] => j = k
  BY <1>1, <1>3 DEF n
<1>7. \A k \in Hits(v)' : \E j \in D : f[j] = k
  <2> SUFFICES ASSUME NEW k \in Hits(v)' PROVE \E j \in D : f[j] = k
    OBVIOUS
  <2>1. k \in 1..n - 1 /\ ID(workers'[k]) = ID(v)
    BY <1>4
  <2>2. CASE k < i
    <3>1. k \in D
      BY <1>1, <1>2, <1>3, <2>1, <2>2 DEF n
    <3> QED
      BY <2>2, <3>1
  <2>3. CASE k >= i
    <3>1. k + 1 \in 1..n /\ workers'[k] = workers[k + 1] /\ k + 1 # i /\ ~(k + 1 < i) /\ (k + 1) - 1 = k
      BY <1>1, <1>2, <2>1, <2>3
    <3>2. k + 1 \in D
      BY <1>3, <2>1, <3>1
    <3> QED
      BY <3>1, <3>2
  <2> QED
    BY <1>1, <2>1, <2>2, <2>3
<1>8. f \in Bijection(D, Hits(v)')
  <2>1. f \in Injection(D, Hits(v)')
    BY <1>5, <1>6 DEF Injection, IsInjective
  <2>2. f \in Surjection(D, Hits(v)')
    BY <1>5, <1>7 DEF Surjection
  <2> QED
    BY <2>1, <2>2 DEF Bijection
<1>9. IsFiniteSet(Hits(v)) /\ IsFiniteSet(D) /\ Cardinality(Hits(v)) \in Nat
  BY HitsFinite, FS_Subset
<1>10. Cardinality(Hits(v)') = Cardinality(D)
  <2>1. ExistsBijection(D, Hits(v)')
    BY <1>8 DEF ExistsBijection
  <2> QED
    BY <1>9, <2>1, FS_Bijection
<1>11. i \in Hits(v) => Cardinality(D) = Cardinality(Hits(v)) - 1
  BY <1>9, FS_RemoveElement
<1>12. i \notin Hits(v) => D = Hits(v)
  OBVIOUS
<1> QED
  BY <1>10, <1>11, <1>12
-----------------------------------------------------------------------------
(* The list invariant *)

\* Every step uses a worker for the session it was spawned for.
LEMMA BelongsStep == OwnershipInv /\ Belongs /\ [Next]_vars => Belongs'
<1> SUFFICES ASSUME OwnershipInv, Belongs, [Next]_vars PROVE Belongs'
  OBVIOUS
<1> USE NamesAssumption DEF OwnershipInv, TypeOK, InCall, Belongs, Pinned, Carriers, Carrying, local
<1>1. ASSUME NEW p \in Procs, NEW s \in Sessions, Acquire(p, s) PROVE Belongs'
  BY <1>1 DEF Acquire, Goto
<1>2. ASSUME NEW p \in Procs, NEW s \in Sessions, KillWorker(p, s) PROVE Belongs'
  BY <1>2 DEF KillWorker, Goto
<1>3. ASSUME NEW p \in Procs, WaitCancelled(p) PROVE Belongs'
  BY <1>3 DEF WaitCancelled, Return, Goto
<1>4. ASSUME NEW p \in Procs, TicketCancelled(p) PROVE Belongs'
  BY <1>4 DEF TicketCancelled, Goto
<1>5. ASSUME NEW p \in Procs, LookupFound(p) PROVE Belongs'
  BY <1>5 DEF LookupFound, Return, Goto
<1>6. ASSUME NEW p \in Procs, LookupPending(p) PROVE Belongs'
  BY <1>6 DEF LookupPending, Goto
<1>7. ASSUME NEW p \in Procs, LookupLead(p) PROVE Belongs'
  BY <1>7 DEF LookupLead, Goto
<1>8. ASSUME NEW p \in Procs, WaitDone(p) PROVE Belongs'
  BY <1>8 DEF WaitDone, Goto
<1>9. ASSUME NEW p \in Procs, TakeTicket(p) PROVE Belongs'
  BY <1>9 DEF TakeTicket, Goto
<1>10. ASSUME NEW p \in Procs, NEW w, SpawnOK(p, w) PROVE Belongs'
  BY <1>10 DEF SpawnOK, Fresh, Workers, Goto
<1>11. ASSUME NEW p \in Procs, SpawnFail(p) PROVE Belongs'
  BY <1>11 DEF SpawnFail, Goto
<1>12. ASSUME NEW p \in Procs, RefundTicket(p) PROVE Belongs'
  BY <1>12 DEF RefundTicket, Goto
<1>13. ASSUME NEW p \in Procs, DropInflight(p) PROVE Belongs'
  BY <1>13 DEF DropInflight, Goto
<1>14. ASSUME NEW p \in Procs, Wire(p) PROVE Belongs'
  BY <1>14 DEF Wire, Goto
<1>15. ASSUME NEW p \in Procs, Put(p) PROVE Belongs'
  BY <1>15 DEF Put, Goto
<1>16. ASSUME NEW p \in Procs, CloseChan(p) PROVE Belongs'
  BY <1>16 DEF CloseChan, Goto
<1>17. ASSUME NEW p \in Procs, CloseWorker(p) PROVE Belongs'
  BY <1>17 DEF CloseWorker, Goto
<1>18. ASSUME NEW p \in Procs, RemoveWorker(p) PROVE Belongs'
  BY <1>18 DEF RemoveWorker, Goto
<1>19. ASSUME NEW p \in Procs, GiveBack(p) PROVE Belongs'
  BY <1>19 DEF GiveBack, Return, Goto
<1>20. ASSUME Shutdown PROVE Belongs'
  BY <1>20 DEF Shutdown
<1>21. ASSUME ShutdownClose PROVE Belongs'
  BY <1>21 DEF ShutdownClose
<1>22. ASSUME UNCHANGED vars PROVE Belongs'
  BY <1>22 DEF vars
<1> QED
  BY <1>1, <1>2, <1>3, <1>4, <1>5, <1>6, <1>7, <1>8, <1>9, <1>10, <1>11, <1>12, <1>13,
     <1>14, <1>15, <1>16, <1>17, <1>18, <1>19, <1>20, <1>21, <1>22 DEF Next, Step

\* Every step that adds or drops an entry changes one account of it, and a pin
\* becomes a goroutine's account or the other way round.
LEMMA EntriesStep ==
    OwnershipInv /\ OwnershipInv' /\ Belongs /\ Entries /\ [Next]_vars => Entries'
<1> SUFFICES ASSUME OwnershipInv, OwnershipInv', Belongs, Entries, [Next]_vars PROVE Entries'
  OBVIOUS
<1> DEFINE Still == \A w \in Workers :
             Hits(w)' = Hits(w) /\ Listers(w)' = Listers(w) /\ Pins(w)' = Pins(w)
<1>0. TypeOK /\ InCall /\ Flights
  BY DEF OwnershipInv
<1> USE <1>0, NamesAssumption DEF TypeOK, InCall, Hits, Listers, Listing, Pins, Pinned, ID, local
<1>1. ASSUME NEW p \in Procs, NEW s \in Sessions, Acquire(p, s) PROVE Still
  BY <1>1 DEF Acquire, Goto
<1>2. ASSUME NEW p \in Procs, NEW s \in Sessions, KillWorker(p, s) PROVE Entries'
  <2> SUFFICES ASSUME NEW w \in Workers
               PROVE  Cardinality(Hits(w)') = Cardinality(Listers(w)') + Cardinality(Pins(w)')
    BY DEF Entries
  <2>0. Hits(w)' = Hits(w)
    BY <1>2 DEF KillWorker
  <2>1. CASE ID(registry[s]) = ID(w)
    <3>1. Listers(w)' = Listers(w) \cup {p} /\ p \notin Listers(w)
      BY <1>2, <2>1 DEF KillWorker, Goto
    <3>2. Pins(w)' = Pins(w) \ {s} /\ s \in Pins(w)
      BY <1>2, <2>1 DEF KillWorker
    <3> HIDE DEF Hits, Listers, Pins
    <3>3. Cardinality(Listers(w)') = Cardinality(Listers(w)) + 1
      BY <3>1, ListersFinite, FS_AddElement
    <3>4. Cardinality(Pins(w)') = Cardinality(Pins(w)) - 1
      BY <3>2, ListersFinite, FS_RemoveElement
    <3> QED
      BY <2>0, <3>3, <3>4, ListersFinite DEF Entries
  <2>2. CASE ID(registry[s]) # ID(w)
    <3>1. Listers(w)' = Listers(w)
      BY <1>2, <2>2 DEF KillWorker, Goto
    <3>2. Pins(w)' = Pins(w)
      BY <1>2, <2>2 DEF KillWorker
    <3> HIDE DEF Hits, Listers, Pins
    <3> QED
      BY <2>0, <3>1, <3>2 DEF Entries
  <2> QED
    BY <2>1, <2>2
<1>3. ASSUME NEW p \in Procs, WaitCancelled(p) PROVE Still
  BY <1>3 DEF WaitCancelled, Return, Goto
<1>4. ASSUME NEW p \in Procs, TicketCancelled(p) PROVE Still
  BY <1>4 DEF TicketCancelled, Goto
<1>5. ASSUME NEW p \in Procs, LookupFound(p) PROVE Still
  BY <1>5 DEF LookupFound, Return, Goto
<1>6. ASSUME NEW p \in Procs, LookupPending(p) PROVE Still
  BY <1>6 DEF LookupPending, Goto
<1>7. ASSUME NEW p \in Procs, LookupLead(p) PROVE Still
  BY <1>7 DEF LookupLead, Goto
<1>8. ASSUME NEW p \in Procs, WaitDone(p) PROVE Still
  BY <1>8 DEF WaitDone, Goto
<1>9. ASSUME NEW p \in Procs, TakeTicket(p) PROVE Still
  BY <1>9 DEF TakeTicket, Goto
<1>10. ASSUME NEW p \in Procs, NEW w, SpawnOK(p, w) PROVE Still
  BY <1>10 DEF SpawnOK, Fresh, Workers, Goto
<1>11. ASSUME NEW p \in Procs, SpawnFail(p) PROVE Still
  BY <1>11 DEF SpawnFail, Goto
<1>12. ASSUME NEW p \in Procs, RefundTicket(p) PROVE Still
  BY <1>12 DEF RefundTicket, Goto
<1>13. ASSUME NEW p \in Procs, DropInflight(p) PROVE Still
  BY <1>13 DEF DropInflight, Goto
<1>14. ASSUME NEW p \in Procs, Wire(p) PROVE Entries'
  <2> SUFFICES ASSUME NEW w \in Workers
               PROVE  Cardinality(Hits(w)') = Cardinality(Listers(w)') + Cardinality(Pins(w)')
    BY DEF Entries
  <2> DEFINE n == Len(workers) + 1
  <2>0. Pins(w)' = Pins(w)
    BY <1>14 DEF Wire
  <2>1. /\ n \in Nat /\ n \notin Hits(w) /\ DOMAIN workers' = DOMAIN workers \cup {n}
        /\ \A i \in DOMAIN workers : workers'[i] = workers[i]
        /\ workers'[n] = held[p]
    <3>1. held[p] \in Workers
      BY <1>14 DEF Wire, Carriers, Carrying
    <3>2. /\ workers' \in Seq(Workers) /\ Len(workers') = n
          /\ \A i \in 1..Len(workers) : workers'[i] = workers[i]
          /\ workers'[n] = held[p]
      BY <1>14, <3>1, AppendProperties DEF Wire
    <3>3. DOMAIN workers = 1..Len(workers) /\ DOMAIN workers' = 1..n /\ Len(workers) \in Nat
      BY <3>2, LenProperties
    <3> QED
      BY <3>2, <3>3
  <2> HIDE DEF n
  <2>2. CASE ID(held[p]) = ID(w)
    <3>1. Listers(w)' = Listers(w) \cup {p} /\ p \notin Listers(w)
      BY <1>14, <2>2 DEF Wire, Goto
    <3>2. Hits(w)' = Hits(w) \cup {n}
      BY <2>1, <2>2
    <3> HIDE DEF Hits, Listers, Pins
    <3>3. /\ Cardinality(Listers(w)') = Cardinality(Listers(w)) + 1
          /\ Cardinality(Hits(w)') = Cardinality(Hits(w)) + 1
      BY <2>1, <3>1, <3>2, HitsFinite, ListersFinite, FS_AddElement
    <3> QED
      BY <2>0, <3>3, ListersFinite DEF Entries
  <2>3. CASE ID(held[p]) # ID(w)
    <3>1. Listers(w)' = Listers(w)
      BY <1>14, <2>3 DEF Wire, Goto
    <3>2. Hits(w)' = Hits(w)
      BY <2>1, <2>3
    <3> HIDE DEF Hits, Listers, Pins
    <3> QED
      BY <2>0, <3>1, <3>2 DEF Entries
  <2> QED
    BY <2>2, <2>3
<1>15. ASSUME NEW p \in Procs, Put(p) PROVE Entries'
  <2> SUFFICES ASSUME NEW w \in Workers
               PROVE  Cardinality(Hits(w)') = Cardinality(Listers(w)') + Cardinality(Pins(w)')
    BY DEF Entries
  <2>0. /\ Hits(w)' = Hits(w)
        /\ sess[p] \in Sessions /\ registry[sess[p]] = NoWorker /\ held[p] \in Workers
    BY <1>15 DEF Put, Flights, Leading, Carriers, Carrying
  <2>1. CASE ID(held[p]) = ID(w)
    <3>1. Listers(w)' = Listers(w) \ {p} /\ p \in Listers(w)
      BY <1>15, <2>1 DEF Put, Goto
    <3>2. Pins(w)' = Pins(w) \cup {sess[p]} /\ sess[p] \notin Pins(w)
      BY <1>15, <2>0, <2>1 DEF Put
    <3> HIDE DEF Hits, Listers, Pins
    <3>3. Cardinality(Listers(w)') = Cardinality(Listers(w)) - 1
      BY <3>1, ListersFinite, FS_RemoveElement
    <3>4. Cardinality(Pins(w)') = Cardinality(Pins(w)) + 1
      BY <3>2, ListersFinite, FS_AddElement
    <3> QED
      BY <2>0, <3>3, <3>4, ListersFinite DEF Entries
  <2>2. CASE ID(held[p]) # ID(w)
    <3>1. Listers(w)' = Listers(w)
      BY <1>15, <2>2 DEF Put, Goto
    <3>2. Pins(w)' = Pins(w)
      BY <1>15, <2>0, <2>2 DEF Put
    <3> HIDE DEF Hits, Listers, Pins
    <3> QED
      BY <2>0, <3>1, <3>2 DEF Entries
  <2> QED
    BY <2>1, <2>2
<1>16. ASSUME NEW p \in Procs, CloseChan(p) PROVE Still
  BY <1>16 DEF CloseChan, Goto
<1>17. ASSUME NEW p \in Procs, CloseWorker(p) PROVE Still
  BY <1>17 DEF CloseWorker, Goto
<1>18. ASSUME NEW p \in Procs, RemoveWorker(p) PROVE Entries'
  <2> SUFFICES ASSUME NEW w \in Workers
               PROVE  Cardinality(Hits(w)') = Cardinality(Listers(w)') + Cardinality(Pins(w)')
    BY DEF Entries
  <2>0. Pins(w)' = Pins(w) /\ held[p] \in Workers
    BY <1>18 DEF RemoveWorker, Belongs
  <2>1. Hits(held[p]) # {}
    <3>1. p \in Listers(held[p])
      BY <1>18 DEF RemoveWorker
    <3> HIDE DEF Hits, Listers, Pins
    <3>2. Cardinality(Listers(held[p])) # 0
      BY <3>1, ListersFinite, FS_EmptySet
    <3>3. Cardinality(Hits(held[p])) # 0
      BY <2>0, <3>2, ListersFinite DEF Entries
    <3> QED
      BY <3>3, FS_EmptySet
  <2>2. PICK i \in Hits(held[p]) : workers' = Without(i)
    BY <1>18, <2>1 DEF RemoveWorker
  <2>3. i \in 1..Len(workers) /\ ID(workers[i]) = ID(held[p])
    BY HitsFinite
  <2>4. TypeOK'
    BY DEF OwnershipInv
  <2>5. CASE ID(held[p]) = ID(w)
    <3>1. Listers(w)' = Listers(w) \ {p} /\ p \in Listers(w)
      BY <1>18, <2>5 DEF RemoveWorker, Goto
    <3>2. i \in Hits(w)
      BY <2>3, <2>5
    <3> HIDE DEF Hits, Listers, Pins, TypeOK
    <3>3. Cardinality(Hits(w)') = Cardinality(Hits(w)) - 1
      BY <2>2, <2>3, <2>4, <3>2, HitsWithout
    <3>4. Cardinality(Listers(w)') = Cardinality(Listers(w)) - 1
      BY <3>1, ListersFinite, FS_RemoveElement
    <3> QED
      BY <2>0, <3>3, <3>4, ListersFinite DEF Entries
  <2>6. CASE ID(held[p]) # ID(w)
    <3>1. Listers(w)' = Listers(w)
      BY <1>18, <2>6 DEF RemoveWorker, Goto
    <3>2. i \notin Hits(w)
      BY <2>3, <2>6
    <3> HIDE DEF Hits, Listers, Pins, TypeOK
    <3>3. Cardinality(Hits(w)') = Cardinality(Hits(w))
      BY <2>2, <2>3, <2>4, <3>2, HitsWithout
    <3> QED
      BY <2>0, <3>1, <3>3 DEF Entries
  <2> QED
    BY <2>5, <2>6
<1>19. ASSUME NEW p \in Procs, GiveBack(p) PROVE Still
  BY <1>19 DEF GiveBack, Return, Goto
<1>20. ASSUME Shutdown PROVE Still
  BY <1>20 DEF Shutdown
<1>21. ASSUME ShutdownClose PROVE Still
  BY <1>21 DEF ShutdownClose
<1>22. ASSUME UNCHANGED vars PROVE Still
  BY <1>22 DEF vars
<1>23. Still => Entries'
  <2> HIDE DEF Hits, Listers, Pins
  <2> QED
    BY DEF Entries
<1> QED
  BY <1>1, <1>2, <1>3, <1>4, <1>5, <1>6, <1>7, <1>8, <1>9, <1>10, <1>11, <1>12, <1>13,
     <1>14, <1>15, <1>16, <1>17, <1>18, <1>19, <1>20, <1>21, <1>22, <1>23 DEF Next, Step
\* A worker with the last entry of its ID keeps it when another entry is dropped.
LEMMA LastKept ==
    ASSUME TypeOK, TypeOK', NEW i \in 1..Len(workers), workers' = Without(i), NEW w,
           NEW k \in Hits(w), workers[k] = w, \A j \in Hits(w) : j <= k, i # k
    PROVE  IsLast(w)'
<1> DEFINE n == Len(workers)
           m == IF k < i THEN k ELSE k - 1
<1>1. n \in Nat /\ Len(workers') = n - 1
  BY WithoutEntries, HitsFinite DEF TypeOK
<1>2. \A j \in 1..n - 1 : workers'[j] = IF j < i THEN workers[j] ELSE workers[j + 1]
  BY WithoutEntries DEF TypeOK
<1>3. Hits(w) = {j \in 1..n : ID(workers[j]) = ID(w)}
  BY LenProperties DEF Hits, TypeOK
<1>4. Hits(w)' = {j \in 1..n - 1 : ID(workers'[j]) = ID(w)}
  BY <1>1, LenProperties DEF Hits, TypeOK, ID
<1>5. i \in 1..n /\ k \in 1..n
  BY <1>3
<1> HIDE DEF n
<1>6. m \in 1..n - 1 /\ workers'[m] = w
  <2>1. CASE k < i
    BY <1>1, <1>2, <1>5, <2>1
  <2>2. CASE k > i
    <3>1. k - 1 \in 1..n - 1 /\ ~(k - 1 < i) /\ (k - 1) + 1 = k
      BY <1>1, <1>5, <2>2
    <3>2. workers'[k - 1] = workers[k]
      BY <1>2, <3>1
    <3> QED
      BY <1>5, <2>2, <3>1, <3>2
  <2> QED
    BY <1>5, <2>1, <2>2
<1>7. m \in Hits(w)'
  BY <1>4, <1>6
<1>8. ASSUME NEW j \in Hits(w)' PROVE j <= m
  <2>1. j \in 1..n - 1 /\ ID(workers'[j]) = ID(w)
    BY <1>4
  <2>2. CASE j < i
    <3>1. j \in Hits(w)
      BY <1>1, <1>2, <1>3, <2>1, <2>2
    <3> QED
      BY <1>5, <2>1, <2>2, <3>1
  <2>3. CASE j >= i
    <3>1. j + 1 \in 1..n /\ workers'[j] = workers[j + 1]
      BY <1>1, <1>2, <2>1, <2>3, <1>5
    <3>2. j + 1 \in Hits(w)
      BY <1>3, <2>1, <3>1
    <3> QED
      BY <1>5, <2>1, <2>3, <3>2
  <2> QED
    BY <1>5, <2>1, <2>2, <2>3
<1> HIDE DEF m
<1> QED
  BY <1>6, <1>7, <1>8 DEF IsLast

\* Two workers with one ID are never wired or pinned at the same time, and a
\* removeWorker that runs meanwhile has an entry of its own.
LEMMA NewestStep ==
    OwnershipInv /\ OwnershipInv' /\ OwnerInv /\ ListInv /\ [Next]_vars => Newest'
<1> SUFFICES ASSUME OwnershipInv, OwnershipInv', OwnerInv, ListInv, [Next]_vars PROVE Newest'
  OBVIOUS
<1> DEFINE Quiet == /\ workers' = workers
                    /\ \A t \in Sessions : registry'[t] \in {registry[t], NoWorker}
                    /\ \A q \in Procs : pc'[q] = "put" => pc[q] = "put" /\ held'[q] = held[q]
<1>0. TypeOK /\ InCall /\ Flights /\ Belongs /\ Entries /\ Newest /\ OneOwner
  BY DEF OwnershipInv, OwnerInv, ListInv
<1> USE <1>0, NamesAssumption DEF TypeOK, InCall, Pinned, local
<1>1. ASSUME NEW p \in Procs, NEW s \in Sessions, Acquire(p, s) PROVE Quiet
  BY <1>1 DEF Acquire, Goto
<1>2. ASSUME NEW p \in Procs, NEW s \in Sessions, KillWorker(p, s) PROVE Quiet
  BY <1>2 DEF KillWorker, Goto
<1>3. ASSUME NEW p \in Procs, WaitCancelled(p) PROVE Quiet
  BY <1>3 DEF WaitCancelled, Return, Goto
<1>4. ASSUME NEW p \in Procs, TicketCancelled(p) PROVE Quiet
  BY <1>4 DEF TicketCancelled, Goto
<1>5. ASSUME NEW p \in Procs, LookupFound(p) PROVE Quiet
  BY <1>5 DEF LookupFound, Return, Goto
<1>6. ASSUME NEW p \in Procs, LookupPending(p) PROVE Quiet
  BY <1>6 DEF LookupPending, Goto
<1>7. ASSUME NEW p \in Procs, LookupLead(p) PROVE Quiet
  BY <1>7 DEF LookupLead, Goto
<1>8. ASSUME NEW p \in Procs, WaitDone(p) PROVE Quiet
  BY <1>8 DEF WaitDone, Goto
<1>9. ASSUME NEW p \in Procs, TakeTicket(p) PROVE Quiet
  BY <1>9 DEF TakeTicket, Goto
<1>10. ASSUME NEW p \in Procs, NEW w, SpawnOK(p, w) PROVE Quiet
  BY <1>10 DEF SpawnOK, Fresh, Workers, Goto
<1>11. ASSUME NEW p \in Procs, SpawnFail(p) PROVE Quiet
  BY <1>11 DEF SpawnFail, Goto
<1>12. ASSUME NEW p \in Procs, RefundTicket(p) PROVE Quiet
  BY <1>12 DEF RefundTicket, Goto
<1>13. ASSUME NEW p \in Procs, DropInflight(p) PROVE Quiet
  BY <1>13 DEF DropInflight, Goto
<1>14. ASSUME NEW p \in Procs, Wire(p) PROVE Newest'
  <2> DEFINE n == Len(workers) + 1
  <2>1. held[p] \in Workers /\ sess[p] \in Sessions /\ registry[sess[p]] = NoWorker /\ held[p][1] = sess[p]
    BY <1>14 DEF Wire, Flights, Leading, Carriers, Carrying, Belongs
  <2>2. /\ Len(workers) \in Nat /\ DOMAIN workers = 1..Len(workers) /\ DOMAIN workers' = 1..n
        /\ \A i \in 1..Len(workers) : workers'[i] = workers[i]
        /\ workers'[n] = held[p]
    BY <1>14, <2>1, AppendProperties, LenProperties DEF Wire
  <2>3. ASSUME NEW w, IsLast(w), ID(w) # ID(held[p]) PROVE IsLast(w)'
    <3>1. PICK k \in Hits(w) : workers[k] = w /\ \A j \in Hits(w) : j <= k
      BY <2>3 DEF IsLast
    <3>2. Hits(w)' = Hits(w) /\ k \in 1..Len(workers)
      BY <2>2, <2>3 DEF Hits, ID
    <3> QED
      BY <2>2, <3>1, <3>2 DEF IsLast
  <2>4. ASSUME NEW s \in Pinned PROVE IsLast(registry[s])'
    <3>1. registry[s] # held[p]
      BY <1>14, <2>4 DEF Wire, OneOwner, Carriers, Carrying
    <3>2. registry[s][1] # held[p][1]
      BY <2>1, <2>4 DEF Belongs
    <3>3. registry' = registry /\ IsLast(registry[s])
      BY <1>14, <2>4 DEF Wire, Newest
    <3>4. IsLast(registry[s]) => ID(registry[s]) # ID(held[p])
      BY <3>1, <3>2 DEF ID
    <3>5. \A w : IsLast(w) /\ ID(w) # ID(held[p]) => IsLast(w)'
      BY <2>3
    <3> QED
      BY <3>3, <3>4, <3>5 DEF IsLast, Hits, ID
  <2>5. ASSUME NEW q \in Procs \ {p}, pc[q] = "put" PROVE IsLast(held[q])'
    <3>1. held[q] # held[p]
      BY <1>14, <2>5 DEF Wire, OneOwner, Carriers, Carrying
    <3>2. held[q][1] # held[p][1]
      BY <1>14, <2>1, <2>5 DEF Wire, Belongs, Carrying, Flights, Leading
    <3>3. held' = held /\ IsLast(held[q])
      BY <1>14, <2>5 DEF Wire, Newest
    <3>4. ID(held[q]) # ID(held[p])
      BY <3>1, <3>2 DEF ID
    <3>5. \A w : IsLast(w) /\ ID(w) # ID(held[p]) => IsLast(w)'
      BY <2>3
    <3> QED
      BY <3>3, <3>4, <3>5 DEF IsLast, Hits, ID
  <2>6. IsLast(held[p])'
    <3>1. n \in Hits(held[p])' /\ \A j \in Hits(held[p])' : j <= n
      BY <1>14, <2>2 DEF Wire, Hits, ID
    <3> HIDE DEF n
    <3>2. held' = held
      BY <1>14 DEF Wire
    <3> QED
      BY <2>2, <3>1, <3>2 DEF IsLast
  <2> QED
    BY <1>14, <2>4, <2>5, <2>6 DEF Wire, Goto, Newest
<1>15. ASSUME NEW p \in Procs, Put(p) PROVE Newest'
  <2>1. \A t \in Pinned' : (t \in Pinned /\ registry'[t] = registry[t]) \/ (t = sess[p] /\ registry'[t] = held[p])
    BY <1>15 DEF Put
  <2>2. IsLast(held[p])
    BY <1>15 DEF Put, Newest
  <2>3. \A t \in Pinned' : IsLast(registry'[t])
    BY <2>1, <2>2 DEF Newest
  <2>4. \A t \in Pinned' : IsLast(registry[t])'
    BY <1>15, <2>3 DEF Put, IsLast, Hits, ID
  <2>5. \A q \in Procs : pc'[q] = "put" => IsLast(held'[q])
    BY <1>15 DEF Put, Goto, Newest
  <2>6. \A q \in Procs : pc'[q] = "put" => IsLast(held[q])'
    BY <1>15, <2>5 DEF Put, IsLast, Hits, ID
  <2> QED
    BY <2>4, <2>6 DEF Newest
<1>16. ASSUME NEW p \in Procs, CloseChan(p) PROVE Quiet
  BY <1>16 DEF CloseChan, Goto
<1>17. ASSUME NEW p \in Procs, CloseWorker(p) PROVE Quiet
  BY <1>17 DEF CloseWorker, Goto
<1>18. ASSUME NEW p \in Procs, RemoveWorker(p) PROVE Newest'
  <2> DEFINE v == held[p]
  <2>0. v \in Workers /\ p \in Listers(v)
    BY <1>18 DEF RemoveWorker, Belongs, Listers, Listing
  <2>1. TypeOK' /\ registry' = registry /\ held' = held
    BY <1>18 DEF OwnershipInv, RemoveWorker
  <2>2. ASSUME NEW w \in Workers, IsLast(w),
               ID(w) = ID(v) => Cardinality(Listers(w)) + Cardinality(Pins(w)) # 1
        PROVE  IsLast(w)'
    <3>1. PICK k \in Hits(w) : workers[k] = w /\ \A j \in Hits(w) : j <= k
      BY <2>2 DEF IsLast
    <3>2. CASE Hits(v) = {}
      BY <1>18, <3>1, <3>2 DEF RemoveWorker, IsLast, Hits, ID
    <3>3. CASE Hits(v) # {}
      <4>1. PICK i \in Hits(v) : (\A j \in Hits(v) : i <= j) /\ workers' = Without(i)
        BY <1>18, <3>3 DEF RemoveWorker
      <4>2. i \in 1..Len(workers) /\ ID(workers[i]) = ID(v) /\ k \in 1..Len(workers) /\ Len(workers) \in Nat
        BY HitsFinite DEF Hits
      <4>3. CASE i = k
        <5>1. ID(w) = ID(v)
          BY <3>1, <4>2, <4>3
        <5>2. Hits(v) = Hits(w)
          BY <5>1 DEF Hits
        <5>3. Hits(w) = {k}
          <6>1. \A j \in Hits(w) : j \in 1..Len(workers) /\ j <= k /\ k <= j
            BY <3>1, <4>1, <4>3, <5>2, HitsFinite
          <6>2. \A j \in Hits(w) : j = k
            BY <4>2, <6>1
          <6> QED
            BY <6>2, Zenon
        <5>4. Cardinality(Hits(w)) = 1
          BY <5>3, FS_Singleton
        <5> QED
          BY <2>2, <5>1, <5>4 DEF Entries
      <4>4. CASE i # k
        <5> HIDE DEF TypeOK
        <5> QED
          BY <2>1, <3>1, <4>1, <4>2, <4>4, LastKept
      <4> QED
        BY <4>3, <4>4
    <3> QED
      BY <3>2, <3>3
  <2>3. ASSUME NEW s \in Pinned PROVE IsLast(registry[s])'
    <3>1. registry[s] \in Workers /\ s \in Pins(registry[s])
      BY <2>3 DEF Pins
    <3>2. ID(registry[s]) = ID(v) => Cardinality(Listers(registry[s])) # 0 /\ Cardinality(Pins(registry[s])) # 0
      <4>1. ID(registry[s]) = ID(v) => p \in Listers(registry[s])
        BY <2>0 DEF Listers
      <4> QED
        BY <3>1, <4>1, ListersFinite, FS_EmptySet
    <3>3. ID(registry[s]) = ID(v) => Cardinality(Listers(registry[s])) + Cardinality(Pins(registry[s])) # 1
      BY <3>2, ListersFinite
    <3>4. IsLast(registry[s])
      BY <2>3 DEF Newest
    <3>5. \A w \in Workers :
            (IsLast(w) /\ (ID(w) = ID(v) => Cardinality(Listers(w)) + Cardinality(Pins(w)) # 1)) => IsLast(w)'
      BY <2>2
    <3> QED
      BY <2>1, <3>1, <3>3, <3>4, <3>5 DEF IsLast, Hits, ID
  <2>4. ASSUME NEW q \in Procs, pc[q] = "put" PROVE IsLast(held[q])'
    <3>1. held[q] \in Workers /\ q # p
      BY <1>18, <2>4 DEF RemoveWorker, Belongs, Carrying
    <3>2. ID(held[q]) = ID(v) => Cardinality(Listers(held[q])) # 1
      <4>1. ID(held[q]) = ID(v) => p \in Listers(held[q]) /\ q \in Listers(held[q])
        BY <2>0, <2>4 DEF Listers, Listing
      <4>2. \A x : Listers(held[q]) # {x} \/ ID(held[q]) # ID(v)
        BY <3>1, <4>1
      <4> QED
        BY <4>2, ListersFinite, FS_Singleton
    <3>3. ID(held[q]) = ID(v) => Cardinality(Listers(held[q])) # 0
      <4>1. ID(held[q]) = ID(v) => p \in Listers(held[q])
        BY <2>0 DEF Listers
      <4> QED
        BY <4>1, ListersFinite, FS_EmptySet
    <3>4. ID(held[q]) = ID(v) => Cardinality(Listers(held[q])) + Cardinality(Pins(held[q])) # 1
      BY <3>2, <3>3, ListersFinite
    <3>5. IsLast(held[q])
      BY <2>4 DEF Newest
    <3>6. \A w \in Workers :
            (IsLast(w) /\ (ID(w) = ID(v) => Cardinality(Listers(w)) + Cardinality(Pins(w)) # 1)) => IsLast(w)'
      BY <2>2
    <3> QED
      BY <2>1, <3>1, <3>4, <3>5, <3>6 DEF IsLast, Hits, ID
  <2> QED
    BY <1>18, <2>3, <2>4 DEF RemoveWorker, Goto, Newest
<1>19. ASSUME NEW p \in Procs, GiveBack(p) PROVE Quiet
  BY <1>19 DEF GiveBack, Return, Goto
<1>20. ASSUME Shutdown PROVE Quiet
  BY <1>20 DEF Shutdown
<1>21. ASSUME ShutdownClose PROVE Quiet
  BY <1>21 DEF ShutdownClose
<1>22. ASSUME UNCHANGED vars PROVE Quiet
  BY <1>22 DEF vars
<1>23. Quiet => Newest'
  <2> SUFFICES ASSUME Quiet PROVE Newest'
    OBVIOUS
  <2>1. \A w : IsLast(w)' <=> IsLast(w)
    BY DEF IsLast, Hits, ID
  <2>2. \A t \in Pinned' : t \in Pinned /\ registry'[t] = registry[t]
    OBVIOUS
  <2>3. \A t \in Pinned' : IsLast(registry[t])'
    BY <2>1, <2>2 DEF Newest, IsLast, Hits, ID
  <2>4. \A q \in Procs : pc'[q] = "put" => IsLast(held[q])'
    BY <2>1 DEF Newest, IsLast, Hits, ID
  <2> QED
    BY <2>3, <2>4 DEF Newest
<1> QED
  BY <1>1, <1>2, <1>3, <1>4, <1>5, <1>6, <1>7, <1>8, <1>9, <1>10, <1>11, <1>12, <1>13,
     <1>14, <1>15, <1>16, <1>17, <1>18, <1>19, <1>20, <1>21, <1>22, <1>23 DEF Next, Step

\* The list invariant holds when the pool is made.
LEMMA ListInit == Init => ListInv
<1> SUFFICES ASSUME Init PROVE ListInv
  OBVIOUS
<1>1. Belongs /\ Newest
  BY DEF Init, Belongs, Newest, Pinned, Carrying
<1>2. \A w \in Workers : Hits(w) = {} /\ Listers(w) = {} /\ Pins(w) = {}
  BY DEF Init, Hits, Listers, Listing, Pins, Pinned
<1>3. Entries
  BY <1>2, FS_EmptySet DEF Entries
<1> QED
  BY <1>1, <1>3 DEF ListInv

\* Every step keeps the pool's whole invariant.
LEMMA PoolListStep == PoolInv /\ ListInv /\ [Next]_vars => PoolInv' /\ ListInv'
<1> SUFFICES ASSUME PoolInv, ListInv, [Next]_vars PROVE PoolInv' /\ ListInv'
  OBVIOUS
<1>1. PoolInv'
  BY TypeStep, InCallStep, FlightsStep, AliveOwnedStep, TicketStep, OwnerStep DEF PoolInv, OwnershipInv
<1>2. OwnershipInv' /\ OwnershipInv /\ OwnerInv
  BY <1>1 DEF PoolInv
<1>3. Belongs'
  BY <1>2, BelongsStep DEF ListInv
<1>4. Entries'
  BY <1>2, EntriesStep DEF ListInv
<1>5. Newest'
  BY <1>2, NewestStep
<1> QED
  BY <1>1, <1>3, <1>4, <1>5 DEF ListInv

\* The pool's whole invariant holds when it is made.
LEMMA PoolListInit == Init => PoolInv /\ ListInv
<1>1. Init => OwnerInv
  BY DEF Init, OwnerInv, OneOwner, CarriedAlive, Pinned, Carriers, Carrying
<1>2. Init => TicketConservation
  BY TicketsInit
<1> QED
  BY <1>1, <1>2, OwnershipInit, ListInit DEF PoolInv

\* A worker that has the last entry of its ID has an entry.
LEMMA LastIsListed == ASSUME NEW w, IsLast(w) PROVE w \in Elements(workers)
  BY DEF IsLast, Hits, Elements

\* removeWorker never drops the entry of a pinned worker, although it goes by an ID
\* that a closing worker of the session shares: Shutdown finds every pinned worker.
THEOREM PinnedIsListedHolds == Spec => []PinnedIsListed
<1>1. ListInv => PinnedIsListed
  BY LastIsListed DEF ListInv, Newest, PinnedIsListed
<1> QED
  BY <1>1, PoolListInit, PoolListStep, PTL DEF Spec
=============================================================================
