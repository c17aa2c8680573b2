---------------------------- MODULE FactoryProofs ----------------------------
(***************************************************************************)
(* Proofs about Spawn and Close, for every number of slots, UIDs,          *)
(* addresses and ports, whatever sessions the slots work for.              *)
(*                                                                         *)
(* The argument.  The plan of a slot is sorted: the undo stack by the      *)
(* order of Spawn, reversed, the calls of Close by their own order         *)
(* (Rank).  So no call is in it twice, and taking the head removes that    *)
(* call and nothing else; and what a slot must still undo is bounded from  *)
(* both sides by its label (Floor, Due).  Each resource has an invariant   *)
(* that ties the allocator to the slots that owe its return; since the     *)
(* lease starts with the push and ends with the call, only those two steps *)
(* need an argument.  The order kill, wait, uid in both lists gives the    *)
(* rest: a UID comes back after the process has gone.  The mappings, which *)
(* are not in the plan, have an invariant of their own (FwdOk): a rollback *)
(* is through with them before it releases the address they lead to.  For  *)
(* the chroot, which slots of one session share, the invariant says which  *)
(* of them has to remove it: the one whose link of the kernel is in it.    *)
(***************************************************************************)
EXTENDS Factory, FiniteSetTheorems, SequenceTheorems, TLAPS

-----------------------------------------------------------------------------
(* Plans *)

\* call is in the list s: what Owes says of plan[v]
Has(s, call) == \E i \in DOMAIN s : s[i] = call

\* the order of the undo stack, newest entry first
SpawnRank(call) ==
    CASE call = "kill" -> 1 [] call = "wait" -> 2 [] call = "tap" -> 3 [] call = "ip" -> 4
      [] call = "chroot" -> 5 [] call = "snapshot_ctx" -> 6 [] call = "snapshot" -> 6
      [] call = "uid" -> 7

\* the order of Close
CloseRank(call) ==
    CASE call = "kill" -> 1 [] call = "wait" -> 2 [] call = "chroot" -> 3 [] call = "tap" -> 4
      [] call = "ip" -> 5 [] call = "snapshot" -> 6 [] call = "snapshot_ctx" -> 6
      [] call = "uid" -> 7

Rank(label, call) == IF label = "clean" THEN CloseRank(call) ELSE SpawnRank(call)

Sorted(s, label) ==
    \A i, j \in DOMAIN s : i < j => Rank(label, s[i]) < Rank(label, s[j])

\* what is on the stack of a Spawn that is at this label has at least this rank
Floor(label) ==
    CASE label \in {"off", "uid"} -> 8
      [] label \in {"warm", "snapshot"} -> 7
      [] label \in {"inject", "mkdir"} -> 6
      [] label \in {"link", "ip"} -> 5
      [] label = "tap" -> 4
      [] label = "start" -> 3
      [] label \in {"dial", "port", "dnat", "run", "undo", "clean"} -> 1

\* the labels at which a call is certainly on the stack
Due(call) ==
    CASE call = "uid" -> (SpawnLabels \ {"uid"}) \cup {"run"}
      [] call = "ip" -> {"tap", "start", "dial", "port", "dnat", "run"}
      [] call = "tap" -> {"start", "dial", "port", "dnat", "run"}
      [] call = "wait" -> {"dial", "port", "dnat", "run"}
      [] OTHER -> {}

PlanOk(label, s) ==
    /\ Sorted(s, label)
    /\ \A c \in Calls : Has(s, c) => Rank(label, c) >= Floor(label)
    /\ \A c \in Calls : label \in Due(c) => Has(s, c)

PlanInv ==
    /\ pc \in [Slots -> Labels] /\ plan \in [Slots -> Seq(Calls)]
    /\ \A v \in Slots : PlanOk(pc[v], plan[v])

\* The ranks are numbers from 1 to 7.
LEMMA RankType ==
  ASSUME NEW label, NEW c \in Calls PROVE Rank(label, c) \in 1..7
<1>1. SpawnRank(c) \in 1..7
  BY DEF SpawnRank, Calls
<1>2. CloseRank(c) \in 1..7
  BY DEF CloseRank, Calls
<1> QED
  BY <1>1, <1>2 DEF Rank

\* Nothing is in the empty list.
LEMMA HasEmpty == \A c : ~Has(<<>>, c)
  BY DEF Has

\* A call that is pushed is owed, and the others are owed as before.
LEMMA PushOne ==
  ASSUME NEW s \in Seq(Calls), NEW a \in Calls
  PROVE  /\ <<a>> \o s \in Seq(Calls)
         /\ \A c : Has(<<a>> \o s, c) <=> (c = a \/ Has(s, c))
<1> DEFINE t == <<a>> \o s
<1>1. t \in Seq(Calls) /\ Len(t) = Len(s) + 1
  OBVIOUS
<1>2. t[1] = a /\ \A i \in 1..Len(s) : t[i + 1] = s[i]
  OBVIOUS
<1>3. \A i \in 2..Len(t) : t[i] = s[i - 1] /\ i - 1 \in 1..Len(s)
  BY <1>1
<1>4. DOMAIN t = 1..Len(t) /\ DOMAIN s = 1..Len(s) /\ Len(s) \in Nat
  BY <1>1
<1> HIDE DEF t
<1>5. ASSUME NEW c, Has(t, c) PROVE c = a \/ Has(s, c)
  <2>1. PICK i \in DOMAIN t : t[i] = c
    BY <1>5 DEF Has
  <2>2. i = 1 \/ i \in 2..Len(t)
    BY <1>4, <2>1, <1>1
  <2>3. CASE i = 1
    BY <2>1, <2>3, <1>2
  <2>4. CASE i \in 2..Len(t)
    BY <2>1, <2>4, <1>3, <1>4 DEF Has
  <2> QED
    BY <2>2, <2>3, <2>4
<1>6. Has(t, a)
  BY <1>1, <1>2, <1>4 DEF Has
<1>7. ASSUME NEW c, Has(s, c) PROVE Has(t, c)
  <2>1. PICK i \in DOMAIN s : s[i] = c
    BY <1>7 DEF Has
  <2>2. i + 1 \in DOMAIN t /\ t[i + 1] = c
    BY <2>1, <1>1, <1>2, <1>4
  <2> QED
    BY <2>2 DEF Has
<1> QED
  BY <1>1, <1>5, <1>6, <1>7 DEF t

\* A push of something of a lower rank than all there is keeps the list sorted.
LEMMA PushSorted ==
  ASSUME NEW s \in Seq(Calls), NEW a \in Calls, NEW label, Sorted(s, label),
         \A c \in Calls : Has(s, c) => Rank(label, a) < Rank(label, c)
  PROVE  Sorted(<<a>> \o s, label)
<1> DEFINE t == <<a>> \o s
<1>1. t \in Seq(Calls) /\ Len(t) = Len(s) + 1
  OBVIOUS
<1>2. t[1] = a /\ \A i \in 2..Len(t) : t[i] = s[i - 1] /\ i - 1 \in 1..Len(s)
  BY <1>1
<1>3. DOMAIN t = 1..Len(t) /\ DOMAIN s = 1..Len(s) /\ Len(s) \in Nat
  BY <1>1
<1> HIDE DEF t
<1>4. \A i \in 1..Len(s) : s[i] \in Calls /\ Rank(label, a) < Rank(label, s[i])
  BY <1>3 DEF Has
<1>5. ASSUME NEW i \in DOMAIN t, NEW j \in DOMAIN t, i < j
      PROVE  Rank(label, t[i]) < Rank(label, t[j])
  <2>1. j \in 2..Len(t) /\ (i = 1 \/ i \in 2..Len(t))
    BY <1>5, <1>3, <1>1
  <2>2. CASE i = 1
    BY <2>1, <2>2, <1>2, <1>4
  <2>3. CASE i \in 2..Len(t)
    <3>1. i - 1 \in DOMAIN s /\ j - 1 \in DOMAIN s /\ i - 1 < j - 1
      BY <2>1, <2>3, <1>2, <1>3, <1>5
    <3> QED
      BY <3>1, <2>1, <2>3, <1>2 DEF Sorted
  <2> QED
    BY <2>1, <2>2, <2>3
<1> QED
  BY <1>5 DEF Sorted, t

\* The head of a sorted plan is taken: that call is not owed any more, the others are,
\* and all of them come after it.
LEMMA TakeHead ==
  ASSUME NEW s \in Seq(Calls), s # <<>>, NEW label, Sorted(s, label)
  PROVE  /\ Head(s) \in Calls /\ Has(s, Head(s))
         /\ Tail(s) \in Seq(Calls) /\ Sorted(Tail(s), label)
         /\ \A c : Has(Tail(s), c) <=> (Has(s, c) /\ c # Head(s))
         /\ \A c : Has(s, c) => c = Head(s) \/ Rank(label, Head(s)) < Rank(label, c)
<1> DEFINE t == Tail(s)
<1>1. /\ t \in Seq(Calls) /\ Len(t) = Len(s) - 1 /\ Len(s) \in Nat /\ Len(s) > 0
      /\ Head(s) = s[1] /\ Head(s) \in Calls
  OBVIOUS
<1>2. \A i \in 1..Len(t) : t[i] = s[i + 1] /\ i + 1 \in DOMAIN s
  BY <1>1
<1>3. DOMAIN t = 1..Len(t) /\ DOMAIN s = 1..Len(s) /\ \A i \in DOMAIN s : s[i] \in Calls
  BY <1>1
<1> HIDE DEF t
<1>4. Has(s, Head(s))
  BY <1>1, <1>3 DEF Has
<1>5. ASSUME NEW c, Has(s, c) PROVE c = Head(s) \/ (Rank(label, Head(s)) < Rank(label, c) /\ Has(t, c))
  <2>1. PICK i \in DOMAIN s : s[i] = c
    BY <1>5 DEF Has
  <2>2. CASE i = 1
    BY <2>1, <2>2, <1>1
  <2>3. CASE i # 1
    <3>1. 1 \in DOMAIN s /\ 1 < i /\ i - 1 \in DOMAIN t /\ t[i - 1] = s[i]
      BY <2>1, <2>3, <1>1, <1>2, <1>3
    <3>2. Rank(label, s[1]) < Rank(label, s[i])
      BY <3>1, <2>1 DEF Sorted
    <3> QED
      BY <3>1, <3>2, <2>1, <1>1 DEF Has
  <2> QED
    BY <2>2, <2>3
<1>6. ASSUME NEW c, Has(t, c) PROVE Has(s, c) /\ c # Head(s)
  <2>1. PICK i \in DOMAIN t : t[i] = c
    BY <1>6 DEF Has
  <2>2. i + 1 \in DOMAIN s /\ s[i + 1] = c /\ 1 \in DOMAIN s /\ 1 < i + 1
    BY <2>1, <1>1, <1>2, <1>3
  <2>3. Rank(label, s[1]) < Rank(label, c)
    BY <2>2 DEF Sorted
  <2>4. c \in Calls /\ Rank(label, c) \in 1..7
    BY <2>2, <1>3, RankType
  <2>5. c # s[1]
    BY <2>3, <2>4
  <2> QED
    BY <2>2, <2>5, <1>1 DEF Has
<1>7. ASSUME NEW i \in DOMAIN t, NEW j \in DOMAIN t, i < j
      PROVE  Rank(label, t[i]) < Rank(label, t[j])
  <2>1. i + 1 \in DOMAIN s /\ j + 1 \in DOMAIN s /\ i + 1 < j + 1
    BY <1>7, <1>2, <1>3
  <2> QED
    BY <2>1, <1>2, <1>3 DEF Sorted
<1>8. Sorted(t, label)
  BY <1>7 DEF Sorted
<1> QED
  BY <1>1, <1>4, <1>5, <1>6, <1>8 DEF t

\* A Spawn goes on to a label that asks for no more than this one, and pushes nothing.
LEMMA Keeps ==
  ASSUME NEW l \in Labels \ {"clean"}, NEW m \in Labels \ {"clean"}, NEW s \in Seq(Calls), PlanOk(l, s),
         Floor(m) <= Floor(l), \A c \in Calls : m \in Due(c) => l \in Due(c)
  PROVE  PlanOk(m, s)
<1>1. Floor(l) \in 1..8 /\ Floor(m) \in 1..8
  BY DEF Floor, Labels, SpawnLabels
<1>2. \A c \in Calls : Rank(m, c) = Rank(l, c) /\ Rank(m, c) \in 1..7
  BY RankType DEF Rank
<1>3. Sorted(s, m)
  BY DEF PlanOk, Sorted, Rank
<1> QED
  BY <1>1, <1>2, <1>3 DEF PlanOk

\* A Spawn pushes a call that undoes what it has just done.
LEMMA Pushes ==
  ASSUME NEW l \in Labels \ {"clean"}, NEW m \in Labels \ {"clean"}, NEW s \in Seq(Calls), PlanOk(l, s),
         NEW a \in Calls, SpawnRank(a) < Floor(l), Floor(m) <= SpawnRank(a),
         \A c \in Calls : m \in Due(c) => c = a \/ l \in Due(c)
  PROVE  PlanOk(m, <<a>> \o s)
<1>1. Floor(l) \in 1..8 /\ Floor(m) \in 1..8
  BY DEF Floor, Labels, SpawnLabels
<1>2. \A c \in Calls : Rank(m, c) = Rank(l, c) /\ Rank(m, c) = SpawnRank(c) /\ Rank(m, c) \in 1..7
  BY RankType DEF Rank
<1>3. Sorted(s, m)
  BY DEF PlanOk, Sorted, Rank
<1>4. \A c \in Calls : Has(s, c) => Rank(m, a) < Rank(m, c)
  BY <1>1, <1>2 DEF PlanOk
<1>5. Sorted(<<a>> \o s, m)
  BY <1>3, <1>4, PushSorted
<1>6. \A c \in Calls : Has(<<a>> \o s, c) => Rank(m, c) >= Floor(m)
  <2>1. \A c \in Calls : Has(s, c) => Rank(m, c) >= Floor(m)
    BY <1>1, <1>2, <1>4
  <2> QED
    BY <2>1, PushOne, <1>1, <1>2
<1>7. \A c \in Calls : m \in Due(c) => Has(<<a>> \o s, c)
  BY PushOne DEF PlanOk
<1> QED
  BY <1>5, <1>6, <1>7 DEF PlanOk

\* The tail of a plan in progress is one.
LEMMA Takes ==
  ASSUME NEW l \in {"undo", "clean"}, NEW s \in Seq(Calls), s # <<>>, PlanOk(l, s)
  PROVE  PlanOk(l, Tail(s))
<1>1. Sorted(Tail(s), l)
  BY TakeHead DEF PlanOk
<1>2. \A c \in Calls : l \notin Due(c)
  BY DEF Due, Calls, SpawnLabels
<1>3. Floor(l) = 1
  BY DEF Floor
<1> QED
  BY <1>1, <1>2, <1>3, RankType DEF PlanOk

\* The list of Close is sorted, and it has every call that a VM in service needs.
LEMMA Closes ==
  /\ ClosePlan \in Seq(Calls)
  /\ PlanOk("clean", ClosePlan)
  /\ \A c \in {"kill", "wait", "chroot", "tap", "ip", "snapshot", "uid"} : Has(ClosePlan, c)
<1>1. ClosePlan \in Seq(Calls)
  BY DEF ClosePlan, Calls
<1>2. ASSUME NEW i \in DOMAIN ClosePlan PROVE CloseRank(ClosePlan[i]) = i
  BY <1>2 DEF ClosePlan, CloseRank
<1>3. Sorted(ClosePlan, "clean")
  BY <1>1, <1>2 DEF Sorted, Rank
<1>4. \A c \in {"kill", "wait", "chroot", "tap", "ip", "snapshot", "uid"} : Has(ClosePlan, c)
  BY DEF ClosePlan, Has
<1>5. \A c \in Calls : "clean" \notin Due(c)
  BY DEF Due, Calls, SpawnLabels
<1>6. Floor("clean") = 1
  BY DEF Floor
<1>7. PlanOk("clean", ClosePlan)
  BY <1>1, <1>3, <1>5, <1>6, RankType DEF PlanOk
<1> QED
  BY <1>1, <1>4, <1>7

\* Start pushes two calls at once.
LEMMA PushTwo ==
  ASSUME NEW s \in Seq(Calls), PlanOk("start", s)
  PROVE  /\ <<"kill", "wait">> \o s \in Seq(Calls)
         /\ PlanOk("dial", <<"kill", "wait">> \o s)
         /\ \A c : Has(<<"kill", "wait">> \o s, c) <=> (c \in {"kill", "wait"} \/ Has(s, c))
<1> DEFINE u == <<"wait">> \o s
           t == <<"kill">> \o u
<1>1. <<"kill", "wait">> \o s = t
  <2>1. <<"kill">> \in Seq(Calls) /\ <<"wait">> \in Seq(Calls)
    BY DEF Calls
  <2>2. (<<"kill">> \o <<"wait">>) \o s = t
    BY <2>1, ConcatAssociative
  <2>3. <<"kill">> \o <<"wait">> = <<"kill", "wait">>
    <3> DEFINE x == <<"kill">>
               y == <<"wait">>
               z == <<"kill", "wait">>
    <3>1. x \in Seq(Calls) /\ y \in Seq(Calls) /\ z \in Seq(Calls)
      BY DEF Calls
    <3>2. /\ Len(x) = 1 /\ Len(y) = 1 /\ Len(z) = 2
          /\ x[1] = "kill" /\ y[1] = "wait" /\ z[1] = "kill" /\ z[2] = "wait"
      OBVIOUS
    <3> HIDE DEF x, y, z
    <3>3. /\ x \o y \in Seq(Calls) /\ Len(x \o y) = Len(x) + Len(y)
          /\ \A i \in 1..Len(x) + Len(y) : (x \o y)[i] = IF i <= Len(x) THEN x[i] ELSE y[i - Len(x)]
      BY <3>1, ConcatProperties
    <3>4. Len(x \o y) = Len(z) /\ \A i \in 1..Len(x \o y) : (x \o y)[i] = z[i]
      BY <3>2, <3>3
    <3>5. x \o y = z
      BY <3>1, <3>3, <3>4, SeqEqual
    <3> QED
      BY <3>5 DEF x, y, z
  <2> QED
    BY <2>2, <2>3
<1>2. "kill" \in Calls /\ "wait" \in Calls
  BY DEF Calls
<1>3. u \in Seq(Calls) /\ \A c : Has(u, c) <=> (c = "wait" \/ Has(s, c))
  BY <1>2, PushOne
<1>4. t \in Seq(Calls) /\ \A c : Has(t, c) <=> (c = "kill" \/ Has(u, c))
  BY <1>2, <1>3, PushOne
<1>5. /\ \A c \in Calls : Rank("dial", c) = Rank("start", c) /\ Rank("dial", c) \in 1..7
      /\ Rank("dial", "kill") = 1 /\ Rank("dial", "wait") = 2
      /\ Floor("start") = 3 /\ Floor("dial") = 1
  <2>1. \A c \in Calls : Rank("dial", c) = Rank("start", c) /\ Rank("dial", c) \in 1..7
    BY RankType DEF Rank
  <2>2. Rank("dial", "kill") = 1 /\ Rank("dial", "wait") = 2
    BY DEF Rank, SpawnRank
  <2>3. Floor("start") = 3 /\ Floor("dial") = 1
    BY DEF Floor
  <2> QED
    BY <2>1, <2>2, <2>3
<1>6. Sorted(s, "dial")
  BY DEF PlanOk, Sorted, Rank
<1>7. \A c \in Calls : Has(s, c) => Rank("dial", c) >= 3
  BY <1>5 DEF PlanOk
<1>8. Sorted(u, "dial")
  BY <1>2, <1>5, <1>6, <1>7, PushSorted
<1>9. \A c \in Calls : Has(u, c) => Rank("dial", "kill") < Rank("dial", c)
  BY <1>3, <1>5, <1>7
<1>10. Sorted(t, "dial")
  BY <1>2, <1>3, <1>8, <1>9, PushSorted
<1>11. \A c \in Calls : Has(t, c) => Rank("dial", c) >= Floor("dial")
  BY <1>3, <1>4, <1>5, <1>9
<1>12. \A c \in Calls : "dial" \in Due(c) => c = "wait" \/ "start" \in Due(c)
  BY DEF Due, Calls, SpawnLabels
<1>13. \A c \in Calls : "dial" \in Due(c) => Has(t, c)
  BY <1>3, <1>4, <1>12 DEF PlanOk
<1> QED
  BY <1>1, <1>3, <1>4, <1>10, <1>11, <1>13 DEF PlanOk

\* One slot takes a step from plan to plan, the others stay.
LEMMA SlotMoves ==
  ASSUME NEW v \in Slots, NEW l \in Labels, NEW s \in Seq(Calls), PlanInv, PlanOk(l, s),
         pc' = Set(pc, v, l), plan' = Set(plan, v, s)
  PROVE  PlanInv'
<1>1. pc' \in [Slots -> Labels] /\ plan' \in [Slots -> Seq(Calls)]
  BY DEF PlanInv, Set
<1>2. ASSUME NEW w \in Slots PROVE PlanOk(pc'[w], plan'[w])
  BY DEF PlanInv, Set
<1> QED
  BY <1>1, <1>2 DEF PlanInv

\* The same when the plan is left as it is.
LEMMA SlotKeeps ==
  ASSUME NEW v \in Slots, NEW l \in Labels, PlanInv, PlanOk(l, plan[v]),
         pc' = Set(pc, v, l), plan' = plan
  PROVE  PlanInv'
<1>1. pc' \in [Slots -> Labels] /\ plan' \in [Slots -> Seq(Calls)]
  BY DEF PlanInv, Set
<1>2. ASSUME NEW w \in Slots PROVE PlanOk(pc'[w], plan'[w])
  BY DEF PlanInv, Set
<1> QED
  BY <1>1, <1>2 DEF PlanInv

\* A Spawn that fails rolls back what it has done.
LEMMA UndoKeeps ==
  ASSUME NEW l \in SpawnLabels, NEW s \in Seq(Calls), PlanOk(l, s)
  PROVE  PlanOk("undo", s)
<1>1. Floor("undo") <= Floor(l) /\ l \in Labels \ {"clean"} /\ "undo" \in Labels \ {"clean"}
  BY DEF Floor, SpawnLabels, Labels
<1>2. \A c \in Calls : "undo" \notin Due(c)
  BY DEF Due, Calls, SpawnLabels
<1> QED
  BY <1>1, <1>2, Keeps

\* A slot with nothing to undo is between two Spawns.
LEMMA EmptyOk == PlanOk("off", <<>>)
<1>1. \A c \in Calls : "off" \notin Due(c)
  BY DEF Due, Calls, SpawnLabels
<1> QED
  BY <1>1, HasEmpty DEF PlanOk, Sorted

\* A call of a clean-up.
LEMMA TurnKeeps ==
  ASSUME NEW v \in Slots, NEW c, PlanInv, Turn(v, c) PROVE PlanInv'
<1>1. pc[v] \in {"undo", "clean"} /\ plan[v] # <<>> /\ plan[v] \in Seq(Calls) /\ PlanOk(pc[v], plan[v])
  BY DEF Turn, PlanInv
<1>2. PlanOk(pc[v], Tail(plan[v])) /\ Tail(plan[v]) \in Seq(Calls)
  BY <1>1, Takes
<1>3. pc' = Set(pc, v, pc[v]) /\ plan' = Set(plan, v, Tail(plan[v])) /\ pc[v] \in Labels
  BY DEF Turn, Set, PlanInv
<1> QED
  BY <1>2, <1>3, SlotMoves

\* The calls for port mappings leave the plan and all but the ports and the rules.
LEMMA MappingTurnKeeps ==
  ASSUME NEW v \in Slots, RemoveMapping(v) \/ ReleasePort(v)
  PROVE  UNCHANGED <<pc, plan, uid, ip, proc, uids, used, nextIP, snapshot, chroot, tap>>
  BY DEF RemoveMapping, ReleasePort, MappingTurn, idVars

\* The plans stay in order: each action of a slot leaves it a plan that fits its label.
LEMMA PlanStep == PlanInv /\ [Next]_vars => PlanInv'
<1> SUFFICES ASSUME PlanInv, [Next]_vars PROVE PlanInv'
  OBVIOUS
<1>0. /\ \A v \in Slots : pc[v] \in Labels /\ plan[v] \in Seq(Calls) /\ PlanOk(pc[v], plan[v])
      /\ pc \in [Slots -> Labels] /\ plan \in [Slots -> Seq(Calls)]
  BY DEF PlanInv
<1>1. ASSUME NEW v \in Slots, Begin(v) PROVE PlanInv'
  <2>1. pc[v] = "off" /\ pc' = Set(pc, v, "uid") /\ plan' = plan
    BY <1>1 DEF Begin, At, Goto
  <2>2. "off" \in Labels \ {"clean"} /\ "uid" \in Labels \ {"clean"} /\ Floor("uid") <= Floor("off")
    BY DEF Labels, SpawnLabels, Floor
  <2>3. \A c \in Calls : "uid" \in Due(c) => "off" \in Due(c)
    BY DEF Due, Calls, SpawnLabels
  <2>4. PlanOk("uid", plan[v])
    BY <1>0, <2>1, <2>2, <2>3, Keeps
  <2> QED
    BY <2>1, <2>2, <2>4, SlotKeeps
<1>2. ASSUME NEW v \in Slots, CheckoutUID(v) PROVE PlanInv'
  <2>1. pc[v] = "uid" /\ pc' = Set(pc, v, "warm") /\ plan' = Set(plan, v, <<"uid">> \o plan[v])
    BY <1>2 DEF CheckoutUID, At, Goto, Push
  <2>2. /\ "uid" \in Labels \ {"clean"} /\ "warm" \in Labels \ {"clean"} /\ "uid" \in Calls
        /\ SpawnRank("uid") < Floor("uid") /\ Floor("warm") <= SpawnRank("uid")
    BY DEF Labels, SpawnLabels, Calls, Floor, SpawnRank
  <2>3. \A c \in Calls : "warm" \in Due(c) => c = "uid" \/ "uid" \in Due(c)
    BY DEF Due, Calls, SpawnLabels
  <2>4. PlanOk("warm", <<"uid">> \o plan[v]) /\ <<"uid">> \o plan[v] \in Seq(Calls)
    BY <1>0, <2>1, <2>2, <2>3, Pushes, PushOne
  <2> QED
    BY <2>1, <2>2, <2>4, SlotMoves
<1>3. ASSUME NEW v \in Slots, WarmImage(v) PROVE PlanInv'
  <2>1. pc[v] = "warm" /\ pc' = Set(pc, v, "snapshot") /\ plan' = plan
    BY <1>3 DEF WarmImage, At, Goto
  <2>2. "warm" \in Labels \ {"clean"} /\ "snapshot" \in Labels \ {"clean"} /\ Floor("snapshot") <= Floor("warm")
    BY DEF Labels, SpawnLabels, Floor
  <2>3. \A c \in Calls : "snapshot" \in Due(c) => "warm" \in Due(c)
    BY DEF Due, Calls, SpawnLabels
  <2>4. PlanOk("snapshot", plan[v])
    BY <1>0, <2>1, <2>2, <2>3, Keeps
  <2> QED
    BY <2>1, <2>2, <2>4, SlotKeeps
<1>4. ASSUME NEW v \in Slots, Snapshot(v) PROVE PlanInv'
  <2>1. pc[v] = "snapshot" /\ pc' = Set(pc, v, "inject") /\ plan' = Set(plan, v, <<"snapshot_ctx">> \o plan[v])
    BY <1>4 DEF Snapshot, At, Goto, Push
  <2>2. /\ "snapshot" \in Labels \ {"clean"} /\ "inject" \in Labels \ {"clean"} /\ "snapshot_ctx" \in Calls
        /\ SpawnRank("snapshot_ctx") < Floor("snapshot") /\ Floor("inject") <= SpawnRank("snapshot_ctx")
    BY DEF Labels, SpawnLabels, Calls, Floor, SpawnRank
  <2>3. \A c \in Calls : "inject" \in Due(c) => c = "snapshot_ctx" \/ "snapshot" \in Due(c)
    BY DEF Due, Calls, SpawnLabels
  <2>4. PlanOk("inject", <<"snapshot_ctx">> \o plan[v]) /\ <<"snapshot_ctx">> \o plan[v] \in Seq(Calls)
    BY <1>0, <2>1, <2>2, <2>3, Pushes, PushOne
  <2> QED
    BY <2>1, <2>2, <2>4, SlotMoves
<1>5. ASSUME NEW v \in Slots, InjectGuestAgent(v) PROVE PlanInv'
  <2>1. pc[v] = "inject" /\ pc' = Set(pc, v, "mkdir") /\ plan' = plan
    BY <1>5 DEF InjectGuestAgent, At, Goto
  <2>2. "inject" \in Labels \ {"clean"} /\ "mkdir" \in Labels \ {"clean"} /\ Floor("mkdir") <= Floor("inject")
    BY DEF Labels, SpawnLabels, Floor
  <2>3. \A c \in Calls : "mkdir" \in Due(c) => "inject" \in Due(c)
    BY DEF Due, Calls, SpawnLabels
  <2>4. PlanOk("mkdir", plan[v])
    BY <1>0, <2>1, <2>2, <2>3, Keeps
  <2> QED
    BY <2>1, <2>2, <2>4, SlotKeeps
<1>6. ASSUME NEW v \in Slots, MakeChroot(v), chroot[id(v)] # "absent" PROVE PlanInv'
  <2>1. pc[v] = "mkdir" /\ pc' = Set(pc, v, "link") /\ plan' = plan
    BY <1>6 DEF MakeChroot, At, Goto
  <2>2. "mkdir" \in Labels \ {"clean"} /\ "link" \in Labels \ {"clean"} /\ Floor("link") <= Floor("mkdir")
    BY DEF Labels, SpawnLabels, Floor
  <2>3. \A c \in Calls : "link" \in Due(c) => "mkdir" \in Due(c)
    BY DEF Due, Calls, SpawnLabels
  <2>4. PlanOk("link", plan[v])
    BY <1>0, <2>1, <2>2, <2>3, Keeps
  <2> QED
    BY <2>1, <2>2, <2>4, SlotKeeps
<1>7. ASSUME NEW v \in Slots, MakeChroot(v), chroot[id(v)] = "absent" PROVE PlanInv'
  <2>1. pc[v] = "mkdir" /\ pc' = Set(pc, v, "link") /\ plan' = Set(plan, v, <<"chroot">> \o plan[v])
    BY <1>7 DEF MakeChroot, At, Goto, Push
  <2>2. /\ "mkdir" \in Labels \ {"clean"} /\ "link" \in Labels \ {"clean"} /\ "chroot" \in Calls
        /\ SpawnRank("chroot") < Floor("mkdir") /\ Floor("link") <= SpawnRank("chroot")
    BY DEF Labels, SpawnLabels, Calls, Floor, SpawnRank
  <2>3. \A c \in Calls : "link" \in Due(c) => c = "chroot" \/ "mkdir" \in Due(c)
    BY DEF Due, Calls, SpawnLabels
  <2>4. PlanOk("link", <<"chroot">> \o plan[v]) /\ <<"chroot">> \o plan[v] \in Seq(Calls)
    BY <1>0, <2>1, <2>2, <2>3, Pushes, PushOne
  <2> QED
    BY <2>1, <2>2, <2>4, SlotMoves
<1>8. ASSUME NEW v \in Slots, LinkKernel(v) PROVE PlanInv'
  <2>1. pc[v] = "link" /\ pc' = Set(pc, v, "ip") /\ plan' = plan
    BY <1>8 DEF LinkKernel, At, Goto
  <2>2. "link" \in Labels \ {"clean"} /\ "ip" \in Labels \ {"clean"} /\ Floor("ip") <= Floor("link")
    BY DEF Labels, SpawnLabels, Floor
  <2>3. \A c \in Calls : "ip" \in Due(c) => "link" \in Due(c)
    BY DEF Due, Calls, SpawnLabels
  <2>4. PlanOk("ip", plan[v])
    BY <1>0, <2>1, <2>2, <2>3, Keeps
  <2> QED
    BY <2>1, <2>2, <2>4, SlotKeeps
<1>9. ASSUME NEW v \in Slots, AcquireIP(v) PROVE PlanInv'
  <2>1. pc[v] = "ip" /\ pc' = Set(pc, v, "tap") /\ plan' = Set(plan, v, <<"ip">> \o plan[v])
    BY <1>9 DEF AcquireIP, At, Goto, Push
  <2>2. /\ "ip" \in Labels \ {"clean"} /\ "tap" \in Labels \ {"clean"} /\ "ip" \in Calls
        /\ SpawnRank("ip") < Floor("ip") /\ Floor("tap") <= SpawnRank("ip")
    BY DEF Labels, SpawnLabels, Calls, Floor, SpawnRank
  <2>3. \A c \in Calls : "tap" \in Due(c) => c = "ip" \/ "ip" \in Due(c)
    BY DEF Due, Calls, SpawnLabels
  <2>4. PlanOk("tap", <<"ip">> \o plan[v]) /\ <<"ip">> \o plan[v] \in Seq(Calls)
    BY <1>0, <2>1, <2>2, <2>3, Pushes, PushOne
  <2> QED
    BY <2>1, <2>2, <2>4, SlotMoves
<1>10. ASSUME NEW v \in Slots, CreateTap(v) PROVE PlanInv'
  <2>1. pc[v] = "tap" /\ pc' = Set(pc, v, "start") /\ plan' = Set(plan, v, <<"tap">> \o plan[v])
    BY <1>10 DEF CreateTap, At, Goto, Push
  <2>2. /\ "tap" \in Labels \ {"clean"} /\ "start" \in Labels \ {"clean"} /\ "tap" \in Calls
        /\ SpawnRank("tap") < Floor("tap") /\ Floor("start") <= SpawnRank("tap")
    BY DEF Labels, SpawnLabels, Calls, Floor, SpawnRank
  <2>3. \A c \in Calls : "start" \in Due(c) => c = "tap" \/ "tap" \in Due(c)
    BY DEF Due, Calls, SpawnLabels
  <2>4. PlanOk("start", <<"tap">> \o plan[v]) /\ <<"tap">> \o plan[v] \in Seq(Calls)
    BY <1>0, <2>1, <2>2, <2>3, Pushes, PushOne
  <2> QED
    BY <2>1, <2>2, <2>4, SlotMoves
<1>11. ASSUME NEW v \in Slots, Start(v) PROVE PlanInv'
  <2>1. pc[v] = "start" /\ pc' = Set(pc, v, "dial") /\ plan' = Set(plan, v, <<"kill", "wait">> \o plan[v])
    BY <1>11 DEF Start, At, Goto, Push
  <2>2. PlanOk("dial", <<"kill", "wait">> \o plan[v]) /\ <<"kill", "wait">> \o plan[v] \in Seq(Calls)
    BY <1>0, <2>1, PushTwo
  <2> QED
    BY <2>1, <2>2, SlotMoves DEF Labels, SpawnLabels
<1>12. ASSUME NEW v \in Slots, Dial(v) PROVE PlanInv'
  <2>1. PICK next \in {"run", "port"} : pc[v] = "dial" /\ pc' = Set(pc, v, next) /\ plan' = plan
    BY <1>12 DEF Dial, At, Goto, AfterMapping
  <2>2. "dial" \in Labels \ {"clean"} /\ next \in Labels \ {"clean"} /\ Floor(next) <= Floor("dial")
    BY DEF Labels, SpawnLabels, Floor
  <2>3. \A c \in Calls : next \in Due(c) => "dial" \in Due(c)
    BY DEF Due, Calls, SpawnLabels
  <2>4. PlanOk(next, plan[v])
    BY <1>0, <2>1, <2>2, <2>3, Keeps
  <2> QED
    BY <2>1, <2>2, <2>4, SlotKeeps
<1>13. ASSUME NEW v \in Slots, AllocatePort(v) PROVE PlanInv'
  <2>1. pc[v] = "port" /\ pc' = Set(pc, v, "dnat") /\ plan' = plan
    BY <1>13 DEF AllocatePort, At, Goto
  <2>2. "port" \in Labels \ {"clean"} /\ "dnat" \in Labels \ {"clean"} /\ Floor("dnat") <= Floor("port")
    BY DEF Labels, SpawnLabels, Floor
  <2>3. \A c \in Calls : "dnat" \in Due(c) => "port" \in Due(c)
    BY DEF Due, Calls, SpawnLabels
  <2>4. PlanOk("dnat", plan[v])
    BY <1>0, <2>1, <2>2, <2>3, Keeps
  <2> QED
    BY <2>1, <2>2, <2>4, SlotKeeps
<1>14. ASSUME NEW v \in Slots, AddMapping(v) PROVE PlanInv'
  <2>1. PICK next \in {"run", "port"} : pc[v] = "dnat" /\ pc' = Set(pc, v, next) /\ plan' = plan
    BY <1>14 DEF AddMapping, At, Goto, AfterMapping
  <2>2. "dnat" \in Labels \ {"clean"} /\ next \in Labels \ {"clean"} /\ Floor(next) <= Floor("dnat")
    BY DEF Labels, SpawnLabels, Floor
  <2>3. \A c \in Calls : next \in Due(c) => "dnat" \in Due(c)
    BY DEF Due, Calls, SpawnLabels
  <2>4. PlanOk(next, plan[v])
    BY <1>0, <2>1, <2>2, <2>3, Keeps
  <2> QED
    BY <2>1, <2>2, <2>4, SlotKeeps
<1>15. ASSUME NEW v \in Slots, SnapshotFails(v) PROVE PlanInv'
  <2>1. pc[v] \in SpawnLabels /\ pc' = Set(pc, v, "undo") /\ plan' = plan
    BY <1>15 DEF SnapshotFails, At, Goto, SpawnLabels
  <2> QED
    BY <1>0, <2>1, UndoKeeps, SlotKeeps DEF Labels
<1>16. ASSUME NEW v \in Slots, LinkFails(v) PROVE PlanInv'
  <2>1. pc[v] \in SpawnLabels /\ pc' = Set(pc, v, "undo") /\ plan' = plan
    BY <1>16 DEF LinkFails, At, Goto, SpawnLabels
  <2> QED
    BY <1>0, <2>1, UndoKeeps, SlotKeeps DEF Labels
<1>17. ASSUME NEW v \in Slots, CreateTapFails(v) PROVE PlanInv'
  <2>1. pc[v] \in SpawnLabels /\ pc' = Set(pc, v, "undo") /\ plan' = plan
    BY <1>17 DEF CreateTapFails, At, Goto, SpawnLabels
  <2> QED
    BY <1>0, <2>1, UndoKeeps, SlotKeeps DEF Labels
<1>18. ASSUME NEW v \in Slots, Fail(v) PROVE PlanInv'
  <2>1. pc[v] \in SpawnLabels /\ pc' = Set(pc, v, "undo") /\ plan' = plan
    BY <1>18 DEF Fail, At, Goto, SpawnLabels
  <2> QED
    BY <1>0, <2>1, UndoKeeps, SlotKeeps DEF Labels
<1>33. ASSUME NEW v \in Slots, AddMappingFails(v) PROVE PlanInv'
  <2>1. pc[v] \in SpawnLabels /\ pc' = Set(pc, v, "undo") /\ plan' = plan
    BY <1>33 DEF AddMappingFails, At, Goto, SpawnLabels
  <2> QED
    BY <1>0, <2>1, UndoKeeps, SlotKeeps DEF Labels
<1>19. ASSUME NEW v \in Slots, Close(v) PROVE PlanInv'
  <2>1. pc' = Set(pc, v, "clean") /\ plan' = Set(plan, v, ClosePlan) /\ "clean" \in Labels
    BY <1>19 DEF Close, Goto, Labels
  <2> QED
    BY <2>1, Closes, SlotMoves
<1>20. ASSUME NEW v \in Slots, Kill(v) PROVE PlanInv'
  BY <1>20, TurnKeeps DEF Kill
<1>21. ASSUME NEW v \in Slots, Await(v) PROVE PlanInv'
  BY <1>21, TurnKeeps DEF Await
<1>22. ASSUME NEW v \in Slots, RemoveChroot(v) PROVE PlanInv'
  BY <1>22, TurnKeeps DEF RemoveChroot
<1>23. ASSUME NEW v \in Slots, DeleteTap(v) PROVE PlanInv'
  BY <1>23, TurnKeeps DEF DeleteTap
<1>24. ASSUME NEW v \in Slots, ReleaseIP(v) PROVE PlanInv'
  BY <1>24, TurnKeeps DEF ReleaseIP
<1>25. ASSUME NEW v \in Slots, Teardown(v) PROVE PlanInv'
  BY <1>25, TurnKeeps DEF Teardown
<1>26. ASSUME NEW v \in Slots, TeardownInRequest(v) PROVE PlanInv'
  BY <1>26, TurnKeeps DEF TeardownInRequest
<1>27. ASSUME NEW v \in Slots, ReturnUID(v) PROVE PlanInv'
  BY <1>27, TurnKeeps DEF ReturnUID
<1>28. ASSUME NEW v \in Slots, RemoveMapping(v) PROVE PlanInv'
  BY <1>28, MappingTurnKeeps DEF PlanInv
<1>29. ASSUME NEW v \in Slots, ReleasePort(v) PROVE PlanInv'
  BY <1>29, MappingTurnKeeps DEF PlanInv
<1>30. ASSUME NEW v \in Slots, Finish(v) PROVE PlanInv'
  <2>1. plan[v] = <<>> /\ pc' = Set(pc, v, "off") /\ plan' = plan
    BY <1>30 DEF Finish, Goto
  <2> QED
    BY <2>1, EmptyOk, SlotKeeps DEF Labels
<1>31. ASSUME NEW v \in Slots, Exit(v) PROVE PlanInv'
  BY <1>31 DEF Exit, PlanInv
<1>32. ASSUME UNCHANGED vars PROVE PlanInv'
  BY <1>32 DEF vars, slotVars, PlanInv
<1> QED
  BY <1>1, <1>2, <1>3, <1>4, <1>5, <1>6, <1>7, <1>8, <1>9, <1>10, <1>11, <1>12, <1>13, <1>14,
     <1>15, <1>16, <1>17, <1>18, <1>19, <1>20, <1>21, <1>22, <1>23, <1>24, <1>25, <1>26, <1>27,
     <1>28, <1>29, <1>30, <1>31, <1>32, <1>33
  DEF Next, SpawnStep, CleanStep

\* At the start every plan is empty.
LEMMA PlanInit == Init => PlanInv
<1> SUFFICES ASSUME Init PROVE PlanInv
  OBVIOUS
<1>1. pc \in [Slots -> Labels] /\ plan \in [Slots -> Seq(Calls)]
  BY DEF Init, Labels
<1>2. \A v \in Slots : pc[v] = "off" /\ plan[v] = <<>>
  BY DEF Init
<1> QED
  BY <1>1, <1>2, EmptyOk DEF PlanInv

-----------------------------------------------------------------------------
(* What a step does to the plans *)

\* Slot v gets the calls of S to make.
Pushed(v, S) ==
    \A w \in Slots, c \in Calls : Has(plan'[w], c) <=> (Has(plan[w], c) \/ (w = v /\ c \in S))

\* Slot v makes call a, which it owed, and which comes before all else that it owes.
Taken(v, a) ==
    /\ a \in Calls /\ Has(plan[v], a) /\ pc[v] \in {"undo", "clean"}
    /\ \A c \in Calls : Has(plan[v], c) /\ c # a => Rank(pc[v], a) < Rank(pc[v], c)
    /\ \A w \in Slots, c \in Calls : Has(plan'[w], c) <=> (Has(plan[w], c) /\ ~(w = v /\ c = a))

\* what the slots hold, and the allocators
res == <<uid, ip, fwd, uids, used, nextIP, inUse, rules>>

\* A push adds one call to one plan.
LEMMA PushPushes ==
  ASSUME PlanInv, NEW v \in Slots, NEW a \in Calls, Push(v, <<a>>) PROVE Pushed(v, {a})
<1>1. plan' = Set(plan, v, <<a>> \o plan[v]) /\ plan \in [Slots -> Seq(Calls)] /\ plan[v] \in Seq(Calls)
  BY DEF Push, PlanInv
<1>2. \A c : Has(<<a>> \o plan[v], c) <=> (c = a \/ Has(plan[v], c))
  BY <1>1, PushOne
<1>3. plan'[v] = <<a>> \o plan[v] /\ \A w \in Slots \ {v} : plan'[w] = plan[w]
  BY <1>1 DEF Set
<1> QED
  BY <1>2, <1>3 DEF Pushed

\* Start pushes the two calls that end its process.
LEMMA StartPushes ==
  ASSUME PlanInv, NEW v \in Slots, Start(v) PROVE Pushed(v, {"kill", "wait"})
<1>1. plan' = Set(plan, v, <<"kill", "wait">> \o plan[v]) /\ pc[v] = "start"
  BY DEF Start, Push, At
<1>2. plan[v] \in Seq(Calls) /\ PlanOk("start", plan[v]) /\ plan \in [Slots -> Seq(Calls)]
  BY <1>1 DEF PlanInv
<1>3. \A c : Has(<<"kill", "wait">> \o plan[v], c) <=> (c \in {"kill", "wait"} \/ Has(plan[v], c))
  BY <1>2, PushTwo
<1>4. plan'[v] = <<"kill", "wait">> \o plan[v] /\ \A w \in Slots \ {v} : plan'[w] = plan[w]
  BY <1>1, <1>2 DEF Set
<1> QED
  BY <1>3, <1>4 DEF Pushed

\* An unchanged plan.
LEMMA NothingPushed ==
  ASSUME plan' = plan, NEW v PROVE Pushed(v, {})
  BY DEF Pushed

\* A clean-up call takes itself out of one plan.
LEMMA TurnTakes ==
  ASSUME PlanInv, NEW v \in Slots, NEW a, Turn(v, a) PROVE Taken(v, a)
<1>1. /\ plan' = Set(plan, v, Tail(plan[v])) /\ plan \in [Slots -> Seq(Calls)] /\ plan[v] \in Seq(Calls)
      /\ plan[v] # <<>> /\ a = Head(plan[v]) /\ Sorted(plan[v], pc[v]) /\ pc[v] \in {"undo", "clean"}
  BY DEF Turn, PlanInv, PlanOk
<1>2. /\ a \in Calls /\ Has(plan[v], a)
      /\ \A c : Has(Tail(plan[v]), c) <=> (Has(plan[v], c) /\ c # a)
      /\ \A c : Has(plan[v], c) => c = a \/ Rank(pc[v], a) < Rank(pc[v], c)
  BY <1>1, TakeHead
<1>3. plan'[v] = Tail(plan[v]) /\ \A w \in Slots \ {v} : plan'[w] = plan[w]
  BY <1>1 DEF Set
<1> QED
  BY <1>1, <1>2, <1>3 DEF Taken

\* What a Close has to do: nothing less than was on the stack.
LEMMA CloseOwes ==
  ASSUME PlanInv, NEW v \in Slots, Close(v)
  PROVE  /\ \A w \in Slots \ {v} : plan'[w] = plan[w]
         /\ \A c \in {"uid", "ip", "tap", "wait"} : Has(plan[v], c) /\ Has(plan'[v], c)
         /\ Has(plan'[v], "chroot") /\ Has(plan'[v], "kill")
<1>1. plan' = Set(plan, v, ClosePlan) /\ plan \in [Slots -> Seq(Calls)] /\ pc[v] = "run"
  BY DEF Close, At, PlanInv
<1>2. plan'[v] = ClosePlan /\ \A w \in Slots \ {v} : plan'[w] = plan[w]
  BY <1>1 DEF Set
<1>3. \A c \in {"uid", "ip", "tap", "wait"} : c \in Calls /\ "run" \in Due(c)
  BY DEF Due, Calls
<1>4. \A c \in {"uid", "ip", "tap", "wait"} : Has(plan[v], c)
  BY <1>1, <1>3 DEF PlanInv, PlanOk
<1> QED
  BY <1>2, <1>4, Closes

\* A slot that is off, or about to take a UID, owes nothing.
LEMMA OffOwesNothing ==
  ASSUME PlanInv, NEW v \in Slots, pc[v] \in {"off", "uid"} PROVE \A c \in Calls : ~Has(plan[v], c)
<1>1. \A c \in Calls : Rank(pc[v], c) \in 1..7
  BY RankType
<1>2. Floor(pc[v]) = 8
  BY DEF Floor
<1> QED
  BY <1>1, <1>2 DEF PlanInv, PlanOk

\* A Spawn has not pushed what comes later, and has pushed what came before.
LEMMA StackIs ==
  ASSUME PlanInv, NEW v \in Slots, NEW c \in Calls
  PROVE  /\ pc[v] # "clean" /\ SpawnRank(c) < Floor(pc[v]) => ~Has(plan[v], c)
         /\ pc[v] \in Due(c) => Has(plan[v], c)
<1>1. SpawnRank(c) \in 1..7
  BY DEF SpawnRank, Calls
<1>2. pc[v] \in Labels /\ PlanOk(pc[v], plan[v])
  BY DEF PlanInv
<1>3. Floor(pc[v]) \in 1..8
  BY <1>2 DEF Floor, Labels, SpawnLabels
<1>4. pc[v] \in Due(c) => Has(plan[v], c)
  BY <1>2 DEF PlanOk
<1>5. ASSUME pc[v] # "clean", Has(plan[v], c) PROVE SpawnRank(c) >= Floor(pc[v])
  BY <1>2, <1>5 DEF PlanOk, Rank
<1> QED
  BY <1>1, <1>3, <1>4, <1>5

\* Every step is one of these, as far as the UIDs, the addresses, the ports and the
\* rules are concerned.
Effect(v) ==
    \/ \E S \in SUBSET {"snapshot_ctx", "chroot", "tap", "kill", "wait"} :
         UNCHANGED res /\ Pushed(v, S)
    \/ \E c \in {"kill", "wait", "chroot", "tap", "snapshot", "snapshot_ctx"} :
         UNCHANGED res /\ Taken(v, c)
    \/ CheckoutUID(v) /\ Pushed(v, {"uid"})
    \/ AcquireIP(v) /\ Pushed(v, {"ip"})
    \/ AllocatePort(v) \/ AddMapping(v) \/ AddMappingFails(v)
    \/ ReleaseIP(v) /\ Taken(v, "ip")
    \/ ReturnUID(v) /\ Taken(v, "uid")
    \/ RemoveMapping(v) \/ ReleasePort(v)
    \/ Close(v)
    \/ Finish(v)

\* There are no other steps.
LEMMA Effects ==
  ASSUME PlanInv, [Next]_vars
  PROVE  UNCHANGED <<res, plan>> \/ \E v \in Slots : Effect(v)
<1> DEFINE Goal == UNCHANGED <<res, plan>> \/ \E v \in Slots : Effect(v)
<1>0. /\ "uid" \in Calls /\ "ip" \in Calls /\ "snapshot_ctx" \in Calls /\ "chroot" \in Calls /\ "tap" \in Calls
  BY DEF Calls
<1>1. ASSUME NEW v \in Slots, Begin(v) PROVE Goal
  BY <1>1 DEF Begin, KeepAlloc, netVars, res
<1>2. ASSUME NEW v \in Slots, WarmImage(v) PROVE Goal
  BY <1>2 DEF WarmImage, KeepAlloc, netVars, res
<1>3. ASSUME NEW v \in Slots, SnapshotFails(v) PROVE Goal
  BY <1>3 DEF SnapshotFails, KeepAlloc, netVars, res
<1>4. ASSUME NEW v \in Slots, InjectGuestAgent(v) PROVE Goal
  BY <1>4 DEF InjectGuestAgent, KeepAlloc, netVars, res
<1>5. ASSUME NEW v \in Slots, LinkKernel(v) PROVE Goal
  BY <1>5 DEF LinkKernel, KeepAlloc, netVars, res
<1>6. ASSUME NEW v \in Slots, LinkFails(v) PROVE Goal
  BY <1>6 DEF LinkFails, KeepAlloc, netVars, res
<1>7. ASSUME NEW v \in Slots, CreateTapFails(v) PROVE Goal
  BY <1>7 DEF CreateTapFails, KeepAlloc, netVars, res
<1>8. ASSUME NEW v \in Slots, Dial(v) PROVE Goal
  BY <1>8 DEF Dial, KeepAlloc, netVars, res
<1>9. ASSUME NEW v \in Slots, Fail(v) PROVE Goal
  BY <1>9 DEF Fail, KeepAlloc, netVars, res
<1>10. ASSUME NEW v \in Slots, Exit(v) PROVE Goal
  BY <1>10 DEF Exit, KeepAlloc, netVars, res
<1>11. ASSUME NEW v \in Slots, Snapshot(v) PROVE Goal
  <2>1. Pushed(v, {"snapshot_ctx"}) /\ UNCHANGED res
    BY <1>11, <1>0, PushPushes DEF Snapshot, KeepAlloc, netVars, res
  <2> QED
    BY <2>1 DEF Effect
<1>12. ASSUME NEW v \in Slots, CreateTap(v) PROVE Goal
  <2>1. Pushed(v, {"tap"}) /\ UNCHANGED res
    BY <1>12, <1>0, PushPushes DEF CreateTap, KeepAlloc, netVars, res
  <2> QED
    BY <2>1 DEF Effect
<1>13. ASSUME NEW v \in Slots, MakeChroot(v) PROVE Goal
  <2>1. UNCHANGED res /\ (plan' = plan \/ Push(v, <<"chroot">>))
    BY <1>13 DEF MakeChroot, KeepAlloc, netVars, res
  <2>2. plan' = plan \/ Pushed(v, {"chroot"})
    BY <2>1, <1>0, PushPushes
  <2> QED
    BY <2>1, <2>2 DEF Effect
<1>14. ASSUME NEW v \in Slots, Start(v) PROVE Goal
  <2>1. Pushed(v, {"kill", "wait"}) /\ UNCHANGED res
    BY <1>14, StartPushes DEF Start, KeepAlloc, netVars, res
  <2> QED
    BY <2>1 DEF Effect
<1>15. ASSUME NEW v \in Slots, CheckoutUID(v) PROVE Goal
  <2>1. Pushed(v, {"uid"})
    BY <1>15, <1>0, PushPushes DEF CheckoutUID
  <2> QED
    BY <1>15, <2>1 DEF Effect
<1>16. ASSUME NEW v \in Slots, AcquireIP(v) PROVE Goal
  <2>1. Pushed(v, {"ip"})
    BY <1>16, <1>0, PushPushes DEF AcquireIP
  <2> QED
    BY <1>16, <2>1 DEF Effect
<1>17. ASSUME NEW v \in Slots, AllocatePort(v) \/ AddMapping(v) \/ AddMappingFails(v) PROVE Goal
  BY <1>17 DEF Effect
<1>18. ASSUME NEW v \in Slots, RemoveMapping(v) \/ ReleasePort(v) PROVE Goal
  BY <1>18 DEF Effect
<1>19. ASSUME NEW v \in Slots, Kill(v) PROVE Goal
  <2>1. Taken(v, "kill") /\ UNCHANGED res
    BY <1>19, TurnTakes DEF Kill, Turn, KeepAlloc, netVars, res
  <2> QED
    BY <2>1 DEF Effect
<1>20. ASSUME NEW v \in Slots, Await(v) PROVE Goal
  <2>1. Taken(v, "wait") /\ UNCHANGED res
    BY <1>20, TurnTakes DEF Await, Turn, KeepAlloc, netVars, res
  <2> QED
    BY <2>1 DEF Effect
<1>21. ASSUME NEW v \in Slots, RemoveChroot(v) PROVE Goal
  <2>1. Taken(v, "chroot") /\ UNCHANGED res
    BY <1>21, TurnTakes DEF RemoveChroot, Turn, KeepAlloc, netVars, res
  <2> QED
    BY <2>1 DEF Effect
<1>22. ASSUME NEW v \in Slots, DeleteTap(v) PROVE Goal
  <2>1. Taken(v, "tap") /\ UNCHANGED res
    BY <1>22, TurnTakes DEF DeleteTap, Turn, KeepAlloc, netVars, res
  <2> QED
    BY <2>1 DEF Effect
<1>23. ASSUME NEW v \in Slots, Teardown(v) PROVE Goal
  <2>1. Taken(v, "snapshot") /\ UNCHANGED res
    BY <1>23, TurnTakes DEF Teardown, Turn, KeepAlloc, netVars, res
  <2> QED
    BY <2>1 DEF Effect
<1>24. ASSUME NEW v \in Slots, TeardownInRequest(v) PROVE Goal
  <2>1. Taken(v, "snapshot_ctx") /\ UNCHANGED res
    BY <1>24, TurnTakes DEF TeardownInRequest, Turn, KeepAlloc, netVars, res
  <2> QED
    BY <2>1 DEF Effect
<1>25. ASSUME NEW v \in Slots, ReleaseIP(v) PROVE Goal
  <2>1. Taken(v, "ip")
    BY <1>25, TurnTakes DEF ReleaseIP
  <2> QED
    BY <1>25, <2>1 DEF Effect
<1>26. ASSUME NEW v \in Slots, ReturnUID(v) PROVE Goal
  <2>1. Taken(v, "uid")
    BY <1>26, TurnTakes DEF ReturnUID
  <2> QED
    BY <1>26, <2>1 DEF Effect
<1>29. ASSUME NEW v \in Slots, Close(v) PROVE Goal
  BY <1>29 DEF Effect
<1>30. ASSUME NEW v \in Slots, Finish(v) PROVE Goal
  BY <1>30 DEF Effect
<1>31. ASSUME UNCHANGED vars PROVE Goal
  BY <1>31 DEF vars, slotVars, netVars, res
<1> HIDE DEF Goal
<1>32. Goal
  BY <1>1, <1>2, <1>3, <1>4, <1>5, <1>6, <1>7, <1>8, <1>9, <1>10, <1>11, <1>12, <1>13, <1>14,
     <1>15, <1>16, <1>17, <1>18, <1>19, <1>20, <1>21, <1>22, <1>23, <1>24, <1>25, <1>26,
     <1>29, <1>30, <1>31
  DEF Next, SpawnStep, CleanStep
<1> QED
  BY <1>32 DEF Goal

-----------------------------------------------------------------------------
(* UIDs *)

\* A slot that owes the return of a UID has one, which is not in the channel and
\* nobody else's; and each UID is in the channel or with such a slot.
UIDInv ==
    /\ uid \in [Slots -> UID!UIDs \cup {0}] /\ uids \in Seq(UID!UIDs) /\ UID!NoDuplicates
    /\ \A v \in Slots : Has(plan[v], "uid") => uid[v] \in UID!UIDs /\ ~Has(uids, uid[v])
    /\ \A v, w \in Slots : Has(plan[v], "uid") /\ Has(plan[w], "uid") /\ uid[v] = uid[w] => v = w
    /\ \A u \in UID!UIDs : Has(uids, u) \/ \E v \in Slots : Has(plan[v], "uid") /\ uid[v] = u

\* no UID is twice in s
Distinct(s) == \A i, j \in DOMAIN s : s[i] = s[j] => i = j

\* A channel without duplicates has room for what is not in it, and is full when
\* everything is.
LEMMA ChannelFits ==
  ASSUME NEW s \in Seq(UID!UIDs), Distinct(s)
  PROVE  Len(s) <= UIDSize /\ (Len(s) = UIDSize <=> \A u \in UID!UIDs : Has(s, u))
<1> DEFINE n == Len(s)
<1>1. n \in Nat /\ DOMAIN s = 1..n /\ s \in [1..n -> UID!UIDs]
  OBVIOUS
<1>2. IsFiniteSet(UID!UIDs) /\ Cardinality(UID!UIDs) = UIDSize
  BY FactoryAssumption, FS_Interval DEF UID!UIDs
<1>3. IsFiniteSet(1..n) /\ Cardinality(1..n) = n
  BY <1>1, FS_Interval
<1>4. s \in Injection(1..n, UID!UIDs)
  BY <1>1 DEF Injection, IsInjective, Distinct
<1>5. n <= UIDSize /\ (n = UIDSize <=> s \in Surjection(1..n, UID!UIDs))
  BY <1>2, <1>3, <1>4, FS_Injection
<1>6. s \in Surjection(1..n, UID!UIDs) <=> \A u \in UID!UIDs : Has(s, u)
  BY <1>1 DEF Surjection, Has
<1> QED
  BY <1>5, <1>6

\* Checkout takes one UID out of the channel.
LEMMA ChannelTakes ==
  ASSUME NEW U, NEW s \in Seq(U), s # <<>>, Distinct(s)
  PROVE  /\ Head(s) \in U /\ Has(s, Head(s)) /\ Tail(s) \in Seq(U) /\ Distinct(Tail(s))
         /\ \A u : Has(Tail(s), u) <=> (Has(s, u) /\ u # Head(s))
<1> DEFINE t == Tail(s)
<1>1. /\ t \in Seq(U) /\ Len(t) = Len(s) - 1 /\ Len(s) \in Nat /\ Len(s) > 0
      /\ Head(s) = s[1] /\ Head(s) \in U
  OBVIOUS
<1>2. \A i \in 1..Len(t) : t[i] = s[i + 1] /\ i + 1 \in DOMAIN s
  BY <1>1
<1>3. DOMAIN t = 1..Len(t) /\ DOMAIN s = 1..Len(s)
  BY <1>1
<1> HIDE DEF t
<1>4. Has(s, Head(s))
  BY <1>1, <1>3 DEF Has
<1>5. ASSUME NEW u, Has(s, u), u # Head(s) PROVE Has(t, u)
  <2>1. PICK i \in DOMAIN s : s[i] = u
    BY <1>5 DEF Has
  <2>2. i # 1
    BY <2>1, <1>1, <1>5
  <2>3. i - 1 \in DOMAIN t /\ t[i - 1] = u
    BY <2>1, <2>2, <1>1, <1>2, <1>3
  <2> QED
    BY <2>3 DEF Has
<1>6. ASSUME NEW u, Has(t, u) PROVE Has(s, u) /\ u # Head(s)
  <2>1. PICK i \in DOMAIN t : t[i] = u
    BY <1>6 DEF Has
  <2>2. i + 1 \in DOMAIN s /\ s[i + 1] = u /\ 1 \in DOMAIN s /\ i + 1 # 1
    BY <2>1, <1>1, <1>2, <1>3
  <2> QED
    BY <2>2, <1>1 DEF Has, Distinct
<1>7. Distinct(t)
  <2>1. ASSUME NEW i \in DOMAIN t, NEW j \in DOMAIN t, t[i] = t[j] PROVE i = j
    <3>1. i + 1 \in DOMAIN s /\ j + 1 \in DOMAIN s /\ s[i + 1] = s[j + 1]
      BY <2>1, <1>2, <1>3
    <3>2. i + 1 = j + 1
      BY <3>1 DEF Distinct
    <3> QED
      BY <3>2, <1>3, <1>1
  <2> QED
    BY <2>1 DEF Distinct
<1> QED
  BY <1>1, <1>4, <1>5, <1>6, <1>7 DEF t

\* Return puts one back that is not there.
LEMMA ChannelPuts ==
  ASSUME NEW U, NEW s \in Seq(U), NEW x \in U, Distinct(s), ~Has(s, x)
  PROVE  /\ Append(s, x) \in Seq(U) /\ Distinct(Append(s, x))
         /\ \A u : Has(Append(s, x), u) <=> (Has(s, u) \/ u = x)
<1> DEFINE t == Append(s, x)
<1>1. /\ t \in Seq(U) /\ Len(t) = Len(s) + 1 /\ Len(s) \in Nat /\ t[Len(t)] = x
      /\ \A i \in 1..Len(s) : t[i] = s[i]
  OBVIOUS
<1>2. DOMAIN t = 1..Len(t) /\ DOMAIN s = 1..Len(s)
  BY <1>1
<1> HIDE DEF t
<1>3. \A i \in DOMAIN t : i = Len(t) \/ i \in DOMAIN s
  BY <1>1, <1>2
<1>4. \A i \in DOMAIN s : i \in DOMAIN t /\ t[i] = s[i] /\ t[i] # x
  BY <1>1, <1>2 DEF Has
<1>5. Distinct(t)
  BY <1>1, <1>2, <1>3, <1>4 DEF Distinct
<1>6. Len(t) \in DOMAIN t
  BY <1>1, <1>2
<1>7. \A u : Has(t, u) <=> (Has(s, u) \/ u = x)
  BY <1>1, <1>3, <1>4, <1>6 DEF Has
<1> QED
  BY <1>1, <1>5, <1>7 DEF t

\* A step that leaves the channel and the UIDs that are owed.
LEMMA UIDSame ==
  ASSUME UIDInv, uids' = uids, uid' \in [Slots -> UID!UIDs \cup {0}],
         \A w \in Slots : /\ Has(plan'[w], "uid") <=> Has(plan[w], "uid")
                          /\ Has(plan[w], "uid") => uid'[w] = uid[w]
  PROVE  UIDInv'
<1>1. uids' \in Seq(UID!UIDs) /\ UID!NoDuplicates'
  BY DEF UIDInv, UID!NoDuplicates
<1>2. \A v \in Slots : Has(plan'[v], "uid") => uid'[v] \in UID!UIDs /\ ~Has(uids', uid'[v])
  BY DEF UIDInv
<1>3. \A v, w \in Slots : Has(plan'[v], "uid") /\ Has(plan'[w], "uid") /\ uid'[v] = uid'[w] => v = w
  BY DEF UIDInv
<1>4. \A u \in UID!UIDs : Has(uids', u) \/ \E v \in Slots : Has(plan'[v], "uid") /\ uid'[v] = u
  BY DEF UIDInv
<1> QED
  BY <1>1, <1>2, <1>3, <1>4 DEF UIDInv

\* UIDs are neither lost nor given away twice.
LEMMA UIDStep == PlanInv /\ UIDInv /\ [Next]_vars => UIDInv'
<1> SUFFICES ASSUME PlanInv, UIDInv, [Next]_vars PROVE UIDInv'
  OBVIOUS
<1>0. /\ uid \in [Slots -> UID!UIDs \cup {0}] /\ uids \in Seq(UID!UIDs) /\ Distinct(uids)
      /\ "uid" \in Calls
  BY DEF UIDInv, UID!NoDuplicates, Distinct, Calls
<1>1. CASE UNCHANGED <<res, plan>>
  BY <1>0, <1>1, UIDSame DEF res
<1>2. ASSUME NEW v \in Slots, UNCHANGED res,
             NEW S \in SUBSET {"snapshot_ctx", "chroot", "tap", "kill", "wait"}, Pushed(v, S)
      PROVE  UIDInv'
  BY <1>0, <1>2, UIDSame DEF res, Pushed
<1>3. ASSUME NEW v \in Slots, UNCHANGED res,
             NEW c \in {"kill", "wait", "chroot", "tap", "snapshot", "snapshot_ctx"}, Taken(v, c)
      PROVE  UIDInv'
  BY <1>0, <1>3, UIDSame DEF res, Taken
<1>4. ASSUME NEW v \in Slots, CheckoutUID(v), Pushed(v, {"uid"}) PROVE UIDInv'
  <2>1. /\ uids # <<>> /\ uids' = Tail(uids) /\ uid' = Set(uid, v, Head(uids)) /\ pc[v] = "uid"
    BY <1>4 DEF CheckoutUID, UID!Checkout, UID!CanCheckout, At
  <2>2. /\ Head(uids) \in UID!UIDs /\ Has(uids, Head(uids)) /\ uids' \in Seq(UID!UIDs) /\ Distinct(uids')
        /\ \A u : Has(uids', u) <=> (Has(uids, u) /\ u # Head(uids))
    BY <1>0, <2>1, ChannelTakes
  <2>3. ~Has(plan[v], "uid")
    BY <1>0, <2>1, OffOwesNothing
  <2>4. \A w \in Slots : Has(plan'[w], "uid") <=> (Has(plan[w], "uid") \/ w = v)
    BY <1>0, <1>4 DEF Pushed
  <2>5. uid'[v] = Head(uids) /\ uid' \in [Slots -> UID!UIDs \cup {0}]
        /\ \A w \in Slots \ {v} : uid'[w] = uid[w]
    BY <1>0, <2>1, <2>2 DEF Set
  <2>6. \A w \in Slots : Has(plan'[w], "uid") => uid'[w] \in UID!UIDs /\ ~Has(uids', uid'[w])
    BY <2>2, <2>4, <2>5 DEF UIDInv
  <2>7. \A w, x \in Slots : Has(plan'[w], "uid") /\ Has(plan'[x], "uid") /\ uid'[w] = uid'[x] => w = x
    BY <2>2, <2>4, <2>5 DEF UIDInv
  <2>8. \A u \in UID!UIDs : Has(uids', u) \/ \E w \in Slots : Has(plan'[w], "uid") /\ uid'[w] = u
    BY <2>2, <2>3, <2>4, <2>5 DEF UIDInv
  <2> QED
    BY <2>2, <2>5, <2>6, <2>7, <2>8 DEF UIDInv, UID!NoDuplicates, Distinct
<1>5. ASSUME NEW v \in Slots, AcquireIP(v), Pushed(v, {"ip"}) PROVE UIDInv'
  BY <1>0, <1>5, UIDSame DEF AcquireIP, Pushed
<1>6. ASSUME NEW v \in Slots, AllocatePort(v) \/ AddMapping(v) \/ AddMappingFails(v) PROVE UIDInv'
  BY <1>0, <1>6, UIDSame DEF AllocatePort, AddMapping, AddMappingFails
<1>7. ASSUME NEW v \in Slots, RemoveMapping(v) \/ ReleasePort(v) PROVE UIDInv'
  BY <1>0, <1>7, UIDSame, MappingTurnKeeps
<1>8. ASSUME NEW v \in Slots, ReleaseIP(v), Taken(v, "ip") PROVE UIDInv'
  BY <1>0, <1>8, UIDSame DEF ReleaseIP, Turn, Taken
<1>9. ASSUME NEW v \in Slots, ReturnUID(v), Taken(v, "uid") PROVE UIDInv'
  <2>1. /\ uid[v] \in UID!UIDs /\ ~Has(uids, uid[v]) /\ uid' = uid
        /\ \A w \in Slots : Has(plan'[w], "uid") <=> (Has(plan[w], "uid") /\ w # v)
        /\ Has(plan[v], "uid")
    BY <1>0, <1>9 DEF ReturnUID, Turn, Taken, UIDInv
  <2>2. Len(uids) < UIDSize
    BY <1>0, <2>1, ChannelFits, FactoryAssumption
  <2>3. uids' = Append(uids, uid[v])
    BY <1>9, <2>1, <2>2 DEF ReturnUID, UID!Return
  <2>4. /\ uids' \in Seq(UID!UIDs) /\ Distinct(uids')
        /\ \A u : Has(uids', u) <=> (Has(uids, u) \/ u = uid[v])
    BY <1>0, <2>1, <2>3, ChannelPuts
  <2>5. \A w \in Slots : Has(plan'[w], "uid") => uid'[w] \in UID!UIDs /\ ~Has(uids', uid'[w])
    BY <2>1, <2>4 DEF UIDInv
  <2>6. \A w, x \in Slots : Has(plan'[w], "uid") /\ Has(plan'[x], "uid") /\ uid'[w] = uid'[x] => w = x
    BY <2>1 DEF UIDInv
  <2>7. \A u \in UID!UIDs : Has(uids', u) \/ \E w \in Slots : Has(plan'[w], "uid") /\ uid'[w] = u
    BY <2>1, <2>4 DEF UIDInv
  <2> QED
    BY <1>0, <2>1, <2>4, <2>5, <2>6, <2>7 DEF UIDInv, UID!NoDuplicates, Distinct
<1>12. ASSUME NEW v \in Slots, Close(v) PROVE UIDInv'
  BY <1>0, <1>12, CloseOwes, UIDSame DEF Close, KeepAlloc
<1>13. ASSUME NEW v \in Slots, Finish(v) PROVE UIDInv'
  <2>1. plan' = plan /\ uids' = uids /\ ~Has(plan[v], "uid")
    BY <1>13, HasEmpty DEF Finish, KeepAlloc
  <2>2. uid' \in [Slots -> UID!UIDs \cup {0}] /\ \A w \in Slots \ {v} : uid'[w] = uid[w]
    BY <1>0, <1>13 DEF Finish, Set
  <2> QED
    BY <2>1, <2>2, UIDSame
<1> QED
  BY <1>1, <1>2, <1>3, <1>4, <1>5, <1>6, <1>7, <1>8, <1>9, <1>12, <1>13, Effects
  DEF Effect

\* The channel is filled once.
LEMMA UIDInit == Init => UIDInv
<1> SUFFICES ASSUME Init PROVE UIDInv
  OBVIOUS
<1>1. uids = [i \in 1..UIDSize |-> UIDStart + i - 1] /\ UIDStart \in Nat /\ UIDSize \in Nat
  BY FactoryAssumption DEF Init, UID!Init
<1>2. \A i \in 1..UIDSize : UIDStart + i - 1 \in UID!UIDs
  BY <1>1 DEF UID!UIDs
<1>3. uids \in Seq(UID!UIDs)
  BY <1>1, <1>2
<1>4. UID!NoDuplicates
  BY <1>1 DEF UID!NoDuplicates
<1>5. \A v \in Slots : ~Has(plan[v], "uid")
  BY HasEmpty DEF Init
<1>6. ASSUME NEW u \in UID!UIDs PROVE Has(uids, u)
  <2>1. u - UIDStart + 1 \in 1..UIDSize /\ uids[u - UIDStart + 1] = u
    BY <1>1 DEF UID!UIDs
  <2> QED
    BY <2>1, <1>1 DEF Has
<1>7. uid \in [Slots -> UID!UIDs \cup {0}]
  BY DEF Init
<1> QED
  BY <1>3, <1>4, <1>5, <1>6, <1>7 DEF UIDInv

\* The two invariants hold throughout.
LEMMA UIDAlways == Spec => [](PlanInv /\ UIDInv)
  BY PlanInit, PlanStep, UIDInit, UIDStep, PTL DEF Spec

\* uid/pool.go and its callers: every UID is in the channel once, or is leased to
\* exactly one slot that will return it, whatever Spawn fails at and whichever order
\* the calls of rollbacks and Closes have.  No Return finds the channel full.
THEOREM UIDConservedHolds == Spec => []UIDConserved
<1>1. UIDInv => UIDConserved
  BY DEF UIDInv, UIDConserved, Has, Owes
<1> QED
  BY <1>1, UIDAlways, PTL

-----------------------------------------------------------------------------
(* Addresses *)

\* The addresses in use are those of the slots that owe their release, one each.
AddressInv ==
    /\ ip \in [Slots -> IPs!Guests \cup {0}] /\ used \in SUBSET IPs!Guests /\ nextIP \in IPs!Guests
    /\ \A v \in Slots : Has(plan[v], "ip") => ip[v] \in used
    /\ \A v, w \in Slots : Has(plan[v], "ip") /\ Has(plan[w], "ip") /\ ip[v] = ip[w] => v = w
    /\ \A a \in used : \E v \in Slots : Has(plan[v], "ip") /\ ip[v] = a

\* A step that leaves the pool and the addresses that are owed.
LEMMA AddressSame ==
  ASSUME AddressInv, used' = used, nextIP' = nextIP, ip' \in [Slots -> IPs!Guests \cup {0}],
         \A w \in Slots : /\ Has(plan'[w], "ip") <=> Has(plan[w], "ip")
                          /\ Has(plan[w], "ip") => ip'[w] = ip[w]
  PROVE  AddressInv'
<1>1. \A v \in Slots : Has(plan'[v], "ip") => ip'[v] \in used'
  BY DEF AddressInv
<1>2. \A v, w \in Slots : Has(plan'[v], "ip") /\ Has(plan'[w], "ip") /\ ip'[v] = ip'[w] => v = w
  BY DEF AddressInv
<1>3. \A a \in used' : \E v \in Slots : Has(plan'[v], "ip") /\ ip'[v] = a
  BY DEF AddressInv
<1>4. used' \in SUBSET IPs!Guests /\ nextIP' \in IPs!Guests
  BY DEF AddressInv
<1> QED
  BY <1>1, <1>2, <1>3, <1>4 DEF AddressInv

\* The scan wraps around within the guests' addresses.
LEMMA SuccInRange == \A a \in IPs!Guests : IPs!Succ(a) \in IPs!Guests
  BY FactoryAssumption DEF IPs!Guests, IPs!Succ

\* Addresses are neither lost nor given away twice.
LEMMA AddressStep == PlanInv /\ AddressInv /\ [Next]_vars => AddressInv'
<1> SUFFICES ASSUME PlanInv, AddressInv, [Next]_vars PROVE AddressInv'
  OBVIOUS
<1>0. ip \in [Slots -> IPs!Guests \cup {0}] /\ used \in SUBSET IPs!Guests /\ "ip" \in Calls
  BY DEF AddressInv, Calls
<1>1. CASE UNCHANGED <<res, plan>>
  BY <1>0, <1>1, AddressSame DEF res
<1>2. ASSUME NEW v \in Slots, UNCHANGED res,
             NEW S \in SUBSET {"snapshot_ctx", "chroot", "tap", "kill", "wait"}, Pushed(v, S)
      PROVE  AddressInv'
  BY <1>0, <1>2, AddressSame DEF res, Pushed
<1>3. ASSUME NEW v \in Slots, UNCHANGED res,
             NEW c \in {"kill", "wait", "chroot", "tap", "snapshot", "snapshot_ctx"}, Taken(v, c)
      PROVE  AddressInv'
  BY <1>0, <1>3, AddressSame DEF res, Taken
<1>4. ASSUME NEW v \in Slots, CheckoutUID(v), Pushed(v, {"uid"}) PROVE AddressInv'
  BY <1>0, <1>4, AddressSame DEF CheckoutUID, Pushed
<1>5. ASSUME NEW v \in Slots, AcquireIP(v), Pushed(v, {"ip"}) PROVE AddressInv'
  <2>1. PICK a \in IPs!Guests \ used :
          ip' = Set(ip, v, a) /\ used' = used \cup {a} /\ nextIP' = IPs!Succ(a) /\ pc[v] = "ip"
    BY <1>5 DEF AcquireIP, IPs!Acquire, At
  <2>2. ~Has(plan[v], "ip")
    <3>1. SpawnRank("ip") < Floor("ip")
      BY DEF SpawnRank, Floor
    <3> QED
      BY <1>0, <2>1, <3>1, StackIs
  <2>3. \A w \in Slots : Has(plan'[w], "ip") <=> (Has(plan[w], "ip") \/ w = v)
    BY <1>0, <1>5 DEF Pushed
  <2>4. /\ ip'[v] = a /\ ip' \in [Slots -> IPs!Guests \cup {0}]
        /\ \A w \in Slots \ {v} : ip'[w] = ip[w]
    BY <1>0, <2>1 DEF Set
  <2>5. \A w \in Slots : Has(plan'[w], "ip") => ip'[w] \in used'
    BY <2>1, <2>3, <2>4 DEF AddressInv
  <2>6. \A w, x \in Slots : Has(plan'[w], "ip") /\ Has(plan'[x], "ip") /\ ip'[w] = ip'[x] => w = x
    BY <2>1, <2>3, <2>4 DEF AddressInv
  <2>7. \A b \in used' : \E w \in Slots : Has(plan'[w], "ip") /\ ip'[w] = b
    BY <2>1, <2>2, <2>3, <2>4 DEF AddressInv
  <2> QED
    BY <1>0, <2>1, <2>4, <2>5, <2>6, <2>7, SuccInRange DEF AddressInv
<1>6. ASSUME NEW v \in Slots, AllocatePort(v) \/ AddMapping(v) \/ AddMappingFails(v) PROVE AddressInv'
  BY <1>0, <1>6, AddressSame DEF AllocatePort, AddMapping, AddMappingFails
<1>7. ASSUME NEW v \in Slots, RemoveMapping(v) \/ ReleasePort(v) PROVE AddressInv'
  BY <1>0, <1>7, AddressSame, MappingTurnKeeps
<1>8. ASSUME NEW v \in Slots, ReleaseIP(v), Taken(v, "ip") PROVE AddressInv'
  <2>1. /\ used' = used \ {ip[v]} /\ ip' = ip /\ nextIP' = nextIP
        /\ \A w \in Slots : Has(plan'[w], "ip") <=> (Has(plan[w], "ip") /\ w # v)
        /\ Has(plan[v], "ip")
    BY <1>0, <1>8 DEF ReleaseIP, IPs!Release, Turn, Taken
  <2>2. \A w \in Slots : Has(plan'[w], "ip") => ip'[w] \in used'
    BY <2>1 DEF AddressInv
  <2>3. \A w, x \in Slots : Has(plan'[w], "ip") /\ Has(plan'[x], "ip") /\ ip'[w] = ip'[x] => w = x
    BY <2>1 DEF AddressInv
  <2>4. \A b \in used' : \E w \in Slots : Has(plan'[w], "ip") /\ ip'[w] = b
    BY <2>1 DEF AddressInv
  <2> QED
    BY <1>0, <2>1, <2>2, <2>3, <2>4 DEF AddressInv
<1>9. ASSUME NEW v \in Slots, ReturnUID(v), Taken(v, "uid") PROVE AddressInv'
  BY <1>0, <1>9, AddressSame DEF ReturnUID, Turn, Taken
<1>12. ASSUME NEW v \in Slots, Close(v) PROVE AddressInv'
  BY <1>0, <1>12, CloseOwes, AddressSame DEF Close, KeepAlloc
<1>13. ASSUME NEW v \in Slots, Finish(v) PROVE AddressInv'
  <2>1. plan' = plan /\ used' = used /\ nextIP' = nextIP /\ ~Has(plan[v], "ip")
    BY <1>13, HasEmpty DEF Finish, KeepAlloc
  <2>2. ip' \in [Slots -> IPs!Guests \cup {0}] /\ \A w \in Slots \ {v} : ip'[w] = ip[w]
    BY <1>0, <1>13 DEF Finish, Set
  <2> QED
    BY <2>1, <2>2, AddressSame
<1> QED
  BY <1>1, <1>2, <1>3, <1>4, <1>5, <1>6, <1>7, <1>8, <1>9, <1>12, <1>13, Effects
  DEF Effect

\* The pool starts with no address in use.
LEMMA AddressInit == Init => AddressInv
<1> SUFFICES ASSUME Init PROVE AddressInv
  OBVIOUS
<1>1. \A v \in Slots : ~Has(plan[v], "ip")
  BY HasEmpty DEF Init
<1>2. 2 \in IPs!Guests
  BY FactoryAssumption DEF IPs!Guests
<1> QED
  BY <1>1, <1>2 DEF Init, IPs!Init, AddressInv

\* The two invariants hold throughout.
LEMMA AddressAlways == Spec => [](PlanInv /\ AddressInv)
  BY PlanInit, PlanStep, AddressInit, AddressStep, PTL DEF Spec

\* ipam.go: two VMs that have not released their addresses have different ones, and both
\* are marked used, however often the scan has wrapped around.
THEOREM AddressExclusiveHolds == Spec => []AddressExclusive
<1>1. AddressInv => AddressExclusive
  BY DEF AddressInv, AddressExclusive, Has, Owes
<1> QED
  BY <1>1, AddressAlways, PTL

-----------------------------------------------------------------------------
(* Processes and tap devices *)

HostType ==
    /\ proc \in [Slots -> {"none", "up", "killed"}]
    /\ snapshot \in [IDs -> {"absent", "clean", "written"}]
    /\ chroot \in [IDs -> {"absent", "made", "linked"}]
    /\ tap \in [TapNames -> Slots \cup {NoOne}]

\* Who has yet to wait for a process has yet to return its UID.
WaitOwed == \A v \in Slots : Has(plan[v], "wait") => Has(plan[v], "uid")

\* Somebody kills every process that is up, and waits for every process, if the waits do
\* not time out.
ProcOwed ==
    /\ \A v \in Slots : proc[v] = "up" => Has(plan[v], "kill")
    /\ ExitsInTime = TRUE => \A v \in Slots : proc[v] # "none" => Has(plan[v], "wait")

\* Somebody removes every device, if none was lost sight of.
TapOwed ==
    LinkFound = TRUE => \A n \in TapNames : tap[n] # NoOne => tapName(tap[n]) = n /\ Has(plan[tap[n]], "tap")

HostInv == HostType /\ WaitOwed /\ ProcOwed /\ TapOwed

\* The names of a slot's host objects.
LEMMA NameType == \A v \in Slots : id(v) \in IDs /\ tapName(v) \in TapNames
  BY FactoryAssumption DEF id, tapName

\* A step that makes no host object and drops none of the calls.
LEMMA HostSame ==
  ASSUME HostInv, HostType',
         \A w \in Slots : /\ proc'[w] # "none" => proc[w] # "none"
                          /\ proc'[w] = "up" => proc[w] = "up",
         LinkFound = TRUE => \A n \in TapNames : tap'[n] # NoOne => tap'[n] = tap[n],
         \A w \in Slots : /\ Has(plan'[w], "wait") <=> Has(plan[w], "wait")
                          /\ \A c \in {"uid", "tap", "kill"} : Has(plan[w], c) => Has(plan'[w], c)
  PROVE  HostInv'
<1>1. WaitOwed'
  BY DEF HostInv, WaitOwed
<1>2. ProcOwed'
  BY DEF HostInv, ProcOwed
<1>3. TapOwed'
  BY DEF HostInv, TapOwed, HostType, tapName, id
<1> QED
  BY <1>1, <1>2, <1>3 DEF HostInv

\* Every step keeps them.
LEMMA HostStep == PlanInv /\ HostInv /\ [Next]_vars => HostInv'
<1> SUFFICES ASSUME PlanInv, HostInv, [Next]_vars PROVE HostInv'
  OBVIOUS
<1>0. /\ HostType /\ \A v \in Slots : id(v) \in IDs /\ tapName(v) \in TapNames
      /\ NoOne \notin Slots
  BY NameType, FactoryAssumption DEF HostInv
<1>1. /\ "uid" \in Calls /\ "ip" \in Calls /\ "wait" \in Calls
      /\ "kill" \in Calls /\ "snapshot_ctx" \in Calls /\ "chroot" \in Calls /\ "tap" \in Calls
  BY DEF Calls
<1>2. ASSUME NEW v \in Slots, Begin(v) PROVE HostInv'
  <2>1. HostType'
    BY <1>0, <1>2 DEF HostType, Begin, idVars
  <2> QED
    BY <1>0, <1>1, <1>2, <2>1, HostSame DEF HostType, Begin, idVars
<1>3. ASSUME NEW v \in Slots, WarmImage(v) PROVE HostInv'
  <2>1. HostType'
    BY <1>0, <1>3 DEF HostType, WarmImage, idVars
  <2> QED
    BY <1>0, <1>1, <1>3, <2>1, HostSame DEF HostType, WarmImage, idVars
<1>4. ASSUME NEW v \in Slots, SnapshotFails(v) PROVE HostInv'
  <2>1. HostType'
    BY <1>0, <1>4 DEF HostType, SnapshotFails, idVars, Set
  <2> QED
    BY <1>0, <1>1, <1>4, <2>1, HostSame DEF HostType, SnapshotFails, idVars, Set
<1>5. ASSUME NEW v \in Slots, InjectGuestAgent(v) PROVE HostInv'
  <2>1. HostType'
    BY <1>0, <1>5 DEF HostType, InjectGuestAgent, idVars
  <2> QED
    BY <1>0, <1>1, <1>5, <2>1, HostSame DEF HostType, InjectGuestAgent, idVars
<1>6. ASSUME NEW v \in Slots, LinkKernel(v) PROVE HostInv'
  <2>1. HostType'
    BY <1>0, <1>6 DEF HostType, LinkKernel, idVars, Set
  <2> QED
    BY <1>0, <1>1, <1>6, <2>1, HostSame DEF HostType, LinkKernel, idVars, Set
<1>7. ASSUME NEW v \in Slots, LinkFails(v) PROVE HostInv'
  <2>1. HostType'
    BY <1>0, <1>7 DEF HostType, LinkFails, idVars, Set
  <2> QED
    BY <1>0, <1>1, <1>7, <2>1, HostSame DEF HostType, LinkFails, idVars, Set
<1>8. ASSUME NEW v \in Slots, CreateTapFails(v) PROVE HostInv'
  <2>1. HostType'
    BY <1>0, <1>8 DEF HostType, CreateTapFails, idVars, Set
  <2> QED
    BY <1>0, <1>1, <1>8, <2>1, HostSame DEF HostType, CreateTapFails, idVars, Set
<1>9. ASSUME NEW v \in Slots, Dial(v) PROVE HostInv'
  <2>1. HostType'
    BY <1>0, <1>9 DEF HostType, Dial, idVars
  <2> QED
    BY <1>0, <1>1, <1>9, <2>1, HostSame DEF HostType, Dial, idVars
<1>10. ASSUME NEW v \in Slots, Fail(v) PROVE HostInv'
  <2>1. HostType'
    BY <1>0, <1>10 DEF HostType, Fail, idVars
  <2> QED
    BY <1>0, <1>1, <1>10, <2>1, HostSame DEF HostType, Fail, idVars
<1>11. ASSUME NEW v \in Slots, Exit(v) PROVE HostInv'
  <2>1. HostType'
    BY <1>0, <1>11 DEF HostType, Exit, idVars, Set
  <2> QED
    BY <1>0, <1>1, <1>11, <2>1, HostSame DEF HostType, Exit, idVars, Set
<1>12. ASSUME NEW v \in Slots, Finish(v) PROVE HostInv'
  <2>1. HostType'
    BY <1>0, <1>12 DEF HostType, Finish, idVars
  <2> QED
    BY <1>0, <1>1, <1>12, <2>1, HostSame DEF HostType, Finish, idVars
<1>13. ASSUME NEW v \in Slots, CheckoutUID(v) PROVE HostInv'
  <2>1. HostType'
    BY <1>0, <1>13 DEF HostType, CheckoutUID, idVars, Set
  <2>2. Pushed(v, {"uid"})
    BY <1>13, <1>1, PushPushes DEF CheckoutUID
  <2> QED
    BY <1>0, <1>1, <1>13, <2>1, <2>2, HostSame DEF HostType, CheckoutUID, idVars, Pushed
<1>14. ASSUME NEW v \in Slots, Snapshot(v) PROVE HostInv'
  <2>1. HostType'
    BY <1>0, <1>14 DEF HostType, Snapshot, idVars, Set
  <2>2. Pushed(v, {"snapshot_ctx"})
    BY <1>14, <1>1, PushPushes DEF Snapshot
  <2> QED
    BY <1>0, <1>1, <1>14, <2>1, <2>2, HostSame DEF HostType, Snapshot, idVars, Pushed
<1>15. ASSUME NEW v \in Slots, AcquireIP(v) PROVE HostInv'
  <2>1. HostType'
    BY <1>0, <1>15 DEF HostType, AcquireIP, idVars, Set
  <2>2. Pushed(v, {"ip"})
    BY <1>15, <1>1, PushPushes DEF AcquireIP
  <2> QED
    BY <1>0, <1>1, <1>15, <2>1, <2>2, HostSame DEF HostType, AcquireIP, idVars, Pushed
<1>16. ASSUME NEW v \in Slots, AllocatePort(v) \/ AddMapping(v) \/ AddMappingFails(v) PROVE HostInv'
  <2>1. UNCHANGED <<plan, proc, snapshot, chroot, tap>>
    BY <1>16 DEF AllocatePort, AddMapping, AddMappingFails, idVars
  <2>2. HostType'
    BY <1>0, <2>1 DEF HostType
  <2> QED
    BY <1>0, <1>1, <2>1, <2>2, HostSame DEF HostType
<1>17. ASSUME NEW v \in Slots, RemoveMapping(v) \/ ReleasePort(v) PROVE HostInv'
  <2>1. UNCHANGED <<plan, proc, snapshot, chroot, tap>>
    BY <1>17, MappingTurnKeeps
  <2>2. HostType'
    BY <1>0, <2>1 DEF HostType
  <2> QED
    BY <1>0, <1>1, <2>1, <2>2, HostSame DEF HostType
<1>18. ASSUME NEW v \in Slots, MakeChroot(v) PROVE HostInv'
  <2>1. HostType' /\ proc' = proc /\ tap' = tap
    BY <1>0, <1>18 DEF HostType, MakeChroot, Set
  <2>2. Pushed(v, {"chroot"}) \/ Pushed(v, {})
    BY <1>18, <1>1, PushPushes, NothingPushed DEF MakeChroot
  <2> QED
    BY <1>0, <1>1, <2>1, <2>2, HostSame DEF HostType, Pushed
<1>19. ASSUME NEW v \in Slots, CreateTap(v) PROVE HostInv'
  <2>1. HostType' /\ proc' = proc /\ chroot' = chroot /\ tap' = Set(tap, tapName(v), v)
    BY <1>0, <1>19 DEF HostType, CreateTap, Set
  <2>2. Pushed(v, {"tap"})
    BY <1>19, <1>1, PushPushes DEF CreateTap
  <2>3. WaitOwed' /\ ProcOwed'
    BY <1>1, <2>1, <2>2 DEF HostInv, WaitOwed, ProcOwed, Pushed
  <2>4. TapOwed'
    <3>1. tap'[tapName(v)] = v /\ \A n \in TapNames \ {tapName(v)} : tap'[n] = tap[n]
      BY <1>0, <2>1 DEF Set, HostType
    <3>2. Has(plan'[v], "tap") /\ \A w \in Slots : Has(plan[w], "tap") => Has(plan'[w], "tap")
      BY <1>1, <2>2 DEF Pushed
    <3>3. \A n \in TapNames : tap[n] # NoOne => tap[n] \in Slots
      BY <1>0 DEF HostType
    <3> QED
      BY <3>1, <3>2, <3>3 DEF HostInv, TapOwed, tapName, id
  <2> QED
    BY <2>1, <2>3, <2>4 DEF HostInv
<1>20. ASSUME NEW v \in Slots, Start(v) PROVE HostInv'
  <2>1. /\ HostType' /\ proc' = Set(proc, v, "up") /\ chroot' = chroot /\ tap' = tap
        /\ pc[v] = "start"
    BY <1>0, <1>20 DEF HostType, Start, At, Set
  <2>2. Pushed(v, {"kill", "wait"})
    BY <1>20, StartPushes
  <2>3. Has(plan[v], "uid")
    <3>1. "start" \in Due("uid")
      BY DEF Due, SpawnLabels
    <3> QED
      BY <1>1, <2>1, <3>1, StackIs
  <2>4. WaitOwed'
    BY <1>1, <2>2, <2>3 DEF HostInv, WaitOwed, Pushed
  <2>5. ProcOwed'
    BY <1>0, <1>1, <2>1, <2>2 DEF HostInv, ProcOwed, HostType, Set, Pushed
  <2>6. TapOwed'
    BY <1>0, <1>1, <2>1, <2>2 DEF HostInv, TapOwed, HostType, Pushed, tapName, id
  <2> QED
    BY <2>1, <2>4, <2>5, <2>6 DEF HostInv
<1>21. ASSUME NEW v \in Slots, Close(v) PROVE HostInv'
  <2>1. HostType'
    BY <1>0, <1>21 DEF HostType, Close, idVars
  <2> QED
    BY <1>0, <1>21, <2>1, CloseOwes, HostSame DEF HostType, Close, idVars
<1>22. ASSUME NEW v \in Slots, Kill(v) PROVE HostInv'
  <2>1. /\ HostType' /\ tap' = tap /\ Taken(v, "kill") /\ proc'[v] # "up"
        /\ \A w \in Slots : /\ proc'[w] # "none" => proc[w] # "none"
                            /\ w # v => proc'[w] = proc[w]
    BY <1>0, <1>22, TurnTakes DEF HostType, Kill, idVars, Set
  <2>2. WaitOwed' /\ ProcOwed'
    BY <1>1, <2>1 DEF HostInv, WaitOwed, ProcOwed, Taken
  <2>3. TapOwed'
    BY <1>0, <1>1, <2>1 DEF HostInv, TapOwed, HostType, Taken, tapName, id
  <2> QED
    BY <2>1, <2>2, <2>3 DEF HostInv
<1>23. ASSUME NEW v \in Slots, ReleaseIP(v) PROVE HostInv'
  <2>1. HostType'
    BY <1>0, <1>23 DEF HostType, ReleaseIP, idVars, Set
  <2>2. Taken(v, "ip")
    BY <1>23, TurnTakes DEF ReleaseIP
  <2> QED
    BY <1>0, <1>1, <1>23, <2>1, <2>2, HostSame DEF HostType, ReleaseIP, idVars, Taken, Set
<1>24. ASSUME NEW v \in Slots, Teardown(v) PROVE HostInv'
  <2>1. HostType'
    BY <1>0, <1>24 DEF HostType, Teardown, idVars, Set
  <2>2. Taken(v, "snapshot")
    BY <1>24, TurnTakes DEF Teardown
  <2> QED
    BY <1>0, <1>1, <1>24, <2>1, <2>2, HostSame DEF HostType, Teardown, idVars, Taken, Set
<1>25. ASSUME NEW v \in Slots, TeardownInRequest(v) PROVE HostInv'
  <2>1. HostType'
    BY <1>0, <1>25 DEF HostType, TeardownInRequest, idVars, Set
  <2>2. Taken(v, "snapshot_ctx")
    BY <1>25, TurnTakes DEF TeardownInRequest
  <2> QED
    BY <1>0, <1>1, <1>25, <2>1, <2>2, HostSame DEF HostType, TeardownInRequest, idVars, Taken, Set
<1>28. ASSUME NEW v \in Slots, Await(v) PROVE HostInv'
  <2>1. /\ HostType' /\ UNCHANGED <<proc, tap>> /\ Taken(v, "wait")
        /\ (proc[v] = "killed" => ~ExitsInTime)
    BY <1>0, <1>28, TurnTakes DEF HostType, Await, idVars
  <2>2. proc[v] # "up"
    <3>1. pc[v] \in {"undo", "clean"} => ~(Rank(pc[v], "wait") < Rank(pc[v], "kill"))
      BY DEF Rank, SpawnRank, CloseRank
    <3> QED
      BY <1>1, <2>1, <3>1 DEF Taken, HostInv, ProcOwed
  <2>3. WaitOwed'
    BY <1>1, <2>1 DEF HostInv, WaitOwed, Taken
  <2>4. ProcOwed'
    <3>1. ExitsInTime = TRUE => proc[v] = "none"
      BY <1>0, <2>1, <2>2 DEF HostType
    <3> QED
      BY <1>1, <2>1, <3>1 DEF HostInv, ProcOwed, Taken
  <2>5. TapOwed'
    BY <1>0, <1>1, <2>1 DEF HostInv, TapOwed, HostType, Taken, tapName, id
  <2> QED
    BY <2>1, <2>3, <2>4, <2>5 DEF HostInv
<1>29. ASSUME NEW v \in Slots, RemoveChroot(v) PROVE HostInv'
  <2>1. HostType' /\ UNCHANGED <<proc, tap>> /\ Taken(v, "chroot")
    BY <1>0, <1>29, TurnTakes DEF HostType, RemoveChroot, Set
  <2> QED
    BY <1>0, <1>1, <2>1, HostSame DEF HostType, Taken
<1>30. ASSUME NEW v \in Slots, DeleteTap(v) PROVE HostInv'
  <2>1. /\ HostType' /\ proc' = proc /\ Taken(v, "tap")
        /\ tap' = Set(tap, tapName(v), NoOne)
    BY <1>0, <1>30, TurnTakes DEF HostType, DeleteTap, Set
  <2>2. WaitOwed' /\ ProcOwed'
    BY <1>1, <2>1 DEF HostInv, WaitOwed, ProcOwed, Taken
  <2>3. TapOwed'
    <3>1. tap'[tapName(v)] = NoOne /\ \A n \in TapNames \ {tapName(v)} : tap'[n] = tap[n]
      BY <1>0, <2>1 DEF Set, HostType
    <3>2. \A w \in Slots : w # v /\ Has(plan[w], "tap") => Has(plan'[w], "tap")
      BY <1>1, <2>1 DEF Taken
    <3>3. \A n \in TapNames : tap[n] # NoOne => tap[n] \in Slots
      BY <1>0 DEF HostType
    <3> QED
      BY <3>1, <3>2, <3>3 DEF HostInv, TapOwed, tapName, id
  <2> QED
    BY <2>1, <2>2, <2>3 DEF HostInv
<1>31. ASSUME NEW v \in Slots, ReturnUID(v) PROVE HostInv'
  <2>1. HostType' /\ UNCHANGED <<proc, tap>> /\ Taken(v, "uid")
    BY <1>0, <1>31, TurnTakes DEF HostType, ReturnUID, idVars
  <2>2. ~Has(plan[v], "wait")
    <3>1. pc[v] \in {"undo", "clean"} => ~(Rank(pc[v], "uid") < Rank(pc[v], "wait"))
      BY DEF Rank, SpawnRank, CloseRank
    <3> QED
      BY <1>1, <2>1, <3>1 DEF Taken
  <2>3. WaitOwed'
    BY <1>1, <2>1, <2>2 DEF HostInv, WaitOwed, Taken
  <2>4. ProcOwed'
    BY <1>1, <2>1 DEF HostInv, ProcOwed, Taken
  <2>5. TapOwed'
    BY <1>0, <1>1, <2>1 DEF HostInv, TapOwed, HostType, Taken, tapName, id
  <2> QED
    BY <2>1, <2>3, <2>4, <2>5 DEF HostInv
<1>32. ASSUME UNCHANGED vars PROVE HostInv'
  <2>1. HostType'
    BY <1>0, <1>32 DEF HostType, vars, slotVars, idVars
  <2> QED
    BY <1>32, <2>1, HostSame DEF vars, slotVars, idVars
<1> QED
  BY <1>2, <1>3, <1>4, <1>5, <1>6, <1>7, <1>8, <1>9, <1>10, <1>11, <1>12, <1>13, <1>14, <1>15,
     <1>16, <1>17, <1>18, <1>19, <1>20, <1>21, <1>22, <1>23, <1>24, <1>25, <1>28,
     <1>29, <1>30, <1>31, <1>32
  DEF Next, SpawnStep, CleanStep

\* There are no host objects at first.
LEMMA HostInit == Init => HostInv
<1> SUFFICES ASSUME Init PROVE HostInv
  OBVIOUS
<1>1. \A v \in Slots : ~Has(plan[v], "wait") /\ proc[v] = "none"
  BY HasEmpty DEF Init
<1>2. HostType
  BY DEF Init, HostType
<1> QED
  BY <1>1, <1>2 DEF Init, HostInv, WaitOwed, ProcOwed, TapOwed

\* The three invariants hold throughout.
LEMMA HostAlways == Spec => [](PlanInv /\ UIDInv /\ HostInv)
  BY PlanInit, PlanStep, UIDInit, UIDStep, HostInit, HostStep, PTL DEF Spec

\* firecracker_factory.go on Close, "The leased UID is returned to the pool after
\* process exit so it cannot be reused while the old process is still alive": true of
\* every path, rollbacks included, as long as no wait for a process times out.
THEOREM UIDExclusiveHolds == ExitsInTime = TRUE => (Spec => []UIDExclusive)
<1> SUFFICES ASSUME ExitsInTime = TRUE PROVE Spec => []UIDExclusive
  OBVIOUS
<1>1. UIDInv /\ HostInv => UIDExclusive
  BY DEF UIDInv, HostInv, WaitOwed, ProcOwed, UIDExclusive, HasProcess, Has
<1> QED
  BY <1>1, HostAlways, PTL

-----------------------------------------------------------------------------
(* Port mappings *)

\* the labels of a slot that has mappings, or is about to have one
MappingLabels == {"port", "dnat", "run", "undo", "clean"}

\* the rule of mapping k at port p has yet to be installed
Missing(f, k, p) == <<"port", k, p>> \in f /\ <<"dnat", k, p>> \notin f

\* What a slot at this label, with plan s, may have to undo of its mappings: in a
\* rollback the mappings go before the address; a VM in service has the rules of all of
\* them, a Spawn in mid-loop all but one.
FwdOk(label, s, f) ==
    /\ f \in SUBSET MappingCalls
    /\ f # {} => label \in MappingLabels
    /\ f # {} /\ label # "clean" => Has(s, "ip")
    /\ label \in {"port", "run"} => \A k \in Mappings, p \in Ports : ~Missing(f, k, p)
    /\ label = "dnat" => \A k, l \in Mappings, p, q \in Ports :
                            Missing(f, k, p) /\ Missing(f, l, q) => k = l /\ p = q

FwdInv ==
    /\ fwd \in [Slots -> SUBSET MappingCalls]
    /\ \A v \in Slots : FwdOk(pc[v], plan[v], fwd[v])

\* Without mappings there is nothing to say.
LEMMA NoMappings == \A l, s : FwdOk(l, s, {})
  BY DEF FwdOk, Missing

\* Slot v takes a step, the others stay.
LEMMA FwdMoves ==
  ASSUME PlanInv, FwdInv, NEW v \in Slots, NEW f, fwd' = Set(fwd, v, f),
         \A w \in Slots \ {v} : pc'[w] = pc[w] /\ plan'[w] = plan[w],
         FwdOk(pc'[v], plan'[v], f)
  PROVE  FwdInv'
<1>1. fwd'[v] = f /\ \A w \in Slots \ {v} : fwd'[w] = fwd[w]
  BY DEF Set, FwdInv
<1>2. fwd' \in [Slots -> SUBSET MappingCalls]
  BY DEF Set, FwdInv, FwdOk
<1>3. ASSUME NEW w \in Slots PROVE FwdOk(pc'[w], plan'[w], fwd'[w])
  BY <1>1 DEF FwdInv
<1> QED
  BY <1>2, <1>3 DEF FwdInv

\* The same when the mappings are left as they are.
LEMMA FwdKeeps ==
  ASSUME PlanInv, FwdInv, NEW v \in Slots, fwd' = fwd,
         \A w \in Slots \ {v} : pc'[w] = pc[w] /\ plan'[w] = plan[w],
         FwdOk(pc'[v], plan'[v], fwd[v])
  PROVE  FwdInv'
<1>1. ASSUME NEW w \in Slots PROVE FwdOk(pc'[w], plan'[w], fwd'[w])
  BY DEF FwdInv
<1> QED
  BY <1>1 DEF FwdInv

\* A step before the loop over the mappings.
LEMMA FwdEarly ==
  ASSUME PlanInv, FwdInv, NEW v \in Slots, pc[v] \notin MappingLabels, fwd' = fwd, NEW l,
         pc' = Set(pc, v, l), NEW s, plan' = plan \/ plan' = Set(plan, v, s)
  PROVE  FwdInv'
<1>1. fwd[v] = {}
  BY DEF FwdInv, FwdOk
<1>2. \A w \in Slots \ {v} : pc'[w] = pc[w] /\ plan'[w] = plan[w]
  BY DEF PlanInv, Set
<1> QED
  BY <1>1, <1>2, NoMappings, FwdKeeps

\* A call of a clean-up.
LEMMA FwdTurn ==
  ASSUME PlanInv, FwdInv, NEW v \in Slots, NEW c, Turn(v, c)
  PROVE  FwdInv'
<1>1. /\ fwd' = fwd /\ pc' = pc /\ (pc[v] = "clean" \/ fwd[v] = {})
      /\ \A w \in Slots \ {v} : plan'[w] = plan[w]
  BY DEF Turn, PlanInv, Set
<1>2. FwdOk(pc[v], plan[v], fwd[v])
  BY DEF FwdInv
<1>3. FwdOk(pc'[v], plan'[v], fwd[v])
  <2>1. CASE fwd[v] = {}
    BY <2>1, NoMappings
  <2>2. CASE pc[v] = "clean"
    BY <2>2, <1>1, <1>2 DEF FwdOk
  <2> QED
    BY <1>1, <2>1, <2>2
<1> QED
  BY <1>1, <1>3, FwdKeeps

\* A slot in rollback or Close loses one of its mapping calls.
LEMMA FwdShrinks ==
  ASSUME PlanInv, FwdInv, NEW v \in Slots, NEW c, MappingTurn(v, c)
  PROVE  FwdInv'
<1>1. /\ fwd' = Set(fwd, v, fwd[v] \ {c}) /\ c \in fwd[v] /\ pc[v] \in {"undo", "clean"}
      /\ UNCHANGED <<pc, plan>>
  BY DEF MappingTurn
<1>2. FwdOk(pc[v], plan[v], fwd[v])
  BY DEF FwdInv
<1>3. FwdOk(pc[v], plan[v], fwd[v] \ {c})
  BY <1>1, <1>2 DEF FwdOk
<1> QED
  BY <1>1, <1>3, FwdMoves

\* A Spawn that fails, in the loop or before it.
LEMMA FwdFails ==
  ASSUME PlanInv, FwdInv, NEW v \in Slots, pc[v] \in SpawnLabels, pc' = Set(pc, v, "undo"),
         UNCHANGED <<plan, fwd>>
  PROVE  FwdInv'
<1>1. pc'[v] = "undo" /\ \A w \in Slots \ {v} : pc'[w] = pc[w]
  BY DEF PlanInv, Set
<1>2. FwdOk(pc[v], plan[v], fwd[v])
  BY DEF FwdInv
<1>3. FwdOk("undo", plan[v], fwd[v])
  BY <1>2 DEF FwdOk, MappingLabels, SpawnLabels
<1> QED
  BY <1>1, <1>3, FwdKeeps

\* The mappings of every slot fit its label.
LEMMA FwdStep == PlanInv /\ FwdInv /\ [Next]_vars => FwdInv'
<1> SUFFICES ASSUME PlanInv, FwdInv, [Next]_vars PROVE FwdInv'
  OBVIOUS
<1>0. /\ pc \in [Slots -> Labels] /\ \A v \in Slots : FwdOk(pc[v], plan[v], fwd[v])
      /\ "ip" \in Calls
  BY DEF PlanInv, FwdInv, Calls
<1>1. ASSUME NEW v \in Slots, Begin(v) PROVE FwdInv'
  <2>1. pc[v] = "off" /\ pc' = Set(pc, v, "uid") /\ fwd' = fwd /\ plan' = plan
    BY <1>1 DEF Begin, At, Goto
  <2> QED
    BY <2>1, FwdEarly DEF MappingLabels
<1>2. ASSUME NEW v \in Slots, CheckoutUID(v) PROVE FwdInv'
  <2>1. pc[v] = "uid" /\ pc' = Set(pc, v, "warm") /\ fwd' = fwd /\ plan' = Set(plan, v, <<"uid">> \o plan[v])
    BY <1>2 DEF CheckoutUID, At, Goto, Push
  <2> QED
    BY <2>1, FwdEarly DEF MappingLabels
<1>3. ASSUME NEW v \in Slots, WarmImage(v) PROVE FwdInv'
  <2>1. pc[v] = "warm" /\ pc' = Set(pc, v, "snapshot") /\ fwd' = fwd /\ plan' = plan
    BY <1>3 DEF WarmImage, At, Goto
  <2> QED
    BY <2>1, FwdEarly DEF MappingLabels
<1>4. ASSUME NEW v \in Slots, Snapshot(v) PROVE FwdInv'
  <2>1. pc[v] = "snapshot" /\ pc' = Set(pc, v, "inject") /\ fwd' = fwd /\ plan' = Set(plan, v, <<"snapshot_ctx">> \o plan[v])
    BY <1>4 DEF Snapshot, At, Goto, Push
  <2> QED
    BY <2>1, FwdEarly DEF MappingLabels
<1>5. ASSUME NEW v \in Slots, InjectGuestAgent(v) PROVE FwdInv'
  <2>1. pc[v] = "inject" /\ pc' = Set(pc, v, "mkdir") /\ fwd' = fwd /\ plan' = plan
    BY <1>5 DEF InjectGuestAgent, At, Goto
  <2> QED
    BY <2>1, FwdEarly DEF MappingLabels
<1>6. ASSUME NEW v \in Slots, MakeChroot(v) PROVE FwdInv'
  <2>1. pc[v] = "mkdir" /\ pc' = Set(pc, v, "link") /\ fwd' = fwd /\ (plan' = plan \/ plan' = Set(plan, v, <<"chroot">> \o plan[v]))
    BY <1>6 DEF MakeChroot, At, Goto, Push
  <2> QED
    BY <2>1, FwdEarly DEF MappingLabels
<1>7. ASSUME NEW v \in Slots, LinkKernel(v) PROVE FwdInv'
  <2>1. pc[v] = "link" /\ pc' = Set(pc, v, "ip") /\ fwd' = fwd /\ plan' = plan
    BY <1>7 DEF LinkKernel, At, Goto
  <2> QED
    BY <2>1, FwdEarly DEF MappingLabels
<1>8. ASSUME NEW v \in Slots, AcquireIP(v) PROVE FwdInv'
  <2>1. pc[v] = "ip" /\ pc' = Set(pc, v, "tap") /\ fwd' = fwd /\ plan' = Set(plan, v, <<"ip">> \o plan[v])
    BY <1>8 DEF AcquireIP, At, Goto, Push
  <2> QED
    BY <2>1, FwdEarly DEF MappingLabels
<1>9. ASSUME NEW v \in Slots, CreateTap(v) PROVE FwdInv'
  <2>1. pc[v] = "tap" /\ pc' = Set(pc, v, "start") /\ fwd' = fwd /\ plan' = Set(plan, v, <<"tap">> \o plan[v])
    BY <1>9 DEF CreateTap, At, Goto, Push
  <2> QED
    BY <2>1, FwdEarly DEF MappingLabels
<1>10. ASSUME NEW v \in Slots, Start(v) PROVE FwdInv'
  <2>1. pc[v] = "start" /\ pc' = Set(pc, v, "dial") /\ fwd' = fwd /\ plan' = Set(plan, v, <<"kill", "wait">> \o plan[v])
    BY <1>10 DEF Start, At, Goto, Push
  <2> QED
    BY <2>1, FwdEarly DEF MappingLabels
<1>11. ASSUME NEW v \in Slots, Dial(v) PROVE FwdInv'
  <2>1. PICK next : pc[v] = "dial" /\ pc' = Set(pc, v, next) /\ fwd' = fwd /\ plan' = plan
    BY <1>11 DEF Dial, At, Goto
  <2> QED
    BY <2>1, FwdEarly DEF MappingLabels
<1>13. ASSUME NEW v \in Slots, SnapshotFails(v) PROVE FwdInv'
  BY <1>13, FwdFails DEF SnapshotFails, At, Goto, SpawnLabels
<1>14. ASSUME NEW v \in Slots, LinkFails(v) PROVE FwdInv'
  BY <1>14, FwdFails DEF LinkFails, At, Goto, SpawnLabels
<1>15. ASSUME NEW v \in Slots, CreateTapFails(v) PROVE FwdInv'
  BY <1>15, FwdFails DEF CreateTapFails, At, Goto, SpawnLabels
<1>16. ASSUME NEW v \in Slots, AddMappingFails(v) PROVE FwdInv'
  BY <1>16, FwdFails DEF AddMappingFails, At, Goto, SpawnLabels
<1>17. ASSUME NEW v \in Slots, Fail(v) PROVE FwdInv'
  BY <1>17, FwdFails DEF Fail, Goto
<1>18. ASSUME NEW v \in Slots, AllocatePort(v) PROVE FwdInv'
  <2>1. PICK k \in Mappings, p \in Ports :
          fwd' = Set(fwd, v, fwd[v] \cup {<<"port", k, p>>})
    BY <1>18 DEF AllocatePort
  <2>2. pc[v] = "port" /\ pc' = Set(pc, v, "dnat") /\ plan' = plan
    BY <1>18 DEF AllocatePort, At, Goto
  <2>3. pc'[v] = "dnat" /\ \A w \in Slots \ {v} : pc'[w] = pc[w]
    BY <1>0, <2>2 DEF Set
  <2>4. Has(plan[v], "ip")
    <3>1. "port" \in Due("ip")
      BY DEF Due
    <3> QED
      BY <1>0, <2>2, <3>1, StackIs
  <2>5. <<"port", k, p>> \in MappingCalls
    BY DEF MappingCalls
  <2>6. FwdOk("port", plan[v], fwd[v])
    BY <1>0, <2>2
  <2>7. FwdOk("dnat", plan[v], fwd[v] \cup {<<"port", k, p>>})
    <3> DEFINE f == fwd[v] \cup {<<"port", k, p>>}
    <3>1. f \in SUBSET MappingCalls /\ "dnat" \in MappingLabels
      BY <2>5, <2>6 DEF FwdOk, MappingLabels
    <3>2. ASSUME NEW l \in Mappings, NEW q \in Ports, Missing(f, l, q) PROVE l = k /\ q = p
      BY <2>6, <3>2 DEF FwdOk, Missing
    <3> QED
      BY <2>4, <3>1, <3>2 DEF FwdOk
  <2> QED
    BY <2>1, <2>2, <2>3, <2>7, FwdMoves
<1>19. ASSUME NEW v \in Slots, AddMapping(v) PROVE FwdInv'
  <2>1. PICK k \in Mappings, p \in Ports :
          /\ Missing(fwd[v], k, p) /\ fwd' = Set(fwd, v, fwd[v] \cup {<<"dnat", k, p>>})
          /\ \E next \in {"run", "port"} : pc' = Set(pc, v, next)
    BY <1>19 DEF AddMapping, Missing, AfterMapping, Goto
  <2>2. PICK next \in {"run", "port"} : pc' = Set(pc, v, next)
    BY <2>1
  <2>3. pc[v] = "dnat" /\ plan' = plan
    BY <1>19 DEF AddMapping, At
  <2>4. pc'[v] = next /\ \A w \in Slots \ {v} : pc'[w] = pc[w]
    BY <1>0, <2>2 DEF Set
  <2>5. FwdOk("dnat", plan[v], fwd[v])
    BY <1>0, <2>3
  <2>6. FwdOk(next, plan[v], fwd[v] \cup {<<"dnat", k, p>>})
    <3> DEFINE f == fwd[v] \cup {<<"dnat", k, p>>}
    <3>1. <<"dnat", k, p>> \in MappingCalls /\ next \in MappingLabels /\ next # "dnat"
      BY DEF MappingCalls, MappingLabels
    <3>2. Has(plan[v], "ip")
      BY <2>1, <2>5 DEF FwdOk, Missing
    <3>3. f \in SUBSET MappingCalls
      BY <2>5, <3>1 DEF FwdOk
    <3>4. ASSUME NEW l \in Mappings, NEW q \in Ports, Missing(f, l, q) PROVE FALSE
      <4>1. Missing(fwd[v], l, q)
        BY <3>4 DEF Missing
      <4>2. l = k /\ q = p
        BY <2>1, <2>5, <4>1 DEF FwdOk
      <4> QED
        BY <3>4, <4>2 DEF Missing
    <3> QED
      BY <3>1, <3>2, <3>3, <3>4 DEF FwdOk
  <2> QED
    BY <2>1, <2>3, <2>4, <2>6, FwdMoves
<1>20. ASSUME NEW v \in Slots, Close(v) PROVE FwdInv'
  <2>1. pc[v] = "run" /\ pc'[v] = "clean" /\ fwd' = fwd
        /\ \A w \in Slots \ {v} : pc'[w] = pc[w] /\ plan'[w] = plan[w]
    BY <1>0, <1>20 DEF Close, At, Goto, Set, PlanInv
  <2>2. FwdOk("clean", plan'[v], fwd[v])
    BY <1>0, <2>1 DEF FwdOk, MappingLabels
  <2> QED
    BY <2>1, <2>2, FwdKeeps
<1>21. ASSUME NEW v \in Slots, Kill(v) PROVE FwdInv'
  BY <1>21, FwdTurn DEF Kill
<1>22. ASSUME NEW v \in Slots, Await(v) PROVE FwdInv'
  BY <1>22, FwdTurn DEF Await
<1>23. ASSUME NEW v \in Slots, RemoveChroot(v) PROVE FwdInv'
  BY <1>23, FwdTurn DEF RemoveChroot
<1>24. ASSUME NEW v \in Slots, DeleteTap(v) PROVE FwdInv'
  BY <1>24, FwdTurn DEF DeleteTap
<1>25. ASSUME NEW v \in Slots, ReleaseIP(v) PROVE FwdInv'
  BY <1>25, FwdTurn DEF ReleaseIP
<1>26. ASSUME NEW v \in Slots, Teardown(v) PROVE FwdInv'
  BY <1>26, FwdTurn DEF Teardown
<1>27. ASSUME NEW v \in Slots, TeardownInRequest(v) PROVE FwdInv'
  BY <1>27, FwdTurn DEF TeardownInRequest
<1>28. ASSUME NEW v \in Slots, ReturnUID(v) PROVE FwdInv'
  BY <1>28, FwdTurn DEF ReturnUID
<1>29. ASSUME NEW v \in Slots, RemoveMapping(v) PROVE FwdInv'
  BY <1>29, FwdShrinks DEF RemoveMapping
<1>30. ASSUME NEW v \in Slots, ReleasePort(v) PROVE FwdInv'
  BY <1>30, FwdShrinks DEF ReleasePort
<1>31. ASSUME NEW v \in Slots, Finish(v) PROVE FwdInv'
  <2>1. /\ fwd[v] = {} /\ fwd' = fwd /\ plan' = plan
        /\ \A w \in Slots \ {v} : pc'[w] = pc[w]
    BY <1>0, <1>31 DEF Finish, Goto, Set
  <2> QED
    BY <2>1, NoMappings, FwdKeeps
<1>32. ASSUME NEW v \in Slots, Exit(v) PROVE FwdInv'
  BY <1>32 DEF Exit, FwdInv
<1>33. ASSUME UNCHANGED vars PROVE FwdInv'
  BY <1>33 DEF vars, slotVars, FwdInv
<1> QED
  BY <1>1, <1>2, <1>3, <1>4, <1>5, <1>6, <1>7, <1>8, <1>9, <1>10, <1>11, <1>13, <1>14,
     <1>15, <1>16, <1>17, <1>18, <1>19, <1>20, <1>21, <1>22, <1>23, <1>24, <1>25, <1>26, <1>27,
     <1>28, <1>29, <1>30, <1>31, <1>32, <1>33
  DEF Next, SpawnStep, CleanStep

\* A port that is booked has a slot that will release it.  A mapping that is to be
\* removed has its rule; and, as long as iptables -D works, each rule is one of those, and
\* leads to the address that its slot was given.
PortInv ==
    /\ inUse \in [Ports -> IDs \cup {NoOne}]
    /\ rules \in SUBSET (Ports \X Slots \X Mappings \X IPs!Guests)
    /\ \A p \in Ports : inUse[p] # NoOne =>
        \E v \in Slots, k \in Mappings : <<"port", k, p>> \in fwd[v]
    /\ \A v \in Slots, k \in Mappings, p \in Ports : <<"dnat", k, p>> \in fwd[v] => Rule(v, k, p) \in rules
    /\ DeleteWorks = TRUE => \A r \in rules : <<"dnat", r[3], r[1]>> \in fwd[r[2]] /\ r[4] = ip[r[2]]

\* A step that leaves the ports, the rules, the mappings and the addresses that these use.
LEMMA PortSame ==
  ASSUME PortInv, inUse' = inUse, rules' = rules, fwd' = fwd,
         \A w \in Slots : ip'[w] = ip[w] \/ fwd[w] = {}
  PROVE  PortInv'
<1>1. \A r \in rules : r[2] \in Slots
  BY DEF PortInv
<1>2. \A p \in Ports : inUse'[p] # NoOne => \E v \in Slots, k \in Mappings : <<"port", k, p>> \in fwd'[v]
  BY DEF PortInv
<1>3. ASSUME NEW v \in Slots, NEW k \in Mappings, NEW p \in Ports, <<"dnat", k, p>> \in fwd[v]
      PROVE  <<p, v, k, ip'[v]>> \in rules
  BY <1>3 DEF PortInv, Rule
<1>4. DeleteWorks = TRUE => \A r \in rules' : <<"dnat", r[3], r[1]>> \in fwd'[r[2]] /\ r[4] = ip'[r[2]]
  BY <1>1 DEF PortInv
<1> QED
  BY <1>2, <1>3, <1>4 DEF PortInv, Rule

\* Ports and rules are neither lost nor left behind.
LEMMA PortStep == PlanInv /\ AddressInv /\ FwdInv /\ PortInv /\ [Next]_vars => PortInv'
<1> SUFFICES ASSUME PlanInv, AddressInv, FwdInv, PortInv, [Next]_vars PROVE PortInv'
  OBVIOUS
<1>0. /\ ip \in [Slots -> IPs!Guests \cup {0}] /\ fwd \in [Slots -> SUBSET MappingCalls]
      /\ \A v \in Slots : FwdOk(pc[v], plan[v], fwd[v])
      /\ inUse \in [Ports -> IDs \cup {NoOne}]
      /\ rules \in SUBSET (Ports \X Slots \X Mappings \X IPs!Guests)
  BY DEF AddressInv, FwdInv, PortInv
<1>1. CASE UNCHANGED <<res, plan>>
  BY <1>1, PortSame DEF res
<1>2. ASSUME UNCHANGED res PROVE PortInv'
  BY <1>2, PortSame DEF res
<1>3. ASSUME NEW v \in Slots, CheckoutUID(v) PROVE PortInv'
  BY <1>3, PortSame DEF CheckoutUID, netVars
<1>4. ASSUME NEW v \in Slots, AcquireIP(v) PROVE PortInv'
  <2>1. UNCHANGED <<inUse, rules, fwd>> /\ pc[v] = "ip" /\ \A w \in Slots \ {v} : ip'[w] = ip[w]
    BY <1>0, <1>4 DEF AcquireIP, netVars, At, Set
  <2>2. fwd[v] = {}
    BY <1>0, <2>1 DEF FwdOk, MappingLabels
  <2> QED
    BY <2>1, <2>2, PortSame
<1>5. ASSUME NEW v \in Slots, AllocatePort(v) PROVE PortInv'
  <2>1. PICK k \in Mappings, p \in Ports :
          /\ fwd' = Set(fwd, v, fwd[v] \cup {<<"port", k, p>>})
          /\ inUse' = [inUse EXCEPT ![p] = id(v)] \/ inUse' = inUse
    BY <1>5 DEF AllocatePort, PM!AllocateEphemeral, PM!AllocateExplicit
  <2>2. UNCHANGED <<ip, rules>>
    BY <1>5 DEF AllocatePort
  <2>3. /\ fwd'[v] = fwd[v] \cup {<<"port", k, p>>}
        /\ \A w \in Slots \ {v} : fwd'[w] = fwd[w]
    BY <1>0, <2>1 DEF Set
  <2>4. inUse' \in [Ports -> IDs \cup {NoOne}] /\ \A q \in Ports \ {p} : inUse'[q] = inUse[q]
    BY <1>0, <2>1, NameType
  <2>5. \A q \in Ports : inUse'[q] # NoOne => \E w \in Slots, l \in Mappings : <<"port", l, q>> \in fwd'[w]
    BY <2>3, <2>4 DEF PortInv
  <2>6. ASSUME NEW w \in Slots, NEW l \in Mappings, NEW q \in Ports, <<"dnat", l, q>> \in fwd'[w]
        PROVE  <<q, w, l, ip'[w]>> \in rules'
    <3>1. <<"dnat", l, q>> \in fwd[w]
      BY <2>3, <2>6
    <3> QED
      BY <2>2, <3>1 DEF PortInv, Rule
  <2>7. ASSUME DeleteWorks = TRUE, NEW r \in rules'
        PROVE  <<"dnat", r[3], r[1]>> \in fwd'[r[2]] /\ r[4] = ip'[r[2]]
    <3>1. r \in rules /\ r[2] \in Slots
      BY <1>0, <2>2, <2>7
    <3>2. <<"dnat", r[3], r[1]>> \in fwd[r[2]] /\ r[4] = ip[r[2]]
      BY <2>7, <3>1 DEF PortInv
    <3> QED
      BY <2>2, <2>3, <3>1, <3>2
  <2> QED
    BY <1>0, <2>2, <2>4, <2>5, <2>6, <2>7 DEF PortInv, Rule
<1>6. ASSUME NEW v \in Slots, AddMapping(v) PROVE PortInv'
  <2>1. PICK k \in Mappings, p \in Ports :
          /\ <<"port", k, p>> \in fwd[v]
          /\ rules' = rules \cup {<<p, v, k, ip[v]>>}
          /\ fwd' = Set(fwd, v, fwd[v] \cup {<<"dnat", k, p>>})
    BY <1>6 DEF AddMapping, Rule
  <2>2. UNCHANGED <<ip, inUse>> /\ pc[v] = "dnat"
    BY <1>6 DEF AddMapping, At
  <2>3. ip[v] \in IPs!Guests
    <3>1. Has(plan[v], "ip")
      BY <1>0, <2>1, <2>2 DEF FwdOk
    <3> QED
      BY <3>1 DEF AddressInv
  <2>4. /\ fwd'[v] = fwd[v] \cup {<<"dnat", k, p>>}
        /\ \A w \in Slots \ {v} : fwd'[w] = fwd[w]
    BY <1>0, <2>1 DEF Set
  <2>5. rules' \in SUBSET (Ports \X Slots \X Mappings \X IPs!Guests)
    BY <1>0, <2>1, <2>3
  <2>6. \A q \in Ports : inUse'[q] # NoOne => \E w \in Slots, l \in Mappings : <<"port", l, q>> \in fwd'[w]
    BY <2>2, <2>4 DEF PortInv
  <2>7. ASSUME NEW w \in Slots, NEW l \in Mappings, NEW q \in Ports, <<"dnat", l, q>> \in fwd'[w]
        PROVE  <<q, w, l, ip'[w]>> \in rules'
    <3>1. <<"dnat", l, q>> \in fwd[w] \/ (w = v /\ l = k /\ q = p)
      BY <2>4, <2>7
    <3> QED
      BY <2>1, <2>2, <3>1 DEF PortInv, Rule
  <2>8. ASSUME DeleteWorks = TRUE, NEW r \in rules'
        PROVE  <<"dnat", r[3], r[1]>> \in fwd'[r[2]] /\ r[4] = ip'[r[2]]
    <3>1. CASE r \in rules
      <4>1. r[2] \in Slots /\ <<"dnat", r[3], r[1]>> \in fwd[r[2]] /\ r[4] = ip[r[2]]
        BY <1>0, <2>8, <3>1 DEF PortInv
      <4> QED
        BY <2>2, <2>4, <4>1
    <3>2. CASE r = <<p, v, k, ip[v]>>
      BY <2>2, <2>4, <3>2
    <3> QED
      BY <2>1, <3>1, <3>2
  <2> QED
    BY <1>0, <2>2, <2>5, <2>6, <2>7, <2>8 DEF PortInv, Rule
<1>7. ASSUME NEW v \in Slots, AddMappingFails(v) PROVE PortInv'
  <2>1. UNCHANGED <<ip, inUse, fwd>> /\ pc[v] = "dnat"
    BY <1>7 DEF AddMappingFails, At
  <2>2. CASE rules' = rules
    BY <2>1, <2>2, PortSame
  <2>3. CASE rules' # rules
    <3>1. PICK k \in Mappings, p \in Ports :
            <<"port", k, p>> \in fwd[v] /\ rules' = rules \cup {<<p, v, k, ip[v]>>}
      BY <1>7, <2>3 DEF AddMappingFails, Rule
    <3>2. DeleteWorks # TRUE
      BY <1>7, <2>3 DEF AddMappingFails
    <3>3. ip[v] \in IPs!Guests
      <4>1. Has(plan[v], "ip")
        BY <1>0, <2>1, <3>1 DEF FwdOk
      <4> QED
        BY <4>1 DEF AddressInv
    <3>4. rules' \in SUBSET (Ports \X Slots \X Mappings \X IPs!Guests)
      BY <1>0, <3>1, <3>3
    <3> QED
      BY <2>1, <3>1, <3>2, <3>4 DEF PortInv, Rule
  <2> QED
    BY <2>2, <2>3
<1>8. ASSUME NEW v \in Slots, ReleaseIP(v) PROVE PortInv'
  BY <1>8, PortSame DEF ReleaseIP, Turn, netVars
<1>9. ASSUME NEW v \in Slots, ReturnUID(v) PROVE PortInv'
  BY <1>9, PortSame DEF ReturnUID, Turn, netVars
<1>10. ASSUME NEW v \in Slots, RemoveMapping(v) PROVE PortInv'
  <2>1. PICK k \in Mappings, p \in Ports :
          /\ <<"dnat", k, p>> \in fwd[v] /\ fwd' = Set(fwd, v, fwd[v] \ {<<"dnat", k, p>>})
          /\ rules' = rules \ {<<p, v, k, ip[v]>>} \/ (~DeleteWorks /\ rules' = rules)
    BY <1>10 DEF RemoveMapping, MappingTurn, Rule
  <2>2. UNCHANGED <<ip, inUse>>
    BY <1>10 DEF RemoveMapping, MappingTurn
  <2>3. /\ fwd'[v] = fwd[v] \ {<<"dnat", k, p>>}
        /\ \A w \in Slots \ {v} : fwd'[w] = fwd[w]
    BY <1>0, <2>1 DEF Set
  <2>4. \A q \in Ports : inUse'[q] # NoOne => \E w \in Slots, l \in Mappings : <<"port", l, q>> \in fwd'[w]
    BY <2>2, <2>3 DEF PortInv
  <2>5. ASSUME NEW w \in Slots, NEW l \in Mappings, NEW q \in Ports, <<"dnat", l, q>> \in fwd'[w]
        PROVE  <<q, w, l, ip'[w]>> \in rules'
    <3>1. <<"dnat", l, q>> \in fwd[w] /\ ~(w = v /\ l = k /\ q = p)
      BY <2>3, <2>5
    <3>2. <<q, w, l, ip[w]>> \in rules
      BY <3>1 DEF PortInv, Rule
    <3> QED
      BY <2>1, <2>2, <3>1, <3>2
  <2>6. ASSUME DeleteWorks = TRUE, NEW r \in rules'
        PROVE  <<"dnat", r[3], r[1]>> \in fwd'[r[2]] /\ r[4] = ip'[r[2]]
    <3>1. r \in rules /\ r # <<p, v, k, ip[v]>>
      BY <2>1, <2>6
    <3>2. r \in Ports \X Slots \X Mappings \X IPs!Guests
      BY <1>0, <3>1
    <3>3. r = <<r[1], r[2], r[3], r[4]>> /\ r[2] \in Slots
      BY <3>2
    <3>4. <<"dnat", r[3], r[1]>> \in fwd[r[2]] /\ r[4] = ip[r[2]]
      BY <2>6, <3>1 DEF PortInv
    <3>5. <<"dnat", r[3], r[1]>> # <<"dnat", k, p>> \/ r[2] # v
      BY <3>1, <3>3, <3>4
    <3> QED
      BY <2>2, <2>3, <3>3, <3>4, <3>5
  <2> QED
    BY <1>0, <2>1, <2>2, <2>4, <2>5, <2>6 DEF PortInv, Rule
<1>11. ASSUME NEW v \in Slots, ReleasePort(v) PROVE PortInv'
  <2>1. PICK k \in Mappings, p \in Ports :
          /\ fwd' = Set(fwd, v, fwd[v] \ {<<"port", k, p>>})
          /\ inUse' = [inUse EXCEPT ![p] = NoOne]
    BY <1>11 DEF ReleasePort, MappingTurn, PM!Release
  <2>2. UNCHANGED <<ip, rules>>
    BY <1>11 DEF ReleasePort, MappingTurn
  <2>3. /\ fwd'[v] = fwd[v] \ {<<"port", k, p>>}
        /\ \A w \in Slots \ {v} : fwd'[w] = fwd[w]
    BY <1>0, <2>1 DEF Set
  <2>4. /\ inUse' \in [Ports -> IDs \cup {NoOne}] /\ inUse'[p] = NoOne
        /\ \A q \in Ports \ {p} : inUse'[q] = inUse[q]
    BY <1>0, <2>1
  <2>5. ASSUME NEW q \in Ports, inUse'[q] # NoOne
        PROVE  \E w \in Slots, l \in Mappings : <<"port", l, q>> \in fwd'[w]
    <3>1. q # p /\ inUse[q] # NoOne
      BY <2>4, <2>5
    <3>2. PICK w \in Slots, l \in Mappings : <<"port", l, q>> \in fwd[w]
      BY <3>1 DEF PortInv
    <3>3. <<"port", l, q>> \in fwd'[w]
      BY <2>3, <3>1, <3>2
    <3> QED
      BY <3>3
  <2>6. ASSUME NEW w \in Slots, NEW l \in Mappings, NEW q \in Ports, <<"dnat", l, q>> \in fwd'[w]
        PROVE  <<q, w, l, ip'[w]>> \in rules'
    BY <2>2, <2>3, <2>6 DEF PortInv, Rule
  <2>7. ASSUME DeleteWorks = TRUE, NEW r \in rules'
        PROVE  <<"dnat", r[3], r[1]>> \in fwd'[r[2]] /\ r[4] = ip'[r[2]]
    <3>1. r \in rules /\ r[2] \in Slots
      BY <1>0, <2>2, <2>7
    <3>2. <<"dnat", r[3], r[1]>> \in fwd[r[2]] /\ r[4] = ip[r[2]]
      BY <2>7, <3>1 DEF PortInv
    <3> QED
      BY <2>2, <2>3, <3>1, <3>2
  <2> QED
    BY <1>0, <2>2, <2>4, <2>5, <2>6, <2>7 DEF PortInv, Rule
<1>12. ASSUME NEW v \in Slots, Close(v) PROVE PortInv'
  BY <1>12, PortSame DEF Close, KeepAlloc, netVars
<1>13. ASSUME NEW v \in Slots, Finish(v) PROVE PortInv'
  <2>1. UNCHANGED <<inUse, rules, fwd>> /\ fwd[v] = {} /\ \A w \in Slots \ {v} : ip'[w] = ip[w]
    BY <1>0, <1>13 DEF Finish, KeepAlloc, netVars, Set
  <2> QED
    BY <2>1, PortSame
<1> QED
  BY <1>1, <1>2, <1>3, <1>4, <1>5, <1>6, <1>7, <1>8, <1>9, <1>10, <1>11, <1>12, <1>13, Effects
  DEF Effect

\* There are no ports and no rules at first.
LEMMA PortInit == Init => FwdInv /\ PortInv
<1> SUFFICES ASSUME Init PROVE FwdInv /\ PortInv
  OBVIOUS
<1>1. fwd = [v \in Slots |-> {}] /\ rules = {}
  BY DEF Init
<1>2. inUse \in [Ports -> IDs \cup {NoOne}] /\ \A p \in Ports : inUse[p] = NoOne
  BY DEF Init, PM!Init
<1>3. FwdInv
  BY <1>1, NoMappings DEF FwdInv
<1> QED
  BY <1>1, <1>2, <1>3 DEF PortInv

-----------------------------------------------------------------------------
(* Chroots: one directory per session, whoever works for it *)

Passive == {"off", "clean"}
Linked == {"ip", "tap", "start", "dial", "port", "dnat", "run"}

\* Of the slots of a session one at most spawns, rolls back or is in service.
OneActive == \A v, w \in Slots : id(v) = id(w) /\ pc[v] \notin Passive /\ pc[w] \notin Passive => v = w

\* A chroot that exists has exactly one slot that will remove it.
ChrootOwned ==
    /\ \A i \in IDs : chroot[i] # "absent" => \E v \in Slots : id(v) = i /\ Has(plan[v], "chroot")
    /\ \A v \in Slots : Has(plan[v], "chroot") => chroot[id(v)] # "absent"
    /\ \A v, w \in Slots : id(v) = id(w) /\ Has(plan[v], "chroot") /\ Has(plan[w], "chroot") => v = w

\* It is complete if that slot is past the link or closes.
ChrootLinked ==
    \A v \in Slots :
        /\ pc[v] \in Linked => Has(plan[v], "chroot") /\ chroot[id(v)] = "linked"
        /\ pc[v] = "clean" /\ Has(plan[v], "chroot") => chroot[id(v)] = "linked"

ChrootInv == OneActive /\ ChrootOwned /\ ChrootLinked

\* A step that makes and removes no chroot.
LEMMA ChrootSame ==
  ASSUME ChrootInv, chroot' = chroot,
         \A w \in Slots : /\ Has(plan'[w], "chroot") <=> Has(plan[w], "chroot")
                          /\ pc'[w] \notin Passive => pc[w] \notin Passive
                          /\ pc'[w] \in Linked => pc[w] \in Linked
                          /\ pc'[w] = "clean" => pc[w] = "clean" \/ pc[w] \in Linked
  PROVE  ChrootInv'
<1>1. OneActive'
  BY DEF ChrootInv, OneActive, id
<1>2. ChrootOwned'
  BY DEF ChrootInv, ChrootOwned, id
<1>3. ChrootLinked'
  BY DEF ChrootInv, ChrootLinked, id
<1> QED
  BY <1>1, <1>2, <1>3 DEF ChrootInv

\* A Spawn that finds a chroot without a link has made it itself: the chroot of an older
\* worker that still has to remove it has one.
LEMMA MadeBy ==
  ASSUME PlanInv, ChrootInv, NEW v \in Slots, pc[v] = "link", chroot[id(v)] = "made"
  PROVE  Has(plan[v], "chroot")
<1>1. PICK w \in Slots : id(w) = id(v) /\ Has(plan[w], "chroot")
  BY NameType DEF ChrootInv, ChrootOwned
<1>2. pc[w] # "off"
  BY <1>1, OffOwesNothing DEF Calls
<1>3. pc[w] # "clean"
  BY <1>1 DEF ChrootInv, ChrootLinked
<1>4. w = v
  BY <1>1, <1>2, <1>3 DEF ChrootInv, OneActive, Passive
<1> QED
  BY <1>1, <1>4

\* Every step keeps the three.
LEMMA ChrootStep == PlanInv /\ HostInv /\ ChrootInv /\ [Next]_vars => ChrootInv'
<1> SUFFICES ASSUME PlanInv, HostInv, ChrootInv, [Next]_vars PROVE ChrootInv'
  OBVIOUS
<1>0. /\ pc \in [Slots -> Labels] /\ chroot \in [IDs -> {"absent", "made", "linked"}]
      /\ \A v \in Slots : id(v) \in IDs
      /\ "chroot" \in Calls /\ "uid" \in Calls /\ "snapshot_ctx" \in Calls /\ "ip" \in Calls
      /\ "tap" \in Calls
  BY NameType DEF PlanInv, HostInv, HostType, Calls
<1>1. ASSUME NEW v \in Slots, Begin(v) PROVE ChrootInv'
  <2>1. /\ pc'[v] = "uid" /\ pc[v] = "off" /\ chroot' = chroot /\ plan' = plan
        /\ \A w \in Slots \ {v} : pc'[w] = pc[w] /\ (id(w) = id(v) => pc[w] \in Passive)
    BY <1>0, <1>1 DEF Begin, At, Goto, Set, idVars, Passive
  <2>2. OneActive'
    BY <2>1 DEF ChrootInv, OneActive, Passive, id
  <2>3. ChrootOwned'
    BY <2>1 DEF ChrootInv, ChrootOwned, id
  <2>4. ChrootLinked'
    BY <2>1 DEF ChrootInv, ChrootLinked, Linked, id
  <2> QED
    BY <2>2, <2>3, <2>4 DEF ChrootInv
<1>2. ASSUME NEW v \in Slots, CheckoutUID(v) PROVE ChrootInv'
  <2>1. pc[v] = "uid" /\ pc' = Set(pc, v, "warm") /\ chroot' = chroot
    BY <1>2 DEF CheckoutUID, At, Goto, idVars
  <2>2. Pushed(v, {"uid"})
    BY <1>2, <1>0, PushPushes, StartPushes DEF CheckoutUID
  <2> QED
    BY <1>0, <2>1, <2>2, ChrootSame DEF Set, Pushed, Passive, Linked
<1>3. ASSUME NEW v \in Slots, WarmImage(v) PROVE ChrootInv'
  <2>1. pc[v] = "warm" /\ pc' = Set(pc, v, "snapshot") /\ chroot' = chroot
    BY <1>3 DEF WarmImage, At, Goto, idVars
  <2>2. plan' = plan
    BY <1>3 DEF WarmImage
  <2> QED
    BY <1>0, <2>1, <2>2, ChrootSame DEF Set, Passive, Linked
<1>4. ASSUME NEW v \in Slots, Snapshot(v) PROVE ChrootInv'
  <2>1. pc[v] = "snapshot" /\ pc' = Set(pc, v, "inject") /\ chroot' = chroot
    BY <1>4 DEF Snapshot, At, Goto, idVars
  <2>2. Pushed(v, {"snapshot_ctx"})
    BY <1>4, <1>0, PushPushes, StartPushes DEF Snapshot
  <2> QED
    BY <1>0, <2>1, <2>2, ChrootSame DEF Set, Pushed, Passive, Linked
<1>5. ASSUME NEW v \in Slots, InjectGuestAgent(v) PROVE ChrootInv'
  <2>1. pc[v] = "inject" /\ pc' = Set(pc, v, "mkdir") /\ chroot' = chroot
    BY <1>5 DEF InjectGuestAgent, At, Goto, idVars
  <2>2. plan' = plan
    BY <1>5 DEF InjectGuestAgent
  <2> QED
    BY <1>0, <2>1, <2>2, ChrootSame DEF Set, Passive, Linked
<1>6. ASSUME NEW v \in Slots, AcquireIP(v) PROVE ChrootInv'
  <2>1. pc[v] = "ip" /\ pc' = Set(pc, v, "tap") /\ chroot' = chroot
    BY <1>6 DEF AcquireIP, At, Goto, idVars
  <2>2. Pushed(v, {"ip"})
    BY <1>6, <1>0, PushPushes, StartPushes DEF AcquireIP
  <2> QED
    BY <1>0, <2>1, <2>2, ChrootSame DEF Set, Pushed, Passive, Linked
<1>7. ASSUME NEW v \in Slots, CreateTap(v) PROVE ChrootInv'
  <2>1. pc[v] = "tap" /\ pc' = Set(pc, v, "start") /\ chroot' = chroot
    BY <1>7 DEF CreateTap, At, Goto, idVars
  <2>2. Pushed(v, {"tap"})
    BY <1>7, <1>0, PushPushes, StartPushes DEF CreateTap
  <2> QED
    BY <1>0, <2>1, <2>2, ChrootSame DEF Set, Pushed, Passive, Linked
<1>8. ASSUME NEW v \in Slots, Start(v) PROVE ChrootInv'
  <2>1. pc[v] = "start" /\ pc' = Set(pc, v, "dial") /\ chroot' = chroot
    BY <1>8 DEF Start, At, Goto, idVars
  <2>2. Pushed(v, {"kill", "wait"})
    BY <1>8, <1>0, PushPushes, StartPushes DEF Start
  <2> QED
    BY <1>0, <2>1, <2>2, ChrootSame DEF Set, Pushed, Passive, Linked
<1>9. ASSUME NEW v \in Slots, AllocatePort(v) PROVE ChrootInv'
  <2>1. pc[v] = "port" /\ pc' = Set(pc, v, "dnat") /\ chroot' = chroot
    BY <1>9 DEF AllocatePort, At, Goto, idVars
  <2>2. plan' = plan
    BY <1>9 DEF AllocatePort
  <2> QED
    BY <1>0, <2>1, <2>2, ChrootSame DEF Set, Passive, Linked
<1>10. ASSUME NEW v \in Slots, Dial(v) PROVE ChrootInv'
  <2>1. PICK next \in {"run", "port"} : pc[v] = "dial" /\ pc' = Set(pc, v, next) /\ UNCHANGED <<plan, chroot>>
    BY <1>10 DEF Dial, At, Goto, AfterMapping, idVars
  <2> QED
    BY <1>0, <2>1, ChrootSame DEF Set, Passive, Linked
<1>11. ASSUME NEW v \in Slots, AddMapping(v) PROVE ChrootInv'
  <2>1. PICK next \in {"run", "port"} : pc[v] = "dnat" /\ pc' = Set(pc, v, next) /\ UNCHANGED <<plan, chroot>>
    BY <1>11 DEF AddMapping, At, Goto, AfterMapping, idVars
  <2> QED
    BY <1>0, <2>1, ChrootSame DEF Set, Passive, Linked
<1>12. ASSUME NEW v \in Slots, SnapshotFails(v) PROVE ChrootInv'
  <2>1. pc[v] \in SpawnLabels /\ pc' = Set(pc, v, "undo") /\ UNCHANGED <<plan, chroot>>
    BY <1>12 DEF SnapshotFails, At, Goto, idVars, SpawnLabels
  <2> QED
    BY <1>0, <2>1, ChrootSame DEF Set, Passive, Linked, SpawnLabels
<1>13. ASSUME NEW v \in Slots, CreateTapFails(v) PROVE ChrootInv'
  <2>1. pc[v] \in SpawnLabels /\ pc' = Set(pc, v, "undo") /\ UNCHANGED <<plan, chroot>>
    BY <1>13 DEF CreateTapFails, At, Goto, idVars, SpawnLabels
  <2> QED
    BY <1>0, <2>1, ChrootSame DEF Set, Passive, Linked, SpawnLabels
<1>14. ASSUME NEW v \in Slots, AddMappingFails(v) PROVE ChrootInv'
  <2>1. pc[v] \in SpawnLabels /\ pc' = Set(pc, v, "undo") /\ UNCHANGED <<plan, chroot>>
    BY <1>14 DEF AddMappingFails, At, Goto, idVars, SpawnLabels
  <2> QED
    BY <1>0, <2>1, ChrootSame DEF Set, Passive, Linked, SpawnLabels
<1>15. ASSUME NEW v \in Slots, Fail(v) PROVE ChrootInv'
  <2>1. pc[v] \in SpawnLabels /\ pc' = Set(pc, v, "undo") /\ UNCHANGED <<plan, chroot>>
    BY <1>15 DEF Fail, At, Goto, idVars, SpawnLabels
  <2> QED
    BY <1>0, <2>1, ChrootSame DEF Set, Passive, Linked, SpawnLabels
<1>16. ASSUME NEW v \in Slots, MakeChroot(v) PROVE ChrootInv'
  <2>1. pc[v] = "mkdir" /\ pc' = Set(pc, v, "link")
    BY <1>16 DEF MakeChroot, At, Goto
  <2>2. pc'[v] = "link" /\ \A w \in Slots \ {v} : pc'[w] = pc[w]
    BY <1>0, <2>1 DEF Set
  <2>3. CASE chroot[id(v)] # "absent"
    <3>1. UNCHANGED <<plan, chroot>>
      BY <1>16, <2>3 DEF MakeChroot
    <3> QED
      BY <1>0, <2>1, <2>2, <3>1, ChrootSame DEF Passive, Linked
  <2>4. CASE chroot[id(v)] = "absent"
    <3>1. chroot' = Set(chroot, id(v), "made") /\ Pushed(v, {"chroot"})
      BY <1>16, <1>0, <2>4, PushPushes DEF MakeChroot
    <3>2. chroot'[id(v)] = "made" /\ \A i \in IDs \ {id(v)} : chroot'[i] = chroot[i]
      BY <1>0, <3>1 DEF Set
    <3>3. \A w \in Slots : Has(plan'[w], "chroot") <=> (Has(plan[w], "chroot") \/ w = v)
      BY <1>0, <3>1 DEF Pushed
    <3>4. \A w \in Slots : id(w) = id(v) => ~Has(plan[w], "chroot") /\ pc[w] \notin Linked
      BY <2>4 DEF ChrootInv, ChrootOwned, ChrootLinked
    <3>5. OneActive'
      BY <2>1, <2>2 DEF ChrootInv, OneActive, Passive, id
    <3>6. ChrootOwned'
      BY <1>0, <3>2, <3>3, <3>4 DEF ChrootInv, ChrootOwned, id
    <3>7. ChrootLinked'
      BY <1>0, <2>2, <3>2, <3>3, <3>4 DEF ChrootInv, ChrootLinked, Linked, id
    <3> QED
      BY <3>5, <3>6, <3>7 DEF ChrootInv
  <2> QED
    BY <2>3, <2>4
<1>17. ASSUME NEW v \in Slots, LinkKernel(v) PROVE ChrootInv'
  <2>1. /\ pc[v] = "link" /\ pc' = Set(pc, v, "ip") /\ plan' = plan /\ chroot[id(v)] = "made"
        /\ chroot' = Set(chroot, id(v), "linked")
    BY <1>17 DEF LinkKernel, At, Goto
  <2>2. pc'[v] = "ip" /\ \A w \in Slots \ {v} : pc'[w] = pc[w]
    BY <1>0, <2>1 DEF Set
  <2>3. chroot'[id(v)] = "linked" /\ \A i \in IDs \ {id(v)} : chroot'[i] = chroot[i]
    BY <1>0, <2>1 DEF Set
  <2>4. Has(plan[v], "chroot")
    BY <1>0, <2>1, MadeBy
  <2>5. OneActive'
    BY <2>1, <2>2 DEF ChrootInv, OneActive, Passive, id
  <2>6. ChrootOwned'
    BY <1>0, <2>1, <2>3 DEF ChrootInv, ChrootOwned, id
  <2>7. ChrootLinked'
    BY <1>0, <2>1, <2>2, <2>3, <2>4 DEF ChrootInv, ChrootLinked, id
  <2> QED
    BY <2>5, <2>6, <2>7 DEF ChrootInv
<1>18. ASSUME NEW v \in Slots, LinkFails(v) PROVE ChrootInv'
  <2>1. /\ pc[v] = "link" /\ pc' = Set(pc, v, "undo") /\ plan' = plan
        /\ chroot' = chroot \/ (chroot[id(v)] = "made" /\ chroot' = Set(chroot, id(v), "linked"))
    BY <1>18 DEF LinkFails, At, Goto
  <2>2. pc'[v] = "undo" /\ \A w \in Slots \ {v} : pc'[w] = pc[w]
    BY <1>0, <2>1 DEF Set
  <2>3. CASE chroot' = chroot
    BY <1>0, <2>1, <2>2, <2>3, ChrootSame DEF Passive, Linked
  <2>4. CASE chroot[id(v)] = "made" /\ chroot' = Set(chroot, id(v), "linked")
    <3>1. chroot'[id(v)] = "linked" /\ \A i \in IDs \ {id(v)} : chroot'[i] = chroot[i]
      BY <1>0, <2>4 DEF Set
    <3>2. OneActive'
      BY <2>1, <2>2 DEF ChrootInv, OneActive, Passive, id
    <3>3. ChrootOwned'
      BY <1>0, <2>1, <2>4, <3>1 DEF ChrootInv, ChrootOwned, id
    <3>4. ChrootLinked'
      BY <1>0, <2>1, <2>2, <3>1 DEF ChrootInv, ChrootLinked, Linked, id
    <3> QED
      BY <3>2, <3>3, <3>4 DEF ChrootInv
  <2> QED
    BY <2>1, <2>3, <2>4
<1>19. ASSUME NEW v \in Slots, Close(v) PROVE ChrootInv'
  <2>1. /\ pc[v] = "run" /\ pc' = Set(pc, v, "clean") /\ chroot' = chroot
        /\ \A w \in Slots \ {v} : plan'[w] = plan[w]
    BY <1>19, CloseOwes DEF Close, At, Goto, idVars
  <2>2. Has(plan[v], "chroot") /\ Has(plan'[v], "chroot")
    BY <1>19, <2>1, CloseOwes DEF ChrootInv, ChrootLinked, Linked
  <2> QED
    BY <1>0, <2>1, <2>2, ChrootSame DEF Set, Passive, Linked
<1>20. ASSUME NEW v \in Slots, Kill(v) PROVE ChrootInv'
  <2>1. UNCHANGED <<pc, chroot>> /\ Taken(v, "kill")
    BY <1>20, TurnTakes DEF Kill, Turn, idVars
  <2> QED
    BY <1>0, <2>1, ChrootSame DEF Taken
<1>21. ASSUME NEW v \in Slots, Await(v) PROVE ChrootInv'
  <2>1. UNCHANGED <<pc, chroot>> /\ Taken(v, "wait")
    BY <1>21, TurnTakes DEF Await, Turn, idVars
  <2> QED
    BY <1>0, <2>1, ChrootSame DEF Taken
<1>22. ASSUME NEW v \in Slots, DeleteTap(v) PROVE ChrootInv'
  <2>1. UNCHANGED <<pc, chroot>> /\ Taken(v, "tap")
    BY <1>22, TurnTakes DEF DeleteTap, Turn, idVars
  <2> QED
    BY <1>0, <2>1, ChrootSame DEF Taken
<1>23. ASSUME NEW v \in Slots, ReleaseIP(v) PROVE ChrootInv'
  <2>1. UNCHANGED <<pc, chroot>> /\ Taken(v, "ip")
    BY <1>23, TurnTakes DEF ReleaseIP, Turn, idVars
  <2> QED
    BY <1>0, <2>1, ChrootSame DEF Taken
<1>24. ASSUME NEW v \in Slots, Teardown(v) PROVE ChrootInv'
  <2>1. UNCHANGED <<pc, chroot>> /\ Taken(v, "snapshot")
    BY <1>24, TurnTakes DEF Teardown, Turn, idVars
  <2> QED
    BY <1>0, <2>1, ChrootSame DEF Taken
<1>25. ASSUME NEW v \in Slots, TeardownInRequest(v) PROVE ChrootInv'
  <2>1. UNCHANGED <<pc, chroot>> /\ Taken(v, "snapshot_ctx")
    BY <1>25, TurnTakes DEF TeardownInRequest, Turn, idVars
  <2> QED
    BY <1>0, <2>1, ChrootSame DEF Taken
<1>26. ASSUME NEW v \in Slots, ReturnUID(v) PROVE ChrootInv'
  <2>1. UNCHANGED <<pc, chroot>> /\ Taken(v, "uid")
    BY <1>26, TurnTakes DEF ReturnUID, Turn, idVars
  <2> QED
    BY <1>0, <2>1, ChrootSame DEF Taken
<1>27. ASSUME NEW v \in Slots, RemoveChroot(v) PROVE ChrootInv'
  <2>1. pc' = pc /\ chroot' = Set(chroot, id(v), "absent") /\ Taken(v, "chroot")
    BY <1>27, TurnTakes DEF RemoveChroot, Turn
  <2>2. chroot'[id(v)] = "absent" /\ \A i \in IDs \ {id(v)} : chroot'[i] = chroot[i]
    BY <1>0, <2>1 DEF Set
  <2>3. /\ Has(plan[v], "chroot") /\ pc[v] \in {"undo", "clean"}
        /\ \A w \in Slots : Has(plan'[w], "chroot") <=> (Has(plan[w], "chroot") /\ w # v)
    BY <1>0, <2>1 DEF Taken
  <2>4. \A w \in Slots \ {v} : Has(plan[w], "chroot") => id(w) # id(v)
    BY <2>3 DEF ChrootInv, ChrootOwned
  <2>5. OneActive'
    BY <2>1 DEF ChrootInv, OneActive, id
  <2>6. ChrootOwned'
    BY <1>0, <2>2, <2>3, <2>4 DEF ChrootInv, ChrootOwned, id
  <2>7. ChrootLinked'
    <3>1. pc[v] \notin Linked
      BY <2>3 DEF Linked
    <3> QED
      BY <1>0, <2>1, <2>2, <2>3, <2>4, <3>1 DEF ChrootInv, ChrootLinked, id
  <2> QED
    BY <2>5, <2>6, <2>7 DEF ChrootInv
<1>28. ASSUME NEW v \in Slots, RemoveMapping(v) \/ ReleasePort(v) PROVE ChrootInv'
  BY <1>28, MappingTurnKeeps, ChrootSame
<1>29. ASSUME NEW v \in Slots, Finish(v) PROVE ChrootInv'
  <2>1. pc' = Set(pc, v, "off") /\ UNCHANGED <<plan, chroot>>
    BY <1>29 DEF Finish, Goto, idVars
  <2> QED
    BY <1>0, <2>1, ChrootSame DEF Set, Passive, Linked
<1>30. ASSUME NEW v \in Slots, Exit(v) PROVE ChrootInv'
  BY <1>30, ChrootSame DEF Exit, idVars
<1>31. ASSUME UNCHANGED vars PROVE ChrootInv'
  BY <1>31, ChrootSame DEF vars, slotVars, idVars
<1> QED
  BY <1>1, <1>2, <1>3, <1>4, <1>5, <1>6, <1>7, <1>8, <1>9, <1>10, <1>11, <1>12, <1>13, <1>14,
     <1>15, <1>16, <1>17, <1>18, <1>19, <1>20, <1>21, <1>22, <1>23, <1>24, <1>25, <1>26,
     <1>27, <1>28, <1>29, <1>30, <1>31
  DEF Next, SpawnStep, CleanStep

\* There is no chroot at first.
LEMMA ChrootInit == Init => ChrootInv
<1> SUFFICES ASSUME Init PROVE ChrootInv
  OBVIOUS
<1>1. \A v \in Slots : pc[v] = "off" /\ ~Has(plan[v], "chroot")
  BY HasEmpty DEF Init
<1>2. \A i \in IDs : chroot[i] = "absent"
  BY DEF Init
<1> QED
  BY <1>1, <1>2 DEF ChrootInv, OneActive, ChrootOwned, ChrootLinked, Passive, Linked

-----------------------------------------------------------------------------
(* The factory as a whole *)

\* All the invariants of the factory.
FactoryInv == PlanInv /\ UIDInv /\ AddressInv /\ HostInv /\ FwdInv /\ PortInv /\ ChrootInv

\* They hold throughout.
LEMMA FactoryAlways == Spec => []FactoryInv
<1>1. Init => FactoryInv
  BY PlanInit, UIDInit, AddressInit, HostInit, PortInit, ChrootInit DEF FactoryInv
<1>2. FactoryInv /\ [Next]_vars => FactoryInv'
  BY PlanStep, UIDStep, AddressStep, HostStep, FwdStep, PortStep, ChrootStep DEF FactoryInv
<1> QED
  BY <1>1, <1>2, PTL DEF Spec

\* Every variable of the factory keeps its type; in particular no rule names an address
\* or a port that its VM never got, and no UID or address leaves its range.
THEOREM FactoryTypeCorrect == Spec => []TypeOK
<1>1. FactoryInv => TypeOK
  <2> SUFFICES ASSUME FactoryInv PROVE TypeOK
    OBVIOUS
  <2>1. pc \in [Slots -> Labels] /\ plan \in [Slots -> Seq(Calls)]
    BY DEF FactoryInv, PlanInv
  <2>2. Len(uids) <= UIDSize
    BY ChannelFits DEF FactoryInv, UIDInv, UID!NoDuplicates, Distinct
  <2> QED
    BY <2>1, <2>2 DEF TypeOK, FactoryInv, UIDInv, AddressInv, HostInv, HostType, FwdInv, PortInv
<1> QED
  BY <1>1, FactoryAlways, PTL

\* Rollback and Close together give everything back, whatever failed, whatever sessions
\* the slots share and whatever ports they map, one of them twice included: when no Spawn,
\* VM or Close is left, every UID, address and port is free and no rule, device or
\* process remains, provided that killed processes exit in time, that netlink finds the
\* devices it has added and that iptables -D removes what is there.
THEOREM NothingLeaksHolds ==
  ExitsInTime = TRUE /\ LinkFound = TRUE /\ DeleteWorks = TRUE => (Spec => []NothingLeaks)
<1> SUFFICES ASSUME ExitsInTime = TRUE, LinkFound = TRUE, DeleteWorks = TRUE PROVE Spec => []NothingLeaks
  OBVIOUS
<1>1. FactoryInv => NothingLeaks
  <2> SUFFICES ASSUME FactoryInv, \A v \in Slots : pc[v] = "off" PROVE
        /\ Len(uids) = UIDSize /\ used = {} /\ rules = {}
        /\ \A p \in Ports : inUse[p] = NoOne
        /\ \A n \in TapNames : tap[n] = NoOne
        /\ HasProcess = {}
    BY DEF NothingLeaks
  <2>1. \A v \in Slots : \A c \in Calls : ~Has(plan[v], c)
    BY OffOwesNothing DEF FactoryInv
  <2>2. "uid" \in Calls /\ "ip" \in Calls /\ "wait" \in Calls /\ "tap" \in Calls
    BY DEF Calls
  <2>3. uids \in Seq(UID!UIDs) /\ Distinct(uids) /\ \A u \in UID!UIDs : Has(uids, u)
    BY <2>1, <2>2 DEF FactoryInv, UIDInv, UID!NoDuplicates, Distinct
  <2>4. Len(uids) = UIDSize
    BY <2>3, ChannelFits
  <2>5. used = {}
    BY <2>1, <2>2 DEF FactoryInv, AddressInv
  <2>6. \A v \in Slots : fwd[v] = {}
    BY DEF FactoryInv, FwdInv, FwdOk, MappingLabels
  <2>7. \A r \in rules : r[2] \in Slots
    BY DEF FactoryInv, PortInv
  <2>8. rules = {}
    <3>1. ASSUME NEW r \in rules PROVE FALSE
      <4>1. <<"dnat", r[3], r[1]>> \in fwd[r[2]]
        BY <3>1 DEF FactoryInv, PortInv
      <4> QED
        BY <2>6, <2>7, <4>1
    <3> QED
      BY <3>1
  <2>9. \A p \in Ports : inUse[p] = NoOne
    BY <2>6 DEF FactoryInv, PortInv
  <2>10. \A n \in TapNames : tap[n] = NoOne
    BY <2>1, <2>2 DEF FactoryInv, HostInv, HostType, TapOwed
  <2>11. HasProcess = {}
    BY <2>1, <2>2 DEF FactoryInv, HostInv, ProcOwed, HasProcess
  <2> QED
    BY <2>4, <2>5, <2>8, <2>9, <2>10, <2>11
<1> QED
  BY <1>1, FactoryAlways, PTL

\* nat.go and the two loops of firecracker_factory.go over the mappings: a rule does not
\* outlive the VM that installed it, every mapping of a VM in service has its rule, and
\* a rule leads to no other VM unless its own is closing, for any number of mappings,
\* any sessions and whatever PortManager grants twice, provided that iptables -D removes
\* what is there.
THEOREM RulesLeadHomeHolds == DeleteWorks = TRUE => (Spec => []RulesLeadHome)
<1> SUFFICES ASSUME DeleteWorks = TRUE PROVE Spec => []RulesLeadHome
  OBVIOUS
<1>1. FactoryInv => RulesLeadHome
  <2> SUFFICES ASSUME FactoryInv PROVE RulesLeadHome
    OBVIOUS
  <2>1. ASSUME NEW r \in rules
        PROVE  r[2] \in Slots /\ <<"dnat", r[3], r[1]>> \in fwd[r[2]] /\ r[4] = ip[r[2]]
    BY <2>1 DEF FactoryInv, PortInv
  <2>2. ASSUME NEW r \in rules, NEW v \in Slots \ {r[2]}, Has(plan[v], "ip"), ip[v] = r[4],
               pc[r[2]] # "clean"
        PROVE  FALSE
    <3>1. r[2] \in Slots /\ fwd[r[2]] # {} /\ ip[r[2]] = ip[v]
      BY <2>1, <2>2
    <3>2. Has(plan[r[2]], "ip")
      BY <2>2, <3>1 DEF FactoryInv, FwdInv, FwdOk
    <3> QED
      BY <2>2, <3>1, <3>2 DEF FactoryInv, AddressInv
  <2>3. ASSUME NEW v \in Slots, pc[v] = "run", NEW c \in fwd[v] PROVE Rule(v, c[2], c[3]) \in rules
    <3>1. FwdOk("run", plan[v], fwd[v])
      BY <2>3 DEF FactoryInv, FwdInv
    <3>2. c \in {"dnat", "port"} \X Mappings \X Ports
      BY <2>3, <3>1 DEF FwdOk, MappingCalls
    <3>3. c = <<c[1], c[2], c[3]>> /\ c[1] \in {"dnat", "port"} /\ c[2] \in Mappings /\ c[3] \in Ports
      BY <3>2
    <3>4. <<"dnat", c[2], c[3]>> \in fwd[v]
      BY <2>3, <3>1, <3>3 DEF FwdOk, Missing
    <3> QED
      BY <3>3, <3>4 DEF FactoryInv, PortInv
  <2> QED
    BY <2>1, <2>2, <2>3 DEF RulesLeadHome, Running, Has, Owes
<1> QED
  BY <1>1, FactoryAlways, PTL

\* Spawn and Close on one chroot per session: a VM in service has a complete one that
\* nobody else is about to remove, also when the session was spawned again before its
\* old worker was closed, and a session without a worker has none.
THEOREM OwnChrootHolds == Spec => []OwnChroot
<1>1. FactoryInv => OwnChroot
  <2> SUFFICES ASSUME FactoryInv PROVE OwnChroot
    OBVIOUS
  <2>1. "chroot" \in Calls
    BY DEF Calls
  <2>2. ASSUME NEW v \in Slots, pc[v] = "run"
        PROVE  /\ chroot[id(v)] = "linked"
               /\ \A u \in Slots \ {v} : Has(plan[u], "chroot") => id(u) # id(v)
    BY <2>2 DEF FactoryInv, ChrootInv, ChrootOwned, ChrootLinked, Linked
  <2>3. ASSUME NEW i \in IDs, \A v \in Slots : id(v) = i => pc[v] = "off" PROVE chroot[i] = "absent"
    <3>1. \A v \in Slots : Has(plan[v], "chroot") => pc[v] # "off"
      BY <2>1, OffOwesNothing DEF FactoryInv
    <3> QED
      BY <2>3, <3>1 DEF FactoryInv, ChrootInv, ChrootOwned
  <2> QED
    BY <2>2, <2>3 DEF OwnChroot, Running, Has, Owes
<1> QED
  BY <1>1, FactoryAlways, PTL
=============================================================================
