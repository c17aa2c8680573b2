--------------------------- MODULE HostSetupProofs ---------------------------
(***************************************************************************)
(* Proofs about herd init and herd teardown, for every number of inits and *)
(* whatever kills, reboots and failures lie between them.                  *)
(*                                                                         *)
(* The argument.  The list of calls that a command still makes is sorted   *)
(* in the order of that command (Rank), and cleanupStack mirrors the calls *)
(* of Bootstrap that are done (Mirror); so a call that is not in the list  *)
(* any more has been made, and the call that is made next comes before all *)
(* that are left.  The rest says what follows from a call having been      *)
(* made: in Bootstrap (InitDone), in Teardown (TeardownDone), in the       *)
(* network part (NatInv), and, for each entry of cleanupStack, that its    *)
(* absence means that things are as init found them (Pending).  What holds *)
(* between the commands too is that no file outlives its directory, no     *)
(* live loop device or pool its file (Sound), and that there is nothing    *)
(* dead unless a clean-up call has failed (Alive).  config.toml, which the *)
(* rollback removes also when it was found, has a part of its own          *)
(* (ConfigInv).                                                            *)
(***************************************************************************)
EXTENDS HostSetup, SequenceTheorems, TLAPS

-----------------------------------------------------------------------------
(* Lists of calls *)

\* call is in the list s
Has(s, call) == \E i \in DOMAIN s : s[i] = call

InitSet == {
    <<"mkdir", "state">>, <<"mkdir", "devmapper">>, <<"create", "data">>, <<"grow", "data">>,
    <<"create", "metadata">>, <<"grow", "metadata">>, <<"losetup", "data">>, <<"losetup", "metadata">>,
    <<"dmsetup", "pool">>, <<"mkdir", "containerd">>, <<"write", "config">>, <<"start", "containerd">>,
    <<"append", "masquerade">>, <<"append", "established">>, <<"append", "hairpin">>,
    <<"append", "drop">>, <<"append", "forward">>}

UndoSet == {
    <<"rm", "config">>, <<"rmdir", "containerd">>, <<"dmremove", "pool">>, <<"detach", "metadata">>,
    <<"detach", "data">>, <<"rm", "metadata">>, <<"rm", "data">>, <<"rmdir", "devmapper">>,
    <<"rmdir", "state">>}

TeardownSet == {
    <<"pkill", "containerd">>, <<"dmremove", "pool">>, <<"detach", "data">>, <<"detach", "metadata">>,
    <<"rmdir", "state">>, <<"delete", "masquerade">>, <<"delete", "hairpin">>,
    <<"delete", "established">>, <<"delete", "drop">>, <<"delete", "forward">>}

\* the order of init; grow is what create may put in its own place
InitRank(c) ==
    CASE c = <<"mkdir", "state">> -> 2 [] c = <<"mkdir", "devmapper">> -> 4
      [] c = <<"create", "data">> -> 6 [] c = <<"grow", "data">> -> 7
      [] c = <<"create", "metadata">> -> 8 [] c = <<"grow", "metadata">> -> 9
      [] c = <<"losetup", "data">> -> 10 [] c = <<"losetup", "metadata">> -> 12
      [] c = <<"dmsetup", "pool">> -> 14 [] c = <<"mkdir", "containerd">> -> 16
      [] c = <<"write", "config">> -> 18 [] c = <<"start", "containerd">> -> 20
      [] c = <<"append", "masquerade">> -> 22 [] c = <<"append", "established">> -> 24
      [] c = <<"append", "hairpin">> -> 26 [] c = <<"append", "drop">> -> 28
      [] c = <<"append", "forward">> -> 30

\* the rank of the call of init that a clean-up call undoes
OriginRank(c) ==
    CASE c = <<"rmdir", "state">> -> 2 [] c = <<"rmdir", "devmapper">> -> 4
      [] c = <<"rm", "data">> -> 7 [] c = <<"rm", "metadata">> -> 9
      [] c = <<"detach", "data">> -> 10 [] c = <<"detach", "metadata">> -> 12
      [] c = <<"dmremove", "pool">> -> 14 [] c = <<"rmdir", "containerd">> -> 16
      [] c = <<"rm", "config">> -> 18

TeardownRank(c) ==
    CASE c = <<"pkill", "containerd">> -> 1 [] c = <<"dmremove", "pool">> -> 2
      [] c = <<"detach", "data">> -> 3 [] c = <<"detach", "metadata">> -> 4
      [] c = <<"rmdir", "state">> -> 5
      [] c = <<"delete", "masquerade">> -> 6 [] c = <<"delete", "hairpin">> -> 7
      [] c = <<"delete", "established">> -> 8 [] c = <<"delete", "drop">> -> 9
      [] c = <<"delete", "forward">> -> 10

CallsOf(m) ==
    CASE m = "init" -> InitSet [] m = "undo" -> UndoSet [] m = "teardown" -> TeardownSet
      [] m = "idle" -> {}

Rank(m, c) ==
    CASE m = "init" -> InitRank(c) [] m = "undo" -> 20 - OriginRank(c)
      [] m = "teardown" -> TeardownRank(c) [] m = "idle" -> 0

Modes == {"idle", "init", "undo", "teardown"}

Sorted(s, m) == \A i, j \in DOMAIN s : i < j => Rank(m, s[i]) < Rank(m, s[j])

\* s is a list of calls of the command m, in its order
ListOf(s, m) == s \in Seq(CallsOf(m)) /\ Sorted(s, m)

\* What is on cleanupStack undoes something that is done.
Mirror ==
    mode = "init" => \A u \in UndoSet, c \in InitSet :
        Has(undo, u) /\ Has(todo, c) => OriginRank(u) < InitRank(c)

\* A file that is to be grown was made by this init.
Growing ==
    \A f \in Files : Has(todo, <<"grow", f>>) => file[f] = "empty"

ListInv ==
    /\ mode \in Modes /\ ListOf(todo, mode) /\ ListOf(undo, "undo")
    /\ mode \in {"idle", "teardown"} => undo = <<>>
    /\ Mirror /\ Growing
    /\ file \in [Files -> {"absent", "empty", "full"}]

\* The ranks are numbers.
LEMMA RankType ==
  ASSUME NEW m \in Modes, NEW c \in CallsOf(m) PROVE Rank(m, c) \in 1..30
<1>1. CASE m = "init"
  <2>1. c \in InitSet
    BY <1>1 DEF CallsOf
  <2>2. InitRank(c) \in 1..30
    BY <2>1 DEF InitSet, InitRank
  <2> QED
    BY <1>1, <2>2 DEF Rank
<1>2. CASE m = "undo"
  <2>1. c \in UndoSet
    BY <1>2 DEF CallsOf
  <2>2. OriginRank(c) \in 1..18
    BY <2>1 DEF UndoSet, OriginRank
  <2> QED
    BY <1>2, <2>2 DEF Rank
<1>3. CASE m = "teardown"
  <2>1. c \in TeardownSet
    BY <1>3 DEF CallsOf
  <2>2. TeardownRank(c) \in 1..30
    BY <2>1 DEF TeardownSet, TeardownRank
  <2> QED
    BY <1>3, <2>2 DEF Rank
<1>4. CASE m = "idle"
  BY <1>4 DEF CallsOf
<1> QED
  BY <1>1, <1>2, <1>3, <1>4 DEF Modes

\* Nothing is in the empty list, and it is a list of any command.
LEMMA EmptyList == (\A c : ~Has(<<>>, c)) /\ (\A m : ListOf(<<>>, m))
  BY DEF Has, ListOf, Sorted

\* What is in a list of the command m is a call of m.
LEMMA HasType ==
  ASSUME NEW m, NEW s, ListOf(s, m), NEW c, Has(s, c) PROVE c \in CallsOf(m)
  BY DEF ListOf, Has

\* A call is made: it is not in the list any more, and all others come after it.
LEMMA TakeHead ==
  ASSUME NEW m \in Modes, NEW s, ListOf(s, m), s # <<>>
  PROVE  /\ Head(s) \in CallsOf(m) /\ Has(s, Head(s)) /\ ListOf(Tail(s), m)
         /\ \A c : Has(Tail(s), c) <=> (Has(s, c) /\ c # Head(s))
         /\ \A c : Has(s, c) => c = Head(s) \/ Rank(m, Head(s)) < Rank(m, c)
<1> DEFINE t == Tail(s)
           C == CallsOf(m)
<1>0. s \in Seq(C) /\ Sorted(s, m)
  BY DEF ListOf
<1>1. /\ t \in Seq(C) /\ Len(t) = Len(s) - 1 /\ Len(s) \in Nat /\ Len(s) > 0
      /\ Head(s) = s[1] /\ Head(s) \in C
  BY <1>0
<1>2. \A i \in 1..Len(t) : t[i] = s[i + 1] /\ i + 1 \in DOMAIN s
  BY <1>0, <1>1
<1>3. DOMAIN t = 1..Len(t) /\ DOMAIN s = 1..Len(s) /\ \A i \in DOMAIN s : s[i] \in C
  BY <1>0, <1>1
<1> HIDE DEF t, C
<1>4. Has(s, Head(s))
  BY <1>1, <1>3 DEF Has
<1>5. ASSUME NEW c, Has(s, c) PROVE c = Head(s) \/ (Rank(m, Head(s)) < Rank(m, c) /\ Has(t, c))
  <2>1. PICK i \in DOMAIN s : s[i] = c
    BY <1>5 DEF Has
  <2>2. CASE i = 1
    BY <2>1, <2>2, <1>1
  <2>3. CASE i # 1
    <3>1. 1 \in DOMAIN s /\ 1 < i /\ i - 1 \in DOMAIN t /\ t[i - 1] = s[i]
      BY <2>1, <2>3, <1>1, <1>2, <1>3
    <3>2. Rank(m, s[1]) < Rank(m, s[i])
      BY <1>0, <3>1, <2>1 DEF Sorted
    <3> QED
      BY <3>1, <3>2, <2>1, <1>1 DEF Has
  <2> QED
    BY <2>2, <2>3
<1>6. ASSUME NEW c, Has(t, c) PROVE Has(s, c) /\ c # Head(s)
  <2>1. PICK i \in DOMAIN t : t[i] = c
    BY <1>6 DEF Has
  <2>2. i + 1 \in DOMAIN s /\ s[i + 1] = c /\ 1 \in DOMAIN s /\ 1 < i + 1
    BY <2>1, <1>1, <1>2, <1>3
  <2>3. Rank(m, s[1]) < Rank(m, c)
    BY <1>0, <2>2 DEF Sorted
  <2>4. c \in C
    BY <2>2, <1>3
  <2>5. Rank(m, c) \in 1..30
    BY <2>4, RankType DEF C
  <2>6. ~(Rank(m, c) < Rank(m, c))
    BY <2>5
  <2>7. c # s[1]
    BY <2>3, <2>6
  <2> QED
    BY <2>2, <2>7, <1>1 DEF Has
<1>7. ASSUME NEW i \in DOMAIN t, NEW j \in DOMAIN t, i < j PROVE Rank(m, t[i]) < Rank(m, t[j])
  <2>1. i + 1 \in DOMAIN s /\ j + 1 \in DOMAIN s /\ i + 1 < j + 1
    BY <1>7, <1>2, <1>3
  <2> QED
    BY <1>0, <2>1, <1>2, <1>3 DEF Sorted
<1>8. Sorted(t, m)
  BY <1>7 DEF Sorted
<1>9. ListOf(t, m)
  BY <1>1, <1>8 DEF ListOf, C
<1> QED
  BY <1>1, <1>4, <1>5, <1>6, <1>9 DEF t, C

\* A call of lower rank than all the others is put in front.
LEMMA PutHead ==
  ASSUME NEW m \in Modes, NEW s, ListOf(s, m), NEW a \in CallsOf(m),
         \A c : Has(s, c) => Rank(m, a) < Rank(m, c)
  PROVE  ListOf(<<a>> \o s, m) /\ \A c : Has(<<a>> \o s, c) <=> (c = a \/ Has(s, c))
<1> DEFINE t == <<a>> \o s
           C == CallsOf(m)
<1>0. s \in Seq(C) /\ Sorted(s, m) /\ a \in C
  BY DEF ListOf
<1>1. t \in Seq(C) /\ Len(t) = Len(s) + 1
  BY <1>0
<1>2. t[1] = a /\ \A i \in 1..Len(s) : t[i + 1] = s[i]
  BY <1>0
<1>3. \A i \in 2..Len(t) : t[i] = s[i - 1] /\ i - 1 \in 1..Len(s)
  BY <1>0, <1>1
<1>4. DOMAIN t = 1..Len(t) /\ DOMAIN s = 1..Len(s) /\ Len(s) \in Nat
  BY <1>0, <1>1
<1> HIDE DEF t, C
<1>5. ASSUME NEW c, Has(t, c) PROVE c = a \/ Has(s, c)
  <2>1. PICK i \in DOMAIN t : t[i] = c
    BY <1>5 DEF Has
  <2>2. i = 1 \/ i \in 2..Len(t)
    BY <1>4, <2>1, <1>1
  <2>3. CASE i = 1
    BY <2>1, <2>3, <1>2
  <2>4. CASE i \in 2..Len(t)
    BY <2>1, <2>4, <1>3, <1>4 DEF Has
  <2> QED
    BY <2>2, <2>3, <2>4
<1>6. Has(t, a)
  BY <1>1, <1>2, <1>4 DEF Has
<1>7. ASSUME NEW c, Has(s, c) PROVE Has(t, c)
  <2>1. PICK i \in DOMAIN s : s[i] = c
    BY <1>7 DEF Has
  <2>2. i + 1 \in DOMAIN t /\ t[i + 1] = c
    BY <2>1, <1>1, <1>2, <1>4
  <2> QED
    BY <2>2 DEF Has
<1>8. \A i \in 1..Len(s) : Rank(m, a) < Rank(m, s[i])
  BY <1>4 DEF Has
<1>9. ASSUME NEW i \in DOMAIN t, NEW j \in DOMAIN t, i < j PROVE Rank(m, t[i]) < Rank(m, t[j])
  <2>1. j \in 2..Len(t) /\ (i = 1 \/ i \in 2..Len(t))
    BY <1>9, <1>4, <1>1
  <2>2. CASE i = 1
    BY <2>1, <2>2, <1>2, <1>3, <1>8
  <2>3. CASE i \in 2..Len(t)
    <3>1. i - 1 \in DOMAIN s /\ j - 1 \in DOMAIN s /\ i - 1 < j - 1
      BY <2>1, <2>3, <1>3, <1>4, <1>9
    <3> QED
      BY <1>0, <3>1, <2>1, <2>3, <1>3 DEF Sorted
  <2> QED
    BY <2>1, <2>2, <2>3
<1>10. ListOf(t, m)
  BY <1>1, <1>9 DEF ListOf, Sorted, C
<1> QED
  BY <1>5, <1>6, <1>7, <1>10 DEF t

\* One list after the other.
LEMMA Joined ==
  ASSUME NEW m \in Modes, NEW s, NEW t, ListOf(s, m), ListOf(t, m),
         \A c, d : Has(s, c) /\ Has(t, d) => Rank(m, c) < Rank(m, d)
  PROVE  ListOf(s \o t, m) /\ \A c : Has(s \o t, c) <=> (Has(s, c) \/ Has(t, c))
<1> DEFINE C == CallsOf(m)
           u == s \o t
<1>0. s \in Seq(C) /\ t \in Seq(C) /\ Sorted(s, m) /\ Sorted(t, m)
  BY DEF ListOf
<1>1. /\ u \in Seq(C) /\ Len(u) = Len(s) + Len(t)
      /\ \A i \in 1..Len(s) + Len(t) : u[i] = IF i <= Len(s) THEN s[i] ELSE t[i - Len(s)]
  BY <1>0, ConcatProperties
<1>2. /\ DOMAIN s = 1..Len(s) /\ DOMAIN t = 1..Len(t) /\ DOMAIN u = 1..Len(u)
      /\ Len(s) \in Nat /\ Len(t) \in Nat
  BY <1>0, <1>1
<1> HIDE DEF u, C
<1>3. \A i \in DOMAIN s : i \in DOMAIN u /\ u[i] = s[i]
  BY <1>1, <1>2
<1>4. \A i \in DOMAIN t : i + Len(s) \in DOMAIN u /\ u[i + Len(s)] = t[i]
  <2>1. \A i \in DOMAIN t : /\ i + Len(s) \in 1..Len(s) + Len(t)
                            /\ ~(i + Len(s) <= Len(s)) /\ (i + Len(s)) - Len(s) = i
    BY <1>2
  <2> QED
    BY <2>1, <1>1, <1>2
<1>5. \A i \in DOMAIN u : \/ i \in DOMAIN s /\ u[i] = s[i]
                          \/ i > Len(s) /\ i - Len(s) \in DOMAIN t /\ u[i] = t[i - Len(s)]
  BY <1>1, <1>2
<1>6. \A c : Has(u, c) <=> (Has(s, c) \/ Has(t, c))
  BY <1>3, <1>4, <1>5 DEF Has
<1>7. ASSUME NEW i \in DOMAIN u, NEW j \in DOMAIN u, i < j PROVE Rank(m, u[i]) < Rank(m, u[j])
  <2>1. CASE i \in DOMAIN s /\ u[i] = s[i] /\ j \in DOMAIN s /\ u[j] = s[j]
    BY <1>0, <1>7, <2>1 DEF Sorted
  <2>2. CASE /\ i \in DOMAIN s /\ u[i] = s[i]
             /\ j - Len(s) \in DOMAIN t /\ u[j] = t[j - Len(s)]
    BY <2>2 DEF Has
  <2>3. CASE /\ i - Len(s) \in DOMAIN t /\ u[i] = t[i - Len(s)]
             /\ j - Len(s) \in DOMAIN t /\ u[j] = t[j - Len(s)]
    <3>1. i - Len(s) < j - Len(s)
      BY <1>2, <1>7
    <3> QED
      BY <1>0, <2>3, <3>1 DEF Sorted
  <2>4. CASE i > Len(s) /\ j \in DOMAIN s
    BY <1>2, <1>7, <2>4
  <2> QED
    BY <1>5, <2>1, <2>2, <2>3, <2>4
<1>8. ListOf(u, m)
  BY <1>1, <1>7 DEF ListOf, Sorted, C
<1> QED
  BY <1>6, <1>8 DEF u

\* init starts with all its calls ahead of it.
LEMMA InitList ==
  /\ ListOf(StorageCalls \o NatCalls, "init")
  /\ \A d \in Dirs : Has(StorageCalls \o NatCalls, <<"mkdir", d>>)
  /\ \A f \in Files : /\ Has(StorageCalls \o NatCalls, <<"create", f>>)
                      /\ Has(StorageCalls \o NatCalls, <<"losetup", f>>)
                      /\ ~Has(StorageCalls \o NatCalls, <<"grow", f>>)
  /\ Has(StorageCalls \o NatCalls, <<"dmsetup", "pool">>)
  /\ \A r \in Rules : Has(StorageCalls \o NatCalls, <<"append", r>>)
<1>1. StorageCalls \in Seq(InitSet) /\ NatCalls \in Seq(InitSet)
  <2>1. StorageCalls \in Seq(InitSet)
    BY DEF StorageCalls, InitSet
  <2>2. NatCalls \in Seq(InitSet)
    BY DEF NatCalls, InitSet
  <2> QED
    BY <2>1, <2>2
<1>2. \A i \in DOMAIN StorageCalls : InitRank(StorageCalls[i]) = 2 * i /\ i \in 1..10
  BY DEF StorageCalls, InitRank
<1>3. \A i \in DOMAIN NatCalls : InitRank(NatCalls[i]) = 20 + 2 * i /\ i \in 1..5
  BY DEF NatCalls, InitRank
<1>4. ListOf(StorageCalls, "init") /\ ListOf(NatCalls, "init") /\ "init" \in Modes
  BY <1>1, <1>2, <1>3 DEF ListOf, Sorted, Rank, CallsOf, Modes
<1>5. \A c, d : Has(StorageCalls, c) /\ Has(NatCalls, d) => Rank("init", c) < Rank("init", d)
  BY <1>2, <1>3 DEF Has, Rank
<1>6. /\ ListOf(StorageCalls \o NatCalls, "init")
      /\ \A c : Has(StorageCalls \o NatCalls, c) <=> (Has(StorageCalls, c) \/ Has(NatCalls, c))
  BY <1>4, <1>5, Joined
<1>7. \A d \in Dirs : Has(StorageCalls, <<"mkdir", d>>)
  BY DEF StorageCalls, Has, Dirs
<1>8. \A f \in Files : Has(StorageCalls, <<"create", f>>) /\ Has(StorageCalls, <<"losetup", f>>)
  BY DEF StorageCalls, Has, Files
<1>9. \A f \in Files : ~Has(StorageCalls, <<"grow", f>>) /\ ~Has(NatCalls, <<"grow", f>>)
  BY DEF StorageCalls, NatCalls, Has, Files
<1>10. Has(StorageCalls, <<"dmsetup", "pool">>)
  BY DEF StorageCalls, Has
<1>11. \A r \in Rules : Has(NatCalls, <<"append", r>>)
  BY DEF NatCalls, Has, Rules
<1> QED
  BY <1>6, <1>7, <1>8, <1>9, <1>10, <1>11

\* So does teardown.
LEMMA TeardownList ==
  /\ ListOf(StorageTeardown \o NatTeardown, "teardown")
  /\ Has(StorageTeardown \o NatTeardown, <<"pkill", "containerd">>)
  /\ Has(StorageTeardown \o NatTeardown, <<"dmremove", "pool">>)
  /\ \A f \in Files : Has(StorageTeardown \o NatTeardown, <<"detach", f>>)
  /\ Has(StorageTeardown \o NatTeardown, <<"rmdir", "state">>)
  /\ \A r \in Rules : Has(StorageTeardown \o NatTeardown, <<"delete", r>>)
<1>1. StorageTeardown \in Seq(TeardownSet) /\ NatTeardown \in Seq(TeardownSet)
  <2>1. StorageTeardown \in Seq(TeardownSet)
    BY DEF StorageTeardown, TeardownSet
  <2>2. NatTeardown \in Seq(TeardownSet)
    BY DEF NatTeardown, TeardownSet
  <2> QED
    BY <2>1, <2>2
<1>2. \A i \in DOMAIN StorageTeardown : TeardownRank(StorageTeardown[i]) = i /\ i \in 1..5
  BY DEF StorageTeardown, TeardownRank
<1>3. \A i \in DOMAIN NatTeardown : TeardownRank(NatTeardown[i]) = 5 + i /\ i \in 1..5
  BY DEF NatTeardown, TeardownRank
<1>4. ListOf(StorageTeardown, "teardown") /\ ListOf(NatTeardown, "teardown") /\ "teardown" \in Modes
  BY <1>1, <1>2, <1>3 DEF ListOf, Sorted, Rank, CallsOf, Modes
<1>5. \A c, d : Has(StorageTeardown, c) /\ Has(NatTeardown, d) => Rank("teardown", c) < Rank("teardown", d)
  BY <1>2, <1>3 DEF Has, Rank
<1>6. /\ ListOf(StorageTeardown \o NatTeardown, "teardown")
      /\ \A c : Has(StorageTeardown \o NatTeardown, c) <=> (Has(StorageTeardown, c) \/ Has(NatTeardown, c))
  BY <1>4, <1>5, Joined
<1>7. Has(StorageTeardown, <<"pkill", "containerd">>) /\ Has(StorageTeardown, <<"dmremove", "pool">>)
      /\ Has(StorageTeardown, <<"rmdir", "state">>)
  BY DEF StorageTeardown, Has
<1>8. \A f \in Files : Has(StorageTeardown, <<"detach", f>>)
  BY DEF StorageTeardown, Has, Files
<1>9. \A r \in Rules : Has(NatTeardown, <<"delete", r>>)
  BY DEF NatTeardown, Has, Rules
<1> QED
  BY <1>6, <1>7, <1>8, <1>9

-----------------------------------------------------------------------------
(* What a step does to the lists *)

\* The running command makes call c, the first of its list.
Popped(c) ==
    /\ c \in CallsOf(mode) /\ Has(todo, c) /\ ListOf(todo', mode) /\ mode' = mode
    /\ \A d : Has(todo', d) <=> (Has(todo, d) /\ d # c)
    /\ \A d : Has(todo, d) /\ d # c => Rank(mode, c) < Rank(mode, d)

\* The head of the list is made.
LEMMA Pops ==
  ASSUME ListInv, todo # <<>>, todo' = Tail(todo), mode' = mode PROVE Popped(Head(todo))
<1>1. mode \in Modes /\ ListOf(todo, mode)
  BY DEF ListInv
<1> QED
  BY <1>1, TakeHead DEF Popped

\* ... and nothing is put on cleanupStack.
LEMMA DoneNothing ==
  ASSUME ListInv, NEW op, NEW x, Call(op, x), Done(<<>>)
  PROVE  Popped(<<op, x>>) /\ undo' = undo /\ UNCHANGED <<mode, before, errs, warned>> /\ Mirror'
<1>1. /\ todo # <<>> /\ Head(todo) = <<op, x>> /\ todo' = Tail(todo) /\ UNCHANGED <<mode, before, errs, warned>>
      /\ undo' = <<>> \o undo
  BY DEF Call, Done
<1>2. Popped(<<op, x>>)
  BY <1>1, Pops
<1>3. undo \in Seq(CallsOf("undo"))
  BY DEF ListInv, ListOf
<1>4. undo' = undo
  BY <1>1, <1>3, ConcatEmptySeq
<1>5. Mirror'
  BY <1>1, <1>2, <1>4 DEF ListInv, Mirror, Popped
<1> QED
  BY <1>1, <1>2, <1>4, <1>5

\* ... or the call that undoes it.
LEMMA DonePush ==
  ASSUME ListInv, mode = "init", NEW op, NEW x, Call(op, x), NEW u \in UndoSet, Done(<<u>>),
         OriginRank(u) = InitRank(<<op, x>>)
  PROVE  /\ Popped(<<op, x>>) /\ ListOf(undo', "undo") /\ UNCHANGED <<mode, before, errs, warned>>
         /\ \A y : Has(undo', y) <=> (y = u \/ Has(undo, y))
         /\ Mirror' /\ ~Has(undo, u)
<1>1. /\ todo # <<>> /\ Head(todo) = <<op, x>> /\ todo' = Tail(todo) /\ UNCHANGED <<mode, before, errs, warned>>
      /\ undo' = <<u>> \o undo
  BY DEF Call, Done
<1>2. Popped(<<op, x>>)
  BY <1>1, Pops
<1>3. ListOf(undo, "undo") /\ "undo" \in Modes /\ u \in CallsOf("undo") /\ CallsOf("undo") = UndoSet
      /\ CallsOf("init") = InitSet
  BY DEF ListInv, Modes, CallsOf
<1>4. <<op, x>> \in InitSet /\ Has(todo, <<op, x>>)
  BY <1>2, <1>3 DEF Popped
<1>5. \A y : Has(undo, y) => y \in UndoSet
  BY <1>3, HasType
<1>6. \A y : Has(undo, y) => OriginRank(y) < OriginRank(u)
  BY <1>4, <1>5 DEF ListInv, Mirror
<1>7. \A y \in UndoSet : OriginRank(y) \in 1..18
  BY DEF UndoSet, OriginRank
<1>8. \A y : Has(undo, y) => Rank("undo", u) < Rank("undo", y)
  BY <1>5, <1>6, <1>7 DEF Rank
<1>9. ListOf(undo', "undo") /\ \A y : Has(undo', y) <=> (y = u \/ Has(undo, y))
  BY <1>1, <1>3, <1>8, PutHead
<1>10. \A d \in InitSet : InitRank(d) \in 1..30
  BY DEF InitSet, InitRank
<1>11. ASSUME NEW y \in UndoSet, NEW d \in InitSet, Has(undo', y), Has(todo', d)
       PROVE  OriginRank(y) < InitRank(d)
  <2>1. Has(todo, d) /\ InitRank(<<op, x>>) < InitRank(d)
    BY <1>2, <1>11 DEF Popped, Rank
  <2>2. CASE y = u
    BY <2>1, <2>2
  <2>3. CASE Has(undo, y)
    BY <1>11, <2>1, <2>3 DEF ListInv, Mirror
  <2> QED
    BY <1>9, <1>11, <2>2, <2>3
<1>12. Mirror'
  BY <1>11 DEF Mirror
<1>13. ~Has(undo, u)
  BY <1>6, <1>7
<1> QED
  BY <1>1, <1>2, <1>9, <1>12, <1>13

\* Which command makes which calls.
LEMMA CallMode ==
  ASSUME ListInv, NEW op, NEW x, Call(op, x)
  PROVE  /\ <<op, x>> \in CallsOf(mode)
         /\ op \in {"mkdir", "create", "grow", "losetup", "dmsetup", "write", "start", "append"}
              => mode = "init"
         /\ op = "rm" => mode = "undo"
         /\ op \in {"rmdir", "detach", "dmremove"} => mode \in {"undo", "teardown"}
         /\ op \in {"pkill", "delete"} => mode = "teardown"
<1>1. <<op, x>> \in CallsOf(mode) /\ mode \in Modes
  BY TakeHead DEF ListInv, Call
<1>2. CASE mode = "idle"
  BY <1>1, <1>2 DEF CallsOf
<1>3. CASE mode = "init"
  <2>1. <<op, x>> \in InitSet
    BY <1>1, <1>3 DEF CallsOf
  <2>2. op \in {"mkdir", "create", "grow", "losetup", "dmsetup", "write", "start", "append"}
    BY <2>1 DEF InitSet
  <2> QED
    BY <1>1, <1>3, <2>2
<1>4. CASE mode = "undo"
  <2>1. <<op, x>> \in UndoSet
    BY <1>1, <1>4 DEF CallsOf
  <2>2. op \in {"rm", "rmdir", "detach", "dmremove"}
    BY <2>1 DEF UndoSet
  <2> QED
    BY <1>1, <1>4, <2>2
<1>5. CASE mode = "teardown"
  <2>1. <<op, x>> \in TeardownSet
    BY <1>1, <1>5 DEF CallsOf
  <2>2. op \in {"rmdir", "detach", "dmremove", "pkill", "delete"}
    BY <2>1 DEF TeardownSet
  <2> QED
    BY <1>1, <1>5, <2>2
<1> QED
  BY <1>1, <1>2, <1>3, <1>4, <1>5 DEF Modes

\* The clean-up call that goes with a call of init.
LEMMA Origins ==
  /\ \A d \in Dirs : <<"rmdir", d>> \in UndoSet /\ OriginRank(<<"rmdir", d>>) = InitRank(<<"mkdir", d>>)
  /\ \A f \in Files : /\ <<"rm", f>> \in UndoSet /\ OriginRank(<<"rm", f>>) = InitRank(<<"grow", f>>)
                      /\ <<"detach", f>> \in UndoSet /\ OriginRank(<<"detach", f>>) = InitRank(<<"losetup", f>>)
  /\ <<"dmremove", "pool">> \in UndoSet /\ OriginRank(<<"dmremove", "pool">>) = InitRank(<<"dmsetup", "pool">>)
  /\ <<"rm", "config">> \in UndoSet /\ OriginRank(<<"rm", "config">>) = InitRank(<<"write", "config">>)
<1>1. \A d \in Dirs : <<"rmdir", d>> \in UndoSet /\ OriginRank(<<"rmdir", d>>) = InitRank(<<"mkdir", d>>)
  BY DEF Dirs, UndoSet, OriginRank, InitRank
<1>2. \A f \in Files : <<"rm", f>> \in UndoSet /\ OriginRank(<<"rm", f>>) = InitRank(<<"grow", f>>)
  BY DEF Files, UndoSet, OriginRank, InitRank
<1>3. \A f \in Files : <<"detach", f>> \in UndoSet /\ OriginRank(<<"detach", f>>) = InitRank(<<"losetup", f>>)
  BY DEF Files, UndoSet, OriginRank, InitRank
<1>4. <<"dmremove", "pool">> \in UndoSet /\ OriginRank(<<"dmremove", "pool">>) = InitRank(<<"dmsetup", "pool">>)
  BY DEF UndoSet, OriginRank, InitRank
<1>5. <<"rm", "config">> \in UndoSet /\ OriginRank(<<"rm", "config">>) = InitRank(<<"write", "config">>)
  BY DEF UndoSet, OriginRank, InitRank
<1> QED
  BY <1>1, <1>2, <1>3, <1>4, <1>5

-----------------------------------------------------------------------------
(* The invariants *)

\* what a store may be: now, or as init found it
StoreTypes(ds, fs, ls, p) ==
    /\ ds \subseteq Dirs
    /\ fs \in [Files -> {"absent", "empty", "full"}]
    /\ ls \in [Files -> SUBSET {"live", "dead"}]
    /\ p \in {"none", "live", "dead"}

\* No file outlives its directory, no live device or pool its file.
Sound(ds, fs, ls, p) ==
    /\ \A f \in Files : fs[f] # "absent" => "state" \in ds /\ "devmapper" \in ds
    /\ "state" \notin ds => ds = {}
    /\ \A f \in Files : fs[f] = "absent" => "live" \notin ls[f]
    /\ p = "live" => \A f \in Files : fs[f] = "full"

Types ==
    /\ StoreTypes(dirs, file, loops, pool)
    /\ StoreTypes(before.dirs, before.file, before.loops, before.pool)

\* Without a failed clean-up call there is nothing dead.
Alive ==
    ~warned => ~errs /\ pool # "dead" /\ \A f \in Files : "dead" \notin loops[f]

SoundNow == Sound(dirs, file, loops, pool)
SoundBefore == Sound(before.dirs, before.file, before.loops, before.pool)

\* The calls of Bootstrap that are not ahead any more were made.
InitDone ==
    mode = "init" =>
        /\ \A d \in Dirs : ~Has(todo, <<"mkdir", d>>) => d \in dirs
        /\ \A f \in Files :
            /\ ~Has(todo, <<"create", f>>) => file[f] # "absent"
            /\ ~Has(todo, <<"losetup", f>>) => "live" \in loops[f]
            /\ Has(todo, <<"grow", f>>) /\ ~errs => before.file[f] = "absent"
        /\ ~Has(todo, <<"dmsetup", "pool">>) => pool # "none"

\* cleanupStack, while it grows and while it is worked off
Stack == IF mode = "init" THEN undo ELSE todo

\* What has an entry on cleanupStack was not there before; what has none is as it was.
Pending ==
    mode \in {"init", "undo"} /\ ~errs =>
        /\ \A d \in Dirs :
            /\ Has(Stack, <<"rmdir", d>>) => d \notin before.dirs
            /\ ~Has(Stack, <<"rmdir", d>>) => (d \in dirs <=> d \in before.dirs)
        /\ \A f \in Files :
            /\ Has(Stack, <<"rm", f>>) => before.file[f] = "absent"
            /\ ~Has(Stack, <<"rm", f>>) =>
                file[f] = before.file[f] \/ (before.file[f] = "absent" /\ file[f] = "empty")
            /\ Has(Stack, <<"detach", f>>) =>
                "live" \notin before.loops[f] /\ loops[f] = before.loops[f] \cup {"live"}
            /\ ~Has(Stack, <<"detach", f>>) => loops[f] = before.loops[f]
        /\ Has(Stack, <<"dmremove", "pool">>) => before.pool = "none"
        /\ ~Has(Stack, <<"dmremove", "pool">>) => pool = before.pool

\* The calls of Teardown that are not ahead any more were made, if none has failed.
TeardownDone ==
    mode = "teardown" /\ ~warned =>
        /\ ~Has(todo, <<"pkill", "containerd">>) => ~containerd
        /\ ~Has(todo, <<"dmremove", "pool">>) => pool = "none"
        /\ \A f \in Files : ~Has(todo, <<"detach", f>>) => "live" \notin loops[f]
        /\ ~Has(todo, <<"rmdir", "state">>) =>
            dirs = {} /\ ~config /\ \A f \in Files : file[f] = "absent" /\ loops[f] = {}

StoreInv == SoundNow /\ SoundBefore /\ Alive /\ InitDone /\ Pending /\ TeardownDone

\* The copies of the rules that the calls ahead will add, or have not yet removed.
NatInv ==
    /\ copies \in [Rules -> Nat] /\ missed \in [Rules -> 0 .. MaxMissed]
    /\ inits \in 0 .. MaxInits /\ NatBalanced
    /\ mode = "init" =>
        /\ Has(todo, <<"append", "masquerade">>) => inits < MaxInits
        /\ ~Has(todo, <<"append", "masquerade">>) =>
            \A r \in Rules : Has(todo, <<"append", r>>) => copies[r] < inits + missed[r]
    /\ mode = "teardown" /\ todo # <<>> =>
        \A r \in Rules :
            ~Has(todo, <<"delete", r>>) => copies[r] = 0 \/ copies[r] < inits + missed[r]

-----------------------------------------------------------------------------
(* The lists are kept *)

\* A rollback and a teardown grow no file.
LEMMA GrowInInit ==
  ASSUME ListInv, mode # "init", NEW f PROVE ~Has(todo, <<"grow", f>>)
<1> SUFFICES ASSUME Has(todo, <<"grow", f>>) PROVE FALSE
  OBVIOUS
<1>1. <<"grow", f>> \in CallsOf(mode) /\ mode \in Modes
  BY HasType DEF ListInv
<1>2. <<"grow", f>> \notin UndoSet /\ <<"grow", f>> \notin TeardownSet
  BY DEF UndoSet, TeardownSet
<1> QED
  BY <1>1, <1>2 DEF CallsOf, Modes

\* A command that makes a call and registers nothing keeps the lists.
LEMMA NothingKeeps ==
  ASSUME ListInv, NEW op, NEW x, Call(op, x), Done(<<>>),
         file' \in [Files -> {"absent", "empty", "full"}],
         \A f \in Files : Has(todo, <<"grow", f>>) /\ <<op, x>> # <<"grow", f>> => file'[f] = file[f]
  PROVE  ListInv'
<1>1. Popped(<<op, x>>) /\ undo' = undo /\ mode' = mode /\ Mirror'
  BY DoneNothing
<1>2. mode \in Modes /\ ListOf(undo, "undo") /\ (mode \in {"idle", "teardown"} => undo = <<>>) /\ Growing
  BY DEF ListInv
<1>3. Growing'
  BY <1>1, <1>2 DEF Growing, Popped
<1> QED
  BY <1>1, <1>2, <1>3 DEF ListInv, Popped

\* So does one that registers what undoes the call.
LEMMA PushKeeps ==
  ASSUME ListInv, mode = "init", NEW op, NEW x, Call(op, x), NEW u \in UndoSet, Done(<<u>>),
         OriginRank(u) = InitRank(<<op, x>>),
         file' \in [Files -> {"absent", "empty", "full"}],
         \A f \in Files : Has(todo, <<"grow", f>>) /\ <<op, x>> # <<"grow", f>> => file'[f] = file[f]
  PROVE  ListInv'
<1>1. Popped(<<op, x>>) /\ ListOf(undo', "undo") /\ mode' = mode /\ Mirror'
  BY DonePush
<1>2. mode \in Modes /\ Growing
  BY DEF ListInv
<1>3. Growing'
  BY <1>1, <1>2 DEF Growing, Popped
<1> QED
  BY <1>1, <1>2, <1>3 DEF ListInv, Popped

\* Before the first command there are no lists, nor after the last.
LEMMA ListIdle ==
  ASSUME Idle, file' \in [Files -> {"absent", "empty", "full"}] PROVE ListInv'
<1>1. mode' = "idle" /\ todo' = <<>> /\ undo' = <<>>
  BY DEF Idle
<1>2. ListOf(<<>>, "idle") /\ ListOf(<<>>, "undo") /\ \A c : ~Has(<<>>, c)
  BY EmptyList
<1>3. Mirror' /\ Growing'
  BY <1>1, <1>2 DEF Mirror, Growing
<1> QED
  BY <1>1, <1>2, <1>3 DEF ListInv, Modes

\* os.Create in createSparseFile: the list starts with Truncate instead.
LEMMA Created ==
  ASSUME ListInv, NEW f \in Files, createSparseFile(f), file[f] = "absent"
  PROVE  /\ mode = "init" /\ UNCHANGED <<mode, undo, before, errs, warned>>
         /\ Has(todo, <<"create", f>>) /\ ~Has(todo, <<"grow", f>>)
         /\ ListOf(todo', "init")
         /\ \A c : Has(todo', c) <=> (c = <<"grow", f>> \/ (Has(todo, c) /\ c # <<"create", f>>))
         /\ \A c : Has(todo, c) => c = <<"create", f>> \/ Rank("init", <<"create", f>>) < Rank("init", c)
<1>0. Call("create", f) /\ mode = "init"
  BY CallMode DEF createSparseFile
<1>1. /\ file' = [file EXCEPT ![f] = "empty"] /\ todo' = <<<<"grow", f>>>> \o Tail(todo)
      /\ UNCHANGED <<mode, undo, before, errs, warned>>
  BY DEF createSparseFile
<1>2. /\ ListOf(Tail(todo), "init") /\ Has(todo, <<"create", f>>)
      /\ \A c : Has(Tail(todo), c) <=> (Has(todo, c) /\ c # <<"create", f>>)
      /\ \A c : Has(todo, c) => c = <<"create", f>> \/ Rank("init", <<"create", f>>) < Rank("init", c)
  BY <1>0, TakeHead DEF ListInv, Call, Modes
<1>3. ~Has(todo, <<"grow", f>>)
  BY DEF ListInv, Growing
<1>4. CallsOf("init") = InitSet /\ <<"grow", f>> \in InitSet
  BY DEF CallsOf, InitSet, Files
<1>5. \A c : Has(Tail(todo), c) => c \in InitSet
  BY <1>2, <1>4, HasType
<1>6. \A c \in InitSet : InitRank(c) > InitRank(<<"create", f>>) /\ c # <<"grow", f>>
          => InitRank(<<"grow", f>>) < InitRank(c)
  BY DEF InitSet, InitRank, Files
<1>7. \A c : Has(Tail(todo), c) => Rank("init", <<"grow", f>>) < Rank("init", c)
  <2>1. \A c \in InitSet : InitRank(c) \in 1..30 /\ InitRank(<<"create", f>>) \in 1..30
    BY DEF InitSet, InitRank, Files
  <2> QED
    BY <1>2, <1>3, <1>5, <1>6, <2>1 DEF Rank
<1>8. ListOf(todo', "init") /\ \A c : Has(todo', c) <=> (c = <<"grow", f>> \/ Has(Tail(todo), c))
  BY <1>1, <1>2, <1>4, <1>7, PutHead DEF Modes
<1> QED
  BY <1>0, <1>1, <1>2, <1>3, <1>8

\* No step of init, rollback or teardown puts the lists out of order.
LEMMA ListStep == ListInv /\ [Next]_vars => ListInv'
<1> SUFFICES ASSUME ListInv, [Next]_vars PROVE ListInv'
  OBVIOUS
<1> DEFINE FileType == [Files -> {"absent", "empty", "full"}]
<1>0. file \in FileType /\ mode \in Modes
  BY DEF ListInv
<1>1. CASE RunInit
  <2>1. mode' = "init" /\ todo' = StorageCalls \o NatCalls /\ undo' = <<>> /\ file' = file
    BY <1>1 DEF RunInit, storeVars
  <2>2. ListOf(todo', "init") /\ \A f \in Files : ~Has(todo', <<"grow", f>>)
    BY <2>1, InitList
  <2>3. Mirror' /\ Growing'
    BY <2>1, <2>2, EmptyList DEF Mirror, Growing
  <2> QED
    BY <1>0, <2>1, <2>2, <2>3, EmptyList DEF ListInv, Modes
<1>2. CASE RunTeardown
  <2>1. mode' = "teardown" /\ todo' = StorageTeardown \o NatTeardown /\ undo' = <<>> /\ file' = file
    BY <1>2 DEF RunTeardown, storeVars
  <2>2. ListOf(todo', "teardown")
    BY <2>1, TeardownList
  <2>3. \A f \in Files : ~Has(todo', <<"grow", f>>)
    <3>1. \A c : Has(todo', c) => c \in CallsOf("teardown")
      BY <2>2, HasType
    <3>2. \A f : <<"grow", f>> \notin CallsOf("teardown")
      BY DEF CallsOf, TeardownSet
    <3> QED
      BY <3>1, <3>2
  <2>4. Mirror' /\ Growing'
    BY <2>1, <2>3 DEF Mirror, Growing
  <2> QED
    BY <1>0, <2>1, <2>2, <2>4, EmptyList DEF ListInv, Modes
<1>3. CASE BootstrapFails
  <2>1. mode' = "undo" /\ todo' = undo /\ undo' = undo /\ file' = file
    BY <1>3 DEF BootstrapFails, storeVars
  <2>2. ListOf(undo, "undo")
    BY DEF ListInv
  <2>3. \A f \in Files : ~Has(todo', <<"grow", f>>)
    <3>1. \A c : Has(undo, c) => c \in CallsOf("undo")
      BY <2>2, HasType
    <3>2. \A f : <<"grow", f>> \notin CallsOf("undo")
      BY DEF CallsOf, UndoSet
    <3> QED
      BY <2>1, <3>1, <3>2
  <2>4. Mirror' /\ Growing'
    BY <2>1, <2>3 DEF Mirror, Growing
  <2> QED
    BY <1>0, <2>1, <2>2, <2>4 DEF ListInv, Modes
<1>4. CASE Finish
  BY <1>0, <1>4, ListIdle DEF Finish, storeVars
<1>5. CASE RebootHost
  BY <1>0, <1>5, ListIdle DEF RebootHost
<1>6. ASSUME NEW d \in Dirs, MakeDir(d) PROVE ListInv'
  <2>1. Call("mkdir", d) /\ file' = file /\ mode = "init"
    BY <1>6, CallMode DEF MakeDir
  <2>2. Done(<<>>) \/ Done(<<<<"rmdir", d>>>>)
    BY <1>6 DEF MakeDir
  <2> QED
    BY <1>0, <2>1, <2>2, NothingKeeps, PushKeeps, Origins
<1>7. ASSUME NEW d \in Dirs, RemoveDir(d) PROVE ListInv'
  <2>1. Call("rmdir", d) /\ Done(<<>>)
    BY <1>7 DEF RemoveDir
  <2>2. mode # "init"
    BY <2>1, CallMode
  <2>3. file' \in FileType
    BY <1>0, <1>7 DEF RemoveDir, Delete, Dirs
  <2> QED
    BY <2>1, <2>2, <2>3, GrowInInit, NothingKeeps
<1>8. ASSUME NEW f \in Files, createSparseFile(f) PROVE ListInv'
  <2>1. Call("create", f) /\ mode = "init"
    BY <1>8, CallMode DEF createSparseFile
  <2>2. CASE file[f] # "absent"
    BY <1>0, <1>8, <2>1, <2>2, NothingKeeps DEF createSparseFile
  <2>3. CASE file[f] = "absent"
    <3>1. file' = [file EXCEPT ![f] = "empty"]
      BY <1>8, <2>3 DEF createSparseFile
    <3>2. /\ mode' = mode /\ undo' = undo /\ Has(todo, <<"create", f>>) /\ ListOf(todo', "init")
          /\ \A c : Has(todo', c) <=> (c = <<"grow", f>> \/ (Has(todo, c) /\ c # <<"create", f>>))
      BY <1>8, <2>3, Created
    <3>3. Mirror'
      <4>1. ASSUME NEW u \in UndoSet, NEW c \in InitSet, Has(undo, u), Has(todo', c)
            PROVE  OriginRank(u) < InitRank(c)
        <5>1. OriginRank(u) < InitRank(<<"create", f>>)
          <6>1. <<"create", f>> \in InitSet
            BY DEF InitSet, Files
          <6> QED
            BY <6>1, <4>1, <3>2, <2>1 DEF ListInv, Mirror
        <5>2. CASE Has(todo, c)
          BY <2>1, <4>1, <5>2 DEF ListInv, Mirror
        <5>3. CASE c = <<"grow", f>>
          <6>1. InitRank(<<"grow", f>>) = InitRank(<<"create", f>>) + 1 /\ InitRank(<<"create", f>>) \in Nat
            BY DEF InitRank, Files
          <6>2. OriginRank(u) \in Nat
            BY DEF UndoSet, OriginRank
          <6> QED
            BY <5>1, <5>3, <6>1, <6>2
        <5> QED
          BY <4>1, <3>2, <5>2, <5>3
      <4> QED
        BY <3>2, <4>1 DEF Mirror
    <3>4. Growing'
      <4>1. \A g \in Files : Has(todo', <<"grow", g>>) => g = f \/ Has(todo, <<"grow", g>>)
        BY <3>2
      <4> QED
        BY <4>1, <3>1, <1>0 DEF ListInv, Growing
    <3> QED
      BY <1>0, <2>1, <3>1, <3>2, <3>3, <3>4 DEF ListInv
  <2> QED
    BY <2>2, <2>3
<1>9. ASSUME NEW f \in Files, Grow(f) PROVE ListInv'
  <2>1. Call("grow", f) /\ mode = "init" /\ Done(<<<<"rm", f>>>>) /\ file' = [file EXCEPT ![f] = "full"]
    BY <1>9, CallMode DEF Grow
  <2>2. \A g \in Files : <<"grow", f>> # <<"grow", g>> => file'[g] = file[g]
    BY <1>0, <2>1
  <2>3. file' \in FileType
    BY <1>0, <2>1
  <2> QED
    BY <2>1, <2>2, <2>3, PushKeeps, Origins
<1>10. ASSUME NEW f \in Files, setupLoopDevice(f) PROVE ListInv'
  <2>1. Call("losetup", f) /\ file' = file /\ mode = "init"
    BY <1>10, CallMode DEF setupLoopDevice
  <2>2. Done(<<>>) \/ Done(<<<<"detach", f>>>>)
    BY <1>10 DEF setupLoopDevice
  <2> QED
    BY <1>0, <2>1, <2>2, NothingKeeps, PushKeeps, Origins
<1>11. ASSUME NEW f \in Files, RemoveFile(f) PROVE ListInv'
  <2>1. Call("rm", f) /\ Done(<<>>)
    BY <1>11 DEF RemoveFile
  <2>2. mode # "init"
    BY <2>1, CallMode
  <2>3. file' \in FileType
    BY <1>0, <1>11 DEF RemoveFile, Delete
  <2> QED
    BY <2>1, <2>2, <2>3, GrowInInit, NothingKeeps
<1>12. ASSUME NEW f \in Files, DetachLoop(f) PROVE ListInv'
  BY <1>0, <1>12, NothingKeeps DEF DetachLoop
<1>13. CASE CreatePool
  <2>1. Call("dmsetup", "pool") /\ file' = file /\ mode = "init"
    BY <1>13, CallMode DEF CreatePool
  <2>2. Done(<<>>) \/ Done(<<<<"dmremove", "pool">>>>)
    BY <1>13 DEF CreatePool
  <2> QED
    BY <1>0, <2>1, <2>2, NothingKeeps, PushKeeps, Origins
<1>14. CASE WriteConfig
  <2>1. Call("write", "config") /\ file' = file /\ mode = "init" /\ Done(<<<<"rm", "config">>>>)
    BY <1>14, CallMode DEF WriteConfig
  <2> QED
    BY <1>0, <2>1, PushKeeps, Origins
<1>15. CASE StartContainerd
  BY <1>0, <1>15, NothingKeeps DEF StartContainerd
<1>16. CASE RemoveConfig
  BY <1>0, <1>16, NothingKeeps DEF RemoveConfig
<1>17. CASE RemovePool
  BY <1>0, <1>17, NothingKeeps DEF RemovePool
<1>18. CASE StopContainerd
  BY <1>0, <1>18, NothingKeeps DEF StopContainerd
<1>19. CASE CleanupFails
  <2>1. todo # <<>> /\ todo' = Tail(todo) /\ mode' = mode /\ undo' = undo /\ file' = file
    BY <1>19 DEF CleanupFails, Doing, storeVars
  <2>2. Popped(Head(todo))
    BY <2>1, Pops
  <2> QED
    BY <2>1, <2>2 DEF ListInv, Popped, Mirror, Growing
<1>20. ASSUME NEW r \in Rules, AppendRule(r) PROVE ListInv'
  BY <1>0, <1>20, NothingKeeps DEF AppendRule, storeVars
<1>21. ASSUME NEW r \in Rules, DeleteRule(r) PROVE ListInv'
  BY <1>0, <1>21, NothingKeeps DEF DeleteRule, storeVars
<1>22. CASE UNCHANGED vars
  BY <1>22 DEF vars, cmdVars, storeVars, ListInv, Mirror, Growing
<1> QED
  BY <1>1, <1>2, <1>3, <1>4, <1>5, <1>6, <1>7, <1>8, <1>9, <1>10, <1>11, <1>12, <1>13, <1>14,
     <1>15, <1>16, <1>17, <1>18, <1>19, <1>20, <1>21, <1>22 DEF Next

\* The lists are empty at first.
LEMMA ListInit == Init => ListInv
  BY EmptyList DEF Init, ListInv, Mirror, Growing, Modes

-----------------------------------------------------------------------------
(* The NAT rules *)

\* A call that is no iptables call leaves the NAT part as it was.
LEMMA NatKept ==
  ASSUME NatInv, mode' = mode, UNCHANGED netVars, todo # <<>>,
         \A r \in Rules : /\ Has(todo', <<"append", r>>) <=> Has(todo, <<"append", r>>)
                          /\ Has(todo', <<"delete", r>>) <=> Has(todo, <<"delete", r>>)
  PROVE  NatInv'
  BY DEF NatInv, netVars, NatBalanced, Rules

\* The same for a call that is made and taken off the list.
LEMMA NatPopped ==
  ASSUME ListInv, NatInv, NEW op, NEW x, op \notin {"append", "delete"},
         Popped(<<op, x>>), UNCHANGED netVars
  PROVE  NatInv'
<1>1. mode' = mode /\ Has(todo, <<op, x>>)
      /\ \A d : Has(todo', d) <=> (Has(todo, d) /\ d # <<op, x>>)
  BY DEF Popped
<1>2. todo # <<>>
  BY <1>1, EmptyList
<1> QED
  BY <1>1, <1>2, NatKept

\* Every step keeps the rules within the inits that no teardown has matched.
LEMMA NatStep == ListInv /\ NatInv /\ [Next]_vars => NatInv'
<1> SUFFICES ASSUME ListInv, NatInv, [Next]_vars PROVE NatInv'
  OBVIOUS
<1>0. /\ MaxInits \in Nat \ {0} /\ MaxMissed \in Nat
      /\ copies \in [Rules -> Nat] /\ missed \in [Rules -> 0 .. MaxMissed] /\ inits \in 0..MaxInits
      /\ \A r \in Rules : /\ copies[r] <= inits + missed[r] /\ copies[r] \in Nat
                          /\ missed[r] \in Nat /\ missed[r] <= MaxMissed
  BY HostAssumption DEF NatInv, NatBalanced
<1>1. CASE RunInit
  <2>1. mode' = "init" /\ todo' = StorageCalls \o NatCalls /\ UNCHANGED netVars /\ inits < MaxInits
    BY <1>1 DEF RunInit
  <2>2. \A r \in Rules : Has(todo', <<"append", r>>)
    BY <2>1, InitList
  <2> QED
    BY <2>1, <2>2 DEF NatInv, NatBalanced, netVars, Rules
<1>2. CASE RunTeardown
  <2>1. mode' = "teardown" /\ todo' = StorageTeardown \o NatTeardown /\ UNCHANGED netVars
    BY <1>2 DEF RunTeardown
  <2>2. \A r \in Rules : Has(todo', <<"delete", r>>)
    BY <2>1, TeardownList
  <2> QED
    BY <2>1, <2>2 DEF NatInv, NatBalanced, netVars
<1>3. CASE BootstrapFails
  <2>1. mode' = "undo" /\ UNCHANGED netVars
    BY <1>3 DEF BootstrapFails
  <2> QED
    BY <2>1 DEF NatInv, NatBalanced, netVars
<1>4. CASE Finish
  <2>1. mode' = "idle" /\ UNCHANGED netVars
    BY <1>4 DEF Finish, Idle
  <2> QED
    BY <2>1 DEF NatInv, NatBalanced, netVars
<1>5. CASE RebootHost
  <2>1. mode' = "idle" /\ copies' = [r \in Rules |-> 0] /\ inits' = 0 /\ missed' = [r \in Rules |-> 0]
    BY <1>5 DEF RebootHost, Idle
  <2> QED
    BY <1>0, <2>1 DEF NatInv, NatBalanced
<1>6. ASSUME NEW d \in Dirs, MakeDir(d) PROVE NatInv'
  <2>1. Call("mkdir", d) /\ mode = "init" /\ UNCHANGED netVars
    BY <1>6, CallMode DEF MakeDir
  <2>2. Done(<<>>) \/ Done(<<<<"rmdir", d>>>>)
    BY <1>6 DEF MakeDir
  <2>3. Popped(<<"mkdir", d>>)
    BY <2>1, <2>2, DoneNothing, DonePush, Origins
  <2> QED
    BY <2>1, <2>3, NatPopped
<1>7. ASSUME NEW d \in Dirs, RemoveDir(d) PROVE NatInv'
  BY <1>7, DoneNothing, NatPopped DEF RemoveDir
<1>8. ASSUME NEW f \in Files, createSparseFile(f) PROVE NatInv'
  <2>1. Call("create", f) /\ mode = "init" /\ UNCHANGED netVars
    BY <1>8, CallMode DEF createSparseFile
  <2>2. CASE file[f] # "absent"
    BY <1>8, <2>1, <2>2, DoneNothing, NatPopped DEF createSparseFile
  <2>3. CASE file[f] = "absent"
    <3>1. /\ todo' = <<<<"grow", f>>>> \o Tail(todo) /\ mode' = mode /\ todo # <<>>
      BY <1>8, <2>1, <2>3 DEF createSparseFile, Call
    <3>2. \A c : Has(todo', c) <=> (c = <<"grow", f>> \/ (Has(todo, c) /\ c # <<"create", f>>))
      BY <1>8, <2>3, Created
    <3> QED
      BY <2>1, <3>1, <3>2, NatKept
  <2> QED
    BY <2>2, <2>3
<1>9. ASSUME NEW f \in Files, Grow(f) PROVE NatInv'
  <2>1. Call("grow", f) /\ mode = "init" /\ Done(<<<<"rm", f>>>>) /\ UNCHANGED netVars
    BY <1>9, CallMode DEF Grow
  <2>2. Popped(<<"grow", f>>)
    BY <2>1, DonePush, Origins
  <2> QED
    BY <2>1, <2>2, NatPopped
<1>10. ASSUME NEW f \in Files, setupLoopDevice(f) PROVE NatInv'
  <2>1. Call("losetup", f) /\ mode = "init" /\ UNCHANGED netVars
    BY <1>10, CallMode DEF setupLoopDevice
  <2>2. Done(<<>>) \/ Done(<<<<"detach", f>>>>)
    BY <1>10 DEF setupLoopDevice
  <2>3. Popped(<<"losetup", f>>)
    BY <2>1, <2>2, DoneNothing, DonePush, Origins
  <2> QED
    BY <2>1, <2>3, NatPopped
<1>11. ASSUME NEW f \in Files, RemoveFile(f) PROVE NatInv'
  BY <1>11, DoneNothing, NatPopped DEF RemoveFile
<1>12. ASSUME NEW f \in Files, DetachLoop(f) PROVE NatInv'
  BY <1>12, DoneNothing, NatPopped DEF DetachLoop
<1>13. CASE CreatePool
  <2>1. Call("dmsetup", "pool") /\ mode = "init" /\ UNCHANGED netVars
    BY <1>13, CallMode DEF CreatePool
  <2>2. Done(<<>>) \/ Done(<<<<"dmremove", "pool">>>>)
    BY <1>13 DEF CreatePool
  <2>3. Popped(<<"dmsetup", "pool">>)
    BY <2>1, <2>2, DoneNothing, DonePush, Origins
  <2> QED
    BY <2>1, <2>3, NatPopped
<1>14. CASE WriteConfig
  <2>1. Call("write", "config") /\ mode = "init" /\ Done(<<<<"rm", "config">>>>) /\ UNCHANGED netVars
    BY <1>14, CallMode DEF WriteConfig
  <2>2. Popped(<<"write", "config">>)
    BY <2>1, DonePush, Origins
  <2> QED
    BY <2>1, <2>2, NatPopped
<1>15. CASE StartContainerd
  BY <1>15, DoneNothing, NatPopped DEF StartContainerd
<1>16. CASE RemoveConfig
  BY <1>16, DoneNothing, NatPopped DEF RemoveConfig
<1>17. CASE RemovePool
  BY <1>17, DoneNothing, NatPopped DEF RemovePool
<1>18. CASE StopContainerd
  BY <1>18, DoneNothing, NatPopped DEF StopContainerd
<1>19. CASE CleanupFails
  <2>1. todo # <<>> /\ todo' = Tail(todo) /\ mode' = mode /\ UNCHANGED netVars
    BY <1>19 DEF CleanupFails, Doing
  <2>2. Popped(Head(todo))
    BY <2>1, Pops
  <2>3. Head(todo)[1] \notin {"append", "delete"}
    BY <1>19 DEF CleanupFails, Doing
  <2>4. \A r : <<"append", r>> # Head(todo) /\ <<"delete", r>> # Head(todo)
    BY <2>3
  <2> QED
    BY <2>1, <2>2, <2>4, NatKept DEF Popped
<1>20. ASSUME NEW r \in Rules, AppendRule(r) PROVE NatInv'
  <2>1. /\ Call("append", r) /\ Done(<<>>) /\ copies' = [copies EXCEPT ![r] = @ + 1]
        /\ inits' = IF r = "masquerade" THEN inits + 1 ELSE inits
        /\ missed' = missed
    BY <1>20 DEF AppendRule
  <2>2. mode = "init" /\ mode' = mode
    BY <2>1, CallMode, DoneNothing
  <2>3. /\ Has(todo, <<"append", r>>)
        /\ \A d : Has(todo', d) <=> (Has(todo, d) /\ d # <<"append", r>>)
        /\ \A d : Has(todo, d) /\ d # <<"append", r>> => InitRank(<<"append", r>>) < InitRank(d)
    BY <2>1, <2>2, DoneNothing DEF Popped, Rank
  <2>4. r # "masquerade" => ~Has(todo, <<"append", "masquerade">>)
    <3>1. r # "masquerade" => ~(InitRank(<<"append", r>>) < InitRank(<<"append", "masquerade">>))
      BY DEF InitRank, Rules
    <3> QED
      BY <2>3, <3>1
  <2>5. CASE r = "masquerade"
    <3>1. inits < MaxInits /\ inits' = inits + 1 /\ ~Has(todo', <<"append", "masquerade">>)
      BY <2>1, <2>2, <2>3, <2>5 DEF NatInv
    <3>2. \A q \in Rules : q # r => copies'[q] = copies[q]
      BY <1>0, <2>1
    <3>3. copies'[r] = copies[r] + 1 /\ copies' \in [Rules -> Nat]
      BY <1>0, <2>1
    <3>4. \A q \in Rules : /\ copies'[q] <= inits' + missed'[q]
                          /\ q # r => copies'[q] < inits' + missed'[q]
      BY <1>0, <2>1, <3>1, <3>2, <3>3
    <3> QED
      BY <1>0, <2>1, <2>2, <2>3, <2>5, <3>1, <3>3, <3>4 DEF NatInv, NatBalanced
  <2>6. CASE r # "masquerade"
    <3>1. copies[r] < inits + missed[r] /\ inits' = inits
      BY <2>1, <2>2, <2>3, <2>4, <2>6 DEF NatInv
    <3>2. \A q \in Rules : q # r => copies'[q] = copies[q]
      BY <1>0, <2>1
    <3>3. copies'[r] = copies[r] + 1 /\ copies' \in [Rules -> Nat]
      BY <1>0, <2>1
    <3>4. \A q \in Rules : copies'[q] <= inits' + missed'[q]
      BY <1>0, <2>1, <3>1, <3>2, <3>3
    <3>5. ~Has(todo', <<"append", "masquerade">>) /\ ~Has(todo, <<"append", "masquerade">>)
      BY <2>3, <2>4, <2>6
    <3>6. ASSUME NEW q \in Rules, Has(todo', <<"append", q>>) PROVE copies'[q] < inits' + missed'[q]
      <4>1. q # r /\ Has(todo, <<"append", q>>)
        BY <2>3, <3>6
      <4> QED
        BY <2>1, <2>2, <3>1, <3>2, <3>5, <4>1 DEF NatInv
    <3> QED
      BY <1>0, <2>1, <2>2, <3>1, <3>3, <3>4, <3>5, <3>6 DEF NatInv, NatBalanced
  <2> QED
    BY <2>5, <2>6
<1>21. ASSUME NEW r \in Rules, DeleteRule(r) PROVE NatInv'
  <2>1. /\ Call("delete", r) /\ Done(<<>>)
        /\ inits' = IF Len(todo) = 1 /\ inits > 0 THEN inits - 1 ELSE inits
        /\ todo # <<>> /\ todo' = Tail(todo) /\ Head(todo) = <<"delete", r>>
    BY <1>21 DEF DeleteRule, Call, Done
  <2>2. mode = "teardown" /\ mode' = mode
    BY <2>1, CallMode, DoneNothing
  <2>3. \A d : Has(todo', d) <=> (Has(todo, d) /\ d # <<"delete", r>>)
    BY <2>1, DoneNothing DEF Popped
  <2>4. /\ copies' \in [Rules -> Nat] /\ missed' \in [Rules -> 0 .. MaxMissed]
        /\ \A q \in Rules : q # r => copies'[q] = copies[q] /\ missed'[q] = missed[q]
        /\ copies'[r] = 0 \/ copies'[r] < inits + missed'[r]
        /\ copies'[r] <= inits + missed'[r]
    <3>1. CASE copies' = [copies EXCEPT ![r] = IF @ = 0 THEN 0 ELSE @ - 1] /\ missed' = missed
      <4>1. copies'[r] = (IF copies[r] = 0 THEN 0 ELSE copies[r] - 1) /\ copies' \in [Rules -> Nat]
        BY <1>0, <3>1
      <4>2. \A q \in Rules : q # r => copies'[q] = copies[q]
        BY <1>0, <3>1
      <4> QED
        BY <1>0, <3>1, <4>1, <4>2
    <3>2. CASE /\ \A q \in Rules : missed[q] < MaxMissed
               /\ missed' = [missed EXCEPT ![r] = @ + 1] /\ copies' = copies
      <4>1. missed'[r] = missed[r] + 1 /\ missed' \in [Rules -> 0 .. MaxMissed]
        BY <1>0, <3>2
      <4>2. \A q \in Rules : q # r => missed'[q] = missed[q]
        BY <1>0, <3>2
      <4> QED
        BY <1>0, <3>2, <4>1, <4>2
    <3> QED
      BY <1>21, <3>1, <3>2 DEF DeleteRule
  <2>5. \A q \in Rules : copies'[q] \in Nat /\ missed'[q] \in Nat /\ missed'[q] \in 0 .. MaxMissed
    BY <1>0, <2>4
  <2>6. \A q \in Rules : ~Has(todo, <<"delete", q>>) => copies[q] = 0 \/ copies[q] < inits + missed[q]
    BY <2>1, <2>2 DEF NatInv
  <2>7. todo \in Seq(CallsOf(mode)) /\ Len(todo) \in Nat
    <3>1. todo \in Seq(CallsOf(mode))
      BY DEF ListInv, ListOf
    <3> QED
      BY <3>1
  <2>8. CASE Len(todo) = 1
    <3>1. todo' = <<>>
      BY <2>1, <2>7, <2>8
    <3>2. \A q \in Rules : q # r => ~Has(todo, <<"delete", q>>)
      BY <2>3, <3>1, EmptyList
    <3>3. ASSUME NEW q \in Rules PROVE copies'[q] = 0 \/ copies'[q] < inits + missed'[q]
      BY <2>4, <2>6, <3>2
    <3>4. inits' \in 0..MaxInits /\ (inits' = inits - 1 \/ (inits' = 0 /\ inits = 0))
      BY <1>0, <2>1, <2>8
    <3>5. ASSUME NEW q \in Rules PROVE copies'[q] <= inits' + missed'[q]
      BY <1>0, <2>5, <3>3, <3>4
    <3> QED
      BY <2>2, <2>4, <3>1, <3>4, <3>5 DEF NatInv, NatBalanced
  <2>9. CASE Len(todo) # 1
    <3>1. inits' = inits
      BY <2>1, <2>9
    <3>2. ASSUME NEW q \in Rules, ~Has(todo', <<"delete", q>>)
          PROVE  copies'[q] = 0 \/ copies'[q] < inits + missed'[q]
      <4>1. CASE q = r
        BY <2>4, <4>1
      <4>2. CASE q # r
        <5>1. ~Has(todo, <<"delete", q>>)
          BY <3>2, <2>3, <4>2
        <5> QED
          BY <4>2, <5>1, <2>4, <2>6
      <4> QED
        BY <4>1, <4>2
    <3>3. \A q \in Rules : copies'[q] <= inits + missed'[q]
      BY <1>0, <2>4
    <3> QED
      BY <1>0, <2>2, <2>4, <3>1, <3>2, <3>3 DEF NatInv, NatBalanced
  <2> QED
    BY <2>8, <2>9
<1>22. CASE UNCHANGED vars
  BY <1>22 DEF vars, cmdVars, netVars, NatInv, NatBalanced
<1> QED
  BY <1>1, <1>2, <1>3, <1>4, <1>5, <1>6, <1>7, <1>8, <1>9, <1>10, <1>11, <1>12, <1>13, <1>14,
     <1>15, <1>16, <1>17, <1>18, <1>19, <1>20, <1>21, <1>22 DEF Next

\* There are no rules at first.
LEMMA NatInit == Init => NatInv
  BY HostAssumption DEF Init, NatInv, NatBalanced

\* nat.go, network.Bootstrap and network.Teardown: whatever commands were killed in
\* between, no rule has more copies in the kernel than there were inits that no teardown
\* has matched, and deletions of that rule that failed.  A deletion that fails, which
\* Teardown ignores, costs one copy of its own rule and none of the others.
THEOREM NatBalancedHolds == Spec => []NatBalanced
<1>1. Init => ListInv /\ NatInv
  BY ListInit, NatInit
<1>2. ListInv /\ NatInv /\ [Next]_vars => (ListInv /\ NatInv)'
  BY ListStep, NatStep
<1>3. ListInv /\ NatInv => NatBalanced
  BY DEF NatInv
<1> QED
  BY <1>1, <1>2, <1>3, PTL DEF Spec

-----------------------------------------------------------------------------
(* The types *)

Flags == config \in BOOLEAN /\ containerd \in BOOLEAN /\ errs \in BOOLEAN /\ warned \in BOOLEAN

\* Every step keeps the types of the store and of what init found.
LEMMA TypesStep == ListInv /\ Types /\ Flags /\ [Next]_vars => Types' /\ Flags'
<1> SUFFICES ASSUME ListInv, Types, Flags, [Next]_vars PROVE Types' /\ Flags'
  OBVIOUS
<1> DEFINE FileType == [Files -> {"absent", "empty", "full"}]
           LoopType == [Files -> SUBSET {"live", "dead"}]
           PoolType == {"none", "live", "dead"}
<1>0. /\ dirs \subseteq Dirs /\ file \in FileType /\ loops \in LoopType /\ pool \in PoolType
      /\ StoreTypes(before.dirs, before.file, before.loops, before.pool)
  BY DEF Types, StoreTypes
<1>a. ASSUME before' = before, dirs' \subseteq Dirs, file' \in FileType, loops' \in LoopType, pool' \in PoolType
      PROVE Types'
  BY <1>0, <1>a DEF Types, StoreTypes
<1>b. ASSUME before' = Nothing, dirs' \subseteq Dirs, file' \in FileType, loops' \in LoopType, pool' \in PoolType
      PROVE Types'
  BY <1>0, <1>b DEF Types, StoreTypes, Nothing
<1>c. ASSUME NEW S, Delete(S) PROVE file' \in FileType /\ loops' \in LoopType /\ pool' \in PoolType
  BY <1>0, <1>c DEF Delete
<1>1. CASE RunInit
  <2>1. before' = Found /\ UNCHANGED storeVars /\ errs' = FALSE /\ warned' = warned
    BY <1>1 DEF RunInit
  <2>2. Types'
    BY <1>0, <2>1 DEF Types, StoreTypes, storeVars, Found
  <2> QED
    BY <2>1, <2>2 DEF Flags, storeVars
<1>2. CASE RunTeardown
  <2>1. before' = before /\ UNCHANGED storeVars /\ errs' \in {TRUE, FALSE, errs} /\ warned' \in {TRUE, warned}
    BY <1>2 DEF RunTeardown
  <2>2. Flags'
    BY <2>1 DEF Flags, storeVars
  <2> QED
    BY <1>0, <1>a, <2>1, <2>2 DEF storeVars
<1>3. CASE BootstrapFails
  <2>1. /\ before' = before /\ UNCHANGED <<errs, warned, dirs, file, loops, pool, containerd>>
        /\ config' \in {TRUE, config}
    BY <1>3 DEF BootstrapFails
  <2>2. Flags'
    BY <2>1 DEF Flags
  <2> QED
    BY <1>0, <1>a, <2>1, <2>2
<1>4. CASE Finish
  <2>1. before' = Nothing /\ errs' = FALSE /\ warned' \in {FALSE, warned}
    BY <1>4 DEF Finish, Idle
  <2>2. /\ dirs' \subseteq Dirs /\ file' \in FileType /\ loops' \in LoopType /\ pool' \in PoolType
        /\ config' = config /\ containerd' \in {FALSE, containerd}
    BY <1>0, <1>4 DEF Finish, storeVars
  <2>3. Flags'
    BY <2>1, <2>2 DEF Flags
  <2> QED
    BY <1>b, <2>1, <2>2, <2>3
<1>5. CASE RebootHost
  <2>1. before' = Nothing /\ errs' = FALSE /\ warned' \in {FALSE, warned}
    BY <1>5 DEF RebootHost, Idle
  <2>2. /\ dirs' \subseteq Dirs /\ file' \in FileType /\ loops' \in LoopType /\ pool' \in PoolType
        /\ config' = config /\ containerd' \in {FALSE, containerd}
    BY <1>0, <1>5 DEF RebootHost, storeVars
  <2>3. Flags'
    BY <2>1, <2>2 DEF Flags
  <2> QED
    BY <1>b, <2>1, <2>2, <2>3
<1>6. ASSUME NEW d \in Dirs, MakeDir(d) PROVE Types' /\ Flags'
  <2>1. before' = before /\ errs' = errs /\ warned' = warned
    BY <1>6 DEF MakeDir, Done
  <2>2. dirs' \subseteq Dirs /\ file' \in FileType /\ loops' \in LoopType /\ pool' \in PoolType
    BY <1>0, <1>6 DEF MakeDir
  <2>3. config' \in {TRUE, FALSE, config} /\ containerd' \in {TRUE, FALSE, containerd}
    BY <1>6 DEF MakeDir
  <2>4. Flags'
    BY <2>1, <2>3 DEF Flags
  <2> QED
    BY <1>a, <2>1, <2>2, <2>4
<1>7. ASSUME NEW d \in Dirs, RemoveDir(d) PROVE Types' /\ Flags'
  <2>1. before' = before /\ errs' = errs /\ warned' = warned
    BY <1>7 DEF RemoveDir, Done
  <2>2. dirs' \subseteq Dirs /\ file' \in FileType /\ loops' \in LoopType /\ pool' \in PoolType
    BY <1>0, <1>c, <1>7 DEF RemoveDir, Dirs
  <2>3. containerd' = containerd /\ (config' = FALSE \/ config' = config)
    BY <1>7 DEF RemoveDir, Dirs
  <2>4. Flags'
    BY <2>1, <2>3 DEF Flags
  <2> QED
    BY <1>a, <2>1, <2>2, <2>4
<1>8. ASSUME NEW f \in Files, createSparseFile(f) PROVE Types' /\ Flags'
  <2>1. before' = before /\ errs' = errs /\ warned' = warned
    BY <1>8 DEF createSparseFile, Done
  <2>2. dirs' \subseteq Dirs /\ file' \in FileType /\ loops' \in LoopType /\ pool' \in PoolType
    BY <1>0, <1>8 DEF createSparseFile
  <2>3. config' \in {TRUE, FALSE, config} /\ containerd' \in {TRUE, FALSE, containerd}
    BY <1>8 DEF createSparseFile
  <2>4. Flags'
    BY <2>1, <2>3 DEF Flags
  <2> QED
    BY <1>a, <2>1, <2>2, <2>4
<1>9. ASSUME NEW f \in Files, Grow(f) PROVE Types' /\ Flags'
  <2>1. before' = before /\ errs' = errs /\ warned' = warned
    BY <1>9 DEF Grow, Done
  <2>2. dirs' \subseteq Dirs /\ file' \in FileType /\ loops' \in LoopType /\ pool' \in PoolType
    BY <1>0, <1>9 DEF Grow
  <2>3. config' \in {TRUE, FALSE, config} /\ containerd' \in {TRUE, FALSE, containerd}
    BY <1>9 DEF Grow
  <2>4. Flags'
    BY <2>1, <2>3 DEF Flags
  <2> QED
    BY <1>a, <2>1, <2>2, <2>4
<1>10. ASSUME NEW f \in Files, setupLoopDevice(f) PROVE Types' /\ Flags'
  <2>1. before' = before /\ errs' = errs /\ warned' = warned
    BY <1>10 DEF setupLoopDevice, Done
  <2>2. dirs' \subseteq Dirs /\ file' \in FileType /\ loops' \in LoopType /\ pool' \in PoolType
    BY <1>0, <1>10 DEF setupLoopDevice
  <2>3. config' \in {TRUE, FALSE, config} /\ containerd' \in {TRUE, FALSE, containerd}
    BY <1>10 DEF setupLoopDevice
  <2>4. Flags'
    BY <2>1, <2>3 DEF Flags
  <2> QED
    BY <1>a, <2>1, <2>2, <2>4
<1>11. ASSUME NEW f \in Files, RemoveFile(f) PROVE Types' /\ Flags'
  <2>1. before' = before /\ errs' = errs /\ warned' = warned
    BY <1>11 DEF RemoveFile, Done
  <2>2. dirs' \subseteq Dirs /\ file' \in FileType /\ loops' \in LoopType /\ pool' \in PoolType
    BY <1>0, <1>c, <1>11 DEF RemoveFile
  <2>3. config' \in {TRUE, FALSE, config} /\ containerd' \in {TRUE, FALSE, containerd}
    BY <1>11 DEF RemoveFile
  <2>4. Flags'
    BY <2>1, <2>3 DEF Flags
  <2> QED
    BY <1>a, <2>1, <2>2, <2>4
<1>12. ASSUME NEW f \in Files, DetachLoop(f) PROVE Types' /\ Flags'
  <2>1. before' = before /\ errs' = errs /\ warned' = warned
    BY <1>12 DEF DetachLoop, Done
  <2>2. dirs' \subseteq Dirs /\ file' \in FileType /\ loops' \in LoopType /\ pool' \in PoolType
    BY <1>0, <1>12 DEF DetachLoop
  <2>3. config' \in {TRUE, FALSE, config} /\ containerd' \in {TRUE, FALSE, containerd}
    BY <1>12 DEF DetachLoop
  <2>4. Flags'
    BY <2>1, <2>3 DEF Flags
  <2> QED
    BY <1>a, <2>1, <2>2, <2>4
<1>13. CASE CreatePool
  <2>1. before' = before /\ errs' = errs /\ warned' = warned
    BY <1>13 DEF CreatePool, Done
  <2>2. dirs' \subseteq Dirs /\ file' \in FileType /\ loops' \in LoopType /\ pool' \in PoolType
    BY <1>0, <1>13 DEF CreatePool
  <2>3. config' \in {TRUE, FALSE, config} /\ containerd' \in {TRUE, FALSE, containerd}
    BY <1>13 DEF CreatePool
  <2>4. Flags'
    BY <2>1, <2>3 DEF Flags
  <2> QED
    BY <1>a, <2>1, <2>2, <2>4
<1>14. CASE WriteConfig
  <2>1. before' = before /\ errs' = errs /\ warned' = warned
    BY <1>14 DEF WriteConfig, Done
  <2>2. dirs' \subseteq Dirs /\ file' \in FileType /\ loops' \in LoopType /\ pool' \in PoolType
    BY <1>0, <1>14 DEF WriteConfig
  <2>3. config' \in {TRUE, FALSE, config} /\ containerd' \in {TRUE, FALSE, containerd}
    BY <1>14 DEF WriteConfig
  <2>4. Flags'
    BY <2>1, <2>3 DEF Flags
  <2> QED
    BY <1>a, <2>1, <2>2, <2>4
<1>15. CASE StartContainerd
  <2>1. before' = before /\ errs' = errs /\ warned' = warned
    BY <1>15 DEF StartContainerd, Done
  <2>2. dirs' \subseteq Dirs /\ file' \in FileType /\ loops' \in LoopType /\ pool' \in PoolType
    BY <1>0, <1>15 DEF StartContainerd
  <2>3. config' \in {TRUE, FALSE, config} /\ containerd' \in {TRUE, FALSE, containerd}
    BY <1>15 DEF StartContainerd
  <2>4. Flags'
    BY <2>1, <2>3 DEF Flags
  <2> QED
    BY <1>a, <2>1, <2>2, <2>4
<1>16. CASE RemoveConfig
  <2>1. before' = before /\ errs' = errs /\ warned' = warned
    BY <1>16 DEF RemoveConfig, Done
  <2>2. dirs' \subseteq Dirs /\ file' \in FileType /\ loops' \in LoopType /\ pool' \in PoolType
    BY <1>0, <1>16 DEF RemoveConfig
  <2>3. config' \in {TRUE, FALSE, config} /\ containerd' \in {TRUE, FALSE, containerd}
    BY <1>16 DEF RemoveConfig
  <2>4. Flags'
    BY <2>1, <2>3 DEF Flags
  <2> QED
    BY <1>a, <2>1, <2>2, <2>4
<1>17. CASE RemovePool
  <2>1. before' = before /\ errs' = errs /\ warned' = warned
    BY <1>17 DEF RemovePool, Done
  <2>2. dirs' \subseteq Dirs /\ file' \in FileType /\ loops' \in LoopType /\ pool' \in PoolType
    BY <1>0, <1>17 DEF RemovePool
  <2>3. config' \in {TRUE, FALSE, config} /\ containerd' \in {TRUE, FALSE, containerd}
    BY <1>17 DEF RemovePool
  <2>4. Flags'
    BY <2>1, <2>3 DEF Flags
  <2> QED
    BY <1>a, <2>1, <2>2, <2>4
<1>18. CASE StopContainerd
  <2>1. before' = before /\ errs' = errs /\ warned' = warned
    BY <1>18 DEF StopContainerd, Done
  <2>2. dirs' \subseteq Dirs /\ file' \in FileType /\ loops' \in LoopType /\ pool' \in PoolType
    BY <1>0, <1>18 DEF StopContainerd
  <2>3. config' \in {TRUE, FALSE, config} /\ containerd' \in {TRUE, FALSE, containerd}
    BY <1>18 DEF StopContainerd
  <2>4. Flags'
    BY <2>1, <2>3 DEF Flags
  <2> QED
    BY <1>a, <2>1, <2>2, <2>4
<1>19. CASE CleanupFails
  <2>1. before' = before /\ UNCHANGED storeVars /\ errs' \in {TRUE, FALSE, errs} /\ warned' \in {TRUE, warned}
    BY <1>19 DEF CleanupFails
  <2>2. Flags'
    BY <2>1 DEF Flags, storeVars
  <2> QED
    BY <1>0, <1>a, <2>1, <2>2 DEF storeVars
<1>20. ASSUME NEW r \in Rules, AppendRule(r) PROVE Types' /\ Flags'
  <2>1. before' = before /\ errs' = errs /\ warned' = warned
    BY <1>20 DEF AppendRule, Done
  <2>2. dirs' \subseteq Dirs /\ file' \in FileType /\ loops' \in LoopType /\ pool' \in PoolType
    BY <1>0, <1>20 DEF AppendRule, storeVars
  <2>3. config' \in {TRUE, FALSE, config} /\ containerd' \in {TRUE, FALSE, containerd}
    BY <1>20 DEF AppendRule, storeVars
  <2>4. Flags'
    BY <2>1, <2>3 DEF Flags
  <2> QED
    BY <1>a, <2>1, <2>2, <2>4
<1>21. ASSUME NEW r \in Rules, DeleteRule(r) PROVE Types' /\ Flags'
  <2>1. before' = before /\ errs' = errs /\ warned' = warned
    BY <1>21 DEF DeleteRule, Done
  <2>2. dirs' \subseteq Dirs /\ file' \in FileType /\ loops' \in LoopType /\ pool' \in PoolType
    BY <1>0, <1>21 DEF DeleteRule, storeVars
  <2>3. config' \in {TRUE, FALSE, config} /\ containerd' \in {TRUE, FALSE, containerd}
    BY <1>21 DEF DeleteRule, storeVars
  <2>4. Flags'
    BY <2>1, <2>3 DEF Flags
  <2> QED
    BY <1>a, <2>1, <2>2, <2>4
<1>22. CASE UNCHANGED vars
  BY <1>22 DEF vars, cmdVars, storeVars, Types, Flags
<1> QED
  BY <1>1, <1>2, <1>3, <1>4, <1>5, <1>6, <1>7, <1>8, <1>9, <1>10, <1>11, <1>12, <1>13, <1>14,
     <1>15, <1>16, <1>17, <1>18, <1>19, <1>20, <1>21, <1>22 DEF Next

\* The types hold at first.
LEMMA TypesInit == Init => Types /\ Flags
<1> SUFFICES ASSUME Init PROVE Types /\ Flags
  OBVIOUS
<1>1. StoreTypes(dirs, file, loops, pool)
  BY DEF Init, StoreTypes
<1>2. StoreTypes(before.dirs, before.file, before.loops, before.pool)
  BY DEF Init, StoreTypes, Nothing
<1>3. Flags
  BY DEF Init, Flags
<1> QED
  BY <1>1, <1>2, <1>3 DEF Types

\* The calls of the commands are calls.
LEMMA CallTypes == ASSUME NEW m \in Modes PROVE CallsOf(m) \subseteq CallType
<1>1. InitSet \subseteq CallType
  BY DEF InitSet, CallType, Ops, Dirs, Files, Rules
<1>2. UndoSet \subseteq CallType
  BY DEF UndoSet, CallType, Ops, Dirs, Files, Rules
<1>3. TeardownSet \subseteq CallType
  BY DEF TeardownSet, CallType, Ops, Dirs, Files, Rules
<1>4. CASE m = "init"
  BY <1>1, <1>4 DEF CallsOf
<1>5. CASE m = "undo"
  BY <1>2, <1>5 DEF CallsOf
<1>6. CASE m = "teardown"
  BY <1>3, <1>6 DEF CallsOf
<1>7. CASE m = "idle"
  BY <1>7 DEF CallsOf
<1> QED
  BY <1>4, <1>5, <1>6, <1>7 DEF Modes

\* herd init and herd teardown keep the types of their state: the calls that are ahead
\* and cleanupStack are lists of calls, and the store and the rules are what they may be.
THEOREM HostTypeCorrect == Spec => []TypeOK
<1>1. Init => ListInv /\ NatInv /\ Types /\ Flags
  BY ListInit, NatInit, TypesInit
<1>2. ListInv /\ NatInv /\ Types /\ Flags /\ [Next]_vars => (ListInv /\ NatInv /\ Types /\ Flags)'
  BY ListStep, NatStep, TypesStep
<1>3. ListInv /\ NatInv /\ Types /\ Flags => TypeOK
  <2> SUFFICES ASSUME ListInv, NatInv, Types, Flags PROVE TypeOK
    OBVIOUS
  <2>1. todo \in Seq(CallsOf(mode)) /\ undo \in Seq(CallsOf("undo")) /\ mode \in Modes
    BY DEF ListInv, ListOf
  <2>2. CallsOf(mode) \subseteq CallType /\ CallsOf("undo") \subseteq CallType
    BY <2>1, CallTypes DEF Modes
  <2>3. todo \in Seq(CallType)
    BY <2>1, <2>2
  <2>4. undo \in Seq(CallType)
    BY <2>1, <2>2
  <2>5. errs \in BOOLEAN /\ warned \in BOOLEAN /\ config \in BOOLEAN /\ containerd \in BOOLEAN
    BY DEF Flags
  <2>6. /\ copies \in [Rules -> Nat] /\ missed \in [Rules -> 0 .. MaxMissed]
        /\ inits \in 0 .. MaxInits
    BY DEF NatInv
  <2>7. /\ dirs \in SUBSET Dirs /\ file \in [Files -> {"absent", "empty", "full"}]
        /\ loops \in [Files -> SUBSET {"live", "dead"}] /\ pool \in {"none", "live", "dead"}
    BY DEF Types, StoreTypes
  <2> QED
    BY <2>1, <2>3, <2>4, <2>5, <2>6, <2>7 DEF TypeOK, Modes
<1> QED
  BY <1>1, <1>2, <1>3, PTL DEF Spec

-----------------------------------------------------------------------------
(* The store *)

\* A call of lower rank than the one that is made was made before.
LEMMA Earlier ==
  ASSUME ListInv, NEW c, Popped(c), NEW d \in CallsOf(mode), Rank(mode, d) < Rank(mode, c)
  PROVE  ~Has(todo, d)
<1>1. mode \in Modes /\ c \in CallsOf(mode)
  BY DEF ListInv, Popped
<1>2. Rank(mode, c) \in 1..30 /\ Rank(mode, d) \in 1..30
  BY <1>1, RankType
<1>3. ~(Rank(mode, c) < Rank(mode, d)) /\ ~(Rank(mode, d) < Rank(mode, d))
  BY <1>2
<1> QED
  BY <1>3 DEF Popped

\* What undoes a call that is still ahead is not on cleanupStack.
LEMMA NotYet ==
  ASSUME ListInv, mode = "init", NEW c \in InitSet, Has(todo, c), NEW u \in UndoSet,
         OriginRank(u) >= InitRank(c)
  PROVE  ~Has(undo, u)
<1>1. OriginRank(u) \in Nat
  BY DEF UndoSet, OriginRank
<1>2. InitRank(c) \in Nat
  BY DEF InitSet, InitRank
<1> QED
  BY <1>1, <1>2 DEF ListInv, Mirror

\* The next call of init is made.  pushed: cleanupStack gets u
Advance(c, u, pushed) ==
    /\ mode = "init" /\ mode' = "init" /\ UNCHANGED <<before, errs, warned>>
    /\ Has(todo, c) /\ \A d : Has(todo', d) <=> (Has(todo, d) /\ d # c)
    /\ \A y : Has(Stack', y) <=> (Has(Stack, y) \/ (pushed /\ y = u))
    /\ ~Has(Stack, u)
    /\ \A d \in InitSet : InitRank(d) < InitRank(c) => ~Has(todo, d)

\* It registers nothing ...
LEMMA AdvanceNothing ==
  ASSUME ListInv, mode = "init", NEW op, NEW x, Call(op, x), Done(<<>>), NEW u \in UndoSet,
         OriginRank(u) >= InitRank(<<op, x>>)
  PROVE  Advance(<<op, x>>, u, FALSE)
<1>1. Popped(<<op, x>>) /\ undo' = undo /\ UNCHANGED <<mode, before, errs, warned>>
  BY DoneNothing
<1>2. CallsOf("init") = InitSet /\ \A c : Rank("init", c) = InitRank(c)
  BY DEF CallsOf, Rank
<1>3. \A d \in InitSet : InitRank(d) < InitRank(<<op, x>>) => ~Has(todo, d)
  BY <1>1, <1>2, Earlier
<1>4. <<op, x>> \in InitSet /\ Has(todo, <<op, x>>)
  BY <1>1, <1>2 DEF Popped
<1>5. ~Has(undo, u)
  BY <1>4, NotYet
<1>6. Stack = undo /\ Stack' = undo'
  BY <1>1 DEF Stack
<1>7. \A d : Has(todo', d) <=> (Has(todo, d) /\ d # <<op, x>>)
  BY <1>1 DEF Popped
<1> QED
  BY <1>1, <1>3, <1>4, <1>5, <1>6, <1>7 DEF Advance

\* ... or what undoes it.
LEMMA AdvancePush ==
  ASSUME ListInv, mode = "init", NEW op, NEW x, Call(op, x), NEW u \in UndoSet, Done(<<u>>),
         OriginRank(u) = InitRank(<<op, x>>)
  PROVE  Advance(<<op, x>>, u, TRUE)
<1>1. Popped(<<op, x>>) /\ UNCHANGED <<mode, before, errs, warned>> /\ ~Has(undo, u)
      /\ \A y : Has(undo', y) <=> (y = u \/ Has(undo, y))
  BY DonePush
<1>2. CallsOf("init") = InitSet /\ \A c : Rank("init", c) = InitRank(c)
  BY DEF CallsOf, Rank
<1>3. \A d \in InitSet : InitRank(d) < InitRank(<<op, x>>) => ~Has(todo, d)
  BY <1>1, <1>2, Earlier
<1>4. Has(todo, <<op, x>>) /\ \A d : Has(todo', d) <=> (Has(todo, d) /\ d # <<op, x>>)
  BY <1>1 DEF Popped
<1>5. Stack = undo /\ Stack' = undo'
  BY <1>1 DEF Stack
<1> QED
  BY <1>1, <1>3, <1>4, <1>5 DEF Advance

\* What has come before a call of init.
LEMMA InitOrder ==
  /\ \A d \in Dirs : <<"mkdir", d>> \in InitSet
  /\ \A f \in Files : <<"create", f>> \in InitSet /\ <<"losetup", f>> \in InitSet /\ <<"grow", f>> \in InitSet
  /\ <<"dmsetup", "pool">> \in InitSet
  /\ \A d \in Dirs : d # "state" => InitRank(<<"mkdir", "state">>) < InitRank(<<"mkdir", d>>)
  /\ \A f \in Files : /\ InitRank(<<"mkdir", "state">>) < InitRank(<<"create", f>>)
                      /\ InitRank(<<"mkdir", "devmapper">>) < InitRank(<<"create", f>>)
                      /\ InitRank(<<"create", f>>) < InitRank(<<"losetup", f>>)
                      /\ OriginRank(<<"rm", f>>) >= InitRank(<<"create", f>>)
<1>1. \A d \in Dirs : <<"mkdir", d>> \in InitSet
  BY DEF Dirs, InitSet
<1>2. \A f \in Files : <<"create", f>> \in InitSet /\ <<"losetup", f>> \in InitSet /\ <<"grow", f>> \in InitSet
  BY DEF Files, InitSet
<1>3. <<"dmsetup", "pool">> \in InitSet
  BY DEF InitSet
<1>4. \A d \in Dirs : d # "state" => InitRank(<<"mkdir", "state">>) < InitRank(<<"mkdir", d>>)
  BY DEF Dirs, InitRank
<1>5. \A f \in Files : /\ InitRank(<<"mkdir", "state">>) < InitRank(<<"create", f>>)
                      /\ InitRank(<<"mkdir", "devmapper">>) < InitRank(<<"create", f>>)
                      /\ InitRank(<<"create", f>>) < InitRank(<<"losetup", f>>)
                      /\ OriginRank(<<"rm", f>>) >= InitRank(<<"create", f>>)
  BY DEF Files, InitRank, OriginRank
<1> QED
  BY <1>1, <1>2, <1>3, <1>4, <1>5

\* Teardown has nothing to say about init, nor does the rollback.
LEMMA NotTeardown == ASSUME mode' # "teardown" PROVE TeardownDone'
  BY DEF TeardownDone

\* A call of init that touches no part of the store that Pending speaks of.
InitKeeps(op, x) ==
    /\ mode = "init" /\ mode' = "init" /\ UNCHANGED <<before, errs, warned>>
    /\ \A d : Has(todo', d) <=> (Has(todo, d) /\ d # <<op, x>>)
    /\ \A y : y # <<"rm", "config">> => (Has(Stack', y) <=> Has(Stack, y))

\* It registers at most that config.toml is to be removed.
LEMMA InitNothing ==
  ASSUME ListInv, mode = "init", NEW op, NEW x, Call(op, x), Done(<<>>) \/ Done(<<<<"rm", "config">>>>),
         Done(<<>>) \/ <<op, x>> = <<"write", "config">>
  PROVE  InitKeeps(op, x)
<1>1. CASE Done(<<>>)
  <2>1. Popped(<<op, x>>) /\ undo' = undo /\ UNCHANGED <<mode, before, errs, warned>>
    BY <1>1, DoneNothing
  <2>2. Stack' = undo /\ Stack = undo
    BY <2>1 DEF Stack
  <2> QED
    BY <2>1, <2>2 DEF InitKeeps, Popped
<1>2. CASE Done(<<<<"rm", "config">>>>) /\ <<op, x>> = <<"write", "config">>
  <2>1. Advance(<<op, x>>, <<"rm", "config">>, TRUE)
    BY <1>2, AdvancePush, Origins
  <2> QED
    BY <2>1 DEF Advance, InitKeeps
<1> QED
  BY <1>1, <1>2

\* Such a call keeps what is known of the store.
LEMMA InitKept ==
  ASSUME StoreInv, NEW op, NEW x, op \in {"write", "start", "append"}, InitKeeps(op, x),
         UNCHANGED <<dirs, file, loops, pool>>
  PROVE  StoreInv'
<1>1. /\ mode = "init" /\ mode' = "init" /\ UNCHANGED <<before, errs, warned>>
      /\ \A d : Has(todo', d) <=> (Has(todo, d) /\ d # <<op, x>>)
      /\ \A y : y # <<"rm", "config">> => (Has(Stack', y) <=> Has(Stack, y))
  BY DEF InitKeeps
<1>2. SoundNow' /\ SoundBefore' /\ Alive'
  BY <1>1 DEF StoreInv, SoundNow, SoundBefore, Alive
<1>3. InitDone'
  BY <1>1 DEF StoreInv, InitDone
<1>4. \A f \in Files : <<"rm", f>> # <<"rm", "config">>
  BY DEF Files
<1>5. Pending'
  BY <1>1, <1>4 DEF StoreInv, Pending
<1> QED
  BY <1>1, <1>2, <1>3, <1>5, NotTeardown DEF StoreInv

\* MkdirAll
LEMMA StoreMakeDir ==
  ASSUME ListInv, Types, StoreInv, NEW d \in Dirs, MakeDir(d) PROVE StoreInv'
<1>1. Call("mkdir", d) /\ mode = "init" /\ dirs' = dirs \cup {d} /\ UNCHANGED <<file, loops, pool>>
  BY CallMode DEF MakeDir
<1>2. \/ d \in dirs /\ Done(<<>>)
      \/ d \notin dirs /\ Done(<<<<"rmdir", d>>>>)
  BY DEF MakeDir
<1>3. <<"rmdir", d>> \in UndoSet /\ OriginRank(<<"rmdir", d>>) = InitRank(<<"mkdir", d>>)
      /\ OriginRank(<<"rmdir", d>>) >= InitRank(<<"mkdir", d>>)
  <2>1. InitRank(<<"mkdir", d>>) \in Nat
    BY DEF InitRank, Dirs
  <2> QED
    BY <2>1, Origins
<1>4. PICK b \in BOOLEAN : Advance(<<"mkdir", d>>, <<"rmdir", d>>, b) /\ (b <=> d \notin dirs)
  <2>1. CASE d \in dirs /\ Done(<<>>)
    BY <1>1, <1>3, <2>1, AdvanceNothing
  <2>2. CASE d \notin dirs /\ Done(<<<<"rmdir", d>>>>)
    BY <1>1, <1>3, <2>2, AdvancePush
  <2> QED
    BY <1>2, <2>1, <2>2
<1>5. /\ mode' = "init" /\ UNCHANGED <<before, errs, warned>>
      /\ \A c : Has(todo', c) <=> (Has(todo, c) /\ c # <<"mkdir", d>>)
      /\ \A y : Has(Stack', y) <=> (Has(Stack, y) \/ (d \notin dirs /\ y = <<"rmdir", d>>))
      /\ ~Has(Stack, <<"rmdir", d>>)
      /\ \A c \in InitSet : InitRank(c) < InitRank(<<"mkdir", d>>) => ~Has(todo, c)
  BY <1>4 DEF Advance
<1>6. d # "state" => "state" \in dirs
  <2>1. d # "state" => ~Has(todo, <<"mkdir", "state">>)
    BY <1>5, InitOrder DEF Dirs
  <2> QED
    BY <1>1, <2>1 DEF StoreInv, InitDone, Dirs
<1>7. SoundNow'
  BY <1>1, <1>6 DEF StoreInv, SoundNow, Sound
<1>8. SoundBefore' /\ Alive'
  BY <1>1, <1>5 DEF StoreInv, SoundBefore, Alive
<1>9. InitDone'
  BY <1>1, <1>5 DEF StoreInv, InitDone
<1>10. Pending'
  BY <1>1, <1>5 DEF StoreInv, Pending
<1> QED
  BY <1>5, <1>7, <1>8, <1>9, <1>10, NotTeardown DEF StoreInv

\* createSparseFile on a file that is there, or is not
LEMMA StoreCreate ==
  ASSUME ListInv, Types, StoreInv, NEW f \in Files, createSparseFile(f) PROVE StoreInv'
<1>1. Call("create", f) /\ mode = "init" /\ UNCHANGED <<dirs, loops, pool>>
  BY CallMode DEF createSparseFile
<1>2. file \in [Files -> {"absent", "empty", "full"}]
  BY DEF ListInv
<1>3. CASE file[f] # "absent"
  <2>1. UNCHANGED file /\ Done(<<>>)
    BY <1>3 DEF createSparseFile
  <2>2. Advance(<<"create", f>>, <<"rm", f>>, FALSE)
    BY <1>1, <2>1, AdvanceNothing, Origins, InitOrder
  <2>3. /\ mode' = "init" /\ UNCHANGED <<before, errs, warned>>
        /\ \A c : Has(todo', c) <=> (Has(todo, c) /\ c # <<"create", f>>)
        /\ \A y : Has(Stack', y) <=> Has(Stack, y)
    BY <2>2 DEF Advance
  <2>4. SoundNow' /\ SoundBefore' /\ Alive'
    BY <1>1, <2>1, <2>3 DEF StoreInv, SoundNow, SoundBefore, Alive
  <2>5. InitDone'
    BY <1>1, <1>3, <2>1, <2>3 DEF StoreInv, InitDone
  <2>6. Pending'
    BY <1>1, <2>1, <2>3 DEF StoreInv, Pending
  <2> QED
    BY <2>3, <2>4, <2>5, <2>6, NotTeardown DEF StoreInv
<1>4. CASE file[f] = "absent"
  <2>1. file' = [file EXCEPT ![f] = "empty"]
    BY <1>4 DEF createSparseFile
  <2>2. /\ mode' = "init" /\ UNCHANGED <<before, errs, warned, undo>> /\ Has(todo, <<"create", f>>)
        /\ \A c : Has(todo', c) <=> (c = <<"grow", f>> \/ (Has(todo, c) /\ c # <<"create", f>>))
        /\ \A c : Has(todo, c) => c = <<"create", f>> \/ InitRank(<<"create", f>>) < InitRank(c)
    BY <1>4, Created DEF Rank
  <2>3. Stack' = Stack /\ Stack = undo
    BY <1>1, <2>2 DEF Stack
  <2>4. ~Has(todo, <<"mkdir", "state">>) /\ ~Has(todo, <<"mkdir", "devmapper">>)
    <3>1. /\ ~(InitRank(<<"create", f>>) < InitRank(<<"mkdir", "state">>))
          /\ ~(InitRank(<<"create", f>>) < InitRank(<<"mkdir", "devmapper">>))
      BY DEF InitRank, Files
    <3> QED
      BY <2>2, <3>1
  <2>5. "state" \in dirs /\ "devmapper" \in dirs
    BY <1>1, <2>4 DEF StoreInv, InitDone, Dirs
  <2>6. ~Has(Stack, <<"rm", f>>)
    BY <1>1, <2>2, <2>3, NotYet, InitOrder, Origins
  <2>7. \A g \in Files : g # f => file'[g] = file[g]
    BY <1>2, <2>1
  <2>8. file'[f] = "empty"
    BY <1>2, <2>1
  <2>9. ~errs => before.file[f] = "absent"
    BY <1>1, <1>4, <2>6 DEF StoreInv, Pending
  <2>10. SoundNow'
    BY <1>1, <1>4, <2>5, <2>7, <2>8 DEF StoreInv, SoundNow, Sound
  <2>11. SoundBefore' /\ Alive'
    BY <1>1, <2>2 DEF StoreInv, SoundBefore, Alive
  <2>12. InitDone'
    BY <1>1, <2>2, <2>7, <2>8, <2>9 DEF StoreInv, InitDone
  <2>13. Pending'
    BY <1>1, <2>2, <2>3, <2>6, <2>7, <2>8, <2>9 DEF StoreInv, Pending
  <2> QED
    BY <2>2, <2>10, <2>11, <2>12, <2>13, NotTeardown DEF StoreInv
<1> QED
  BY <1>3, <1>4

\* its Truncate
LEMMA StoreGrow ==
  ASSUME ListInv, Types, StoreInv, NEW f \in Files, Grow(f) PROVE StoreInv'
<1>1. /\ Call("grow", f) /\ mode = "init" /\ Done(<<<<"rm", f>>>>) /\ UNCHANGED <<dirs, loops, pool>>
      /\ file' = [file EXCEPT ![f] = "full"]
  BY CallMode DEF Grow
<1>2. Advance(<<"grow", f>>, <<"rm", f>>, TRUE)
  BY <1>1, AdvancePush, Origins
<1>3. /\ mode' = "init" /\ UNCHANGED <<before, errs, warned>> /\ Has(todo, <<"grow", f>>)
      /\ \A c : Has(todo', c) <=> (Has(todo, c) /\ c # <<"grow", f>>)
      /\ \A y : Has(Stack', y) <=> (Has(Stack, y) \/ y = <<"rm", f>>)
  BY <1>2 DEF Advance
<1>4. file \in [Files -> {"absent", "empty", "full"}] /\ file[f] = "empty"
  BY <1>3 DEF ListInv, Growing
<1>5. file'[f] = "full" /\ \A g \in Files : g # f => file'[g] = file[g]
  BY <1>1, <1>4
<1>6. ~errs => before.file[f] = "absent"
  BY <1>1, <1>3 DEF StoreInv, InitDone
<1>7. SoundNow'
  BY <1>1, <1>4, <1>5 DEF StoreInv, SoundNow, Sound
<1>8. SoundBefore' /\ Alive'
  BY <1>1, <1>3 DEF StoreInv, SoundBefore, Alive
<1>9. InitDone'
  BY <1>1, <1>3, <1>5 DEF StoreInv, InitDone
<1>10. Pending'
  BY <1>1, <1>3, <1>5, <1>6 DEF StoreInv, Pending
<1> QED
  BY <1>3, <1>7, <1>8, <1>9, <1>10, NotTeardown DEF StoreInv

\* setupLoopDevice
LEMMA StoreLoop ==
  ASSUME ListInv, Types, StoreInv, NEW f \in Files, setupLoopDevice(f) PROVE StoreInv'
<1>1. /\ Call("losetup", f) /\ mode = "init" /\ UNCHANGED <<dirs, file, pool>>
      /\ loops' = [loops EXCEPT ![f] = @ \cup {"live"}]
  BY CallMode DEF setupLoopDevice
<1>2. \/ "live" \in loops[f] /\ Done(<<>>)
      \/ "live" \notin loops[f] /\ Done(<<<<"detach", f>>>>)
  BY DEF setupLoopDevice
<1>3. <<"detach", f>> \in UndoSet /\ OriginRank(<<"detach", f>>) = InitRank(<<"losetup", f>>)
      /\ OriginRank(<<"detach", f>>) >= InitRank(<<"losetup", f>>)
  <2>1. InitRank(<<"losetup", f>>) \in Nat
    BY DEF InitRank, Files
  <2>2. <<"detach", f>> \in UndoSet /\ OriginRank(<<"detach", f>>) = InitRank(<<"losetup", f>>)
    BY Origins
  <2> QED
    BY <2>1, <2>2
<1>4. PICK b \in BOOLEAN : Advance(<<"losetup", f>>, <<"detach", f>>, b) /\ (b <=> "live" \notin loops[f])
  <2>1. CASE "live" \in loops[f] /\ Done(<<>>)
    BY <1>1, <1>3, <2>1, AdvanceNothing
  <2>2. CASE "live" \notin loops[f] /\ Done(<<<<"detach", f>>>>)
    BY <1>1, <1>3, <2>2, AdvancePush
  <2> QED
    BY <1>2, <2>1, <2>2
<1>5. /\ mode' = "init" /\ UNCHANGED <<before, errs, warned>>
      /\ \A c : Has(todo', c) <=> (Has(todo, c) /\ c # <<"losetup", f>>)
      /\ \A y : Has(Stack', y) <=> (Has(Stack, y) \/ ("live" \notin loops[f] /\ y = <<"detach", f>>))
      /\ ~Has(Stack, <<"detach", f>>)
      /\ ~Has(todo, <<"create", f>>)
  BY <1>4, InitOrder DEF Advance
<1>6. file[f] # "absent"
  BY <1>1, <1>5 DEF StoreInv, InitDone
<1>7. loops'[f] = loops[f] \cup {"live"} /\ \A g \in Files : g # f => loops'[g] = loops[g]
  BY <1>1 DEF Types, StoreTypes
<1>8. SoundNow'
  BY <1>1, <1>6, <1>7 DEF StoreInv, SoundNow, Sound
<1>9. SoundBefore' /\ Alive'
  BY <1>1, <1>5, <1>7 DEF StoreInv, SoundBefore, Alive
<1>10. InitDone'
  BY <1>1, <1>5, <1>7 DEF StoreInv, InitDone
<1>11. "live" \in loops[f] => loops'[f] = loops[f]
  BY <1>7
<1>12. Pending'
  BY <1>1, <1>5, <1>7, <1>11 DEF StoreInv, Pending
<1> QED
  BY <1>5, <1>8, <1>9, <1>10, <1>12, NotTeardown DEF StoreInv

\* createThinPool, on a pool that is there or on the two files
LEMMA StorePool ==
  ASSUME ListInv, Types, StoreInv, CreatePool PROVE StoreInv'
<1>1. Call("dmsetup", "pool") /\ mode = "init" /\ UNCHANGED <<dirs, file, loops>>
  BY CallMode DEF CreatePool
<1>2. \/ pool # "none" /\ pool' = pool /\ Done(<<>>)
      \/ /\ pool = "none" /\ pool' = "live" /\ Done(<<<<"dmremove", "pool">>>>)
         /\ \A f \in Files : file[f] = "full"
  BY DEF CreatePool
<1>3. <<"dmremove", "pool">> \in UndoSet /\ OriginRank(<<"dmremove", "pool">>) = InitRank(<<"dmsetup", "pool">>)
      /\ OriginRank(<<"dmremove", "pool">>) >= InitRank(<<"dmsetup", "pool">>)
  <2>1. InitRank(<<"dmsetup", "pool">>) \in Nat
    BY DEF InitRank
  <2> QED
    BY <2>1, Origins
<1>4. PICK b \in BOOLEAN : Advance(<<"dmsetup", "pool">>, <<"dmremove", "pool">>, b) /\ (b <=> pool = "none")
  <2>1. CASE pool # "none" /\ Done(<<>>)
    BY <1>1, <1>3, <2>1, AdvanceNothing
  <2>2. CASE pool = "none" /\ Done(<<<<"dmremove", "pool">>>>)
    BY <1>1, <1>3, <2>2, AdvancePush
  <2> QED
    BY <1>2, <2>1, <2>2
<1>5. /\ mode' = "init" /\ UNCHANGED <<before, errs, warned>>
      /\ \A c : Has(todo', c) <=> (Has(todo, c) /\ c # <<"dmsetup", "pool">>)
      /\ \A y : Has(Stack', y) <=> (Has(Stack, y) \/ (pool = "none" /\ y = <<"dmremove", "pool">>))
      /\ ~Has(Stack, <<"dmremove", "pool">>)
  BY <1>4 DEF Advance
<1>6. pool' # "none" /\ (pool # "none" => pool' = pool) /\ (pool = "none" => pool' = "live")
      /\ (pool = "none" => \A f \in Files : file[f] = "full")
  BY <1>2
<1>7. SoundNow'
  BY <1>1, <1>6 DEF StoreInv, SoundNow, Sound
<1>8. SoundBefore' /\ Alive'
  BY <1>1, <1>5, <1>6 DEF StoreInv, SoundBefore, Alive
<1>9. InitDone'
  BY <1>1, <1>5, <1>6 DEF StoreInv, InitDone
<1>10. Pending'
  BY <1>1, <1>5, <1>6 DEF StoreInv, Pending
<1> QED
  BY <1>5, <1>7, <1>8, <1>9, <1>10, NotTeardown DEF StoreInv

\* The next call of a rollback or of a teardown succeeds.
Cleans(c) ==
    /\ mode \in {"undo", "teardown"} /\ UNCHANGED <<mode, before, errs, warned>>
    /\ c \in CallsOf(mode) /\ Has(todo, c) /\ \A d : Has(todo', d) <=> (Has(todo, d) /\ d # c)
    /\ Stack = todo /\ Stack' = todo'
    /\ \A d \in CallsOf(mode) : Rank(mode, d) < Rank(mode, c) => ~Has(todo, d)

\* It is taken off the list, and all that come before it have been made.
LEMMA CleansNext ==
  ASSUME ListInv, NEW op, NEW x, Call(op, x), Done(<<>>), mode \in {"undo", "teardown"}
  PROVE  Cleans(<<op, x>>)
<1>1. Popped(<<op, x>>) /\ UNCHANGED <<mode, before, errs, warned>>
  BY DoneNothing
<1>2. Stack = todo /\ Stack' = todo'
  BY <1>1 DEF Stack
<1>3. \A d \in CallsOf(mode) : Rank(mode, d) < Rank(mode, <<op, x>>) => ~Has(todo, d)
  BY <1>1, Earlier
<1> QED
  BY <1>1, <1>2, <1>3 DEF Cleans, Popped

\* The order of the rollback and of the teardown.
LEMMA CleanOrder ==
  ASSUME NEW d \in Dirs, d # "containerd", NEW f \in Files
  PROVE  /\ <<"detach", f>> \in CallsOf("undo") /\ <<"dmremove", "pool">> \in CallsOf("undo")
         /\ Rank("undo", <<"detach", f>>) < Rank("undo", <<"rmdir", d>>)
         /\ Rank("undo", <<"dmremove", "pool">>) < Rank("undo", <<"rmdir", d>>)
         /\ Rank("undo", <<"detach", f>>) < Rank("undo", <<"rm", f>>)
         /\ Rank("undo", <<"dmremove", "pool">>) < Rank("undo", <<"rm", f>>)
         /\ <<"detach", f>> \in CallsOf("teardown") /\ <<"dmremove", "pool">> \in CallsOf("teardown")
         /\ Rank("teardown", <<"detach", f>>) < Rank("teardown", <<"rmdir", "state">>)
         /\ Rank("teardown", <<"dmremove", "pool">>) < Rank("teardown", <<"rmdir", "state">>)
<1>1. <<"detach", f>> \in UndoSet /\ <<"dmremove", "pool">> \in UndoSet
      /\ <<"detach", f>> \in TeardownSet /\ <<"dmremove", "pool">> \in TeardownSet
  BY DEF UndoSet, TeardownSet, Files
<1>2. /\ 20 - OriginRank(<<"detach", f>>) < 20 - OriginRank(<<"rmdir", d>>)
      /\ 20 - OriginRank(<<"dmremove", "pool">>) < 20 - OriginRank(<<"rmdir", d>>)
  BY DEF OriginRank, Files, Dirs
<1>3. /\ 20 - OriginRank(<<"detach", f>>) < 20 - OriginRank(<<"rm", f>>)
      /\ 20 - OriginRank(<<"dmremove", "pool">>) < 20 - OriginRank(<<"rm", f>>)
  BY DEF OriginRank, Files
<1>4. /\ TeardownRank(<<"detach", f>>) < TeardownRank(<<"rmdir", "state">>)
      /\ TeardownRank(<<"dmremove", "pool">>) < TeardownRank(<<"rmdir", "state">>)
  BY DEF TeardownRank, Files
<1>5. CallsOf("undo") = UndoSet /\ CallsOf("teardown") = TeardownSet
  BY DEF CallsOf
<1>6. \A c : Rank("undo", c) = 20 - OriginRank(c) /\ Rank("teardown", c) = TeardownRank(c)
  BY DEF Rank
<1> QED
  BY <1>1, <1>2, <1>3, <1>4, <1>5, <1>6

\* Deleting files leaves a sound store, whatever uses them: what did is dead.
LEMMA DeleteSound ==
  ASSUME Types, SoundNow, NEW S \in SUBSET Files, Delete(S)
  PROVE  /\ \A f \in Files : f \in S => file'[f] = "absent" /\ "live" \notin loops'[f]
         /\ \A f \in Files : f \notin S => file'[f] = file[f] /\ loops'[f] = loops[f]
         /\ S # {} => pool' # "live"
         /\ \A f \in Files : file'[f] = "absent" => "live" \notin loops'[f]
<1>1. file \in [Files -> {"absent", "empty", "full"}] /\ loops \in [Files -> SUBSET {"live", "dead"}]
  BY DEF Types, StoreTypes
<1>2. \A f \in Files : f \in S => file'[f] = "absent" /\ "live" \notin loops'[f]
  BY <1>1 DEF Delete
<1>3. \A f \in Files : f \notin S => file'[f] = file[f] /\ loops'[f] = loops[f]
  BY <1>1 DEF Delete
<1>4. S # {} => pool' # "live"
  BY DEF Delete
<1> QED
  BY <1>2, <1>3, <1>4 DEF SoundNow, Sound

\* A device that no path leads to stays what it is when the files of S are deleted, and
\* so does a pool that does not lie on them.
LEMMA DeleteUnused ==
  ASSUME Types, NEW S \in SUBSET Files, Delete(S),
         \A f \in S : "live" \notin loops[f], pool # "live"
  PROVE  pool' = pool /\ \A f \in Files : loops'[f] = loops[f]
<1>1. loops \in [Files -> SUBSET {"live", "dead"}]
  BY DEF Types, StoreTypes
<1>2. \A f \in S : loops[f] # {} => loops[f] = {"dead"}
  BY <1>1
<1>3. \A f \in Files : loops'[f] = loops[f]
  BY <1>1, <1>2 DEF Delete
<1> QED
  BY <1>3 DEF Delete

\* When the rollback deletes files that init has made, their devices and the pool are
\* back as they were.
LEMMA UndoUnused ==
  ASSUME Types, StoreInv, mode = "undo", ~errs, Stack = todo, NEW f \in Files, before.file[f] = "absent",
         ~Has(todo, <<"detach", f>>), ~Has(todo, <<"dmremove", "pool">>)
  PROVE  "live" \notin loops[f] /\ pool # "live"
<1>1. loops[f] = before.loops[f] /\ pool = before.pool
  BY DEF StoreInv, Pending
<1>2. "live" \notin before.loops[f]
  BY DEF StoreInv, SoundBefore, Sound
<1>3. before.pool # "live"
  BY DEF StoreInv, SoundBefore, Sound
<1> QED
  BY <1>1, <1>2, <1>3

\* os.RemoveAll, in a rollback or in a teardown
LEMMA StoreRemoveDir ==
  ASSUME ListInv, Types, StoreInv, NEW d \in Dirs, RemoveDir(d) PROVE StoreInv'
<1>1. Call("rmdir", d) /\ Done(<<>>) /\ mode \in {"undo", "teardown"} /\ <<"rmdir", d>> \in CallsOf(mode)
      /\ containerd' = containerd
  BY CallMode DEF RemoveDir
<1>2. Cleans(<<"rmdir", d>>)
  BY <1>1, CleansNext
<1>3. /\ UNCHANGED <<mode, before, errs, warned>> /\ Stack = todo /\ Stack' = todo'
      /\ Has(todo, <<"rmdir", d>>) /\ \A c : Has(todo', c) <=> (Has(todo, c) /\ c # <<"rmdir", d>>)
      /\ \A c \in CallsOf(mode) : Rank(mode, c) < Rank(mode, <<"rmdir", d>>) => ~Has(todo, c)
  BY <1>2 DEF Cleans
<1>4. SoundBefore' /\ InitDone'
  BY <1>1, <1>3 DEF StoreInv, SoundBefore, InitDone
<1>5. CASE d = "containerd"
  <2>1. mode = "undo"
    <3>1. <<"rmdir", "containerd">> \notin TeardownSet
      BY DEF TeardownSet
    <3> QED
      BY <1>1, <1>5, <3>1 DEF CallsOf
  <2>2. dirs' = dirs \ {"containerd"} /\ UNCHANGED <<file, loops, pool>>
    BY <1>5 DEF RemoveDir
  <2>3. SoundNow'
    BY <2>2 DEF StoreInv, SoundNow, Sound
  <2>4. Alive'
    BY <1>3, <2>2 DEF StoreInv, Alive
  <2>5. Pending'
    BY <1>3, <1>5, <2>1, <2>2 DEF StoreInv, Pending
  <2> QED
    BY <1>3, <1>4, <2>1, <2>3, <2>4, <2>5, NotTeardown DEF StoreInv
<1>6. CASE d # "containerd"
  <2>1. /\ Delete(Files) /\ dirs' = (IF d = "state" THEN {} ELSE dirs \ {d})
        /\ (d = "state" => config' = FALSE)
    BY <1>6 DEF RemoveDir, Dirs
  <2>2. \A f \in Files : file'[f] = "absent" /\ "live" \notin loops'[f]
    BY <2>1, DeleteSound DEF StoreInv
  <2>3. pool' # "live"
    BY <2>1, DeleteSound DEF StoreInv, Files
  <2>4. SoundNow'
    <3>1. "state" \notin dirs' => dirs' = {}
      BY <1>6, <2>1 DEF StoreInv, SoundNow, Sound, Dirs
    <3> QED
      BY <2>2, <2>3, <3>1 DEF SoundNow, Sound
  <2>5. ASSUME mode = "undo", ~errs PROVE /\ d \notin before.dirs /\ pool' = pool
                                          /\ \A f \in Files : loops'[f] = loops[f] /\ before.file[f] = "absent"
    <3>1. d \notin before.dirs
      BY <1>3, <2>5 DEF StoreInv, Pending
    <3>2. \A f \in Files : before.file[f] = "absent"
      BY <1>6, <3>1 DEF StoreInv, SoundBefore, Sound, Dirs
    <3>3. \A f \in Files : ~Has(todo, <<"detach", f>>) /\ ~Has(todo, <<"dmremove", "pool">>)
      BY <1>3, <1>6, <2>5, CleanOrder
    <3>4. \A f \in Files : "live" \notin loops[f] /\ pool # "live"
      BY <1>3, <2>5, <3>2, <3>3, UndoUnused
    <3>5. pool # "live"
      BY <3>4 DEF Files
    <3> QED
      BY <2>1, <3>1, <3>2, <3>4, <3>5, DeleteUnused
  <2>6. ASSUME mode = "teardown", ~warned
        PROVE  d = "state" /\ pool' = "none" /\ \A f \in Files : loops'[f] = {}
    <3>1. d = "state"
      <4>1. <<"rmdir", d>> \in TeardownSet
        BY <1>1, <2>6 DEF CallsOf
      <4> QED
        BY <4>1 DEF TeardownSet
    <3>2. \A f \in Files : ~Has(todo, <<"detach", f>>) /\ ~Has(todo, <<"dmremove", "pool">>)
      BY <1>3, <1>6, <2>6, <3>1, CleanOrder
    <3>3. ~Has(todo, <<"dmremove", "pool">>)
      BY <3>2 DEF Files
    <3>4. pool = "none" /\ \A f \in Files : "live" \notin loops[f] /\ "dead" \notin loops[f]
      BY <2>6, <3>2, <3>3 DEF StoreInv, TeardownDone, Alive
    <3>5. \A f \in Files : loops[f] \subseteq {"live", "dead"}
      BY DEF Types, StoreTypes
    <3>6. \A f \in Files : loops[f] = {}
      BY <3>4, <3>5
    <3> QED
      BY <2>1, <3>1, <3>4, <3>6, DeleteUnused
  <2>7. Alive'
    BY <1>1, <1>3, <2>5, <2>6 DEF StoreInv, Alive
  <2>8. Pending'
    <3> SUFFICES ASSUME mode = "undo", ~errs PROVE Pending'
      BY <1>1, <1>3 DEF Pending
    <3>1. d = "state" => before.dirs = {}
      BY <2>5 DEF StoreInv, SoundBefore, Sound
    <3>2. \A e \in Dirs : /\ Has(Stack', <<"rmdir", e>>) => e \notin before'.dirs
                          /\ ~Has(Stack', <<"rmdir", e>>) => (e \in dirs' <=> e \in before'.dirs)
      <4>1. ASSUME NEW e \in Dirs, Has(Stack', <<"rmdir", e>>) PROVE e \notin before'.dirs
        BY <1>3, <4>1 DEF StoreInv, Pending
      <4>2. ASSUME NEW e \in Dirs, ~Has(Stack', <<"rmdir", e>>) PROVE e \in dirs' <=> e \in before'.dirs
        <5>1. CASE d = "state"
          BY <1>3, <2>1, <3>1, <5>1
        <5>2. CASE d # "state" /\ e = d
          BY <1>3, <2>1, <2>5, <5>2
        <5>3. CASE d # "state" /\ e # d
          <6>1. ~Has(Stack, <<"rmdir", e>>)
            BY <1>3, <4>2, <5>3
          <6> QED
            BY <1>3, <2>1, <5>3, <6>1 DEF StoreInv, Pending
        <5> QED
          BY <5>1, <5>2, <5>3
      <4> QED
        BY <4>1, <4>2
    <3>3. \A f \in Files : file'[f] = "absent" /\ before'.file[f] = "absent" /\ loops'[f] = loops[f]
      BY <1>3, <2>2, <2>5
    <3>4. pool' = pool
      BY <2>5
    <3>5. \A f \in Files : /\ Has(Stack', <<"detach", f>>) <=> Has(Stack, <<"detach", f>>)
          /\ Has(Stack', <<"dmremove", "pool">>) <=> Has(Stack, <<"dmremove", "pool">>)
      BY <1>3
    <3>6. Has(Stack', <<"dmremove", "pool">>) <=> Has(Stack, <<"dmremove", "pool">>)
      BY <1>3
    <3> QED
      BY <1>3, <3>2, <3>3, <3>4, <3>5, <3>6 DEF StoreInv, Pending
  <2>9. TeardownDone'
    <3> SUFFICES ASSUME mode = "teardown", ~warned PROVE TeardownDone'
      BY <1>3 DEF TeardownDone
    <3>1. d = "state" /\ pool' = "none" /\ \A f \in Files : loops'[f] = {}
      BY <2>6
    <3>2. dirs' = {} /\ config' = FALSE /\ \A f \in Files : file'[f] = "absent"
      BY <2>1, <2>2, <3>1
    <3>3. Has(todo', <<"pkill", "containerd">>) <=> Has(todo, <<"pkill", "containerd">>)
      BY <1>3
    <3> QED
      BY <1>1, <1>3, <3>1, <3>2, <3>3 DEF StoreInv, TeardownDone
  <2> QED
    BY <1>4, <2>4, <2>7, <2>8, <2>9 DEF StoreInv
<1> QED
  BY <1>5, <1>6

\* os.Remove of a sparse file, in the rollback
LEMMA StoreRemoveFile ==
  ASSUME ListInv, Types, StoreInv, NEW f \in Files, RemoveFile(f) PROVE StoreInv'
<1>1. Call("rm", f) /\ Done(<<>>) /\ mode = "undo" /\ Delete({f}) /\ dirs' = dirs
  BY CallMode DEF RemoveFile
<1>2. Cleans(<<"rm", f>>)
  BY <1>1, CleansNext
<1>3. /\ UNCHANGED <<mode, before, errs, warned>> /\ Stack = todo /\ Stack' = todo'
      /\ Has(todo, <<"rm", f>>) /\ \A c : Has(todo', c) <=> (Has(todo, c) /\ c # <<"rm", f>>)
      /\ \A c \in CallsOf(mode) : Rank(mode, c) < Rank(mode, <<"rm", f>>) => ~Has(todo, c)
  BY <1>2 DEF Cleans
<1>4. SoundBefore' /\ InitDone' /\ TeardownDone'
  BY <1>1, <1>3 DEF StoreInv, SoundBefore, InitDone, TeardownDone
<1>5. /\ file'[f] = "absent" /\ pool' # "live"
      /\ \A g \in Files : g # f => file'[g] = file[g]
      /\ \A g \in Files : file'[g] = "absent" => "live" \notin loops'[g]
  BY <1>1, DeleteSound DEF StoreInv
<1>6. SoundNow'
  BY <1>1, <1>5 DEF StoreInv, SoundNow, Sound
<1>7. ASSUME ~errs PROVE before.file[f] = "absent" /\ pool' = pool /\ \A g \in Files : loops'[g] = loops[g]
  <2>1. before.file[f] = "absent"
    BY <1>1, <1>3, <1>7 DEF StoreInv, Pending
  <2>2. ~Has(todo, <<"detach", f>>) /\ ~Has(todo, <<"dmremove", "pool">>)
    <3>1. "state" \in Dirs /\ "state" # "containerd"
      BY DEF Dirs
    <3> QED
      BY <1>1, <1>3, <3>1, CleanOrder
  <2>3. "live" \notin loops[f] /\ pool # "live"
    BY <1>1, <1>3, <1>7, <2>1, <2>2, UndoUnused
  <2> QED
    BY <1>1, <2>1, <2>3, DeleteUnused
<1>8. Alive'
  BY <1>3, <1>7 DEF StoreInv, Alive
<1>9. Pending'
  BY <1>1, <1>3, <1>5, <1>7 DEF StoreInv, Pending
<1> QED
  BY <1>4, <1>6, <1>8, <1>9 DEF StoreInv

\* losetup -d, in a rollback or in a teardown
LEMMA StoreDetach ==
  ASSUME ListInv, Types, StoreInv, NEW f \in Files, DetachLoop(f) PROVE StoreInv'
<1>1. /\ Call("detach", f) /\ Done(<<>>) /\ mode \in {"undo", "teardown"}
      /\ UNCHANGED <<dirs, config, file, pool, containerd>>
      /\ loops' = [loops EXCEPT ![f] = IF mode = "undo" THEN @ \cap before.loops[f] ELSE @ \ {"live"}]
  BY CallMode DEF DetachLoop
<1>2. Cleans(<<"detach", f>>)
  BY <1>1, CleansNext
<1>3. /\ UNCHANGED <<mode, before, errs, warned>> /\ Stack = todo /\ Stack' = todo'
      /\ Has(todo, <<"detach", f>>) /\ \A c : Has(todo', c) <=> (Has(todo, c) /\ c # <<"detach", f>>)
  BY <1>2 DEF Cleans
<1>4. /\ loops'[f] = IF mode = "undo" THEN loops[f] \cap before.loops[f] ELSE loops[f] \ {"live"}
      /\ loops'[f] \subseteq loops[f] /\ \A g \in Files : g # f => loops'[g] = loops[g]
  BY <1>1 DEF Types, StoreTypes
<1>5. SoundBefore' /\ InitDone'
  BY <1>1, <1>3 DEF StoreInv, SoundBefore, InitDone
<1>6. SoundNow'
  BY <1>1, <1>4 DEF StoreInv, SoundNow, Sound
<1>7. Alive'
  BY <1>1, <1>3, <1>4 DEF StoreInv, Alive
<1>8. Pending'
  <2> SUFFICES ASSUME mode = "undo", ~errs PROVE Pending'
    BY <1>1, <1>3 DEF Pending
  <2>1. "live" \notin before.loops[f] /\ loops[f] = before.loops[f] \cup {"live"}
    BY <1>3 DEF StoreInv, Pending
  <2>2. loops'[f] = before.loops[f]
    BY <1>4, <2>1
  <2> QED
    BY <1>1, <1>3, <1>4, <2>2 DEF StoreInv, Pending
<1>9. TeardownDone'
  BY <1>1, <1>3, <1>4 DEF StoreInv, TeardownDone
<1> QED
  BY <1>5, <1>6, <1>7, <1>8, <1>9 DEF StoreInv

\* removeThinPool, in a rollback or in a teardown
LEMMA StoreRemovePool ==
  ASSUME ListInv, Types, StoreInv, RemovePool PROVE StoreInv'
<1>1. /\ Call("dmremove", "pool") /\ Done(<<>>) /\ mode \in {"undo", "teardown"}
      /\ UNCHANGED <<dirs, config, file, loops, containerd>> /\ pool' = "none"
  BY CallMode DEF RemovePool
<1>2. Cleans(<<"dmremove", "pool">>)
  BY <1>1, CleansNext
<1>3. /\ UNCHANGED <<mode, before, errs, warned>> /\ Stack = todo /\ Stack' = todo'
      /\ Has(todo, <<"dmremove", "pool">>)
      /\ \A c : Has(todo', c) <=> (Has(todo, c) /\ c # <<"dmremove", "pool">>)
  BY <1>2 DEF Cleans
<1>4. SoundBefore' /\ InitDone'
  BY <1>1, <1>3 DEF StoreInv, SoundBefore, InitDone
<1>5. SoundNow'
  BY <1>1 DEF StoreInv, SoundNow, Sound
<1>6. Alive'
  BY <1>1, <1>3 DEF StoreInv, Alive
<1>7. Pending'
  BY <1>1, <1>3 DEF StoreInv, Pending
<1>8. TeardownDone'
  BY <1>1, <1>3 DEF StoreInv, TeardownDone
<1> QED
  BY <1>4, <1>5, <1>6, <1>7, <1>8 DEF StoreInv

\* A clean-up call that touches no part of the store but config.toml and containerd.
LEMMA StoreOther ==
  ASSUME StoreInv, NEW c, Cleans(c), UNCHANGED <<dirs, file, loops, pool>>,
         \A y \in Dirs : c # <<"rmdir", y>>, \A f \in Files : c # <<"rm", f>> /\ c # <<"detach", f>>,
         c # <<"dmremove", "pool">>,
         config' \in {config, FALSE}, containerd' \in {containerd, FALSE},
         c = <<"pkill", "containerd">> => containerd' = FALSE
  PROVE  StoreInv'
<1>1. /\ mode \in {"undo", "teardown"} /\ UNCHANGED <<mode, before, errs, warned>> /\ Stack = todo /\ Stack' = todo'
      /\ \A d : Has(todo', d) <=> (Has(todo, d) /\ d # c)
  BY DEF Cleans
<1>2. SoundNow' /\ SoundBefore' /\ Alive' /\ InitDone'
  BY <1>1 DEF StoreInv, SoundNow, SoundBefore, Alive, InitDone
<1>3. Pending'
  BY <1>1 DEF StoreInv, Pending
<1>4. c # <<"rmdir", "state">>
  BY DEF Dirs
<1>5. TeardownDone'
  BY <1>1, <1>4 DEF StoreInv, TeardownDone
<1> QED
  BY <1>2, <1>3, <1>5 DEF StoreInv

\* Without a command nothing is said of one.
LEMMA StoreIdle ==
  ASSUME Idle, SoundNow', ~warned' => pool' # "dead" /\ \A f \in Files : "dead" \notin loops'[f]
  PROVE  StoreInv'
<1>1. mode' = "idle" /\ errs' = FALSE /\ before' = Nothing
  BY DEF Idle
<1>2. SoundBefore'
  BY <1>1 DEF SoundBefore, Sound, Nothing
<1>3. Alive'
  BY <1>1 DEF Alive
<1>4. InitDone' /\ Pending' /\ TeardownDone'
  BY <1>1 DEF InitDone, Pending, TeardownDone
<1> QED
  BY <1>2, <1>3, <1>4 DEF StoreInv

\* Every step keeps what is known of the store.
LEMMA StoreStep == ListInv /\ Types /\ StoreInv /\ [Next]_vars => StoreInv'
<1> SUFFICES ASSUME ListInv, Types, StoreInv, [Next]_vars PROVE StoreInv'
  OBVIOUS
<1>1. CASE RunInit
  <2>1. /\ mode' = "init" /\ todo' = StorageCalls \o NatCalls /\ undo' = <<>> /\ before' = Found
        /\ errs' = FALSE /\ warned' = warned /\ UNCHANGED <<dirs, file, loops, pool>>
    BY <1>1 DEF RunInit, storeVars
  <2>2. SoundNow' /\ Alive'
    BY <2>1 DEF StoreInv, SoundNow, Alive
  <2>3. /\ before'.dirs = dirs /\ before'.file = file /\ before'.loops = loops /\ before'.pool = pool
    BY <2>1 DEF Found
  <2>4. SoundBefore'
    BY <2>3 DEF StoreInv, SoundNow, SoundBefore
  <2>5. InitDone'
    BY <2>1, InitList DEF InitDone
  <2>6. \A y : ~Has(Stack', y)
    BY <2>1, EmptyList DEF Stack
  <2>7. Pending'
    BY <2>1, <2>3, <2>6 DEF Pending
  <2> QED
    BY <2>1, <2>2, <2>4, <2>5, <2>7, NotTeardown DEF StoreInv
<1>2. CASE RunTeardown
  <2>1. /\ mode' = "teardown" /\ todo' = StorageTeardown \o NatTeardown /\ errs' = FALSE
        /\ UNCHANGED <<before, warned, dirs, file, loops, pool>>
    BY <1>2 DEF RunTeardown, storeVars
  <2>2. SoundNow' /\ SoundBefore' /\ Alive'
    BY <2>1 DEF StoreInv, SoundNow, SoundBefore, Alive
  <2>3. TeardownDone'
    BY <2>1, TeardownList DEF TeardownDone
  <2>4. InitDone' /\ Pending'
    BY <2>1 DEF InitDone, Pending
  <2> QED
    BY <2>2, <2>3, <2>4 DEF StoreInv
<1>3. CASE BootstrapFails
  <2>1. /\ mode = "init" /\ mode' = "undo" /\ todo' = undo
        /\ UNCHANGED <<before, errs, warned, dirs, file, loops, pool>>
    BY <1>3 DEF BootstrapFails, storeVars
  <2>2. Stack' = Stack
    BY <2>1 DEF Stack
  <2>3. SoundNow' /\ SoundBefore' /\ Alive' /\ InitDone'
    BY <2>1 DEF StoreInv, SoundNow, SoundBefore, Alive, InitDone
  <2>4. Pending'
    BY <2>1, <2>2 DEF StoreInv, Pending
  <2> QED
    BY <2>1, <2>3, <2>4, NotTeardown DEF StoreInv
<1>4. CASE Finish
  <2>1. Idle /\ UNCHANGED <<warned, dirs, file, loops, pool>>
    BY <1>4 DEF Finish, storeVars
  <2>2. SoundNow'
    BY <2>1 DEF StoreInv, SoundNow
  <2> QED
    BY <2>1, <2>2, StoreIdle DEF StoreInv, Alive
<1>5. CASE RebootHost
  <2>1. Idle /\ UNCHANGED <<dirs, file>> /\ loops' = [f \in Files |-> {}] /\ pool' = "none"
    BY <1>5 DEF RebootHost
  <2>2. SoundNow'
    BY <2>1 DEF StoreInv, SoundNow, Sound
  <2> QED
    BY <2>1, <2>2, StoreIdle
<1>6. ASSUME NEW d \in Dirs, MakeDir(d) PROVE StoreInv'
  BY <1>6, StoreMakeDir
<1>7. ASSUME NEW d \in Dirs, RemoveDir(d) PROVE StoreInv'
  BY <1>7, StoreRemoveDir
<1>8. ASSUME NEW f \in Files, createSparseFile(f) PROVE StoreInv'
  BY <1>8, StoreCreate
<1>9. ASSUME NEW f \in Files, Grow(f) PROVE StoreInv'
  BY <1>9, StoreGrow
<1>10. ASSUME NEW f \in Files, setupLoopDevice(f) PROVE StoreInv'
  BY <1>10, StoreLoop
<1>11. ASSUME NEW f \in Files, RemoveFile(f) PROVE StoreInv'
  BY <1>11, StoreRemoveFile
<1>12. ASSUME NEW f \in Files, DetachLoop(f) PROVE StoreInv'
  BY <1>12, StoreDetach
<1>13. CASE CreatePool
  BY <1>13, StorePool
<1>14. CASE WriteConfig
  <2>1. /\ Call("write", "config") /\ mode = "init" /\ Done(<<<<"rm", "config">>>>)
        /\ UNCHANGED <<dirs, file, loops, pool>>
    BY <1>14, CallMode DEF WriteConfig
  <2>2. InitKeeps("write", "config")
    BY <2>1, InitNothing
  <2> QED
    BY <2>1, <2>2, InitKept
<1>15. CASE StartContainerd
  <2>1. /\ Call("start", "containerd") /\ mode = "init" /\ Done(<<>>)
        /\ UNCHANGED <<dirs, file, loops, pool>>
    BY <1>15, CallMode DEF StartContainerd
  <2>2. InitKeeps("start", "containerd")
    BY <2>1, InitNothing
  <2> QED
    BY <2>1, <2>2, InitKept
<1>16. CASE RemoveConfig
  <2>1. /\ Call("rm", "config") /\ mode = "undo" /\ Done(<<>>) /\ config' = FALSE
        /\ UNCHANGED <<dirs, file, loops, pool, containerd>>
    BY <1>16, CallMode DEF RemoveConfig
  <2>2. Cleans(<<"rm", "config">>)
    BY <2>1, CleansNext
  <2>3. \A f \in Files : <<"rm", "config">> # <<"rm", f>>
    BY DEF Files
  <2> QED
    BY <2>1, <2>2, <2>3, StoreOther
<1>17. CASE RemovePool
  BY <1>17, StoreRemovePool
<1>18. CASE StopContainerd
  <2>1. /\ Call("pkill", "containerd") /\ mode = "teardown" /\ Done(<<>>) /\ containerd' = FALSE
        /\ UNCHANGED <<dirs, file, loops, pool, config>>
    BY <1>18, CallMode DEF StopContainerd
  <2>2. Cleans(<<"pkill", "containerd">>)
    BY <2>1, CleansNext
  <2> QED
    BY <2>1, <2>2, StoreOther
<1>19. CASE CleanupFails
  <2>1. /\ todo # <<>> /\ Head(todo)[1] \in {"rmdir", "rm", "detach", "dmremove", "pkill"}
        /\ errs' = TRUE /\ warned' = TRUE /\ UNCHANGED <<mode, before, dirs, file, loops, pool>>
    BY <1>19 DEF CleanupFails, Doing, storeVars
  <2>2. Head(todo) \in CallsOf(mode)
    BY <2>1, TakeHead DEF ListInv
  <2>3. mode # "init"
    <3>1. \A c \in InitSet : c[1] \notin {"rmdir", "rm", "detach", "dmremove", "pkill"}
      BY DEF InitSet
    <3> QED
      BY <2>1, <2>2, <3>1 DEF CallsOf
  <2>4. SoundNow' /\ SoundBefore' /\ Alive' /\ InitDone' /\ Pending' /\ TeardownDone'
    BY <2>1, <2>3 DEF StoreInv, SoundNow, SoundBefore, Alive, InitDone, Pending, TeardownDone
  <2> QED
    BY <2>4 DEF StoreInv
<1>20. ASSUME NEW r \in Rules, AppendRule(r) PROVE StoreInv'
  <2>1. Call("append", r) /\ mode = "init" /\ Done(<<>>) /\ UNCHANGED <<dirs, file, loops, pool>>
    BY <1>20, CallMode DEF AppendRule, storeVars
  <2>2. InitKeeps("append", r)
    BY <2>1, InitNothing
  <2> QED
    BY <2>1, <2>2, InitKept
<1>21. ASSUME NEW r \in Rules, DeleteRule(r) PROVE StoreInv'
  <2>1. /\ Call("delete", r) /\ mode = "teardown" /\ Done(<<>>)
        /\ UNCHANGED <<dirs, file, loops, pool, config, containerd>>
    BY <1>21, CallMode DEF DeleteRule, storeVars
  <2>2. Cleans(<<"delete", r>>)
    BY <2>1, CleansNext
  <2> QED
    BY <2>1, <2>2, StoreOther
<1>22. CASE UNCHANGED vars
  <2>1. UNCHANGED <<mode, todo, undo, before, errs, warned, dirs, config, file, loops, pool, containerd>>
    BY <1>22 DEF vars, cmdVars, storeVars
  <2>2. Stack' = Stack
    BY <2>1 DEF Stack
  <2> QED
    BY <2>1, <2>2 DEF StoreInv, SoundNow, SoundBefore, Alive, InitDone, Pending, TeardownDone
<1> QED
  BY <1>1, <1>2, <1>3, <1>4, <1>5, <1>6, <1>7, <1>8, <1>9, <1>10, <1>11, <1>12, <1>13, <1>14,
     <1>15, <1>16, <1>17, <1>18, <1>19, <1>20, <1>21, <1>22 DEF Next

\* There is nothing at first.
LEMMA StoreInit == Init => StoreInv
<1> SUFFICES ASSUME Init PROVE StoreInv
  OBVIOUS
<1>1. SoundNow
  BY DEF Init, SoundNow, Sound
<1>2. SoundBefore
  BY DEF Init, SoundBefore, Sound, Nothing
<1>3. Alive /\ InitDone /\ Pending /\ TeardownDone
  BY DEF Init, Alive, InitDone, Pending, TeardownDone
<1> QED
  BY <1>1, <1>2, <1>3 DEF StoreInv

-----------------------------------------------------------------------------
(* config.toml *)

\* It does not outlive the state directory; the one that init found is there until this
\* run has written its own, and that one until the rollback has removed it.
ConfigInv ==
    /\ before.config \in BOOLEAN
    /\ config = TRUE => "state" \in dirs
    /\ before.config = TRUE => "state" \in before.dirs
    /\ mode = "init" /\ ~Has(undo, <<"rm", "config">>) => (before.config = TRUE => config = TRUE)
    /\ mode = "undo" /\ ~errs =>
        /\ Has(todo, <<"rm", "config">>) => Has(undo, <<"rm", "config">>)
        /\ Has(undo, <<"rm", "config">>) => Has(todo, <<"rm", "config">>) \/ config = FALSE
        /\ ~Has(undo, <<"rm", "config">>) => (before.config = TRUE => config = TRUE)

\* A call that is not about it keeps this.
LEMMA ConfigKept ==
  ASSUME ConfigInv, mode' = mode, UNCHANGED <<before, config>>, mode # "undo" \/ errs' = errs,
         "state" \in dirs => "state" \in dirs',
         mode = "init" => (Has(undo, <<"rm", "config">>) => Has(undo', <<"rm", "config">>)),
         mode = "undo" => /\ undo' = undo
                          /\ Has(todo', <<"rm", "config">>) <=> Has(todo, <<"rm", "config">>)
  PROVE  ConfigInv'
  BY DEF ConfigInv

\* The same for one that pushes nothing.
LEMMA ConfigDone ==
  ASSUME ListInv, ConfigInv, NEW op, NEW x, Call(op, x), Done(<<>>), <<op, x>> # <<"rm", "config">>,
         config' = config, "state" \in dirs => "state" \in dirs'
  PROVE  ConfigInv'
<1>1. Popped(<<op, x>>) /\ undo' = undo /\ UNCHANGED <<mode, before, errs>>
  BY DoneNothing
<1>2. Has(todo', <<"rm", "config">>) <=> Has(todo, <<"rm", "config">>)
  BY <1>1 DEF Popped
<1> QED
  BY <1>1, <1>2, ConfigKept

\* ... and for one of init that pushes what undoes it.
LEMMA ConfigPush ==
  ASSUME ListInv, ConfigInv, mode = "init", NEW op, NEW x, Call(op, x), NEW u \in UndoSet, Done(<<u>>),
         OriginRank(u) = InitRank(<<op, x>>), config' = config, "state" \in dirs => "state" \in dirs'
  PROVE  ConfigInv'
<1>1. /\ UNCHANGED <<mode, before, errs>>
      /\ \A y : Has(undo', y) <=> (y = u \/ Has(undo, y))
  BY DonePush
<1> QED
  BY <1>1, ConfigKept

\* When config.toml is written, the state directory is there.
LEMMA ConfigPlace ==
  ASSUME ListInv, StoreInv, mode = "init", Doing("write") PROVE "state" \in dirs
<1>1. /\ Head(todo) \in InitSet /\ Head(todo)[1] = "write"
      /\ \A c : Has(todo, c) => c = Head(todo) \/ InitRank(Head(todo)) < InitRank(c)
  BY TakeHead DEF ListInv, Doing, CallsOf, Rank
<1>2. \A c \in InitSet : c[1] = "write" => c = <<"write", "config">>
  BY DEF InitSet
<1>3. InitRank(<<"mkdir", "state">>) = 2 /\ InitRank(<<"write", "config">>) = 18
  BY DEF InitRank
<1>4. ~Has(todo, <<"mkdir", "state">>)
  BY <1>1, <1>2, <1>3
<1> QED
  BY <1>4 DEF StoreInv, InitDone, Dirs

\* Every step keeps what is known of config.toml.
LEMMA ConfigStep == ListInv /\ Flags /\ StoreInv /\ ConfigInv /\ [Next]_vars => ConfigInv'
<1> SUFFICES ASSUME ListInv, Flags, StoreInv, ConfigInv, [Next]_vars PROVE ConfigInv'
  OBVIOUS
<1>1. CASE RunInit
  <2>1. mode' = "init" /\ before' = Found /\ UNCHANGED <<dirs, config>>
    BY <1>1 DEF RunInit, storeVars
  <2>2. before'.config = config /\ before'.dirs = dirs
    BY <2>1 DEF Found
  <2> QED
    BY <2>1, <2>2 DEF ConfigInv, Flags
<1>2. CASE RunTeardown
  <2>1. mode' = "teardown" /\ UNCHANGED <<before, dirs, config>>
    BY <1>2 DEF RunTeardown, storeVars
  <2> QED
    BY <2>1 DEF ConfigInv
<1>3. CASE BootstrapFails
  <2>1. /\ mode = "init" /\ mode' = "undo" /\ todo' = undo /\ UNCHANGED <<undo, before, errs, dirs>>
        /\ config' = config \/ (Doing("write") /\ config' = TRUE)
    BY <1>3 DEF BootstrapFails
  <2>2. config' = TRUE => "state" \in dirs'
    BY <2>1, ConfigPlace DEF ConfigInv
  <2>3. before'.config = TRUE /\ ~Has(undo', <<"rm", "config">>) => config' = TRUE
    BY <2>1 DEF ConfigInv
  <2> QED
    BY <2>1, <2>2, <2>3 DEF ConfigInv
<1>4. CASE Finish
  <2>1. mode' = "idle" /\ before' = Nothing /\ UNCHANGED <<dirs, config>>
    BY <1>4 DEF Finish, Idle, storeVars
  <2> QED
    BY <2>1 DEF ConfigInv, Nothing
<1>5. CASE RebootHost
  <2>1. mode' = "idle" /\ before' = Nothing /\ UNCHANGED <<dirs, config>>
    BY <1>5 DEF RebootHost, Idle
  <2> QED
    BY <2>1 DEF ConfigInv, Nothing
<1>6. ASSUME NEW d \in Dirs, MakeDir(d) PROVE ConfigInv'
  <2>1. /\ Call("mkdir", d) /\ mode = "init" /\ config' = config /\ dirs' = dirs \cup {d}
        /\ Done(<<>>) \/ Done(<<<<"rmdir", d>>>>)
    BY <1>6, CallMode DEF MakeDir
  <2>2. CASE Done(<<>>)
    BY <2>1, <2>2, ConfigDone
  <2>3. CASE Done(<<<<"rmdir", d>>>>)
    BY <2>1, <2>3, ConfigPush, Origins
  <2> QED
    BY <2>1, <2>2, <2>3
<1>7. ASSUME NEW d \in Dirs, RemoveDir(d) PROVE ConfigInv'
  <2>1. Call("rmdir", d) /\ Done(<<>>) /\ mode \in {"undo", "teardown"}
    BY <1>7, CallMode DEF RemoveDir
  <2>2. CASE d = "state"
    <3>1. config' = FALSE
      BY <1>7, <2>2 DEF RemoveDir
    <3>2. /\ undo' = undo /\ UNCHANGED <<mode, before, errs>> /\ Has(todo, <<"rmdir", "state">>)
          /\ Has(todo', <<"rm", "config">>) => Has(todo, <<"rm", "config">>)
      BY <2>1, <2>2, DoneNothing DEF Popped
    <3>3. mode = "undo" /\ ~errs => "state" \notin before.dirs
      BY <3>2 DEF StoreInv, Pending, Stack, Dirs
    <3> QED
      BY <2>1, <3>1, <3>2, <3>3 DEF ConfigInv
  <2>3. CASE d # "state"
    <3>1. config' = config /\ dirs' = dirs \ {d}
      BY <1>7, <2>3 DEF RemoveDir, Dirs
    <3> QED
      BY <2>1, <2>3, <3>1, ConfigDone
  <2> QED
    BY <2>2, <2>3
<1>8. ASSUME NEW f \in Files, createSparseFile(f) PROVE ConfigInv'
  <2>1. Call("create", f) /\ mode = "init" /\ UNCHANGED <<dirs, config>>
    BY <1>8, CallMode DEF createSparseFile
  <2>2. CASE file[f] # "absent"
    <3>1. Done(<<>>)
      BY <1>8, <2>2 DEF createSparseFile
    <3> QED
      BY <2>1, <3>1, ConfigDone
  <2>3. CASE file[f] = "absent"
    <3>1. UNCHANGED <<mode, undo, before, errs>>
      BY <1>8, <2>3 DEF createSparseFile
    <3> QED
      BY <2>1, <3>1, ConfigKept
  <2> QED
    BY <2>2, <2>3
<1>9. ASSUME NEW f \in Files, Grow(f) PROVE ConfigInv'
  <2>1. Call("grow", f) /\ mode = "init" /\ Done(<<<<"rm", f>>>>) /\ UNCHANGED <<dirs, config>>
    BY <1>9, CallMode DEF Grow
  <2> QED
    BY <2>1, ConfigPush, Origins
<1>10. ASSUME NEW f \in Files, setupLoopDevice(f) PROVE ConfigInv'
  <2>1. /\ Call("losetup", f) /\ mode = "init" /\ UNCHANGED <<dirs, config>>
        /\ Done(<<>>) \/ Done(<<<<"detach", f>>>>)
    BY <1>10, CallMode DEF setupLoopDevice
  <2>2. CASE Done(<<>>)
    BY <2>1, <2>2, ConfigDone
  <2>3. CASE Done(<<<<"detach", f>>>>)
    BY <2>1, <2>3, ConfigPush, Origins
  <2> QED
    BY <2>1, <2>2, <2>3
<1>11. ASSUME NEW f \in Files, RemoveFile(f) PROVE ConfigInv'
  <2>1. Call("rm", f) /\ Done(<<>>) /\ UNCHANGED <<dirs, config>> /\ <<"rm", f>> # <<"rm", "config">>
    BY <1>11 DEF RemoveFile, Files
  <2> QED
    BY <2>1, ConfigDone
<1>12. ASSUME NEW f \in Files, DetachLoop(f) PROVE ConfigInv'
  <2>1. Call("detach", f) /\ Done(<<>>) /\ UNCHANGED <<dirs, config>>
    BY <1>12 DEF DetachLoop
  <2> QED
    BY <2>1, ConfigDone
<1>13. CASE CreatePool
  <2>1. /\ Call("dmsetup", "pool") /\ mode = "init" /\ UNCHANGED <<dirs, config>>
        /\ Done(<<>>) \/ Done(<<<<"dmremove", "pool">>>>)
    BY <1>13, CallMode DEF CreatePool
  <2>2. CASE Done(<<>>)
    BY <2>1, <2>2, ConfigDone
  <2>3. CASE Done(<<<<"dmremove", "pool">>>>)
    BY <2>1, <2>3, ConfigPush, Origins
  <2> QED
    BY <2>1, <2>2, <2>3
<1>14. CASE WriteConfig
  <2>1. /\ Call("write", "config") /\ mode = "init" /\ Done(<<<<"rm", "config">>>>)
        /\ config' = TRUE /\ dirs' = dirs
    BY <1>14, CallMode DEF WriteConfig
  <2>2. /\ UNCHANGED <<mode, before>>
        /\ \A y : Has(undo', y) <=> (y = <<"rm", "config">> \/ Has(undo, y))
    BY <2>1, DonePush, Origins
  <2>3. "state" \in dirs
    BY <2>1, ConfigPlace DEF Call, Doing
  <2> QED
    BY <2>1, <2>2, <2>3 DEF ConfigInv
<1>15. CASE StartContainerd
  <2>1. Call("start", "containerd") /\ Done(<<>>) /\ UNCHANGED <<dirs, config>>
    BY <1>15 DEF StartContainerd
  <2> QED
    BY <2>1, ConfigDone
<1>16. CASE RemoveConfig
  <2>1. /\ Call("rm", "config") /\ mode = "undo" /\ Done(<<>>) /\ config' = FALSE /\ dirs' = dirs
    BY <1>16, CallMode DEF RemoveConfig
  <2>2. undo' = undo /\ UNCHANGED <<mode, before, errs>> /\ Has(todo, <<"rm", "config">>)
    BY <2>1, DoneNothing DEF Popped
  <2>3. ~errs => Has(undo, <<"rm", "config">>)
    BY <2>1, <2>2 DEF ConfigInv
  <2> QED
    BY <2>1, <2>2, <2>3 DEF ConfigInv
<1>17. CASE RemovePool
  <2>1. Call("dmremove", "pool") /\ Done(<<>>) /\ UNCHANGED <<dirs, config>>
    BY <1>17 DEF RemovePool
  <2> QED
    BY <2>1, ConfigDone
<1>18. CASE StopContainerd
  <2>1. Call("pkill", "containerd") /\ Done(<<>>) /\ UNCHANGED <<dirs, config>>
    BY <1>18 DEF StopContainerd
  <2> QED
    BY <2>1, ConfigDone
<1>19. CASE CleanupFails
  <2>1. errs' = TRUE /\ UNCHANGED <<mode, undo, before, dirs, config>>
    BY <1>19 DEF CleanupFails, storeVars
  <2> QED
    BY <2>1 DEF ConfigInv
<1>20. ASSUME NEW r \in Rules, AppendRule(r) PROVE ConfigInv'
  <2>1. Call("append", r) /\ Done(<<>>) /\ UNCHANGED <<dirs, config>>
    BY <1>20 DEF AppendRule, storeVars
  <2> QED
    BY <2>1, ConfigDone
<1>21. ASSUME NEW r \in Rules, DeleteRule(r) PROVE ConfigInv'
  <2>1. Call("delete", r) /\ Done(<<>>) /\ UNCHANGED <<dirs, config>>
    BY <1>21 DEF DeleteRule, storeVars
  <2> QED
    BY <2>1, ConfigDone
<1>22. CASE UNCHANGED vars
  BY <1>22 DEF vars, cmdVars, storeVars, ConfigInv
<1> QED
  BY <1>1, <1>2, <1>3, <1>4, <1>5, <1>6, <1>7, <1>8, <1>9, <1>10, <1>11, <1>12, <1>13, <1>14,
     <1>15, <1>16, <1>17, <1>18, <1>19, <1>20, <1>21, <1>22 DEF Next

\* There is no config.toml at first.
LEMMA ConfigInit == Init => ConfigInv
  BY DEF Init, ConfigInv, Nothing

\* The inductive invariant of the storage part.
HostInv == ListInv /\ Types /\ Flags /\ StoreInv /\ ConfigInv

\* It holds in every reachable state.
LEMMA HostInvariant == Spec => []HostInv
<1>1. Init => HostInv
  BY ListInit, TypesInit, StoreInit, ConfigInit DEF HostInv
<1>2. HostInv /\ [Next]_vars => HostInv'
  BY ListStep, TypesStep, StoreStep, ConfigStep DEF HostInv
<1> QED
  BY <1>1, <1>2, PTL DEF Spec

\* bootstrap.go: for whatever kills, reboots and earlier commands, when storage.Bootstrap
\* has returned nil the thin pool lies on the two files of the state directory, both of
\* full size and attached, unless a clean-up call has failed since the host booted.
THEOREM PoolOnFilesHolds == Spec => []PoolOnFiles
<1>1. HostInv => PoolOnFiles
  <2> SUFFICES ASSUME HostInv, mode = "init", Doing("append"), ~warned
               PROVE  pool = "live" /\ \A f \in Files : file[f] = "full" /\ "live" \in loops[f]
    BY DEF PoolOnFiles
  <2>1. /\ Head(todo) \in InitSet /\ Head(todo)[1] = "append"
        /\ \A c : Has(todo, c) => c = Head(todo) \/ InitRank(Head(todo)) < InitRank(c)
    BY TakeHead DEF HostInv, ListInv, Doing, CallsOf, Rank
  <2>2. InitRank(Head(todo)) >= 22 /\ InitRank(Head(todo)) \in Nat
    <3>1. \A c \in InitSet : c[1] = "append" => c \in {<<"append", r>> : r \in Rules}
      BY DEF InitSet, Rules
    <3>2. \A r \in Rules : InitRank(<<"append", r>>) >= 22 /\ InitRank(<<"append", r>>) \in Nat
      BY DEF InitRank, Rules
    <3> QED
      BY <2>1, <3>1, <3>2
  <2>3. ASSUME NEW f \in Files PROVE ~Has(todo, <<"losetup", f>>) /\ ~Has(todo, <<"dmsetup", "pool">>)
    <3>1. /\ InitRank(<<"losetup", f>>) \in Nat /\ InitRank(<<"losetup", f>>) < 22
          /\ InitRank(<<"dmsetup", "pool">>) \in Nat /\ InitRank(<<"dmsetup", "pool">>) < 22
      BY DEF InitRank, Files
    <3>2. /\ ~(InitRank(Head(todo)) < InitRank(<<"losetup", f>>))
          /\ ~(InitRank(Head(todo)) < InitRank(<<"dmsetup", "pool">>))
      BY <2>2, <3>1
    <3>3. Head(todo) # <<"losetup", f>> /\ Head(todo) # <<"dmsetup", "pool">>
      BY <2>1
    <3> QED
      BY <2>1, <3>2, <3>3
  <2>4. ~Has(todo, <<"dmsetup", "pool">>)
    BY <2>3 DEF Files
  <2>5. pool # "none" /\ \A f \in Files : "live" \in loops[f]
    BY <2>3, <2>4 DEF HostInv, StoreInv, InitDone
  <2>6. pool # "dead" /\ pool \in {"none", "live", "dead"}
    BY DEF HostInv, StoreInv, Alive, Types, StoreTypes
  <2>7. \A f \in Files : file[f] = "full"
    BY <2>5, <2>6 DEF HostInv, StoreInv, SoundNow, Sound
  <2> QED
    BY <2>5, <2>6, <2>7
<1> QED
  BY <1>1, HostInvariant, PTL

\* bootstrap.go, the deferred clean-up of Bootstrap: a rollback that works off cleanupStack
\* without an error leaves directories, devices and pool exactly as init found them, and
\* the files too, but for one that was made and could not be grown.  config.toml is gone
\* if this run has written it, also when an earlier init had; otherwise one that was
\* found is still there.
THEOREM RollbackRestoresHolds == Spec => []RollbackRestores
<1>1. HostInv => RollbackRestores
  <2> SUFFICES ASSUME HostInv, mode = "undo", todo = <<>>, ~errs
               PROVE  /\ dirs = before.dirs /\ loops = before.loops /\ pool = before.pool
                      /\ \A f \in Files :
                          file[f] = before.file[f] \/ (before.file[f] = "absent" /\ file[f] = "empty")
                      /\ IF WroteConfig THEN ~config ELSE before.config => config
    BY DEF RollbackRestores
  <2>1. Stack = <<>>
    BY DEF Stack
  <2>2. \A c : ~Has(Stack, c)
    BY <2>1, EmptyList
  <2>3. /\ \A d \in Dirs : d \in dirs <=> d \in before.dirs
        /\ \A f \in Files : loops[f] = before.loops[f]
        /\ \A f \in Files : file[f] = before.file[f] \/ (before.file[f] = "absent" /\ file[f] = "empty")
        /\ pool = before.pool
    BY <2>2 DEF HostInv, StoreInv, Pending
  <2>4. /\ dirs \subseteq Dirs /\ before.dirs \subseteq Dirs
        /\ loops \in [Files -> SUBSET {"live", "dead"}] /\ before.loops \in [Files -> SUBSET {"live", "dead"}]
    BY DEF HostInv, Types, StoreTypes
  <2>5. dirs = before.dirs
    BY <2>3, <2>4
  <2>6. loops = before.loops
    BY <2>3, <2>4
  <2>7. IF WroteConfig THEN ~config ELSE before.config => config
    <3>1. WroteConfig <=> Has(undo, <<"rm", "config">>)
      BY DEF WroteConfig, Has
    <3>2. ~Has(todo, <<"rm", "config">>)
      BY EmptyList
    <3>3. /\ Has(undo, <<"rm", "config">>) => config = FALSE
          /\ ~Has(undo, <<"rm", "config">>) => (before.config = TRUE => config = TRUE)
      BY <3>2 DEF HostInv, ConfigInv
    <3>4. config \in BOOLEAN /\ before.config \in BOOLEAN
      BY DEF HostInv, ConfigInv, Flags
    <3> QED
      BY <3>1, <3>3, <3>4
  <2> QED
    BY <2>3, <2>5, <2>6, <2>7
<1> QED
  BY <1>1, HostInvariant, PTL

\* bootstrap.go, Teardown: when it comes to the NAT rules without an error, and no earlier
\* clean-up failed since the host booted, nothing is left of any init: no directory, file,
\* loop device, pool or containerd, also of inits that were killed half-way.
THEOREM TeardownCompleteHolds == Spec => []TeardownComplete
<1>1. HostInv => TeardownComplete
  <2> SUFFICES ASSUME HostInv, mode = "teardown", Doing("delete"), ~warned
               PROVE  /\ dirs = {} /\ ~config /\ ~containerd /\ pool = "none"
                      /\ \A f \in Files : file[f] = "absent" /\ loops[f] = {}
    BY DEF TeardownComplete
  <2>1. /\ Head(todo) \in TeardownSet /\ Head(todo)[1] = "delete"
        /\ \A c : Has(todo, c) => c = Head(todo) \/ TeardownRank(Head(todo)) < TeardownRank(c)
    BY TakeHead DEF HostInv, ListInv, Doing, CallsOf, Rank
  <2>2. TeardownRank(Head(todo)) >= 6 /\ TeardownRank(Head(todo)) \in Nat
    <3>1. \A c \in TeardownSet : c[1] = "delete" => c \in {<<"delete", r>> : r \in Rules}
      BY DEF TeardownSet, Rules
    <3>2. \A r \in Rules : TeardownRank(<<"delete", r>>) >= 6 /\ TeardownRank(<<"delete", r>>) \in Nat
      BY DEF TeardownRank, Rules
    <3> QED
      BY <2>1, <3>1, <3>2
  <2>3. ASSUME NEW c \in {<<"pkill", "containerd">>, <<"dmremove", "pool">>, <<"rmdir", "state">>}
        PROVE  ~Has(todo, c)
    <3>1. TeardownRank(c) \in Nat /\ TeardownRank(c) < 6
      <4>1. TeardownRank(<<"pkill", "containerd">>) = 1
        BY DEF TeardownRank
      <4>2. TeardownRank(<<"dmremove", "pool">>) = 2
        BY DEF TeardownRank
      <4>3. TeardownRank(<<"rmdir", "state">>) = 5
        BY DEF TeardownRank
      <4> QED
        BY <4>1, <4>2, <4>3
    <3>2. ~(TeardownRank(Head(todo)) < TeardownRank(c))
      BY <2>2, <3>1
    <3>3. Head(todo) # c
      BY <2>1
    <3> QED
      BY <2>1, <3>2, <3>3
  <2> QED
    BY <2>3 DEF HostInv, StoreInv, TeardownDone
<1> QED
  BY <1>1, HostInvariant, PTL
=============================================================================
