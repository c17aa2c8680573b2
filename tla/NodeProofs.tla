----------------------------- MODULE NodeProofs -----------------------------
(***************************************************************************)
(* Proofs about a node over its life: what init leaves on the host, and    *)
(* the identity that the control plane gave it, for any numbers that an    *)
(* operator may type, any host and any number of credential swaps.         *)
(*                                                                         *)
(* The argument.  A file that an init names was brought by that init or    *)
(* was there, and only a teardown takes one away.  The four calls of       *)
(* persistIdentity write the key before the id, and each is preceded by    *)
(* the removal of what it replaces: so a list of calls that is not yet     *)
(* worked off says which of the two files belong to the swap under way.    *)
(***************************************************************************)
EXTENDS Node, SequenceTheorems, TLAPS

-----------------------------------------------------------------------------
(* herd.yaml *)

\* Whatever the flags, what init --yes writes passes Validate: a flag that counts is
\* positive, and a default is at least the least value.
LEMMA FlagsValid ==
    ASSUME NEW limits \in Choices(TRUE)
    PROVE  Validate(limits, "path")
<1>1. PICK given \in [Limits -> Numbers] : limits = [l \in Limits |-> Flag(given[l], Defaults[l])]
  BY DEF Choices
<1>2. ASSUME NEW l \in Limits PROVE limits[l] >= Least[l]
  <2>1. given[l] \in Int /\ Defaults[l] \in Nat /\ Defaults[l] >= Least[l]
    BY NumbersAssumption, DefaultsAssumption
  <2>2. Least[l] \in {0, 1}
    BY DEF Least
  <2> QED
    BY <1>1, <2>1, <2>2 DEF Flag
<1> QED
  BY <1>2 DEF Validate

\* What Install's steps do to herd.yaml.
LEMMA ConfStep ==
    ASSUME InstallNext, conf' # conf
    PROVE  \/ conf'.form = "broken"
           \/ conf'.form \in {"short", "whole"} /\ conf'.typed = ~yes /\ (yes => conf'.valid)
<1>1. CASE OpenConfig
  BY <1>1 DEF OpenConfig, NoConf
<1>2. CASE WriteConfig
  <2>1. PICK limits \in Choices(yes), cloud \in {"off", "on"},
             path \in IF "kernel" \in own /\ ~yes THEN {"", "path"} ELSE {"path"} :
          conf' = [form |-> "whole", named |-> Managed(own), cloud |-> cloud,
                   valid |-> Validate(limits, path), typed |-> ~yes]
    BY <1>2 DEF WriteConfig
  <2>2. yes => path = "path" /\ Choices(yes) = Choices(TRUE)
    BY <2>1 DEF Choices
  <2> QED
    BY <2>1, <2>2, FlagsValid
<1>3. CASE CutConfig
  <2>1. PICK limits \in Choices(yes), cloud \in {"off", "tokenless", "on"} :
          conf' = [form |-> "short", named |-> Managed(own), cloud |-> cloud,
                   valid |-> Validate(limits, "path"), typed |-> ~yes]
    BY <1>3 DEF CutConfig
  <2>2. yes => Choices(yes) = Choices(TRUE)
    BY DEF Choices
  <2> QED
    BY <2>1, <2>2, FlagsValid
<1> QED
  BY <1>1, <1>2, <1>3 DEF InstallNext, RunInit, NextStep, Create, Copied, EndInit, Teardown, diskVars

\* config.go: what init --yes writes is never refused by Load, for every host and
\* every choice of flags, zero, negative and missing ones included.
THEOREM ConfigLoadsHolds == Spec => []ConfigLoads
<1>1. NodeInit => ConfigLoads
  BY DEF NodeInit, InstallInit, ConfigLoads, NoConf
<1>2. ConfigLoads /\ [Next]_nodeVars => ConfigLoads'
  <2> SUFFICES ASSUME ConfigLoads, [Next]_nodeVars PROVE ConfigLoads'
    OBVIOUS
  <2>1. CASE conf' = conf
    BY <2>1 DEF ConfigLoads, Load
  <2>2. CASE conf' # conf
    <3>1. InstallNext
      BY <2>2 DEF Next, StartDaemon, EndDaemon, StreamEnds, SwapCredentials, Persist, PersistFails,
         nodeVars, installVars, diskVars
    <3> QED
      BY <2>2, <3>1, ConfStep DEF ConfigLoads, Load
  <2> QED
    BY <2>1, <2>2
<1> QED
  BY <1>1, <1>2, PTL DEF Spec

-----------------------------------------------------------------------------
(* What init brings *)

\* The steps of init that come after the one which brings the file.
Later(a) ==
    {"config", "write", "bootstrap"}
        \cup (IF a = "kernel" THEN {} ELSE {"kernel"})
        \cup (IF a \in {"kernel", "agent"} THEN {} ELSE {"agent"})

\* The step that brings the file.
Phase(a) == IF a \in {"firecracker", "jailer"} THEN "binaries" ELSE a

\* The running init has come past the file, which it manages.
Brought(a) ==
    /\ Phase(a) \notin own
    /\ step \in Later(a) \/ (step = Phase(a) /\ a \notin todo)

\* Only the files of the step that init is at are still to come, or open.
Pending == todo \subseteq {a \in Artifacts : Phase(a) = step} /\ open \in todo \cup {"none"}

\* What init has come past is there, and is whole if init did not take what it found.
Progress ==
    \A a \in Artifacts : Brought(a) =>
        /\ file[a] # "absent"
        /\ ~yes /\ a # "agent" => file[a] = "whole"

\* What a complete herd.yaml names is there, until a teardown.
Named == conf.form = "whole" /\ ~torn => \A a \in conf.named : file[a] # "absent"

FileType ==
    /\ own \in SUBSET {"binaries", "kernel"}
    /\ file \in [Artifacts -> {"absent", "partial", "whole"}]

InstallInv == FileType /\ Pending /\ Progress /\ Named

\* The files that init manages are those of the steps it does itself.
LEMMA ManagedFiles ==
    ASSUME NEW o \in SUBSET {"binaries", "kernel"}, NEW a
    PROVE  a \in Managed(o) <=> a \in Artifacts /\ Phase(a) \notin o
  BY DEF Managed, Files, Artifacts, Phase

\* What a step downloads, file by file.
LEMMA NeededFiles ==
    ASSUME FileType, NEW phase \in {"binaries", "agent", "kernel"}, NEW y, NEW o
    PROVE  /\ Needed(phase, y, o) \subseteq {a \in Artifacts : Phase(a) = phase}
           /\ \A a \in Artifacts : Phase(a) = phase /\ a \notin Needed(phase, y, o) =>
                phase \in o \/ ((y \/ phase = "agent") /\ file[a] # "absent")
  BY DEF Needed, Present, Files, Artifacts, Phase, FileType

\* herd.yaml is written by every init, so no file is needed for it.
LEMMA ConfigNeedsNothing == \A y, o : Needed("config", y, o) = {}
  BY DEF Needed, Files

\* Every step of init or teardown keeps what it brought and what herd.yaml names.
LEMMA InstallStep == InstallInv /\ InstallNext => InstallInv'
<1> SUFFICES ASSUME InstallInv, InstallNext PROVE InstallInv'
  OBVIOUS
<1> USE DEF InstallInv, FileType, Pending, Progress, Named, Brought, cmdVars, diskVars
<1>1. ASSUME NEW y \in BOOLEAN, NEW o \in SUBSET {"binaries", "kernel"}, RunInit(y, o)
      PROVE  InstallInv'
  BY <1>1, NeededFiles DEF RunInit, Later, Phase, Artifacts
<1>2. CASE NextStep
  <2>1. CASE step = "binaries"
    BY <1>2, <2>1, NeededFiles DEF NextStep, After, Later, Phase, Artifacts
  <2>2. CASE step = "agent"
    BY <1>2, <2>2, NeededFiles DEF NextStep, After, Later, Phase, Artifacts
  <2>3. CASE step = "kernel"
    BY <1>2, <2>3, ConfigNeedsNothing DEF NextStep, After, Later, Phase, Artifacts
  <2> QED
    BY <1>2, <2>1, <2>2, <2>3 DEF NextStep, After
<1>3. ASSUME NEW a \in Artifacts, Create(a) PROVE InstallInv'
  BY <1>3 DEF Create, Later, Phase, Artifacts
<1>4. CASE Copied
  BY <1>4 DEF Copied, Later, Phase, Artifacts
<1>5. CASE OpenConfig
  <2>1. conf'.form = "broken" /\ step = "config" /\ step' = "write"
    BY <1>5 DEF OpenConfig, NoConf
  <2>2. UNCHANGED <<yes, own, todo, open, file, torn>>
    BY <1>5 DEF OpenConfig
  <2> QED
    BY <2>1, <2>2 DEF Later, Phase, Artifacts
<1>6. CASE WriteConfig
  <2>1. step = "write" /\ step' = "bootstrap" /\ UNCHANGED <<yes, own, todo, open, file>>
    BY <1>6 DEF WriteConfig
  <2>2. conf'.named = Managed(own)
    <3>1. \E valid, cloud, typed :
            conf' = [form |-> "whole", named |-> Managed(own), cloud |-> cloud,
                     valid |-> valid, typed |-> typed]
      BY <1>6, Zenon DEF WriteConfig
    <3> QED
      BY <3>1
  <2>3. \A a \in Managed(own) : a \in Artifacts /\ file[a] # "absent"
    BY <2>1, ManagedFiles DEF Later
  <2>4. FileType' /\ Pending' /\ Progress'
    BY <2>1 DEF Later, Phase, Artifacts
  <2> QED
    BY <2>1, <2>2, <2>3, <2>4
<1>7. CASE CutConfig
  BY <1>7 DEF CutConfig, Quit, Later, Phase, Artifacts
<1>8. CASE EndInit
  BY <1>8 DEF EndInit, Quit, Later, Phase, Artifacts
<1>9. CASE Teardown
  BY <1>9 DEF Teardown, Later, Phase, Artifacts
<1> QED
  BY <1>1, <1>2, <1>3, <1>4, <1>5, <1>6, <1>7, <1>8, <1>9 DEF InstallNext

\* The inductive invariant of init holds in every reachable state.
LEMMA Installed == Spec => []InstallInv
<1>1. NodeInit => InstallInv
  BY DEF NodeInit, InstallInit, InstallInv, FileType, Pending, Progress, Named, Brought, Later,
     Phase, Artifacts, NoConf
<1>2. InstallInv /\ [Next]_nodeVars => InstallInv'
  <2> SUFFICES ASSUME InstallInv, [Next]_nodeVars, ~InstallNext PROVE InstallInv'
    BY InstallStep
  <2>1. UNCHANGED installVars
    BY DEF Next, StartDaemon, EndDaemon, StreamEnds, SwapCredentials, Persist, PersistFails,
       nodeVars
  <2> QED
    BY <2>1 DEF InstallInv, FileType, Pending, Progress, Named, Brought, installVars, cmdVars,
       diskVars
<1> QED
  BY <1>1, <1>2, InstallStep, PTL DEF Spec

\* init.go: herd.yaml names no file that is missing, and an init that asked has whole
\* binaries and a whole kernel, after any history of inits that were killed anywhere.
THEOREM InstallCompleteHolds == Spec => []InstallComplete
<1>1. InstallInv => InstallComplete
  BY ManagedFiles DEF InstallInv, FileType, Progress, Named, Brought, InstallComplete, Later
<1> QED
  BY <1>1, Installed, PTL

-----------------------------------------------------------------------------
(* The identity *)

\* What persistIdentity still has to do, call by call.
Calls2 == <<"write_key", "truncate_id", "write_id">>
Calls3 == <<"truncate_id", "write_id">>
Calls4 == <<"write_id">>

\* Both files come from swaps that were made, and the id from none that is later than
\* the key's.  The last swap is kept once its last call is made; until then the files
\* are as far as the calls that are made, in the order key, id.
IdentityInv ==
    /\ swaps \in 0..MaxSwaps
    /\ keyFile \in 0..swaps /\ idFile \in 0..swaps /\ kept \in 0..swaps
    /\ keyFile # 0 => idFile <= keyFile
    /\ kept = swaps => persist = <<>> /\ keyFile = swaps /\ idFile = swaps
    /\ \/ persist = <<>>
       \/ persist = PersistCalls
       \/ persist = Calls2 /\ keyFile = 0
       \/ persist = Calls3 /\ keyFile = swaps
       \/ persist = Calls4 /\ keyFile = swaps /\ idFile = 0

\* The four calls of persistIdentity, one after the other.
LEMMA CallsInOrder ==
    /\ PersistCalls # <<>> /\ Head(PersistCalls) = "remove_key" /\ Tail(PersistCalls) = Calls2
    /\ Len(PersistCalls) # 1
    /\ Calls2 # <<>> /\ Head(Calls2) = "write_key" /\ Tail(Calls2) = Calls3 /\ Len(Calls2) # 1
    /\ Calls3 # <<>> /\ Head(Calls3) = "truncate_id" /\ Tail(Calls3) = Calls4 /\ Len(Calls3) # 1
    /\ Calls4 # <<>> /\ Head(Calls4) = "write_id" /\ Tail(Calls4) = <<>> /\ Len(Calls4) = 1
<1> USE DEF PersistCalls, Calls2, Calls3, Calls4
<1>1. /\ Head(PersistCalls) = "remove_key" /\ Len(PersistCalls) = 4
      /\ Head(Calls2) = "write_key" /\ Len(Calls2) = 3
      /\ Head(Calls3) = "truncate_id" /\ Len(Calls3) = 2
      /\ Head(Calls4) = "write_id" /\ Len(Calls4) = 1
  OBVIOUS
<1>2. Tail(PersistCalls) = Calls2
  OBVIOUS
<1>3. Tail(Calls2) = Calls3
  OBVIOUS
<1>4. Tail(Calls3) = Calls4
  OBVIOUS
<1>5. Tail(Calls4) = <<>>
  OBVIOUS
<1>6. PersistCalls # <<>> /\ Calls2 # <<>> /\ Calls3 # <<>> /\ Calls4 # <<>>
  OBVIOUS
<1> HIDE DEF PersistCalls, Calls2, Calls3, Calls4
<1> QED
  BY <1>1, <1>2, <1>3, <1>4, <1>5, <1>6

\* One call of persistIdentity.
LEMMA PersistStep == IdentityInv /\ Persist => IdentityInv'
<1> SUFFICES ASSUME IdentityInv, Persist PROVE IdentityInv'
  OBVIOUS
<1> USE SwapsAssumption DEF IdentityInv
<1>0. /\ persist # <<>> /\ persist' = Tail(persist) /\ swaps' = swaps
      /\ kept' = IF Len(persist) = 1 THEN swaps ELSE kept
  BY DEF Persist
<1>1. CASE persist = PersistCalls
  <2>1. keyFile' = 0 /\ idFile' = idFile
    BY <1>1, CallsInOrder DEF Persist
  <2> QED
    BY <1>0, <1>1, <2>1, CallsInOrder
<1>2. CASE persist = Calls2
  <2>1. keyFile' = swaps /\ idFile' = idFile
    BY <1>2, CallsInOrder DEF Persist
  <2> QED
    BY <1>0, <1>2, <2>1, CallsInOrder
<1>3. CASE persist = Calls3
  <2>1. keyFile' = keyFile /\ idFile' = 0
    BY <1>3, CallsInOrder DEF Persist
  <2> QED
    BY <1>0, <1>3, <2>1, CallsInOrder
<1>4. CASE persist = Calls4
  <2>1. keyFile' = keyFile /\ idFile' = swaps
    BY <1>4, CallsInOrder DEF Persist
  <2> QED
    BY <1>0, <1>4, <2>1, CallsInOrder
<1> QED
  BY <1>0, <1>1, <1>2, <1>3, <1>4

\* Every step keeps the order of key and id.
LEMMA IdentityStep == IdentityInv /\ [Next]_nodeVars => IdentityInv'
<1> SUFFICES ASSUME IdentityInv, [Next]_nodeVars PROVE IdentityInv'
  OBVIOUS
<1> USE SwapsAssumption DEF IdentityInv, daemonVars, identityVars
<1>1. CASE SwapCredentials
  BY <1>1 DEF SwapCredentials
<1>2. CASE Persist
  BY <1>2, PersistStep
<1>3. CASE PersistFails \/ EndDaemon
  BY <1>3 DEF PersistFails, EndDaemon
<1>4. CASE UNCHANGED <<persist, identityVars>>
  BY <1>4
<1> QED
  BY <1>1, <1>2, <1>3, <1>4 DEF Next, StartDaemon, StreamEnds, nodeVars

\* The inductive invariant of the identity holds in every reachable state.
LEMMA Identity == Spec => []IdentityInv
<1>1. NodeInit => IdentityInv
  BY SwapsAssumption DEF NodeInit, IdentityInv
<1> QED
  BY <1>1, IdentityStep, PTL DEF Spec

\* client.go: once a swap is persisted the next daemon presents that key and that id,
\* and never an id with an older key, after any number of swaps, failing writes and
\* crashes between two system calls.
THEOREM IdentityKeptHolds == Spec => []IdentityKept
<1>1. IdentityInv => IdentityKept
  BY SwapsAssumption DEF IdentityInv, IdentityKept, Credentials
<1> QED
  BY <1>1, Identity, PTL

-----------------------------------------------------------------------------
(* Types *)

\* herd.yaml is written with values of its type.
LEMMA ConfType ==
    ASSUME InstallTypeOK, InstallNext
    PROVE  conf' \in [form : {"absent", "broken", "short", "whole"}, named : SUBSET Artifacts,
                      valid : BOOLEAN, cloud : {"off", "tokenless", "on"}, typed : BOOLEAN]
<1> DEFINE T == [form : {"absent", "broken", "short", "whole"}, named : SUBSET Artifacts,
                 valid : BOOLEAN, cloud : {"off", "tokenless", "on"}, typed : BOOLEAN]
<1>1. Managed(own) \in SUBSET Artifacts
  BY ManagedFiles DEF InstallTypeOK
<1>2. CASE OpenConfig
  BY <1>2 DEF OpenConfig, NoConf
<1>3. CASE WriteConfig
  <2>1. PICK limits \in Choices(yes), cloud \in {"off", "on"},
             path \in IF "kernel" \in own /\ ~yes THEN {"", "path"} ELSE {"path"} :
          conf' = [form |-> "whole", named |-> Managed(own), cloud |-> cloud,
                   valid |-> Validate(limits, path), typed |-> ~yes]
    BY <1>3 DEF WriteConfig
  <2> QED
    BY <1>1, <2>1 DEF Validate
<1>4. CASE CutConfig
  <2>1. PICK limits \in Choices(yes), cloud \in {"off", "tokenless", "on"} :
          conf' = [form |-> "short", named |-> Managed(own), cloud |-> cloud,
                   valid |-> Validate(limits, "path"), typed |-> ~yes]
    BY <1>4 DEF CutConfig
  <2> QED
    BY <1>1, <2>1 DEF Validate
<1>5. CASE conf' = conf
  BY <1>5 DEF InstallTypeOK
<1> QED
  BY <1>2, <1>3, <1>4, <1>5 DEF InstallNext, RunInit, NextStep, Create, Copied, EndInit, Teardown,
     diskVars

\* Every step of init and teardown keeps the types.
LEMMA InstallTypeStep ==
    ASSUME InstallTypeOK, InstallInv, InstallInv', InstallNext PROVE InstallTypeOK'
<1>1. conf' \in [form : {"absent", "broken", "short", "whole"}, named : SUBSET Artifacts,
                 valid : BOOLEAN, cloud : {"off", "tokenless", "on"}, typed : BOOLEAN]
  BY ConfType
<1>2. /\ own' \in SUBSET {"binaries", "kernel"} /\ todo' \in SUBSET Artifacts
      /\ open' \in todo' \cup {"none"} /\ file' \in [Artifacts -> {"absent", "partial", "whole"}]
  BY DEF InstallInv, FileType, Pending
<1>3. step' \in DOMAIN After \cup {"idle", "config", "write", "bootstrap"}
  <2>1. CASE NextStep
    BY <2>1 DEF NextStep, After
  <2>2. CASE InstallNext /\ ~NextStep
    BY <2>2 DEF InstallTypeOK, InstallNext, RunInit, Create, Copied, OpenConfig, WriteConfig,
       CutConfig, EndInit, Teardown, Quit, After, cmdVars
  <2> QED
    BY <2>1, <2>2
<1>4. yes' \in BOOLEAN
  BY DEF InstallTypeOK, InstallNext, RunInit, NextStep, Create, Copied, OpenConfig, WriteConfig,
     CutConfig, EndInit, Teardown, Quit, cmdVars
<1>5. torn' \in BOOLEAN
  BY DEF InstallTypeOK, InstallNext, RunInit, NextStep, Create, Copied, OpenConfig, WriteConfig,
     CutConfig, EndInit, Teardown, diskVars
<1> QED
  BY <1>1, <1>2, <1>3, <1>4, <1>5 DEF InstallTypeOK

\* The stream authenticates with a token or with an identity of the node.
LinkType == link \in {<<>>, <<"token">>} \cup ({"node"} \X (1..MaxSwaps) \X (1..MaxSwaps))

\* Start presents the machine token, or a key and an id that were stored.
LEMMA CredentialsType ==
    IdentityInv => Credentials \in {<<>>, <<"token">>} \cup ({"node"} \X (1..MaxSwaps) \X (1..MaxSwaps))
  BY SwapsAssumption DEF IdentityInv, Credentials

\* What persistIdentity has yet to do is an end of its list of calls.
LEMMA CallsLeft ==
    ASSUME IdentityInv PROVE \E i \in 1..5 : persist = SubSeq(PersistCalls, i, 4)
<1> DEFINE S == {"remove_key", "write_key", "truncate_id", "write_id"}
<1>1. PersistCalls \in Seq(S) /\ Len(PersistCalls) = 4
  BY DEF PersistCalls
<1> HIDE DEF S
<1>2. SubSeq(PersistCalls, 1, 4) = PersistCalls
  BY <1>1, SubSeqFull
<1>3. ASSUME NEW m \in 1..4, NEW n, n = m + 1
      PROVE  SubSeq(PersistCalls, n, 4) = Tail(SubSeq(PersistCalls, m, 4))
  <2>1. m \in 1..Len(PersistCalls) /\ 4 \in m..Len(PersistCalls)
    BY <1>1
  <2> QED
    BY <1>1, <1>3, <2>1, HeadTailOfSubSeq
<1>4. SubSeq(PersistCalls, 2, 4) = Calls2
  <2>1. SubSeq(PersistCalls, 2, 4) = Tail(SubSeq(PersistCalls, 1, 4))
    BY <1>3
  <2> QED
    BY <1>2, <2>1, CallsInOrder
<1>5. SubSeq(PersistCalls, 3, 4) = Calls3
  <2>1. SubSeq(PersistCalls, 3, 4) = Tail(SubSeq(PersistCalls, 2, 4))
    BY <1>3
  <2> QED
    BY <1>4, <2>1, CallsInOrder
<1>6. SubSeq(PersistCalls, 4, 4) = Calls4
  <2>1. SubSeq(PersistCalls, 4, 4) = Tail(SubSeq(PersistCalls, 3, 4))
    BY <1>3
  <2> QED
    BY <1>5, <2>1, CallsInOrder
<1>7. SubSeq(PersistCalls, 5, 4) = <<>>
  BY SubSeqEmpty
<1>8. persist \in {PersistCalls, Calls2, Calls3, Calls4, <<>>}
  BY DEF IdentityInv
<1>9. 1 \in 1..5 /\ 2 \in 1..5 /\ 3 \in 1..5 /\ 4 \in 1..5 /\ 5 \in 1..5
  OBVIOUS
<1> QED
  BY <1>2, <1>4, <1>5, <1>6, <1>7, <1>8, <1>9, Zenon

DaemonType == up \in BOOLEAN /\ LinkType

\* The variables of installation and identity keep their types: each file on the disk is
\* one of those init manages, a file that is open is one still to come, and what
\* persistIdentity has left is a rest of its four calls.
THEOREM NodeTypeCorrect == Spec => []TypeOK
<1> DEFINE Types == InstallTypeOK /\ DaemonType
<1>1. NodeInit => Types
  <2> SUFFICES ASSUME NodeInit PROVE Types
    OBVIOUS
  <2>1. InstallTypeOK
    BY DEF NodeInit, InstallInit, InstallTypeOK, Artifacts, NoConf
  <2>2. DaemonType
    BY DEF NodeInit, DaemonType, LinkType
  <2> QED
    BY <2>1, <2>2
<1>2. Types /\ InstallInv /\ InstallInv' /\ IdentityInv /\ [Next]_nodeVars => Types'
  <2> SUFFICES ASSUME InstallTypeOK, DaemonType, InstallInv, InstallInv', IdentityInv,
                      [Next]_nodeVars
               PROVE  InstallTypeOK' /\ DaemonType'
    OBVIOUS
  <2>1. CASE InstallNext /\ UNCHANGED <<daemonVars, identityVars>>
    BY <2>1, InstallTypeStep DEF DaemonType, LinkType, daemonVars
  <2>2. CASE UNCHANGED installVars
    <3>1. InstallTypeOK'
      BY <2>2 DEF InstallTypeOK, installVars, cmdVars, diskVars
    <3>2. up' \in BOOLEAN
      BY <2>2 DEF Next, StartDaemon, EndDaemon, StreamEnds, SwapCredentials, Persist, PersistFails,
         DaemonType, daemonVars, nodeVars
    <3>3. LinkType'
      <4>1. link' \in {<<>>, link, Credentials}
        BY DEF Next, StartDaemon, EndDaemon, StreamEnds, SwapCredentials, Persist, PersistFails,
           daemonVars, nodeVars
      <4> QED
        BY <4>1, CredentialsType DEF DaemonType, LinkType
    <3> QED
      BY <3>1, <3>2, <3>3 DEF DaemonType
  <2> QED
    BY <2>1, <2>2 DEF Next, StartDaemon, EndDaemon, StreamEnds, SwapCredentials, Persist,
       PersistFails, nodeVars
<1>3. Types /\ IdentityInv => TypeOK
  <2> SUFFICES ASSUME InstallTypeOK, DaemonType, IdentityInv PROVE TypeOK
    OBVIOUS
  <2>1. {keyFile, idFile, swaps, kept} \subseteq 0..MaxSwaps
    BY SwapsAssumption DEF IdentityInv
  <2> QED
    BY <2>1, CallsLeft DEF TypeOK, DaemonType, LinkType
<1> QED
  BY <1>1, <1>2, <1>3, Installed, Identity, PTL DEF Spec
=============================================================================
