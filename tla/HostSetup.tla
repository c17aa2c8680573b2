------------------------------ MODULE HostSetup ------------------------------
(***************************************************************************)
(* herd init and herd teardown: the devmapper pool and containerd          *)
(* (internal/storage/bootstrap.go), then the host's NAT rules              *)
(* (internal/network/nat.go).  Both commands are runs of system calls on   *)
(* state that outlives them; they may be killed between any two calls, the *)
(* host may reboot, and they may be repeated.                              *)
(*                                                                         *)
(* todo is the list of calls that the running command still makes: those   *)
(* of Bootstrap, of its rollback, or of Teardown.  A file that is deleted  *)
(* under its loop device, or a pool under whose devices that happened, is  *)
(* "dead": it works, but no path leads to it any more.                     *)
(***************************************************************************)
EXTENDS Integers, Sequences

CONSTANTS
    MaxInits,    \* bound on the inits that no teardown has matched, failed deletions included
    MaxMissed    \* bound: no deletion fails once that many of some rule have failed

ASSUME HostAssumption == MaxInits \in Nat \ {0} /\ MaxMissed \in Nat

VARIABLES
    mode,        \* "idle", or the command: "init", "undo" (its rollback) or "teardown"
    todo,        \* the calls it still makes
    undo,        \* cleanupStack, newest entry first
    before,      \* what init found
    errs,        \* a clean-up call of this command failed
    warned,      \* one of some command failed since the host booted
    dirs, config,  \* the directories that exist; config.toml exists
    file,        \* per sparse file: "absent", "empty" (not yet grown) or "full"
    loops,       \* per file: its loop devices, "live" or "dead"
    pool,        \* herd-thinpool: "none", "live" or "dead"
    containerd,  \* it runs
    copies,      \* per iptables rule, how often the kernel has it
    inits,       \* runs of network.Bootstrap that no run of network.Teardown has matched
    missed       \* per rule: deletions since the host booted that failed and left a copy

cmdVars == <<mode, todo, undo, before, errs, warned>>
storeVars == <<dirs, config, file, loops, pool, containerd>>
netVars == <<copies, inits, missed>>
vars == <<cmdVars, storeVars, netVars>>

Files == {"data", "metadata"}
Dirs == {"state", "devmapper", "containerd"}
\* "drop" stands for the rules of the three private networks, added in one loop
Rules == {"masquerade", "established", "hairpin", "drop", "forward"}

Found == [dirs |-> dirs, config |-> config, file |-> file, loops |-> loops, pool |-> pool]
Nothing == [dirs |-> {}, config |-> FALSE, file |-> [f \in Files |-> "absent"],
            loops |-> [f \in Files |-> {}], pool |-> "none"]

Init ==
    /\ mode = "idle" /\ todo = <<>> /\ undo = <<>> /\ errs = FALSE /\ warned = FALSE
    /\ dirs = {} /\ config = FALSE
    /\ file = [f \in Files |-> "absent"]
    /\ loops = [f \in Files |-> {}]
    /\ pool = "none" /\ containerd = FALSE
    /\ before = Nothing
    /\ copies = [r \in Rules |-> 0] /\ inits = 0 /\ missed = [r \in Rules |-> 0]

StorageCalls == <<
    <<"mkdir", "state">>, <<"mkdir", "devmapper">>,
    <<"create", "data">>, <<"create", "metadata">>,
    <<"losetup", "data">>, <<"losetup", "metadata">>,
    <<"dmsetup", "pool">>, <<"mkdir", "containerd">>,
    <<"write", "config">>, <<"start", "containerd">> >>

NatCalls == <<
    <<"append", "masquerade">>, <<"append", "established">>, <<"append", "hairpin">>,
    <<"append", "drop">>, <<"append", "forward">> >>

StorageTeardownFilesFirst == <<
    <<"pkill", "containerd">>, <<"rmdir", "state">>, <<"dmremove", "pool">>,
    <<"detach", "data">>, <<"detach", "metadata">> >>

StorageTeardown == <<
    <<"pkill", "containerd">>, <<"dmremove", "pool">>,
    <<"detach", "data">>, <<"detach", "metadata">>, <<"rmdir", "state">> >>

NatTeardown == <<
    <<"delete", "masquerade">>, <<"delete", "hairpin">>, <<"delete", "established">>,
    <<"delete", "drop">>, <<"delete", "forward">> >>

-----------------------------------------------------------------------------
(* The commands *)

\* runInit, from its call of storage.Bootstrap on
RunInit ==
    /\ mode = "idle" /\ inits < MaxInits /\ \A r \in Rules : inits + missed[r] < MaxInits
    /\ mode' = "init"
    /\ todo' = StorageCalls \o NatCalls
    /\ undo' = <<>> /\ before' = Found /\ errs' = FALSE
    /\ UNCHANGED <<warned, storeVars, netVars>>

RunTeardown ==
    /\ mode = "idle"
    /\ mode' = "teardown"
    /\ todo' = StorageTeardown \o NatTeardown
    /\ undo' = <<>> /\ errs' = FALSE
    /\ UNCHANGED <<before, warned, storeVars, netVars>>

\* The next call is op(x).
Call(op, x) == todo # <<>> /\ Head(todo) = <<op, x>>
Doing(op) == todo # <<>> /\ Head(todo)[1] = op

\* It is done, and push is what cleanupStack gets, if anything.
Done(push) ==
    /\ todo' = Tail(todo)
    /\ undo' = push \o undo
    /\ UNCHANGED <<mode, before, errs, warned>>

-----------------------------------------------------------------------------
(* storage.Bootstrap *)

\* MkdirAll; only a directory that was not there is removed by the rollback
MakeDir(d) ==
    /\ Call("mkdir", d)
    /\ dirs' = dirs \cup {d}
    /\ Done(IF d \in dirs THEN <<>> ELSE <<<<"rmdir", d>>>>)
    /\ UNCHANGED <<config, file, loops, pool, containerd, netVars>>

SparseFileAlways(f) ==
    /\ Call("create", f)
    /\ IF file[f] = "absent"
       THEN file' = [file EXCEPT ![f] = "full"]
       ELSE UNCHANGED file
    /\ Done(<<<<"rm", f>>>>)
    /\ UNCHANGED <<dirs, config, loops, pool, containerd, netVars>>

\* createSparseFile: a file of that name is taken as it is; otherwise os.Create ...
createSparseFile(f) ==
    /\ Call("create", f)
    /\ IF file[f] = "absent"
       THEN /\ file' = [file EXCEPT ![f] = "empty"]
            /\ todo' = <<<<"grow", f>>>> \o Tail(todo)
            /\ UNCHANGED <<mode, undo, before, errs, warned>>
       ELSE UNCHANGED file /\ Done(<<>>)
    /\ UNCHANGED <<dirs, config, loops, pool, containerd, netVars>>

\* ... and Truncate to its size
Grow(f) ==
    /\ Call("grow", f)
    /\ file' = [file EXCEPT ![f] = "full"]
    /\ Done(<<<<"rm", f>>>>)
    /\ UNCHANGED <<dirs, config, loops, pool, containerd, netVars>>

\* a loop device of the file at that path is used as it is
setupLoopDevice(f) ==
    /\ Call("losetup", f)
    /\ loops' = [loops EXCEPT ![f] = @ \cup {"live"}]
    /\ Done(IF "live" \in loops[f] THEN <<>> ELSE <<<<"detach", f>>>>)
    /\ UNCHANGED <<dirs, config, file, pool, containerd, netVars>>

\* a pool of that name is used as it is, for dmsetup reload gets no table; a new one
\* needs a data device of some length and a metadata device
CreatePool ==
    /\ Call("dmsetup", "pool")
    /\ \/ pool # "none" /\ UNCHANGED pool /\ Done(<<>>)
       \/ /\ pool = "none" /\ \A f \in Files : file[f] = "full"
          /\ pool' = "live" /\ Done(<<<<"dmremove", "pool">>>>)
    /\ UNCHANGED <<dirs, config, file, loops, containerd, netVars>>

\* the rollback removes the file also if an earlier init had written it
WriteConfig ==
    /\ Call("write", "config")
    /\ config' = TRUE
    /\ Done(<<<<"rm", "config">>>>)
    /\ UNCHANGED <<dirs, file, loops, pool, containerd, netVars>>

\* and up to three seconds of waiting for its socket, which may not come
StartContainerd ==
    /\ Call("start", "containerd")
    /\ containerd' = TRUE
    /\ Done(<<>>)
    /\ UNCHANGED <<dirs, config, file, loops, pool, netVars>>

\* A call fails; the deferred function runs the clean-up calls.  os.WriteFile may have
\* made config.toml before it failed; nothing on the stack removes that one.
BootstrapFails ==
    /\ mode = "init" /\ ~Doing("append") /\ todo # <<>>
    /\ mode' = "undo" /\ todo' = undo
    /\ UNCHANGED config \/ (Doing("write") /\ config' = TRUE)
    /\ UNCHANGED <<undo, before, errs, warned, dirs, file, loops, pool, containerd, netVars>>

-----------------------------------------------------------------------------
(* The calls of the rollback and of Teardown *)

\* The files of S are deleted.
Delete(S) ==
    /\ file' = [f \in Files |-> IF f \in S THEN "absent" ELSE file[f]]
    /\ loops' = [f \in Files |-> IF f \in S /\ loops[f] # {} THEN {"dead"} ELSE loops[f]]
    /\ pool' = IF pool = "live" /\ S # {} THEN "dead" ELSE pool

\* os.RemoveAll
RemoveDir(d) ==
    /\ Call("rmdir", d)
    /\ CASE d = "state" -> dirs' = {} /\ config' = FALSE /\ Delete(Files)
         [] d = "devmapper" -> dirs' = dirs \ {d} /\ Delete(Files) /\ UNCHANGED config
         [] d = "containerd" -> dirs' = dirs \ {d} /\ UNCHANGED <<config, file, loops, pool>>
    /\ Done(<<>>)
    /\ UNCHANGED <<containerd, netVars>>

RemoveFile(f) ==
    /\ Call("rm", f)
    /\ Delete({f})
    /\ Done(<<>>)
    /\ UNCHANGED <<dirs, config, containerd, netVars>>

RemoveConfig ==
    /\ Call("rm", "config")
    /\ config' = FALSE
    /\ Done(<<>>)
    /\ UNCHANGED <<dirs, file, loops, pool, containerd, netVars>>

\* the rollback detaches the device it made, by its name; Teardown those that losetup -j
\* lists for the path; a device that a pool still uses goes with the pool
DetachLoop(f) ==
    /\ Call("detach", f)
    /\ loops' = [loops EXCEPT ![f] = IF mode = "undo" THEN @ \cap before.loops[f]
                                                     ELSE @ \ {"live"}]
    /\ Done(<<>>)
    /\ UNCHANGED <<dirs, config, file, pool, containerd, netVars>>

\* removeThinPool, removeThinPoolWithRetry
RemovePool ==
    /\ Call("dmremove", "pool")
    /\ pool' = "none"
    /\ Done(<<>>)
    /\ UNCHANGED <<dirs, config, file, loops, containerd, netVars>>

\* pkill and a second's sleep
StopContainerd ==
    /\ Call("pkill", "containerd")
    /\ containerd' = FALSE
    /\ Done(<<>>)
    /\ UNCHANGED <<dirs, config, file, loops, pool, netVars>>

\* Any of these fails: a busy pool, a device that cannot be listed or detached.  It is
\* logged, or collected in teardownErrs, and the next call is made all the same.
CleanupFails ==
    /\ \E op \in {"rmdir", "rm", "detach", "dmremove", "pkill"} : Doing(op)
    /\ todo' = Tail(todo)
    /\ errs' = TRUE /\ warned' = TRUE
    /\ UNCHANGED <<mode, undo, before, storeVars, netVars>>

-----------------------------------------------------------------------------
(* The NAT rules *)

\* iptables -A, after the interface was found and the sysctls were set
AppendRule(r) ==
    /\ Call("append", r)
    /\ copies' = [copies EXCEPT ![r] = @ + 1]
    /\ inits' = IF r = "masquerade" THEN inits + 1 ELSE inits
    /\ Done(<<>>)
    /\ UNCHANGED <<missed, storeVars>>

DeleteRuleBlind(r) ==
    /\ Call("delete", r) /\ ~errs
    /\ copies' = [copies EXCEPT ![r] = @ - 1]
    /\ inits' = IF Len(todo) = 1 /\ inits > 0 THEN inits - 1 ELSE inits
    /\ Done(<<>>)
    /\ UNCHANGED <<missed, storeVars>>

DeleteRuleHalts(r) ==
    /\ Call("delete", r) /\ ~errs
    /\ \/ /\ copies' = [copies EXCEPT ![r] = IF @ = 0 THEN 0 ELSE @ - 1] /\ UNCHANGED missed
          /\ inits' = IF Len(todo) = 1 /\ inits > 0 THEN inits - 1 ELSE inits
          /\ Done(<<>>)
       \/ /\ copies[r] > 0 /\ \A q \in Rules : missed[q] < MaxMissed
          /\ missed' = [missed EXCEPT ![r] = @ + 1] /\ UNCHANGED copies
          /\ inits' = IF inits > 0 THEN inits - 1 ELSE inits
          /\ todo' = <<>> /\ UNCHANGED <<mode, undo, before, errs, warned>>
    /\ UNCHANGED storeVars

\* iptables -D removes one copy.  It fails when there is none, or leaves the copy: the
\* xtables lock is busy, or the default interface, looked up anew, is another than the
\* copy's.  Every error is ignored.  runTeardown stops before the rules if
\* storage.Teardown reported an error.
DeleteRule(r) ==
    /\ Call("delete", r) /\ ~errs
    /\ \/ copies' = [copies EXCEPT ![r] = IF @ = 0 THEN 0 ELSE @ - 1] /\ UNCHANGED missed
       \/ /\ copies[r] > 0 /\ \A q \in Rules : missed[q] < MaxMissed
          /\ missed' = [missed EXCEPT ![r] = @ + 1] /\ UNCHANGED copies
    /\ inits' = IF Len(todo) = 1 /\ inits > 0 THEN inits - 1 ELSE inits
    /\ Done(<<>>)
    /\ UNCHANGED storeVars

-----------------------------------------------------------------------------
Idle == mode' = "idle" /\ todo' = <<>> /\ undo' = <<>> /\ before' = Nothing /\ errs' = FALSE

\* The command returns: after its last call, on an error in network.Bootstrap, which
\* has no rollback, or on one of storage.Teardown; or it is killed, at any call.
Finish ==
    /\ mode # "idle"
    /\ Idle
    /\ UNCHANGED <<warned, storeVars, netVars>>

\* What is not on disk is gone.
RebootHost ==
    /\ Idle
    /\ loops' = [f \in Files |-> {}] /\ pool' = "none" /\ containerd' = FALSE
    /\ copies' = [r \in Rules |-> 0] /\ inits' = 0 /\ missed' = [r \in Rules |-> 0]
    /\ warned' = FALSE
    /\ UNCHANGED <<dirs, config, file>>

Next ==
    \/ RunInit \/ RunTeardown \/ BootstrapFails \/ Finish \/ RebootHost
    \/ \E d \in Dirs : MakeDir(d) \/ RemoveDir(d)
    \/ \E f \in Files :
        createSparseFile(f) \/ Grow(f) \/ setupLoopDevice(f) \/ RemoveFile(f) \/ DetachLoop(f)
    \/ CreatePool \/ WriteConfig \/ StartContainerd
    \/ RemoveConfig \/ RemovePool \/ StopContainerd \/ CleanupFails
    \/ \E r \in Rules : AppendRule(r) \/ DeleteRule(r)

Spec == Init /\ [][Next]_vars

-----------------------------------------------------------------------------
(* Properties *)

Ops == {"mkdir", "create", "grow", "losetup", "dmsetup", "write", "start", "append",
        "rmdir", "rm", "detach", "dmremove", "pkill", "delete"}
CallType == Ops \X (Dirs \cup Files \cup Rules \cup {"pool", "config"})

\* The types of the variables.
TypeOK ==
    /\ mode \in {"idle", "init", "undo", "teardown"}
    /\ todo \in Seq(CallType) /\ undo \in Seq(CallType) /\ errs \in BOOLEAN /\ warned \in BOOLEAN
    /\ dirs \in SUBSET Dirs /\ config \in BOOLEAN /\ containerd \in BOOLEAN
    /\ file \in [Files -> {"absent", "empty", "full"}]
    /\ loops \in [Files -> SUBSET {"live", "dead"}]
    /\ pool \in {"none", "live", "dead"}
    /\ copies \in [Rules -> Nat] /\ missed \in [Rules -> 0 .. MaxMissed]
    /\ inits \in 0 .. MaxInits

\* bootstrap.go on a pool that exists: "Attempt to reload table if it already exists to
\* ensure loop devices map correctly".  When Bootstrap has returned nil the pool lies on
\* the files of the state directory, after whatever kills, reboots and earlier commands,
\* unless a clean-up call failed: then a pool over deleted files may be taken for it.
PoolOnFiles ==
    (mode = "init" /\ Doing("append") /\ ~warned) =>
        /\ pool = "live"
        /\ \A f \in Files : file[f] = "full" /\ "live" \in loops[f]

\* This run has written config.toml, and its rollback removes it.
WroteConfig == \E i \in DOMAIN undo : undo[i] = <<"rm", "config">>

\* The rollback of a storage.Bootstrap that failed takes away what this run made, and
\* nothing that it found except the config.toml of an earlier init, which is lost once
\* this run has overwritten it.  All that may stay is a file that could not be grown, and
\* a config.toml whose writing failed.
RollbackRestores ==
    (mode = "undo" /\ todo = <<>> /\ ~errs) =>
        /\ dirs = before.dirs /\ loops = before.loops /\ pool = before.pool
        /\ \A f \in Files :
            file[f] = before.file[f] \/ (before.file[f] = "absent" /\ file[f] = "empty")
        /\ IF WroteConfig THEN ~config ELSE before.config => config

\* bootstrap.go: Teardown "destroys previously bootstrapped devmapper/containerd state".
\* When it reports no error, nor did a clean-up before it, nothing of any earlier init
\* is left, killed ones included.
TeardownComplete ==
    (mode = "teardown" /\ Doing("delete") /\ ~warned) =>
        /\ dirs = {} /\ ~config /\ ~containerd /\ pool = "none"
        /\ \A f \in Files : file[f] = "absent" /\ loops[f] = {}

\* A run of network.Teardown undoes one run of network.Bootstrap, wherever either of them
\* was killed: a rule has no more copies than there were inits that no teardown has
\* matched, and deletions of it that failed.
NatBalanced == \A r \in Rules : copies[r] <= inits + missed[r]
=============================================================================
