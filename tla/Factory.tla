------------------------------- MODULE Factory -------------------------------
(***************************************************************************)
(* FirecrackerFactory.Spawn and FirecrackerWorker.Close                    *)
(* (firecracker_factory.go) over the allocators they share: UIDPool, IPAM, *)
(* PortManager, the iptables rules, and the host objects that are named    *)
(* after the session: snapshot, chroot and tap device.                     *)
(*                                                                         *)
(* A slot is one Spawn and, if it works, the Close of the worker it made.  *)
(* plan[v] is the undo stack while v spawns, newest entry first, and the   *)
(* list of clean-up calls still to make while v rolls back or closes: both *)
(* go through the same calls, in different orders.  The calls for the port *)
(* mappings, of which a VM has any number, are kept in fwd[v]: they lie on *)
(* top of the stack, and come last in Close.                               *)
(*                                                                         *)
(* The caller is the pool: it spawns a session only when no other worker   *)
(* of that session is spawning or pinned (SingleFlight and OneOwner of     *)
(* module Pool), but possibly while an older one is still closing, and has *)
(* a ticket for each worker that is not yet closed (LiveAtMostMax).        *)
(***************************************************************************)
EXTENDS Integers, Sequences, FiniteSets

CONSTANTS
    Slots,       \* Spawn calls in progress or VMs
    IDs,         \* session ids
    SessionOf,   \* [Slots -> IDs]: the session each slot works for
    MaxVMs,      \* the pool's tickets: slots that are in use at once
    UIDStart, UIDSize, SubnetSize, Ports, Ephemeral,
    Requests,    \* host ports asked for: a port, or 0 for any
    MaxMappings, \* bound on the port mappings of one VM
    NoOne,
    TapNames, TapOf,  \* [IDs -> TapNames]: "tap-" and the last 8 characters of the id
    ExitsInTime, \* TRUE: a killed process exits before the waits for it time out
    LinkFound,   \* TRUE: netlink finds a device it has just added
    DeleteWorks  \* TRUE: iptables -D removes a rule that is there

ASSUME FactoryAssumption ==
    /\ SessionOf \in [Slots -> IDs] /\ MaxVMs \in Nat
    /\ UIDStart \in Nat \ {0} /\ UIDSize \in Nat \ {0}
    /\ SubnetSize \in Nat /\ SubnetSize >= 4   \* start.go has a /16
    /\ Ports \subseteq Nat \ {0} /\ Ephemeral \subseteq Ports
    /\ Requests \subseteq Ports \cup {0} /\ MaxMappings \in Nat
    /\ NoOne \notin Slots \cup IDs
    /\ TapOf \in [IDs -> TapNames]
    /\ ExitsInTime \in BOOLEAN /\ LinkFound \in BOOLEAN /\ DeleteWorks \in BOOLEAN

VARIABLES
    pc,         \* the next call of each slot's Spawn, or "undo", "run" or "clean"
    plan,       \* undo stack, then clean-up calls left
    fwd,        \* those for port mappings: <<"dnat" or "port", which mapping, host port>>
    uid, ip,    \* what the slot has been given
    proc,       \* its Firecracker process: "none", "up" or "killed"
    uids, used, nextIP, inUse,   \* the allocators
    rules,      \* DNAT rules in the kernel: <<host port, slot, which mapping, guest address>>
    snapshot,   \* per session id: "absent", "clean" or "written" by a guest
    chroot,     \* per session id: "absent", "made" or "linked"
    tap         \* per device name: the slot that made the device, or NoOne

slotVars == <<pc, plan, fwd, uid, ip, proc>>
netVars == <<inUse, rules>>
idVars == <<snapshot, chroot, tap>>
vars == <<slotVars, uids, used, nextIP, netVars, idVars>>

UID == INSTANCE UIDPool WITH Start <- UIDStart, Size <- UIDSize, avail <- uids
IPs == INSTANCE IPAM
PM  == INSTANCE PortManager WITH NoOwner <- NoOne

id(v) == SessionOf[v]
tapName(v) == TapOf[id(v)]
SpawnLabels == {"uid", "warm", "snapshot", "inject", "mkdir", "link", "ip", "tap", "start", "dial", "port", "dnat"}
Running == {v \in Slots : pc[v] = "run"}
HasProcess == {v \in Slots : proc[v] # "none"}

\* the mappings of config.PortMappings, in its order
Mappings == 1 .. MaxMappings
Rule(v, k, p) == <<p, v, k, ip[v]>>
\* where Spawn goes after k mappings: config.PortMappings may end here, or go on
AfterMapping(k) == {"run"} \cup (IF k < MaxMappings /\ Requests # {} THEN {"port"} ELSE {})

Init ==
    /\ pc = [v \in Slots |-> "off"]
    /\ plan = [v \in Slots |-> <<>>]
    /\ fwd = [v \in Slots |-> {}]
    /\ uid = [v \in Slots |-> 0]
    /\ ip = [v \in Slots |-> 0]
    /\ proc = [v \in Slots |-> "none"]
    /\ UID!Init /\ IPs!Init /\ PM!Init
    /\ rules = {}
    /\ snapshot = [i \in IDs |-> "absent"]
    /\ chroot = [i \in IDs |-> "absent"]
    /\ tap = [n \in TapNames |-> NoOne]

Set(f, v, x) == [f EXCEPT ![v] = x]
At(v, label) == pc[v] = label
Goto(v, label) == pc' = Set(pc, v, label)
Push(v, calls) == plan' = Set(plan, v, calls \o plan[v])
KeepAlloc == UNCHANGED <<uids, used, nextIP, netVars>>

-----------------------------------------------------------------------------
(* Spawn, one action per call that can be seen from outside. *)

\* The pool calls Spawn.  A slot whose process outlived its Close is not reused.
Begin(v) ==
    /\ At(v, "off") /\ proc[v] = "none"
    /\ Cardinality({u \in Slots : pc[u] # "off"}) < MaxVMs
    /\ \A u \in Slots \ {v} : id(u) = id(v) => pc[u] \in {"off", "clean"}
    /\ Goto(v, "uid")
    /\ UNCHANGED <<plan, fwd, uid, ip, proc, uids, used, nextIP, netVars, idVars>>

CheckoutUIDNoUndo(v) ==
    /\ At(v, "uid")
    /\ \E u \in UID!UIDs : UID!Checkout(u) /\ uid' = Set(uid, v, u)
    /\ Goto(v, "warm")
    /\ UNCHANGED <<plan, fwd, ip, proc, used, nextIP, netVars, idVars>>

CheckoutUID(v) ==
    /\ At(v, "uid")
    /\ \E u \in UID!UIDs : UID!Checkout(u) /\ uid' = Set(uid, v, u)
    /\ Push(v, <<"uid">>)
    /\ Goto(v, "warm")
    /\ UNCHANGED <<fwd, ip, proc, used, nextIP, netVars, idVars>>

\* WarmImage pulls, unpacks and caches what is missing, and never drops an image, so
\* Snapshot finds its parent; then ExtractImageConfig and the command
WarmImage(v) ==
    /\ At(v, "warm")
    /\ Goto(v, "snapshot")
    /\ UNCHANGED <<plan, fwd, uid, ip, proc, idVars>> /\ KeepAlloc

\* an existing snapshot of the key is reused as it is
Snapshot(v) ==
    /\ At(v, "snapshot")
    /\ snapshot' = IF snapshot[id(v)] = "absent" THEN Set(snapshot, id(v), "clean") ELSE snapshot
    /\ Push(v, <<"snapshot_ctx">>)
    /\ Goto(v, "inject")
    /\ UNCHANGED <<fwd, uid, ip, proc, chroot, tap>> /\ KeepAlloc

\* Snapshot fails, possibly with the volume prepared already: nothing will undo it.
SnapshotFails(v) ==
    /\ At(v, "snapshot")
    /\ \/ UNCHANGED snapshot
       \/ snapshot[id(v)] = "absent" /\ snapshot' = Set(snapshot, id(v), "clean")
    /\ Goto(v, "undo")
    /\ UNCHANGED <<plan, fwd, uid, ip, proc, chroot, tap>> /\ KeepAlloc

\* mounts the volume on the host and copies the agent into it: fails when the volume
\* has been torn down by the Close of the session's previous worker
InjectGuestAgent(v) ==
    /\ At(v, "inject")
    /\ snapshot[id(v)] # "absent"
    /\ Goto(v, "mkdir")
    /\ UNCHANGED <<plan, fwd, uid, ip, proc, idVars>> /\ KeepAlloc

\* os.Mkdir(chrootRoot): undone only if it made the directory
MakeChroot(v) ==
    /\ At(v, "mkdir")
    /\ IF chroot[id(v)] = "absent"
       THEN chroot' = Set(chroot, id(v), "made") /\ Push(v, <<"chroot">>)
       ELSE UNCHANGED <<chroot, plan>>
    /\ Goto(v, "link")
    /\ UNCHANGED <<fwd, uid, ip, proc, snapshot, tap>> /\ KeepAlloc

LinkKernelAnyway(v) ==
    /\ At(v, "link")
    /\ chroot[id(v)] # "absent" /\ snapshot[id(v)] # "absent"
    /\ chroot' = Set(chroot, id(v), "linked")
    /\ Goto(v, "ip")
    /\ UNCHANGED <<plan, fwd, uid, ip, proc, snapshot, tap>> /\ KeepAlloc

\* run and dev directories, os.Link of the kernel, the volume's device node: they fail
\* when the directory or the volume is gone and when the link is there already
LinkKernel(v) ==
    /\ At(v, "link")
    /\ chroot[id(v)] = "made" /\ snapshot[id(v)] # "absent"
    /\ chroot' = Set(chroot, id(v), "linked")
    /\ Goto(v, "ip")
    /\ UNCHANGED <<plan, fwd, uid, ip, proc, snapshot, tap>> /\ KeepAlloc

\* They fail before or after the link is made.
LinkFails(v) ==
    /\ At(v, "link")
    /\ \/ UNCHANGED chroot
       \/ chroot[id(v)] = "made" /\ chroot' = Set(chroot, id(v), "linked")
    /\ Goto(v, "undo")
    /\ UNCHANGED <<plan, fwd, uid, ip, proc, snapshot, tap>> /\ KeepAlloc

AcquireIPNoUndo(v) ==
    /\ At(v, "ip")
    /\ \E a \in IPs!Guests : IPs!Acquire(a) /\ ip' = Set(ip, v, a)
    /\ Goto(v, "tap")
    /\ UNCHANGED <<plan, fwd, uid, proc, uids, netVars, idVars>>

AcquireIP(v) ==
    /\ At(v, "ip")
    /\ \E a \in IPs!Guests : IPs!Acquire(a) /\ ip' = Set(ip, v, a)
    /\ Push(v, <<"ip">>)
    /\ Goto(v, "tap")
    /\ UNCHANGED <<fwd, uid, proc, uids, netVars, idVars>>

\* DeleteTap of a leftover of that name, then CreatePointToPointTap
CreateTap(v) ==
    /\ At(v, "tap")
    /\ tap' = Set(tap, tapName(v), v)
    /\ Push(v, <<"tap">>)
    /\ Goto(v, "start")
    /\ UNCHANGED <<fwd, uid, ip, proc, snapshot, chroot>> /\ KeepAlloc

\* CreatePointToPointTap fails: it removes what it made, unless it cannot look the
\* new device up.  The leftover is gone in any case.
CreateTapFails(v) ==
    /\ At(v, "tap")
    /\ \E left \in IF LinkFound THEN {NoOne} ELSE {NoOne, v} : tap' = Set(tap, tapName(v), left)
    /\ Goto(v, "undo")
    /\ UNCHANGED <<plan, fwd, uid, ip, proc, snapshot, chroot>> /\ KeepAlloc

\* the configuration file, then cmd.Start of the jailer; the guest mounts its disk
\* for writing
Start(v) ==
    /\ At(v, "start")
    /\ proc' = Set(proc, v, "up")
    /\ snapshot' = IF snapshot[id(v)] = "clean" THEN Set(snapshot, id(v), "written") ELSE snapshot
    /\ Push(v, <<"kill", "wait">>)
    /\ Goto(v, "dial")
    /\ UNCHANGED <<fwd, uid, ip, chroot, tap>> /\ KeepAlloc

\* the guest agent answers on vsock port 5000; the configuration asks for port mappings
\* or does not
Dial(v) ==
    /\ At(v, "dial")
    /\ proc[v] = "up"
    /\ \E next \in AfterMapping(0) : Goto(v, next)
    /\ UNCHANGED <<plan, fwd, uid, ip, proc, idVars>> /\ KeepAlloc

\* PortManager.Allocate for the next mapping, which may ask for a port that the VM has
\* already; the host's own sockets may take any port
AllocatePort(v) ==
    /\ At(v, "port")
    /\ \E k \in Mappings, r \in Requests, busy \in SUBSET Ports, p \in Ports :
        /\ 1 .. (k - 1) = {c[2] : c \in fwd[v]}
        /\ IF r = 0 THEN PM!AllocateEphemeral(id(v), p, busy)
           ELSE p = r /\ PM!AllocateExplicit(id(v), p, busy)
        /\ fwd' = Set(fwd, v, fwd[v] \cup {<<"port", k, p>>})
    /\ Goto(v, "dnat")
    /\ UNCHANGED <<plan, uid, ip, proc, uids, used, nextIP, rules, idVars>>

\* AddPortMapping; then the next turn of the loop, or Spawn returns
AddMapping(v) ==
    /\ At(v, "dnat")
    /\ \E k \in Mappings, p \in Ports :
        /\ <<"port", k, p>> \in fwd[v] /\ <<"dnat", k, p>> \notin fwd[v]
        /\ rules' = rules \cup {Rule(v, k, p)}
        /\ fwd' = Set(fwd, v, fwd[v] \cup {<<"dnat", k, p>>})
        /\ \E next \in AfterMapping(k) : Goto(v, next)
    /\ UNCHANGED <<plan, uid, ip, proc, uids, used, nextIP, inUse, idVars>>

\* It fails, and deletes the rules it had added, if iptables lets it.
AddMappingFails(v) ==
    /\ At(v, "dnat")
    /\ \E k \in Mappings, p \in Ports :
        /\ <<"port", k, p>> \in fwd[v] /\ <<"dnat", k, p>> \notin fwd[v]
        /\ \E left \in IF DeleteWorks THEN {{}} ELSE {{}, {Rule(v, k, p)}} : rules' = rules \cup left
    /\ Goto(v, "undo")
    /\ UNCHANGED <<plan, fwd, uid, ip, proc, uids, used, nextIP, inUse, idVars>>

\* Any other call of Spawn fails and leaves nothing behind, for lack of a resource
\* or for another reason: the deferred function starts on the undo stack.
Fail(v) ==
    /\ pc[v] \in SpawnLabels \ {"snapshot", "link", "tap", "dnat"}
    /\ Goto(v, "undo")
    /\ UNCHANGED <<plan, fwd, uid, ip, proc, idVars>> /\ KeepAlloc

-----------------------------------------------------------------------------
(* Close *)

ClosePlanUIDFirst == <<"uid", "kill", "wait", "chroot", "tap", "ip", "snapshot">>

\* the calls of Close before those for the port mappings, in order
ClosePlan == <<"kill", "wait", "chroot", "tap", "ip", "snapshot", "uid">>

\* Called once: a worker has one owner (OneOwner of module Pool) until Pool.Shutdown,
\* which may Close one that a KillWorker is closing, as the daemon exits.
Close(v) ==
    /\ At(v, "run")
    /\ Goto(v, "clean")
    /\ plan' = Set(plan, v, ClosePlan)
    /\ UNCHANGED <<fwd, uid, ip, proc, idVars>> /\ KeepAlloc

-----------------------------------------------------------------------------
(* The clean-up calls; each is the head of the plan when it is made. *)

TurnUnordered(v, call) ==
    /\ pc[v] \in {"undo", "clean"}
    /\ plan[v] # <<>> /\ Head(plan[v]) = call
    /\ plan' = Set(plan, v, Tail(plan[v]))
    /\ UNCHANGED <<pc, fwd, uid, ip>>

\* In a rollback the port mappings go first.
Turn(v, call) ==
    /\ pc[v] = "clean" \/ (pc[v] = "undo" /\ fwd[v] = {})
    /\ plan[v] # <<>> /\ Head(plan[v]) = call
    /\ plan' = Set(plan, v, Tail(plan[v]))
    /\ UNCHANGED <<pc, fwd, uid, ip>>

\* Of two calls for port mappings, c is made before d: Close goes through the mappings
\* as they were asked for, the rollback the other way round, and both remove the rule of
\* a mapping before they release its port.
Before(v, c, d) ==
    IF c[2] = d[2] THEN c[1] = "dnat"
    ELSE IF pc[v] = "clean" THEN c[2] < d[2] ELSE c[2] > d[2]

\* It is the turn of call c of fwd[v]; in Close, after everything else.
MappingTurn(v, c) ==
    /\ pc[v] = "undo" \/ (pc[v] = "clean" /\ plan[v] = <<>>)
    /\ c \in fwd[v] /\ \A d \in fwd[v] \ {c} : Before(v, c, d)
    /\ fwd' = Set(fwd, v, fwd[v] \ {c})
    /\ UNCHANGED <<pc, plan, uid, ip>>

Kill(v) ==
    /\ Turn(v, "kill")
    /\ proc' = IF proc[v] = "up" THEN Set(proc, v, "killed") ELSE proc
    /\ UNCHANGED idVars /\ KeepAlloc

\* <-done, or the timer of five (Close) or three (rollback) seconds; under ExitsInTime
\* the timer does not fire for a process that was killed
Await(v) ==
    /\ Turn(v, "wait")
    /\ proc[v] = "killed" => ~ExitsInTime
    /\ UNCHANGED <<proc, idVars>> /\ KeepAlloc

RemoveChroot(v) ==
    /\ Turn(v, "chroot")
    /\ chroot' = Set(chroot, id(v), "absent")
    /\ UNCHANGED <<proc, snapshot, tap>> /\ KeepAlloc

DeleteTap(v) ==
    /\ Turn(v, "tap")
    /\ tap' = Set(tap, tapName(v), NoOne)
    /\ UNCHANGED <<proc, snapshot, chroot>> /\ KeepAlloc

ReleaseIP(v) ==
    /\ Turn(v, "ip")
    /\ IPs!Release(ip[v])
    /\ UNCHANGED <<proc, uids, netVars, idVars>>

\* Storage.Teardown(context.Background(), id)
Teardown(v) ==
    /\ Turn(v, "snapshot")
    /\ snapshot' = Set(snapshot, id(v), "absent")
    /\ UNCHANGED <<proc, chroot, tap>> /\ KeepAlloc

\* Storage.Teardown(ctx, id) of the rollback: with ctx cancelled containerd
\* removes nothing and the error is dropped
TeardownInRequest(v) ==
    /\ Turn(v, "snapshot_ctx")
    /\ \/ snapshot' = Set(snapshot, id(v), "absent")
       \/ UNCHANGED snapshot
    /\ UNCHANGED <<proc, chroot, tap>> /\ KeepAlloc

ReturnUID(v) ==
    /\ Turn(v, "uid")
    /\ UID!Return(uid[v])
    /\ UNCHANGED <<proc, used, nextIP, netVars, idVars>>

\* errors of iptables -D are dropped
RemoveMapping(v) ==
    /\ \E k \in Mappings, p \in Ports :
        /\ MappingTurn(v, <<"dnat", k, p>>)
        /\ \E gone \in IF DeleteWorks THEN {{Rule(v, k, p)}} ELSE {{}, {Rule(v, k, p)}} : rules' = rules \ gone
    /\ UNCHANGED <<proc, uids, used, nextIP, inUse, idVars>>

ReleasePort(v) ==
    /\ \E k \in Mappings, p \in Ports : MappingTurn(v, <<"port", k, p>>) /\ PM!Release(p)
    /\ UNCHANGED <<proc, uids, used, nextIP, rules, idVars>>

\* Spawn returns its error, or Close returns
Finish(v) ==
    /\ pc[v] \in {"undo", "clean"} /\ plan[v] = <<>> /\ fwd[v] = {}
    /\ Goto(v, "off")
    /\ uid' = IF proc[v] = "none" THEN Set(uid, v, 0) ELSE uid
    /\ ip' = Set(ip, v, 0)
    /\ UNCHANGED <<plan, fwd, proc, idVars>> /\ KeepAlloc

\* The process of v ends: it was killed, or the guest stopped by itself.
Exit(v) ==
    /\ v \in HasProcess
    /\ proc' = Set(proc, v, "none")
    /\ UNCHANGED <<pc, plan, fwd, uid, ip, idVars>> /\ KeepAlloc

-----------------------------------------------------------------------------
SpawnStep(v) ==
    \/ CheckoutUID(v) \/ WarmImage(v) \/ Snapshot(v) \/ InjectGuestAgent(v)
    \/ MakeChroot(v) \/ LinkKernel(v) \/ AcquireIP(v) \/ CreateTap(v) \/ Start(v)
    \/ Dial(v) \/ AllocatePort(v) \/ AddMapping(v)
    \/ SnapshotFails(v) \/ LinkFails(v) \/ CreateTapFails(v) \/ AddMappingFails(v) \/ Fail(v)

CleanStep(v) ==
    \/ Kill(v) \/ Await(v) \/ RemoveChroot(v) \/ DeleteTap(v) \/ ReleaseIP(v)
    \/ Teardown(v) \/ TeardownInRequest(v) \/ ReturnUID(v)
    \/ RemoveMapping(v) \/ ReleasePort(v) \/ Finish(v)

Next == \E v \in Slots :
    Begin(v) \/ SpawnStep(v) \/ Close(v) \/ CleanStep(v) \/ Exit(v)

Spec == Init /\ [][Next]_vars

-----------------------------------------------------------------------------
(* Properties *)

Labels == SpawnLabels \cup {"off", "run", "undo", "clean"}
Calls == {"kill", "wait", "chroot", "tap", "ip", "snapshot", "snapshot_ctx", "uid"}
MappingCalls == {"dnat", "port"} \X Mappings \X Ports
Owes(v, call) == \E i \in DOMAIN plan[v] : plan[v][i] = call

\* The types of the variables.
TypeOK ==
    /\ pc \in [Slots -> Labels]
    /\ plan \in [Slots -> Seq(Calls)] /\ fwd \in [Slots -> SUBSET MappingCalls]
    /\ uid \in [Slots -> UID!UIDs \cup {0}]
    /\ ip \in [Slots -> IPs!Guests \cup {0}]
    /\ proc \in [Slots -> {"none", "up", "killed"}]
    /\ uids \in Seq(UID!UIDs) /\ Len(uids) <= UIDSize
    /\ used \in SUBSET IPs!Guests /\ nextIP \in IPs!Guests
    /\ inUse \in [Ports -> IDs \cup {NoOne}]
    /\ rules \in SUBSET (Ports \X Slots \X Mappings \X IPs!Guests)
    /\ snapshot \in [IDs -> {"absent", "clean", "written"}]
    /\ chroot \in [IDs -> {"absent", "made", "linked"}]
    /\ tap \in [TapNames -> Slots \cup {NoOne}]

\* firecracker_factory.go on Close: "The leased UID is returned to the pool after
\* process exit so it cannot be reused while the old process is still alive."
UIDExclusive ==
    \A v \in HasProcess :
        /\ \A i \in DOMAIN uids : uids[i] # uid[v]
        /\ \A u \in HasProcess \ {v} : uid[u] # uid[v]

\* Every UID is in the channel once or leased to one slot that will return it,
\* through rollbacks at any depth and through Close.
UIDConserved ==
    /\ UID!NoDuplicates
    /\ \A u \in UID!UIDs :
        \/ (\E i \in DOMAIN uids : uids[i] = u) /\ \A v \in Slots : Owes(v, "uid") => uid[v] # u
        \/ /\ \A i \in DOMAIN uids : uids[i] # u
           /\ \E v \in Slots : Owes(v, "uid") /\ uid[v] = u
           /\ \A v, w \in Slots : (Owes(v, "uid") /\ Owes(w, "uid") /\ uid[v] = u /\ uid[w] = u) => v = w

\* Two VMs never have the same guest address, and an address in use by one is
\* marked used, so a wrapped-around scan skips it.
AddressExclusive ==
    \A v \in Slots : Owes(v, "ip") =>
        /\ ip[v] \in used
        /\ \A w \in Slots \ {v} : Owes(w, "ip") => ip[v] # ip[w]

\* Every DNAT rule is one that its VM still has to remove, so none outlives it; every
\* mapping of a VM in service has its rule; and a rule leads to the VM that installed it
\* and to no other, though Close releases the address before the rules to it go: only
\* the traffic of a VM that is closing may reach another one.
RulesLeadHome ==
    /\ \A r \in rules :
        /\ <<"dnat", r[3], r[1]>> \in fwd[r[2]]
        /\ \A v \in Slots \ {r[2]} : Owes(v, "ip") /\ ip[v] = r[4] => pc[r[2]] = "clean"
    /\ \A v \in Running : \A c \in fwd[v] : Rule(v, c[2], c[3]) \in rules

\* A VM in service has a complete chroot, and nobody else is about to remove it, also
\* when its session came back while the Close of the old worker had not removed the old
\* one: the hard link of the kernel, which cannot be made twice, decides between them.
\* A session without a worker has no chroot, so its next Spawn can make the link.
OwnChroot ==
    /\ \A v \in Running :
        chroot[id(v)] = "linked" /\ \A u \in Slots \ {v} : Owes(u, "chroot") => id(u) # id(v)
    /\ \A i \in IDs : (\A v \in Slots : id(v) = i => pc[v] = "off") => chroot[i] = "absent"

\* When nothing runs, nothing is left: every UID, address and port is free again
\* and no rule, tap device or process remains.  (Snapshots may: see OwnDisk.)
NothingLeaks ==
    (\A v \in Slots : pc[v] = "off") =>
        /\ Len(uids) = UIDSize /\ used = {} /\ rules = {}
        /\ \A p \in Ports : inUse[p] = NoOne
        /\ \A n \in TapNames : tap[n] = NoOne
        /\ HasProcess = {}

\* containerd.go: "Snapshot creates a copy-on-write devmapper thin-volume for a
\* single VM": no VM boots from a volume that another one has written to.
OwnDisk == \A v \in Slots : At(v, "start") => snapshot[id(v)] = "clean"
=============================================================================
