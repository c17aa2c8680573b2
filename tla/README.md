# herd: a verification project in TLA+

This directory models the parts of herd that decide which microVM a session
gets, what a microVM owns on the host, and when both go away; what happens
inside a microVM from boot to power-off; how the daemon starts, serves and stops;
and how a host is set up, enrolled with the cloud and torn down. The modules are
checked with TLC on small instances; every safety invariant that a run checks, and
the refinement of the pool's promise, is also proved with TLAPS for every value of
the constants. Liveness is model-checked.

## 1. Inventory

| Part (source) | State | Operations | Talks to |
|---|---|---|---|
| session pool (`pool.go`, `registry.go`) | registry session→worker, inflight channels, list of workers, ticket channel | `Acquire`, `KillWorker`, `Session.Release`, `onCrash`, `Shutdown`; reads `GetSession`, `ListSessions`, `Stats` | called by controller, proxy, reaper; calls the factory and `Worker.Close` |
| worker factory (`firecracker_factory.go`) | undo stack of each `Spawn`; per worker: UID, address, tap, ports, process | `Spawn`, `Close` | UID pool, IPAM, port manager, storage, network, vsock |
| UID pool (`internal/uid`) | channel of free UIDs | `Checkout`, `Return` | factory |
| IPAM (`internal/network/ipam.go`) | used addresses, next address | `Acquire`, `Release` | factory |
| port manager (`internal/network/portmgr.go`) | port→VM | `Allocate`, `Release` | factory |
| per-VM network (`internal/network/nat.go`) | tap devices, iptables rules | `CreatePointToPointTap`, `DeleteTap`, `AddPortMapping`, `RemovePortMapping` | factory |
| storage manager (`internal/storage/containerd.go`) | warmed images; in containerd: a volume and a lease per session id | `WarmImage`, `Snapshot`, `InjectGuestAgent`, `Teardown` | factory |
| session lifecycle (`internal/lifecycle`) | lease per session: connection count, time stamps, TTLs | `Register`, `Remove`, `UnregisterAndKill`, `BeginRequest`, `EndRequest`, `sweep` | controller, proxy; kills through the pool |
| controller (`internal/daemon/controller.go`) | none | `CreateSession`, `DeleteSession` | pool, lifecycle |
| proxy (`proxy/proxy.go`) | none | `ServeHTTP` | pool, lifecycle |
| host bootstrap (`internal/storage/bootstrap.go`, `network.Bootstrap`) | directories, sparse files, loop devices, thin pool, containerd, iptables rules | `Bootstrap` and its rollback, `Teardown` | run by `herd init` / `herd teardown`, any number of times |
| guest agent (`cmd/herd-guest-agent`), vsock dialer (`internal/vsock`) | boot phase, one control connection, one workload, shells, zombies | handshake, execute, exec server, reap, power off | factory and exec API, over vsock |
| daemon (`cmd/herd/start.go`, `internal/daemon/api.go`) | its context, two servers, the reaper's goroutine | start, serve, drain, deferred calls; create and delete requests | everything above |
| cloud client (`internal/cloud`) | node identity on disk, one stream | `Start`, command loop (`boot_vm`, `swap_credentials`), telemetry | controller, by the daemon |
| installation (`cmd/herd/init.go`, `internal/config`) | binaries, kernel and `herd.yaml` on disk | `herd init` before its bootstrap, `Load`, the end of `teardown` | read by every command |
| telemetry, observer, HTTP clients of the CLI | none that the rest depends on | counters, reads of `/proc`, requests | |

What is hard here:

* **Interleaving.** Every pool operation is a handful of short critical
  sections with channel operations and a slow call (`Spawn`, `Close`) between
  them. A session id comes back while the previous worker of the session is
  still closing.
* **Two registries.** The pool's and the lifecycle manager's are updated one
  after the other, in different orders by different callers, under no common lock.
* **Partial failure.** `Spawn` takes up to eight resources and may fail at any call.
* **Timeouts.** `Close` and the rollback wait a bounded time for a process.
* **Two ends of one connection.** Host and guest each wait for the other to close
  it; a dial that the host gave up may be the one the guest accepts.
* **Crashes and repeats.** `herd init` and `herd teardown` may be killed between
  any two system calls, and what they made outlives them, some of it a reboot.
* **An end that waits for few.** The daemon's drain has ten seconds; handlers,
  commands and `persistIdentity` may be anywhere when the process goes.
* **Files written in place.** Downloads, `herd.yaml`, `node.key` and `node.id` are
  truncated and then filled, and a later run takes what it finds.
* **Names.** Volume, chroot and tap device are named after a client's session id.

What makes each part correct: the pool keeps its ceiling, runs one creation per
session, gives each worker one owner and loses no ticket; the factory returns
everything it took, in an order that lets nobody take it too early; the
lifecycle manager leaves no worker without a lease, and no expired or abandoned
lease; a guest starts nothing before it is mounted, leaves no zombie and ends in
a VM that is off; the daemon stops when it should and takes its VMs along; a
node keeps the identity it was given; init leaves a configuration that loads and
names what is there, builds a pool on the files it names, its rollback restores
what it found, and teardown leaves nothing.

## 2. Modules and how they correspond to the code

### `Pool` — `pool.go` as the daemon uses it

An action is a section that no other goroutine sees half done: one critical
section of `p.mu`, one channel operation, one call of a worker or the factory.
`pc[p]` says where goroutine `p` is, `sess`, `chan` and `held` are its locals
`sessionID`, `ch` and `w`.

| Actions | Code |
|---|---|
| `Acquire`, `LookupFound`, `LookupPending`, `LookupLead` | the loop's critical section |
| `WaitDone`, `WaitCancelled` | the `select` on another Acquire's channel |
| `TakeTicket`, `TicketCancelled` | the `select` on `p.tickets` |
| `SpawnOK`, `SpawnFail`, `RefundTicket`, `DropInflight` | `Spawn` and the error path |
| `Wire`, `Put`, `CloseChan` | `wireWorker`, pinning, `close(ch)` |
| `KillWorker`, `CloseWorker`, `RemoveWorker`, `GiveBack` | `KillWorker` in its four parts |
| `Shutdown`, `ShutdownClose` | the copy of `p.workers`, then one `Close` at a time |

A channel is named by the goroutine that made it as long as it is open, and is
`ClosedChan` afterwards. A worker object is a session and a serial number; an
object to which nothing refers is reused, which keeps the state space finite
without hiding an identity that matters. `ID` is what `Worker.ID` returns: the
session id for Firecracker workers, as in `Spawn`.

`PoolLibrary` adds what package herd exports but the daemon never exercises:
`Session.Release`, the crash callback, and `Close` and `Put` that return errors.
With the callback one reads off that `worker.go:46` ("a stale or crashed worker is
never returned to a caller") does not hold: when it runs between `wireWorker` and
`Put`, the dead worker is pinned. No worker of the daemon calls back.

### `SessionPool` — what the pool promises

The pool as its callers see it: a map from sessions to workers, the set of running
workers, and whether Shutdown has begun. A session is pinned to one worker that
runs, keeps it until it is unpinned, shares it with no other session; a worker is
closed when nobody is pinned to it; at most `Max` run. `Pool!Promise` is the
instance (`pin` is `registry`, `running` is `alive`) and `Implements` says that
`Pool` refines it: the ticket channel, the inflight channels and the order of the
critical sections have disappeared.

### `Daemon` — `runDaemon` around the pool

`Daemon` EXTENDS `Pool` and says who its goroutines are: handlers of the
control-plane server, one goroutine per `boot_vm` command, and the reaper. `main`
walks through `runDaemon`: listen, connect to the cloud, serve, drain the data
plane, drain the control plane or run out of time, close the cloud client, and
`pool.Shutdown`, in the order of the deferred calls. A signal cancels the context
that the reaper and the commands have; a listener that fails starts the same
shutdown and cancels nothing. A request is cancelled when its client goes or its
connection is closed; a command has the daemon's context and no deadline. The
process may be killed at any point (`Crash`), and then starts with an empty pool;
the VMs it leaves run on, since `Spawn` sets no parent-death signal, and belong to
nobody. Leases are left to `Lifecycle`: the reaper of `Daemon` may kill any session
at any time. `late` is a history variable: who could still spawn when `Shutdown`
took its list. `BootEnds` is about the goroutine of a command that has a ticket: it
ends, or the process does. Whether its answer arrives is another matter, since `Send`
fails on a stream that is gone; and nothing is said of a command that waits for a
ticket, which it may do until the daemon is told to stop.

### `Factory` — `Spawn` and `Close`, over `UIDPool`, `IPAM`, `PortManager`

A slot is one `Spawn` and the `Close` of the worker it made. `plan[v]` is the undo
stack while it spawns (newest first) and the list of calls still to make while it
rolls back or closes: the same clean-up calls in two orders. Every call that is
visible outside the goroutine is an action, its failure another (`SnapshotFails`,
`LinkFails`, `CreateTapFails` where a failed call may leave something behind, `Fail`
elsewhere). `WarmImage` has no state to change, since the image cache only grows, but
is a place where `Spawn` may fail; `InjectGuestAgent` and the kernel link need the
volume that `Snapshot` made. The process may exit at any time (`Exit`). A VM has any
number of port mappings up to `MaxMappings`, which may ask for the same host port
(80/tcp and 80/udp); their clean-up calls are kept in `fwd[v]`, since they are made
one mapping at a time, in the order of the list by `Close` and in the reverse order by
the rollback, and a rule is removed before its own mapping's port is released. The
three allocators are modules of their own, instantiated by `Factory`.

`Begin` carries what the pool guarantees: a session is spawned only when no
other slot of the session is spawning or running, and at most `MaxVMs` slots are in use.
That is `SingleFlight`, `OneOwner` and `LiveAtMostMax` of `Pool`; a slot that is still
closing does not prevent it.
A worker is closed once; the second `Close` that `Pool.Shutdown` may make of a worker
that a `KillWorker` is closing, as the daemon ends, is left out.

### `Lifecycle` — leases, proxy requests and the reaper

Of the pool only the set of pinned sessions is kept. A lease is an object on a
heap, because `BeginRequest`, `EndRequest` and `sweep` look one up under a lock
and use the pointer after it, when the session may have another. Time is two
flags of a lease, the outcomes of the two comparisons that `sweep` makes.
A request may run into its deadline, which the daemon's own servers never set but
a handler around the proxy may: `EndRequest` then kills first and removes the lease
second. A create between the two loses its new lease; `cut` remembers that, and
`NoOrphanWorker` excludes that one order by name.

### `Guest` — one VM: agent, vsock, dial loop

| State | Code |
|---|---|
| `main`, `setup`, `server`, `shell` | the agent's goroutines: `main`, phase 3, `startExecServer`, one per shell |
| `reaper`, `signal`, `channel`, `proc` | `reapZombies`, the pending SIGCHLD, its one-place channel, the children of PID 1 |
| `host`, `try`, `held`, `paid` | `Spawn`'s dial loop and `vsock.Execute`; the connections the host has open, and those it wrote a payload on |
| `link`, `backlog`, `served` | Firecracker's vsock device (external), the guest's listen queue, the one connection `main` accepts |

`cmd.Wait` has two halves, because standard input, output and error are a
`net.Conn`: the process is reaped (`WaitWorkload`, also when `reapZombies` was
first), and the copiers end (`CopiersEnd`), the one of standard input only when the
host closes the connection. Orphans are descendants of the workload that the
kernel gives to PID 1; they keep the workload's output pipe open. The
subscription to SIGCHLD is taken as made before the first child, since the
container is mounted in between. Which mounts, addresses and routes are made is
left out; that a step of them fails is not.

### `HostSetup` — `herd init` and `herd teardown`

`todo` is the list of system calls that the running command still makes, `undo`
the `cleanupStack` of `storage.Bootstrap`; one action per kind of call. A loop
device whose file was deleted, and a pool over it, is `"dead"`: it works, but
`losetup -j` on the path does not list it any more. `Finish` is the return of a
command or its being killed, at any call; `RebootHost` takes away what is not on
disk. A failing clean-up call (`CleanupFails`) is logged or collected and the next
one is made, as in the code; `warned` remembers that it happened and excludes such
histories from the two properties that cannot hold after one. A rollback detaches the
loop device it made, by its name; teardown what `losetup -j` lists for the path. What
init found (`before`) includes `config.toml`: a rollback removes it once this run has
written its own over it, so that of an earlier init is lost, and `RollbackRestores` says
exactly that. An `iptables -D` removes a copy or leaves it (a busy xtables lock, another
default interface than at init) and its error is ignored either way; `missed` counts, as
a history variable, what was left. The rule `"drop"`
stands for those of three networks that one loop adds and one removes, and the
wait for containerd's socket, whose outcome changes nothing, is left out.

### `Install` and `Node` — files, configuration, identity

`Install` is `herd init` up to its bootstrap and what `herd teardown` does to the
same files. A file is absent, partial or whole: `os.Create` and `os.WriteFile`
truncate first, and an init may end anywhere. `Needed` is the difference between
`--yes`, which takes what is there, and the prompts, which download again; both
take a guest agent that is there. Of `herd.yaml` the model keeps what init does not
fix: the limits (from flags or answers, checked by `Validate` when it is loaded),
which managed files it names, and whether the cloud is enabled, with or without a token.
A file that was cut short is refused, or loads with as much of its cloud section as was
written, since telemetry has defaults: without the cloud, or with it and no token.

`Node` EXTENDS `Install` with the daemons that come and go on the host and the
identity that `swap_credentials` gives it. A key or an id on disk is the number of the
swap it came with. `Start` presents both, or the machine token if one is missing, or
ends with an error if there is no token either; `persistIdentity` is its four calls,
each of which may be the last one before the process ends, or fail. The control plane
is external: it accepts or refuses, and swaps when it likes. All commands are run for
one home directory: the paths of `herd.yaml` and `node.key` are computed from
`SUDO_USER` at each load, so that a daemon started by another user finds another
configuration and no key.

## 3. Runs

| Run | Bounds | What it shows |
|---|---|---|
| `pool_safety` | 2 sessions, 3 goroutines, 2 tickets | tickets conserved, ceiling, singleflight, one owner, the worker list; `Pool` implements `SessionPool` |
| `pool_live` | 2 sessions, 3 goroutines, 1 ticket | no ticket holder blocks forever, no waiter is forgotten |
| `daemon` | 1 session, 1 handler, 1 command, the reaper, 2 tickets | the daemon stops, an orderly stop leaves no VM, the goroutine of a command with a ticket ends |
| `pool_release` (violation) | 2 sessions, 3 goroutines, 1 ticket | `Release` after `KillWorker` returns a second ticket: max + 1 workers |
| `factory` | 2 VMs at a time, of two sessions or of one that comes back, 2 UIDs, 2 addresses, 1 port, 2 mappings a VM | exclusive UIDs and addresses; every rule leads to its VM and goes with it; a VM in service keeps its chroot; nothing leaks |
| `factory_uid` (violation) | 2 VMs, processes may outlive the wait | the UID of a live process is back in the pool |
| `factory_disk` (violation) | two slots of one session | a VM boots from the volume its predecessor wrote |
| `lifecycle` | 1 session, 2 goroutines and the reaper, 4 lease objects | no orphan worker, counts never stick, TTLs are enforced |
| `guest` | 2 dials, 1 shell, 2 orphans | nothing starts before the container is ready, no zombie stays, a successful dial leads to a workload or a VM that is off, an abandoned VM shuts down |
| `guest_poweroff` (violation) | 1 dial, no shell, no orphan | a workload that ended does not end the VM: the agent waits for the host to close, the host for the agent |
| `host_setup` | at most 2 inits more than teardowns, 1 failed deletion of a rule per boot | the pool lies on its files, rollback restores, teardown is complete, a rule has no more copies than inits and failed deletions account for |
| `node` | limits below, at and above the least, 2 swaps, any number of inits | `herd.yaml` names what is there and loads after `--yes`; a persisted identity stays |

What `CleanExit`, `InstallComplete`, `ConfigLoads` and `IdentityKept` leave out is
as telling as what they say. A VM outlives an orderly exit if a request or command
could still spawn when `Shutdown` took its list, or if another goroutine is in the
middle of its `Close`; nobody waits for either. A truncated binary is taken for a
complete one by every later `init --yes`. Numbers typed at a prompt may give a
configuration that start and teardown refuse. A swap that is cut short leaves no
key, or a new key with an old id.

The violations are statements of the repository that the code does not keep;
`PROJECT.json` quotes each line under `findings`.

Why the bounds are enough. *Pool*: with three goroutines one can create, one kill and
one wait on the same session, and with two tickets a session can come back while its
old worker closes; the second session competes for tickets. Five serial numbers are as
many objects as can be referred to at once, so `Fresh` is never empty when a spawn
needs it. *Factory*: every conflict is between two VMs, of two sessions or of one, so
there are three slots of which two are in use at once (`MaxVMs`); two UIDs
and addresses make exhaustion, wrap-around and reuse happen, and with one port that is
asked for or given out, and two mappings a VM, VMs compete for it, and a second mapping
can repeat the port of the first or fail after it. *Lifecycle*: sessions
do not interact except in the sweep's order, so one session suffices; four leases are
the most that two goroutines, the registry and the sweep can refer to. *Guest*: with
two dials the host can give up one that the guest then accepts; with two orphans and
the workload two deaths can share one SIGCHLD and a third can find the channel full.
*HostSetup*: two inits without a teardown make every call meet what an earlier run
left; the files and loop devices do not count beyond that, and the rules grow by one
per init; one failed deletion (`MaxMissed`) is enough for a copy that no teardown is
owed for, and counts against the bound on the inits. *Daemon*: two tickets let a
session come back while its old worker closes, which is when `removeWorker` may drop
the wrong entry and `Shutdown` miss a VM; with the reaper and the handler closing, the
command finds no ticket. Sessions that compete for a ticket are in `pool_live`.
*Node*: two swaps let a cut one meet what a complete one wrote; inits and teardowns
are not bounded.

Fairness. `Pool`: weak fairness for every step a goroutine owes once it is in a call;
`Spawn` ends because its waits on the guest have deadlines and containerd calls are
assumed to end, `Close` because its wait is bounded. Clients owe nothing: nobody has
to call `KillWorker`, so an Acquire may wait for a ticket forever and no property says
otherwise. `Lifecycle`: goroutines and the ticker run, and the idle clock advances; a
client may keep its connection open for ever.
`Guest`: goroutines run, signals and vsock requests are delivered, and the host's dial
loop goes on; processes may run for ever, and nobody has to open a shell, cancel a
stream or kill the VM. `Daemon`: the main goroutine and every goroutine inside a call
run, and the timer of the drain fires; nobody has to send a signal, a request or a
command, no client has to leave, the stream need not end, and the reaper need not
sweep. `Factory`, `HostSetup` and `Node` claim no liveness and have no fairness.
`pool_release` switches deadlock checking off because there a call can really be stuck (a send on a
full channel), the two guest runs because a VM that is off does nothing more; every
other run checks it.

Assumptions of the `factory` run, each a constant: a killed process exits within the
wait (`ExitsInTime`; `factory_uid` drops it), netlink finds a device it has just added
(`LinkFound`; otherwise `CreatePointToPointTap` leaves the device), and `iptables -D`
removes a rule that is there (`DeleteWorks`; its errors are dropped). The theorems say
which of them each property needs.

What no property says, because the code does not keep it; the models have the steps:

* A tap is named after the last eight characters of the id, and two ids with one suffix
  share it: the second `Spawn` deletes the device of the first VM, although
  `docs/architecture.md:24` says that "Each microVM gets its own unique TAP device". The
  `Close` of a session's old worker may delete the device of the new one likewise.
* A port is booked for a session id, `Allocate` grants it to that session again, and
  `Release` asks for no owner: the first of two mappings of one host port, or of two
  workers of one session, that is released takes the port off the books, while the
  other's rule is still there, and another VM may be given the port. What holds all the
  same is `RulesLeadHome`: a rule is removed by the VM that installed it, and leads
  elsewhere only while that VM is closing, when its address may be given out before its
  rules are gone.
* An `iptables -D` that fails leaves its rule while `network.Teardown` returns nil,
  although `nat.go:66` says that it "safely reverses the NAT setup"; `NatBalanced`
  bounds what is left.

A session that comes back shares the volume of its old worker (`factory_disk`), but not
the chroot: the kernel's hard link cannot be made twice, which is what `OwnChroot` rests
on.

Every property of a passing run has a mutant in `PROJECT.json`: an operator
that changes one mapped definition as a plausible bug would (named next to the
original, e.g. `TakeTicketUnchecked`), for which TLC finds the property violated.

## 4. Proofs

Eight modules hold the theorems, one per component, each with its argument at the
top. Every theorem is for every value of the constants; nothing is assumed but the
named `ASSUME`s of the modules (positive limits, finite sets of goroutines, null
values distinct from real ones, a subnet of four addresses at least, where
`start.go` has a /16) and what a theorem states as its hypothesis.

| Module | Theorems | Of |
|---|---|---|
| `PoolProofs` | `TypeCorrect`, `SingleFlightHolds`, `TicketsConserved`, `CeilingHolds`, `OneOwnerHolds`, `PoolImplements` | `Pool` |
| `PoolListProofs` | `PinnedIsListedHolds` | `Pool` |
| `DaemonProofs` | `DaemonTypeCorrect`, `DaemonPool`, `CleanExitHolds` | `Daemon` |
| `FactoryProofs` | `FactoryTypeCorrect`, `UIDConservedHolds`, `UIDExclusiveHolds`, `AddressExclusiveHolds`, `NothingLeaksHolds`, `RulesLeadHomeHolds`, `OwnChrootHolds` | `Factory` |
| `LifecycleProofs` | `LifecycleTypeCorrect`, `NeverOvercountedHolds`, `NoOrphanHolds` | `Lifecycle` |
| `GuestProofs` | `GuestTypeCorrect`, `ReadyFirstHolds` | `Guest` |
| `HostSetupProofs` | `HostTypeCorrect`, `PoolOnFilesHolds`, `RollbackRestoresHolds`, `TeardownCompleteHolds`, `NatBalancedHolds` | `HostSetup` |
| `NodeProofs` | `NodeTypeCorrect`, `InstallCompleteHolds`, `ConfigLoadsHolds`, `IdentityKeptHolds` | `Install`, `Node` |

A theorem that ends in `Holds` states the invariant of that name (`CeilingHolds` is
`LiveAtMostMax`, `TicketsConserved` is `TicketConservation`, `NoOrphanHolds` is
`NoOrphanWorker`), `...TypeCorrect` the type invariant, `PoolImplements` is `Spec =>
Implements`, and `DaemonPool` says that five invariants of the pool hold in
`DaemonSpec`. Hardly any is inductive alone. The invariants that are, and why they are
needed:

**Pool.** `OwnershipInv`: a goroutine in a call has a session, and one that carries a
worker has a worker (`InCall`); the inflight entry of a session names the one Acquire
that creates it, and a session with an entry is not pinned (`Flights`); every running
worker is pinned or carried (`AliveOwned`). `Flights` makes `Put` overwrite nothing;
with one cardinality step per action that moves a ticket this gives
`TicketConservation`. `AliveOwned` bounds the running workers by the pinned sessions
and the carriers, and conservation bounds those by `Max`. `OneOwner` needs that carried
workers run (`CarriedAlive`). `PoolImplements` maps each action to a step of
`SessionPool` or to a stutter (`StepRefines`); a spawn starts a worker below the
ceiling because the goroutine's ticket is not yet a worker (`SpawnRefines`), and `Put`
pins a worker that runs and that nobody else has.

**The worker list.** `removeWorker` drops the first entry with the ID of its worker,
which is the session id and so may be another worker's entry. Two facts make up for it:
an ID has as many entries as it has pins and goroutines between the append and the
removal (`Entries`), and the entry of a worker that is pinned or about to be is the
last of its ID (`Newest`). A removal that meets a newer worker therefore finds two
entries and takes the other.

**Daemon.** What the daemon does to the pool is a step of the pool or the end of the
process, so the pool's invariants carry over. `Shutdown` begins after the last drain and
after the cloud client is closed (`StopOrder`); unless someone could still spawn then,
nobody can afterwards (`Quiescent`), and every VM that runs is on the rest of the list
or with a goroutine that closes it (`Covered`, from the worker list).

**Factory.** The plan of a slot is sorted, the undo stack by the order of `Spawn`
reversed, the calls of `Close` by their own (`PlanInv`), so no call is in it twice and
the label bounds what is owed from both sides. One invariant per resource ties the
allocator to the slots that owe its return (`UIDInv`, `AddressInv`, `PortInv`), and
`HostInv` says that a process or a tap on the host is owed by somebody. The calls for
port mappings are not in the plan: a VM in service has the rules of all its mappings,
a `Spawn` in mid-loop all but one, and a rollback is through with them before it
releases the address they lead to (`FwdInv`); a rule is in the calls of the slot it
was made for (`PortInv`). A chroot that exists has exactly one slot that will remove
it, and it is complete if that slot is past the link or closes (`ChrootInv`). Three
theorems carry hypotheses, conditions under which the code was written and none of
which it enforces:

* `UIDExclusiveHolds`: `ExitsInTime`; `factory_uid` shows that it fails without.
* `NothingLeaksHolds`: `ExitsInTime`, `LinkFound` and `DeleteWorks`.
* `RulesLeadHomeHolds`: `DeleteWorks`.

The others have none. No theorem restricts which sessions or names the slots have: all
hold when a session comes back during a `Close`, and with any number of mappings.

**Lifecycle.** A lease object belongs to one session, and the object that a goroutine
has looked up is its session's or nobody's (`Held`). So a decrement that comes late hits
an object no lookup returns, and the count is bounded by the requests that can still
decrement it (`Counted`).

**Guest.** `ReadyFirst` with the types and the fact that the setup goroutine is started
once, before `main` listens (`NotStarted`).

**HostSetup.** The calls ahead are sorted by the order of the command, and
`cleanupStack` mirrors the calls that are done (`ListInv`). So a call that is not
ahead any more was made: that gives what `Bootstrap` has built (`InitDone`), what
`Teardown` has removed (`TeardownDone`) and how many copies a rule can have, given how
often its deletion has failed (`NatInv`). `Pending` says of each entry of
`cleanupStack` that its object was not there before, and of each object without an
entry that it is as init found it; the rollback keeps that, because it removes the
pool before the devices, the devices before the files, and those before their
directories. `config.toml` has a part of its own (`ConfigInv`), because its entry is
pushed also when the file was found. Between commands no file outlives its directory
and no live device or pool its file (`Sound`), and nothing is dead unless a clean-up
call has failed (`Alive`).

**Node.** A file that `herd.yaml` names was brought or was there, and the four calls of
`persistIdentity` that are still ahead say which of key and id belong to the swap under
way.

Each inductive invariant was also checked with TLC, on an instance of the runs.

Only model-checked: all liveness properties (`TicketHolderReturns`, `WaitersWake`,
`DaemonStops`, `BootEnds`, `TTLEnforced`, `AbandonedIsReaped`,
`ZombiesReaped`, `DialledIsServed`, `AbandonedShutsDown`), since fairness is out of the
prover's reach, and the four runs that show a violation. `PoolLibrary` is not proved
about: its one property is such a violation.

## 5. Plan

Done so far: `SessionPool`, `Pool`, `PoolLibrary`, `Daemon`, `UIDPool`, `IPAM`,
`PortManager`, `Factory`, `Lifecycle`, `Guest`, `HostSetup`, `Install`, `Node`, and the
eight modules of proofs. Next, in this order:

1. Action properties with their theorems, where a state says too little: a worker that
   was closed does not run again, a UID leaves the pool only for a slot that has none.
2. That what `Factory!Begin` takes from the pool follows from `Pool`, by composing the
   two.
3. A `Factory` that starts on a host where a killed daemon left VMs, chroots and
   volumes.
4. The storage manager in detail: image cache and containerd leases.

## 6. Not modelled

HTTP encoding and routing of the API, the YAML and the messages of the command
line, its HTTP clients (`deploy`, `exec`, `logs`, `status`, `stop`), telemetry
counters, the event logger, the observer's reads of `/proc` and the generated
protocol code keep no state the rest depends on. Two commands of the command line
that run at the same time on one host are left out. Concurrent `Send`s of the cloud
client's goroutines on one stream, which grpc-go does not allow, have an outcome only
grpc could tell. `init` asks for the release archive of the architecture `amd64`,
because it maps the misspelt `amd4`; which files a release has is not in the
repository. The contents of a VM's configuration,
command line and environment are data no property tells apart. The second `Close` that
`Shutdown` may make of a worker, by which a UID goes back twice as the daemon ends, and
commands run for different home directories or with `--config`, are left out. A command
that waits for a ticket at capacity, the lease that `EndRequest` removes after a create,
and a pool left over deleted files are in the models, but no property catches them; the
hazards in `PROJECT.json` say why. External systems (containerd, netlink, iptables,
the jailer) appear by the effect the code relies on.
