----------------------------- MODULE PortManager -----------------------------
(* internal/network/portmgr.go: which VM owns which host port. *)
LOCAL INSTANCE Integers

CONSTANTS Ports,      \* every host port a request may name
          Ephemeral,  \* the ports of the ephemeral range, a subset of Ports
          NoOwner

VARIABLE inUse        \* inUse: port -> vmID

Init == inUse = [p \in Ports |-> NoOwner]

\* requestedPort = 0: the lowest free port of the range.  The probe of the host
\* (isHostPortFree) may reject any port: busy is the set it rejects now.
AllocateEphemeral(vm, port, busy) ==
    LET free == {p \in Ephemeral \ busy : inUse[p] = NoOwner}
    IN  /\ port \in free /\ \A p \in free : port <= p
        /\ inUse' = [inUse EXCEPT ![port] = vm]

\* An explicit port: granted again to the VM that owns it, without a probe.
AllocateExplicit(vm, port, busy) ==
    \/ inUse[port] = vm /\ inUse' = inUse
    \/ /\ inUse[port] = NoOwner /\ port \notin busy
       /\ inUse' = [inUse EXCEPT ![port] = vm]

\* Release does not ask who owns the port.
Release(port) == inUse' = [inUse EXCEPT ![port] = NoOwner]
=============================================================================
