-------------------------------- MODULE IPAM --------------------------------
(***************************************************************************)
(* internal/network/ipam.go: guest addresses of one subnet, as offsets     *)
(* from its network address.  0 is the network, 1 the host's gateway,      *)
(* SubnetSize - 1 the broadcast address.                                   *)
(***************************************************************************)
LOCAL INSTANCE Integers

CONSTANT SubnetSize

VARIABLES used,     \* usedIPs
          nextIP    \* where the next scan starts

Guests == 2..(SubnetSize - 2)

\* NewIPAM
Init == used = {} /\ nextIP = 2

SuccNoWrap(a) == a + 1

\* inc, and the wrap past the broadcast address
Succ(a) == IF a + 1 >= SubnetSize - 1 THEN 2 ELSE a + 1

\* how many steps of Succ lead from nextIP to a
Distance(a) == IF a >= nextIP THEN a - nextIP ELSE a - nextIP + (SubnetSize - 3)

CanAcquire == Guests \ used # {}

AcquireNext(a) ==
    /\ a = nextIP
    /\ used' = used \cup {a}
    /\ nextIP' = Succ(a)

\* Acquire: the free address the cyclic scan meets first.  When the scan comes
\* back to its start the pool is exhausted and nextIP is where it was.
Acquire(a) ==
    /\ a \in Guests \ used
    /\ \A b \in Guests \ used : Distance(a) <= Distance(b)
    /\ used' = used \cup {a}
    /\ nextIP' = Succ(a)

Release(a) == used' = used \ {a} /\ nextIP' = nextIP
=============================================================================
