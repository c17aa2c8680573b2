------------------------------ MODULE UIDPool ------------------------------
(* internal/uid/pool.go: the buffered channel of jailer UIDs. *)
LOCAL INSTANCE Integers
LOCAL INSTANCE Sequences

CONSTANTS Start, Size   \* the range [start, start+size)

VARIABLE avail          \* the contents of the channel, oldest first

UIDs == Start..(Start + Size - 1)

\* NewPool fills the channel in ascending order.
Init == avail = [i \in 1..Size |-> Start + i - 1]

CanCheckout == avail # <<>>

\* Checkout: uid is the head of the channel; with none left it fails at once
Checkout(uid) ==
    /\ CanCheckout
    /\ uid = Head(avail)
    /\ avail' = Tail(avail)

\* Return: a UID out of range, or a full channel, is an error and changes nothing
Return(uid) ==
    avail' = IF uid \in UIDs /\ Len(avail) < Size THEN Append(avail, uid) ELSE avail

\* Every UID is queued at most once.
NoDuplicates == \A i, j \in DOMAIN avail : avail[i] = avail[j] => i = j
=============================================================================
