------------------------------ MODULE Subnets -------------------------------
(***************************************************************************)
(* Address arithmetic: networks, the search for a free address and the     *)
(* test that a requested one may be used.  An address is a number of Width *)
(* bits (32 or 128 in the code); a CIDR is an address and a prefix length. *)
(***************************************************************************)
EXTENDS Naturals

CONSTANTS
    Width,        \* bits of an address
    NoAddr        \* no address is free

ASSUME WidthAssumption == Width \in Nat /\ NoAddr \notin Nat

(* 2^n: the function is what the proofs can unfold, ^ is not.              *)
Pow2[n \in 0 .. Width] == IF n = 0 THEN 1 ELSE 2 * Pow2[n - 1]

Addr == 0 .. (Pow2[Width] - 1)

CIDR == [ip: Addr, len: 0 .. Width]

(* How many addresses a network has, by the length of its prefix.         *)
Sizes == [len \in 0 .. Width |-> Pow2[Width - len]]

Size(c) == Sizes[c.len]

Network(c) == c.ip - (c.ip % Size(c))

GetBroadcastIP(c) == Network(c) + Size(c) - 1

Contains(c, a) == Network(c) <= a /\ a <= GetBroadcastIP(c)

ContainsCIDR(c, d) == c.len <= d.len /\ Contains(c, Network(d))

(* The addresses no client may be offered.                                 *)
GetBroadcastAndNetworkAddrsLookup(ifaces) ==
    {Network(c) : c \in ifaces} \cup {GetBroadcastIP(c) : c \in ifaces}

\* Mutant: only the addresses in use are passed over.
AvailableSansLookup(c, allocated, ifaces) ==
    LET free == {a \in Network(c) .. GetBroadcastIP(c) : a \notin allocated}
    IN  IF free = {} THEN NoAddr ELSE CHOOSE a \in free : \A b \in free : a <= b

(* The search goes up from the network address and takes the first one.    *)
GetAvailableIP(c, allocated, ifaces) ==
    LET free == (Network(c) .. GetBroadcastIP(c))
                \ (allocated \cup GetBroadcastAndNetworkAddrsLookup(ifaces))
    IN  IF free = {} THEN NoAddr ELSE CHOOSE a \in free : \A b \in free : a <= b

(* What a client asks for must be unused, and inside a server network.     *)
ValidateIPAllocation(ifaces, allocated, wanted) ==
    \A a \in wanted : a \notin allocated /\ \E c \in ifaces : Contains(c, a)

(* The configured ranges that lie inside a network of the server.          *)
ValidateAndFixSubnetRanges(ranges, ifaces) ==
    {d \in ranges : \E c \in ifaces : ContainsCIDR(c, d)}
=============================================================================
