------------------------------ MODULE LinePort ------------------------------
(***************************************************************************)
(* The line port of a cache towards the next memory level, seen from       *)
(* outside: which line requests follow each other, whatever the cache does *)
(* inside.  L1System implements it; the arbiter's and the adaptor's models *)
(* use it as their client.                                                 *)
(***************************************************************************)
EXTENDS MemoryTypes

VARIABLE want       \* pmem_read / pmem_write, pmem_address and pmem_wdata

NoWant == [op |-> "none", addr |-> <<>>]

ReadOf(a)        == [op |-> "read", addr |-> a]
WriteOf(a, line) == [op |-> "write", addr |-> a, line |-> line]

Reads  == [op : {"read"}, addr : Addr]
Writes == [op : {"write"}, addr : Addr, line : Line]
Want   == {NoWant} \cup Reads \cup Writes

PortInit == want = NoWant

\* One cycle, in which the next level answers or not.  A request stands until it
\* is answered.  A write-back is followed at once by the read of another line of
\* the same set, a read by at least one cycle without a request.
PortStep(resp) ==
    \/ want.op = "none" /\ want' \in Want
    \/ want.op # "none" /\ ~resp /\ want' = want
    \/ /\ want.op = "write" /\ resp
       /\ want' \in {r \in Reads : r.addr[2] = want.addr[2] /\ r.addr # want.addr}
    \/ want.op = "read" /\ resp /\ want' = NoWant

PortNext == \E resp \in BOOLEAN : PortStep(resp)

\* A weaker contract: a request stands until it is answered; after that anything.
HoldStep(resp) == IF want.op # "none" /\ ~resp THEN want' = want ELSE want' \in Want

PortSpec == PortInit /\ [][PortNext]_want
=============================================================================
