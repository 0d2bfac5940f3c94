---------------------------- MODULE BurstMemory ----------------------------
(***************************************************************************)
(* ParamMemory, the memory of the test bench.  It samples its inputs at a  *)
(* clock edge, waits for a number of cycles that depends on the page, and  *)
(* then answers four cycles in a row, one burst each.                      *)
(***************************************************************************)
EXTENDS Integers, MemoryTypes

VARIABLES
    mem,       \* the lines
    access,     \* the access in progress: its phase, kind, address and burst
    mem_rdata   \* rdata, which keeps the burst driven last

memoryVars == <<mem, access, mem_rdata>>

NoAccess == [ph |-> "idle"]

MemoryInit ==
    /\ mem \in [Addr -> Line]
    /\ access = NoAccess
    /\ mem_rdata \in Data

mem_resp == access.ph = "burst"

\* Wait for a request: memread or memwrite begins with the address sampled here.
Sample(read, write, addr) ==
    /\ access.ph = "idle"
    /\ access' = IF read \/ write
                 THEN [ph |-> "delay", op |-> IF read THEN "read" ELSE "write", addr |-> addr]
                 ELSE NoAccess
    /\ UNCHANGED <<mem, mem_rdata>>

\* repeat (delay) @(itf.mcb): DELAY_MEM or DELAY_PAGE_HIT cycles, any number here.
Delay == access.ph = "delay" /\ UNCHANGED memoryVars

\* The burst numbered k of a read appears on rdata, of either kind raises resp.
Drive(k) ==
    /\ access' = [ph |-> "burst", op |-> access.op, addr |-> access.addr, k |-> k]
    /\ mem_rdata' = IF access.op = "read" THEN mem[access.addr][k] ELSE mem_rdata

FirstBurst == access.ph = "delay" /\ Drive(1) /\ UNCHANGED mem

\* A burst of a write is stored at the end of the cycle in which resp was up.
Stored(wdata) ==
    IF access.op = "write" THEN [mem EXCEPT ![access.addr][access.k] = wdata] ELSE mem

NextBurst(wdata) ==
    /\ access.ph = "burst"
    /\ mem' = Stored(wdata)
    /\ IF access.k < 4 THEN Drive(access.k + 1)
       ELSE access' = NoAccess /\ UNCHANGED mem_rdata
=============================================================================
