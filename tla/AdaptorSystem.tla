---------------------------- MODULE AdaptorSystem ----------------------------
(***************************************************************************)
(* The last cache level's line port, the cacheline adaptor and the burst   *)
(* memory on one clock.  A step is one clock edge; adaptor and memory move *)
(* together, each on the outputs the other had before the edge.            *)
(***************************************************************************)
EXTENDS CachelineAdaptor, BurstMemory

VARIABLE want       \* the request of the cache

vars == <<curr_state, address_o, value_read, mem, access, mem_rdata, want>>

Port == INSTANCE LinePort

TypeOK ==
    /\ curr_state \in BurstState \cup {RESET, FINISHED}
    /\ address_o \in Addr /\ value_read \in Line
    /\ mem \in [Addr -> Line] /\ mem_rdata \in Data
    /\ access \in {NoAccess} \cup [ph: {"delay"}, op: {"read", "write"}, addr: Addr]
                  \cup [ph: {"burst"}, op: {"read", "write"}, addr: Addr, k: Word]
    /\ want \in Port!Want

Init == AdaptorInit /\ MemoryInit /\ Port!PortInit

\* A clock edge in state RESET: the request of the cache is taken.
AdaptorStart ==
    /\ Start(want) /\ Port!HoldStep(FALSE)
    /\ Sample(read_o, write_o, address_o)

\* The first edge with read or write up: the memory samples it.
MemorySamples ==
    /\ Burst(mem_resp, mem_rdata) /\ Port!HoldStep(FALSE)
    /\ Sample(read_o, write_o, address_o)

MemoryDelays ==
    /\ Burst(mem_resp, mem_rdata) /\ Port!HoldStep(FALSE)
    /\ Delay

MemoryStarts ==
    /\ Burst(mem_resp, mem_rdata) /\ Port!HoldStep(FALSE)
    /\ FirstBurst

BurstTransfer ==
    /\ Burst(mem_resp, mem_rdata) /\ Port!HoldStep(FALSE)
    /\ NextBurst(IF want.op = "write" THEN burst_o(want) ELSE mem_rdata)

AdaptorFinish ==
    /\ Finished /\ Port!HoldStep(TRUE)
    /\ Sample(read_o, write_o, address_o)

Next ==
    \/ AdaptorStart \/ MemorySamples \/ MemoryDelays
    \/ MemoryStarts \/ BurstTransfer \/ AdaptorFinish

Spec == Init /\ [][Next]_vars

\* The clock runs and the delay of the memory is finite.
Fairness == WF_vars(Next) /\ WF_vars(MemoryStarts)

FairSpec == Spec /\ Fairness

-----------------------------------------------------------------------------
(* Properties.                                                             *)

\* The assertions read_steady, no_write, addr_read_steady, write_steady, no_read
\* and addr_write_steady of the memory: at every edge of an access its command
\* and its address are on the port.
PmemAssertions ==
    access.ph # "idle" =>
        /\ read_o  <=> access.op = "read"
        /\ write_o <=> access.op = "write"
        /\ address_o = access.addr

\* In burst k the adaptor is in state Rk or Wk: no burst is taken twice or missed.
BurstsInStep ==
    mem_resp => curr_state = <<IF access.op = "read" THEN "R" ELSE "W", access.k>>

\* What makes these hold from one edge to the next: the memory begins in the first
\* burst state of a request the cache keeps up, with the address it was latched from.
InTransfer ==
    /\ curr_state \in {RESET, FINISHED} => access = NoAccess
    /\ curr_state # RESET => want.op # "none" /\ address_o = want.addr
    /\ read_o  => want.op = "read"
    /\ write_o => want.op = "write"
    /\ access.ph \in {"idle", "delay"} /\ curr_state \in BurstState => curr_state[2] = 1
    /\ mem_resp /\ access.op = "read" => mem_rdata = mem[access.addr][access.k]

\* The bursts of the request on the port that have been transferred.
Transferred == {k \in Word : \/ curr_state = FINISHED
                             \/ curr_state \in BurstState /\ k < curr_state[2]}

\* They are where they belong: in the latch, or in the memory.
TransferredIsThere ==
    \A k \in Transferred :
        mem[want.addr][k] = IF want.op = "read" THEN value_read[k] ELSE want.line[k]

IInv == TypeOK /\ PmemAssertions /\ BurstsInStep /\ InTransfer /\ TransferredIsThere

\* The adaptor and its memory together are a line memory: the line answered is the
\* one stored, a line written is stored whole, and the answer comes only then.
adaptorJob ==
    IF curr_state = RESET THEN [st |-> "idle"]
    ELSE IF curr_state # FINISHED THEN [st |-> "busy", want |-> want]
    ELSE IF want.op = "read" THEN [st |-> "done", want |-> want, line |-> line_o]
    ELSE [st |-> "done", want |-> want]

\* The lines as the cache has to see them: a line on its way counts as stored.
adaptorLines == IF write_o THEN [mem EXCEPT ![address_o] = want.line] ELSE mem

Service == INSTANCE LineService WITH lines <- adaptorLines, job <- adaptorJob

ServiceSpec == Service!Spec

\* Every line request is answered.
LineIsAnswered == (want.op # "none") ~> resp_o
=============================================================================
