-------------------------- MODULE CachelineAdaptor --------------------------
(***************************************************************************)
(* cacheline_adaptor with its state machine f_s_m: a line of the last      *)
(* cache level against four bursts of the memory.  The states R1..R4 and   *)
(* W1..W4 are <<"R", k>> and <<"W", k>> with k the number of the burst.    *)
(* w is the request of the cache; resp_i and burst_i come from the memory. *)
(***************************************************************************)
EXTENDS Integers, MemoryTypes

VARIABLES
    curr_state,
    address_o,      \* the address register
    value_read      \* the latch behind line_o

adaptorVars == <<curr_state, address_o, value_read>>

\* A line is four bursts, numbered as in the state names.
ASSUME BurstAssumption == Word = 1 .. 4

RESET    == <<"RESET", 0>>
FINISHED == <<"FINISHED", 0>>
BurstState == {"R", "W"} \X (1 .. 4)

read_o  == curr_state[1] = "R"
write_o == curr_state[1] = "W"
resp_o  == curr_state = FINISHED
line_o  == value_read

\* burst_o: the part of the line that write_mux selects.
burst_o(w) == w.line[curr_state[2]]

AdaptorInit ==
    /\ curr_state = RESET
    /\ address_o \in Addr               \* no reset
    /\ value_read \in Line              \* nor has the latch

\* A slip: the address register keeps the address of the request before.
Start_no_latch(w) ==
    /\ curr_state = RESET
    /\ curr_state' = IF w.op = "none" THEN RESET
                     ELSE IF w.op = "read" THEN <<"R", 1>> ELSE <<"W", 1>>
    /\ UNCHANGED <<address_o, value_read>>

\* A slip: a write request is not recognised.
Start_no_write(w) ==
    /\ curr_state = RESET
    /\ address_o' \in IF w.op = "none" THEN Addr ELSE {w.addr}
    /\ curr_state' = IF w.op = "read" THEN <<"R", 1>> ELSE RESET
    /\ UNCHANGED value_read

\* State RESET: the address register follows the cache until a request starts.
Start(w) ==
    /\ curr_state = RESET
    /\ address_o' \in IF w.op = "none" THEN Addr ELSE {w.addr}
    /\ curr_state' = IF w.op = "none" THEN RESET
                     ELSE IF w.op = "read" THEN <<"R", 1>> ELSE <<"W", 1>>
    /\ UNCHANGED value_read

\* A slip: the state machine advances without the memory's response.
Burst_free_running(resp_i, burst_i) ==
    LET k == curr_state[2]
    IN  /\ curr_state \in BurstState
        /\ curr_state' = IF k = 4 THEN FINISHED ELSE <<curr_state[1], k + 1>>
        /\ value_read' = IF read_o THEN [value_read EXCEPT ![k] = burst_i] ELSE value_read
        /\ UNCHANGED address_o

\* A slip: one burst too few.
Burst_short(resp_i, burst_i) ==
    LET k == curr_state[2]
    IN  /\ curr_state \in BurstState
        /\ curr_state' = IF ~resp_i THEN curr_state
                         ELSE IF k = 3 THEN FINISHED ELSE <<curr_state[1], k + 1>>
        /\ value_read' = IF read_o THEN [value_read EXCEPT ![k] = burst_i] ELSE value_read
        /\ UNCHANGED address_o

\* A slip: the state machine waits for one response more than there are bursts.
Burst_overrun(resp_i, burst_i) ==
    LET k == curr_state[2]
    IN  /\ curr_state \in {"R", "W"} \X (1 .. 5)
        /\ curr_state' = IF ~resp_i THEN curr_state
                         ELSE IF k = 5 THEN FINISHED ELSE <<curr_state[1], k + 1>>
        /\ value_read' = IF read_o /\ k < 5 THEN [value_read EXCEPT ![k] = burst_i] ELSE value_read
        /\ UNCHANGED address_o

\* States R1..R4 and W1..W4: part k of the latch is open in the whole of state Rk;
\* the state moves on with a response.
Burst(resp_i, burst_i) ==
    LET k == curr_state[2]
    IN  /\ curr_state \in BurstState
        /\ curr_state' = IF ~resp_i THEN curr_state
                         ELSE IF k = 4 THEN FINISHED ELSE <<curr_state[1], k + 1>>
        /\ value_read' = IF read_o THEN [value_read EXCEPT ![k] = burst_i] ELSE value_read
        /\ UNCHANGED address_o

\* State FINISHED: resp_o for one cycle.
Finished ==
    /\ curr_state = FINISHED
    /\ curr_state' = RESET
    /\ UNCHANGED <<address_o, value_read>>
=============================================================================
