--------------------------- MODULE AdaptorProofs ---------------------------
(***************************************************************************)
(* The cacheline adaptor and the burst memory never lose step, and are     *)
(* together a line memory, for all sets of addresses and of burst values.  *)
(***************************************************************************)
EXTENDS AdaptorSystem, TLAPS

\* The states of the adaptor.
LEMMA States ==
    ASSUME curr_state \in BurstState \cup {RESET, FINISHED}
    PROVE  /\ RESET # FINISHED /\ RESET \notin BurstState /\ FINISHED \notin BurstState
           /\ curr_state \in BurstState <=> (read_o \/ write_o)
           /\ ~(read_o /\ write_o)
           /\ curr_state \in BurstState =>
                 curr_state[2] \in 1 .. 4 /\ curr_state = <<curr_state[1], curr_state[2]>>
BY DEF BurstState, RESET, FINISHED, read_o, write_o

\* The requests on the port.
LEMMA Requests ==
    ASSUME want \in Port!Want
    PROVE  /\ want.op \in {"none", "read", "write"}
           /\ want.op = "none" => want = Port!NoWant
           /\ want.op # "none" => want.addr \in Addr
           /\ want.op = "write" => want.line \in Line
<1> USE DEF Port!Want, Port!NoWant, Port!Reads, Port!Writes, Port!ReadOf, Port!WriteOf,
            Port!Addr, Port!Line, Port!Data, Addr, Line, Data
<1>1. CASE want = Port!NoWant
  BY <1>1
<1>2. CASE want \in Port!Reads
  BY <1>2
<1>3. CASE want \in Port!Writes
  BY <1>3
<1> QED BY <1>1, <1>2, <1>3

\* A request stands until it is answered.
LEMMA Held ==
    ASSUME TypeOK
    PROVE  /\ Port!HoldStep(FALSE) \/ Port!HoldStep(TRUE) => want' \in Port!Want
           /\ Port!HoldStep(FALSE) /\ want.op # "none" => want' = want
BY DEF Port!HoldStep, TypeOK

\* The access of the memory, phase by phase.
LEMMA Accesses ==
    ASSUME TypeOK
    PROVE  /\ access.ph \in {"idle", "delay", "burst"}
           /\ access.ph = "idle" => access = NoAccess
           /\ access.ph # "idle" => access.op \in {"read", "write"} /\ access.addr \in Addr
           /\ access.ph = "delay" =>
                 access = [ph |-> "delay", op |-> access.op, addr |-> access.addr]
           /\ access.ph = "burst" => access.k \in 1 .. 4
BY BurstAssumption DEF TypeOK, NoAccess

\* At reset nothing is on its way.
LEMMA InitIInv == Init => IInv
<1> SUFFICES ASSUME Init PROVE IInv
  OBVIOUS
<1>1. curr_state = RESET /\ access = NoAccess /\ want = Port!NoWant
  BY DEF Init, AdaptorInit, MemoryInit, Port!PortInit
<1>2. TypeOK
  BY <1>1 DEF Init, AdaptorInit, MemoryInit, TypeOK, Port!Want
<1>3. ~read_o /\ ~write_o /\ access.ph = "idle" /\ RESET # FINISHED /\ RESET \notin BurstState
  BY <1>1, <1>2, States DEF read_o, write_o, RESET, NoAccess, TypeOK
<1> QED BY <1>1, <1>2, <1>3
        DEF IInv, PmemAssertions, BurstsInStep, InTransfer, TransferredIsThere, Transferred,
            mem_resp

\* A request is taken, with its address.
LEMMA StartIInv == IInv /\ AdaptorStart => IInv'
<1> SUFFICES ASSUME IInv, AdaptorStart PROVE IInv'
  OBVIOUS
<1>1. /\ curr_state = RESET /\ access = NoAccess /\ access' = NoAccess
      /\ UNCHANGED <<mem, mem_rdata, value_read>>
  BY DEF AdaptorStart, Start, Sample, IInv, InTransfer, read_o, write_o, RESET
<1>2. /\ want.op \in {"none", "read", "write"} /\ want' \in Port!Want
      /\ want.op # "none" => want' = want /\ want.addr \in Addr
  BY Held, Requests DEF AdaptorStart, IInv, TypeOK
<1>3. /\ curr_state' = IF want.op = "none" THEN RESET
                       ELSE IF want.op = "read" THEN <<"R", 1>> ELSE <<"W", 1>>
      /\ address_o' \in IF want.op = "none" THEN Addr ELSE {want.addr}
  BY DEF AdaptorStart, Start
<1>4. TypeOK'
  BY <1>1, <1>2, <1>3 DEF IInv, TypeOK, BurstState
<1>5. access'.ph = "idle" /\ ~mem_resp' /\ (Transferred = {})'
  BY <1>1, <1>2, <1>3, BurstAssumption
     DEF NoAccess, mem_resp, Transferred, BurstState, RESET, FINISHED
<1>6. InTransfer'
  BY <1>1, <1>2, <1>3, <1>5
     DEF InTransfer, read_o, write_o, BurstState, RESET, FINISHED
<1> QED BY <1>4, <1>5, <1>6
        DEF IInv, PmemAssertions, BurstsInStep, TransferredIsThere, mem_resp

\* What a cycle before the first burst leaves alone.
LEMMA WaitIInv ==
    ASSUME IInv, Burst(mem_resp, mem_rdata), Port!HoldStep(FALSE), UNCHANGED mem,
           access.ph \in {"idle", "delay"}, access'.ph \in {"delay", "burst"}, TypeOK',
           access'.op = IF read_o THEN "read" ELSE "write", access'.addr = address_o,
           access'.ph = "burst" => /\ access'.k = 1
                                   /\ access'.op = "read" => mem_rdata' = mem[address_o][1]
    PROVE  IInv'
<1>1. /\ curr_state \in BurstState /\ curr_state' = curr_state /\ curr_state[2] = 1
      /\ address_o' = address_o
  BY DEF Burst, mem_resp, IInv, InTransfer
<1>2. (read_o \/ write_o) /\ ~(read_o /\ write_o) /\ curr_state \notin {RESET, FINISHED}
  BY <1>1, States
<1>3. want.op # "none" /\ want' = want /\ address_o = want.addr
  BY <1>1, <1>2, Held DEF IInv, InTransfer
<1>4. curr_state = <<IF read_o THEN "R" ELSE "W", 1>>
  BY <1>1, <1>2, States DEF read_o, write_o
<1>5. Transferred' = {}
  BY <1>1, <1>2, BurstAssumption DEF Transferred
<1>6. (read_o <=> read_o') /\ (write_o <=> write_o')
  BY <1>1 DEF read_o, write_o
<1>7. PmemAssertions' /\ BurstsInStep'
  BY <1>1, <1>2, <1>4, <1>6 DEF PmemAssertions, BurstsInStep, mem_resp
<1>8. InTransfer'
  BY <1>1, <1>2, <1>3, <1>6 DEF IInv, InTransfer, mem_resp
<1> QED BY <1>5, <1>7, <1>8 DEF IInv, TransferredIsThere

\* The memory samples the request.
LEMMA SampleIInv == IInv /\ MemorySamples => IInv'
<1> SUFFICES ASSUME IInv, MemorySamples PROVE IInv'
  OBVIOUS
<1>1. Burst(mem_resp, mem_rdata) /\ Port!HoldStep(FALSE) /\ access.ph = "idle" /\ ~mem_resp
  BY DEF MemorySamples, Sample, mem_resp
<1>2. curr_state \in BurstState /\ (read_o \/ write_o) /\ curr_state[2] \in 1 .. 4
  BY <1>1, States DEF Burst
<1>3. /\ access' = [ph |-> "delay", op |-> IF read_o THEN "read" ELSE "write", addr |-> address_o]
      /\ UNCHANGED <<mem, mem_rdata>>
  BY <1>2 DEF MemorySamples, Sample
<1>4. /\ curr_state' = curr_state /\ address_o' = address_o /\ want' \in Port!Want
      /\ value_read' \in Line
  BY <1>1, <1>2, Held, BurstAssumption DEF Burst, IInv, TypeOK, Line
<1>5. TypeOK'
  BY <1>3, <1>4 DEF IInv, TypeOK
<1> QED BY <1>1, <1>3, <1>5, WaitIInv

\* A cycle of the memory's delay, or its last one.
LEMMA DelayIInv == IInv /\ (MemoryDelays \/ MemoryStarts) => IInv'
<1> SUFFICES ASSUME IInv, MemoryDelays \/ MemoryStarts PROVE IInv'
  OBVIOUS
<1>1. Burst(mem_resp, mem_rdata) /\ Port!HoldStep(FALSE) /\ access.ph = "delay" /\ ~mem_resp
  BY DEF MemoryDelays, MemoryStarts, Delay, FirstBurst, mem_resp
<1>2. /\ curr_state \in BurstState /\ (read_o \/ write_o) /\ ~(read_o /\ write_o)
      /\ curr_state[2] \in 1 .. 4
  BY <1>1, States DEF Burst
<1>3. /\ access.op = (IF read_o THEN "read" ELSE "write") /\ access.addr = address_o
      /\ access.op \in {"read", "write"} /\ access.addr \in Addr
  BY <1>1, <1>2, Accesses DEF IInv, PmemAssertions
<1>4. /\ curr_state' = curr_state /\ address_o' = address_o /\ want' \in Port!Want
      /\ value_read' \in Line
  BY <1>1, <1>2, Held, BurstAssumption DEF Burst, IInv, TypeOK, Line
<1>5. CASE MemoryDelays
  <2>1. UNCHANGED <<mem, access, mem_rdata>>
    BY <1>5 DEF MemoryDelays, Delay, memoryVars
  <2>2. TypeOK'
    BY <1>4, <2>1 DEF IInv, TypeOK
  <2> QED BY <1>1, <1>3, <2>1, <2>2, WaitIInv
<1>6. CASE MemoryStarts
  <2>1. /\ access' = [ph |-> "burst", op |-> access.op, addr |-> access.addr, k |-> 1]
        /\ mem_rdata' = IF access.op = "read" THEN mem[access.addr][1] ELSE mem_rdata
        /\ UNCHANGED mem
    BY <1>6 DEF MemoryStarts, FirstBurst, Drive
  <2>2. 1 \in Word /\ mem[access.addr][1] \in Data
    BY <1>3, BurstAssumption DEF IInv, TypeOK, Line
  <2>3. TypeOK'
    BY <1>3, <1>4, <2>1, <2>2 DEF IInv, TypeOK
  <2> QED BY <1>1, <1>3, <2>1, <2>3, WaitIInv
<1> QED BY <1>5, <1>6

\* Burst k of the transfer: state, kind, address and the two sides' data.
LEMMA BurstFacts ==
    ASSUME IInv, BurstTransfer, NEW k, k = access.k
    PROVE  /\ k \in 1 .. 4 /\ access.op = want.op /\ want.op \in {"read", "write"}
           /\ access.addr = want.addr /\ address_o = want.addr /\ want.addr \in Addr
           /\ curr_state = <<IF want.op = "read" THEN "R" ELSE "W", k>>
           /\ curr_state' = IF k = 4 THEN FINISHED ELSE <<curr_state[1], k + 1>>
           /\ address_o' = address_o /\ want' = want
           /\ want.op = "read" =>
                 /\ mem' = mem
                 /\ value_read' = [value_read EXCEPT ![k] = mem[want.addr][k]]
           /\ want.op = "write" =>
                 /\ want.line \in Line
                 /\ mem' = [mem EXCEPT ![want.addr][k] = want.line[k]]
                 /\ value_read' = value_read
           /\ IF k = 4 THEN access' = NoAccess /\ mem_rdata' = mem_rdata
              ELSE /\ access' = [ph |-> "burst", op |-> want.op, addr |-> want.addr, k |-> k + 1]
                   /\ mem_rdata' = IF want.op = "read" THEN mem[want.addr][k + 1] ELSE mem_rdata
<1>1. /\ access.ph = "burst" /\ mem_resp /\ Burst(TRUE, mem_rdata) /\ Port!HoldStep(FALSE)
      /\ NextBurst(IF want.op = "write" THEN burst_o(want) ELSE mem_rdata)
  BY DEF BurstTransfer, NextBurst, mem_resp
<1>2. k \in 1 .. 4 /\ access.op \in {"read", "write"}
  BY <1>1, Accesses DEF IInv
<1>3. curr_state = <<IF access.op = "read" THEN "R" ELSE "W", k>> /\ curr_state \in BurstState
  BY <1>1 DEF IInv, BurstsInStep, Burst
<1>4. curr_state[1] = (IF access.op = "read" THEN "R" ELSE "W") /\ curr_state[2] = k
  BY <1>3
<1>5. curr_state # RESET /\ (read_o <=> access.op = "read") /\ (write_o <=> access.op = "write")
  BY <1>2, <1>3, <1>4, States DEF read_o, write_o
<1>6. /\ want.op = access.op /\ address_o = want.addr /\ access.addr = address_o
      /\ want.addr \in Addr /\ want' = want
      /\ want.op = "write" => want.line \in Line
  BY <1>1, <1>2, <1>5, Held, Requests DEF IInv, InTransfer, PmemAssertions, TypeOK
<1>7. /\ curr_state' = IF k = 4 THEN FINISHED ELSE <<curr_state[1], k + 1>>
      /\ value_read' = IF read_o THEN [value_read EXCEPT ![k] = mem_rdata] ELSE value_read
      /\ address_o' = address_o
  BY <1>1, <1>4 DEF Burst
<1>8. access.op = "read" => mem_rdata = mem[want.addr][k]
  BY <1>1, <1>6 DEF IInv, InTransfer
<1>9. mem' = IF want.op = "write" THEN [mem EXCEPT ![want.addr][k] = want.line[k]] ELSE mem
  BY <1>1, <1>4, <1>6 DEF NextBurst, Stored, burst_o
<1>10. IF k = 4 THEN access' = NoAccess /\ mem_rdata' = mem_rdata
       ELSE /\ access' = [ph |-> "burst", op |-> want.op, addr |-> want.addr, k |-> k + 1]
            /\ mem_rdata' = IF want.op = "read" THEN mem[want.addr][k + 1] ELSE mem_rdata
  BY <1>1, <1>2, <1>6 DEF NextBurst, Drive
<1> QED BY <1>2, <1>3, <1>5, <1>6, <1>7, <1>8, <1>9, <1>10

\* Burst k is transferred: the memory goes on to the burst the adaptor waits for.
LEMMA BurstIInv == IInv /\ BurstTransfer => IInv'
<1> SUFFICES ASSUME IInv, BurstTransfer PROVE IInv'
  OBVIOUS
<1> DEFINE k == access.k
           a == want.addr
           kind == IF want.op = "read" THEN "R" ELSE "W"
<1>1. /\ k \in 1 .. 4 /\ want.op \in {"read", "write"} /\ a \in Addr
      /\ curr_state = <<kind, k>> /\ address_o' = a /\ want' = want
      /\ curr_state' = IF k = 4 THEN FINISHED ELSE <<kind, k + 1>>
  <2>1. /\ curr_state = <<kind, k>>
        /\ curr_state' = IF k = 4 THEN FINISHED ELSE <<curr_state[1], k + 1>>
    BY BurstFacts
  <2>2. curr_state[1] = kind
    BY <2>1
  <2> QED BY <2>1, <2>2, BurstFacts
<1>2. /\ want.op = "read" => /\ mem' = mem
                             /\ value_read' = [value_read EXCEPT ![k] = mem[a][k]]
      /\ want.op = "write" => /\ want.line \in Line
                              /\ mem' = [mem EXCEPT ![a][k] = want.line[k]]
                              /\ value_read' = value_read
  BY BurstFacts
<1>3. IF k = 4 THEN access' = NoAccess /\ mem_rdata' = mem_rdata
      ELSE /\ access' = [ph |-> "burst", op |-> want.op, addr |-> a, k |-> k + 1]
           /\ mem_rdata' = IF want.op = "read" THEN mem[a][k + 1] ELSE mem_rdata
  BY BurstFacts
<1>4. k \in Word /\ (k # 4 => k + 1 \in Word)
  BY <1>1, BurstAssumption
<1>5. mem' \in [Addr -> Line] /\ value_read' \in Line
  <2>1. value_read \in Line /\ mem \in [Addr -> Line] /\ mem[a] \in Line
    BY <1>1 DEF IInv, TypeOK
  <2>2. CASE want.op = "read"
    <3>1. mem[a][k] \in Data
      BY <1>4, <2>1 DEF Line
    <3> QED BY <1>2, <1>4, <2>1, <2>2, <3>1 DEF Line
  <2>3. CASE want.op = "write"
    <3>1. [mem[a] EXCEPT ![k] = want.line[k]] \in Line
      BY <1>2, <1>4, <2>1, <2>3 DEF Line
    <3>2. mem' = [mem EXCEPT ![a] = [mem[a] EXCEPT ![k] = want.line[k]]]
      BY <1>2, <2>3
    <3> QED BY <1>2, <2>1, <2>3, <3>1, <3>2
  <2> QED BY <1>1, <2>2, <2>3
<1>6. mem_rdata' \in Data /\ access' \in {NoAccess}
                  \cup [ph: {"burst"}, op: {"read", "write"}, addr: Addr, k: Word]
  BY <1>1, <1>3, <1>4 DEF IInv, TypeOK, Line
<1>7. TypeOK'
  BY <1>1, <1>4, <1>5, <1>6 DEF IInv, TypeOK, BurstState
<1>8. /\ k # 4 => (read_o' <=> want.op = "read") /\ (write_o' <=> want.op = "write")
      /\ k = 4 => ~read_o' /\ ~write_o' /\ access'.ph = "idle"
  BY <1>1, <1>3 DEF read_o, write_o, FINISHED, NoAccess
<1>9. PmemAssertions' /\ BurstsInStep'
  BY <1>1, <1>3, <1>8 DEF PmemAssertions, BurstsInStep, mem_resp
<1>10. InTransfer'
  <2>1. CASE k = 4
    BY <1>1, <1>3, <1>8, <2>1 DEF InTransfer, mem_resp, RESET, FINISHED, BurstState
  <2>2. CASE k # 4
    <3>1. curr_state' = <<kind, k + 1>> /\ curr_state' \notin {RESET, FINISHED}
      BY <1>1, <2>2 DEF RESET, FINISHED
    <3>2. access'.op = "read" => mem_rdata' = mem'[access'.addr][access'.k]
      BY <1>2, <1>3, <2>2
    <3> QED BY <1>1, <1>3, <1>8, <2>2, <3>1, <3>2 DEF InTransfer, mem_resp
  <2> QED BY <2>1, <2>2
<1>11. ASSUME NEW j \in Transferred'
       PROVE  mem'[a][j] = IF want.op = "read" THEN value_read'[j] ELSE want.line[j]
  <2>1. j \in 1 .. 4 /\ j \in Word /\ j <= k
    BY <1>1, <1>11, BurstAssumption DEF Transferred, BurstState, FINISHED
  <2>2. CASE j = k
    BY <1>1, <1>2, <1>4, <2>2 DEF IInv, TypeOK, Line
  <2>3. CASE j < k
    <3>1. j \in Transferred
      BY <1>1, <2>1, <2>3 DEF Transferred, IInv, TypeOK, BurstState
    <3>2. mem[a][j] = IF want.op = "read" THEN value_read[j] ELSE want.line[j]
      BY <3>1 DEF IInv, TransferredIsThere
    <3> QED BY <1>1, <1>2, <1>4, <2>1, <2>3, <3>2 DEF IInv, TypeOK, Line
  <2> QED BY <1>1, <2>1, <2>2, <2>3
<1>12. TransferredIsThere'
  BY <1>1, <1>11 DEF TransferredIsThere
<1> QED BY <1>7, <1>9, <1>10, <1>12 DEF IInv

\* The cycle of the answer ends.
LEMMA FinishIInv == IInv /\ AdaptorFinish => IInv'
<1> SUFFICES ASSUME IInv, AdaptorFinish PROVE IInv'
  OBVIOUS
<1>1. /\ curr_state = FINISHED /\ curr_state' = RESET /\ access = NoAccess /\ access' = NoAccess
      /\ UNCHANGED <<mem, mem_rdata, value_read, address_o>>
  BY DEF AdaptorFinish, Finished, Sample, IInv, InTransfer, read_o, write_o, FINISHED
<1>2. want' \in Port!Want
  BY Held DEF AdaptorFinish, IInv
<1>3. TypeOK'
  BY <1>1, <1>2 DEF IInv, TypeOK
<1>4. /\ access'.ph = "idle" /\ ~read_o' /\ ~write_o' /\ RESET # FINISHED
      /\ RESET \notin BurstState
  BY <1>1 DEF NoAccess, read_o, write_o, RESET, FINISHED, BurstState
<1> QED BY <1>1, <1>3, <1>4
        DEF IInv, PmemAssertions, BurstsInStep, InTransfer, TransferredIsThere, Transferred,
            mem_resp

\* The inductive invariant: the two state machines stay in step and what has been
\* transferred is where it belongs.
THEOREM Inductive == Spec => []IInv
<1>1. Init => IInv
  BY InitIInv
<1>2. IInv /\ [Next]_vars => IInv'
  <2> SUFFICES ASSUME IInv, [Next]_vars PROVE IInv'
    OBVIOUS
  <2>1. CASE Next
    BY <2>1, StartIInv, SampleIInv, DelayIInv, BurstIInv, FinishIInv DEF Next
  <2>2. CASE UNCHANGED vars
    BY <2>2 DEF vars, IInv, TypeOK, PmemAssertions, BurstsInStep, InTransfer,
                TransferredIsThere, Transferred, read_o, write_o, mem_resp
  <2> QED BY <2>1, <2>2
<1> QED BY <1>1, <1>2, PTL DEF Spec

\* The registers, the access and the lines keep their types.
THEOREM TypeCorrect == Spec => []TypeOK
<1>1. IInv => TypeOK
  BY DEF IInv
<1> QED BY <1>1, Inductive, PTL

\* The memory's assertions never fail: command and address stand for the whole
\* access, however long it is delayed.
THEOREM AssertionsHold == Spec => []PmemAssertions
<1>1. IInv => PmemAssertions
  BY DEF IInv
<1> QED BY <1>1, Inductive, PTL

\* No burst is taken twice or missed.
THEOREM NeverOutOfStep == Spec => []BurstsInStep
<1>1. IInv => BurstsInStep
  BY DEF IInv
<1> QED BY <1>1, Inductive, PTL

-----------------------------------------------------------------------------
(* The adaptor and its memory are a line memory.                           *)

\* Job and lines of the line memory, by the state of the adaptor.
JobForm ==
    /\ curr_state = RESET => adaptorJob = Service!NoJob /\ adaptorLines = mem
    /\ curr_state \in BurstState =>
          /\ adaptorJob = [st |-> "busy", want |-> want]
          /\ adaptorLines = IF want.op = "write" THEN [mem EXCEPT ![want.addr] = want.line] ELSE mem
    /\ curr_state = FINISHED => adaptorJob = Service!Answered(want, mem) /\ adaptorLines = mem

\* The line in the latch at the end of a read is the one in the memory.
LEMMA JobIsForm == IInv => JobForm
<1> SUFFICES ASSUME IInv PROVE JobForm
  OBVIOUS
<1>1. curr_state \in BurstState \cup {RESET, FINISHED} /\ want.op \in {"none", "read", "write"}
  BY Requests DEF IInv, TypeOK
<1>2. curr_state = RESET => adaptorJob = Service!NoJob /\ adaptorLines = mem
  BY <1>1, States DEF adaptorJob, adaptorLines, Service!NoJob
<1>3. ASSUME curr_state \in BurstState
      PROVE  /\ adaptorJob = [st |-> "busy", want |-> want]
             /\ adaptorLines = IF want.op = "write" THEN [mem EXCEPT ![want.addr] = want.line] ELSE mem
  <2>1. (write_o <=> want.op = "write") /\ address_o = want.addr
    BY <1>1, <1>3, States DEF IInv, InTransfer
  <2> QED BY <1>1, <1>3, <2>1, States DEF adaptorJob, adaptorLines
<1>4. ASSUME curr_state = FINISHED
      PROVE  adaptorJob = Service!Answered(want, mem) /\ adaptorLines = mem
  <2>1. /\ want.op \in {"read", "write"} /\ want.addr \in Addr /\ ~write_o
        /\ FINISHED # RESET /\ FINISHED \notin BurstState
    BY <1>1, <1>4, States, Requests DEF IInv, InTransfer, TypeOK
  <2>2. value_read \in [Word -> Data] /\ mem[want.addr] \in [Word -> Data]
    BY <2>1 DEF IInv, TypeOK, Line
  <2>3. ASSUME want.op = "read" PROVE value_read = mem[want.addr]
    <3>1. \A k \in Word : value_read[k] = mem[want.addr][k]
      BY <1>4, <2>3 DEF IInv, TransferredIsThere, Transferred
    <3> QED BY <2>2, <3>1
  <2> QED BY <1>4, <2>1, <2>3 DEF adaptorJob, adaptorLines, Service!Answered, line_o
<1> QED BY <1>2, <1>3, <1>4 DEF JobForm

\* The client of the adaptor is the client of the line memory.
LEMMA ClientStep ==
    ASSUME NEW resp, Port!HoldStep(resp), Service!resp <=> resp
    PROVE  Service!Port!HoldStep(Service!resp)
BY DEF Port!HoldStep, Service!Port!HoldStep, Port!Want, Service!Port!Want, Port!NoWant,
       Service!Port!NoWant, Port!Reads, Service!Port!Reads, Port!Writes, Service!Port!Writes,
       Port!ReadOf, Service!Port!ReadOf, Port!WriteOf, Service!Port!WriteOf, Port!Addr,
       Service!Port!Addr, Port!Line, Service!Port!Line, Port!Data, Service!Port!Data

\* Taking a request, or resting.
LEMMA StartStep ==
    ASSUME IInv, JobForm, JobForm', AdaptorStart PROVE Service!Next
<1>1. /\ curr_state = RESET /\ adaptorJob = Service!NoJob /\ adaptorLines = mem
      /\ mem' = mem /\ want.op \in {"none", "read", "write"}
  BY Requests DEF AdaptorStart, Start, Sample, JobForm, IInv, TypeOK
<1>2. Service!Port!HoldStep(Service!resp)
  BY <1>1, ClientStep DEF AdaptorStart, Service!resp, Service!NoJob
<1>3. CASE want.op = "none"
  <2>1. adaptorJob' = Service!NoJob /\ adaptorLines' = mem
    BY <1>1, <1>3 DEF AdaptorStart, Start, JobForm, Service!NoJob
  <2> QED BY <1>1, <1>2, <1>3, <2>1 DEF Service!Next, Service!Rest, Service!NoJob
<1>4. CASE want.op # "none"
  <2>1. want' = want /\ curr_state' \in BurstState
    BY <1>1, <1>4, Held DEF AdaptorStart, Start, IInv, BurstState
  <2>2. /\ adaptorJob' = [st |-> "busy", want |-> want]
        /\ adaptorLines' = IF want.op = "write" THEN [mem EXCEPT ![want.addr] = want.line] ELSE mem
    BY <1>1, <2>1 DEF JobForm
  <2>3. Service!Take(want)
    BY <1>1, <1>4, <2>2 DEF Service!Take, Service!NoJob
  <2> QED BY <1>2, <2>3 DEF Service!Next
<1> QED BY <1>3, <1>4

\* The cycles before the first burst.
LEMMA WaitStep ==
    ASSUME IInv, JobForm, JobForm', MemorySamples \/ MemoryDelays \/ MemoryStarts
    PROVE  Service!Next
<1>1. /\ curr_state \in BurstState /\ curr_state' = curr_state /\ mem' = mem
      /\ Port!HoldStep(FALSE)
  BY DEF MemorySamples, MemoryDelays, MemoryStarts, Burst, mem_resp, Sample, Delay, FirstBurst,
         memoryVars
<1>2. want' = want
  BY <1>1, States, Held DEF IInv, InTransfer
<1>3. /\ adaptorJob = [st |-> "busy", want |-> want] /\ adaptorJob' = adaptorJob
      /\ adaptorLines' = adaptorLines
  BY <1>1, <1>2 DEF JobForm
<1>4. Service!Port!HoldStep(Service!resp)
  BY <1>1, <1>3, ClientStep DEF Service!resp
<1> QED BY <1>3, <1>4 DEF Service!Next, Service!Work

\* A burst of a write changes nothing for the cache; the last burst answers it.
LEMMA BurstStep ==
    ASSUME IInv, JobForm, IInv', JobForm', BurstTransfer PROVE Service!Next
<1> DEFINE k == access.k
           a == want.addr
<1>1. /\ k \in 1 .. 4 /\ want.op \in {"read", "write"} /\ a \in Addr /\ want' = want
      /\ curr_state \in BurstState
      /\ curr_state' = IF k = 4 THEN FINISHED ELSE <<curr_state[1], k + 1>>
      /\ want.op = "read" => mem' = mem
      /\ want.op = "write" => /\ want.line \in Line
                              /\ mem' = [mem EXCEPT ![a][k] = want.line[k]]
  <2>1. curr_state \in BurstState
    BY DEF BurstTransfer, Burst
  <2> QED BY <2>1, BurstFacts
<1>2. /\ adaptorJob = [st |-> "busy", want |-> want]
      /\ adaptorLines = IF want.op = "write" THEN [mem EXCEPT ![a] = want.line] ELSE mem
  BY <1>1 DEF JobForm
<1>3. Service!Port!HoldStep(Service!resp)
  BY <1>2, ClientStep DEF Service!resp, BurstTransfer
<1>4. mem \in [Addr -> Line] /\ mem' \in [Addr -> Line]
  BY DEF IInv, TypeOK
<1>5. CASE k # 4
  <2>1. curr_state' \in BurstState
    BY <1>1, <1>5 DEF BurstState
  <2>2. adaptorJob' = adaptorJob
    BY <1>1, <1>2, <2>1 DEF JobForm
  <2>3. adaptorLines' = adaptorLines
    <3>1. want.op = "write" => [mem' EXCEPT ![a] = want.line] = [mem EXCEPT ![a] = want.line]
      BY <1>1, <1>4
    <3> QED BY <1>1, <1>2, <2>1, <3>1 DEF JobForm
  <2> QED BY <1>2, <1>3, <2>2, <2>3 DEF Service!Next, Service!Work
<1>6. CASE k = 4
  <2>1. adaptorJob' = Service!Answered(want, mem') /\ adaptorLines' = mem' /\ curr_state' = FINISHED
    BY <1>1, <1>6 DEF JobForm, Service!Answered
  <2>2. ASSUME want.op = "write" PROVE mem' = [mem EXCEPT ![a] = want.line]
    <3>1. \A j \in Word : mem'[a][j] = want.line[j]
      BY <1>1, <2>1, <2>2 DEF IInv, TransferredIsThere, Transferred
    <3>2. mem'[a] \in [Word -> Data] /\ want.line \in [Word -> Data]
      BY <1>1, <1>4, <2>2 DEF Line
    <3>3. mem'[a] = want.line
      BY <3>1, <3>2
    <3> QED BY <1>1, <1>4, <2>2, <3>3
  <2>3. adaptorLines' = adaptorLines
    BY <1>1, <1>2, <2>1, <2>2
  <2>4. adaptorJob' = Service!Answered(adaptorJob.want, adaptorLines)
    BY <1>2, <2>1, <2>3
  <2> QED BY <1>2, <1>3, <2>3, <2>4 DEF Service!Next, Service!Finish
<1> QED BY <1>5, <1>6

\* The cycle of the answer.
LEMMA FinishStep ==
    ASSUME IInv, JobForm, JobForm', AdaptorFinish PROVE Service!Next
<1>1. /\ adaptorJob = Service!Answered(want, mem) /\ adaptorLines = mem /\ mem' = mem
      /\ adaptorJob' = Service!NoJob /\ adaptorLines' = mem'
  BY DEF JobForm, AdaptorFinish, Finished, Sample
<1>2. adaptorJob.st = "done"
  BY <1>1 DEF Service!Answered
<1>3. Service!Port!HoldStep(Service!resp)
  BY <1>2, ClientStep DEF AdaptorFinish, Service!resp
<1> QED BY <1>1, <1>2, <1>3 DEF Service!Next, Service!Done, Service!NoJob

\* The adaptor and its memory are the line memory the L2 cache relies on: they take a
\* request, work on it and answer it once, with the line stored last, or after all four
\* bursts of the line written are stored.
THEOREM AdaptorIsLineService == Spec => ServiceSpec
<1>1. Init => Service!Init
  <2> SUFFICES ASSUME Init PROVE Service!Init
    OBVIOUS
  <2>1. adaptorJob = Service!NoJob /\ adaptorLines = mem /\ mem \in [Addr -> Line]
    BY InitIInv, JobIsForm DEF Init, AdaptorInit, MemoryInit, JobForm
  <2>2. [Addr -> Line] = [Service!Addr -> Service!Line]
    BY DEF Addr, Service!Addr, Line, Service!Line, Data, Service!Data
  <2>3. Service!Port!PortInit
    BY DEF Init, Port!PortInit, Service!Port!PortInit, Port!NoWant, Service!Port!NoWant
  <2> QED BY <2>1, <2>2, <2>3 DEF Service!Init, Service!LineMemoryInit
<1>2. ASSUME IInv, JobForm, IInv', JobForm', [Next]_vars
      PROVE  [Service!Next]_(Service!serviceVars)
  <2>1. CASE UNCHANGED vars
    BY <2>1 DEF vars, Service!serviceVars, adaptorJob, adaptorLines, line_o, write_o
  <2>2. CASE Next
    BY <1>2, <2>2, StartStep, WaitStep, BurstStep, FinishStep DEF Next
  <2> QED BY <1>2, <2>1, <2>2
<1> QED BY <1>1, <1>2, Inductive, JobIsForm, PTL DEF Spec, ServiceSpec, Service!Spec
=============================================================================
