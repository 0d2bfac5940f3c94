--------------------------- MODULE ArbiterProofs ---------------------------
(***************************************************************************)
(* The arbiter serves the right cache with the right line and bounds the   *)
(* D-cache's priority, for all sets of addresses and lines.                *)
(***************************************************************************)
EXTENDS ArbiterSystem, TLAPS

\* The requests on a line port, and the ports' definitions for the two caches.
LEMMA Ports ==
    /\ IPort!Reads = DPort!Reads /\ IPort!Writes = DPort!Writes
    /\ IPort!NoWant = DPort!NoWant /\ IPort!NoWant.op = "none"
    /\ \A r \in IPort!Reads : r.op = "read" /\ r.addr \in Addr /\ r = [op |-> "read", addr |-> r.addr]
    /\ \A r \in IPort!Writes : r.op = "write" /\ r.addr \in Addr /\ r.line \in Line
    /\ DPort!Want = {IPort!NoWant} \cup IPort!Reads \cup IPort!Writes
<1> USE DEF IPort!Reads, DPort!Reads, IPort!Writes, DPort!Writes, IPort!NoWant, DPort!NoWant,
            IPort!ReadOf, DPort!ReadOf, IPort!WriteOf, DPort!WriteOf, DPort!Want,
            IPort!Addr, IPort!Line, IPort!Data, DPort!Addr, DPort!Line, DPort!Data,
            Addr, Line, Data
<1>1. IPort!Reads = DPort!Reads /\ IPort!Writes = DPort!Writes /\ IPort!NoWant = DPort!NoWant
  OBVIOUS
<1>2. IPort!NoWant.op = "none"
  OBVIOUS
<1>3. \A r \in IPort!Reads : r.op = "read" /\ r.addr \in Addr /\ r = [op |-> "read", addr |-> r.addr]
  OBVIOUS
<1>4. \A r \in IPort!Writes : r.op = "write" /\ r.addr \in Addr /\ r.line \in Line
  OBVIOUS
<1>5. DPort!Want = {IPort!NoWant} \cup IPort!Reads \cup IPort!Writes
  OBVIOUS
<1> QED BY <1>1, <1>2, <1>3, <1>4, <1>5

\* What the two ports do in a cycle.
LEMMA PortFacts ==
    ASSUME IInv, Clock
    PROVE  /\ iwant' \in {IPort!NoWant} \cup IPort!Reads
           /\ iwant.op # "none" /\ ~i_resp => iwant' = iwant
           /\ i_resp => iwant' = IPort!NoWant
           /\ dwant' \in DPort!Want
           /\ dwant.op # "none" /\ ~d_resp => dwant' = dwant
           /\ d_resp /\ dwant.op = "write" => dwant' \in IPort!Reads
           /\ d_resp /\ dwant.op = "read"  => dwant' = IPort!NoWant
<1>1. IPort!PortStep(i_resp) /\ iwant' \notin IPort!Writes /\ DPort!PortStep(d_resp)
  BY DEF Clock
<1>2. /\ iwant = IPort!NoWant \/ iwant \in IPort!Reads
      /\ dwant = IPort!NoWant \/ dwant \in IPort!Reads \/ dwant \in IPort!Writes
  BY Ports DEF IInv, TypeOK
<1>3. iwant.op \in {"none", "read"} /\ dwant.op \in {"none", "read", "write"}
  BY <1>2, Ports
<1>4. i_resp => iwant.op = "read"
  BY <1>3, Ports DEF IInv, GrantHasRequest, i_resp, i_cache_mem_resp
<1>5. /\ iwant' \in {IPort!NoWant} \cup IPort!Reads
      /\ iwant.op # "none" /\ ~i_resp => iwant' = iwant
      /\ i_resp => iwant' = IPort!NoWant
  BY <1>1, <1>2, <1>3, <1>4, Ports DEF IPort!PortStep, IPort!Want
<1>6. /\ dwant' \in DPort!Want
      /\ dwant.op # "none" /\ ~d_resp => dwant' = dwant
      /\ d_resp /\ dwant.op = "write" => dwant' \in IPort!Reads
      /\ d_resp /\ dwant.op = "read"  => dwant' = IPort!NoWant
  BY <1>1, <1>2, <1>3, Ports DEF DPort!PortStep
<1> QED BY <1>5, <1>6

\* The request the next level sees is that of the cache that is allowed.
LEMMA LowerFacts ==
    ASSUME IInv
    PROVE  /\ state = "IDLE" => lower.op = "none"
           /\ state = "I_CACHE_ALLOW" => lower = iwant /\ iwant \in IPort!Reads
           /\ state = "D_CACHE_ALLOW" => lower = dwant /\ dwant \in IPort!Reads \cup IPort!Writes
<1>1. CASE state = "IDLE"
  BY <1>1 DEF lower, arb_next_level
<1>2. CASE state = "I_CACHE_ALLOW"
  <2>1. iwant \in IPort!Reads
    BY <1>2 DEF IInv, GrantHasRequest
  <2>2. iwant = [op |-> "read", addr |-> iwant.addr]
    BY <2>1, Ports
  <2>3. lower = [op |-> "read", addr |-> iwant.addr]
    BY <1>2 DEF lower, arb_next_level
  <2> QED BY <1>2, <2>1, <2>2, <2>3
<1>3. CASE state = "D_CACHE_ALLOW"
  BY <1>3, Ports DEF lower, arb_next_level, IInv, GrantHasRequest, TypeOK
<1> QED BY <1>1, <1>2, <1>3 DEF IInv, TypeOK

\* The arbiter's grant follows the answers.
LEMMA GrantFacts ==
    ASSUME IInv, Clock
    PROVE  /\ state = "IDLE" /\ dwant.op # "none" => state' = "D_CACHE_ALLOW"
           /\ state = "IDLE" /\ dwant.op = "none" /\ iwant.op # "none" => state' = "I_CACHE_ALLOW"
           /\ state = "IDLE" /\ dwant.op = "none" /\ iwant.op = "none" => state' = "IDLE"
           /\ state # "IDLE" /\ resp => state' = "IDLE"
           /\ state # "IDLE" /\ ~resp => state' = state
           /\ state' \in {"IDLE", "I_CACHE_ALLOW", "D_CACHE_ALLOW"}
           /\ resp => state # "IDLE"
           /\ i_resp <=> state = "I_CACHE_ALLOW" /\ resp
           /\ d_resp <=> state = "D_CACHE_ALLOW" /\ resp
<1>1. resp => state # "IDLE"
  BY DEF IInv, AnswerIsForOwner, resp
<1>2. state \in {"IDLE", "I_CACHE_ALLOW", "D_CACHE_ALLOW"}
  BY DEF IInv, TypeOK
<1> QED BY <1>1, <1>2 DEF Clock, ArbiterStep, i_resp, d_resp, i_cache_mem_resp, d_cache_mem_resp

\* A cache that is granted the port still has its request up.
LEMMA GrantStep ==
    ASSUME IInv, Clock PROVE GrantHasRequest'
<1>1. CASE state = "IDLE"
  BY <1>1, GrantFacts, PortFacts, Ports DEF IInv, TypeOK, GrantHasRequest
<1>2. CASE state # "IDLE"
  <2>1. CASE resp
    BY <1>2, <2>1, GrantFacts DEF GrantHasRequest
  <2>2. CASE ~resp
    <3>1. state' = state /\ ~i_resp /\ ~d_resp
      BY <1>2, <2>2, GrantFacts
    <3>2. state = "I_CACHE_ALLOW" => iwant' = iwant /\ iwant \in IPort!Reads
      BY <3>1, PortFacts, Ports DEF IInv, GrantHasRequest
    <3>3. state = "D_CACHE_ALLOW" => dwant' = dwant /\ dwant.op # "none"
      BY <3>1, PortFacts DEF IInv, GrantHasRequest
    <3> QED BY <3>1, <3>2, <3>3 DEF GrantHasRequest
  <2> QED BY <2>1, <2>2
<1> QED BY <1>1, <1>2

\* Counting the D-cache's answers while a fetch waits.
LEMMA OvertakingStep ==
    ASSUME IInv, Clock PROVE OvertakingSoFar' /\ overtaken' \in 0 .. OvertakingCap
<1>1. /\ overtaken' = IF iwant.op = "none" \/ i_resp THEN 0
                     ELSE IF d_resp /\ overtaken < 3 THEN overtaken + 1 ELSE overtaken
      /\ overtaken \in 0 .. 2
  BY DEF Clock, OvertakingCap, IInv, TypeOK, OvertakingSoFar
<1>2. dwant.op \in {"none", "read", "write"} /\ iwant.op \in {"none", "read"}
  BY Ports DEF IInv, TypeOK
<1>3. CASE iwant.op = "none" \/ i_resp
  BY <1>1, <1>3 DEF OvertakingSoFar, OvertakingCap
<1>4. CASE iwant.op # "none" /\ ~i_resp /\ d_resp
  <2>1. state = "D_CACHE_ALLOW" /\ state' = "IDLE" /\ dwant.op # "none" /\ iwant' = iwant
    BY <1>4, GrantFacts, PortFacts DEF IInv, GrantHasRequest
  <2>2. CASE dwant.op = "write"
    BY <1>1, <1>4, <2>1, <2>2, PortFacts, Ports DEF IInv, OvertakingSoFar, OvertakingCap
  <2>3. CASE dwant.op = "read"
    BY <1>1, <1>4, <2>1, <2>3, PortFacts, Ports DEF IInv, OvertakingSoFar, OvertakingCap
  <2> QED BY <1>2, <2>1, <2>2, <2>3
<1>5. CASE iwant.op # "none" /\ ~i_resp /\ ~d_resp
  <2>1. overtaken' = overtaken /\ iwant' = iwant
    BY <1>1, <1>5, PortFacts
  <2>2. CASE state = "IDLE" /\ dwant.op # "none"
    BY <1>1, <1>5, <2>1, <2>2, GrantFacts, PortFacts DEF IInv, OvertakingSoFar, OvertakingCap
  <2>3. CASE state = "IDLE" /\ dwant.op = "none"
    BY <1>1, <1>5, <2>1, <2>3, GrantFacts DEF OvertakingSoFar, OvertakingCap
  <2>4. CASE state # "IDLE"
    <3>1. state' = state /\ state # "IDLE"
      BY <1>5, <2>4, GrantFacts DEF IInv, TypeOK
    <3>2. state = "D_CACHE_ALLOW" => dwant' = dwant
      BY <1>5, PortFacts DEF IInv, GrantHasRequest
    <3> QED BY <1>1, <1>5, <2>1, <3>1, <3>2 DEF IInv, OvertakingSoFar, OvertakingCap
  <2> QED BY <2>2, <2>3, <2>4
<1> QED BY <1>3, <1>4, <1>5

-----------------------------------------------------------------------------
(* The next level.                                                         *)

\* What a cycle of the next level does to its job; the lines change only with a
\* write that is taken.
LEMMA LevelFacts ==
    ASSUME IInv, Next
    PROVE  /\ Clock
           /\ \/ job' = job /\ lines' = lines /\ job.st # "done"
              \/ /\ job.st = "idle" /\ lower.op # "none" /\ job'.st # "idle" /\ job'.want = lower
                 /\ lines' = IF lower.op = "write"
                             THEN [lines EXCEPT ![lower.addr] = lower.line] ELSE lines
                 /\ job' \in {[st |-> "busy", want |-> lower], Answered(lower, lines')}
              \/ /\ job.st = "busy" /\ lines' = lines /\ job' = Answered(job.want, lines)
                 /\ job'.st = "done" /\ job'.want = job.want
              \/ job.st = "done" /\ lines' = lines /\ job' = NoJob
<1>1. CASE LevelRests \/ LevelWorks
  BY <1>1 DEF LevelRests, LevelWorks, Rest, Work
<1>2. CASE LevelTakes
  BY <1>2 DEF LevelTakes, Take, Answered
<1>3. CASE LevelFinishes
  BY <1>3 DEF LevelFinishes, Finish, Answered
<1>4. CASE LevelAnswers
  BY <1>4 DEF LevelAnswers, Done
<1> QED BY <1>1, <1>2, <1>3, <1>4 DEF Next

\* The types of the next level and of the rest.
LEMMA TypeStep == ASSUME IInv, Next PROVE TypeOK'
<1> DEFINE Req == IPort!Reads \cup IPort!Writes
           Job == {NoJob} \cup [st: {"busy"}, want: Req]
                  \cup [st: {"done"}, want: IPort!Reads, line: Line]
                  \cup [st: {"done"}, want: IPort!Writes]
<1>1. Clock
  BY LevelFacts
<1>2. state' \in {"IDLE", "I_CACHE_ALLOW", "D_CACHE_ALLOW"}
  BY <1>1, GrantFacts
<1>3. iwant' \in {IPort!NoWant} \cup IPort!Reads /\ dwant' \in DPort!Want
  BY <1>1, PortFacts
<1>4. overtaken' \in 0 .. OvertakingCap
  BY <1>1, OvertakingStep
<1>5. written' \in [Addr -> Line]
  <2>1. dwant.op = "write" => dwant.addr \in Addr /\ dwant.line \in Line
    BY Ports DEF IInv, TypeOK
  <2> QED BY <1>1, <2>1 DEF Clock, IInv, TypeOK
<1>6. lower.op # "none" => lower \in Req
  BY LowerFacts DEF IInv, TypeOK
<1>7. \A w \in Req, m \in [Addr -> Line] :
         [st |-> "busy", want |-> w] \in Job /\ Answered(w, m) \in Job
  <2> SUFFICES ASSUME NEW w \in Req, NEW m \in [Addr -> Line]
               PROVE  [st |-> "busy", want |-> w] \in Job /\ Answered(w, m) \in Job
    OBVIOUS
  <2>1. CASE w \in IPort!Reads
    BY <2>1, Ports DEF Answered
  <2>2. CASE w \in IPort!Writes
    BY <2>2, Ports DEF Answered
  <2> QED BY <2>1, <2>2
<1>8. lines' \in [Addr -> Line]
  BY <1>6, LevelFacts, Ports DEF IInv, TypeOK
<1>9. job' \in Job
  <2>1. lines \in [Addr -> Line] /\ job \in Job
    BY DEF IInv, TypeOK
  <2>2. job.st = "busy" => job.want \in Req
    BY <2>1 DEF NoJob
  <2>3. NoJob \in Job
    OBVIOUS
  <2> HIDE DEF Job, Req
  <2>4. lower.op # "none" => [st |-> "busy", want |-> lower] \in Job /\ Answered(lower, lines') \in Job
    BY <1>6, <1>7, <1>8
  <2>5. job.st = "busy" => Answered(job.want, lines) \in Job
    BY <1>7, <2>1, <2>2
  <2> QED BY <2>1, <2>3, <2>4, <2>5, LevelFacts
<1> QED BY <1>2, <1>3, <1>4, <1>5, <1>8, <1>9 DEF TypeOK

\* The job stays with the cache that is allowed until it is answered.
LEMMA OwnerStep == ASSUME IInv, Next PROVE AnswerIsForOwner'
<1>1. Clock
  BY LevelFacts
<1>2. CASE job.st = "done"
  BY <1>2, LevelFacts DEF AnswerIsForOwner, NoJob
<1>3. CASE job.st # "done" /\ job'.st # "idle"
  <2>1. ~resp /\ ~i_resp /\ ~d_resp
    BY <1>3 DEF resp, i_resp, d_resp, i_cache_mem_resp, d_cache_mem_resp
  <2>2. \/ job.st # "idle" /\ job'.want = job.want
        \/ job.st = "idle" /\ lower.op # "none" /\ job'.want = lower
    BY <1>3, LevelFacts
  <2>3. \/ state = "I_CACHE_ALLOW" /\ job'.want = iwant
        \/ state = "D_CACHE_ALLOW" /\ job'.want = dwant
    BY <2>2, LowerFacts DEF IInv, AnswerIsForOwner, TypeOK
  <2>4. state' = state
    BY <1>1, <2>1, <2>3, GrantFacts
  <2>5. state = "I_CACHE_ALLOW" => iwant' = iwant
    BY <1>1, <2>1, PortFacts, Ports DEF IInv, GrantHasRequest
  <2>6. state = "D_CACHE_ALLOW" => dwant' = dwant
    BY <1>1, <2>1, PortFacts DEF IInv, GrantHasRequest
  <2> QED BY <2>3, <2>4, <2>5, <2>6 DEF AnswerIsForOwner
<1>4. CASE job.st # "done" /\ job'.st = "idle"
  BY <1>4 DEF AnswerIsForOwner
<1> QED BY <1>2, <1>3, <1>4

\* What the next level stores agrees with what the D-cache was told.
LEMMA LinesStep == ASSUME IInv, Next PROVE LinesKnown'
<1> DEFINE W(j, m) == IF j.st # "idle" /\ j.want.op = "write"
                      THEN [m EXCEPT ![j.want.addr] = j.want.line] ELSE m
<1>1. Clock /\ lines = W(job, written)
  BY LevelFacts DEF IInv, LinesKnown
<1>2. CASE job.st # "done"
  <2>1. written' = written
    BY <1>1, <1>2 DEF Clock, d_resp, d_cache_mem_resp, resp
  <2>2. CASE job' = job /\ lines' = lines
    BY <2>1, <2>2, <1>2 DEF IInv, LinesKnown
  <2>3. CASE job.st = "idle" /\ job'.st # "idle"
    <3>1. /\ job'.want = lower
          /\ lines' = IF lower.op = "write"
                      THEN [lines EXCEPT ![lower.addr] = lower.line] ELSE lines
          /\ job' \in {[st |-> "busy", want |-> lower], Answered(lower, lines')}
      BY <2>3, LevelFacts
    <3>2. lines' = W(job', written')
      BY <1>1, <2>1, <2>3, <3>1
    <3>3. job'.st = "done" /\ job'.want.op = "read" => job'.line = lines'[job'.want.addr]
      BY <3>1 DEF Answered
    <3> QED BY <3>2, <3>3 DEF LinesKnown
  <2>4. CASE job.st = "busy" /\ job'.st = "done"
    <3>1. lines' = lines /\ job' = Answered(job.want, lines) /\ job'.want = job.want
      BY <2>4, LevelFacts
    <3>2. lines' = W(job', written')
      BY <1>1, <2>1, <2>4, <3>1
    <3>3. job'.st = "done" /\ job'.want.op = "read" => job'.line = lines'[job'.want.addr]
      BY <3>1 DEF Answered
    <3> QED BY <3>2, <3>3 DEF LinesKnown
  <2> QED BY <1>2, <2>2, <2>3, <2>4, LevelFacts
<1>3. CASE job.st = "done"
  <2>1. job' = NoJob /\ lines' = lines
    BY <1>3, LevelFacts
  <2>2. written' = lines
    <3>1. CASE state = "D_CACHE_ALLOW" /\ job.want = dwant
      BY <1>1, <1>3, <3>1 DEF Clock, d_resp, d_cache_mem_resp, resp
    <3>2. CASE state = "I_CACHE_ALLOW" /\ job.want = iwant
      BY <1>1, <1>3, <3>2, Ports DEF Clock, d_resp, d_cache_mem_resp, resp, IInv, TypeOK
    <3> QED BY <1>3, <3>1, <3>2 DEF IInv, AnswerIsForOwner
  <2> QED BY <2>1, <2>2 DEF LinesKnown, NoJob
<1> QED BY <1>2, <1>3

-----------------------------------------------------------------------------
(* The theorems.                                                           *)

\* The reset state.
LEMMA InitIInv == Init => IInv
<1> SUFFICES ASSUME Init PROVE IInv
  OBVIOUS
<1>1. state = "IDLE" /\ job = NoJob /\ lines \in [Addr -> Line] /\ written = lines /\ overtaken = 0
  BY DEF Init, ArbiterInit, LineMemoryInit
<1>2. iwant = IPort!NoWant /\ dwant = IPort!NoWant
  BY Ports DEF Init, IPort!PortInit, DPort!PortInit
<1>3. TypeOK
  BY <1>1, <1>2, Ports DEF TypeOK, OvertakingCap
<1>4. GrantHasRequest /\ AnswerIsForOwner /\ LinesKnown /\ OvertakingSoFar
  BY <1>1, <1>2, Ports DEF GrantHasRequest, AnswerIsForOwner, LinesKnown, OvertakingSoFar, NoJob
<1> QED BY <1>3, <1>4 DEF IInv

\* Every clock edge keeps the invariant.
LEMMA NextIInv == IInv /\ [Next]_vars => IInv'
<1> SUFFICES ASSUME IInv, [Next]_vars PROVE IInv'
  OBVIOUS
<1>1. CASE Next
  BY <1>1, LevelFacts, TypeStep, GrantStep, OwnerStep, LinesStep, OvertakingStep DEF IInv
<1>2. CASE UNCHANGED vars
  BY <1>2 DEF vars, IInv, TypeOK, GrantHasRequest, AnswerIsForOwner, LinesKnown, OvertakingSoFar
<1> QED BY <1>1, <1>2

\* IInv is an inductive invariant of the two ports, the arbiter and the next level.
THEOREM Inductive == Spec => []IInv
BY InitIInv, NextIInv, PTL DEF Spec

\* An answer goes to the cache that asked, for the line it asked for.
THEOREM RightOwner == Spec => []AnswerIsForOwner
<1>1. IInv => AnswerIsForOwner
  BY DEF IInv
<1> QED BY <1>1, Inductive, PTL

\* A cache is given the line that was last written back under its address.
THEOREM RightLine == Spec => []AnsweredLine
<1>1. IInv => AnsweredLine
  <2> SUFFICES ASSUME IInv PROVE AnsweredLine
    OBVIOUS
  <2>1. ASSUME i_resp PROVE rdata = written[iwant.addr]
    <3>1. job.st = "done" /\ state = "I_CACHE_ALLOW" /\ job.want = iwant
      BY <2>1 DEF i_resp, i_cache_mem_resp, resp, IInv, AnswerIsForOwner
    <3>2. job.want.op = "read"
      BY <3>1, Ports DEF IInv, GrantHasRequest
    <3> QED BY <3>1, <3>2 DEF IInv, LinesKnown, rdata
  <2>2. ASSUME d_resp, dwant.op = "read" PROVE rdata = written[dwant.addr]
    <3>1. job.st = "done" /\ state = "D_CACHE_ALLOW" /\ job.want = dwant
      BY <2>2 DEF d_resp, d_cache_mem_resp, resp, IInv, AnswerIsForOwner
    <3> QED BY <2>2, <3>1 DEF IInv, LinesKnown, rdata
  <2> QED BY <2>1, <2>2 DEF AnsweredLine
<1> QED BY <1>1, Inductive, PTL

\* While a fetch waits, at most two line requests of the D-cache are served first.
THEOREM FairToFetches == Spec => []BoundedOvertaking
<1>1. IInv => BoundedOvertaking
  BY DEF IInv, OvertakingSoFar, BoundedOvertaking
<1> QED BY <1>1, Inductive, PTL

\* The arbiter keeps a request up unchanged until it is answered: it is a client
\* as the L2 cache and the adaptor require one.
THEOREM LowerSteady == Spec => LowerRequestSteady
<1>1. ASSUME IInv, [Next]_vars, lower.op # "none", ~resp PROVE lower' = lower
  <2>1. CASE UNCHANGED vars
    BY <2>1 DEF vars, lower, arb_next_level
  <2>2. CASE Next
    <3>1. Clock /\ ~i_resp /\ ~d_resp
      BY <1>1, <2>2, LevelFacts DEF i_resp, d_resp, i_cache_mem_resp, d_cache_mem_resp
    <3>2. state # "IDLE" /\ state' = state
      BY <1>1, <3>1, LowerFacts, GrantFacts
    <3>3. CASE state = "I_CACHE_ALLOW"
      <4>1. iwant' = iwant
        BY <1>1, <3>1, <3>3, PortFacts, Ports DEF IInv, GrantHasRequest
      <4> QED BY <3>2, <3>3, <4>1 DEF lower, arb_next_level
    <3>4. CASE state = "D_CACHE_ALLOW"
      <4>1. dwant' = dwant
        BY <1>1, <3>1, <3>4, PortFacts DEF IInv, GrantHasRequest
      <4> QED BY <3>2, <3>4, <4>1 DEF lower, arb_next_level
    <3> QED BY <1>1, <3>2, <3>3, <3>4 DEF IInv, TypeOK
  <2> QED BY <1>1, <2>1, <2>2
<1> QED BY <1>1, Inductive, PTL DEF Spec, LowerRequestSteady

\* To the D-cache the arbiter is a line memory: a fetch in progress only delays the
\* moment at which its request is taken, and the lines do not change under it.
THEOREM ArbiterIsLineService == Spec => DataServiceSpec
<1>1. Init => DataService!Init
  <2> SUFFICES ASSUME Init PROVE DataService!Init
    OBVIOUS
  <2>1. state = "IDLE" /\ lines \in [Addr -> Line] /\ dwant = DPort!NoWant
    BY DEF Init, ArbiterInit, LineMemoryInit, DPort!PortInit
  <2>2. dataJob = DataService!NoJob /\ lines \in [DataService!Addr -> DataService!Line]
    BY <2>1 DEF dataJob, NoJob, DataService!NoJob, Addr, Line, Data, DataService!Addr,
                DataService!Line, DataService!Data
  <2>3. DataService!Port!PortInit
    BY <2>1 DEF DataService!Port!PortInit, DPort!NoWant, DataService!Port!NoWant
  <2> QED BY <2>2, <2>3 DEF DataService!Init, DataService!LineMemoryInit
<1>2. ASSUME IInv, IInv', [Next]_vars PROVE [DataService!Next]_(DataService!serviceVars)
  <2>1. CASE UNCHANGED vars
    BY <2>1 DEF vars, DataService!serviceVars, dataJob
  <2>2. CASE Next
    <3>1. Clock
      BY <1>2, <2>2, LevelFacts
    <3>2. (dataJob.st = "done") <=> d_resp
      BY DEF dataJob, NoJob, d_resp, d_cache_mem_resp, resp
    <3>3. DataService!Port!HoldStep(DataService!resp)
      <4>1. DataService!Port!Want = DPort!Want
        BY DEF DataService!Port!Want, DPort!Want, DataService!Port!Reads, DPort!Reads,
               DataService!Port!Writes, DPort!Writes, DataService!Port!NoWant, DPort!NoWant,
               DataService!Port!ReadOf, DPort!ReadOf, DataService!Port!WriteOf, DPort!WriteOf,
               DataService!Port!Addr, DPort!Addr, DataService!Port!Line, DPort!Line,
               DataService!Port!Data, DPort!Data
      <4>2. dwant' \in DPort!Want /\ (dwant.op # "none" /\ ~d_resp => dwant' = dwant)
        BY <1>2, <3>1, PortFacts
      <4> QED BY <3>2, <4>1, <4>2 DEF DataService!Port!HoldStep, DataService!resp
    <3>4. CASE state = "D_CACHE_ALLOW"
      <4>1. dataJob = job /\ lower = dwant /\ dwant.op # "none"
        BY <1>2, <3>4, LowerFacts DEF dataJob, IInv, GrantHasRequest
      <4>2. CASE job.st = "done"
        <5>1. job' = NoJob /\ lines' = lines
          BY <1>2, <2>2, <4>2, LevelFacts
        <5>2. dataJob' = DataService!NoJob
          BY <5>1 DEF dataJob, NoJob, DataService!NoJob
        <5> QED BY <3>3, <4>1, <4>2, <5>1, <5>2 DEF DataService!Next, DataService!Done
      <4>3. CASE job.st # "done"
        <5>1. state' = "D_CACHE_ALLOW"
          BY <1>2, <3>1, <3>4, <4>3, GrantFacts DEF resp
        <5>2. dataJob' = job'
          BY <5>1 DEF dataJob
        <5>3. CASE job' = job /\ lines' = lines
          <6>1. job.st \in {"idle", "busy"}
            BY <1>2, <4>3 DEF IInv, TypeOK, NoJob
          <6> QED BY <3>3, <4>1, <5>2, <5>3, <6>1
                  DEF DataService!Next, DataService!Rest, DataService!Work
        <5>4. CASE /\ job.st = "idle"
                   /\ lines' = IF lower.op = "write"
                               THEN [lines EXCEPT ![lower.addr] = lower.line] ELSE lines
                   /\ job' \in {[st |-> "busy", want |-> lower], Answered(lower, lines')}
          BY <3>3, <4>1, <5>2, <5>4
             DEF DataService!Next, DataService!Take, DataService!Answered, Answered
        <5>5. CASE job.st = "busy" /\ lines' = lines /\ job' = Answered(job.want, lines)
          BY <3>3, <4>1, <5>2, <5>5
             DEF DataService!Next, DataService!Finish, DataService!Answered, Answered
        <5> QED BY <1>2, <2>2, <4>3, <5>3, <5>4, <5>5, LevelFacts
      <4> QED BY <4>2, <4>3
    <3>5. CASE state # "D_CACHE_ALLOW"
      <4>1. dataJob = NoJob
        BY <3>5 DEF dataJob
      <4>2. lines' = lines
        <5>1. lower.op # "write"
          BY <1>2, <3>5, LowerFacts, Ports DEF IInv, TypeOK
        <5> QED BY <1>2, <2>2, <5>1, LevelFacts
      <4>3. dataJob' = NoJob
        <5>1. CASE state = "IDLE"
          <6>1. job.st = "idle" /\ lower.op = "none"
            BY <1>2, <5>1, LowerFacts DEF IInv, AnswerIsForOwner
          <6>2. job' = job
            BY <1>2, <2>2, <6>1, LevelFacts
          <6>3. job = NoJob
            BY <1>2, <6>1 DEF IInv, TypeOK
          <6> QED BY <6>2, <6>3 DEF dataJob
        <5>2. CASE state = "I_CACHE_ALLOW"
          <6>1. state' # "D_CACHE_ALLOW"
            BY <1>2, <3>1, <5>2, GrantFacts
          <6> QED BY <6>1 DEF dataJob
        <5> QED BY <1>2, <3>5, <5>1, <5>2 DEF IInv, TypeOK
      <4> QED BY <3>3, <4>1, <4>2, <4>3 DEF DataService!Next, DataService!Rest, NoJob
    <3> QED BY <3>4, <3>5
  <2> QED BY <1>2, <2>1, <2>2
<1> QED BY <1>1, <1>2, Inductive, PTL DEF Spec, DataServiceSpec, DataService!Spec
=============================================================================
