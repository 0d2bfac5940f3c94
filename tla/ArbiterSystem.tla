---------------------------- MODULE ArbiterSystem ----------------------------
(***************************************************************************)
(* The two L1 caches' line ports, the arbiter and the next level, all on   *)
(* one clock: a step is one edge of it.  The I-cache only reads, because   *)
(* its processor port only reads.  written is the memory as the D-cache    *)
(* may believe it is, updated when one of its write-backs is answered.     *)
(***************************************************************************)
EXTENDS Integers, MemoryTypes, Arbiter, LineMemory

VARIABLES
    iwant, dwant,   \* the requests of the I-cache and of the D-cache
    written,        \* history: the lines as acknowledged to the D-cache
    overtaken       \* history: D-cache answers while the I-cache waits (cut off at 3)

vars == <<state, lines, job, iwant, dwant, written, overtaken>>

IPort == INSTANCE LinePort WITH want <- iwant
DPort == INSTANCE LinePort WITH want <- dwant

OvertakingCap == 3

i_resp == i_cache_mem_resp(resp)
d_resp == d_cache_mem_resp(resp)

\* The request on the next level's port.
lower == arb_next_level(iwant, dwant)

TypeOK ==
    /\ state \in {"IDLE", "I_CACHE_ALLOW", "D_CACHE_ALLOW"}
    /\ lines \in [Addr -> Line]
    /\ job \in {NoJob} \cup [st: {"busy"}, want: IPort!Reads \cup IPort!Writes]
              \cup [st: {"done"}, want: IPort!Reads, line: Line]
              \cup [st: {"done"}, want: IPort!Writes]
    /\ iwant \in {IPort!NoWant} \cup IPort!Reads
    /\ dwant \in DPort!Want
    /\ written \in [Addr -> Line]
    /\ overtaken \in 0 .. OvertakingCap

Init ==
    /\ ArbiterInit /\ LineMemoryInit
    /\ IPort!PortInit /\ DPort!PortInit
    /\ written = lines
    /\ overtaken = 0

\* What everything but the next level does in a cycle.
Clock ==
    /\ ArbiterStep(iwant, dwant, resp)
    /\ IPort!PortStep(i_resp) /\ iwant' \notin IPort!Writes
    /\ DPort!PortStep(d_resp)
    /\ written' = IF d_resp /\ dwant.op = "write"
                  THEN [written EXCEPT ![dwant.addr] = dwant.line] ELSE written
    /\ overtaken' = IF iwant.op = "none" \/ i_resp THEN 0
                    ELSE IF d_resp /\ overtaken < OvertakingCap THEN overtaken + 1
                    ELSE overtaken

LevelRests    == Clock /\ Rest
LevelTakes    == Clock /\ Take(lower)
LevelWorks    == Clock /\ Work
LevelFinishes == Clock /\ Finish
LevelAnswers  == Clock /\ Done

Next == LevelRests \/ LevelTakes \/ LevelWorks \/ LevelFinishes \/ LevelAnswers

Spec == Init /\ [][Next]_vars

\* The clock runs, and the next level takes what it is asked and finishes it.
FairSpec == Spec /\ WF_vars(Next) /\ WF_vars(LevelTakes) /\ WF_vars(LevelFinishes)

-----------------------------------------------------------------------------
(* Properties.                                                             *)

\* The request the next level works on is still the request of the cache the
\* arbiter has allowed: its answer goes to the cache that asked, for the line that
\* cache asked for, and no request is taken a second time after its answer.
AnswerIsForOwner ==
    job.st # "idle" =>
        \/ state = "I_CACHE_ALLOW" /\ job.want = iwant
        \/ state = "D_CACHE_ALLOW" /\ job.want = dwant

\* A cache is given the line that was last written back under its address.
AnsweredLine ==
    /\ i_resp => rdata = written[iwant.addr]
    /\ d_resp /\ dwant.op = "read" => rdata = written[dwant.addr]

\* The request on the next level's port does not change until it is answered, as
\* param_memory.sv asserts of its inputs.
LowerRequestSteady ==
    [][lower.op # "none" /\ ~resp => lower' = lower]_vars

\* The D-cache has priority, but while a fetch waits at most one write-back and
\* one fill of the D-cache go first: after the fill its port is silent for the
\* cycle in which the arbiter chooses again.
BoundedOvertaking == overtaken <= 2

\* The strengthening that makes the invariants inductive.
\* A cache that is allowed has a request up.
GrantHasRequest ==
    /\ state = "I_CACHE_ALLOW" => iwant \in IPort!Reads
    /\ state = "D_CACHE_ALLOW" => dwant.op # "none"

\* The next level has what was acknowledged, and the line it is storing.
LinesKnown ==
    /\ lines = IF job.st # "idle" /\ job.want.op = "write"
               THEN [written EXCEPT ![job.want.addr] = job.want.line] ELSE written
    /\ job.st = "done" /\ job.want.op = "read" => job.line = lines[job.want.addr]

\* How far the D-cache has come while a fetch waits.
OvertakingSoFar ==
    /\ iwant.op = "none" => overtaken = 0
    /\ state = "D_CACHE_ALLOW" =>
          /\ dwant.op = "write" => overtaken = 0
          /\ dwant.op = "read"  => overtaken <= 1
    /\ state = "IDLE" /\ overtaken > 0 =>
          dwant.op = "none" \/ (dwant.op = "read" /\ overtaken = 1)
    /\ overtaken <= 2

IInv == TypeOK /\ GrantHasRequest /\ AnswerIsForOwner /\ LinesKnown /\ OvertakingSoFar

\* Every request is answered, the fetches too in spite of the D-cache's priority
\* (arbiter.sv line 127).
RequestsAreAnswered ==
    /\ (iwant.op # "none") ~> i_resp
    /\ (dwant.op # "none") ~> d_resp

\* The next level as the D-cache sees it through the arbiter: a request is taken only
\* once the D-cache is allowed.
dataJob == IF state = "D_CACHE_ALLOW" THEN job ELSE NoJob

DataService == INSTANCE LineService WITH job <- dataJob, want <- dwant

\* The arbiter, with the I-cache on its other port and the next level behind it, is to
\* the D-cache a line memory of its own: it keeps the contract the next level keeps.
DataServiceSpec == DataService!Spec
=============================================================================
