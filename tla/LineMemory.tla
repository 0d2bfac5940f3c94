----------------------------- MODULE LineMemory -----------------------------
(***************************************************************************)
(* What a level below the L1 caches promises: it takes one line request,   *)
(* at once or when it is ready, works on it for some cycles and answers it *)
(* in one cycle, with the line it stores or after it has stored the line   *)
(* it was given.                                                           *)
(***************************************************************************)
EXTENDS MemoryTypes

VARIABLES
    lines,      \* the lines stored
    job         \* the request taken; with it, in the cycle of the answer, the line

NoJob == [st |-> "idle"]

LineMemoryInit == lines \in [Addr -> Line] /\ job = NoJob

resp  == job.st = "done"
rdata == job.line

\* No request on the port, or one that is not taken yet.
Rest == job.st = "idle" /\ UNCHANGED <<lines, job>>

\* The request w answered, when the lines are m.
Answered(w, m) == IF w.op = "read" THEN [st |-> "done", want |-> w, line |-> m[w.addr]]
                  ELSE [st |-> "done", want |-> w]

\* Take the request on the port; the answer may already be there in the next cycle.
\* A line to be written counts as stored from here on: nobody can look at it before
\* the answer.
Take(w) ==
    /\ job.st = "idle" /\ w.op # "none"
    /\ lines' = IF w.op = "write" THEN [lines EXCEPT ![w.addr] = w.line] ELSE lines
    /\ job' \in {[st |-> "busy", want |-> w], Answered(w, lines')}

Work == job.st = "busy" /\ UNCHANGED <<lines, job>>

\* The answer appears in the next cycle.
Finish ==
    /\ job.st = "busy"
    /\ job' = Answered(job.want, lines)
    /\ UNCHANGED lines

\* The cycle of the answer ends.
Done == job.st = "done" /\ job' = NoJob /\ UNCHANGED lines
=============================================================================
