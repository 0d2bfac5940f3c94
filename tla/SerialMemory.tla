---------------------------- MODULE SerialMemory ----------------------------
(***************************************************************************)
(* What a cache promises its processor: one memory that serves requests    *)
(* one after the other.  It is the reference the test bench runs beside    *)
(* the design, shadow_memory.sv, as a specification: an answered write     *)
(* updates the enabled bytes, an answered read returns the current word.   *)
(***************************************************************************)
EXTENDS MemoryTypes

VARIABLES
    mem,    \* the lines
    req,    \* the request on the port, NoRequest if there is none
    ans     \* the answer given to it in this cycle, NoAnswer while it waits

vars == <<mem, req, ans>>

NoAnswer == [done |-> FALSE]

\* The one answer to r, given the lines m.
Answer(m, r) == IF r.op = "read"
                THEN [done |-> TRUE, rdata |-> ReadWord(m[AddrOf(r)], r)]
                ELSE [done |-> TRUE]

\* The lines after r has been answered.
Applied(m, r) == IF r.op = "write"
                 THEN [m EXCEPT ![AddrOf(r)] = WriteLine(@, r)]
                 ELSE m

Init == mem \in [Addr -> Line] /\ req = NoRequest /\ ans = NoAnswer

\* The processor puts up its next request, or none; it may be answered at once.
Submit ==
    /\ req.op = "none" \/ ans.done
    /\ mem' = IF ans.done THEN Applied(mem, req) ELSE mem
    /\ req' \in Request \cup {NoRequest}
    /\ ans' \in {NoAnswer} \cup IF req'.op = "none" THEN {} ELSE {Answer(mem', req')}

\* A waiting request is answered.
Serve ==
    /\ req.op # "none" /\ ~ans.done
    /\ ans' = Answer(mem, req)
    /\ UNCHANGED <<mem, req>>

Next == Submit \/ Serve

Spec == Init /\ [][Next]_vars
=============================================================================
