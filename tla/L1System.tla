------------------------------ MODULE L1System ------------------------------
(***************************************************************************)
(* An L1 cache between its processor port and the next memory level.       *)
(*                                                                         *)
(* The processor holds a request until it is answered, because the hazard  *)
(* unit stalls every stage on a cache miss, and may put up the next one in *)
(* the following cycle.  The next level answers a line read or a line      *)
(* write in a cycle of its choice; until then pmem_rdata carries anything. *)
(* shadow is the memory the processor ought to see: it records the writes  *)
(* as they are answered, like shadow_memory.sv in the test bench.          *)
(***************************************************************************)
EXTENDS L1Cache

VARIABLES
    req,        \* the processor's request
    mem,        \* the lines of the next level
    shadow      \* history variable: the lines as the processor wrote them

vars == <<curr_state, tag, valid, dirty, data, LRU, req, mem, shadow>>

TypeOK ==
    /\ CacheTypeOK
    /\ req \in Request \cup {NoRequest}
    /\ mem \in [Addr -> Line]
    /\ shadow \in [Addr -> Line]

Init ==
    /\ CacheInit
    /\ req = NoRequest
    /\ mem \in [Addr -> Line]
    /\ shadow = mem

\* An idle cycle after which the processor has a request.
Issue ==
    /\ CacheIdle(req)
    /\ req' \in Request
    /\ UNCHANGED <<mem, shadow>>

\* The cache answers; the processor goes on to its next request or to none.
Respond ==
    /\ CacheHit(req)
    /\ shadow' = IF req.op = "write"
                 THEN [shadow EXCEPT ![AddrOf(req)] = WriteLine(@, req)] ELSE shadow
    /\ req' \in Request \cup {NoRequest}
    /\ UNCHANGED mem

StartMiss == CacheMiss(req) /\ UNCHANGED <<req, mem, shadow>>

WriteBackWait == CacheWriteBack(req, FALSE) /\ UNCHANGED <<req, mem, shadow>>

\* The next level takes the victim's line.
WriteBackDone ==
    /\ CacheWriteBack(req, TRUE)
    /\ mem' = [mem EXCEPT ![pmem_address(req)] = pmem_wdata(req)]
    /\ UNCHANGED <<req, shadow>>

\* A cycle of the fill without a response: the line that is loaded means nothing.
FillWait ==
    /\ \E line \in Line : CacheFill(req, FALSE, line)
    /\ UNCHANGED <<req, mem, shadow>>

FillDone ==
    /\ CacheFill(req, TRUE, mem[pmem_address(req)])
    /\ UNCHANGED <<req, mem, shadow>>

Next ==
    \/ Issue \/ Respond \/ StartMiss
    \/ WriteBackWait \/ WriteBackDone
    \/ FillWait \/ FillDone

Spec == Init /\ [][Next]_vars

\* The clock does not stop and the next level answers every line request.
Fairness ==
    /\ WF_vars(Respond) /\ WF_vars(StartMiss)
    /\ WF_vars(WriteBackDone) /\ WF_vars(FillDone)

FairSpec == Spec /\ Fairness

-----------------------------------------------------------------------------
(* Properties.                                                             *)

\* Way w of set s is being loaded, or is being written back, for the request.
Filling(s, w)  == curr_state = "miss_clean" /\ s = req.set /\ w = replace_which_way(req)
Evicting(s, w) == curr_state = "miss_dirty" /\ s = req.set /\ w = replace_which_way(req)

\* Way w of set s holds the line of address a.
Holds(s, w, a) == valid[s][w] /\ ~Filling(s, w) /\ a = <<tag[s][w], s>>

\* A read is answered with the word the processor wrote last (or the initial one):
\* the comparison of the shadow memory in the test bench, for every cache state.
ReadsMatchShadow ==
    mem_resp(req) /\ req.op = "read"
        => mem_rdata(req) = ReadWord(shadow[AddrOf(req)], req)

\* No line is in two ways of its set, so hit1..hit4 are exclusive, as the muxes of
\* the datapath and load_PLRU take for granted.
OneWayHits ==
    \A s \in Index : \A v, w \in Way :
        valid[s][v] /\ valid[s][w] /\ tag[s][v] = tag[s][w] => v = w

\* The next level may be out of date for a line only while the cache still holds
\* that line and will write it back (it is dirty, or is the victim on its way out,
\* whose dirty bit is already cleared): no write is ever lost.
StaleOnlyIfDirty ==
    \A a \in Addr :
        mem[a] # shadow[a] =>
            \E w \in Way : /\ Holds(a[2], w, a)
                           /\ dirty[a[2]][w] \/ Evicting(a[2], w)

\* The strengthening that makes the three invariants above inductive.
\* Every line the cache holds is the line the processor sees.
HeldLinesMatch ==
    \A s \in Index, w \in Way :
        valid[s][w] /\ ~Filling(s, w) => data[s][w] = shadow[<<tag[s][w], s>>]

\* Only a valid way is dirty: the control unit looks at the victim's dirty bit only.
DirtyIsValid == \A s \in Index, w \in Way : dirty[s][w] => valid[s][w]

\* During a miss the request is still there and no way but the victim can match it;
\* the victim is a valid line during a write-back and a clean one during a fill.
MissOpen ==
    curr_state # "hit" =>
        LET v == replace_which_way(req)
        IN  /\ req.op # "none"
            /\ \A w \in Way : w # v => ~Hit(w, req)
            /\ curr_state = "miss_dirty" => valid[req.set][v] /\ ~Hit(v, req)
            /\ curr_state = "miss_clean" => ~dirty[req.set][v]

IInv == /\ TypeOK /\ OneWayHits /\ DirtyIsValid
        /\ MissOpen /\ HeldLinesMatch /\ StaleOnlyIfDirty

\* A fill is followed by a hit of the request it was made for, so that a miss costs
\* one fill and the replacement policy cannot send the control unit round again.
FillThenHit ==
    [][curr_state = "miss_clean" /\ curr_state' = "hit" => mem_resp(req)']_vars

\* What the cache shows to the next level.
lineRequest ==
    IF pmem_read THEN [op |-> "read", addr |-> pmem_address(req)]
    ELSE IF pmem_write THEN [op |-> "write", addr |-> pmem_address(req), line |-> pmem_wdata(req)]
    ELSE [op |-> "none", addr |-> <<>>]

Port == INSTANCE LinePort WITH want <- lineRequest

\* The cache's line port behaves as the arbiter's model takes for granted: a request
\* stands until it is answered although dirty, tag and data are rewritten meanwhile,
\* a write-back is followed at once by the read of
\* another line of the set, and a read by a cycle without a request.
LinePortSpec == Port!PortSpec

\* Every request is answered, if the next level answers.
RequestIsServed == (req.op # "none") ~> mem_resp(req)

\* What the processor port shows in a cycle.
PortAnswer == IF ~mem_resp(req) THEN [done |-> FALSE]
              ELSE IF req.op = "read" THEN [done |-> TRUE, rdata |-> mem_rdata(req)]
              ELSE [done |-> TRUE]

Serial == INSTANCE SerialMemory WITH mem <- shadow, ans <- PortAnswer

\* The cache with its next level implements one memory that serves requests in turn.
SerialSpec == Serial!Spec
=============================================================================
