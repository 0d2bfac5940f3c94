------------------------------ MODULE L2System ------------------------------
(***************************************************************************)
(* The L2 cache between the line port above it (the arbiter's, or a single *)
(* L1 cache's) and the next level.  The client keeps a request up until it *)
(* is answered; the next level answers in a cycle of its choice and drives *)
(* anything before.  shadow records the lines as the client wrote them.    *)
(***************************************************************************)
EXTENDS L2Cache

VARIABLES
    want,       \* the client's line request
    mem,        \* the lines of the next level
    shadow      \* history: the lines as the client wrote them

vars == <<curr_state, tag, valid, dirty, data, LRU, ridx, want, mem, shadow>>

Upper == INSTANCE LinePort

TypeOK ==
    /\ CacheTypeOK
    /\ want \in Upper!Want
    /\ mem \in [Addr -> Line]
    /\ shadow \in [Addr -> Line]

Init ==
    /\ CacheInit /\ Upper!PortInit
    /\ mem \in [Addr -> Line]
    /\ shadow = mem

\* The cycle in which the arrays are given the index; an idle client may start.
Lookup == CacheStall(want) /\ Upper!HoldStep(FALSE) /\ UNCHANGED <<mem, shadow>>

Respond ==
    /\ CacheHit(want) /\ Upper!HoldStep(TRUE)
    /\ shadow' = IF want.op = "write" THEN [shadow EXCEPT ![want.addr] = want.line] ELSE shadow
    /\ UNCHANGED mem

StartMiss == CacheMiss(want) /\ Upper!HoldStep(FALSE) /\ UNCHANGED <<mem, shadow>>

WriteBackWait ==
    CacheWriteBack(want, FALSE) /\ Upper!HoldStep(FALSE) /\ UNCHANGED <<mem, shadow>>

WriteBackDone ==
    /\ CacheWriteBack(want, TRUE) /\ Upper!HoldStep(FALSE)
    /\ mem' = [mem EXCEPT ![pmem_address(want)] = pmem_wdata]
    /\ UNCHANGED shadow

\* A cycle of the fill without a response: the line that is loaded means nothing.
FillWait ==
    /\ \E line \in Line : CacheFill(want, FALSE, line)
    /\ Upper!HoldStep(FALSE) /\ UNCHANGED <<mem, shadow>>

FillDone ==
    /\ CacheFill(want, TRUE, mem[pmem_address(want)])
    /\ Upper!HoldStep(FALSE) /\ UNCHANGED <<mem, shadow>>

Next ==
    \/ Lookup \/ Respond \/ StartMiss
    \/ WriteBackWait \/ WriteBackDone
    \/ FillWait \/ FillDone

Spec == Init /\ [][Next]_vars

\* The clock does not stop and the next level answers every line request.
Fairness ==
    /\ WF_vars(Lookup /\ want.op # "none") /\ WF_vars(Respond) /\ WF_vars(StartMiss)
    /\ WF_vars(WriteBackDone) /\ WF_vars(FillDone)

FairSpec == Spec /\ Fairness

-----------------------------------------------------------------------------
(* Properties.                                                             *)

Filling(s, v)  == curr_state = "miss_clean" /\ s = Set(want) /\ v = replace_which_way
Evicting(s, v) == curr_state = "miss_dirty" /\ s = Set(want) /\ v = replace_which_way

\* Way v of set s holds the line of address a.
Holds(s, v, a) == valid[s][v] /\ ~Filling(s, v) /\ a = <<tag[s][v], s>>

\* Outside the stall state the registered outputs are those of the set the request
\* is about: what is compared, answered and written back is not a stale set.
OutputsAreCurrent == curr_state # "stall" => want.op # "none" /\ ridx = Set(want)

\* No line is in two ways of its set.
OneWayHits ==
    \A s \in Index : \A u, v \in Way :
        valid[s][u] /\ valid[s][v] /\ tag[s][u] = tag[s][v] => u = v

\* The next level may be out of date for a line only while the cache still holds
\* that line and will write it back.
StaleOnlyIfDirty ==
    \A a \in Addr :
        mem[a] # shadow[a] =>
            \E v \in Way : /\ Holds(a[2], v, a)
                           /\ dirty[a[2]][v] \/ Evicting(a[2], v)

\* The strengthening that makes the invariants above inductive.
\* Every line the cache holds is the line the client sees.
HeldLinesMatch ==
    \A s \in Index, v \in Way :
        valid[s][v] /\ ~Filling(s, v) => data[s][v] = shadow[<<tag[s][v], s>>]

\* Only a valid way is dirty: the control unit looks at the victim's dirty bit only.
DirtyIsValid == \A s \in Index, v \in Way : dirty[s][v] => valid[s][v]

\* During a miss no way but the victim can match the request; the victim is a valid
\* line of another address during a write-back and a clean one during a fill.
MissOpen ==
    curr_state \in {"miss_clean", "miss_dirty"} =>
        LET v == replace_which_way
        IN  /\ \A u \in Way : u # v => ~Hit(u, want)
            /\ curr_state = "miss_dirty" => valid[ridx][v] /\ ~Hit(v, want)
            /\ curr_state = "miss_clean" => ~dirty[ridx][v]

IInv == /\ TypeOK /\ OutputsAreCurrent /\ OneWayHits /\ DirtyIsValid
        /\ MissOpen /\ HeldLinesMatch /\ StaleOnlyIfDirty

\* What the cache shows to the next level.
lineRequest ==
    IF pmem_read THEN [op |-> "read", addr |-> pmem_address(want)]
    ELSE IF pmem_write THEN [op |-> "write", addr |-> pmem_address(want), line |-> pmem_wdata]
    ELSE [op |-> "none", addr |-> <<>>]

Lower == INSTANCE LinePort WITH want <- lineRequest

\* The lower port keeps the discipline of a cache's line port: a request stands
\* until it is answered although the tag under the victim is rewritten meanwhile,
\* a write-back is followed by one read of another line of its set.
LinePortSpec == Lower!PortSpec

\* The request as a job of the line memory that the cache and its next level form.
cacheJob ==
    IF curr_state = "stall" THEN [st |-> "idle"]
    ELSE IF ~done(want) THEN [st |-> "busy", want |-> want]
    ELSE IF want.op = "read" THEN [st |-> "done", want |-> want, line |-> mem_rdata(want)]
    ELSE [st |-> "done", want |-> want]

cacheLines == IF curr_state # "stall" /\ want.op = "write"
              THEN [shadow EXCEPT ![want.addr] = want.line] ELSE shadow

Service == INSTANCE LineService WITH lines <- cacheLines, job <- cacheJob

\* The cache is transparent: with its next level it is again a line memory, one
\* that answers every read with the line written last.
ServiceSpec == Service!Spec

\* Every line request is answered, if the next level answers.
RequestIsServed == (want.op # "none") ~> done(want)
=============================================================================
