------------------------------- MODULE L2Cache -------------------------------
(***************************************************************************)
(* modular_cache: the second-level cache, whole lines on both sides.  Its  *)
(* arrays answer one clock late: at every edge they capture the set of the *)
(* index on their address input, with what is being loaded there.  So the  *)
(* outputs of a cycle are the arrays at ridx, the index of the cycle       *)
(* before, while loads go to the index of the cycle itself.  State stall   *)
(* is the cycle in which the arrays are given the index of a new request.  *)
(* w is the request on the upper port, resp and pmem_rdata come from below.*)
(***************************************************************************)
EXTENDS PLRU, MemoryTypes

CONSTANT ZeroTag        \* the tag the arrays hold after reset

ASSUME L2Assumption == ZeroTag \in Tag

VARIABLES
    curr_state, \* state of the control unit
    tag, valid, dirty, data,    \* the arrays, by index and way
    LRU,                        \* the PLRU bits, by index
    ridx                        \* the index whose set the output registers hold

cacheVars == <<curr_state, tag, valid, dirty, data, LRU, ridx>>

CacheTypeOK ==
    /\ curr_state \in {"stall", "hit", "miss_clean", "miss_dirty"}
    /\ tag   \in [Index -> [Way -> Tag]]
    /\ valid \in [Index -> [Way -> BOOLEAN]]
    /\ dirty \in [Index -> [Way -> BOOLEAN]]
    /\ data  \in [Index -> [Way -> Line]]
    /\ LRU   \in [Index -> Bits]
    /\ ridx  \in Index

-----------------------------------------------------------------------------
(* Datapath.                                                               *)

\* A slip: the index is cut out of the tag bits.
Set_tag_bits(w) == w.addr[1]

Set(w) == w.addr[2]

Hit(v, w) == valid[ridx][v] /\ tag[ridx][v] = w.addr[1]

hit_check(w) == \E v \in Way : Hit(v, w)

HitWay(w) == CHOOSE v \in Way : Hit(v, w) /\ \A u \in Way : Hit(u, w) => v <= u

replace_which_way == which_replace(LRU[ridx])

\* which_dirty: the dirty bit of the way to be replaced.
dirty_out == dirty[ridx][replace_which_way]

done(w)      == curr_state = "hit" /\ hit_check(w)
mem_rdata(w) == data[ridx][HitWay(w)]

pmem_read  == curr_state = "miss_clean"
pmem_write == curr_state = "miss_dirty"

\* A slip: the write-back goes to the address of the request.
pmem_address_request(w) == w.addr

\* new_address: the victim's line while it is written back, else the request's.
pmem_address(w) == IF pmem_write THEN <<tag[ridx][replace_which_way], Set(w)>> ELSE w.addr
pmem_wdata == data[ridx][replace_which_way]

-----------------------------------------------------------------------------
(* Control unit.                                                           *)

CacheInit ==
    /\ curr_state = "stall"
    /\ tag   = [s \in Index |-> [v \in Way |-> ZeroTag]]
    /\ valid = [s \in Index |-> [v \in Way |-> FALSE]]
    /\ dirty = [s \in Index |-> [v \in Way |-> FALSE]]
    /\ data \in [Index -> [Way -> Line]]    \* neither the data arrays nor the
    /\ LRU   = [s \in Index |-> [n \in Node |-> FALSE]]
    /\ ridx \in Index                       \* output registers have a reset

\* A slip: the arrays are not given the new index in the stall cycle.
CacheStall_stale(w) ==
    /\ curr_state = "stall"
    /\ curr_state' = IF w.op = "none" THEN "stall" ELSE "hit"
    /\ UNCHANGED <<tag, valid, dirty, data, LRU, ridx>>

\* State stall: present the index; go on if there is a request.
CacheStall(w) ==
    /\ curr_state = "stall"
    /\ curr_state' = IF w.op = "none" THEN "stall" ELSE "hit"
    /\ ridx' \in IF w.op = "none" THEN Index ELSE {Set(w)}
    /\ UNCHANGED <<tag, valid, dirty, data, LRU>>

\* A slip: a write hit forgets to set the dirty bit.
CacheHit_not_dirty(w) ==
    /\ done(w)
    /\ curr_state' = "stall" /\ ridx' = Set(w)
    /\ LRU' = [LRU EXCEPT ![Set(w)] = load_PLRU(LRU[ridx], HitWay(w))]
    /\ data' = IF w.op = "write" THEN [data EXCEPT ![Set(w)][HitWay(w)] = w.line] ELSE data
    /\ UNCHANGED <<tag, valid, dirty>>

\* State hit, a line matches: answer, touch the way, store the line of a write.
CacheHit(w) ==
    /\ done(w)
    /\ curr_state' = "stall" /\ ridx' = Set(w)
    /\ LRU' = [LRU EXCEPT ![Set(w)] = load_PLRU(LRU[ridx], HitWay(w))]
    /\ IF w.op = "write"
       THEN /\ dirty' = [dirty EXCEPT ![Set(w)][HitWay(w)] = TRUE]
            /\ data'  = [data EXCEPT ![Set(w)][HitWay(w)] = w.line]
       ELSE UNCHANGED <<dirty, data>>
    /\ UNCHANGED <<tag, valid>>

\* State hit, no line matches: write the victim back first if it is dirty.
CacheMiss(w) ==
    /\ curr_state = "hit" /\ ~hit_check(w)
    /\ curr_state' = IF dirty_out THEN "miss_dirty" ELSE "miss_clean"
    /\ ridx' = Set(w)
    /\ UNCHANGED <<tag, valid, dirty, data, LRU>>

\* State miss_dirty: the victim's dirty bit is cleared in every cycle of the
\* write-back.
CacheWriteBack(w, resp) ==
    /\ curr_state = "miss_dirty"
    /\ dirty' = [dirty EXCEPT ![Set(w)][replace_which_way] = FALSE]
    /\ curr_state' = IF resp THEN "miss_clean" ELSE "miss_dirty"
    /\ ridx' = Set(w)
    /\ UNCHANGED <<tag, valid, data, LRU>>

\* A slip: the fill ends after the first cycle, without waiting for the response.
CacheFill_no_wait(w, resp, pmem_rdata) ==
    /\ curr_state = "miss_clean"
    /\ tag'   = [tag   EXCEPT ![Set(w)][replace_which_way] = w.addr[1]]
    /\ valid' = [valid EXCEPT ![Set(w)][replace_which_way] = TRUE]
    /\ data'  = [data  EXCEPT ![Set(w)][replace_which_way] = pmem_rdata]
    /\ curr_state' = "hit"
    /\ ridx' = Set(w)
    /\ UNCHANGED <<dirty, LRU>>

\* A slip: the fill touches the way it loads, so that the victim changes under it.
CacheFill_touches(w, resp, pmem_rdata) ==
    /\ curr_state = "miss_clean"
    /\ tag'   = [tag   EXCEPT ![Set(w)][replace_which_way] = w.addr[1]]
    /\ valid' = [valid EXCEPT ![Set(w)][replace_which_way] = TRUE]
    /\ data'  = [data  EXCEPT ![Set(w)][replace_which_way] = pmem_rdata]
    /\ LRU'   = [LRU   EXCEPT ![Set(w)] = load_PLRU(@, which_replace(@))]
    /\ curr_state' = IF resp THEN "hit" ELSE "miss_clean"
    /\ ridx' = Set(w)
    /\ UNCHANGED dirty

\* A slip: only a read sets the valid bit.
CacheFill_write_invalid(w, resp, pmem_rdata) ==
    /\ curr_state = "miss_clean"
    /\ tag'   = [tag   EXCEPT ![Set(w)][replace_which_way] = w.addr[1]]
    /\ valid' = IF w.op = "read" THEN [valid EXCEPT ![Set(w)][replace_which_way] = TRUE] ELSE valid
    /\ data'  = [data  EXCEPT ![Set(w)][replace_which_way] = pmem_rdata]
    /\ curr_state' = IF resp THEN "hit" ELSE "miss_clean"
    /\ ridx' = Set(w)
    /\ UNCHANGED <<dirty, LRU>>

\* State miss_clean: in every cycle the victim takes the tag of the request,
\* becomes valid and loads whatever is on pmem_rdata.
CacheFill(w, resp, pmem_rdata) ==
    /\ curr_state = "miss_clean"
    /\ IF w.op = "none" THEN UNCHANGED <<tag, valid, data>>
       ELSE /\ tag'   = [tag   EXCEPT ![Set(w)][replace_which_way] = w.addr[1]]
            /\ valid' = [valid EXCEPT ![Set(w)][replace_which_way] = TRUE]
            /\ data'  = [data  EXCEPT ![Set(w)][replace_which_way] = pmem_rdata]
    /\ curr_state' = IF resp THEN "hit" ELSE "miss_clean"
    /\ ridx' = Set(w)
    /\ UNCHANGED <<dirty, LRU>>
=============================================================================
