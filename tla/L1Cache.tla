------------------------------- MODULE L1Cache -------------------------------
(***************************************************************************)
(* cache_4_way: the L1 cache with a single-cycle hit (control unit,        *)
(* datapath, arrays and bus adapter).  An action is one rising clock edge. *)
(* Its arguments are the inputs of that cycle: the processor's request r,  *)
(* the response bit resp of the next level and the line pmem_rdata.  The   *)
(* arrays of this cache are read combinationally, so every output of a     *)
(* cycle is a function of the registers and of r.                          *)
(*                                                                         *)
(* Ways is 4 in cache_4_way; the generator n_way_cache.py writes the same  *)
(* control unit for any number of ways.                                    *)
(***************************************************************************)
EXTENDS PLRU, MemoryTypes

CONSTANT ZeroTag        \* the tag the arrays hold after reset

ASSUME L1Assumption == ZeroTag \in Tag

VARIABLES
    curr_state, \* state of the control unit
    tag, valid, dirty, data,    \* the arrays, by index and way
    LRU                         \* the PLRU bits, by index

cacheVars == <<curr_state, tag, valid, dirty, data, LRU>>

CacheTypeOK ==
    /\ curr_state \in {"hit", "miss_clean", "miss_dirty"}
    /\ tag   \in [Index -> [Way -> Tag]]
    /\ valid \in [Index -> [Way -> BOOLEAN]]
    /\ dirty \in [Index -> [Way -> BOOLEAN]]
    /\ data  \in [Index -> [Way -> Line]]
    /\ LRU   \in [Index -> Bits]

-----------------------------------------------------------------------------
(* Datapath: the outputs of a cycle.                                       *)

Hit(w, r) == valid[r.set][w] /\ tag[r.set][w] = r.tag

hit_check(r) == \E w \in Way : Hit(w, r)

\* The control unit looks at hit1, hit2, ... in this order.
HitWay(r) == CHOOSE w \in Way : Hit(w, r) /\ \A v \in Way : Hit(v, r) => w <= v

replace_which_way(r) == which_replace(LRU[r.set])

\* which_dirty: the dirty bit of the way to be replaced.
dirty_out(r) == dirty[r.set][replace_which_way(r)]

mem_resp(r)  == curr_state = "hit" /\ r.op # "none" /\ hit_check(r)
mem_rdata(r) == ReadWord(data[r.set][HitWay(r)], r)

pmem_read  == curr_state = "miss_clean"
pmem_write == curr_state = "miss_dirty"

\* A slip: the write-back goes to the address of the request.
pmem_address_request(r) == AddrOf(r)

\* new_address: the victim's line while it is written back, else the request's.
pmem_address(r) == IF curr_state = "miss_dirty"
                   THEN <<tag[r.set][replace_which_way(r)], r.set>>
                   ELSE AddrOf(r)
pmem_wdata(r) == data[r.set][replace_which_way(r)]

-----------------------------------------------------------------------------
(* Control unit.                                                           *)

CacheInit ==
    /\ curr_state = "hit"
    /\ tag   = [s \in Index |-> [w \in Way |-> ZeroTag]]
    /\ valid = [s \in Index |-> [w \in Way |-> FALSE]]
    /\ dirty = [s \in Index |-> [w \in Way |-> FALSE]]
    /\ data \in [Index -> [Way -> Line]]    \* data_array has no reset
    /\ LRU   = [s \in Index |-> [n \in Node |-> FALSE]]

\* State hit, no request: set_defaults only.
CacheIdle(r) ==
    /\ curr_state = "hit" /\ r.op = "none"
    /\ UNCHANGED cacheVars

\* A slip: a write hit forgets to set the dirty bit.
CacheHit_not_dirty(r) ==
    /\ mem_resp(r)
    /\ LRU' = [LRU EXCEPT ![r.set] = load_PLRU(@, HitWay(r))]
    /\ data' = IF r.op = "write"
               THEN [data EXCEPT ![r.set][HitWay(r)] = WriteLine(@, r)] ELSE data
    /\ UNCHANGED <<curr_state, tag, valid, dirty>>

\* State hit, a line matches: answer, touch the way, and store a write.  The LRU
\* array passes LRU_in through to LRU_out while it is loaded and load_PLRU starts
\* from LRU_out, a combinational loop: the bits it does not assign are those of
\* this set or, when hits follow each other without a gap, the ones the loop
\* still holds from the set accessed before.
CacheHit(r) ==
    /\ mem_resp(r)
    /\ \E s \in Index : LRU' = [LRU EXCEPT ![r.set] = load_PLRU(LRU[s], HitWay(r))]
    /\ IF r.op = "write"
       THEN /\ dirty' = [dirty EXCEPT ![r.set][HitWay(r)] = TRUE]
            /\ data'  = [data EXCEPT ![r.set][HitWay(r)] = WriteLine(@, r)]
       ELSE UNCHANGED <<dirty, data>>
    /\ UNCHANGED <<curr_state, tag, valid>>

\* A slip: the victim is overwritten without being written back.
CacheMiss_never_dirty(r) ==
    /\ curr_state = "hit" /\ r.op # "none" /\ ~hit_check(r)
    /\ curr_state' = "miss_clean"
    /\ UNCHANGED <<tag, valid, dirty, data, LRU>>

\* State hit, no line matches: write the victim back first if it is dirty.
CacheMiss(r) ==
    /\ curr_state = "hit" /\ r.op # "none" /\ ~hit_check(r)
    /\ curr_state' = IF dirty_out(r) THEN "miss_dirty" ELSE "miss_clean"
    /\ UNCHANGED <<tag, valid, dirty, data, LRU>>

\* State miss_dirty: the victim's dirty bit is cleared in every cycle of the
\* write-back, before the next level has taken the line.
CacheWriteBack(r, resp) ==
    /\ curr_state = "miss_dirty"
    /\ dirty' = [dirty EXCEPT ![r.set][replace_which_way(r)] = FALSE]
    /\ curr_state' = IF resp THEN "miss_clean" ELSE "miss_dirty"
    /\ UNCHANGED <<tag, valid, data, LRU>>

\* A slip: the fill ends after the first cycle, without waiting for the response.
CacheFill_no_wait(r, resp, pmem_rdata) ==
    /\ curr_state = "miss_clean"
    /\ tag'   = [tag   EXCEPT ![r.set][replace_which_way(r)] = r.tag]
    /\ valid' = [valid EXCEPT ![r.set][replace_which_way(r)] = TRUE]
    /\ data'  = [data  EXCEPT ![r.set][replace_which_way(r)] = pmem_rdata]
    /\ curr_state' = "hit"
    /\ UNCHANGED <<dirty, LRU>>

\* A slip: the tag arrays are loaded with the index bits of the address.
CacheFill_wrong_slice(r, resp, pmem_rdata) ==
    /\ curr_state = "miss_clean"
    /\ tag'   = [tag   EXCEPT ![r.set][replace_which_way(r)] = r.set]
    /\ valid' = [valid EXCEPT ![r.set][replace_which_way(r)] = TRUE]
    /\ data'  = [data  EXCEPT ![r.set][replace_which_way(r)] = pmem_rdata]
    /\ curr_state' = IF resp THEN "hit" ELSE "miss_clean"
    /\ UNCHANGED <<dirty, LRU>>

\* A slip: the fill touches the way it loads, so that the victim changes under it.
CacheFill_touches(r, resp, pmem_rdata) ==
    /\ curr_state = "miss_clean"
    /\ tag'   = [tag   EXCEPT ![r.set][replace_which_way(r)] = r.tag]
    /\ valid' = [valid EXCEPT ![r.set][replace_which_way(r)] = TRUE]
    /\ data'  = [data  EXCEPT ![r.set][replace_which_way(r)] = pmem_rdata]
    /\ LRU'   = [LRU   EXCEPT ![r.set] = load_PLRU(@, which_replace(@))]
    /\ curr_state' = IF resp THEN "hit" ELSE "miss_clean"
    /\ UNCHANGED dirty

\* A slip: only a read sets the valid bit.
CacheFill_write_invalid(r, resp, pmem_rdata) ==
    /\ curr_state = "miss_clean"
    /\ tag'   = [tag   EXCEPT ![r.set][replace_which_way(r)] = r.tag]
    /\ valid' = IF r.op = "read" THEN [valid EXCEPT ![r.set][replace_which_way(r)] = TRUE] ELSE valid
    /\ data'  = [data  EXCEPT ![r.set][replace_which_way(r)] = pmem_rdata]
    /\ curr_state' = IF resp THEN "hit" ELSE "miss_clean"
    /\ UNCHANGED <<dirty, LRU>>

\* State miss_clean: in every cycle, not only the last, the victim takes the tag
\* of the request, becomes valid and loads whatever is on pmem_rdata.
CacheFill(r, resp, pmem_rdata) ==
    /\ curr_state = "miss_clean"
    /\ IF r.op = "none" THEN UNCHANGED <<tag, valid, data>>
       ELSE /\ tag'   = [tag   EXCEPT ![r.set][replace_which_way(r)] = r.tag]
            /\ valid' = [valid EXCEPT ![r.set][replace_which_way(r)] = TRUE]
            /\ data'  = [data  EXCEPT ![r.set][replace_which_way(r)] = pmem_rdata]
    /\ curr_state' = IF resp THEN "hit" ELSE "miss_clean"
    /\ UNCHANGED <<dirty, LRU>>
=============================================================================
