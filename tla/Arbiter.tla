------------------------------- MODULE Arbiter -------------------------------
(***************************************************************************)
(* arbiter: one line port towards the next level for the two L1 caches.    *)
(* The arguments i and d are the requests on the two caches' ports, resp   *)
(* and rdata what the next level answers in this cycle; the outputs are    *)
(* combinational.                                                          *)
(***************************************************************************)
VARIABLE state

ArbiterInit == state = "IDLE"

\* A slip: the D-cache's address wins the address mux whenever it has a request.
arb_next_level_crossed(i, d) ==
    CASE state = "IDLE"          -> [op |-> "none", addr |-> <<>>]
      [] state = "D_CACHE_ALLOW" -> d
      [] state = "I_CACHE_ALLOW" ->
            [op |-> "read", addr |-> IF d.op # "none" THEN d.addr ELSE i.addr]

\* The request shown to the next level.  The I-cache is taken to be reading as
\* long as it is allowed, whether i_cache_read is up or not.
arb_next_level(i, d) ==
    CASE state = "IDLE"          -> [op |-> "none", addr |-> <<>>]
      [] state = "D_CACHE_ALLOW" -> d
      [] state = "I_CACHE_ALLOW" -> [op |-> "read", addr |-> i.addr]

i_cache_mem_resp(resp) == state = "I_CACHE_ALLOW" /\ resp
d_cache_mem_resp(resp) == state = "D_CACHE_ALLOW" /\ resp

\* A slip: the D-cache may interrupt a fetch.
ArbiterStep_preempt(i, d, resp) ==
    state' = CASE state = "IDLE" -> IF d.op # "none" THEN "D_CACHE_ALLOW"
                                    ELSE IF i.op # "none" THEN "I_CACHE_ALLOW" ELSE "IDLE"
               [] state = "D_CACHE_ALLOW" -> IF resp THEN "IDLE" ELSE state
               [] state = "I_CACHE_ALLOW" -> IF resp THEN "IDLE"
                                             ELSE IF d.op # "none" THEN "D_CACHE_ALLOW" ELSE state

\* A slip: the D-cache keeps its grant after the response.
ArbiterStep_keep(i, d, resp) ==
    state' = CASE state = "IDLE" -> IF d.op # "none" THEN "D_CACHE_ALLOW"
                                    ELSE IF i.op # "none" THEN "I_CACHE_ALLOW" ELSE "IDLE"
               [] state = "D_CACHE_ALLOW" -> state
               [] state = "I_CACHE_ALLOW" -> IF resp THEN "IDLE" ELSE state

\* A slip: two requests in the same cycle are not arbitrated at all.
ArbiterStep_strict(i, d, resp) ==
    state' = CASE state = "IDLE" -> IF d.op # "none" /\ i.op = "none" THEN "D_CACHE_ALLOW"
                                    ELSE IF i.op # "none" /\ d.op = "none" THEN "I_CACHE_ALLOW"
                                    ELSE "IDLE"
               [] state # "IDLE" -> IF resp THEN "IDLE" ELSE state

\* The D-cache goes first; a grant lasts until the next level answers.
ArbiterStep(i, d, resp) ==
    state' = CASE state = "IDLE" -> IF d.op # "none" THEN "D_CACHE_ALLOW"
                                    ELSE IF i.op # "none" THEN "I_CACHE_ALLOW" ELSE "IDLE"
               [] state # "IDLE" -> IF resp THEN "IDLE" ELSE state
=============================================================================
