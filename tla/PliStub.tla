------------------------------- MODULE PliStub -------------------------------
(* The stubs _vcs_pli_stub_.c through which the simulation calls the routines of   *)
(* the wave dumper: a stub looks its routine up on its first call, forwards to it   *)
(* or reports that it is missing, and remembers the outcome.  All stubs have this   *)
(* body, but the one of the misc routine reports nothing.  Their static variables   *)
(* are their own, so one stub at a time is modelled, whichever.                     *)
EXTENDS Naturals

VARIABLES routine,      \* the routine that is called, or "none" so far
          exported,     \* external: where the routine is found at present
          initialized,  \* _vcs_pli_stub_initialized_
          fp,           \* _vcs_pli_fp_: whether it is set
          outcome       \* what the last call did

stubVars == <<routine, exported, initialized, fp, outcome>>

DumpStubs == {"fsdbDumpvars", "misc", "fsdbDumpvarsByFile", "fsdbAddRuntimeSignal"}
TransactionStubs ==
    {"sps_create_transaction_stream", "sps_begin_transaction", "sps_end_transaction",
     "sps_free_transaction", "sps_add_attribute"}
AnalysisStubs == {"sps_update_label", "sps_add_relation", "fsdbWhatif", "paa_init", "paa_sync"}
ClassStubs == {"fsdbDumpClassMethod", "fsdbSuppressClassMethod", "fsdbSuppressClassProp",
               "fsdbDumpMDAByFile"}
StreamStubs ==
    {"fsdbEvent_create_stream_begin", "fsdbEvent_add_stream_attribute",
     "fsdbEvent_create_stream_end", "fsdbEvent_begin", "fsdbEvent_set_label",
     "fsdbEvent_add_attribute"}
EventStubs ==
    {"fsdbEvent_add_tag", "fsdbEvent_end", "fsdbEvent_add_relation",
     "fsdbEvent_get_error_code", "fsdbTrans_add_stream_attribute",
     "fsdbTrans_add_scope_attribute"}
OtherStubs ==
    {"sps_interactive", "sps_test", "fsdbDumpClassObject", "fsdbDumpClassObjectByFile",
     "ridbDump"}
FileStubs == {"sps_flush_file", "fsdbDumpSingle", "fsdbDumpIO"}
Stubs == DumpStubs \cup TransactionStubs \cup AnalysisStubs \cup ClassStubs
           \cup StreamStubs \cup EventStubs \cup OtherStubs \cup FileStubs

StubInit ==
    /\ routine = "none"
    /\ exported = [dlsym |-> FALSE, lookup |-> FALSE]
    /\ initialized = FALSE
    /\ fp = FALSE
    /\ outcome = "none"

\* A library that exports the routine is loaded, for dlsym or for the simulator's
\* own lookup.
Load(place) ==
    /\ ~exported[place]
    /\ exported' = [exported EXCEPT ![place] = TRUE]
    /\ UNCHANGED <<routine, initialized, fp, outcome>>

Found == exported.dlsym \/ exported.lookup

\* What fp is when the stub tests it.
Resolved == IF initialized THEN fp ELSE Found

StubCall(r) ==
    /\ routine \in {"none", r}
    /\ routine' = r
    /\ initialized' = TRUE
    /\ fp' = Resolved
    /\ outcome' = IF Resolved THEN "forwarded" ELSE IF r = "misc" THEN "silent" ELSE "reported"
    /\ UNCHANGED exported

StubNext ==
    \/ \E place \in {"dlsym", "lookup"} : Load(place)
    \/ \E r \in Stubs : StubCall(r)
=============================================================================
