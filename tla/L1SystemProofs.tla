--------------------------- MODULE L1SystemProofs ---------------------------
(***************************************************************************)
(* The L1 cache keeps IInv for every number of ways, sets, tags, words and *)
(* bytes; what the runs check on small caches follows from it.             *)
(***************************************************************************)
EXTENDS L1System, TLAPS

\* What is proved of the policy.  None of it depends on the variables of Replacement.
Policy == INSTANCE ReplacementProofs WITH used <- Ways, victims <- <<>>

\* which_replace names a way and load_PLRU yields bits.
LEMMA PolicyTypes ==
    ASSUME NEW b \in Bits
    PROVE  which_replace(b) \in Way /\ \A w \in Way : load_PLRU(b, w) \in Bits
<1>1. /\ Policy!Way = Way /\ Policy!Node = Node /\ Policy!Bits = Bits
      /\ \A w, n : Policy!Under(w, n) <=> Under(w, n)
  BY DEF Policy!Way, Way, Policy!Node, Node, Policy!Bits, Bits,
         Policy!Under, Under, Policy!Half, Half
<1>2. Policy!which_replace(b) = which_replace(b)
  BY <1>1 DEF Policy!which_replace, which_replace
<1>3. \A w : Policy!load_PLRU(b, w) = load_PLRU(b, w)
  BY <1>1 DEF Policy!load_PLRU, load_PLRU
<1>4. Policy!which_replace(b) \in Policy!Way
  BY <1>1, Policy!WhichReplace, WaysAssumption
<1>5. \A w \in Policy!Way : Policy!load_PLRU(b, w) \in Policy!Bits
  BY <1>1, Policy!LoadPLRU, WaysAssumption
<1> QED BY <1>1, <1>2, <1>3, <1>4, <1>5

\* The fields of a request, and the way the control unit would replace for it.
LEMMA RequestFields ==
    ASSUME TypeOK, req.op # "none"
    PROVE  /\ req \in Request
           /\ req.op = "read" \/ req.op = "write"
           /\ req.set \in Index /\ req.tag \in Tag /\ req.word \in Word
           /\ AddrOf(req) = <<req.tag, req.set>> /\ AddrOf(req) \in Addr
           /\ replace_which_way(req) \in Way
<1>1. req \in Request
  BY DEF TypeOK, NoRequest
<1>2. /\ req.op = "read" \/ req.op = "write"
      /\ req.set \in Index /\ req.tag \in Tag /\ req.word \in Word
  BY <1>1 DEF Request, ReadRequest, WriteRequest
<1>3. LRU[req.set] \in Bits
  BY <1>2 DEF TypeOK, CacheTypeOK
<1>4. replace_which_way(req) \in Way
  BY <1>3, PolicyTypes DEF replace_which_way
<1> QED BY <1>1, <1>2, <1>4 DEF AddrOf, Addr

\* Writing enabled bytes into a line gives a line.
LEMMA WriteLineType ==
    ASSUME NEW line \in Line, NEW r \in WriteRequest
    PROVE  WriteLine(line, r) \in Line
<1>1. r.wdata \in [Byte -> Value]
  BY DEF WriteRequest, Data
<1>2. line \in [Word -> [Byte -> Value]]
  BY DEF Line, Data
<1>3. ASSUME NEW w \in Word, NEW b \in Byte
      PROVE  (IF w = r.word /\ b \in r.be THEN r.wdata[b] ELSE line[w][b]) \in Value
  BY <1>1, <1>2
<1> QED BY <1>3 DEF WriteLine, Line, Data

\* The way that answers a hit: the only one that matches.
LEMMA HitWayHits ==
    ASSUME TypeOK, OneWayHits, req.op # "none", hit_check(req)
    PROVE  /\ HitWay(req) \in Way
           /\ Hit(HitWay(req), req)
           /\ \A w \in Way : Hit(w, req) => w = HitWay(req)
<1>1. PICK w \in Way : Hit(w, req)
  BY DEF hit_check
<1>2. \A v \in Way : Hit(v, req) => v = w
  BY <1>1, RequestFields DEF OneWayHits, Hit
<1>3. w \in Int
  BY DEF Way
<1>4. \A v \in Way : Hit(v, req) => w <= v
  BY <1>2, <1>3
<1>5. HitWay(req) \in Way /\ Hit(HitWay(req), req)
  BY <1>1, <1>4 DEF HitWay
<1> QED BY <1>2, <1>5

-----------------------------------------------------------------------------
(* Init and the actions.                                                   *)

\* The reset state.
LEMMA InitIInv == Init => IInv
<1> SUFFICES ASSUME Init PROVE IInv
  OBVIOUS
<1> USE DEF Init, CacheInit
<1>1. [n \in Node |-> FALSE] \in Bits
  BY DEF Bits
<1>2. TypeOK
  BY <1>1, L1Assumption DEF TypeOK, CacheTypeOK, NoRequest
<1>3. OneWayHits /\ DirtyIsValid
  BY DEF OneWayHits, DirtyIsValid
<1>4. MissOpen /\ HeldLinesMatch /\ StaleOnlyIfDirty
  BY DEF MissOpen, HeldLinesMatch, StaleOnlyIfDirty, Holds
<1> QED BY <1>2, <1>3, <1>4 DEF IInv

\* An idle cycle: only the request changes.
LEMMA IssueIInv == IInv /\ Issue => IInv'
<1> SUFFICES ASSUME IInv, Issue PROVE IInv'
  OBVIOUS
<1> USE DEF IInv, Issue, CacheIdle, cacheVars
<1>1. TypeOK'
  BY DEF TypeOK, CacheTypeOK
<1>2. (OneWayHits /\ DirtyIsValid)'
  BY DEF OneWayHits, DirtyIsValid
<1>3. (MissOpen /\ HeldLinesMatch /\ StaleOnlyIfDirty)'
  BY DEF MissOpen, HeldLinesMatch, StaleOnlyIfDirty, Holds, Filling, Evicting
<1> QED BY <1>1, <1>2, <1>3

\* A miss is detected: the victim is chosen and no way matches the request.
LEMMA StartMissIInv == IInv /\ StartMiss => IInv'
<1> SUFFICES ASSUME IInv, StartMiss PROVE IInv'
  OBVIOUS
<1> DEFINE v == replace_which_way(req)
<1> USE DEF IInv, StartMiss, CacheMiss
<1>1. TypeOK'
  BY DEF TypeOK, CacheTypeOK
<1>2. v' = v /\ v \in Way /\ req.set \in Index
  BY RequestFields DEF replace_which_way
<1>3. (OneWayHits /\ DirtyIsValid)'
  BY DEF OneWayHits, DirtyIsValid
<1>4. MissOpen'
  <2>1. \A w \in Way : ~Hit(w, req)'
    BY DEF hit_check, Hit
  <2>2. dirty[req.set][v] => valid[req.set][v]
    BY <1>2 DEF DirtyIsValid
  <2> QED BY <1>2, <2>1, <2>2 DEF MissOpen, dirty_out
<1>5. HeldLinesMatch'
  BY DEF HeldLinesMatch, Filling
<1>6. StaleOnlyIfDirty'
  <2> SUFFICES ASSUME NEW a \in Addr, mem[a] # shadow[a]
               PROVE  \E w \in Way : /\ Holds(a[2], w, a)'
                                     /\ (dirty[a[2]][w] \/ Evicting(a[2], w))'
    BY DEF StaleOnlyIfDirty
  <2>1. PICK w \in Way : /\ valid[a[2]][w] /\ a = <<tag[a[2]][w], a[2]>>
                         /\ dirty[a[2]][w]
    BY DEF StaleOnlyIfDirty, Holds, Evicting
  <2>2. ~Filling(a[2], w)'
    BY <1>2, <2>1 DEF Filling, dirty_out
  <2> QED BY <2>1, <2>2 DEF Holds
<1> QED BY <1>1, <1>3, <1>4, <1>5, <1>6

\* A cycle of the write-back, with or without the response: only the victim's
\* dirty bit goes down.
LEMMA WriteBackKeeps ==
    ASSUME IInv, NEW resp \in BOOLEAN, CacheWriteBack(req, resp), UNCHANGED <<req, shadow>>
    PROVE  /\ CacheTypeOK' /\ OneWayHits' /\ DirtyIsValid' /\ MissOpen' /\ HeldLinesMatch'
           /\ replace_which_way(req)' = replace_which_way(req)
<1> DEFINE v == replace_which_way(req)
<1> USE DEF IInv, CacheWriteBack
<1>1. v' = v /\ v \in Way /\ req.set \in Index /\ req.op # "none"
  BY RequestFields DEF MissOpen, replace_which_way
<1>2. CacheTypeOK'
  BY <1>1 DEF TypeOK, CacheTypeOK
<1>3. dirty'[req.set][v] = FALSE
  BY <1>1 DEF TypeOK, CacheTypeOK
<1>4. (OneWayHits /\ DirtyIsValid)'
  BY <1>1 DEF OneWayHits, DirtyIsValid, TypeOK, CacheTypeOK
<1>5. MissOpen'
  BY <1>1, <1>3 DEF MissOpen, Hit
<1>6. HeldLinesMatch'
  BY DEF HeldLinesMatch, Filling
<1> QED BY <1>1, <1>2, <1>4, <1>5, <1>6

\* A write-back cycle without response: the victim stays the one that is evicted.
LEMMA WriteBackWaitIInv == IInv /\ WriteBackWait => IInv'
<1> SUFFICES ASSUME IInv, WriteBackWait PROVE IInv'
  OBVIOUS
<1> DEFINE v == replace_which_way(req)
<1>1. CacheWriteBack(req, FALSE) /\ UNCHANGED <<req, mem, shadow>>
  BY DEF WriteBackWait
<1>2. /\ CacheTypeOK' /\ OneWayHits' /\ DirtyIsValid' /\ MissOpen' /\ HeldLinesMatch'
      /\ v' = v
  BY <1>1, WriteBackKeeps
<1>3. TypeOK'
  BY <1>1, <1>2 DEF IInv, TypeOK
<1>4. StaleOnlyIfDirty'
  <2> SUFFICES ASSUME NEW a \in Addr, mem[a] # shadow[a]
               PROVE  \E w \in Way : /\ Holds(a[2], w, a)'
                                     /\ (dirty[a[2]][w] \/ Evicting(a[2], w))'
    BY <1>1 DEF StaleOnlyIfDirty
  <2>1. PICK w \in Way : Holds(a[2], w, a) /\ (dirty[a[2]][w] \/ Evicting(a[2], w))
    BY DEF IInv, StaleOnlyIfDirty
  <2>2. Holds(a[2], w, a)'
    BY <1>1, <2>1 DEF Holds, Filling, CacheWriteBack
  <2>3. CASE a[2] = req.set /\ w = v
    BY <1>1, <1>2, <2>2, <2>3 DEF Evicting, CacheWriteBack
  <2>4. CASE ~(a[2] = req.set /\ w = v)
    <3>1. dirty[a[2]][w] /\ a[2] \in Index
      BY <2>1, <2>4 DEF Evicting, Addr
    <3>2. dirty'[a[2]][w]
      BY <1>1, <2>4, <3>1 DEF CacheWriteBack, IInv, TypeOK, CacheTypeOK
    <3> QED BY <2>2, <3>2
  <2> QED BY <2>3, <2>4
<1> QED BY <1>2, <1>3, <1>4 DEF IInv

\* The response to the write-back: the next level is up to date for the victim.
LEMMA WriteBackDoneIInv == IInv /\ WriteBackDone => IInv'
<1> SUFFICES ASSUME IInv, WriteBackDone PROVE IInv'
  OBVIOUS
<1> DEFINE v == replace_which_way(req)
           out == <<tag[req.set][v], req.set>>
<1>1. CacheWriteBack(req, TRUE) /\ UNCHANGED <<req, shadow>>
  BY DEF WriteBackDone
<1>2. /\ CacheTypeOK' /\ OneWayHits' /\ DirtyIsValid' /\ MissOpen' /\ HeldLinesMatch'
      /\ v' = v
  BY <1>1, WriteBackKeeps
<1>3. v \in Way /\ req.set \in Index /\ curr_state = "miss_dirty" /\ valid[req.set][v]
  BY <1>1, RequestFields DEF IInv, MissOpen, CacheWriteBack
<1>4. out \in Addr /\ data[req.set][v] \in Line
  BY <1>3 DEF IInv, TypeOK, CacheTypeOK, Addr
<1>5. mem' = [mem EXCEPT ![out] = data[req.set][v]]
  BY <1>3 DEF WriteBackDone, pmem_address, pmem_wdata
<1>6. TypeOK'
  BY <1>1, <1>2, <1>4, <1>5 DEF IInv, TypeOK
<1>7. mem'[out] = shadow[out]
  BY <1>3, <1>4, <1>5 DEF IInv, TypeOK, HeldLinesMatch, Filling
<1>8. StaleOnlyIfDirty'
  <2> SUFFICES ASSUME NEW a \in Addr, mem'[a] # shadow[a]
               PROVE  \E w \in Way : /\ Holds(a[2], w, a)'
                                     /\ (dirty[a[2]][w] \/ Evicting(a[2], w))'
    BY <1>1 DEF StaleOnlyIfDirty
  <2>1. a # out /\ mem[a] # shadow[a]
    BY <1>4, <1>5, <1>7 DEF IInv, TypeOK
  <2>2. PICK w \in Way : Holds(a[2], w, a) /\ (dirty[a[2]][w] \/ Evicting(a[2], w))
    BY <2>1 DEF IInv, StaleOnlyIfDirty
  <2>3. ~(a[2] = req.set /\ w = v)
    BY <2>1, <2>2 DEF Holds
  <2>4. dirty[a[2]][w] /\ a[2] \in Index
    BY <2>2, <2>3 DEF Evicting, Addr
  <2>5. dirty'[a[2]][w]
    BY <1>1, <2>3, <2>4 DEF CacheWriteBack, IInv, TypeOK, CacheTypeOK
  <2>6. Holds(a[2], w, a)'
    BY <1>1, <1>2, <2>2, <2>3 DEF Holds, Filling, CacheWriteBack
  <2> QED BY <2>5, <2>6
<1> QED BY <1>2, <1>6, <1>8 DEF IInv

\* A cycle of the fill loads the victim with the request's tag and some line.  If
\* the response comes with it, the line has to be the one the processor sees.
LEMMA FillKeeps ==
    ASSUME IInv, NEW resp \in BOOLEAN, NEW line \in Line,
           CacheFill(req, resp, line), UNCHANGED <<req, mem, shadow>>,
           resp => line = shadow[AddrOf(req)]
    PROVE  IInv'
<1> DEFINE v == replace_which_way(req)
<1>1. /\ v \in Way /\ req.set \in Index /\ req.tag \in Tag /\ req.op # "none"
      /\ AddrOf(req) = <<req.tag, req.set>> /\ AddrOf(req) \in Addr
  BY RequestFields DEF IInv, MissOpen, CacheFill
<1>2. /\ curr_state = "miss_clean"
      /\ tag'   = [tag   EXCEPT ![req.set][v] = req.tag]
      /\ valid' = [valid EXCEPT ![req.set][v] = TRUE]
      /\ data'  = [data  EXCEPT ![req.set][v] = line]
      /\ curr_state' = IF resp THEN "hit" ELSE "miss_clean"
      /\ UNCHANGED <<dirty, LRU>>
  BY <1>1 DEF CacheFill
<1>3. TypeOK'
  BY <1>1, <1>2 DEF IInv, TypeOK, CacheTypeOK
<1>4. v' = v
  BY <1>2 DEF replace_which_way
<1>5. \A w \in Way : w # v => ~(valid[req.set][w] /\ tag[req.set][w] = req.tag)
  BY <1>2 DEF IInv, MissOpen, Hit
<1>6. ~dirty[req.set][v]
  BY <1>2 DEF IInv, MissOpen
<1>7. \A s \in Index, w \in Way : ~(s = req.set /\ w = v) =>
         /\ tag'[s][w] = tag[s][w] /\ valid'[s][w] = valid[s][w]
         /\ data'[s][w] = data[s][w]
  BY <1>2 DEF IInv, TypeOK, CacheTypeOK
<1>8. tag'[req.set][v] = req.tag /\ valid'[req.set][v] = TRUE /\ data'[req.set][v] = line
  BY <1>1, <1>2 DEF IInv, TypeOK, CacheTypeOK
<1>9. OneWayHits'
  <2> SUFFICES ASSUME NEW s \in Index, NEW x \in Way, NEW w \in Way,
                      valid'[s][x] /\ valid'[s][w] /\ tag'[s][x] = tag'[s][w], x # w
               PROVE  FALSE
    BY DEF OneWayHits
  <2>1. CASE s = req.set /\ (x = v \/ w = v)
    BY <1>5, <1>7, <1>8, <2>1
  <2>2. CASE ~(s = req.set /\ (x = v \/ w = v))
    BY <1>7, <2>2 DEF IInv, OneWayHits
  <2> QED BY <2>1, <2>2
<1>10. DirtyIsValid'
  BY <1>2, <1>6, <1>7 DEF IInv, DirtyIsValid
<1>11. MissOpen'
  BY <1>1, <1>2, <1>4, <1>5, <1>6, <1>7 DEF MissOpen, Hit
<1>12. HeldLinesMatch'
  <2> SUFFICES ASSUME NEW s \in Index, NEW w \in Way, valid'[s][w], ~Filling(s, w)'
               PROVE  data'[s][w] = shadow[<<tag'[s][w], s>>]
    BY DEF HeldLinesMatch
  <2>1. CASE s = req.set /\ w = v
    BY <1>1, <1>2, <1>4, <1>8, <2>1 DEF Filling
  <2>2. CASE ~(s = req.set /\ w = v)
    BY <1>7, <2>2 DEF IInv, HeldLinesMatch, Filling
  <2> QED BY <2>1, <2>2
<1>13. StaleOnlyIfDirty'
  <2> SUFFICES ASSUME NEW a \in Addr, mem[a] # shadow[a]
               PROVE  \E w \in Way : Holds(a[2], w, a)' /\ dirty'[a[2]][w]
    BY DEF StaleOnlyIfDirty
  <2>1. PICK w \in Way : Holds(a[2], w, a) /\ dirty[a[2]][w]
    BY <1>2 DEF IInv, StaleOnlyIfDirty, Evicting
  <2>2. ~(a[2] = req.set /\ w = v) /\ a[2] \in Index
    BY <1>6, <2>1 DEF Addr
  <2>3. ~Filling(a[2], w)'
    BY <1>4, <2>2 DEF Filling
  <2>4. Holds(a[2], w, a)'
    BY <1>7, <2>1, <2>2, <2>3 DEF Holds
  <2> QED BY <1>2, <2>1, <2>4
<1> QED BY <1>3, <1>9, <1>10, <1>11, <1>12, <1>13 DEF IInv

\* The next level is not stale for the line that is being fetched.
LEMMA FetchedLineIsCurrent ==
    ASSUME IInv, curr_state = "miss_clean"
    PROVE  /\ pmem_address(req) = AddrOf(req)
           /\ mem[AddrOf(req)] \in Line
           /\ mem[AddrOf(req)] = shadow[AddrOf(req)]
<1>1. /\ req.op # "none" /\ AddrOf(req) \in Addr
      /\ AddrOf(req) = <<req.tag, req.set>> /\ AddrOf(req)[2] = req.set
  BY RequestFields DEF IInv, MissOpen
<1>2. ASSUME NEW w \in Way, Holds(req.set, w, AddrOf(req)) PROVE FALSE
  BY <1>1, <1>2 DEF IInv, MissOpen, Holds, Filling, Hit
<1>3. mem[AddrOf(req)] = shadow[AddrOf(req)]
  BY <1>1, <1>2 DEF IInv, StaleOnlyIfDirty
<1> QED BY <1>1, <1>3 DEF pmem_address, IInv, TypeOK

\* A cycle of the fill, with the response or without it.
LEMMA FillIInv == IInv /\ (FillWait \/ FillDone) => IInv'
<1> SUFFICES ASSUME IInv, FillWait \/ FillDone PROVE IInv'
  OBVIOUS
<1>1. CASE FillWait
  BY <1>1, FillKeeps DEF FillWait
<1>2. CASE FillDone
  BY <1>2, FetchedLineIsCurrent, FillKeeps DEF FillDone, CacheFill
<1> QED BY <1>1, <1>2

\* A hit: a write goes to the one way that holds the line and makes it dirty.
LEMMA RespondIInv == IInv /\ Respond => IInv'
<1> SUFFICES ASSUME IInv, Respond PROVE IInv'
  OBVIOUS
<1> DEFINE h == HitWay(req)
           here == AddrOf(req)
<1>1. curr_state = "hit" /\ req.op # "none" /\ hit_check(req)
  BY DEF Respond, CacheHit, mem_resp
<1>2. /\ req.set \in Index /\ req.tag \in Tag /\ here = <<req.tag, req.set>>
      /\ here \in Addr /\ req \in Request
  BY <1>1, RequestFields DEF IInv
<1>3. h \in Way /\ valid[req.set][h] /\ tag[req.set][h] = req.tag
  BY <1>1, HitWayHits DEF IInv, Hit
<1>4. UNCHANGED <<curr_state, tag, valid, mem>> /\ req' \in Request \cup {NoRequest}
  BY DEF Respond, CacheHit
<1>5. LRU' \in [Index -> Bits]
  <2>1. PICK s \in Index : LRU' = [LRU EXCEPT ![req.set] = load_PLRU(LRU[s], h)]
    BY DEF Respond, CacheHit
  <2>2. load_PLRU(LRU[s], h) \in Bits
    BY <1>3, PolicyTypes DEF IInv, TypeOK, CacheTypeOK
  <2> QED BY <1>2, <2>1, <2>2 DEF IInv, TypeOK, CacheTypeOK
<1>6. MissOpen' /\ OneWayHits'
  BY <1>1, <1>4 DEF IInv, MissOpen, OneWayHits
<1>7. CASE req.op = "read"
  <2>1. UNCHANGED <<dirty, data, shadow>>
    BY <1>7 DEF Respond, CacheHit
  <2>2. TypeOK'
    BY <1>4, <1>5, <2>1 DEF IInv, TypeOK, CacheTypeOK
  <2>3. (DirtyIsValid /\ HeldLinesMatch /\ StaleOnlyIfDirty)'
    BY <1>1, <1>4, <2>1
       DEF IInv, DirtyIsValid, HeldLinesMatch, StaleOnlyIfDirty, Holds, Filling, Evicting
  <2> QED BY <1>6, <2>2, <2>3 DEF IInv
<1>8. CASE req.op = "write"
  <2> DEFINE new == WriteLine(data[req.set][h], req)
  <2>1. /\ dirty' = [dirty EXCEPT ![req.set][h] = TRUE]
        /\ data'  = [data EXCEPT ![req.set][h] = new]
        /\ shadow' = [shadow EXCEPT ![here] = WriteLine(shadow[here], req)]
    BY <1>8 DEF Respond, CacheHit
  <2>2. data[req.set][h] = shadow[here] /\ shadow[here] \in Line
    BY <1>1, <1>2, <1>3 DEF IInv, HeldLinesMatch, Filling, TypeOK
  <2>3. new \in Line /\ shadow' = [shadow EXCEPT ![here] = new]
    <3>1. req \in WriteRequest
      BY <1>2, <1>8 DEF Request, ReadRequest
    <3> QED BY <2>1, <2>2, <3>1, WriteLineType
  <2>4. TypeOK'
    BY <1>2, <1>3, <1>4, <1>5, <2>1, <2>3 DEF IInv, TypeOK, CacheTypeOK
  <2>5. DirtyIsValid'
    BY <1>2, <1>3, <1>4, <2>1 DEF IInv, DirtyIsValid, TypeOK, CacheTypeOK
  <2>6. HeldLinesMatch'
    <3> SUFFICES ASSUME NEW s \in Index, NEW w \in Way, valid[s][w]
                 PROVE  data'[s][w] = shadow'[<<tag[s][w], s>>]
      BY <1>4 DEF HeldLinesMatch
    <3>1. <<tag[s][w], s>> \in Addr
      BY DEF IInv, TypeOK, CacheTypeOK, Addr
    <3>2. data[s][w] = shadow[<<tag[s][w], s>>]
      BY <1>1 DEF IInv, HeldLinesMatch, Filling
    <3>3. CASE s = req.set /\ w = h
      BY <1>2, <1>3, <2>1, <2>3, <3>1, <3>3 DEF IInv, TypeOK, CacheTypeOK
    <3>4. CASE s = req.set /\ w # h
      <4>1. tag[s][w] # req.tag
        BY <1>2, <1>3, <3>4 DEF IInv, OneWayHits
      <4> QED BY <1>2, <1>3, <2>1, <2>3, <3>1, <3>2, <3>4, <4>1 DEF IInv, TypeOK, CacheTypeOK
    <3>5. CASE s # req.set
      BY <1>2, <1>3, <2>1, <2>3, <3>1, <3>2, <3>5 DEF IInv, TypeOK, CacheTypeOK
    <3> QED BY <3>3, <3>4, <3>5
  <2>7. StaleOnlyIfDirty'
    <3> SUFFICES ASSUME NEW a \in Addr, mem[a] # shadow'[a]
                 PROVE  \E w \in Way : Holds(a[2], w, a)' /\ dirty'[a[2]][w]
      BY <1>4 DEF StaleOnlyIfDirty
    <3>1. CASE a = here
      <4>1. a[1] = req.tag /\ a[2] = req.set /\ a = <<req.tag, req.set>>
        BY <1>2, <3>1
      <4>2. PICK k \in Way : k = h
        BY <1>3
      <4>3. dirty'[a[2]][k]
        BY <1>2, <1>3, <2>1, <4>1, <4>2 DEF IInv, TypeOK, CacheTypeOK
      <4>4. valid[a[2]][k] /\ a = <<tag[a[2]][k], a[2]>>
        BY <1>3, <4>1, <4>2
      <4>5. Holds(a[2], k, a)'
        BY <1>1, <1>4, <4>4 DEF Holds, Filling
      <4> QED BY <4>3, <4>5
    <3>2. CASE a # here
      <4>1. mem[a] # shadow[a]
        BY <2>3, <3>2 DEF IInv, TypeOK
      <4>2. PICK w \in Way : Holds(a[2], w, a) /\ dirty[a[2]][w]
        BY <1>1, <4>1 DEF IInv, StaleOnlyIfDirty, Evicting
      <4>3. a[2] \in Index
        BY DEF Addr
      <4>4. dirty'[a[2]][w]
        BY <1>2, <1>3, <2>1, <4>2, <4>3 DEF IInv, TypeOK, CacheTypeOK
      <4>5. Holds(a[2], w, a)'
        BY <1>1, <1>4, <4>2 DEF Holds, Filling
      <4> QED BY <4>4, <4>5
    <3> QED BY <3>1, <3>2
  <2> QED BY <1>6, <2>4, <2>5, <2>6, <2>7 DEF IInv
<1> QED BY <1>1, <1>7, <1>8, RequestFields DEF IInv

-----------------------------------------------------------------------------
(* The theorems.                                                           *)

\* Every clock edge keeps the strengthened invariant.
LEMMA NextIInv == IInv /\ [Next]_vars => IInv'
<1> SUFFICES ASSUME IInv, [Next]_vars PROVE IInv'
  OBVIOUS
<1>1. CASE UNCHANGED vars
  <2>1. UNCHANGED <<curr_state, tag, valid, dirty, data, LRU, req, mem, shadow>>
    BY <1>1 DEF vars
  <2>2. TypeOK' /\ OneWayHits' /\ DirtyIsValid'
    BY <2>1 DEF IInv, TypeOK, CacheTypeOK, OneWayHits, DirtyIsValid
  <2>3. MissOpen' /\ HeldLinesMatch' /\ StaleOnlyIfDirty'
    BY <2>1 DEF IInv, MissOpen, HeldLinesMatch, StaleOnlyIfDirty, Holds, Filling,
                Evicting, Hit, replace_which_way
  <2> QED BY <2>2, <2>3 DEF IInv
<1>2. CASE Next
  BY <1>2, IssueIInv, RespondIInv, StartMissIInv, WriteBackWaitIInv,
     WriteBackDoneIInv, FillIInv DEF Next
<1> QED BY <1>1, <1>2

\* IInv is an inductive invariant of the cache, its port and its next level.
THEOREM Inductive == Spec => []IInv
BY InitIInv, NextIInv, PTL DEF Spec

\* The registers and arrays keep their types.
THEOREM TypeCorrect == Spec => []TypeOK
<1>1. IInv => TypeOK
  BY DEF IInv
<1> QED BY <1>1, Inductive, PTL

\* No line is ever in two ways of its set (hit1..hit4 are exclusive).
THEOREM HitsAreExclusive == Spec => []OneWayHits
<1>1. IInv => OneWayHits
  BY DEF IInv
<1> QED BY <1>1, Inductive, PTL

\* No write is lost: the next level is stale only for lines the cache will write
\* back, although the dirty bit is cleared before the write-back is accepted.
THEOREM NoLostWrite == Spec => []StaleOnlyIfDirty
<1>1. IInv => StaleOnlyIfDirty
  BY DEF IInv
<1> QED BY <1>1, Inductive, PTL

\* A read hit returns the word the processor wrote last, for every cache size.
LEMMA ReadIsCurrent == IInv => ReadsMatchShadow
<1> SUFFICES ASSUME IInv, mem_resp(req), req.op = "read"
             PROVE  mem_rdata(req) = ReadWord(shadow[AddrOf(req)], req)
  BY DEF ReadsMatchShadow
<1>1. curr_state = "hit" /\ hit_check(req) /\ req.op # "none"
  BY DEF mem_resp
<1>2. HitWay(req) \in Way /\ Hit(HitWay(req), req)
  BY <1>1, HitWayHits DEF IInv
<1>3. req.set \in Index /\ AddrOf(req) = <<req.tag, req.set>>
  BY <1>1, RequestFields DEF IInv
<1>4. data[req.set][HitWay(req)] = shadow[AddrOf(req)]
  BY <1>1, <1>2, <1>3 DEF IInv, HeldLinesMatch, Filling, Hit
<1> QED BY <1>4 DEF mem_rdata, ReadWord

\* The processor never reads a stale word from the cache.
THEOREM ReadsCorrect == Spec => []ReadsMatchShadow
BY Inductive, ReadIsCurrent, PTL

\* A fill ends in a hit of the request it was made for: a miss costs one fill.
THEOREM OneFillPerMiss == Spec => FillThenHit
<1>1. ASSUME IInv, [Next]_vars, curr_state = "miss_clean", curr_state' = "hit"
      PROVE  mem_resp(req)'
  <2>1. FillWait \/ FillDone
    BY <1>1 DEF Next, vars, Issue, CacheIdle, Respond, CacheHit, mem_resp, StartMiss,
                CacheMiss, WriteBackWait, WriteBackDone, CacheWriteBack
  <2>2. /\ req.op # "none" /\ req' = req
        /\ req.set \in Index /\ replace_which_way(req) \in Way
    BY <1>1, <2>1, RequestFields DEF IInv, MissOpen, FillWait, FillDone
  <2>3. /\ tag'   = [tag   EXCEPT ![req.set][replace_which_way(req)] = req.tag]
        /\ valid' = [valid EXCEPT ![req.set][replace_which_way(req)] = TRUE]
    BY <2>1, <2>2 DEF FillWait, FillDone, CacheFill
  <2>4. /\ tag'[req.set][replace_which_way(req)] = req.tag
        /\ valid'[req.set][replace_which_way(req)]
    BY <1>1, <2>2, <2>3 DEF IInv, TypeOK, CacheTypeOK
  <2>5. hit_check(req)'
    BY <2>2, <2>4 DEF hit_check, Hit
  <2> QED BY <1>1, <2>2, <2>5 DEF mem_resp
<1> QED BY <1>1, Inductive, PTL DEF Spec, FillThenHit

\* What the port shows is the abstract answer, or none.
AnswerOK ==
    /\ PortAnswer.done <=> mem_resp(req)
    /\ ~mem_resp(req) => PortAnswer = Serial!NoAnswer
    /\ mem_resp(req)  => PortAnswer = Serial!Answer(shadow, req)

\* The answer on the port is correct in every state of the invariant.
LEMMA AnswerIsSerial == IInv => AnswerOK
<1> SUFFICES ASSUME IInv PROVE AnswerOK
  OBVIOUS
<1>1. mem_resp(req) /\ req.op = "read" => mem_rdata(req) = ReadWord(shadow[AddrOf(req)], req)
  BY ReadIsCurrent DEF ReadsMatchShadow
<1>2. CASE ~mem_resp(req)
  <2>1. PortAnswer = [done |-> FALSE]
    BY <1>2 DEF PortAnswer
  <2>2. ~PortAnswer.done
    BY <2>1
  <2> QED BY <1>2, <2>1, <2>2 DEF Serial!NoAnswer, AnswerOK
<1>3. CASE mem_resp(req) /\ req.op = "read"
  BY <1>1, <1>3 DEF PortAnswer, Serial!Answer, Serial!ReadWord, Serial!AddrOf, ReadWord,
                    AddrOf, AnswerOK
<1>4. CASE mem_resp(req) /\ req.op # "read"
  BY <1>4 DEF PortAnswer, Serial!Answer, AnswerOK
<1> QED BY <1>2, <1>3, <1>4

\* The operators of the abstract memory are those of the cache.
LEMMA SameOperators ==
    /\ Request = Serial!Request /\ NoRequest = Serial!NoRequest
    /\ [Addr -> Line] = [Serial!Addr -> Serial!Line]
    /\ \A r : AddrOf(r) = Serial!AddrOf(r)
    /\ \A line, r : WriteLine(line, r) = Serial!WriteLine(line, r)
BY DEF Request, Serial!Request, ReadRequest, Serial!ReadRequest, WriteRequest,
       Serial!WriteRequest, NoRequest, Serial!NoRequest, Data, Serial!Data, Addr,
       Serial!Addr, Line, Serial!Line, AddrOf, Serial!AddrOf, WriteLine, Serial!WriteLine

\* A cycle in which the processor moves on is a Submit of the abstract memory.
LEMMA SubmitStep ==
    ASSUME AnswerOK, AnswerOK', Issue \/ Respond
    PROVE  Serial!Submit
<1>1. req' \in Request \cup {NoRequest}
  BY DEF Issue, Respond
<1>2. req.op = "none" \/ mem_resp(req)
  BY DEF Issue, CacheIdle, Respond, CacheHit
<1>3. shadow' = IF mem_resp(req) THEN Serial!Applied(shadow, req) ELSE shadow
  <2>1. CASE Issue
    BY <2>1 DEF Issue, CacheIdle, mem_resp
  <2>2. CASE Respond
    BY <2>2, SameOperators DEF Respond, CacheHit, Serial!Applied
  <2> QED BY <2>1, <2>2
<1>4. mem_resp(req)' => req'.op # "none"
  BY DEF mem_resp
<1>5. PortAnswer' \in {Serial!NoAnswer}
            \cup IF req'.op = "none" THEN {} ELSE {Serial!Answer(shadow', req')}
  BY <1>4 DEF AnswerOK
<1> QED BY <1>1, <1>2, <1>3, <1>5, SameOperators DEF Serial!Submit, AnswerOK

\* The other cycles leave the abstract memory alone, but for the end of a fill.
LEMMA OtherSteps ==
    ASSUME IInv, AnswerOK, AnswerOK', Next, ~Issue, ~Respond
    PROVE  Serial!Serve \/ UNCHANGED Serial!vars
<1>1. /\ req' = req /\ shadow' = shadow /\ req.op # "none"
      /\ ~mem_resp(req)
  BY DEF Next, StartMiss, CacheMiss, WriteBackWait, WriteBackDone, CacheWriteBack,
         FillWait, FillDone, CacheFill, mem_resp, IInv, MissOpen
<1>2. CASE mem_resp(req)'
  BY <1>1, <1>2 DEF AnswerOK, Serial!Serve
<1>3. CASE ~mem_resp(req)'
  BY <1>1, <1>3 DEF AnswerOK, Serial!vars
<1> QED BY <1>2, <1>3

\* The cache with its next level implements the serial memory of the test bench.
THEOREM CacheIsSerialMemory == Spec => SerialSpec
<1>1. Init => Serial!Init
  <2> SUFFICES ASSUME Init PROVE Serial!Init
    OBVIOUS
  <2>1. ~mem_resp(req) /\ AnswerOK
    BY InitIInv, AnswerIsSerial DEF Init, mem_resp, NoRequest
  <2> QED BY <2>1, SameOperators DEF Init, Serial!Init, AnswerOK
<1>2. ASSUME IInv, AnswerOK, AnswerOK', [Next]_vars
      PROVE  [Serial!Next]_(Serial!vars)
  <2>1. CASE UNCHANGED vars
    BY <2>1 DEF vars, Serial!vars, PortAnswer, mem_resp, mem_rdata, hit_check, Hit, HitWay,
                ReadWord
  <2>2. CASE Issue \/ Respond
    BY <1>2, <2>2, SubmitStep DEF Serial!Next
  <2>3. CASE Next /\ ~Issue /\ ~Respond
    BY <1>2, <2>3, OtherSteps DEF Serial!Next
  <2> QED BY <1>2, <2>1, <2>2, <2>3
<1> QED BY <1>1, <1>2, Inductive, AnswerIsSerial, PTL DEF Spec, SerialSpec, Serial!Spec

-----------------------------------------------------------------------------
(* The line port.                                                          *)

\* What the cache shows on its line port in the three states of its control unit.
LEMMA LineRequestForm ==
    ASSUME IInv
    PROVE  /\ curr_state = "hit" => lineRequest = Port!NoWant
           /\ curr_state = "miss_clean" =>
                 /\ lineRequest = [op |-> "read", addr |-> <<req.tag, req.set>>]
                 /\ lineRequest \in Port!Reads
           /\ curr_state = "miss_dirty" =>
                 LET v == replace_which_way(req)
                 IN  /\ lineRequest = [op |-> "write", addr |-> <<tag[req.set][v], req.set>>,
                                       line |-> data[req.set][v]]
                     /\ lineRequest \in Port!Writes
                     /\ tag[req.set][v] # req.tag
<1>1. curr_state = "hit" => lineRequest = Port!NoWant
  BY DEF lineRequest, pmem_read, pmem_write, Port!NoWant
<1>2. ASSUME curr_state = "miss_clean"
      PROVE  /\ lineRequest = [op |-> "read", addr |-> <<req.tag, req.set>>]
             /\ lineRequest \in Port!Reads
  <2>1. <<req.tag, req.set>> \in Port!Addr
    BY <1>2, RequestFields DEF IInv, MissOpen, Port!Addr
  <2>2. lineRequest = [op |-> "read", addr |-> <<req.tag, req.set>>]
    BY <1>2 DEF lineRequest, pmem_read, pmem_address, AddrOf
  <2> QED BY <2>1, <2>2 DEF Port!Reads, Port!ReadOf
<1>3. ASSUME curr_state = "miss_dirty"
      PROVE  LET v == replace_which_way(req)
             IN  /\ lineRequest = [op |-> "write", addr |-> <<tag[req.set][v], req.set>>,
                                   line |-> data[req.set][v]]
                 /\ lineRequest \in Port!Writes
                 /\ tag[req.set][v] # req.tag
  <2> DEFINE v == replace_which_way(req)
  <2>1. req.set \in Index /\ v \in Way
    BY <1>3, RequestFields DEF IInv, MissOpen
  <2>2. tag[req.set][v] # req.tag
    BY <1>3 DEF IInv, MissOpen, Hit
  <2>3. <<tag[req.set][v], req.set>> \in Port!Addr /\ data[req.set][v] \in Port!Line
    BY <2>1 DEF IInv, TypeOK, CacheTypeOK, Port!Addr, Port!Line, Port!Data, Line, Data
  <2>4. lineRequest = [op |-> "write", addr |-> <<tag[req.set][v], req.set>>,
                       line |-> data[req.set][v]]
    BY <1>3 DEF lineRequest, pmem_read, pmem_write, pmem_address, pmem_wdata
  <2>5. lineRequest \in Port!Writes
    BY <2>3, <2>4 DEF Port!Writes, Port!WriteOf
  <2> QED BY <2>2, <2>4, <2>5
<1> QED BY <1>1, <1>2, <1>3

\* The cache's line port is the client the arbiter's model assumes.
THEOREM CacheIsLinePort == Spec => LinePortSpec
<1> DEFINE Form ==
       /\ curr_state = "hit" => lineRequest = Port!NoWant
       /\ curr_state = "miss_clean" =>
             /\ lineRequest = [op |-> "read", addr |-> <<req.tag, req.set>>]
             /\ lineRequest \in Port!Reads
       /\ curr_state = "miss_dirty" =>
             LET v == replace_which_way(req)
             IN  /\ lineRequest = [op |-> "write", addr |-> <<tag[req.set][v], req.set>>,
                                   line |-> data[req.set][v]]
                 /\ lineRequest \in Port!Writes
                 /\ tag[req.set][v] # req.tag
<1>1. IInv => Form
  BY LineRequestForm
<1>2. Init => Port!PortInit
  BY InitIInv, <1>1 DEF Init, CacheInit, Port!PortInit
<1>3. ASSUME IInv, Form, Form', [Next]_vars
      PROVE  [Port!PortNext]_lineRequest
  <2>1. CASE UNCHANGED vars
    BY <2>1 DEF vars, lineRequest, pmem_read, pmem_write, pmem_address, pmem_wdata,
                replace_which_way, AddrOf
  <2>2. CASE Issue \/ Respond
    <3>1. curr_state = "hit" /\ curr_state' = "hit"
      BY <2>2 DEF Issue, CacheIdle, cacheVars, Respond, CacheHit, mem_resp
    <3> QED BY <1>3, <3>1
  <2>3. CASE StartMiss
    <3>1. curr_state = "hit" /\ curr_state' \in {"miss_clean", "miss_dirty"}
      BY <2>3 DEF StartMiss, CacheMiss
    <3>2. lineRequest.op = "none" /\ lineRequest' \in Port!Want
      BY <1>3, <3>1 DEF Port!Want, Port!NoWant
    <3>3. Port!PortStep(FALSE)
      BY <3>2 DEF Port!PortStep
    <3> QED BY <3>3 DEF Port!PortNext
  <2>4. CASE WriteBackWait
    <3>1. /\ curr_state = "miss_dirty" /\ curr_state' = "miss_dirty"
          /\ UNCHANGED <<tag, data, LRU, req>>
      BY <2>4 DEF WriteBackWait, CacheWriteBack
    <3> QED BY <1>3, <3>1 DEF replace_which_way
  <2>5. CASE WriteBackDone
    <3>1. curr_state = "miss_dirty" /\ curr_state' = "miss_clean" /\ UNCHANGED req
      BY <2>5 DEF WriteBackDone, CacheWriteBack
    <3>2. /\ lineRequest.op = "write" /\ lineRequest' \in Port!Reads
          /\ lineRequest'.addr[2] = lineRequest.addr[2]
          /\ lineRequest'.addr # lineRequest.addr
      BY <1>3, <3>1
    <3>3. Port!PortStep(TRUE)
      BY <3>2 DEF Port!PortStep
    <3> QED BY <3>3 DEF Port!PortNext
  <2>6. CASE FillWait
    <3>1. curr_state = "miss_clean" /\ curr_state' = "miss_clean" /\ UNCHANGED req
      BY <2>6 DEF FillWait, CacheFill
    <3> QED BY <1>3, <3>1
  <2>7. CASE FillDone
    <3>1. curr_state = "miss_clean" /\ curr_state' = "hit"
      BY <2>7 DEF FillDone, CacheFill
    <3>2. lineRequest.op = "read" /\ lineRequest' = Port!NoWant
      BY <1>3, <3>1
    <3>3. Port!PortStep(TRUE)
      BY <3>2 DEF Port!PortStep
    <3> QED BY <3>3 DEF Port!PortNext
  <2> QED BY <1>3, <2>1, <2>2, <2>3, <2>4, <2>5, <2>6, <2>7 DEF Next
<1> HIDE DEF Form
<1> QED BY <1>1, <1>2, <1>3, Inductive, PTL DEF Spec, LinePortSpec, Port!PortSpec
=============================================================================
