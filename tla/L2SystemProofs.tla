--------------------------- MODULE L2SystemProofs ---------------------------
(***************************************************************************)
(* The L2 cache keeps IInv for every number of ways, sets, tags, words and *)
(* bytes.  It follows that the cache is transparent to the level above and *)
(* a disciplined client of the level below.                                *)
(***************************************************************************)
EXTENDS L2System, TLAPS

\* What is proved of the policy.  None of it depends on the variables of Replacement.
Policy == INSTANCE ReplacementProofs WITH used <- Ways, victims <- <<>>

\* which_replace names a way and load_PLRU yields bits.
LEMMA PolicyTypes ==
    ASSUME NEW b \in Bits
    PROVE  which_replace(b) \in Way /\ \A w \in Way : load_PLRU(b, w) \in Bits
<1>1. /\ Policy!Way = Way /\ Policy!Node = Node /\ Policy!Bits = Bits
      /\ \A w, n : Policy!Under(w, n) <=> Under(w, n)
  BY DEF Policy!Way, Way, Policy!Node, Node, Policy!Bits, Bits,
         Policy!Under, Under, Policy!Half, Half
<1>2. Policy!which_replace(b) = which_replace(b)
  BY <1>1 DEF Policy!which_replace, which_replace
<1>3. \A w : Policy!load_PLRU(b, w) = load_PLRU(b, w)
  BY <1>1 DEF Policy!load_PLRU, load_PLRU
<1>4. Policy!which_replace(b) \in Policy!Way
  BY <1>1, Policy!WhichReplace, WaysAssumption
<1>5. \A w \in Policy!Way : Policy!load_PLRU(b, w) \in Policy!Bits
  BY <1>1, Policy!LoadPLRU, WaysAssumption
<1> QED BY <1>1, <1>2, <1>3, <1>4, <1>5

\* The requests of the client are those of this module's addresses and lines.
LEMMA Wants ==
    ASSUME NEW w \in Upper!Want
    PROVE  /\ w.op \in {"none", "read", "write"}
           /\ w.op # "none" => w.addr \in Addr /\ Set(w) \in Index /\ w.addr[1] \in Tag
                               /\ w.addr = <<w.addr[1], Set(w)>>
           /\ w.op = "write" => w.line \in Line
<1> USE DEF Upper!Addr, Upper!Line, Upper!Data, Addr, Line, Data, Set
<1>1. CASE w = Upper!NoWant
  BY <1>1 DEF Upper!NoWant
<1>2. CASE w \in Upper!Reads
  BY <1>2 DEF Upper!Reads, Upper!ReadOf
<1>3. CASE w \in Upper!Writes
  BY <1>3 DEF Upper!Writes, Upper!WriteOf
<1> QED BY <1>1, <1>2, <1>3 DEF Upper!Want

\* The request in progress and the way the control unit would replace for it.
LEMMA InProgress ==
    ASSUME TypeOK, OutputsAreCurrent, curr_state # "stall"
    PROVE  /\ want.op \in {"read", "write"} /\ ridx = Set(want)
           /\ ridx \in Index /\ want.addr[1] \in Tag
           /\ want.addr = <<want.addr[1], ridx>> /\ want.addr \in Addr
           /\ want.op = "write" => want.line \in Line
           /\ replace_which_way \in Way
<1>1. want.op # "none" /\ ridx = Set(want)
  BY DEF OutputsAreCurrent
<1>2. LRU[ridx] \in Bits
  BY DEF TypeOK, CacheTypeOK
<1> QED BY <1>1, <1>2, Wants, PolicyTypes DEF TypeOK, replace_which_way

\* The way that answers a hit: the only one that matches.
LEMMA HitWayHits ==
    ASSUME TypeOK, OneWayHits, hit_check(want)
    PROVE  /\ HitWay(want) \in Way
           /\ Hit(HitWay(want), want)
           /\ \A u \in Way : Hit(u, want) => u = HitWay(want)
<1>1. PICK u \in Way : Hit(u, want)
  BY DEF hit_check
<1>2. \A v \in Way : Hit(v, want) => v = u
  BY <1>1 DEF OneWayHits, Hit, TypeOK, CacheTypeOK
<1>3. u \in Int
  BY DEF Way
<1>4. \A v \in Way : Hit(v, want) => u <= v
  BY <1>2, <1>3
<1>5. HitWay(want) \in Way /\ Hit(HitWay(want), want)
  BY <1>1, <1>4 DEF HitWay
<1> QED BY <1>2, <1>5

\* A request that is not answered stands.
LEMMA Held ==
    ASSUME TypeOK, NEW resp \in BOOLEAN, Upper!HoldStep(resp)
    PROVE  /\ want' \in Upper!Want
           /\ want.op # "none" /\ ~resp => want' = want
BY DEF Upper!HoldStep, TypeOK

-----------------------------------------------------------------------------
(* Init and the actions.                                                   *)

\* The reset state.
LEMMA InitIInv == Init => IInv
<1> SUFFICES ASSUME Init PROVE IInv
  OBVIOUS
<1> USE DEF Init, CacheInit
<1>1. [n \in Node |-> FALSE] \in Bits
  BY DEF Bits
<1>2. TypeOK
  BY <1>1, L2Assumption DEF TypeOK, CacheTypeOK, Upper!PortInit, Upper!Want
<1>3. OutputsAreCurrent /\ OneWayHits /\ DirtyIsValid
  BY DEF OutputsAreCurrent, OneWayHits, DirtyIsValid
<1>4. MissOpen /\ HeldLinesMatch /\ StaleOnlyIfDirty
  BY DEF MissOpen, HeldLinesMatch, StaleOnlyIfDirty, Holds
<1> QED BY <1>2, <1>3, <1>4 DEF IInv

\* The stall cycle: the index of the request goes to the arrays.
LEMMA LookupIInv == IInv /\ Lookup => IInv'
<1> SUFFICES ASSUME IInv, Lookup PROVE IInv'
  OBVIOUS
<1> USE DEF IInv, Lookup, CacheStall
<1>1. want' \in Upper!Want /\ (want.op # "none" => want' = want)
  BY Held
<1>2. want.op # "none" => Set(want) \in Index
  BY Wants DEF TypeOK
<1>3. TypeOK'
  BY <1>1, <1>2 DEF TypeOK, CacheTypeOK
<1>4. OutputsAreCurrent'
  BY <1>1 DEF OutputsAreCurrent
<1>5. (OneWayHits /\ DirtyIsValid)'
  BY DEF OneWayHits, DirtyIsValid
<1>6. MissOpen' /\ (HeldLinesMatch /\ StaleOnlyIfDirty)'
  BY DEF MissOpen, HeldLinesMatch, StaleOnlyIfDirty, Holds, Filling, Evicting
<1> QED BY <1>3, <1>4, <1>5, <1>6

\* A miss is detected: the victim is chosen and no way matches the request.
LEMMA StartMissIInv == IInv /\ StartMiss => IInv'
<1> SUFFICES ASSUME IInv, StartMiss PROVE IInv'
  OBVIOUS
<1> DEFINE v == replace_which_way
<1> USE DEF IInv, StartMiss, CacheMiss
<1>1. /\ v \in Way /\ ridx \in Index /\ ridx = Set(want) /\ want.op # "none"
  BY InProgress
<1>2. want' = want /\ ridx' = ridx /\ v' = v
  BY <1>1, Held DEF replace_which_way
<1>3. TypeOK'
  BY <1>2 DEF TypeOK, CacheTypeOK
<1>4. (OutputsAreCurrent /\ OneWayHits /\ DirtyIsValid)'
  BY <1>1, <1>2 DEF OutputsAreCurrent, OneWayHits, DirtyIsValid, Set
<1>5. MissOpen'
  <2>1. \A u \in Way : ~Hit(u, want)'
    BY <1>2 DEF hit_check, Hit
  <2>2. dirty[ridx][v] => valid[ridx][v]
    BY <1>1 DEF DirtyIsValid
  <2> QED BY <1>1, <1>2, <2>1, <2>2 DEF MissOpen, dirty_out
<1>6. HeldLinesMatch'
  BY DEF HeldLinesMatch, Filling
<1>7. StaleOnlyIfDirty'
  <2> SUFFICES ASSUME NEW a \in Addr, mem[a] # shadow[a]
               PROVE  \E u \in Way : /\ Holds(a[2], u, a)'
                                     /\ (dirty[a[2]][u] \/ Evicting(a[2], u))'
    BY DEF StaleOnlyIfDirty
  <2>1. PICK u \in Way : /\ valid[a[2]][u] /\ a = <<tag[a[2]][u], a[2]>>
                         /\ dirty[a[2]][u]
    BY DEF StaleOnlyIfDirty, Holds, Evicting
  <2>2. ~Filling(a[2], u)'
    BY <1>1, <1>2, <2>1 DEF Filling, dirty_out
  <2> QED BY <2>1, <2>2 DEF Holds
<1> QED BY <1>3, <1>4, <1>5, <1>6, <1>7

\* A cycle of the write-back, with or without the response: only the victim's
\* dirty bit goes down.
LEMMA WriteBackKeeps ==
    ASSUME IInv, NEW resp \in BOOLEAN, CacheWriteBack(want, resp), Upper!HoldStep(FALSE),
           UNCHANGED shadow
    PROVE  /\ CacheTypeOK' /\ OutputsAreCurrent' /\ OneWayHits' /\ DirtyIsValid' /\ MissOpen'
           /\ HeldLinesMatch'
           /\ want' = want /\ ridx' = ridx /\ replace_which_way' = replace_which_way
<1> DEFINE v == replace_which_way
<1> USE DEF IInv, CacheWriteBack
<1>1. v \in Way /\ ridx \in Index /\ ridx = Set(want) /\ want.op # "none"
  BY InProgress
<1>2. want' = want /\ ridx' = ridx /\ v' = v
  BY <1>1, Held DEF replace_which_way
<1>3. CacheTypeOK'
  BY <1>1 DEF TypeOK, CacheTypeOK
<1>4. dirty'[ridx][v] = FALSE
  BY <1>1 DEF TypeOK, CacheTypeOK
<1>5. (OutputsAreCurrent /\ OneWayHits /\ DirtyIsValid)'
  BY <1>1, <1>2 DEF OutputsAreCurrent, OneWayHits, DirtyIsValid, TypeOK, CacheTypeOK, Set
<1>6. MissOpen'
  BY <1>1, <1>2, <1>4 DEF MissOpen, Hit
<1>7. HeldLinesMatch'
  BY DEF HeldLinesMatch, Filling
<1> QED BY <1>2, <1>3, <1>5, <1>6, <1>7

\* A write-back cycle without response: the victim stays the one that is evicted.
LEMMA WriteBackWaitIInv == IInv /\ WriteBackWait => IInv'
<1> SUFFICES ASSUME IInv, WriteBackWait PROVE IInv'
  OBVIOUS
<1> DEFINE v == replace_which_way
<1>1. CacheWriteBack(want, FALSE) /\ Upper!HoldStep(FALSE) /\ UNCHANGED <<mem, shadow>>
  BY DEF WriteBackWait
<1>2. /\ CacheTypeOK' /\ OutputsAreCurrent' /\ OneWayHits' /\ DirtyIsValid' /\ MissOpen'
      /\ HeldLinesMatch' /\ want' = want /\ ridx' = ridx /\ v' = v
  BY <1>1, WriteBackKeeps
<1>3. TypeOK'
  BY <1>1, <1>2 DEF IInv, TypeOK
<1>4. ridx = Set(want)
  BY <1>1 DEF IInv, OutputsAreCurrent, CacheWriteBack
<1>5. StaleOnlyIfDirty'
  <2> SUFFICES ASSUME NEW a \in Addr, mem[a] # shadow[a]
               PROVE  \E u \in Way : /\ Holds(a[2], u, a)'
                                     /\ (dirty[a[2]][u] \/ Evicting(a[2], u))'
    BY <1>1 DEF StaleOnlyIfDirty
  <2>1. PICK u \in Way : Holds(a[2], u, a) /\ (dirty[a[2]][u] \/ Evicting(a[2], u))
    BY DEF IInv, StaleOnlyIfDirty
  <2>2. Holds(a[2], u, a)'
    BY <1>1, <2>1 DEF Holds, Filling, CacheWriteBack
  <2>3. CASE a[2] = ridx /\ u = v
    BY <1>1, <1>2, <1>4, <2>2, <2>3 DEF Evicting, CacheWriteBack
  <2>4. CASE ~(a[2] = ridx /\ u = v)
    <3>1. dirty[a[2]][u] /\ a[2] \in Index
      BY <1>4, <2>1, <2>4 DEF Evicting, Addr
    <3>2. dirty'[a[2]][u]
      BY <1>1, <1>4, <2>4, <3>1 DEF CacheWriteBack, IInv, TypeOK, CacheTypeOK
    <3> QED BY <2>2, <3>2
  <2> QED BY <2>3, <2>4
<1> QED BY <1>2, <1>3, <1>5 DEF IInv

\* The response to the write-back: the next level is up to date for the victim.
LEMMA WriteBackDoneIInv == IInv /\ WriteBackDone => IInv'
<1> SUFFICES ASSUME IInv, WriteBackDone PROVE IInv'
  OBVIOUS
<1> DEFINE v == replace_which_way
           out == <<tag[ridx][v], ridx>>
<1>1. CacheWriteBack(want, TRUE) /\ Upper!HoldStep(FALSE) /\ UNCHANGED shadow
  BY DEF WriteBackDone
<1>2. /\ CacheTypeOK' /\ OutputsAreCurrent' /\ OneWayHits' /\ DirtyIsValid' /\ MissOpen'
      /\ HeldLinesMatch' /\ want' = want /\ ridx' = ridx /\ v' = v
  BY <1>1, WriteBackKeeps
<1>3. /\ v \in Way /\ ridx \in Index /\ ridx = Set(want)
      /\ curr_state = "miss_dirty" /\ valid[ridx][v]
  BY <1>1, InProgress DEF IInv, MissOpen, CacheWriteBack
<1>4. out \in Addr /\ data[ridx][v] \in Line
  BY <1>3 DEF IInv, TypeOK, CacheTypeOK, Addr
<1>5. mem' = [mem EXCEPT ![out] = data[ridx][v]]
  BY <1>3 DEF WriteBackDone, pmem_address, pmem_wdata, pmem_write
<1>6. TypeOK'
  BY <1>1, <1>2, <1>4, <1>5 DEF IInv, TypeOK
<1>7. mem'[out] = shadow[out]
  BY <1>3, <1>4, <1>5 DEF IInv, TypeOK, HeldLinesMatch, Filling
<1>8. StaleOnlyIfDirty'
  <2> SUFFICES ASSUME NEW a \in Addr, mem'[a] # shadow[a]
               PROVE  \E u \in Way : /\ Holds(a[2], u, a)'
                                     /\ (dirty[a[2]][u] \/ Evicting(a[2], u))'
    BY <1>1 DEF StaleOnlyIfDirty
  <2>1. a # out /\ mem[a] # shadow[a]
    BY <1>4, <1>5, <1>7 DEF IInv, TypeOK
  <2>2. PICK u \in Way : Holds(a[2], u, a) /\ (dirty[a[2]][u] \/ Evicting(a[2], u))
    BY <2>1 DEF IInv, StaleOnlyIfDirty
  <2>3. ~(a[2] = ridx /\ u = v)
    BY <2>1, <2>2 DEF Holds
  <2>4. dirty[a[2]][u] /\ a[2] \in Index
    BY <1>3, <2>2, <2>3 DEF Evicting, Addr
  <2>5. dirty'[a[2]][u]
    BY <1>1, <1>3, <2>3, <2>4 DEF CacheWriteBack, IInv, TypeOK, CacheTypeOK
  <2>6. Holds(a[2], u, a)'
    BY <1>1, <1>2, <1>3, <2>2, <2>3 DEF Holds, Filling, CacheWriteBack
  <2> QED BY <2>5, <2>6
<1> QED BY <1>2, <1>6, <1>8 DEF IInv

\* A cycle of the fill loads the victim with the request's tag and some line.  If
\* the response comes with it, the line has to be the one the client sees.
LEMMA FillKeeps ==
    ASSUME IInv, NEW resp \in BOOLEAN, NEW line \in Line,
           CacheFill(want, resp, line), Upper!HoldStep(FALSE), UNCHANGED <<mem, shadow>>,
           resp => line = shadow[want.addr]
    PROVE  IInv'
<1> DEFINE v == replace_which_way
           t == want.addr[1]
<1>1. /\ v \in Way /\ ridx \in Index /\ ridx = Set(want) /\ t \in Tag
      /\ want.op # "none" /\ want.addr = <<t, ridx>> /\ want.addr \in Addr
  BY InProgress DEF IInv, CacheFill
<1>2. /\ curr_state = "miss_clean"
      /\ tag'   = [tag   EXCEPT ![ridx][v] = t]
      /\ valid' = [valid EXCEPT ![ridx][v] = TRUE]
      /\ data'  = [data  EXCEPT ![ridx][v] = line]
      /\ curr_state' = IF resp THEN "hit" ELSE "miss_clean"
      /\ ridx' = ridx
      /\ UNCHANGED <<dirty, LRU>>
  BY <1>1 DEF CacheFill
<1>3. want' = want /\ v' = v
  BY <1>1, <1>2, Held DEF IInv, replace_which_way
<1>4. TypeOK'
  BY <1>1, <1>2, <1>3 DEF IInv, TypeOK, CacheTypeOK
<1>5. \A u \in Way : u # v => ~(valid[ridx][u] /\ tag[ridx][u] = t)
  BY <1>2 DEF IInv, MissOpen, Hit
<1>6. ~dirty[ridx][v]
  BY <1>2 DEF IInv, MissOpen
<1>7. \A s \in Index, u \in Way : ~(s = ridx /\ u = v) =>
         /\ tag'[s][u] = tag[s][u] /\ valid'[s][u] = valid[s][u]
         /\ data'[s][u] = data[s][u]
  BY <1>2 DEF IInv, TypeOK, CacheTypeOK
<1>8. tag'[ridx][v] = t /\ valid'[ridx][v] = TRUE /\ data'[ridx][v] = line
  BY <1>1, <1>2 DEF IInv, TypeOK, CacheTypeOK
<1>9. OneWayHits'
  <2> SUFFICES ASSUME NEW s \in Index, NEW x \in Way, NEW u \in Way,
                      valid'[s][x] /\ valid'[s][u] /\ tag'[s][x] = tag'[s][u], x # u
               PROVE  FALSE
    BY DEF OneWayHits
  <2>1. CASE s = ridx /\ (x = v \/ u = v)
    BY <1>5, <1>7, <1>8, <2>1
  <2>2. CASE ~(s = ridx /\ (x = v \/ u = v))
    BY <1>7, <2>2 DEF IInv, OneWayHits
  <2> QED BY <2>1, <2>2
<1>10. DirtyIsValid'
  BY <1>2, <1>6, <1>7 DEF IInv, DirtyIsValid
<1>11. MissOpen'
  BY <1>1, <1>2, <1>3, <1>5, <1>6, <1>7 DEF MissOpen, Hit
<1>12. HeldLinesMatch'
  <2> SUFFICES ASSUME NEW s \in Index, NEW u \in Way, valid'[s][u], ~Filling(s, u)'
               PROVE  data'[s][u] = shadow[<<tag'[s][u], s>>]
    BY DEF HeldLinesMatch
  <2>1. CASE s = ridx /\ u = v
    BY <1>1, <1>2, <1>3, <1>8, <2>1 DEF Filling
  <2>2. CASE ~(s = ridx /\ u = v)
    BY <1>1, <1>7, <2>2 DEF IInv, HeldLinesMatch, Filling
  <2> QED BY <2>1, <2>2
<1>13. StaleOnlyIfDirty'
  <2> SUFFICES ASSUME NEW a \in Addr, mem[a] # shadow[a]
               PROVE  \E u \in Way : Holds(a[2], u, a)' /\ dirty'[a[2]][u]
    BY DEF StaleOnlyIfDirty
  <2>1. PICK u \in Way : Holds(a[2], u, a) /\ dirty[a[2]][u]
    BY <1>2 DEF IInv, StaleOnlyIfDirty, Evicting
  <2>2. ~(a[2] = ridx /\ u = v) /\ a[2] \in Index
    BY <1>6, <2>1 DEF Addr
  <2>3. ~Filling(a[2], u)'
    BY <1>1, <1>3, <2>2 DEF Filling
  <2>4. Holds(a[2], u, a)'
    BY <1>7, <2>1, <2>2, <2>3 DEF Holds
  <2> QED BY <1>2, <2>1, <2>4
<1>14. OutputsAreCurrent'
  BY <1>1, <1>2, <1>3 DEF OutputsAreCurrent
<1> QED BY <1>4, <1>9, <1>10, <1>11, <1>12, <1>13, <1>14 DEF IInv

\* The next level is not stale for the line that is being fetched.
LEMMA FetchedLineIsCurrent ==
    ASSUME IInv, curr_state = "miss_clean"
    PROVE  /\ pmem_address(want) = want.addr
           /\ mem[want.addr] \in Line
           /\ mem[want.addr] = shadow[want.addr]
<1>1. /\ want.addr \in Addr /\ want.addr = <<want.addr[1], ridx>> /\ want.addr[2] = ridx
      /\ ridx = Set(want)
  BY InProgress DEF IInv
<1>2. ASSUME NEW u \in Way, Holds(ridx, u, want.addr) PROVE FALSE
  BY <1>1, <1>2 DEF IInv, MissOpen, Holds, Filling, Hit
<1>3. mem[want.addr] = shadow[want.addr]
  BY <1>1, <1>2 DEF IInv, StaleOnlyIfDirty
<1> QED BY <1>1, <1>3 DEF pmem_address, pmem_write, IInv, TypeOK

\* A cycle of the fill, with the response or without it.
LEMMA FillIInv == IInv /\ (FillWait \/ FillDone) => IInv'
<1> SUFFICES ASSUME IInv, FillWait \/ FillDone PROVE IInv'
  OBVIOUS
<1>1. CASE FillWait
  BY <1>1, FillKeeps DEF FillWait
<1>2. CASE FillDone
  BY <1>2, FetchedLineIsCurrent, FillKeeps DEF FillDone, CacheFill
<1> QED BY <1>1, <1>2

\* A hit: a write goes to the one way that holds the line and makes it dirty.
LEMMA RespondIInv == IInv /\ Respond => IInv'
<1> SUFFICES ASSUME IInv, Respond PROVE IInv'
  OBVIOUS
<1> DEFINE h == HitWay(want)
           t == want.addr[1]
           here == want.addr
<1>1. curr_state = "hit" /\ hit_check(want) /\ curr_state' = "stall" /\ ridx' = Set(want)
  BY DEF Respond, CacheHit, done
<1>2. /\ ridx \in Index /\ ridx = Set(want) /\ t \in Tag /\ here = <<t, ridx>>
      /\ here \in Addr /\ want.op \in {"read", "write"}
      /\ want.op = "write" => want.line \in Line
  BY <1>1, InProgress DEF IInv
<1>3. h \in Way /\ valid[ridx][h] /\ tag[ridx][h] = t
  BY <1>1, HitWayHits DEF IInv, Hit
<1>4. UNCHANGED <<tag, valid, mem>> /\ want' \in Upper!Want
  BY Held DEF Respond, CacheHit, IInv
<1>5. LRU' \in [Index -> Bits]
  <2>1. LRU' = [LRU EXCEPT ![ridx] = load_PLRU(LRU[ridx], h)]
    BY <1>2 DEF Respond, CacheHit
  <2>2. load_PLRU(LRU[ridx], h) \in Bits
    BY <1>3, PolicyTypes DEF IInv, TypeOK, CacheTypeOK
  <2> QED BY <1>2, <2>1, <2>2 DEF IInv, TypeOK, CacheTypeOK
<1>6. MissOpen' /\ OneWayHits' /\ OutputsAreCurrent'
  BY <1>1, <1>4 DEF IInv, MissOpen, OneWayHits, OutputsAreCurrent
<1>7. CASE want.op = "read"
  <2>1. UNCHANGED <<dirty, data, shadow>>
    BY <1>7 DEF Respond, CacheHit
  <2>2. TypeOK'
    BY <1>1, <1>2, <1>4, <1>5, <2>1 DEF IInv, TypeOK, CacheTypeOK
  <2>3. (DirtyIsValid /\ HeldLinesMatch /\ StaleOnlyIfDirty)'
    BY <1>1, <1>4, <2>1
       DEF IInv, DirtyIsValid, HeldLinesMatch, StaleOnlyIfDirty, Holds, Filling, Evicting
  <2> QED BY <1>6, <2>2, <2>3 DEF IInv
<1>8. CASE want.op = "write"
  <2>1. /\ dirty' = [dirty EXCEPT ![ridx][h] = TRUE]
        /\ data'  = [data EXCEPT ![ridx][h] = want.line]
        /\ shadow' = [shadow EXCEPT ![here] = want.line]
        /\ want.line \in Line
    BY <1>2, <1>8 DEF Respond, CacheHit
  <2>2. TypeOK'
    BY <1>1, <1>2, <1>3, <1>4, <1>5, <2>1 DEF IInv, TypeOK, CacheTypeOK
  <2>3. DirtyIsValid'
    BY <1>2, <1>3, <1>4, <2>1 DEF IInv, DirtyIsValid, TypeOK, CacheTypeOK
  <2>4. HeldLinesMatch'
    <3> SUFFICES ASSUME NEW s \in Index, NEW u \in Way, valid[s][u]
                 PROVE  data'[s][u] = shadow'[<<tag[s][u], s>>]
      BY <1>4 DEF HeldLinesMatch
    <3>1. <<tag[s][u], s>> \in Addr
      BY DEF IInv, TypeOK, CacheTypeOK, Addr
    <3>2. data[s][u] = shadow[<<tag[s][u], s>>]
      BY <1>1 DEF IInv, HeldLinesMatch, Filling
    <3>3. CASE s = ridx /\ u = h
      BY <1>2, <1>3, <2>1, <3>1, <3>3 DEF IInv, TypeOK, CacheTypeOK
    <3>4. CASE s = ridx /\ u # h
      <4>1. tag[s][u] # t
        BY <1>2, <1>3, <3>4 DEF IInv, OneWayHits
      <4> QED BY <1>2, <1>3, <2>1, <3>1, <3>2, <3>4, <4>1 DEF IInv, TypeOK, CacheTypeOK
    <3>5. CASE s # ridx
      BY <1>2, <1>3, <2>1, <3>1, <3>2, <3>5 DEF IInv, TypeOK, CacheTypeOK
    <3> QED BY <3>3, <3>4, <3>5
  <2>5. StaleOnlyIfDirty'
    <3> SUFFICES ASSUME NEW a \in Addr, mem[a] # shadow'[a]
                 PROVE  \E u \in Way : Holds(a[2], u, a)' /\ dirty'[a[2]][u]
      BY <1>4 DEF StaleOnlyIfDirty
    <3>1. CASE a = here
      <4>1. a[1] = t /\ a[2] = ridx /\ a = <<t, ridx>>
        BY <1>2, <3>1
      <4>2. PICK k \in Way : k = h
        BY <1>3
      <4>3. dirty'[a[2]][k]
        BY <1>2, <1>3, <2>1, <4>1, <4>2 DEF IInv, TypeOK, CacheTypeOK
      <4>4. valid[a[2]][k] /\ a = <<tag[a[2]][k], a[2]>>
        BY <1>3, <4>1, <4>2
      <4>5. Holds(a[2], k, a)'
        BY <1>1, <1>4, <4>4 DEF Holds, Filling
      <4> QED BY <4>3, <4>5
    <3>2. CASE a # here
      <4>1. mem[a] # shadow[a]
        BY <2>1, <3>2 DEF IInv, TypeOK
      <4>2. PICK u \in Way : Holds(a[2], u, a) /\ dirty[a[2]][u]
        BY <1>1, <4>1 DEF IInv, StaleOnlyIfDirty, Evicting
      <4>3. a[2] \in Index
        BY DEF Addr
      <4>4. dirty'[a[2]][u]
        BY <1>2, <1>3, <2>1, <4>2, <4>3 DEF IInv, TypeOK, CacheTypeOK
      <4>5. Holds(a[2], u, a)'
        BY <1>1, <1>4, <4>2 DEF Holds, Filling
      <4> QED BY <4>4, <4>5
    <3> QED BY <3>1, <3>2
  <2> QED BY <1>6, <2>2, <2>3, <2>4, <2>5 DEF IInv
<1> QED BY <1>2, <1>7, <1>8

\* A cycle in which nothing happens.
LEMMA StutterIInv == IInv /\ UNCHANGED vars => IInv'
<1> SUFFICES ASSUME IInv, UNCHANGED vars PROVE IInv'
  OBVIOUS
<1>1. UNCHANGED <<curr_state, tag, valid, dirty, data, LRU, ridx, want, mem, shadow>>
  BY DEF vars
<1>2. TypeOK' /\ OutputsAreCurrent' /\ OneWayHits' /\ DirtyIsValid'
  BY <1>1 DEF IInv, TypeOK, CacheTypeOK, OutputsAreCurrent, OneWayHits, DirtyIsValid
<1>3. MissOpen' /\ HeldLinesMatch' /\ StaleOnlyIfDirty'
  BY <1>1 DEF IInv, MissOpen, HeldLinesMatch, StaleOnlyIfDirty, Holds, Filling,
              Evicting, Hit, replace_which_way
<1> QED BY <1>2, <1>3 DEF IInv

-----------------------------------------------------------------------------
(* The theorems.                                                           *)

\* IInv is an inductive invariant of the L2 cache, its client and its next level.
THEOREM Inductive == Spec => []IInv
<1>1. IInv /\ [Next]_vars => IInv'
  BY LookupIInv, RespondIInv, StartMissIInv, WriteBackWaitIInv, WriteBackDoneIInv,
     FillIInv, StutterIInv DEF Next
<1> QED BY <1>1, InitIInv, PTL DEF Spec

\* The registers and arrays keep their types.
THEOREM TypeCorrect == Spec => []TypeOK
<1>1. IInv => TypeOK
  BY DEF IInv
<1> QED BY <1>1, Inductive, PTL

\* Although the arrays answer a clock late, what the cache compares, answers and
\* writes back is always of the set of the request.
THEOREM NoStaleSet == Spec => []OutputsAreCurrent
<1>1. IInv => OutputsAreCurrent
  BY DEF IInv
<1> QED BY <1>1, Inductive, PTL

\* No line is ever in two ways of its set (hit1..hit8 are exclusive).
THEOREM HitsAreExclusive == Spec => []OneWayHits
<1>1. IInv => OneWayHits
  BY DEF IInv
<1> QED BY <1>1, Inductive, PTL

\* No line is lost in an eviction: the next level is stale only for lines the cache
\* will write back.
THEOREM NoLostLine == Spec => []StaleOnlyIfDirty
<1>1. IInv => StaleOnlyIfDirty
  BY DEF IInv
<1> QED BY <1>1, Inductive, PTL

-----------------------------------------------------------------------------
(* The port below.                                                         *)

\* What the cache shows to the next level in the states of its control unit.
PortForm ==
    /\ curr_state \in {"stall", "hit"} => lineRequest = Lower!NoWant
    /\ curr_state = "miss_clean" =>
          /\ lineRequest = [op |-> "read", addr |-> want.addr]
          /\ want.addr = <<want.addr[1], ridx>>
          /\ lineRequest \in Lower!Reads
    /\ curr_state = "miss_dirty" =>
          LET v == replace_which_way
          IN  /\ lineRequest = [op |-> "write", addr |-> <<tag[ridx][v], ridx>>,
                                line |-> data[ridx][v]]
              /\ want.addr = <<want.addr[1], ridx>>
              /\ lineRequest \in Lower!Writes
              /\ tag[ridx][v] # want.addr[1]

\* The request has that form in every state of the invariant.
LEMMA LineRequestForm == IInv => PortForm
<1> SUFFICES ASSUME IInv PROVE PortForm
  OBVIOUS
<1>1. curr_state \in {"stall", "hit"} => lineRequest = Lower!NoWant
  BY DEF lineRequest, pmem_read, pmem_write, Lower!NoWant
<1>2. ASSUME curr_state = "miss_clean"
      PROVE  /\ lineRequest = [op |-> "read", addr |-> want.addr]
             /\ want.addr = <<want.addr[1], ridx>>
             /\ lineRequest \in Lower!Reads
  <2>1. want.addr \in Lower!Addr /\ want.addr = <<want.addr[1], ridx>>
    BY <1>2, InProgress DEF IInv, Lower!Addr, Addr
  <2>2. lineRequest = [op |-> "read", addr |-> want.addr]
    BY <1>2 DEF lineRequest, pmem_read, pmem_write, pmem_address
  <2> QED BY <2>1, <2>2 DEF Lower!Reads, Lower!ReadOf
<1>3. ASSUME curr_state = "miss_dirty"
      PROVE  LET v == replace_which_way
             IN  /\ lineRequest = [op |-> "write", addr |-> <<tag[ridx][v], ridx>>,
                                   line |-> data[ridx][v]]
                 /\ want.addr = <<want.addr[1], ridx>>
                 /\ lineRequest \in Lower!Writes
                 /\ tag[ridx][v] # want.addr[1]
  <2> DEFINE v == replace_which_way
  <2>1. ridx \in Index /\ v \in Way /\ ridx = Set(want) /\ want.addr = <<want.addr[1], ridx>>
    BY <1>3, InProgress DEF IInv
  <2>2. tag[ridx][v] # want.addr[1]
    BY <1>3 DEF IInv, MissOpen, Hit
  <2>3. <<tag[ridx][v], ridx>> \in Lower!Addr /\ data[ridx][v] \in Lower!Line
    BY <2>1 DEF IInv, TypeOK, CacheTypeOK, Lower!Addr, Lower!Line, Lower!Data, Line, Data
  <2>4. lineRequest = [op |-> "write", addr |-> <<tag[ridx][v], ridx>>, line |-> data[ridx][v]]
    BY <1>3, <2>1 DEF lineRequest, pmem_read, pmem_write, pmem_address, pmem_wdata
  <2>5. lineRequest \in Lower!Writes
    BY <2>3, <2>4 DEF Lower!Writes, Lower!WriteOf
  <2> QED BY <2>1, <2>2, <2>4, <2>5
<1> QED BY <1>1, <1>2, <1>3 DEF PortForm

\* The lower port of the L2 cache keeps the discipline of a cache's line port: a
\* request stands until it is answered, and a write-back is followed by the read of
\* another line of its set.
THEOREM CacheIsLinePort == Spec => LinePortSpec
<1>1. Init => Lower!PortInit
  BY InitIInv, LineRequestForm DEF Init, CacheInit, PortForm, Lower!PortInit
<1>2. ASSUME IInv, PortForm, PortForm', [Next]_vars
      PROVE  [Lower!PortNext]_lineRequest
  <2>1. CASE UNCHANGED vars
    BY <2>1 DEF vars, lineRequest, pmem_read, pmem_write, pmem_address, pmem_wdata,
                replace_which_way, Set
  <2>2. CASE Lookup \/ Respond
    <3>1. curr_state \in {"stall", "hit"} /\ curr_state' \in {"stall", "hit"}
      BY <2>2 DEF Lookup, CacheStall, Respond, CacheHit, done
    <3> QED BY <1>2, <3>1 DEF PortForm
  <2>3. CASE StartMiss
    <3>1. curr_state = "hit" /\ curr_state' \in {"miss_clean", "miss_dirty"}
      BY <2>3 DEF StartMiss, CacheMiss
    <3>2. lineRequest.op = "none" /\ lineRequest' \in Lower!Want
      BY <1>2, <3>1 DEF PortForm, Lower!Want, Lower!NoWant
    <3>3. Lower!PortStep(FALSE)
      BY <3>2 DEF Lower!PortStep
    <3> QED BY <3>3 DEF Lower!PortNext
  <2>4. CASE WriteBackWait
    <3>1. curr_state = "miss_dirty" /\ curr_state' = "miss_dirty" /\ UNCHANGED <<tag, data>>
      BY <2>4 DEF WriteBackWait, CacheWriteBack
    <3>2. ridx' = ridx /\ replace_which_way' = replace_which_way
      BY <1>2, <2>4, WriteBackKeeps DEF WriteBackWait
    <3> QED BY <1>2, <3>1, <3>2 DEF PortForm
  <2>5. CASE WriteBackDone
    <3>1. curr_state = "miss_dirty" /\ curr_state' = "miss_clean"
      BY <2>5 DEF WriteBackDone, CacheWriteBack
    <3>2. want' = want /\ ridx' = ridx
      BY <1>2, <2>5, WriteBackKeeps DEF WriteBackDone
    <3>3. /\ lineRequest.op = "write" /\ lineRequest' \in Lower!Reads
          /\ lineRequest'.addr[2] = lineRequest.addr[2]
          /\ lineRequest'.addr # lineRequest.addr
      BY <1>2, <3>1, <3>2 DEF PortForm
    <3>4. Lower!PortStep(TRUE)
      BY <3>3 DEF Lower!PortStep
    <3> QED BY <3>4 DEF Lower!PortNext
  <2>6. CASE FillWait
    <3>1. curr_state = "miss_clean" /\ curr_state' = "miss_clean"
      BY <2>6 DEF FillWait, CacheFill
    <3>2. want' = want
      BY <1>2, <2>6, <3>1, InProgress, Held DEF FillWait, IInv
    <3> QED BY <1>2, <3>1, <3>2 DEF PortForm
  <2>7. CASE FillDone
    <3>1. curr_state = "miss_clean" /\ curr_state' = "hit"
      BY <2>7 DEF FillDone, CacheFill
    <3>2. lineRequest.op = "read" /\ lineRequest' = Lower!NoWant
      BY <1>2, <3>1 DEF PortForm
    <3>3. Lower!PortStep(TRUE)
      BY <3>2 DEF Lower!PortStep
    <3> QED BY <3>3 DEF Lower!PortNext
  <2> QED BY <1>2, <2>1, <2>2, <2>3, <2>4, <2>5, <2>6, <2>7 DEF Next
<1> QED BY <1>1, <1>2, Inductive, LineRequestForm, PTL DEF Spec, LinePortSpec, Lower!PortSpec

-----------------------------------------------------------------------------
(* The port above.                                                         *)

\* The job of the line memory, by the state of the control unit.
JobForm ==
    /\ curr_state = "stall" => cacheJob = Service!NoJob /\ cacheLines = shadow
    /\ curr_state # "stall" =>
          /\ want.op \in {"read", "write"}
          /\ cacheLines = IF want.op = "write" THEN [shadow EXCEPT ![want.addr] = want.line]
                          ELSE shadow
          /\ ~done(want) => cacheJob = [st |-> "busy", want |-> want]
          /\ done(want) => cacheJob = Service!Answered(want, cacheLines)

\* A hit is answered with the line the client sees, in every state of the invariant.
LEMMA JobIsForm == IInv => JobForm
<1> SUFFICES ASSUME IInv PROVE JobForm
  OBVIOUS
<1>1. CASE curr_state = "stall"
  BY <1>1 DEF JobForm, cacheJob, cacheLines, Service!NoJob
<1>2. CASE curr_state # "stall"
  <2>1. want.op \in {"read", "write"} /\ want.addr = <<want.addr[1], ridx>> /\ ridx \in Index
    BY <1>2, InProgress DEF IInv
  <2>2. cacheLines = IF want.op = "write" THEN [shadow EXCEPT ![want.addr] = want.line]
                     ELSE shadow
    BY <1>2 DEF cacheLines
  <2>3. ~done(want) => cacheJob = [st |-> "busy", want |-> want]
    BY <1>2 DEF cacheJob
  <2>4. ASSUME done(want) PROVE cacheJob = Service!Answered(want, cacheLines)
    <3>1. HitWay(want) \in Way /\ Hit(HitWay(want), want) /\ curr_state = "hit"
      BY <2>4, HitWayHits DEF done, IInv
    <3>2. mem_rdata(want) = shadow[want.addr]
      BY <2>1, <3>1 DEF IInv, HeldLinesMatch, Filling, Hit, mem_rdata
    <3> QED BY <1>2, <2>1, <2>2, <2>4, <3>2 DEF cacheJob, Service!Answered
  <2> QED BY <1>2, <2>1, <2>2, <2>3, <2>4 DEF JobForm
<1> QED BY <1>1, <1>2

\* The client keeps the contract of the abstract service.
LEMMA ClientStep ==
    ASSUME NEW resp, Upper!HoldStep(resp), Service!resp <=> resp
    PROVE  Service!Port!HoldStep(Service!resp)
BY DEF Upper!HoldStep, Service!Port!HoldStep, Upper!Want, Service!Port!Want, Upper!NoWant,
       Service!Port!NoWant, Upper!Reads, Service!Port!Reads, Upper!Writes, Service!Port!Writes,
       Upper!ReadOf, Service!Port!ReadOf, Upper!WriteOf, Service!Port!WriteOf, Upper!Addr,
       Service!Port!Addr, Upper!Line, Service!Port!Line, Upper!Data, Service!Port!Data

\* The cycle of the lookup: the line memory rests, or takes the request.
LEMMA LookupStep ==
    ASSUME IInv, JobForm, JobForm', Lookup
    PROVE  Service!Next
<1>1. curr_state = "stall" /\ cacheJob = Service!NoJob /\ cacheLines = shadow /\ shadow' = shadow
  BY DEF Lookup, CacheStall, JobForm
<1>2. ~Service!resp
  BY <1>1 DEF Service!resp, Service!NoJob
<1>3. Service!Port!HoldStep(Service!resp)
  BY <1>2, ClientStep DEF Lookup
<1>4. CASE want.op = "none"
  <2>1. curr_state' = "stall"
    BY <1>4 DEF Lookup, CacheStall
  <2>2. Service!Rest
    BY <1>1, <1>4, <2>1 DEF JobForm, Service!Rest, Service!NoJob
  <2> QED BY <1>3, <2>2 DEF Service!Next
<1>5. CASE want.op # "none"
  <2>1. curr_state' = "hit" /\ want' = want
    BY <1>5, Held DEF Lookup, CacheStall, IInv
  <2>2. cacheLines' = IF want.op = "write" THEN [cacheLines EXCEPT ![want.addr] = want.line]
                      ELSE cacheLines
    BY <1>1, <2>1 DEF JobForm
  <2>3. cacheJob' \in {[st |-> "busy", want |-> want], Service!Answered(want, cacheLines')}
    BY <2>1 DEF JobForm, Service!Answered
  <2>4. Service!Take(want)
    BY <1>1, <1>5, <2>2, <2>3 DEF Service!Take, Service!NoJob, Service!Answered
  <2> QED BY <1>3, <2>4 DEF Service!Next
<1> QED BY <1>4, <1>5

\* The cycle of the answer ends the job.
LEMMA RespondStep ==
    ASSUME IInv, JobForm, JobForm', Respond
    PROVE  Service!Next
<1>1. done(want) /\ curr_state = "hit" /\ curr_state' = "stall"
  BY DEF Respond, CacheHit, done
<1>2. cacheJob = Service!Answered(want, cacheLines) /\ want.op \in {"read", "write"}
  BY <1>1 DEF JobForm
<1>3. cacheJob.st = "done"
  BY <1>2 DEF Service!Answered
<1>4. cacheJob' = Service!NoJob /\ cacheLines' = shadow'
  BY <1>1 DEF JobForm
<1>5. shadow' = cacheLines
  BY <1>1, <1>2 DEF JobForm, Respond
<1>6. Service!Port!HoldStep(Service!resp)
  BY <1>3, ClientStep DEF Respond, Service!resp
<1> QED BY <1>3, <1>4, <1>5, <1>6 DEF Service!Next, Service!Done, Service!NoJob

\* Every cycle of a miss is one of a job in progress.
LEMMA MissStep ==
    ASSUME IInv, JobForm, JobForm',
           StartMiss \/ WriteBackWait \/ WriteBackDone \/ FillWait \/ FillDone
    PROVE  Service!Next
<1>1. /\ curr_state # "stall" /\ curr_state' # "stall" /\ ~done(want)
      /\ shadow' = shadow /\ Upper!HoldStep(FALSE)
  BY DEF StartMiss, CacheMiss, WriteBackWait, WriteBackDone, CacheWriteBack, FillWait,
         FillDone, CacheFill, done
<1>2. want' = want /\ want.op \in {"read", "write"}
  BY <1>1, InProgress, Held DEF IInv
<1>3. cacheJob = [st |-> "busy", want |-> want]
  BY <1>1 DEF JobForm
<1>4. cacheLines' = cacheLines
  BY <1>1, <1>2 DEF JobForm
<1>5. Service!Port!HoldStep(Service!resp)
  BY <1>1, <1>3, ClientStep DEF Service!resp
<1>6. CASE ~done(want)'
  <2>1. cacheJob' = cacheJob
    BY <1>1, <1>2, <1>3, <1>6 DEF JobForm
  <2> QED BY <1>3, <1>4, <1>5, <2>1 DEF Service!Next, Service!Work
<1>7. CASE done(want)'
  <2>1. cacheJob' = Service!Answered(want, cacheLines)
    BY <1>1, <1>2, <1>4, <1>7 DEF JobForm, Service!Answered
  <2>2. cacheJob.st = "busy" /\ cacheJob.want = want
    BY <1>3
  <2> QED BY <1>4, <1>5, <2>1, <2>2 DEF Service!Next, Service!Finish
<1> QED BY <1>6, <1>7

\* The L2 cache is transparent: with its next level it implements the line memory
\* that the level above assumes, which answers every read with the line written last.
THEOREM CacheIsLineService == Spec => ServiceSpec
<1>1. Init => Service!Init
  <2> SUFFICES ASSUME Init PROVE Service!Init
    OBVIOUS
  <2>1. cacheJob = Service!NoJob /\ cacheLines = shadow /\ shadow \in [Addr -> Line]
    BY InitIInv, JobIsForm DEF Init, CacheInit, JobForm
  <2>2. [Addr -> Line] = [Service!Addr -> Service!Line]
    BY DEF Addr, Service!Addr, Line, Service!Line, Data, Service!Data
  <2>3. Service!Port!PortInit
    BY DEF Init, Upper!PortInit, Service!Port!PortInit, Upper!NoWant, Service!Port!NoWant
  <2> QED BY <2>1, <2>2, <2>3 DEF Service!Init, Service!LineMemoryInit
<1>2. ASSUME IInv, JobForm, JobForm', [Next]_vars
      PROVE  [Service!Next]_(Service!serviceVars)
  <2>1. CASE UNCHANGED vars
    BY <2>1 DEF vars, Service!serviceVars, cacheJob, cacheLines, done, hit_check, Hit,
                mem_rdata, HitWay
  <2>2. CASE Lookup
    BY <1>2, <2>2, LookupStep
  <2>3. CASE Respond
    BY <1>2, <2>3, RespondStep
  <2>4. CASE StartMiss \/ WriteBackWait \/ WriteBackDone \/ FillWait \/ FillDone
    BY <1>2, <2>4, MissStep
  <2> QED BY <1>2, <2>1, <2>2, <2>3, <2>4 DEF Next
<1> QED BY <1>1, <1>2, Inductive, JobIsForm, PTL DEF Spec, ServiceSpec, Service!Spec
=============================================================================
