----------------------------- MODULE FeedProgram -----------------------------
(* The benchmark comp3.c: execution notices of an exchange, in the byte order of   *)
(* the network, are accounted for and their risk is compared with a limit.  The    *)
(* program reads the messages of FeedData; process_execution is also called with   *)
(* any messages of the set Messages, repeated and in any order, since it is        *)
(* written for a feed that delivers so.                                            *)
EXTENDS Integers, Sequences, FiniteSets, FeedData

CONSTANTS Messages,   \* the messages of an arbitrary feed
          FeedBound   \* how many of them are delivered

VARIABLES message_start, old_message_id, contracts_processed, puts_count, calls_count,
          status3,    \* register s10
          delivered   \* history: the messages of the arbitrary feed, in order

positions == <<old_message_id, contracts_processed, puts_count, calls_count>>
comp3Vars == <<message_start, positions, status3, delivered>>

CHECK_EVERY == 200
STRIDE == 3
CHECK_STRIDE == 80
RISK_THRESHOLD == 100

\* raw_data as an array: only the elements the program reads are given.
raw_data(k) == IF k < CHECK_EVERY THEN (Row1 \o Row2)[k + 1]
                                  ELSE (Row3 \o Row4)[(k - CHECK_EVERY) \div STRIDE + 1]
End == CHECK_EVERY + STRIDE * CHECK_STRIDE

\* struct exec_notification, packed.
exec_notification(t) ==
    [type |-> t[1], subtype |-> t[2], trade_type |-> t[3], side |-> t[4], price |-> t[5],
     contracts |-> t[6], liquidity |-> t[7], strike |-> t[8], expiration |-> t[9],
     message_id |-> t[10]]

\* Byte swaps of an unsigned short and of a word; byte(u, w) is the byte of u that
\* counts w-fold.  The word is taken as a signed number; the result has its top byte
\* below 128 for all fields of this feed.
w8 == 256
w16 == w8 * w8
w24 == w8 * w16
byte(u, w) == (u \div w) % w8
bswap16(u) == byte(u, 1) * w8 + byte(u, w8)
__bswapsi2(u) == byte(u, w24) + byte(u, w16) * w8 + byte(u, w8) * w16 + byte(u, 1) * w24

\* message_id has 64 bits.  Their swap puts the first word on top, and in this
\* feed no two messages agree in it, so it alone decides every comparison.
__bswapdi2(u) == __bswapsi2(u)

Interesting(m) == ~(m.type # "N" /\ m.subtype # "E")
Id(m) == __bswapdi2(m.message_id)

risk(m) ==
    LET vol == __bswapsi2(m.price) - bswap16(m.strike)
        r == 4 * (IF vol < 0 THEN -vol ELSE vol)
    IN (IF bswap16(m.expiration) > 10 THEN 2 * r ELSE r)
       - (IF m.liquidity = 1 THEN 2 ELSE 0)

\* What a message that counts does to the positions.
Account(m) ==
    LET contracts == bswap16(m.contracts) IN
    /\ old_message_id' = Id(m)
    /\ contracts_processed' = contracts_processed + contracts
    /\ IF m.trade_type = "P"
         THEN /\ puts_count' = puts_count + (IF m.side = "B" THEN contracts ELSE -contracts)
              /\ UNCHANGED calls_count
       ELSE IF m.trade_type = "C"
         THEN /\ calls_count' = calls_count + (IF m.side = "S" THEN -contracts ELSE contracts)
              /\ UNCHANGED puts_count
       ELSE UNCHANGED <<puts_count, calls_count>>

\* A slip: a message with the identity of the last one is not ignored.
InOrder_repeats(m) == Id(m) >= old_message_id
InOrder(m) == Id(m) > old_message_id

\* process_execution and what its caller does with the result.
process_execution(m) ==
    \/ /\ ~(Interesting(m) /\ InOrder(m))
       /\ UNCHANGED <<positions, status3>>
    \/ /\ Interesting(m) /\ InOrder(m)
       /\ Account(m)
       /\ status3' = IF risk(m) > RISK_THRESHOLD THEN "00BADBAD" ELSE status3

Comp3Init ==
    /\ message_start = 0
    /\ old_message_id = 0 /\ contracts_processed = 0 /\ puts_count = 0 /\ calls_count = 0
    /\ status3 = "FEFEFEFE"
    /\ delivered = <<>>

\* An iteration of one of the two loops of _start.
ProcessNext ==
    /\ message_start < End
    /\ process_execution(exec_notification(raw_data(message_start)))
    /\ message_start' = message_start + (IF message_start < CHECK_EVERY THEN 1 ELSE STRIDE)
    /\ UNCHANGED delivered

AllProcessed ==
    /\ message_start = End /\ status3 = "FEFEFEFE"
    /\ status3' = "600D600D"
    /\ UNCHANGED <<message_start, positions, delivered>>

Comp3Next == ProcessNext \/ AllProcessed

\* The arbitrary feed: a field has its width, a side is one of the two the program
\* knows, and the price keeps the risk, eight times the difference, an int.  So many
\* 16 bit counts fit the counters.
uint8 == 0 .. (w8 - 1)
uint16 == 0 .. (w16 - 1)

ASSUME MessagesAssumption ==
    /\ Messages \subseteq
         [type : STRING, subtype : STRING, trade_type : STRING, side : {"B", "S"}, price : Int,
          contracts : uint16, liquidity : uint8, strike : uint16, expiration : uint16,
          message_id : Int]
    /\ \A m \in Messages : __bswapsi2(m.price) < 16 * w24

ASSUME FeedAssumption == FeedBound \in Nat /\ FeedBound <= 128 * w8

Deliver(m) ==
    /\ Len(delivered) < FeedBound
    /\ process_execution(m)
    /\ delivered' = Append(delivered, m)
    /\ UNCHANGED message_start

FeedNext == \E m \in Messages : Deliver(m)

\* The messages of the history that are news: no notice before had their identity
\* or a later one, and 0 is no identity.
News == {k \in DOMAIN delivered :
           /\ Interesting(delivered[k]) /\ Id(delivered[k]) > 0
           /\ \A j \in 1..(k - 1) :
                Interesting(delivered[j]) => Id(delivered[j]) < Id(delivered[k])}

\* The number of contracts of the messages K of the history.
Contracts(K) == Cardinality(UNION {{k} \X (1 .. bswap16(delivered[k].contracts)) : k \in K})
Of(trade, side) == {k \in News : delivered[k].trade_type = trade /\ delivered[k].side = side}

(* However the feed repeats and reorders the notices, the positions are those of    *)
(* the news in it, each counted once, bought less sold (comp3.c lines 131-145), and *)
(* the bad status stands exactly if one of them was too risky (lines 90 and 163).   *)
PositionsFollowTheFeed ==
    delivered # <<>> =>
      /\ contracts_processed = Contracts(News)
      /\ puts_count = Contracts(Of("P", "B")) - Contracts(Of("P", "S"))
      /\ calls_count = Contracts(Of("C", "B")) - Contracts(Of("C", "S"))
      /\ status3 = "00BADBAD" <=> \E k \in News : risk(delivered[k]) > RISK_THRESHOLD
=============================================================================
