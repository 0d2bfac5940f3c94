------------------------------ MODULE MCPrograms ------------------------------
EXTENDS Programs

\* A message of the arbitrary feed, from the values of its fields.  A byte swap is
\* its own inverse.
Wire(type, subtype, trade, side, contracts, vol, id) ==
    [type |-> type, subtype |-> subtype, trade_type |-> trade, side |-> side,
     price |-> __bswapsi2(20 + vol), strike |-> bswap16(20),
     contracts |-> bswap16(contracts), liquidity |-> 1, expiration |-> bswap16(11),
     message_id |-> __bswapdi2(id)]

\* Notices of both kinds and sides, two with one identity, one too risky, one that
\* is a notice by its subtype only, one that is none, and one with the identity 0.
MCMessages == {
    Wire("N", "E", "P", "B", 1, 0, 1), Wire("N", "E", "P", "S", 2, 12, 2),
    Wire("N", "E", "C", "S", 4, -12, 2), Wire("X", "E", "C", "B", 8, 13, 3),
    Wire("X", "q", "C", "B", 16, 13, 4), Wire("N", "E", "P", "B", 32, 0, 0)}
=============================================================================
