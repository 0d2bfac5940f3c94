----------------------------- MODULE MemoryTypes -----------------------------
(***************************************************************************)
(* Addresses, lines and requests of the memory hierarchy, and what the bus *)
(* adapter does with them.  A 32-bit address is a tag, a set index and a   *)
(* word of the line; a line has its words, a word its bytes.               *)
(***************************************************************************)
CONSTANTS
    Index,      \* set indices
    Tag,        \* tags
    Word,       \* words of a line
    Byte,       \* bytes of a word
    Value       \* values of a byte

ASSUME MemoryAssumption == Index # {} /\ Tag # {} /\ Value # {}

Data == [Byte -> Value]
Line == [Word -> Data]
Addr == Tag \X Index

\* mem_read / mem_write with their address, byte enables and write data.
ReadRequest  == [op: {"read"}, tag: Tag, set: Index, word: Word]
WriteRequest == [op: {"write"}, tag: Tag, set: Index, word: Word,
                 be: (SUBSET Byte) \ {{}}, wdata: Data]
NoRequest    == [op |-> "none"]
Request      == ReadRequest \cup WriteRequest

AddrOf(r) == <<r.tag, r.set>>

-----------------------------------------------------------------------------
(* Bus adapter: a word of the processor against a line of the cache.       *)

\* The line after the bytes enabled by r are written into the word of r.
WriteLine(line, r) ==
    [w \in Word |-> [b \in Byte |-> IF w = r.word /\ b \in r.be
                                    THEN r.wdata[b] ELSE line[w][b]]]

ReadWord(line, r) == line[r.word]
=============================================================================
