------------------------------ MODULE MemPool ------------------------------
(***************************************************************************)
(* The allocator of src/mbox-memory.c: blocks of eight bytes, one bit for  *)
(* each in an array of words, and the length of an allocation kept in the  *)
(* five bytes before it.                                                    *)
(*                                                                         *)
(* A pointer is the number of its first block.  What clients write into    *)
(* their memory is left out, so the model ends with the first allocation   *)
(* that is given blocks it cannot have (`overrun'): from then on a client  *)
(* writes over another one's header, or over the heap.                      *)
(*                                                                         *)
(* The names that every specification has begin with Mem here, so that one *)
(* module can hold the proofs about this one and about others.             *)
(***************************************************************************)
EXTENDS Naturals, FiniteSets

CONSTANTS
  WordBits,   \* bits in a word of the bitset, 32 in the code
  Blocks,     \* the block_count of mboxMemPoolNew
  Sizes       \* the sizes in bytes that clients ask for

ASSUME WordAssumption == WordBits \in Nat \ {0}

ASSUME PoolAssumption == Blocks \in Nat \ {0} /\ Sizes \subseteq Nat

MEM_BLOCK_SIZE == 8
MEM_SIZE_INFO  == 5

VARIABLES
  bits,        \* the blocks whose bit is set in p->bitset
  allocated,   \* p->allocated
  header,      \* the count stored before a pointer, 0 where there is none
  live,        \* what the clients hold
  overrun      \* has a client been given blocks it cannot have? (history)

memVars == <<bits, allocated, header, live, overrun>>

Allocations == [at : 0 .. Blocks - 1, count : Nat \ {0}]

Span(a) == a.at .. a.at + a.count - 1

WordOf(b) == b \div WordBits

(* The bytes asked for and those of the header, rounded up to blocks.       *)
BlockCount(size) == (size + MEM_SIZE_INFO + MEM_BLOCK_SIZE - 1) \div MEM_BLOCK_SIZE

-----------------------------------------------------------------------------
(* Faulty variants of the steps below: what each property is there to tell  *)
(* from the code.  They are not part of the specification.                  *)

(* The mask is a bit short. *)
MaskWidthsShort(count) == IF count \in 2 .. WordBits THEN {count - 1} ELSE 1 .. WordBits

(* The bits are cleared up to the last one but one. *)
FreeKeepsBit(a) ==
  /\ ~overrun
  /\ a \in live
  /\ header' = [header EXCEPT ![a.at] = 0]
  /\ allocated' = allocated - header[a.at]
  /\ bits' = bits \ (a.at .. a.at + header[a.at] - 2)
  /\ live' = live \ {a}
  /\ UNCHANGED overrun

-----------------------------------------------------------------------------
MemInit ==
  /\ bits = {}
  /\ allocated = 0
  /\ header = [b \in 0 .. Blocks - 1 |-> 0]
  /\ live = {}
  /\ overrun = FALSE

(* The number of ones in the mask.  A word has 32: the shift that makes a   *)
(* longer one has a negative count, and may make any.                       *)
MaskWidths(count) == IF count <= WordBits THEN {count} ELSE 1 .. WordBits

(* The mask is moved up to a block's bit, and what is moved out of the word *)
(* is lost.                                                                 *)
Masked(at, width) == {b \in at .. at + width - 1 : WordOf(b) = WordOf(at)}

LooksFree(at, width) == Masked(at, width) \intersect bits = {}

FirstFree(at, width) ==
  /\ LooksFree(at, width)
  /\ \A b \in 0 .. at - 1 : ~LooksFree(b, width)

(* mboxMemPoolAlloc that finds a place, and that does not.                  *)
Alloc(size) ==
  LET count == BlockCount(size)
  IN  \E width \in MaskWidths(count), at \in 0 .. Blocks - 1 :
        LET a == [at |-> at, count |-> count]
        IN  /\ ~overrun
            /\ FirstFree(at, width)
            /\ bits' = bits \union Span(a)
            /\ allocated' = allocated + count
            /\ header' = [header EXCEPT ![at] = count]
            /\ live' = live \union {a}
            /\ overrun' = ~(Span(a) \subseteq (0 .. Blocks - 1) \ bits)

OutOfMemory(size) ==
  /\ ~overrun
  /\ \E width \in MaskWidths(BlockCount(size)) :
       \A at \in 0 .. Blocks - 1 : ~LooksFree(at, width)
  /\ UNCHANGED memVars

(* mboxMemPoolFree: how much is freed is what the header says.              *)
Free(a) ==
  /\ ~overrun
  /\ a \in live
  /\ header' = [header EXCEPT ![a.at] = 0]
  /\ allocated' = allocated - header[a.at]
  /\ bits' = bits \ (a.at .. a.at + header[a.at] - 1)
  /\ live' = live \ {a}
  /\ UNCHANGED overrun

MemNext ==
  \/ \E size \in Sizes : Alloc(size) \/ OutOfMemory(size)
  \/ \E a \in live : Free(a)

MemSpec == MemInit /\ [][MemNext]_memVars
-----------------------------------------------------------------------------
MemTypeOK ==
  /\ bits \subseteq Nat
  /\ allocated \in Nat
  /\ header \in [0 .. Blocks - 1 -> Nat]
  /\ live \subseteq Allocations
  /\ overrun \in BOOLEAN

(* An allocation of which the mask did not see every block: it goes on in   *)
(* the next word or beyond the pool, or is longer than a word.              *)
Unmasked(a) ==
  \/ a.count > WordBits
  \/ ~(Span(a) \subseteq 0 .. Blocks - 1)
  \/ \E b \in Span(a) : WordOf(b) # WordOf(a.at)

(* Two clients share a block only if one of them holds such an allocation,  *)
(* after any sequence of allocations and releases.                          *)
SharedOnlyUnmasked ==
  \A a, b \in live :
    a # b /\ Span(a) \intersect Span(b) # {} => Unmasked(a) \/ Unmasked(b)

(* While nobody shares, the set bits are the blocks that clients hold, each *)
(* header has its allocation's length, and allocated, from which            *)
(* mboxMemPoolMemCount is computed, counts the blocks: none is leaked by a   *)
(* release or freed under another client.                                    *)
BlocksExact ==
  ~overrun =>
    /\ bits = UNION {Span(a) : a \in live}
    /\ \A a, b \in live : a # b => Span(a) \intersect Span(b) = {}
    /\ \A a \in live : header[a.at] = a.count
    /\ allocated = Cardinality(bits)

(* The inductive invariant: while nobody shares, the bits are the pool's.   *)
InsidePool == ~overrun => bits \subseteq 0 .. Blocks - 1

MemIInv == MemTypeOK /\ InsidePool /\ BlocksExact /\ SharedOnlyUnmasked
=============================================================================
