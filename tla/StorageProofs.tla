--------------------------- MODULE StorageProofs ---------------------------
(***************************************************************************)
(* Proofs about the three components that hold, deal out and move data.    *)
(*                                                                         *)
(* What the allocator of src/mbox-memory.c keeps, for every width of a     *)
(* word, every number of blocks and every set of sizes: the set bits are   *)
(* the blocks clients hold as long as no client was given a block of       *)
(* another, and only an allocation whose mask misses a block makes that    *)
(* happen.                                                                 *)
(*                                                                         *)
(* What fileRemoveFrom of src/delete-from-file/main.c does to a file, for  *)
(* every size of the file and of a block and every range: the file is      *)
(* split at start_offset in what is as it will be and what is as it was,   *)
(* which is why no byte is lost when the program is stopped.               *)
(*                                                                         *)
(* What the operations of src/mbox-list.c keep of the lists, for any       *)
(* number of lists, threads, nodes and items: each list is the ring of a   *)
(* sequence of nodes of its own, and a sort has everything in order but    *)
(* the ranges of its pending calls; to their users they are the sequences  *)
(* of SequenceStore.                                                       *)
(***************************************************************************)
EXTENDS MemPool, FileRemove, MboxList, QueueLemmas, SequenceTheorems

(* Every allocation has a block: the header's five bytes at least.          *)
LEMMA BlockCountPositive == ASSUME NEW size \in Nat
                            PROVE  BlockCount(size) \in Nat \ {0}
  BY DEF BlockCount, MEM_BLOCK_SIZE, MEM_SIZE_INFO

(* A span is as long as its allocation, and starts with its first block.    *)
LEMMA SpanSize == ASSUME NEW a \in Allocations
                  PROVE  /\ IsFiniteSet(Span(a))
                         /\ Cardinality(Span(a)) = a.count
                         /\ a.at \in Span(a)
<1>1. a.at \in Int /\ a.count \in Nat \ {0}
  BY DEF Allocations
<1>2. a.at + a.count - 1 \in Int /\ a.at <= a.at + a.count - 1
  BY <1>1
<1>3. IsFiniteSet(a.at .. a.at + a.count - 1)
  BY <1>1, <1>2, FS_Interval
<1>4. Cardinality(a.at .. a.at + a.count - 1) = (a.at + a.count - 1) - a.at + 1
  BY <1>1, <1>2, FS_Interval
<1>5. (a.at + a.count - 1) - a.at + 1 = a.count
  BY <1>1
<1> QED
  BY <1>1, <1>2, <1>3, <1>4, <1>5 DEF Span

(* The mask of an allocation that is not Unmasked covers all its blocks.    *)
LEMMA MaskCovers ==
  ASSUME NEW a \in Allocations, ~Unmasked(a), NEW width \in MaskWidths(a.count)
  PROVE  Masked(a.at, width) = Span(a)
<1>1. a.count <= WordBits
  BY WordAssumption DEF Unmasked, Allocations
<1>2. width = a.count
  BY <1>1 DEF MaskWidths
<1>3. \A b \in Span(a) : WordOf(b) = WordOf(a.at)
  BY DEF Unmasked
<1> QED
  BY <1>2, <1>3 DEF Masked, Span
-----------------------------------------------------------------------------
LEMMA MemInitInv == MemInit => MemIInv
<1> SUFFICES ASSUME MemInit PROVE MemIInv
  OBVIOUS
<1>1. MemTypeOK
  BY DEF MemInit, MemTypeOK, Allocations
<1>2. InsidePool /\ SharedOnlyUnmasked
  BY DEF MemInit, InsidePool, SharedOnlyUnmasked
<1>3. BlocksExact
  <2>1. UNION {Span(a) : a \in live} = {}
    BY DEF MemInit
  <2> QED
    BY <2>1, FS_EmptySet DEF MemInit, BlocksExact
<1> QED
  BY <1>1, <1>2, <1>3 DEF MemIInv

(* An allocation: the bits grow by its span, and if another client holds    *)
(* one of them then the mask did not see it.                                *)
LEMMA MemAllocInv == ASSUME NEW size \in Sizes, MemIInv, Alloc(size)
                  PROVE  MemIInv'
<1> DEFINE count == BlockCount(size)
<1>0. count \in Nat \ {0}
  BY BlockCountPositive, PoolAssumption
<1> HIDE DEF count
<1>1. PICK width \in MaskWidths(count), at \in 0 .. Blocks - 1 :
        LET a == [at |-> at, count |-> count]
        IN  /\ ~overrun
            /\ FirstFree(at, width)
            /\ bits' = bits \union Span(a)
            /\ allocated' = allocated + count
            /\ header' = [header EXCEPT ![at] = count]
            /\ live' = live \union {a}
            /\ overrun' = ~(Span(a) \subseteq (0 .. Blocks - 1) \ bits)
  BY DEF Alloc, count
<1> DEFINE a == [at |-> at, count |-> count]
<1>2. a \in Allocations /\ a.at = at /\ a.count = count
  BY <1>0 DEF Allocations
<1> HIDE DEF a
<1>3. /\ ~overrun
      /\ FirstFree(at, width)
      /\ bits' = bits \union Span(a)
      /\ allocated' = allocated + count
      /\ header' = [header EXCEPT ![at] = count]
      /\ live' = live \union {a}
      /\ overrun' = ~(Span(a) \subseteq (0 .. Blocks - 1) \ bits)
  BY <1>1 DEF a
<1>4. /\ bits \subseteq Nat
      /\ allocated \in Nat
      /\ header \in [0 .. Blocks - 1 -> Nat]
      /\ live \subseteq Allocations
  BY DEF MemIInv, MemTypeOK
<1>5. /\ bits = UNION {Span(b) : b \in live}
      /\ \A b, c \in live : b # c => Span(b) \intersect Span(c) = {}
      /\ \A b \in live : header[b.at] = b.count
      /\ allocated = Cardinality(bits)
      /\ bits \subseteq 0 .. Blocks - 1
  BY <1>3 DEF MemIInv, BlocksExact, InsidePool
<1>6. Span(a) \subseteq Nat
  BY <1>2 DEF Span, Allocations
<1>7. MemTypeOK'
  <2>1. (bits \subseteq Nat)'
    BY <1>3, <1>4, <1>6
  <2>2. (allocated \in Nat)'
    BY <1>0, <1>3, <1>4
  <2>3. (header \in [0 .. Blocks - 1 -> Nat])'
    BY <1>0, <1>3, <1>4
  <2>4. (live \subseteq Allocations)'
    BY <1>2, <1>3, <1>4
  <2>5. (overrun \in BOOLEAN)'
    BY <1>3, Zenon
  <2> QED
    BY <2>1, <2>2, <2>3, <2>4, <2>5 DEF MemTypeOK
<1>8. InsidePool'
  BY <1>3, <1>5 DEF InsidePool
<1>9. BlocksExact'
  <2> SUFFICES ASSUME ~overrun'
               PROVE  /\ bits' = UNION {Span(b) : b \in live'}
                      /\ \A b, c \in live' : b # c => Span(b) \intersect Span(c) = {}
                      /\ \A b \in live' : header'[b.at] = b.count
                      /\ allocated' = Cardinality(bits')
    BY DEF BlocksExact, Span
  <2>1. Span(a) \subseteq 0 .. Blocks - 1 /\ Span(a) \intersect bits = {}
    BY <1>3
  <2>2. \A b \in live : Span(b) \intersect Span(a) = {}
    BY <1>5, <2>1
  <2>3. bits' = UNION {Span(b) : b \in live'}
    BY <1>3, <1>5
  <2>4. \A b, c \in live' : b # c => Span(b) \intersect Span(c) = {}
    BY <1>3, <1>5, <2>2
  <2>5. \A b \in live' : header'[b.at] = b.count
    <3> SUFFICES ASSUME NEW b \in live' PROVE header'[b.at] = b.count
      OBVIOUS
    <3>1. CASE b = a
      BY <3>1, <1>2, <1>3, <1>4
    <3>2. CASE b # a
      <4>1. b \in live /\ b \in Allocations
        BY <1>3, <1>4, <3>2
      <4>2. b.at \in Span(b) /\ at \in Span(a)
        BY <4>1, <1>2, SpanSize
      <4>3. b.at # at
        BY <4>1, <4>2, <2>2
      <4>4. b.at \in 0 .. Blocks - 1
        BY <4>1 DEF Allocations
      <4> QED
        BY <4>1, <4>3, <4>4, <1>3, <1>4, <1>5
    <3> QED
      BY <3>1, <3>2
  <2>6. allocated' = Cardinality(bits')
    <3>1. IsFiniteSet(0 .. Blocks - 1)
      BY PoolAssumption, FS_Interval
    <3>2. IsFiniteSet(bits)
      BY <3>1, <1>5, FS_Subset
    <3>3. IsFiniteSet(Span(a)) /\ Cardinality(Span(a)) = count
      BY <1>2, SpanSize
    <3>4. bits \intersect Span(a) = {}
      BY <2>1
    <3>5. Cardinality(bits \union Span(a))
            = Cardinality(bits) + Cardinality(Span(a)) - Cardinality(bits \intersect Span(a))
      BY <3>2, <3>3, FS_Union
    <3>6. Cardinality(bits \intersect Span(a)) = 0
      BY <3>4, FS_EmptySet
    <3> QED
      BY <1>0, <1>3, <1>4, <1>5, <3>3, <3>5, <3>6
  <2> QED
    BY <2>3, <2>4, <2>5, <2>6
<1>10. SharedOnlyUnmasked'
  <2> SUFFICES ASSUME NEW b \in live', NEW c \in live', b # c,
                      Span(b) \intersect Span(c) # {}
               PROVE  Unmasked(b) \/ Unmasked(c)
    BY DEF SharedOnlyUnmasked, Unmasked, Span, WordOf
  <2>1. ASSUME NEW d \in live, Span(d) \intersect Span(a) # {}
        PROVE  Unmasked(a)
    <3>1. Span(d) \subseteq bits
      BY <1>5
    <3> SUFFICES ASSUME ~Unmasked(a) PROVE FALSE
      OBVIOUS
    <3>2. Masked(at, width) = Span(a)
      BY <1>2, MaskCovers
    <3>3. Masked(at, width) \intersect bits = {}
      BY <1>3 DEF FirstFree, LooksFree
    <3> QED
      BY <2>1, <3>1, <3>2, <3>3
  <2>2. CASE b \in live /\ c \in live
    BY <2>2, <1>5
  <2>3. CASE b \notin live
    <3>1. b = a /\ c \in live
      BY <2>3, <1>3
    <3> QED
      BY <3>1, <2>1
  <2>4. CASE c \notin live
    <3>1. c = a /\ b \in live
      BY <2>4, <1>3
    <3> QED
      BY <3>1, <2>1
  <2> QED
    BY <2>2, <2>3, <2>4
<1> QED
  BY <1>7, <1>8, <1>9, <1>10 DEF MemIInv

(* A release: nobody else holds the blocks whose bits it clears, and the    *)
(* header it resets is its own.                                             *)
LEMMA MemFreeInv == ASSUME NEW a \in live, MemIInv, Free(a)
                 PROVE  MemIInv'
<1>1. /\ ~overrun
      /\ header' = [header EXCEPT ![a.at] = 0]
      /\ allocated' = allocated - header[a.at]
      /\ bits' = bits \ (a.at .. a.at + header[a.at] - 1)
      /\ live' = live \ {a}
      /\ overrun' = overrun
  BY DEF Free
<1>2. /\ bits \subseteq Nat
      /\ allocated \in Nat
      /\ header \in [0 .. Blocks - 1 -> Nat]
      /\ live \subseteq Allocations
      /\ a \in Allocations
  BY DEF MemIInv, MemTypeOK
<1>3. /\ bits = UNION {Span(b) : b \in live}
      /\ \A b, c \in live : b # c => Span(b) \intersect Span(c) = {}
      /\ \A b \in live : header[b.at] = b.count
      /\ allocated = Cardinality(bits)
      /\ bits \subseteq 0 .. Blocks - 1
  BY <1>1 DEF MemIInv, BlocksExact, InsidePool
<1>4. header[a.at] = a.count /\ bits' = bits \ Span(a) /\ Span(a) \subseteq bits
  BY <1>1, <1>3 DEF Span
<1>5. allocated' = Cardinality(bits') /\ allocated' \in Nat
  <2>1. IsFiniteSet(0 .. Blocks - 1)
    BY PoolAssumption, FS_Interval
  <2>2. IsFiniteSet(bits)
    BY <2>1, <1>3, FS_Subset
  <2>3. Cardinality(Span(a)) = a.count
    BY <1>2, SpanSize
  <2>4. /\ IsFiniteSet(bits \ Span(a))
        /\ Cardinality(bits \ Span(a))
             = Cardinality(bits) - Cardinality(bits \intersect Span(a))
    BY <2>2, FS_Difference
  <2>5. bits \intersect Span(a) = Span(a)
    BY <1>4
  <2>6. Cardinality(bits \ Span(a)) \in Nat
    BY <2>4, FS_CardinalityType
  <2> QED
    BY <1>1, <1>3, <1>4, <2>3, <2>4, <2>5, <2>6
<1>6. MemTypeOK'
  <2>1. (bits \subseteq Nat)'
    BY <1>2, <1>4
  <2>2. (header \in [0 .. Blocks - 1 -> Nat])'
    BY <1>1, <1>2
  <2>3. (live \subseteq Allocations)'
    BY <1>1, <1>2
  <2>4. (overrun \in BOOLEAN)'
    BY <1>1, Zenon DEF MemIInv, MemTypeOK
  <2> QED
    BY <1>5, <2>1, <2>2, <2>3, <2>4 DEF MemTypeOK
<1>7. InsidePool'
  BY <1>1, <1>3, <1>4 DEF InsidePool
<1>8. BlocksExact'
  <2>1. bits' = UNION {Span(b) : b \in live'}
    BY <1>1, <1>3, <1>4
  <2>2. \A b, c \in live' : b # c => Span(b) \intersect Span(c) = {}
    BY <1>1, <1>3
  <2>3. \A b \in live' : header'[b.at] = b.count
    <3> SUFFICES ASSUME NEW b \in live' PROVE header'[b.at] = b.count
      OBVIOUS
    <3>1. b \in live /\ b # a /\ b \in Allocations
      BY <1>1, <1>2
    <3>2. b.at \in Span(b) /\ a.at \in Span(a)
      BY <3>1, <1>2, SpanSize
    <3>3. b.at # a.at
      BY <3>1, <3>2, <1>3
    <3>4. b.at \in 0 .. Blocks - 1
      BY <3>1 DEF Allocations
    <3> QED
      BY <3>1, <3>3, <3>4, <1>1, <1>2, <1>3
  <2> QED
    BY <1>5, <2>1, <2>2, <2>3 DEF BlocksExact, Span
<1>9. SharedOnlyUnmasked'
  BY <1>1, <1>3 DEF SharedOnlyUnmasked, Span, Unmasked, WordOf
<1> QED
  BY <1>6, <1>7, <1>8, <1>9 DEF MemIInv

LEMMA MemStepInv == MemIInv /\ [MemNext]_memVars => MemIInv'
<1> SUFFICES ASSUME MemIInv, [MemNext]_memVars PROVE MemIInv'
  OBVIOUS
<1>1. ASSUME NEW size \in Sizes, Alloc(size) PROVE MemIInv'
  BY <1>1, MemAllocInv
<1>2. CASE UNCHANGED memVars
  <2>1. MemTypeOK' /\ InsidePool'
    BY <1>2 DEF MemIInv, MemTypeOK, InsidePool, memVars
  <2>2. BlocksExact'
    BY <1>2 DEF MemIInv, BlocksExact, memVars, Span
  <2>3. SharedOnlyUnmasked'
    BY <1>2 DEF MemIInv, SharedOnlyUnmasked, memVars, Span, Unmasked, WordOf
  <2> QED
    BY <2>1, <2>2, <2>3 DEF MemIInv
<1>3. ASSUME NEW size \in Sizes, OutOfMemory(size) PROVE MemIInv'
  BY <1>2, <1>3 DEF OutOfMemory
<1>4. ASSUME NEW a \in live, Free(a) PROVE MemIInv'
  BY <1>4, MemFreeInv
<1> QED
  BY <1>1, <1>2, <1>3, <1>4 DEF MemNext

LEMMA MemInvariant == MemSpec => []MemIInv
  BY MemInitInv, MemStepInv, PTL DEF MemSpec
-----------------------------------------------------------------------------
(* mboxMemPoolAlloc and mboxMemPoolFree keep their fields in range, and     *)
(* allocated never falls below zero.                                        *)
THEOREM MemTypes == MemSpec => []MemTypeOK
  BY MemInvariant, PTL DEF MemIInv

(* The bitset, the headers and the count of mboxMemPoolAlloc and            *)
(* mboxMemPoolFree agree with what the clients hold.                        *)
THEOREM MemBlocks == MemSpec => []BlocksExact
  BY MemInvariant, PTL DEF MemIInv

(* Only an allocation that crosses a word, leaves the pool or is longer     *)
(* than a word lets mboxMemPoolAlloc give one block to two clients.         *)
THEOREM MemShares == MemSpec => []SharedOnlyUnmasked
  BY MemInvariant, PTL DEF MemIInv

-----------------------------------------------------------------------------
(* A file that is split like that has every byte that is kept.              *)
LEMMA LoopKeeps ==
  RemoveTypeOK /\ WholeInLoop /\ Moved /\ pc \in {"read", "write", "truncate"} => NothingLost
<1> USE SizeAssumption
<1> SUFFICES ASSUME RemoveTypeOK, WholeInLoop, Moved, pc \in {"read", "write", "truncate"},
                    ~faulted, InRange, NEW b \in KeptBytes
             PROVE  \/ b \in DOMAIN file /\ file[b] = b
                    \/ Target(b) \in DOMAIN file /\ file[Target(b)] = b
  BY DEF NothingLost
<1>1. /\ from \in Nat /\ to \in Nat /\ from <= to /\ to <= FileSize
      /\ start_offset \in Int
  BY DEF RemoveTypeOK, Offsets, InRange
<1>2. /\ end_offset - start_offset = to - from
      /\ from <= start_offset /\ end_offset <= FileSize
      /\ DOMAIN file = 1 .. FileSize
      /\ \A i \in 1 .. FileSize :
           file[i] = IF from < i /\ i <= start_offset THEN i + (to - from) ELSE i
  BY DEF Moved, WholeInLoop
<1>3. CASE b <= from
  BY <1>1, <1>2, <1>3 DEF KeptBytes
<1>4. CASE b > from /\ b > start_offset
  BY <1>1, <1>2, <1>4 DEF KeptBytes
<1>5. CASE b > from /\ b <= start_offset
  <2>1. b \in to + 1 .. FileSize /\ Target(b) = b - (to - from)
    BY <1>1, <1>5 DEF KeptBytes, Target
  <2>2. /\ b - (to - from) \in 1 .. FileSize
        /\ from < b - (to - from) /\ b - (to - from) <= start_offset
    BY <1>1, <1>5, <2>1
  <2>3. file[b - (to - from)] = b - (to - from) + (to - from)
    BY <1>2, <2>2
  <2> QED
    BY <1>1, <1>2, <2>1, <2>2, <2>3
<1> QED
  BY <1>1, <1>3, <1>4, <1>5 DEF KeptBytes

(* The same of a block of which any part has been written.                  *)
LEMMA TornKeeps ==
  ASSUME RemoveInv, ~faulted, InRange, pc = "write", NEW w \in 0 .. rbytes
  PROVE  \A b \in KeptBytes :
           \/ b \in DOMAIN Written(w) /\ Written(w)[b] = b
           \/ Target(b) \in DOMAIN Written(w) /\ Written(w)[Target(b)] = b
<1> USE SizeAssumption
<1>0. /\ from \in Nat /\ to \in Nat /\ from <= to /\ start_offset \in Int /\ to <= FileSize
      /\ rbytes \in Nat /\ w \in Nat /\ w <= rbytes /\ end_offset \in Nat
  BY DEF RemoveInv, RemoveTypeOK, Offsets, InRange
<1>1. /\ end_offset - start_offset = to - from
      /\ from <= start_offset /\ end_offset <= FileSize
      /\ DOMAIN file = 1 .. FileSize
      /\ rbytes <= FileSize - end_offset
  BY DEF RemoveInv, Moved, WholeInLoop
<1>2. \A i \in 1 .. FileSize :
        file[i] = IF from < i /\ i <= start_offset THEN i + (to - from) ELSE i
  BY DEF RemoveInv, Moved
<1>3. \A k \in 1 .. rbytes : buf[k] = end_offset + k
  BY DEF RemoveInv, Moved
<1>4. DOMAIN Written(w) = 1 .. FileSize
  BY <1>1 DEF Written
<1>5. ASSUME NEW i \in 1 .. FileSize
      PROVE  Written(w)[i] = IF start_offset < i /\ i <= start_offset + w
                             THEN buf[i - start_offset] ELSE file[i]
  BY <1>1 DEF Written
<1> SUFFICES ASSUME NEW b \in KeptBytes
             PROVE  \/ b \in 1 .. FileSize /\ Written(w)[b] = b
                    \/ Target(b) \in 1 .. FileSize /\ Written(w)[Target(b)] = b
  BY <1>4
<1>6. CASE b <= from
  <2>1. b \in 1 .. FileSize /\ ~(start_offset < b)
    BY <1>0, <1>1, <1>6 DEF KeptBytes
  <2>2. Written(w)[b] = file[b]
    BY <2>1, <1>5
  <2> QED
    BY <1>0, <1>2, <1>6, <2>1, <2>2
<1>7. CASE b > from /\ b > start_offset + w
  <2>1. b \in 1 .. FileSize /\ b > start_offset
    BY <1>0, <1>7 DEF KeptBytes
  <2>2. Written(w)[b] = file[b]
    BY <1>0, <1>7, <2>1, <1>5
  <2> QED
    BY <1>0, <1>2, <2>1, <2>2
<1>8. CASE b > from /\ b <= start_offset + w
  <2> DEFINE t == b - (to - from)
  <2>1. b \in to + 1 .. FileSize /\ Target(b) = t
    BY <1>0, <1>8 DEF KeptBytes, Target
  <2>2. t \in 1 .. FileSize /\ from < t /\ t <= start_offset + w /\ t + (to - from) = b
    BY <1>0, <1>8, <2>1
  <2> HIDE DEF t
  <2>3. CASE t <= start_offset
    <3>1. Written(w)[t] = file[t]
      BY <1>0, <1>5, <2>2, <2>3
    <3>2. file[t] = t + (to - from)
      BY <1>2, <2>2, <2>3
    <3> QED
      BY <2>1, <2>2, <3>1, <3>2
  <2>4. CASE t > start_offset
    <3>1. Written(w)[t] = buf[t - start_offset]
      BY <1>5, <2>2, <2>4
    <3>2. t - start_offset \in 1 .. rbytes
      BY <1>0, <2>2, <2>4
    <3>3. buf[t - start_offset] = end_offset + (t - start_offset)
      BY <1>3, <3>2
    <3>4. end_offset + (t - start_offset) = b
      BY <1>0, <1>1, <2>2
    <3> QED
      BY <2>1, <2>2, <3>1, <3>3, <3>4
  <2> QED
    BY <1>0, <2>2, <2>3, <2>4
<1> QED
  BY <1>0, <1>6, <1>7, <1>8 DEF KeptBytes
-----------------------------------------------------------------------------
LEMMA RemoveInitInv == RemoveInit => RemoveInv
<1> USE SizeAssumption
<1> SUFFICES ASSUME RemoveInit PROVE RemoveInv
  OBVIOUS
<1>1. /\ file = [i \in 1 .. FileSize |-> i] /\ disk = file
      /\ from \in Nat /\ to \in Nat /\ from <= to
      /\ start_offset = from /\ end_offset = to
      /\ rbytes = 0 /\ pc = "read" /\ faulted = FALSE
  BY DEF RemoveInit
<1>2. RemoveTypeOK
  <2>1. file \in [1 .. FileSize -> 0 .. FileSize]
    BY <1>1
  <2>2. Stored(file, disk)
    <3>1. FileSize \in 0 .. FileSize /\ FileSize <= FileSize
      BY SMT
    <3> QED
      BY <1>1, <2>1, <3>1 DEF Stored
  <2>3. Offsets
    BY <1>1, <2>2 DEF Offsets
  <2> QED
    BY <1>1, <2>3 DEF RemoveTypeOK
<1>3. Moved
  BY <1>1 DEF Moved, InRange
<1>4. RemovedExactly /\ WholeInLoop
  BY <1>1 DEF RemovedExactly, WholeInLoop
<1>5. NothingLost
  BY <1>1, <1>2, <1>3, <1>4, LoopKeeps
<1>6. DiskMayHold
  BY <1>1 DEF DiskMayHold, MayHold
<1> QED
  BY <1>2, <1>3, <1>4, <1>5, <1>6 DEF RemoveInv

(* The types of the file do not depend on what was written before.          *)
LEMMA WrittenType ==
  ASSUME RemoveTypeOK, pc = "write", NEW w \in 0 .. rbytes
  PROVE  Stored(Written(w), disk)
<1> USE SizeAssumption
<1>1. PICK m \in 0 .. FileSize, n \in 0 .. FileSize :
        /\ file \in [1 .. n -> 0 .. FileSize] /\ disk \in [1 .. m -> 0 .. FileSize]
        /\ n <= m
  BY DEF RemoveTypeOK, Offsets, Stored
<1>2. /\ buf \in [1 .. rbytes -> 0 .. FileSize]
      /\ rbytes \in Nat /\ w \in Nat /\ w <= rbytes /\ start_offset \in Int
  BY DEF RemoveTypeOK, Offsets
<1>3. ASSUME NEW i \in 1 .. n
      PROVE  (IF start_offset < i /\ i <= start_offset + w
              THEN buf[i - start_offset] ELSE file[i]) \in 0 .. FileSize
  <2>1. CASE start_offset < i /\ i <= start_offset + w
    <3>1. i - start_offset \in 1 .. rbytes
      BY <1>2, <2>1
    <3> QED
      BY <1>2, <2>1, <3>1
  <2>2. CASE ~(start_offset < i /\ i <= start_offset + w)
    BY <1>1, <2>2
  <2> QED
    BY <2>1, <2>2
<1>4. Written(w) \in [1 .. n -> 0 .. FileSize]
  BY <1>1, <1>3 DEF Written
<1> QED
  BY <1>1, <1>4 DEF Stored

LEMMA StepTypes == RemoveInv /\ [RemoveNext]_removeVars => RemoveTypeOK'
<1> USE SizeAssumption
<1> SUFFICES ASSUME RemoveInv, [RemoveNext]_removeVars PROVE RemoveTypeOK'
  OBVIOUS
<1>0. RemoveTypeOK /\ Offsets
  BY DEF RemoveInv, RemoveTypeOK
<1>f. faulted' \in BOOLEAN
  BY <1>0, Zenon DEF RemoveNext, RemoveStep, Read, ReadEnds, ReadFails, Write, WriteShort, WriteFails,
     Truncate, TruncateFails, Killed, WriteBack, SizeBack, MachineStops, removeVars, RemoveTypeOK
<1> SUFFICES Offsets'
  BY <1>f DEF RemoveTypeOK
<1>u. ASSUME UNCHANGED <<file, disk>> PROVE Stored(file, disk)'
  BY <1>0, <1>u DEF Offsets
<1>t. Stored(file, disk)
  BY <1>0 DEF Offsets
<1>1. CASE Read
  <2>1. PICK r \in 1 .. BufSiz :
          /\ r <= FileSize - end_offset
          /\ rbytes' = r
          /\ buf' = [k \in 1 .. r |-> file[end_offset + k]]
    BY <1>1 DEF Read
  <2>2. DOMAIN file = 1 .. FileSize /\ file \in [1 .. FileSize -> 0 .. FileSize]
    <3>1. PICK n \in 0 .. FileSize : file \in [1 .. n -> 0 .. FileSize]
      BY <1>t DEF Stored
    <3> QED
      BY <1>1, <3>1 DEF RemoveInv, WholeInLoop, Read
  <2>3. end_offset \in Nat /\ r \in Nat
    BY <1>0 DEF Offsets
  <2>4. \A k \in 1 .. r : file[end_offset + k] \in 0 .. FileSize
    BY <2>1, <2>2, <2>3
  <2>5. rbytes' >= 1 /\ buf' \in [1 .. rbytes' -> 0 .. FileSize]
    <3>1. [k \in 1 .. r |-> file[end_offset + k]] \in [1 .. r -> 0 .. FileSize]
      BY <2>4
    <3> QED
      <4>1. r >= 1
        BY <2>3
      <4> QED
        BY <2>1, <3>1, <4>1
  <2>6. rbytes' \in -1 .. BufSiz /\ pc' = "write"
    BY <1>1, <2>1, <2>3 DEF Read
  <2>7. UNCHANGED <<file, disk, from, to, start_offset, end_offset>>
    BY <1>1 DEF Read
  <2> QED
    BY <1>0, <1>u, <2>5, <2>6, <2>7 DEF Offsets
<1>2. CASE ReadEnds
  <2>1. UNCHANGED <<file, disk, from, to, start_offset, end_offset>>
    BY <1>2 DEF ReadEnds
  <2> QED
    BY <1>0, <1>2, <1>u, <2>1 DEF ReadEnds, Offsets
<1>3. CASE ReadFails
  <2>1. UNCHANGED <<file, disk, from, to, start_offset, end_offset>>
    BY <1>3 DEF ReadFails
  <2> QED
    BY <1>0, <1>3, <1>u, <2>1 DEF ReadFails, Offsets
<1>4. CASE Write
  <2>1. rbytes \in 0 .. rbytes /\ rbytes \in Nat /\ end_offset \in Nat /\ start_offset \in Int
    BY <1>0, <1>4 DEF Write, Offsets
  <2>2. Stored(file, disk)'
    <3>1. Stored(Written(rbytes), disk)
      BY <1>0, <1>4, <2>1, WrittenType DEF Write
    <3>2. file' = Written(rbytes) /\ disk' = disk
      BY <1>4 DEF Write
    <3> QED
      BY <3>1, <3>2
  <2>3. /\ pc' = "read" /\ UNCHANGED <<from, to, rbytes>>
        /\ start_offset' \in Int /\ end_offset' \in Nat
    BY <1>4, <2>1 DEF Write
  <2> QED
    BY <1>0, <2>2, <2>3 DEF Offsets
<1>5. CASE WriteShort
  <2>1. PICK w \in 0 .. rbytes - 1 : file' = Written(w) /\ start_offset' = start_offset + w
    BY <1>5 DEF WriteShort
  <2>2. w \in 0 .. rbytes /\ rbytes \in Nat /\ end_offset \in Nat /\ start_offset \in Int
    BY <1>0, <1>5 DEF WriteShort, Offsets
  <2>3. Stored(file, disk)'
    <3>1. Stored(Written(w), disk)
      BY <1>0, <1>5, <2>2, WrittenType DEF WriteShort
    <3>2. file' = Written(w) /\ disk' = disk
      BY <1>5, <2>1 DEF WriteShort
    <3> QED
      BY <3>1, <3>2
  <2>4. /\ pc' = "read" /\ UNCHANGED <<from, to, rbytes>>
        /\ start_offset' \in Int /\ end_offset' \in Nat
    BY <1>5, <2>1, <2>2 DEF WriteShort
  <2> QED
    BY <1>0, <2>3, <2>4 DEF Offsets
<1>6. CASE WriteFails
  <2>1. rbytes \in Nat /\ end_offset \in Nat /\ start_offset \in Int
    BY <1>0, <1>6 DEF WriteFails, Offsets
  <2>2. /\ pc' = "read" /\ UNCHANGED <<file, disk, from, to, rbytes>>
        /\ start_offset' \in Int /\ end_offset' \in Nat
    BY <1>6, <2>1 DEF WriteFails
  <2> QED
    BY <1>0, <1>u, <2>2 DEF Offsets
<1>7. CASE Truncate
  <2>1. PICK m \in 0 .. FileSize, n \in 0 .. FileSize :
          /\ file \in [1 .. n -> 0 .. FileSize] /\ disk \in [1 .. m -> 0 .. FileSize]
          /\ n <= m
    BY <1>t DEF Stored
  <2>2. Stored(file, disk)'
    <3>1. CASE new_size < 0
      BY <1>u, <1>7, <3>1 DEF Truncate
    <3>2. CASE ~(new_size < 0)
      <4>1. new_size \in 0 .. FileSize
        BY <1>0, <3>2 DEF Offsets, new_size
      <4>2. n = FileSize /\ m = FileSize
        BY <1>7, <2>1 DEF RemoveInv, WholeInLoop, Truncate
      <4>3. file' = [i \in 1 .. new_size |-> file[i]] /\ disk' = disk
        BY <1>7, <3>2 DEF Truncate
      <4>4. \A i \in 1 .. new_size : file[i] \in 0 .. FileSize
        BY <2>1, <4>1, <4>2
      <4>5. file' \in [1 .. new_size -> 0 .. FileSize]
        BY <4>3, <4>4
      <4>6. new_size <= m
        BY <4>1, <4>2
      <4>7. \E k \in 0 .. FileSize, j \in 0 .. FileSize :
              /\ file' \in [1 .. j -> 0 .. FileSize] /\ disk' \in [1 .. k -> 0 .. FileSize]
              /\ j <= k
        BY <2>1, <4>1, <4>3, <4>5, <4>6, Zenon
      <4> QED
        BY <4>7 DEF Stored
    <3> QED
      BY <3>1, <3>2
  <2> QED
    BY <1>0, <1>7, <2>2 DEF Truncate, Offsets
<1>8. CASE TruncateFails
  <2>1. UNCHANGED <<file, disk, from, to, start_offset, end_offset, rbytes, buf>> /\ pc' = "done"
    BY <1>8 DEF TruncateFails
  <2> QED
    BY <1>0, <1>u, <2>1 DEF Offsets
<1>9. CASE Killed
  <2>1. Stored(file, disk)'
    <3>1. CASE pc = "write" /\ start_offset >= 0
      <4>1. PICK w \in 0 .. rbytes : file' = Written(w)
        BY <1>9, <3>1 DEF Killed
      <4>2. Stored(Written(w), disk)
        BY <1>0, <3>1, WrittenType
      <4>3. disk' = disk
        BY <1>9 DEF Killed
      <4> QED
        BY <4>1, <4>2, <4>3
    <3>2. CASE ~(pc = "write" /\ start_offset >= 0)
      BY <1>u, <1>9, <3>2 DEF Killed
    <3> QED
      BY <3>1, <3>2
  <2> QED
    BY <1>0, <1>9, <2>1 DEF Killed, Offsets
<1>11. CASE WriteBack \/ SizeBack \/ MachineStops
  <2>1. PICK m \in 0 .. FileSize, n \in 0 .. FileSize :
          /\ file \in [1 .. n -> 0 .. FileSize] /\ disk \in [1 .. m -> 0 .. FileSize]
          /\ n <= m
    BY <1>t DEF Stored
  <2>2. Stored(file, disk)'
    <3>1. CASE WriteBack
      <4>1. PICK p \in {Page(i) : i \in DOMAIN file}, zeros \in BOOLEAN :
              disk' = [i \in DOMAIN disk |->
                         IF Page(i) # p THEN disk[i]
                         ELSE IF i \in DOMAIN file THEN file[i]
                         ELSE IF zeros THEN 0 ELSE disk[i]]
        BY <3>1 DEF WriteBack
      <4>2. \A i \in DOMAIN disk :
              (IF Page(i) # p THEN disk[i]
               ELSE IF i \in DOMAIN file THEN file[i]
               ELSE IF zeros THEN 0 ELSE disk[i]) \in 0 .. FileSize
        BY <2>1
      <4>3. disk' \in [1 .. m -> 0 .. FileSize]
        BY <2>1, <4>1, <4>2
      <4>4. file' = file
        BY <3>1 DEF WriteBack
      <4> QED
        BY <2>1, <4>3, <4>4 DEF Stored
    <3>2. CASE SizeBack
      <4>1. disk' = [i \in DOMAIN file |-> disk[i]] /\ file' = file
        BY <3>2 DEF SizeBack
      <4>2. \A i \in 1 .. n : i \in 1 .. m
        BY <2>1
      <4>3. \A i \in 1 .. n : disk[i] \in 0 .. FileSize
        BY <2>1, <4>2
      <4>4. disk' = [i \in 1 .. n |-> disk[i]]
        BY <2>1, <4>1
      <4>5. disk' \in [1 .. n -> 0 .. FileSize]
        BY <4>3, <4>4
      <4>6. n <= n
        BY <2>1
      <4> QED
        BY <2>1, <4>1, <4>5, <4>6 DEF Stored
    <3>3. CASE MachineStops
      <4>1. file' = disk /\ disk' = disk
        BY <3>3 DEF MachineStops
      <4>2. m <= m
        BY <2>1
      <4> QED
        BY <2>1, <4>1, <4>2 DEF Stored
    <3> QED
      BY <1>11, <3>1, <3>2, <3>3
  <2>3. UNCHANGED <<from, to, start_offset, end_offset, rbytes, buf>>
    BY <1>11 DEF WriteBack, SizeBack, MachineStops
  <2>4. pc' = pc \/ pc' = "crashed"
    BY <1>11 DEF WriteBack, SizeBack, MachineStops
  <2> QED
    BY <1>0, <2>2, <2>3, <2>4 DEF Offsets
<1>10. CASE UNCHANGED removeVars
  BY <1>0, <1>u, <1>10 DEF Offsets, removeVars
<1> QED
  BY <1>1, <1>2, <1>3, <1>4, <1>5, <1>6, <1>7, <1>8, <1>9, <1>10, <1>11 DEF RemoveNext, RemoveStep

LEMMA StepSize == RemoveInv /\ [RemoveNext]_removeVars => WholeInLoop'
<1> SUFFICES ASSUME RemoveInv, [RemoveNext]_removeVars PROVE WholeInLoop'
  OBVIOUS
<1>1. WholeInLoop
  BY DEF RemoveInv
<1>2. ASSUME NEW w PROVE DOMAIN Written(w) = DOMAIN file
  BY DEF Written
<1> QED
  BY <1>1, <1>2 DEF WholeInLoop, RemoveNext, RemoveStep, Read, ReadEnds, ReadFails, Write, WriteShort,
     WriteFails, Truncate, TruncateFails, Killed, WriteBack, SizeBack, MachineStops, removeVars

(* A block is as good as moved once it is written, and the read that finds  *)
(* no more leaves the whole tail behind it.                                 *)
LEMMA StepMoved == RemoveInv /\ [RemoveNext]_removeVars => Moved'
<1> USE SizeAssumption
<1> SUFFICES ASSUME RemoveInv, [RemoveNext]_removeVars, ~faulted', InRange'
             PROVE  Moved'
  BY DEF Moved
<1>1. UNCHANGED <<from, to>> /\ ~faulted /\ InRange
  BY DEF RemoveNext, RemoveStep, Read, ReadEnds, ReadFails, Write, WriteShort, WriteFails,
     Truncate, TruncateFails, Killed, WriteBack, SizeBack, MachineStops, removeVars, InRange
<1>2. /\ from \in Nat /\ to \in Nat /\ from <= to /\ to <= FileSize
      /\ start_offset \in Int /\ end_offset \in Nat
      /\ end_offset - start_offset = to - from
      /\ from <= start_offset /\ end_offset <= FileSize
  BY <1>1 DEF RemoveInv, RemoveTypeOK, Offsets, Moved, InRange
<1>3. ASSUME pc \in {"read", "write", "truncate"}
      PROVE  /\ DOMAIN file = 1 .. FileSize
             /\ \A i \in 1 .. FileSize :
                  file[i] = IF from < i /\ i <= start_offset THEN i + (to - from) ELSE i
  BY <1>1, <1>3 DEF RemoveInv, Moved, WholeInLoop
<1>4. CASE Read
  <2>1. PICK r \in 1 .. BufSiz :
          /\ r <= FileSize - end_offset
          /\ rbytes' = r
          /\ buf' = [k \in 1 .. r |-> file[end_offset + k]]
    BY <1>4 DEF Read
  <2>2. pc = "read" /\ pc' = "write" /\ UNCHANGED <<file, start_offset, end_offset>>
    BY <1>4 DEF Read
  <2>3. ASSUME NEW k \in 1 .. r PROVE buf'[k] = end_offset + k
    <3>1. end_offset + k \in 1 .. FileSize /\ end_offset + k > start_offset
      BY <1>2, <2>1
    <3>2. file[end_offset + k] = end_offset + k
      BY <1>2, <1>3, <2>2, <3>1
    <3> QED
      BY <2>1, <3>2
  <2> QED
    BY <1>1, <1>2, <1>3, <2>1, <2>2, <2>3 DEF Moved
<1>5. CASE ReadEnds
  <2>1. pc = "read" /\ pc' = "truncate" /\ end_offset >= FileSize
        /\ UNCHANGED <<file, start_offset, end_offset>>
    BY <1>5 DEF ReadEnds
  <2> QED
    BY <1>1, <1>2, <1>3, <2>1 DEF Moved
<1>6. CASE Write
  <2>1. /\ pc = "write" /\ pc' = "read" /\ file' = Written(rbytes)
        /\ end_offset' = end_offset + rbytes /\ start_offset' = start_offset + rbytes
    BY <1>6 DEF Write
  <2>2. rbytes \in Nat /\ rbytes <= FileSize - end_offset
    BY <1>1, <2>1 DEF RemoveInv, RemoveTypeOK, Offsets, Moved
  <2>3. \A k \in 1 .. rbytes : buf[k] = end_offset + k
    BY <1>1, <2>1 DEF RemoveInv, Moved
  <2>4. ASSUME NEW i \in 1 .. FileSize
        PROVE  file'[i] = IF from < i /\ i <= start_offset' THEN i + (to - from) ELSE i
    <3>1. file'[i] = IF start_offset < i /\ i <= start_offset + rbytes
                     THEN buf[i - start_offset] ELSE file[i]
      BY <1>3, <2>1 DEF Written
    <3>2. CASE start_offset < i /\ i <= start_offset + rbytes
      <4>1. i - start_offset \in 1 .. rbytes
        BY <1>2, <2>2, <3>2
      <4>2. buf[i - start_offset] = end_offset + (i - start_offset)
        BY <2>3, <4>1
      <4> QED
        BY <1>2, <2>1, <2>2, <3>1, <3>2, <4>2
    <3>3. CASE ~(start_offset < i /\ i <= start_offset + rbytes)
      <4>1. file'[i] = file[i]
        BY <3>1, <3>3
      <4>2. file[i] = IF from < i /\ i <= start_offset THEN i + (to - from) ELSE i
        BY <1>3, <2>1
      <4> QED
        BY <1>2, <2>1, <2>2, <3>3, <4>1, <4>2
    <3> QED
      BY <3>2, <3>3
  <2> QED
    BY <1>1, <1>2, <2>1, <2>2, <2>4 DEF Moved
<1>7. CASE Truncate \/ Killed \/ MachineStops
  <2>1. pc' \in {"done", "killed", "crashed"} /\ UNCHANGED <<start_offset, end_offset>>
    BY <1>7 DEF Truncate, Killed, MachineStops
  <2> QED
    BY <1>1, <1>2, <2>1 DEF Moved
<1>8. CASE WriteBack \/ SizeBack \/ UNCHANGED removeVars
  BY <1>1, <1>8 DEF WriteBack, SizeBack, RemoveInv, Moved, removeVars
<1>9. CASE ReadFails \/ WriteShort \/ WriteFails \/ TruncateFails
  BY <1>9 DEF ReadFails, WriteShort, WriteFails, TruncateFails
<1> QED
  BY <1>4, <1>5, <1>6, <1>7, <1>8, <1>9 DEF RemoveNext, RemoveStep

LEMMA StepRemoved == RemoveInv /\ [RemoveNext]_removeVars => RemovedExactly'
<1> USE SizeAssumption
<1> SUFFICES ASSUME RemoveInv, [RemoveNext]_removeVars, pc' = "done", ~faulted', InRange'
             PROVE  RemovedExactly'
  BY DEF RemovedExactly
<1>1. UNCHANGED <<from, to>> /\ ~faulted /\ InRange
  BY DEF RemoveNext, RemoveStep, Read, ReadEnds, ReadFails, Write, WriteShort, WriteFails,
     Truncate, TruncateFails, Killed, WriteBack, SizeBack, MachineStops, removeVars, InRange
<1>2. CASE Truncate
  <2>1. /\ from \in Nat /\ to \in Nat /\ from <= to /\ to <= FileSize
        /\ start_offset \in Int
    BY <1>1 DEF RemoveInv, RemoveTypeOK, Offsets, InRange
  <2>2. /\ FileSize - start_offset = to - from /\ from <= start_offset
        /\ DOMAIN file = 1 .. FileSize
        /\ \A i \in 1 .. FileSize :
             file[i] = IF from < i /\ i <= start_offset THEN i + (to - from) ELSE i
    BY <1>1, <1>2 DEF RemoveInv, Moved, WholeInLoop, Truncate
  <2>3. new_size = start_offset /\ new_size \in 0 .. FileSize
    BY <2>1, <2>2 DEF new_size
  <2>4. file' = [i \in 1 .. new_size |-> file[i]]
    BY <1>2, <2>3 DEF Truncate
  <2>5. new_size' = new_size /\ KeptBytes' = KeptBytes
    BY <1>1 DEF new_size, KeptBytes
  <2>6. ASSUME NEW b \in KeptBytes PROVE file'[Target(b)] = b
    <3>1. CASE b <= from
      <4>1. b \in 1 .. new_size /\ Target(b) = b
        BY <2>1, <2>2, <2>3, <3>1 DEF KeptBytes, Target
      <4> QED
        BY <2>1, <2>2, <2>3, <2>4, <3>1, <4>1
    <3>2. CASE ~(b <= from)
      <4>1. b \in to + 1 .. FileSize /\ Target(b) = b - (to - from)
        BY <2>1, <3>2 DEF KeptBytes, Target
      <4>2. b - (to - from) \in 1 .. new_size /\ from < b - (to - from)
        BY <2>1, <2>2, <2>3, <4>1
      <4>3. file[b - (to - from)] = b - (to - from) + (to - from)
        BY <2>1, <2>2, <2>3, <4>2
      <4> QED
        BY <2>1, <2>4, <4>1, <4>2, <4>3
    <3> QED
      BY <3>1, <3>2
  <2>7. \A b : Target(b)' = Target(b)
    BY <1>1 DEF Target
  <2> QED
    BY <2>4, <2>5, <2>6, <2>7, <1>1 DEF RemovedExactly, Target, new_size
<1>3. CASE WriteBack \/ SizeBack \/ UNCHANGED removeVars
  BY <1>3 DEF WriteBack, SizeBack, RemoveInv, RemovedExactly, removeVars, new_size, KeptBytes,
              Target, InRange
<1> QED
  BY <1>2, <1>3 DEF RemoveNext, RemoveStep, Read, ReadEnds, ReadFails, Write, WriteShort, WriteFails,
     TruncateFails, Killed, MachineStops

LEMMA StepKeeps == RemoveInv /\ [RemoveNext]_removeVars => NothingLost'
<1> USE SizeAssumption
<1> SUFFICES ASSUME RemoveInv, [RemoveNext]_removeVars PROVE NothingLost'
  OBVIOUS
<1>1. RemoveTypeOK' /\ WholeInLoop' /\ Moved' /\ RemovedExactly'
  BY StepTypes, StepSize, StepMoved, StepRemoved
<1>2. CASE (pc \in {"read", "write", "truncate"})'
  <2>1. (/\ RemoveTypeOK /\ WholeInLoop /\ Moved
         /\ pc \in {"read", "write", "truncate"}
         => NothingLost)'
    BY LoopKeeps, PTL
  <2> QED
    BY <1>1, <1>2, <2>1
<1>3. CASE WriteBack \/ SizeBack \/ UNCHANGED removeVars
  BY <1>3 DEF WriteBack, SizeBack, RemoveInv, NothingLost, removeVars, KeptBytes, Target, InRange
<1>4. CASE pc' = "done" /\ (Truncate \/ TruncateFails)
  <2> SUFFICES ASSUME ~faulted', InRange' PROVE NothingLost'
    BY DEF NothingLost
  <2>1. UNCHANGED <<from, to>>
    BY <1>4 DEF Truncate, TruncateFails
  <2>2. /\ DOMAIN file' = 1 .. new_size
        /\ \A b \in KeptBytes : file'[Target(b)] = b
    BY <1>1, <1>4, <2>1 DEF RemovedExactly, new_size, KeptBytes, Target
  <2>3. from \in Nat /\ to \in Nat /\ from <= to /\ to <= FileSize
    BY <2>1 DEF RemoveInv, RemoveTypeOK, Offsets, InRange
  <2>4. ASSUME NEW b \in KeptBytes PROVE Target(b) \in 1 .. new_size
    BY <2>3 DEF KeptBytes, Target, new_size
  <2> QED
    BY <2>1, <2>2, <2>4 DEF NothingLost, KeptBytes, Target
<1>5. CASE Killed
  <2> SUFFICES ASSUME ~faulted', InRange' PROVE NothingLost'
    BY DEF NothingLost
  <2>1. UNCHANGED <<from, to, faulted>> /\ pc \in {"read", "write", "truncate"}
    BY <1>5 DEF Killed
  <2>2. ~faulted /\ InRange /\ KeptBytes' = KeptBytes
    BY <2>1 DEF InRange, KeptBytes
  <2>3. CASE pc = "write" /\ start_offset >= 0
    <3>1. PICK w \in 0 .. rbytes : file' = Written(w)
      BY <1>5, <2>3 DEF Killed
    <3>2. \A b \in KeptBytes :
            \/ b \in DOMAIN file' /\ file'[b] = b
            \/ Target(b) \in DOMAIN file' /\ file'[Target(b)] = b
      BY <2>2, <2>3, <3>1, TornKeeps
    <3> QED
      BY <2>1, <2>2, <3>2 DEF NothingLost, Target
  <2>4. CASE ~(pc = "write" /\ start_offset >= 0)
    <3>1. file' = file
      BY <1>5, <2>4 DEF Killed
    <3>2. NothingLost
      BY DEF RemoveInv
    <3> QED
      BY <2>1, <2>2, <3>1, <3>2 DEF NothingLost, Target
  <2> QED
    BY <2>3, <2>4
<1>6. CASE Read \/ ReadEnds \/ ReadFails \/ Write \/ WriteShort \/ WriteFails
  BY <1>2, <1>6 DEF Read, ReadEnds, ReadFails, Write, WriteShort, WriteFails
<1>8. CASE MachineStops
  BY <1>8 DEF MachineStops, NothingLost
<1>7. CASE Truncate \/ TruncateFails
  BY <1>4, <1>7 DEF Truncate, TruncateFails
<1> QED
  BY <1>3, <1>5, <1>6, <1>7, <1>8 DEF RemoveNext, RemoveStep

(* A block of which any part has been written leaves in each place what was *)
(* there or what belongs there.                                             *)
LEMMA TornMayHold ==
  ASSUME RemoveInv, ~faulted, InRange, pc = "write", NEW w \in 0 .. rbytes
  PROVE  MayHold(Written(w))
<1> USE SizeAssumption
<1>1. /\ from \in Nat /\ to \in Nat /\ start_offset \in Int /\ end_offset \in Nat
      /\ rbytes \in Nat /\ w \in Nat /\ w <= rbytes
      /\ end_offset - start_offset = to - from /\ from <= start_offset
      /\ \A k \in 1 .. rbytes : buf[k] = end_offset + k
  BY DEF RemoveInv, RemoveTypeOK, Offsets, Moved
<1>2. MayHold(file) /\ DOMAIN Written(w) = DOMAIN file /\ DOMAIN file = 1 .. FileSize
  BY DEF RemoveInv, DiskMayHold, Written, WholeInLoop
<1>3. ASSUME NEW i \in DOMAIN file
      PROVE  \/ Written(w)[i] = i
             \/ from < i /\ Written(w)[i] = i + (to - from)
             \/ new_size < i /\ Written(w)[i] = 0
  <2>1. i \in Nat
    BY <1>2
  <2>2. CASE start_offset < i /\ i <= start_offset + w
    <3>1. i - start_offset \in 1 .. rbytes
      BY <1>1, <2>1, <2>2
    <3>2. Written(w)[i] = end_offset + (i - start_offset)
      BY <1>1, <2>2, <3>1 DEF Written
    <3> QED BY <1>1, <2>1, <2>2, <3>2
  <2>3. CASE ~(start_offset < i /\ i <= start_offset + w)
    BY <1>2, <2>3 DEF Written, MayHold
  <2> QED BY <2>2, <2>3
<1> QED BY <1>2, <1>3 DEF MayHold

(* What is on the disk is of the file as it was at one time or another,     *)
(* place by place.                                                          *)
LEMMA StepDisk == RemoveInv /\ [RemoveNext]_removeVars => DiskMayHold'
<1> USE SizeAssumption
<1> SUFFICES ASSUME RemoveInv, [RemoveNext]_removeVars, ~faulted', InRange'
             PROVE  MayHold(file)' /\ MayHold(disk)'
  BY DEF DiskMayHold
<1>1. UNCHANGED <<from, to>> /\ ~faulted /\ InRange
  BY DEF RemoveNext, RemoveStep, Read, ReadEnds, ReadFails, Write, WriteShort, WriteFails,
     Truncate, TruncateFails, Killed, WriteBack, SizeBack, MachineStops, removeVars, InRange
<1>2. MayHold(file) /\ MayHold(disk)
  BY <1>1 DEF RemoveInv, DiskMayHold
<1>3. /\ from \in Nat /\ to \in Nat /\ from <= to /\ to <= FileSize
      /\ new_size \in 0 .. FileSize /\ new_size' = new_size
  BY <1>1 DEF RemoveInv, RemoveTypeOK, Offsets, InRange, new_size
<1>4. ASSUME NEW f, MayHold(f), file' = f, disk' = disk PROVE MayHold(file)' /\ MayHold(disk)'
  BY <1>1, <1>2, <1>3, <1>4 DEF MayHold
<1>5. CASE Read \/ ReadEnds \/ UNCHANGED removeVars
  BY <1>2, <1>4, <1>5 DEF Read, ReadEnds, removeVars
<1>6. CASE Write
  <2>1. rbytes \in 0 .. rbytes /\ pc = "write" /\ file' = Written(rbytes) /\ disk' = disk
    BY <1>6 DEF Write, RemoveInv, RemoveTypeOK, Offsets
  <2> QED BY <1>1, <1>4, <2>1, TornMayHold
<1>7. CASE Truncate
  <2>1. file' = [i \in 1 .. new_size |-> file[i]] /\ disk' = disk /\ DOMAIN file = 1 .. FileSize
    BY <1>3, <1>7 DEF Truncate, RemoveInv, WholeInLoop
  <2>2. MayHold([i \in 1 .. new_size |-> file[i]])
    BY <1>2, <1>3, <2>1 DEF MayHold
  <2> QED BY <1>4, <2>1, <2>2
<1>8. CASE Killed
  <2>1. CASE pc = "write" /\ start_offset >= 0
    <3>1. PICK w \in 0 .. rbytes : file' = Written(w)
      BY <1>8, <2>1 DEF Killed
    <3>2. disk' = disk
      BY <1>8 DEF Killed
    <3> QED BY <1>1, <1>4, <2>1, <3>1, <3>2, TornMayHold
  <2>2. CASE ~(pc = "write" /\ start_offset >= 0)
    BY <1>2, <1>4, <1>8, <2>2 DEF Killed
  <2> QED BY <2>1, <2>2
<1>9. CASE WriteBack
  <2>1. PICK p \in {Page(i) : i \in DOMAIN file}, zeros \in BOOLEAN :
          disk' = [i \in DOMAIN disk |->
                     IF Page(i) # p THEN disk[i]
                     ELSE IF i \in DOMAIN file THEN file[i]
                     ELSE IF zeros THEN 0 ELSE disk[i]]
    BY <1>9 DEF WriteBack
  <2>2. file' = file
    BY <1>9 DEF WriteBack
  <2>3. \A i \in DOMAIN disk : i \notin DOMAIN file => new_size < i
    BY <1>2, <1>3 DEF MayHold
  <2>4. DOMAIN disk' = DOMAIN disk
    BY <2>1
  <2>5. ASSUME NEW i \in DOMAIN disk
        PROVE  \/ disk'[i] = i
               \/ from < i /\ disk'[i] = i + (to - from)
               \/ new_size < i /\ disk'[i] = 0
    <3>1. disk'[i] \in {disk[i], 0} \/ (i \in DOMAIN file /\ disk'[i] = file[i])
      BY <2>1
    <3>2. CASE disk'[i] = disk[i]
      BY <1>2, <3>2 DEF MayHold
    <3>3. CASE i \in DOMAIN file /\ disk'[i] = file[i]
      BY <1>2, <3>3 DEF MayHold
    <3>4. CASE disk'[i] # disk[i] /\ ~(i \in DOMAIN file /\ disk'[i] = file[i])
      BY <2>1, <2>3, <3>4
    <3> QED BY <3>1, <3>2, <3>3, <3>4
  <2> QED BY <1>1, <1>2, <1>3, <2>2, <2>4, <2>5 DEF MayHold
<1>10. CASE SizeBack
  <2>1. file' = file /\ disk' = [i \in DOMAIN file |-> disk[i]]
    BY <1>10 DEF SizeBack
  <2>2. DOMAIN file \subseteq DOMAIN disk
    BY DEF RemoveInv, RemoveTypeOK, Offsets, Stored
  <2> QED BY <1>1, <1>2, <1>3, <2>1, <2>2 DEF MayHold
<1>11. CASE MachineStops
  BY <1>2, <1>4, <1>11 DEF MachineStops
<1>12. CASE ReadFails \/ WriteShort \/ WriteFails \/ TruncateFails
  BY <1>12 DEF ReadFails, WriteShort, WriteFails, TruncateFails
<1> QED BY <1>5, <1>6, <1>7, <1>8, <1>9, <1>10, <1>11, <1>12 DEF RemoveNext, RemoveStep

LEMMA RemoveInvariant == RemoveSpec => []RemoveInv
<1>1. RemoveInv /\ [RemoveNext]_removeVars => RemoveInv'
  BY StepTypes, StepSize, StepMoved, StepRemoved, StepKeeps, StepDisk DEF RemoveInv
<1> QED
  BY RemoveInitInv, <1>1, PTL DEF RemoveSpec
-----------------------------------------------------------------------------
(* fileRemoveFrom keeps its offsets and its block in range.                 *)
THEOREM RemoveTypes == RemoveSpec => []RemoveTypeOK
  BY RemoveInvariant, PTL DEF RemoveInv

(* Unless a call fails, fileRemoveFrom removes the range and nothing else,  *)
(* whatever sizes the reads have.                                           *)
THEOREM RemoveExact == RemoveSpec => []RemovedExactly
  BY RemoveInvariant, PTL DEF RemoveInv

(* A kill of fileRemoveFrom, between two calls or within a write, leaves    *)
(* every byte that is kept in the file.                                     *)
THEOREM RemoveKillSafe == RemoveSpec => []NothingLost
  BY RemoveInvariant, PTL DEF RemoveInv

(* A machine that stops at any time, with any of the writes and the new     *)
(* size on its disk and any not, leaves in each place of the file what was  *)
(* there or what belongs there.                                             *)
THEOREM RemoveOldOrNew == RemoveSpec => []OldOrNew
<1>1. RemoveInv => OldOrNew
  BY DEF RemoveInv, DiskMayHold, OldOrNew
<1> QED BY RemoveInvariant, <1>1, PTL
-----------------------------------------------------------------------------
(* The nodes of a sequence.                                                 *)
Held(s) == {s[i] : i \in 1 .. Len(s)}

(* the place after the i-th of n in a ring *)
Up(i, n) == IF i = n THEN 1 ELSE i + 1

(* The nodes of s, in their order, are the ring that begins at r.           *)
Ring(s, r, nx, pv) ==
  /\ s \in Seq(Nodes)
  /\ \A i, j \in 1 .. Len(s) : s[i] = s[j] => i = j
  /\ IF s = << >> THEN r = Null ELSE r = s[1]
  /\ \A i \in 1 .. Len(s) : nx[s[i]] = s[Up(i, Len(s))] /\ pv[s[Up(i, Len(s))]] = s[i]

(* What SMT should know of a sequence.                                      *)
LEMMA SeqFacts ==
  ASSUME NEW S, NEW s \in Seq(S)
  PROVE  /\ Len(s) \in Nat /\ DOMAIN s = 1 .. Len(s)
         /\ s = << >> <=> Len(s) = 0
         /\ \A i \in 1 .. Len(s) : s[i] \in S
OBVIOUS

(* A ring is left alone when its nodes are.                                 *)
LEMMA RingSame ==
  ASSUME NEW s, NEW r, NEW nx, NEW pv, NEW nx2, NEW pv2, Ring(s, r, nx, pv),
         \A n \in Held(s) : nx2[n] = nx[n] /\ pv2[n] = pv[n]
  PROVE  Ring(s, r, nx2, pv2)
<1>1. s \in Seq(Nodes) /\ Len(s) \in Nat
  BY DEF Ring
<1>2. \A i \in 1 .. Len(s) : Up(i, Len(s)) \in 1 .. Len(s)
  BY <1>1 DEF Up
<1>3. \A i \in 1 .. Len(s) : s[i] \in Held(s)
  BY DEF Held
<1> QED BY <1>2, <1>3 DEF Ring

(* A node linked to itself is a ring.                                       *)
LEMMA RingAlone ==
  ASSUME NEW n \in Nodes, NEW nx, NEW pv, nx[n] = n, pv[n] = n
  PROVE  Ring(<<n>>, n, nx, pv)
BY DEF Ring, Up

(* Before the first node and after the last one is the same place.          *)
LEMMA RingEnds ==
  ASSUME NEW s, NEW r, NEW nx, NEW pv, Ring(s, r, nx, pv), s # << >>
  PROVE  /\ Len(s) \in Nat \ {0} /\ r = s[1] /\ r \in Nodes
         /\ pv[s[1]] = s[Len(s)] /\ nx[s[Len(s)]] = s[1]
         /\ s[1] \in Nodes /\ s[Len(s)] \in Nodes
         /\ \A i \in 1 .. Len(s) - 1 : nx[s[i]] = s[i + 1] /\ pv[s[i + 1]] = s[i]
<1>1. s \in Seq(Nodes) /\ Len(s) \in Nat \ {0}
  BY SeqFacts DEF Ring
<1>2. 1 \in 1 .. Len(s) /\ Len(s) \in 1 .. Len(s)
  BY <1>1
<1>3. r = s[1]
  BY DEF Ring
<1>4. s[1] \in Nodes /\ s[Len(s)] \in Nodes
  BY <1>1, <1>2
<1>5. Up(Len(s), Len(s)) = 1 /\ \A i \in 1 .. Len(s) - 1 : Up(i, Len(s)) = i + 1 /\ i \in 1 .. Len(s)
  BY <1>1 DEF Up
<1>6. \A i \in 1 .. Len(s) : nx[s[i]] = s[Up(i, Len(s))] /\ pv[s[Up(i, Len(s))]] = s[i]
  BY DEF Ring
<1> QED BY <1>1, <1>2, <1>3, <1>4, <1>5, <1>6

(* u goes between the last node of s and its first.                         *)
Spliced(s, u, nx, pv, nx2, pv2) ==
  \A n \in Nodes :
    /\ nx2[n] = IF n = u[Len(u)] THEN s[1] ELSE IF n = s[Len(s)] THEN u[1] ELSE nx[n]
    /\ pv2[n] = IF n = s[1] THEN u[Len(u)] ELSE IF n = u[1] THEN s[Len(s)] ELSE pv[n]

(* The rings of two lists become that of the first with the second after it.*)
LEMMA RingsJoined ==
  ASSUME NEW s, NEW u, NEW a, NEW b, NEW nx, NEW pv, NEW nx2, NEW pv2,
         Ring(s, a, nx, pv), Ring(u, b, nx, pv), s # << >>, u # << >>,
         Held(s) \intersect Held(u) = {},
         Spliced(s, u, nx, pv, nx2, pv2)
  PROVE  Ring(s \o u, a, nx2, pv2) /\ Held(s \o u) = Held(s) \union Held(u)
<1>1. PICK c, d : c = Len(s) /\ d = Len(u)
  OBVIOUS
<1>2. /\ s \in Seq(Nodes) /\ u \in Seq(Nodes) /\ c \in Nat \ {0} /\ d \in Nat \ {0}
      /\ \A i, j \in 1 .. c : s[i] = s[j] => i = j
      /\ \A i, j \in 1 .. d : u[i] = u[j] => i = j
      /\ \A i \in 1 .. c : s[i] \in Nodes
      /\ \A i \in 1 .. d : u[i] \in Nodes
  BY <1>1, SeqFacts, RingEnds DEF Ring
<1>3. /\ a = s[1]
      /\ \A i \in 1 .. c - 1 : nx[s[i]] = s[i + 1] /\ pv[s[i + 1]] = s[i]
      /\ \A i \in 1 .. d - 1 : nx[u[i]] = u[i + 1] /\ pv[u[i + 1]] = u[i]
  <2>1. a = s[1] /\ \A i \in 1 .. c - 1 : nx[s[i]] = s[i + 1] /\ pv[s[i + 1]] = s[i]
    BY ONLY <1>1, RingEnds, Ring(s, a, nx, pv), s # << >>
  <2>2. \A i \in 1 .. d - 1 : nx[u[i]] = u[i + 1] /\ pv[u[i + 1]] = u[i]
    BY ONLY <1>1, RingEnds, Ring(u, b, nx, pv), u # << >>
  <2> QED BY <2>1, <2>2
<1>4. \A i \in 1 .. c, j \in 1 .. d : s[i] # u[j]
  BY <1>1 DEF Held
<1>5. PICK w : w = s \o u
  OBVIOUS
<1>6. /\ w \in Seq(Nodes) /\ Len(w) = c + d /\ w # << >>
      /\ \A i \in 1 .. c : w[i] = s[i]
      /\ \A i \in c + 1 .. c + d : w[i] = u[i - c]
      /\ \A j \in 1 .. d : w[j + c] = u[j]
  <2>1. /\ w \in Seq(Nodes) /\ Len(w) = c + d /\ w # << >>
        /\ \A i \in 1 .. c : w[i] = s[i]
        /\ \A i \in c + 1 .. c + d : w[i] = u[i - c]
    BY <1>1, <1>2, <1>5
  <2>2. ASSUME NEW j \in 1 .. d PROVE w[j + c] = u[j]
    <3>1. j + c \in c + 1 .. c + d /\ (j + c) - c = j
      BY <1>2
    <3> QED BY <2>1, <3>1
  <2> QED BY <2>1, <2>2
<1>7. ASSUME NEW i \in 1 .. c + d, NEW j \in 1 .. c + d, w[i] = w[j]
      PROVE  i = j
  <2>1. i \in 1 .. c \/ (i \in c + 1 .. c + d /\ i - c \in 1 .. d)
    BY <1>2
  <2>2. j \in 1 .. c \/ (j \in c + 1 .. c + d /\ j - c \in 1 .. d)
    BY <1>2
  <2> QED BY <1>2, <1>4, <1>6, <1>7, <2>1, <2>2
<1>8. /\ \A n \in Nodes : nx2[n] = IF n = u[d] THEN s[1] ELSE IF n = s[c] THEN u[1] ELSE nx[n]
      /\ \A n \in Nodes : pv2[n] = IF n = s[1] THEN u[d] ELSE IF n = u[1] THEN s[c] ELSE pv[n]
  BY ONLY <1>1, Spliced(s, u, nx, pv, nx2, pv2) DEF Spliced
<1>9. ASSUME NEW i \in 1 .. c + d
      PROVE  nx2[w[i]] = w[Up(i, c + d)] /\ pv2[w[Up(i, c + d)]] = w[i]
  <2>0. /\ 1 \in 1 .. c /\ 1 \in 1 .. d /\ c \in 1 .. c /\ d \in 1 .. d
        /\ c + 1 \in c + 1 .. c + d /\ c + d \in c + 1 .. c + d
    BY <1>2
  <2>1. CASE i \in 1 .. c - 1
    <3>1. Up(i, c + d) = i + 1 /\ i + 1 \in 1 .. c /\ i \in 1 .. c /\ i # c /\ i + 1 # 1
      BY <1>2, <2>1 DEF Up
    <3>2. w[i] = s[i] /\ w[i + 1] = s[i + 1]
      BY <1>6, <3>1
    <3>3. s[i] # s[c] /\ s[i] # u[d] /\ s[i + 1] # s[1] /\ s[i + 1] # u[1]
      BY <1>2, <1>4, <2>0, <3>1
    <3>4. nx[s[i]] = s[i + 1] /\ pv[s[i + 1]] = s[i] /\ s[i] \in Nodes /\ s[i + 1] \in Nodes
      BY <1>2, <1>3, <2>1, <3>1
    <3> QED BY ONLY <1>8, <3>1, <3>2, <3>3, <3>4
  <2>2. CASE i = c
    <3>1. Up(i, c + d) = c + 1 /\ c + 1 - c = 1
      BY <1>2, <2>2 DEF Up
    <3>2. w[c] = s[c] /\ w[c + 1] = u[1]
      BY <1>6, <2>0, <3>1
    <3>3. s[c] # u[d] /\ u[1] # s[1]
      BY <1>4, <2>0
    <3> QED BY <1>2, <1>8, <2>0, <2>2, <3>1, <3>2, <3>3
  <2>3. CASE i \in c + 1 .. c + d - 1
    <3>1. /\ Up(i, c + d) = i + 1 /\ i + 1 \in c + 1 .. c + d /\ i \in c + 1 .. c + d
          /\ i + 1 - c = (i - c) + 1 /\ i - c \in 1 .. d - 1
      BY <1>2, <2>3 DEF Up
    <3>2. PICK j \in 1 .. d - 1 : j = i - c
      BY <3>1
    <3>3. j \in 1 .. d /\ j + 1 \in 1 .. d /\ j # d /\ j + 1 # 1
      BY <1>2
    <3>4. w[i] = u[j] /\ w[i + 1] = u[j + 1]
      <4>1. i = j + c /\ i + 1 = (j + 1) + c
        BY <1>2, <3>2
      <4> QED BY <1>6, <3>3, <4>1
    <3>5. u[j] # u[d] /\ u[j] # s[c] /\ u[j + 1] # u[1] /\ u[j + 1] # s[1]
      BY <1>2, <1>4, <2>0, <3>3
    <3>6. nx[u[j]] = u[j + 1] /\ pv[u[j + 1]] = u[j] /\ u[j] \in Nodes /\ u[j + 1] \in Nodes
      BY <1>2, <1>3, <3>3
    <3> QED BY ONLY <1>8, <3>1, <3>4, <3>5, <3>6
  <2>4. CASE i = c + d
    <3>1. Up(i, c + d) = 1 /\ c + d - c = d
      BY <1>2, <2>4 DEF Up
    <3>2. w[i] = u[d] /\ w[1] = s[1]
      BY <1>6, <2>0, <2>4, <3>1
    <3> QED BY <1>2, <1>8, <2>0, <3>1, <3>2
  <2> QED BY <1>2, <2>1, <2>2, <2>3, <2>4
<1>10. Held(w) = Held(s) \union Held(u)
  <2>1. \A i \in 1 .. c + d : w[i] \in Held(s) \union Held(u)
    <3> SUFFICES ASSUME NEW i \in 1 .. c + d PROVE w[i] \in Held(s) \union Held(u)
      OBVIOUS
    <3>1. i \in 1 .. c \/ (i \in c + 1 .. c + d /\ i - c \in 1 .. d)
      BY <1>2
    <3> QED BY <1>1, <1>6, <3>1 DEF Held
  <2>2. \A i \in 1 .. c : s[i] \in Held(w)
    BY <1>2, <1>6 DEF Held
  <2>3. \A i \in 1 .. d : u[i] \in Held(w)
    <3> SUFFICES ASSUME NEW i \in 1 .. d PROVE u[i] \in Held(w)
      OBVIOUS
    <3>1. i + c \in 1 .. c + d
      BY <1>2
    <3>2. w[i + c] = u[i] /\ i + c \in 1 .. Len(w)
      BY <1>6, <3>1
    <3> QED BY <3>2 DEF Held
  <2>4. /\ \A n \in Held(w) : \E i \in 1 .. c + d : n = w[i]
        /\ \A n \in Held(s) : \E i \in 1 .. c : n = s[i]
        /\ \A n \in Held(u) : \E i \in 1 .. d : n = u[i]
    BY <1>1, <1>6 DEF Held
  <2> QED BY <2>1, <2>2, <2>3, <2>4
<1>11. Ring(w, a, nx2, pv2)
  <2>1. w[1] = s[1]
    BY <1>2, <1>6
  <2> QED BY <1>3, <1>6, <1>7, <1>9, <2>1 DEF Ring
<1> QED BY <1>5, <1>10, <1>11

(* Node n comes between the last node of s and the first.                   *)
Between(s, n, nx, pv, nx2, pv2) ==
  \A m \in Nodes :
    /\ nx2[m] = IF m = n THEN s[1] ELSE IF m = s[Len(s)] THEN n ELSE nx[m]
    /\ pv2[m] = IF m = n THEN s[Len(s)] ELSE IF m = s[1] THEN n ELSE pv[m]

(* The ring of s with one node more, u = <<n>>, seen from n and from r.     *)
Grown(s, u, n, r, nx2, pv2) ==
  /\ Ring(u \o s, n, nx2, pv2) /\ Held(u \o s) = Held(s) \union {n}
  /\ Ring(s \o u, r, nx2, pv2) /\ Held(s \o u) = Held(s) \union {n}

(* A new node goes between the ends, and is the first or the last one.      *)
LEMMA RingGrows ==
  ASSUME NEW s, NEW r, NEW nx, NEW pv, NEW nx2, NEW pv2, NEW n \in Nodes,
         Ring(s, r, nx, pv), s # << >>, n \notin Held(s),
         Between(s, n, nx, pv, nx2, pv2)
  PROVE  Grown(s, <<n>>, n, r, nx2, pv2)
<1>1. PICK nx1, pv1 : /\ nx1 = [m \in Nodes |-> IF m = n THEN n ELSE nx[m]]
                      /\ pv1 = [m \in Nodes |-> IF m = n THEN n ELSE pv[m]]
  OBVIOUS
<1>2. nx1[n] = n /\ pv1[n] = n /\ \A m \in Nodes : m # n => nx1[m] = nx[m] /\ pv1[m] = pv[m]
  BY ONLY <1>1, n \in Nodes
<1>3. PICK u : u = <<n>>
  OBVIOUS
<1>4. u # << >> /\ Len(u) = 1 /\ u[1] = n /\ Held(u) = {n}
  BY ONLY <1>3 DEF Held
<1>5. Ring(u, n, nx1, pv1)
  BY ONLY <1>2, <1>3, n \in Nodes, RingAlone
<1>6. s[1] \in Held(s) /\ s[Len(s)] \in Held(s) /\ Held(s) \subseteq Nodes
  <2>1. s \in Seq(Nodes) /\ Len(s) \in Nat \ {0}
    BY ONLY Ring(s, r, nx, pv), s # << >>, RingEnds DEF Ring
  <2>2. 1 \in 1 .. Len(s) /\ Len(s) \in 1 .. Len(s)
    BY ONLY <2>1
  <2>3. \A i \in 1 .. Len(s) : s[i] \in Nodes
    BY ONLY <2>1
  <2> QED BY ONLY <2>2, <2>3 DEF Held
<1>7. Ring(s, r, nx1, pv1)
  <2>1. \A m \in Held(s) : nx1[m] = nx[m] /\ pv1[m] = pv[m]
    BY ONLY <1>2, <1>6, n \notin Held(s)
  <2> QED BY ONLY <2>1, RingSame, Ring(s, r, nx, pv)
<1>8. s[1] # n /\ s[Len(s)] # n /\ Held(s) \intersect Held(u) = {} /\ Held(u) \intersect Held(s) = {}
  BY ONLY <1>4, <1>6, n \notin Held(s)
<1>9. \A m \in Nodes :
        /\ nx2[m] = IF m = n THEN s[1] ELSE IF m = s[Len(s)] THEN n ELSE nx1[m]
        /\ pv2[m] = IF m = n THEN s[Len(s)] ELSE IF m = s[1] THEN n ELSE pv1[m]
  BY ONLY <1>2, Between(s, n, nx, pv, nx2, pv2) DEF Between
<1>10. Spliced(u, s, nx1, pv1, nx2, pv2)
  BY ONLY <1>4, <1>8, <1>9 DEF Spliced
<1>11. Spliced(s, u, nx1, pv1, nx2, pv2)
  BY ONLY <1>4, <1>8, <1>9 DEF Spliced
<1>12. Ring(u \o s, n, nx2, pv2) /\ Held(u \o s) = Held(u) \union Held(s)
  BY ONLY <1>4, <1>5, <1>7, <1>8, <1>10, s # << >>, RingsJoined
<1>13. Ring(s \o u, r, nx2, pv2) /\ Held(s \o u) = Held(s) \union Held(u)
  BY ONLY <1>4, <1>5, <1>7, <1>8, <1>11, s # << >>, RingsJoined
<1>14. Grown(s, u, n, r, nx2, pv2)
  BY ONLY <1>4, <1>12, <1>13 DEF Grown
<1> QED BY ONLY <1>3, <1>14

(* The ring closes over its first node.                                     *)
Unheaded(s, c, nx, pv, nx2, pv2) ==
  /\ c = Len(s) /\ c > 1
  /\ nx2[s[c]] = s[2] /\ pv2[s[2]] = s[c]
  /\ \A i \in 2 .. c - 1 : nx2[s[i]] = nx[s[i]]
  /\ \A i \in 3 .. c : pv2[s[i]] = pv[s[i]]

(* A ring whose head is taken out is the ring of the others, and begins at  *)
(* the second.                                                              *)
LEMMA RingTail ==
  ASSUME NEW s, NEW r, NEW nx, NEW pv, NEW nx2, NEW pv2, NEW c, Ring(s, r, nx, pv),
         Unheaded(s, c, nx, pv, nx2, pv2)
  PROVE  Ring(Tail(s), s[2], nx2, pv2) /\ Held(Tail(s)) = Held(s) \ {s[1]}
<1>1. /\ c = Len(s) /\ c > 1
      /\ nx2[s[c]] = s[2] /\ pv2[s[2]] = s[c]
      /\ \A i \in 2 .. c - 1 : nx2[s[i]] = nx[s[i]]
      /\ \A i \in 3 .. c : pv2[s[i]] = pv[s[i]]
  BY DEF Unheaded
<1>2. /\ s \in Seq(Nodes) /\ c \in Nat /\ c > 1 /\ s # << >>
      /\ \A i, j \in 1 .. c : s[i] = s[j] => i = j
      /\ \A i \in 1 .. c : s[i] \in Nodes
  BY <1>1, SeqFacts DEF Ring
<1>3. \A i \in 1 .. c - 1 : nx[s[i]] = s[i + 1] /\ pv[s[i + 1]] = s[i]
  BY ONLY <1>1, <1>2, RingEnds, Ring(s, r, nx, pv)
<1>4. PICK w : w = Tail(s)
  OBVIOUS
<1>5. /\ w \in Seq(Nodes) /\ Len(w) = c - 1 /\ w # << >>
      /\ \A i \in 1 .. c - 1 : w[i] = s[i + 1]
  <2>1. w \in Seq(Nodes) /\ Len(w) = c - 1 /\ \A i \in 1 .. c - 1 : w[i] = s[i + 1]
    BY ONLY <1>1, <1>2, <1>4, HeadTailProperties
  <2> QED BY ONLY <1>2, <2>1
<1>6. ASSUME NEW i \in 1 .. c - 1, NEW j \in 1 .. c - 1, w[i] = w[j] PROVE i = j
  <2>1. i + 1 \in 1 .. c /\ j + 1 \in 1 .. c
    BY <1>2
  <2> QED BY <1>2, <1>5, <1>6, <2>1
<1>7. ASSUME NEW i \in 1 .. c - 1
      PROVE  nx2[w[i]] = w[Up(i, c - 1)] /\ pv2[w[Up(i, c - 1)]] = w[i]
  <2>1. CASE i = c - 1
    <3>1. Up(i, c - 1) = 1 /\ 1 \in 1 .. c - 1 /\ i + 1 = c
      BY <1>2, <2>1 DEF Up
    <3>2. w[i] = s[c] /\ w[1] = s[2]
      BY <1>5, <3>1
    <3> QED BY <1>1, <3>1, <3>2
  <2>2. CASE i # c - 1
    <3>1. Up(i, c - 1) = i + 1 /\ i + 1 \in 1 .. c - 1 /\ i + 1 \in 2 .. c - 1 /\ (i + 1) + 1 \in 3 .. c
      BY <1>2, <2>2 DEF Up
    <3>2. w[i] = s[i + 1] /\ w[i + 1] = s[(i + 1) + 1]
      BY <1>5, <3>1
    <3>3. nx[s[i + 1]] = s[(i + 1) + 1] /\ pv[s[(i + 1) + 1]] = s[i + 1]
      BY <1>3, <3>1
    <3> QED BY <1>1, <3>1, <3>2, <3>3
  <2> QED BY <2>1, <2>2
<1>8. Ring(w, s[2], nx2, pv2)
  <2>1. w[1] = s[2]
    BY <1>2, <1>5
  <2> QED BY <1>5, <1>6, <1>7, <2>1 DEF Ring
<1>9. Held(w) = Held(s) \ {s[1]}
  <2>1. ASSUME NEW n \in Held(w) PROVE n \in Held(s) \ {s[1]}
    <3>1. PICK i \in 1 .. c - 1 : n = w[i]
      BY <1>5 DEF Held
    <3>2. i + 1 \in 1 .. c /\ i + 1 # 1 /\ 1 \in 1 .. c
      BY <1>2
    <3>3. n = s[i + 1] /\ s[i + 1] # s[1]
      BY <1>2, <1>5, <3>1, <3>2
    <3> QED BY <1>1, <3>2, <3>3 DEF Held
  <2>2. ASSUME NEW n \in Held(s) \ {s[1]} PROVE n \in Held(w)
    <3>1. PICK i \in 1 .. c : n = s[i]
      BY <1>1 DEF Held
    <3>2. i # 1
      BY <3>1
    <3>3. i - 1 \in 1 .. c - 1 /\ (i - 1) + 1 = i
      BY <1>2, <3>2
    <3>4. w[i - 1] = n
      BY <1>5, <3>1, <3>3
    <3> QED BY <1>5, <3>3, <3>4 DEF Held
  <2> QED BY <2>1, <2>2
<1> QED BY <1>4, <1>8, <1>9

(* The ring closes over its last node.                                      *)
Untailed(s, c, w, nx, pv, nx2, pv2) ==
  /\ c = Len(s) /\ c > 1 /\ w = SubSeq(s, 1, c - 1)
  /\ nx2[s[c - 1]] = s[1] /\ pv2[s[1]] = s[c - 1]
  /\ \A i \in 1 .. c - 2 : nx2[s[i]] = nx[s[i]]
  /\ \A i \in 2 .. c - 1 : pv2[s[i]] = pv[s[i]]

(* A ring whose tail is taken out is the ring of the others, and begins     *)
(* where it did.                                                            *)
LEMMA RingFront ==
  ASSUME NEW s, NEW r, NEW nx, NEW pv, NEW nx2, NEW pv2, NEW c, NEW w, Ring(s, r, nx, pv),
         Untailed(s, c, w, nx, pv, nx2, pv2)
  PROVE  Ring(w, r, nx2, pv2) /\ Held(w) = Held(s) \ {s[c]}
<1>1. /\ c = Len(s) /\ c > 1 /\ w = SubSeq(s, 1, c - 1)
      /\ nx2[s[c - 1]] = s[1] /\ pv2[s[1]] = s[c - 1]
      /\ \A i \in 1 .. c - 2 : nx2[s[i]] = nx[s[i]]
      /\ \A i \in 2 .. c - 1 : pv2[s[i]] = pv[s[i]]
  BY DEF Untailed
<1>2. /\ s \in Seq(Nodes) /\ c \in Nat /\ c > 1 /\ s # << >>
      /\ \A i, j \in 1 .. c : s[i] = s[j] => i = j
      /\ \A i \in 1 .. c : s[i] \in Nodes
  BY <1>1, SeqFacts DEF Ring
<1>3. r = s[1] /\ \A i \in 1 .. c - 1 : nx[s[i]] = s[i + 1] /\ pv[s[i + 1]] = s[i]
  BY ONLY <1>1, <1>2, RingEnds, Ring(s, r, nx, pv)
<1>5. /\ w \in Seq(Nodes) /\ Len(w) = c - 1 /\ w # << >>
      /\ \A i \in 1 .. c - 1 : w[i] = s[i]
  <2>1. \A i \in 1 .. c - 1 : s[i] \in Nodes
    BY <1>2
  <2>2. Len(w) = c - 1 /\ (\A i \in 1 .. c - 1 : w[i] = s[i]) /\ w \in Seq(Nodes)
    BY <1>1, <1>2, <2>1, SubSeqProperties
  <2> QED BY <1>2, <2>2
<1>6. ASSUME NEW i \in 1 .. c - 1, NEW j \in 1 .. c - 1, w[i] = w[j] PROVE i = j
  <2>1. i \in 1 .. c /\ j \in 1 .. c
    BY <1>2
  <2> QED BY <1>2, <1>5, <1>6, <2>1
<1>7. ASSUME NEW i \in 1 .. c - 1
      PROVE  nx2[w[i]] = w[Up(i, c - 1)] /\ pv2[w[Up(i, c - 1)]] = w[i]
  <2>1. CASE i = c - 1
    <3>1. Up(i, c - 1) = 1 /\ 1 \in 1 .. c - 1
      BY <1>2, <2>1 DEF Up
    <3>2. w[i] = s[c - 1] /\ w[1] = s[1]
      BY <1>5, <2>1, <3>1
    <3> QED BY <1>1, <3>1, <3>2
  <2>2. CASE i # c - 1
    <3>1. Up(i, c - 1) = i + 1 /\ i + 1 \in 1 .. c - 1 /\ i + 1 \in 2 .. c - 1 /\ i \in 1 .. c - 2
      BY <1>2, <2>2 DEF Up
    <3>2. w[i] = s[i] /\ w[i + 1] = s[i + 1]
      BY <1>5, <3>1
    <3>3. nx[s[i]] = s[i + 1] /\ pv[s[i + 1]] = s[i]
      BY <1>3
    <3> QED BY <1>1, <3>1, <3>2, <3>3
  <2> QED BY <2>1, <2>2
<1>8. Ring(w, r, nx2, pv2)
  <2>1. w[1] = s[1]
    BY <1>2, <1>5
  <2> QED BY ONLY <1>3, <1>5, <1>6, <1>7, <2>1 DEF Ring
<1>9. Held(w) = Held(s) \ {s[c]}
  <2>1. ASSUME NEW n \in Held(w) PROVE n \in Held(s) \ {s[c]}
    <3>1. PICK i \in 1 .. c - 1 : n = w[i]
      BY <1>5 DEF Held
    <3>2. i \in 1 .. c /\ i # c /\ c \in 1 .. c
      BY <1>2
    <3>3. n = s[i] /\ s[i] # s[c]
      BY <1>2, <1>5, <3>1, <3>2
    <3> QED BY <1>1, <3>2, <3>3 DEF Held
  <2>2. ASSUME NEW n \in Held(s) \ {s[c]} PROVE n \in Held(w)
    <3>1. PICK i \in 1 .. c : n = s[i]
      BY <1>1 DEF Held
    <3>2. i # c
      BY <3>1
    <3>3. i \in 1 .. c - 1
      BY <1>2, <3>2
    <3>4. w[i] = n
      BY <1>5, <3>1, <3>3
    <3> QED BY <1>5, <3>3, <3>4 DEF Held
  <2> QED BY <2>1, <2>2
<1> QED BY <1>8, <1>9
-----------------------------------------------------------------------------
(* A ring has no more nodes than there are.                                 *)
LEMMA RingFits ==
  ASSUME NEW s, NEW r, NEW nx, NEW pv, Ring(s, r, nx, pv)
  PROVE  Cardinality(Nodes) \in Nat /\ Len(s) <= Cardinality(Nodes)
<1>1. s \in Seq(Nodes) /\ DOMAIN s = 1 .. Len(s) /\ \A i \in 1 .. Len(s) : s[i] \in Nodes
  BY SeqFacts DEF Ring
<1>2. \A a, b \in DOMAIN s : s[a] = s[b] => a = b
  BY <1>1 DEF Ring
<1>3. PICK T : T = {s[i] : i \in DOMAIN s}
  OBVIOUS
<1>4. Cardinality(T) = Len(s)
  BY ONLY <1>1, <1>2, <1>3, CountElements
<1>5. T \subseteq Nodes
  BY <1>1, <1>3
<1>6. Cardinality(T) <= Cardinality(Nodes) /\ Cardinality(Nodes) \in Nat
  BY <1>5, FiniteAssumption, FS_Subset, FS_CardinalityType
<1> QED BY <1>4, <1>6

(* the node that a walk of k steps from the root comes to *)
Nexts(at, l, C) == [k \in 0 .. C |-> IF k = 0 THEN root[l]
                                      ELSE IF at[k - 1] \in Nodes THEN next[at[k - 1]] ELSE Null]

(* Walk, without its recursive function: the places that next leads to from *)
(* the root, up to the first return.                                        *)
LEMMA WalkTurns ==
  ASSUME NEW l \in Lists, next \in [Nodes -> Nodes \union {Null}], root[l] \in Nodes,
         NEW C \in Nat, C = Cardinality(Nodes)
  PROVE  \E at : /\ at[0] = root[l]
                 /\ \A k \in 1 .. C : at[k - 1] \in Nodes => at[k] = next[at[k - 1]]
                 /\ LET laps == {k \in 1 .. C : /\ at[k] = root[l]
                                                /\ \A j \in 1 .. k - 1 : at[j] \in Nodes \ {root[l]}}
                    IN  Walk(l) = IF laps = {} THEN << >>
                                  ELSE [i \in 1 .. (CHOOSE k \in laps : TRUE) |-> at[i - 1]]
<1>1. PICK S : S = Nodes \union {Null}
  OBVIOUS
<1>2. PICK F : F = [n \in S |-> IF n \in Nodes THEN next[n] ELSE Null]
  OBVIOUS
<1>3. F \in [S -> S] /\ root[l] \in S
  BY <1>1, <1>2
<1>4. PICK g \in [0 .. C -> S] : g[0] = root[l] /\ \A i \in 1 .. C : g[i] = F[g[i - 1]]
  <2>1. Runs(S, F, root[l], C)
    BY ONLY <1>3, Unrolled, C \in Nat
  <2> QED BY ONLY <2>1 DEF Runs
<1>5. g = Nexts(g, l, C)
  <2>1. \A k \in 0 .. C : k # 0 => k \in 1 .. C /\ k - 1 \in 0 .. C
    OBVIOUS
  <2>2. \A k \in 0 .. C :
          g[k] = IF k = 0 THEN root[l] ELSE IF g[k - 1] \in Nodes THEN next[g[k - 1]] ELSE Null
    BY <1>2, <1>4, <2>1
  <2> QED BY <1>4, <2>2 DEF Nexts
<1>6. Trail(l) = CHOOSE f : f = Nexts(f, l, C)
  BY ONLY C = Cardinality(Nodes) DEF Trail, Nexts
<1>7. PICK at : at = Trail(l)
  OBVIOUS
<1>8. at = Nexts(at, l, C)
  BY ONLY <1>5, <1>6, <1>7
<1>9. at[0] = root[l] /\ \A k \in 1 .. C : at[k - 1] \in Nodes => at[k] = next[at[k - 1]]
  BY ONLY <1>8, C \in Nat DEF Nexts
<1>10. root[l] # Null
  BY DistinctAssumption
<1>11. LET laps == {k \in 1 .. C : /\ at[k] = root[l]
                                   /\ \A j \in 1 .. k - 1 : at[j] \in Nodes \ {root[l]}}
       IN  Walk(l) = IF laps = {} THEN << >>
                     ELSE [i \in 1 .. (CHOOSE k \in laps : TRUE) |-> at[i - 1]]
  BY ONLY <1>7, <1>10, C = Cardinality(Nodes) DEF Walk
<1> QED BY ONLY <1>9, <1>11

(* The walk along next from the root of a ring meets its nodes, in order.   *)
LEMMA WalkIsRing ==
  ASSUME NEW l \in Lists, next \in [Nodes -> Nodes \union {Null}],
         NEW s, Ring(s, root[l], next, prev)
  PROVE  Walk(l) = s
<1>1. CASE s = << >>
  BY <1>1 DEF Ring, Walk
<1>2. CASE s # << >>
  <2>1. PICK n \in Nat \ {0} : n = Len(s)
    BY <1>2, RingEnds
  <2>2. /\ s \in Seq(Nodes) /\ root[l] = s[1] /\ root[l] \in Nodes /\ next[s[n]] = s[1]
        /\ \A i \in 1 .. n - 1 : next[s[i]] = s[i + 1]
    <3>1. s \in Seq(Nodes)
      BY DEF Ring
    <3> QED BY ONLY <1>2, <2>1, <3>1, RingEnds, Ring(s, root[l], next, prev)
  <2>3. /\ \A i \in 1 .. n : s[i] \in Nodes
        /\ \A i, j \in 1 .. n : s[i] = s[j] => i = j
    BY ONLY <2>1, <2>2, Ring(s, root[l], next, prev) DEF Ring
  <2>4. PICK C \in Nat : C = Cardinality(Nodes) /\ n <= C
    BY <2>1, RingFits
  <2>5. PICK at : /\ at[0] = root[l]
                  /\ \A k \in 1 .. C : at[k - 1] \in Nodes => at[k] = next[at[k - 1]]
                  /\ LET laps == {k \in 1 .. C : /\ at[k] = root[l]
                                                 /\ \A j \in 1 .. k - 1 : at[j] \in Nodes \ {root[l]}}
                     IN  Walk(l) = IF laps = {} THEN << >>
                                   ELSE [i \in 1 .. (CHOOSE k \in laps : TRUE) |-> at[i - 1]]
    BY <2>2, <2>4, WalkTurns
  <2>6. \A k \in 0 .. n - 1 : at[k] = s[k + 1]
    <3>1. SUFFICES ASSUME NEW j \in {k \in 0 .. n - 1 : at[k] # s[k + 1]} PROVE FALSE
      OBVIOUS
    <3>2. PICK m \in {k \in 0 .. n - 1 : at[k] # s[k + 1]} :
            \A k \in {k \in 0 .. n - 1 : at[k] # s[k + 1]} : m <= k
      <4>1. {k \in 0 .. n - 1 : at[k] # s[k + 1]} \in SUBSET Nat
        OBVIOUS
      <4> QED BY ONLY <3>1, <4>1, LeastMember
    <3>3. m # 0
      BY <2>2, <2>5, <3>2
    <3>4. m - 1 \in 0 .. n - 1 /\ m \in 1 .. C /\ m \in 1 .. n - 1 /\ (m - 1) + 1 = m /\ m \in 1 .. n
      BY <2>4, <3>2, <3>3
    <3>5. at[m - 1] = s[m]
      BY <3>2, <3>4
    <3>6. at[m] = next[s[m]]
      BY <2>3, <2>5, <3>4, <3>5
    <3> QED BY <2>2, <3>2, <3>4, <3>6
  <2>7. at[n] = s[1]
    <3>1. n \in 1 .. C /\ n - 1 \in 0 .. n - 1 /\ (n - 1) + 1 = n /\ n \in 1 .. n
      BY <2>4
    <3>2. at[n - 1] = s[n] /\ s[n] \in Nodes
      BY <2>3, <2>6, <3>1
    <3> QED BY <2>2, <2>5, <3>1, <3>2
  <2>8. PICK laps : laps = {k \in 1 .. C : /\ at[k] = root[l]
                                           /\ \A j \in 1 .. k - 1 : at[j] \in Nodes \ {root[l]}}
    OBVIOUS
  <2>9. n \in laps
    <3>1. ASSUME NEW j \in 1 .. n - 1 PROVE at[j] \in Nodes \ {root[l]}
      <4>1. j \in 0 .. n - 1 /\ j + 1 \in 1 .. n /\ 1 \in 1 .. n /\ j + 1 # 1
        OBVIOUS
      <4> QED BY <2>2, <2>3, <2>6, <4>1
    <3>2. n \in 1 .. C
      BY <2>4
    <3> QED BY <2>2, <2>7, <2>8, <3>1, <3>2
  <2>10. ASSUME NEW k \in laps PROVE k = n
    <3>1. k \in 1 .. C /\ at[k] = root[l] /\ \A j \in 1 .. k - 1 : at[j] # root[l]
      BY <2>8
    <3>2. ~(k < n)
      <4>1. SUFFICES ASSUME k < n PROVE FALSE
        OBVIOUS
      <4>2. k \in 0 .. n - 1 /\ k + 1 \in 1 .. n /\ 1 \in 1 .. n /\ k + 1 # 1
        BY <3>1, <4>1
      <4> QED BY <2>2, <2>3, <2>6, <3>1, <4>2
    <3>3. ~(k > n)
      <4>1. SUFFICES ASSUME k > n PROVE FALSE
        OBVIOUS
      <4>2. n \in 1 .. k - 1
        BY <3>1, <4>1
      <4> QED BY <2>2, <2>7, <3>1, <4>2
    <3> QED BY <3>1, <3>2, <3>3
  <2>11. (CHOOSE k \in laps : TRUE) = n
    BY <2>9, <2>10
  <2>12. Walk(l) = [i \in 1 .. n |-> at[i - 1]]
    BY <2>5, <2>8, <2>9, <2>11
  <2>13. \A i \in 1 .. n : at[i - 1] = s[i]
    <3>1. \A i \in 1 .. n : i - 1 \in 0 .. n - 1 /\ (i - 1) + 1 = i
      OBVIOUS
    <3> QED BY <2>6, <3>1
  <2>14. s = [i \in 1 .. n |-> s[i]]
    BY <2>1, <2>2
  <2> QED BY ONLY <2>12, <2>13, <2>14
<1> QED BY <1>1, <1>2
-----------------------------------------------------------------------------
(* The thread is in an operation.                                           *)
Busy(t) == op[t].do # "none"

(* Each addition that has been called will find a node.                     *)
Roomy == Cardinality({t \in Threads : op[t].do \in Adding}) <= Cardinality(Nodes \ heap)

(* q has the nodes of each list in their order.                             *)
Rings(q) ==
  /\ q \in [Lists -> Seq(Nodes)]
  /\ \A l \in Lists : Ring(q[l], root[l], next, prev)
  /\ \A l, m \in Lists : l # m => Held(q[l]) \intersect Held(q[m]) = {}
  /\ heap = UNION {Held(q[l]) : l \in Lists}
  /\ \A n \in heap : data[n] \in Items

(* What the thread has done of its operation that len does not show yet.    *)
Counts(t, n) ==
  /\ Doing(t, "added") => n = len[On(t)] + 1
  /\ Doing(t, "removed") => n + 1 = len[On(t)]
  /\ op[t].do \notin {"added", "removed"} => n = len[On(t)]

-----------------------------------------------------------------------------
(* In a sort, the places from r.lo to r.hi of s are what the call f is to   *)
(* sort: none when r.lo is one more.                                        *)
Spans(s, f, r) ==
  /\ r.lo \in 1 .. Len(s) + 1 /\ r.hi \in 0 .. Len(s) /\ r.lo <= r.hi + 1
  /\ f.low = s[IF r.lo = Len(s) + 1 THEN 1 ELSE r.lo]
  /\ f.high = s[IF r.hi = 0 THEN Len(s) ELSE r.hi]
  /\ f.count = 0 <=> r.lo = 1 /\ r.hi = Len(s)

(* The ranges of the pending calls, R, follow one another and do not meet.  *)
Divided(s, fs, R) ==
  /\ R \in Seq([lo : Int, hi : Int]) /\ Len(R) = Len(fs)
  /\ \A k \in 1 .. Len(R) : Spans(s, fs[k], R[k])
  /\ \A k, m \in 1 .. Len(R) : k < m => R[k].hi < R[m].lo

(* What is not still to be sorted by one of the calls is in order.          *)
InOrder(s, R) ==
  \A i, j \in 1 .. Len(s) : i < j =>
    \/ Key(data[s[i]]) <= Key(data[s[j]])
    \/ \E k \in 1 .. Len(R) : R[k].lo <= i /\ j <= R[k].hi

(* Up to the place of current, what is not greater than the pivot is left   *)
(* of the place after prev.                                                 *)
Compared(s, r, at) ==
  \E i, j \in r.lo .. r.hi :
    /\ i <= j
    /\ at.prev \in Held(s) /\ next[at.prev] = s[i] /\ at.current = s[j]
    /\ \A k \in r.lo .. i - 1 : Key(data[s[k]]) <= Key(data[s[r.hi]])
    /\ \A k \in i .. j - 1 : Key(data[s[k]]) > Key(data[s[r.hi]])

(* How far a sort of s is: the ranges of its calls, and its partition.      *)
Sorting(t, s) ==
  op[t].do \in {"helper", "pivot"} =>
    /\ Len(s) >= 2
    /\ \E R : /\ Divided(s, frames[t], R)
              /\ InOrder(s, R)
              /\ Doing(t, "pivot") => /\ frames[t] # << >> /\ R[1].lo < R[1].hi
                                      /\ Compared(s, R[1], part[t])

(* The arguments of a call of the helper.                                   *)
Frames == [low : Nodes, high : Nodes, count : {0, 1}]

(* The types, with those of the stacks that grow with the recursion.        *)
ListTyped ==
  /\ TypeOK
  /\ frames \in [Threads -> Seq(Frames)]
  /\ part \in [Threads -> [prev : Nodes \union {Null}, current : Nodes \union {Null}]]

(* What an operation is on is locked by its thread, and is as far as it is. *)
Serving(t, q) ==
  Busy(t) => /\ On(t) \in Lists /\ lock[On(t)] = t
             /\ Counts(t, Len(q[On(t)]))
             /\ Sorting(t, q[On(t)])

(* Who finds the list free finds its length right.                          *)
Unlocked(l, s) == lock[l] = Nobody => len[l] = Len(s)

(* The lists are the rings q, as far as the threads have come.              *)
Kept(q) ==
  /\ Rings(q)
  /\ \A l \in Lists : Unlocked(l, q[l])
  /\ \A t \in Threads : Serving(t, q)

(* The inductive invariant.                                                 *)
ListIInv == ListTyped /\ Roomy /\ \E q : Kept(q)

-----------------------------------------------------------------------------
(* What is found along next from a root is the list's sequence.             *)
LEMMA RingsWalked ==
  \A q : next \in [Nodes -> Nodes \union {Null}] /\ Rings(q) => \A l \in Lists : Walk(l) = q[l]
<1> SUFFICES ASSUME NEW q, next \in [Nodes -> Nodes \union {Null}], Rings(q), NEW l \in Lists
             PROVE  Walk(l) = q[l]
  OBVIOUS
<1>1. Ring(q[l], root[l], next, prev)
  BY DEF Rings
<1> QED BY <1>1, WalkIsRing

(* And so are the nodes found there.                                        *)
LEMMA HeldWalked ==
  ASSUME NEW q, next \in [Nodes -> Nodes \union {Null}], Rings(q), NEW l \in Lists
  PROVE  NodesOf(l) = Held(q[l]) /\ q[l] \in Seq(Nodes) /\ Held(q[l]) \subseteq Nodes
<1>1. Walk(l) = q[l]
  BY RingsWalked
<1>2. q[l] \in Seq(Nodes)
  BY DEF Rings
<1>3. DOMAIN q[l] = 1 .. Len(q[l]) /\ \A i \in 1 .. Len(q[l]) : q[l][i] \in Nodes
  BY <1>2, SeqFacts
<1> QED BY <1>1, <1>2, <1>3 DEF NodesOf, Held

(* The rings close, are read backwards too and share nothing: what          *)
(* ListsSound says with Walk.                                               *)
LEMMA IInvListsSound == ListIInv => ListsSound
<1> SUFFICES ASSUME ListIInv PROVE ListsSound
  OBVIOUS
<1>1. PICK q : Kept(q)
  BY DEF ListIInv
<1>2. TypeOK /\ next \in [Nodes -> Nodes \union {Null}] /\ Rings(q)
  BY <1>1 DEF ListIInv, ListTyped, TypeOK, Kept
<1>3. \A l \in Lists : /\ NodesOf(l) = Held(q[l]) /\ q[l] \in Seq(Nodes)
                       /\ Ring(q[l], root[l], next, prev)
  BY <1>2, HeldWalked DEF Rings
<1>4. ASSUME NEW l \in Lists, root[l] # Null PROVE NodesOf(l) # {}
  <2>1. q[l] # << >>
    BY <1>3, <1>4 DEF Ring
  <2>2. 1 \in 1 .. Len(q[l])
    BY <1>3, <2>1
  <2>3. q[l][1] \in Held(q[l])
    BY <2>2 DEF Held
  <2> QED BY <1>3, <2>3
<1>5. ASSUME NEW l \in Lists, NEW n \in NodesOf(l) PROVE prev[next[n]] = n
  <2>1. PICK i \in 1 .. Len(q[l]) : n = q[l][i]
    BY <1>3 DEF Held
  <2> QED BY <1>3, <2>1 DEF Ring
<1>6. \A l, m \in Lists : l # m => NodesOf(l) \intersect NodesOf(m) = {}
  BY <1>2, <1>3 DEF Rings
<1>7. UNION {NodesOf(l) : l \in Lists} = heap
  <2>1. heap = UNION {Held(q[l]) : l \in Lists}
    BY <1>2 DEF Rings
  <2> QED BY <1>3, <2>1
<1>8. RingsSound
  <2>1. PICK nodes : nodes = [l \in Lists |-> NodesOf(l)]
    OBVIOUS
  <2>2. \A l \in Lists : nodes[l] = NodesOf(l)
    BY <2>1
  <2>3. UNION {nodes[l] : l \in Lists} = heap
    BY <1>7, <2>2
  <2> QED BY ONLY <1>4, <1>5, <1>6, <2>1, <2>2, <2>3 DEF RingsSound
<1>9. LengthRight
  BY <1>1, <1>2, RingsWalked DEF LengthRight, Kept, Unlocked
<1> QED BY <1>2, <1>8, <1>9 DEF ListsSound

(* When no call of the helper is pending, no range is left that may be out  *)
(* of order.                                                                *)
LEMMA IInvSortSorts == ListIInv => SortSorts
<1> SUFFICES ASSUME ListIInv, NEW t \in Threads, Doing(t, "helper"), frames[t] = << >>
             PROVE  LET c == Contents(On(t)) IN
                    \A i \in 2 .. Len(c) : Key(c[i - 1]) <= Key(c[i])
  BY DEF SortSorts
<1>1. PICK q : Kept(q)
  BY DEF ListIInv
<1>2. next \in [Nodes -> Nodes \union {Null}] /\ Rings(q)
  BY <1>1 DEF ListIInv, ListTyped, TypeOK, Kept
<1>3. On(t) \in Lists /\ Busy(t)
  BY <1>1 DEF Kept, Serving, Busy, Doing
<1>4. PICK s \in Seq(Nodes) : s = q[On(t)] /\ Walk(On(t)) = s
  BY <1>2, <1>3, RingsWalked DEF Rings
<1>5. Sorting(t, s)
  BY <1>1, <1>3, <1>4 DEF Kept, Serving
<1>6. PICK R : Divided(s, << >>, R) /\ InOrder(s, R)
  BY <1>5 DEF Sorting, Doing
<1>7. Len(R) = 0
  BY <1>6 DEF Divided
<1>8. \A i, j \in 1 .. Len(s) : i < j => Key(data[s[i]]) <= Key(data[s[j]])
  BY <1>6, <1>7 DEF InOrder
<1>9. PICK c : c = Contents(On(t))
  OBVIOUS
<1>10. c = [i \in 1 .. Len(s) |-> data[s[i]]] /\ Len(s) \in Nat
  BY <1>4, <1>9 DEF Contents
<1>11. Len(c) = Len(s)
  BY <1>10
<1>12. ASSUME NEW i \in 2 .. Len(c) PROVE Key(c[i - 1]) <= Key(c[i])
  <2>1. i - 1 \in 1 .. Len(s) /\ i \in 1 .. Len(s) /\ i - 1 < i
    BY <1>10, <1>11
  <2> QED BY <1>8, <1>10, <2>1
<1> QED BY <1>9, <1>12
-----------------------------------------------------------------------------
(* One list changes, and only its nodes do.                                 *)
LEMMA RingsStep ==
  ASSUME NEW q, NEW q2, NEW l \in Lists, NEW w, Rings(q), q2 = [q EXCEPT ![l] = w],
         Ring(w, root'[l], next', prev'),
         \A m \in Lists : m # l => root'[m] = root[m],
         \A n \in heap \ Held(q[l]) : next'[n] = next[n] /\ prev'[n] = prev[n],
         \A n \in Held(w) : n \in heap => n \in Held(q[l]),
         heap' = (heap \ Held(q[l])) \union Held(w),
         \A n \in heap' : data'[n] \in Items
  PROVE  Rings(q2)'
<1>1. /\ q \in [Lists -> Seq(Nodes)]
      /\ \A m \in Lists : Ring(q[m], root[m], next, prev)
      /\ \A m, k \in Lists : m # k => Held(q[m]) \intersect Held(q[k]) = {}
      /\ heap = UNION {Held(q[m]) : m \in Lists}
  BY DEF Rings
<1>2. w \in Seq(Nodes)
  BY DEF Ring
<1>3. q2 \in [Lists -> Seq(Nodes)] /\ q2[l] = w /\ \A m \in Lists : m # l => q2[m] = q[m]
  BY <1>1, <1>2
<1>4. ASSUME NEW m \in Lists PROVE Ring(q2[m], root'[m], next', prev')
  <2>1. CASE m = l
    BY <1>3, <2>1
  <2>2. CASE m # l
    <3>1. Held(q[m]) \subseteq heap /\ Held(q[m]) \intersect Held(q[l]) = {}
      BY <1>1, <2>2
    <3>2. \A n \in Held(q[m]) : next'[n] = next[n] /\ prev'[n] = prev[n]
      BY <3>1
    <3>3. Ring(q[m], root[m], next', prev')
      BY <1>1, <3>2, RingSame
    <3> QED BY <1>3, <2>2, <3>3
  <2> QED BY <2>1, <2>2
<1>5. ASSUME NEW m \in Lists, m # l PROVE Held(w) \intersect Held(q[m]) = {}
  BY <1>1, <1>5
<1>6. \A m, k \in Lists : m # k => Held(q2[m]) \intersect Held(q2[k]) = {}
  BY <1>1, <1>3, <1>5
<1>7. heap' = UNION {Held(q2[m]) : m \in Lists}
  <2>1. ASSUME NEW n \in heap' PROVE \E m \in Lists : n \in Held(q2[m])
    <3>1. CASE n \in Held(w)
      BY <1>3, <3>1
    <3>2. CASE n \in heap \ Held(q[l])
      <4>1. PICK m \in Lists : n \in Held(q[m])
        BY <1>1, <3>2
      <4>2. m # l
        BY <3>2, <4>1
      <4> QED BY <1>3, <4>1, <4>2
    <3> QED BY <3>1, <3>2
  <2>2. ASSUME NEW m \in Lists, NEW n \in Held(q2[m]) PROVE n \in heap'
    <3>1. CASE m = l
      BY <1>3, <3>1
    <3>2. CASE m # l
      BY <1>1, <1>3, <3>2
    <3> QED BY <3>1, <3>2
  <2> QED BY <2>1, <2>2
<1> QED BY <1>3, <1>4, <1>6, <1>7 DEF Rings

(* The links and the contents of all lists stay.                            *)
LEMMA RingsStay ==
  ASSUME NEW q, Rings(q), UNCHANGED <<next, prev, heap, root>>,
         \A n \in heap : data'[n] \in Items
  PROVE  Rings(q)'
BY DEF Rings

(* ListTyped, field by field.                                               *)
LEMMA TypedFacts ==
  ASSUME ListTyped
  PROVE  /\ data \in [Nodes -> Items \union {Null}]
         /\ next \in [Nodes -> Nodes \union {Null}] /\ prev \in [Nodes -> Nodes \union {Null}]
         /\ heap \subseteq Nodes /\ IsFiniteSet(Nodes \ heap)
         /\ root \in [Lists -> Nodes \union {Null}] /\ len \in [Lists -> Nat]
         /\ lock \in [Lists -> Threads \union {Nobody}] /\ alive \in [Lists -> BOOLEAN]
         /\ DOMAIN op = Threads
<1>1. IsFiniteSet(Nodes \ heap)
  BY FiniteAssumption, FS_Subset
<1> QED BY <1>1 DEF ListTyped, TypeOK

(* malloc finds a node for an addition that has been called.                *)
LEMMA FreshIsFree ==
  ASSUME ListTyped, Roomy, NEW t \in Threads, op[t].do \in Adding
  PROVE  Fresh \in Nodes \ heap
<1>1. PICK A : A = {u \in Threads : op[u].do \in Adding}
  OBVIOUS
<1>2. t \in A /\ IsFiniteSet(A)
  <2>1. A \subseteq Threads
    BY <1>1
  <2> QED BY <1>1, <2>1, FiniteAssumption, FS_Subset
<1>3. Cardinality(A) \in Nat \ {0}
  BY <1>2, CountOneLess
<1>4. Nodes \ heap # {}
  <2>1. SUFFICES ASSUME Nodes \ heap = {} PROVE FALSE
    OBVIOUS
  <2>2. Cardinality(Nodes \ heap) = 0
    BY <2>1, FS_EmptySet
  <2> QED BY <1>1, <1>3, <2>2 DEF Roomy
<1> QED BY <1>4 DEF Fresh

(* What an addition of node n with item x leaves, w of the list.            *)
Linked(l, n, x, q, q2, w) ==
  /\ heap' = heap \union {n} /\ data' = [data EXCEPT ![n] = x]
  /\ next' \in [Nodes -> Nodes \union {Null}] /\ prev' \in [Nodes -> Nodes \union {Null}]
  /\ root' \in [Lists -> Nodes \union {Null}]
  /\ \A m \in heap \ Held(q[l]) : next'[m] = next[m] /\ prev'[m] = prev[m]
  /\ Rings(q2)' /\ q2 = [q EXCEPT ![l] = w]

(* The new node is the first of its list or the last.                       *)
LEMMA AddEffect ==
  ASSUME NEW q, ListTyped, Roomy, Rings(q), NEW t \in Threads, On(t) \in Lists, Add(t)
  PROVE  \E n \in Nodes \ heap, x \in Items : \E q2, w :
           /\ Linked(On(t), n, x, q, q2, w)
           /\ w = IF Doing(t, "addHead") THEN <<n>> \o q[On(t)] ELSE q[On(t)] \o <<n>>
<1>1. PICK n, l : n = Fresh /\ l = On(t)
  OBVIOUS
<1>2. n \in Nodes /\ n \notin heap /\ l \in Lists
  BY <1>1, FreshIsFree DEF Add
<1>3. /\ data \in [Nodes -> Items \union {Null}]
      /\ next \in [Nodes -> Nodes \union {Null}] /\ prev \in [Nodes -> Nodes \union {Null}]
      /\ heap \subseteq Nodes /\ root \in [Lists -> Nodes \union {Null}]
  BY TypedFacts
<1>4. PICK x \in Items : Link(l, n, x)
  BY <1>1 DEF Add
<1>5. PICK s : s = q[l]
  OBVIOUS
<1>6. /\ Ring(s, root[l], next, prev) /\ s \in Seq(Nodes) /\ Held(s) \subseteq heap /\ n \notin Held(s)
      /\ \A m \in heap : data[m] \in Items
      /\ q \in [Lists -> Seq(Nodes)]
  BY <1>2, <1>5 DEF Rings
<1>7. PICK first \in BOOLEAN : first <=> Doing(t, "addHead")
  OBVIOUS
<1>8. PICK w : w = IF first THEN <<n>> \o s ELSE s \o <<n>>
  OBVIOUS
<1>9. root' = [root EXCEPT ![l] = IF first \/ @ = Null THEN n ELSE @]
  BY <1>1, <1>7 DEF Add
<1>10. heap' = heap \union {n} /\ data' = [data EXCEPT ![n] = x]
  BY <1>4 DEF Link
<1>11. /\ Ring(w, root'[l], next', prev') /\ Held(w) = Held(s) \union {n}
       /\ next' \in [Nodes -> Nodes \union {Null}] /\ prev' \in [Nodes -> Nodes \union {Null}]
       /\ \A m \in heap \ Held(s) : next'[m] = next[m] /\ prev'[m] = prev[m]
  <2>1. CASE s = << >>
    <3>1. root[l] = Null /\ w = <<n>>
      BY <1>6, <1>8, <2>1 DEF Ring
    <3>2. next' = [next EXCEPT ![n] = n] /\ prev' = [prev EXCEPT ![n] = n]
      BY <1>4, <3>1 DEF Link
    <3>3. next'[n] = n /\ prev'[n] = n /\ root'[l] = n
      BY <1>2, <1>3, <1>9, <3>1, <3>2
    <3>4. Held(w) = {n} /\ Held(s) = {}
      <4>1. Held(<<n>>) = {n} /\ Held(<< >>) = {}
        BY ONLY DEF Held
      <4> QED BY ONLY <2>1, <3>1, <4>1
    <3>5. Ring(w, root'[l], next', prev')
      BY ONLY <1>2, <3>1, <3>3, RingAlone
    <3>6. /\ next' \in [Nodes -> Nodes \union {Null}] /\ prev' \in [Nodes -> Nodes \union {Null}]
          /\ \A m \in heap \ Held(s) : next'[m] = next[m] /\ prev'[m] = prev[m]
      BY ONLY <1>2, <1>3, <3>2
    <3> QED BY <3>4, <3>5, <3>6
  <2>2. CASE s # << >>
    <3>1. /\ root[l] = s[1] /\ root[l] \in Nodes /\ prev[s[1]] = s[Len(s)]
          /\ s[1] \in Nodes /\ s[Len(s)] \in Nodes
      BY ONLY <1>6, <2>2, RingEnds
    <3>2. s[1] \in Held(s) /\ s[Len(s)] \in Held(s)
      <4>1. Len(s) \in Nat \ {0}
        BY ONLY <1>6, <2>2, RingEnds
      <4>2. 1 \in 1 .. Len(s) /\ Len(s) \in 1 .. Len(s)
        BY ONLY <4>1
      <4> QED BY ONLY <4>2 DEF Held
    <3>3. root[l] # Null
      BY <3>1, DistinctAssumption
    <3>4. /\ next' = [next EXCEPT ![n] = s[1], ![s[Len(s)]] = n]
          /\ prev' = [prev EXCEPT ![n] = s[Len(s)], ![s[1]] = n]
      BY <1>4, <3>1, <3>3 DEF Link
    <3>5. s[1] # n /\ s[Len(s)] # n
      BY <1>6, <3>2
    <3>6. \A m \in Nodes :
            /\ next'[m] = IF m = n THEN s[1] ELSE IF m = s[Len(s)] THEN n ELSE next[m]
            /\ prev'[m] = IF m = n THEN s[Len(s)] ELSE IF m = s[1] THEN n ELSE prev[m]
      BY ONLY <1>2, <1>3, <3>1, <3>4, <3>5
    <3>7. /\ Ring(<<n>> \o s, n, next', prev') /\ Held(<<n>> \o s) = Held(s) \union {n}
          /\ Ring(s \o <<n>>, root[l], next', prev') /\ Held(s \o <<n>>) = Held(s) \union {n}
      <4>1. Between(s, n, next, prev, next', prev')
        BY ONLY <3>6 DEF Between
      <4>2. Grown(s, <<n>>, n, root[l], next', prev')
        BY ONLY <1>2, <1>6, <2>2, <4>1, RingGrows
      <4> QED BY ONLY <4>2 DEF Grown
    <3>8. root'[l] = IF first THEN n ELSE root[l]
      BY <1>2, <1>3, <1>9, <3>3
    <3>9. /\ next' \in [Nodes -> Nodes \union {Null}] /\ prev' \in [Nodes -> Nodes \union {Null}]
      BY ONLY <1>2, <1>3, <3>1, <3>4
    <3>10. \A m \in heap \ Held(s) : next'[m] = next[m] /\ prev'[m] = prev[m]
      <4>1. \A m \in heap \ Held(s) : m \in Nodes /\ m # n /\ m # s[1] /\ m # s[Len(s)]
        BY <1>2, <1>3, <3>2
      <4> QED BY ONLY <3>6, <4>1
    <3> QED BY ONLY <1>7, <1>8, <3>7, <3>8, <3>9, <3>10
  <2> QED BY <2>1, <2>2
<1>12. PICK q2 : q2 = [q EXCEPT ![l] = w]
  OBVIOUS
<1>13. \A m \in Lists : m # l => root'[m] = root[m]
  BY <1>3, <1>9
<1>14. \A m \in heap' : data'[m] \in Items
  BY <1>2, <1>3, <1>6, <1>10
<1>15. Rings(q2)'
  <2>1. \A m \in Held(w) : m \in heap => m \in Held(q[l])
    BY <1>2, <1>5, <1>11
  <2>2. heap' = (heap \ Held(q[l])) \union Held(w)
    BY <1>5, <1>6, <1>10, <1>11
  <2> QED BY <1>2, <1>5, <1>11, <1>12, <1>13, <1>14, <2>1, <2>2, RingsStep
<1>16. w = IF Doing(t, "addHead") THEN <<n>> \o q[On(t)] ELSE q[On(t)] \o <<n>>
  BY <1>1, <1>5, <1>7, <1>8
<1>17. root' \in [Lists -> Nodes \union {Null}]
  BY <1>2, <1>3, <1>9
<1>18. Linked(l, n, x, q, q2, w)
  BY ONLY <1>5, <1>10, <1>11, <1>12, <1>15, <1>17 DEF Linked
<1> QED BY ONLY <1>1, <1>2, <1>4, <1>16, <1>18
-----------------------------------------------------------------------------
(* What a removal of node n leaves, w of the list.                          *)
Dropped(l, n, q, q2, w) ==
  /\ heap' = heap \ {n} /\ data' = [data EXCEPT ![n] = Null] /\ n \in heap
  /\ next' \in [Nodes -> Nodes \union {Null}] /\ prev' \in [Nodes -> Nodes \union {Null}]
  /\ root' \in [Lists -> Nodes \union {Null}]
  /\ \A m \in heap \ Held(q[l]) : next'[m] = next[m]
  /\ Rings(q2)' /\ q2 = [q EXCEPT ![l] = w]

(* A removal is right when the ring without its node is.                    *)
LEMMA DropRings ==
  ASSUME NEW q, ListTyped, Rings(q), NEW l \in Lists, NEW n, NEW w, n \in Held(q[l]),
         Held(w) = Held(q[l]) \ {n}, Discard(n), Ring(w, root'[l], next', prev'),
         next' \in [Nodes -> Nodes \union {Null}], prev' \in [Nodes -> Nodes \union {Null}],
         root' \in [Lists -> Nodes \union {Null}],
         \A m \in Lists : m # l => root'[m] = root[m],
         \A m \in heap \ Held(q[l]) : next'[m] = next[m] /\ prev'[m] = prev[m]
  PROVE  \E q2 : Dropped(l, n, q, q2, w)
<1>1. PICK q2 : q2 = [q EXCEPT ![l] = w]
  OBVIOUS
<1>2. heap \subseteq Nodes /\ data \in [Nodes -> Items \union {Null}]
  BY TypedFacts
<1>3. Held(q[l]) \subseteq heap /\ \A m \in heap : data[m] \in Items
  BY DEF Rings
<1>4. heap' = heap \ {n} /\ data' = [data EXCEPT ![n] = Null]
  BY DEF Discard
<1>5. heap' = (heap \ Held(q[l])) \union Held(w)
  BY <1>3, <1>4
<1>6. \A m \in heap' : data'[m] \in Items
  BY <1>2, <1>3, <1>4
<1>7. \A m \in Held(w) : m \in heap => m \in Held(q[l])
  OBVIOUS
<1>8. Rings(q2)'
  BY <1>1, <1>5, <1>6, <1>7, RingsStep
<1> QED BY <1>1, <1>3, <1>4, <1>8 DEF Dropped

(* A list without nodes.                                                    *)
LEMMA NothingLeft ==
  ASSUME NEW nx, NEW pv
  PROVE  Ring(<< >>, Null, nx, pv) /\ Held(<< >>) = {}
BY DEF Ring, Held

(* mboxListRemoveHead leaves the list's tail.                               *)
LEMMA RemoveHeadEffect ==
  ASSUME NEW q, ListTyped, Rings(q), NEW t \in Threads, NEW l \in Lists, l = On(t),
         Len(q[l]) = len[l], RemoveHead(t)
  PROVE  /\ q[l] # << >>
         /\ \E q2 : Dropped(l, q[l][1], q, q2, Tail(q[l]))
<1>1. PICK s : s = q[l]
  OBVIOUS
<1>2. /\ next \in [Nodes -> Nodes \union {Null}] /\ prev \in [Nodes -> Nodes \union {Null}]
      /\ heap \subseteq Nodes /\ root \in [Lists -> Nodes \union {Null}]
  BY TypedFacts
<1>3. Ring(s, root[l], next, prev) /\ s \in Seq(Nodes) /\ Held(s) \subseteq heap
  BY <1>1 DEF Rings
<1>4. len[l] # 0 /\ root[l] # Null /\ Discard(root[l])
  BY DEF RemoveHead
<1>5. s # << >>
  BY <1>3, <1>4 DEF Ring
<1>6. PICK c \in Nat \ {0} : c = Len(s)
  BY <1>3, <1>5, RingEnds
<1>7. /\ root[l] = s[1] /\ prev[s[1]] = s[c] /\ s[1] \in Nodes /\ s[c] \in Nodes
      /\ \A i \in 1 .. c - 1 : next[s[i]] = s[i + 1] /\ prev[s[i + 1]] = s[i]
  BY ONLY <1>3, <1>5, <1>6, RingEnds
<1>8. /\ \A i, j \in 1 .. c : s[i] = s[j] => i = j
      /\ \A i \in 1 .. c : s[i] \in Nodes /\ s[i] \in Held(s)
      /\ 1 \in 1 .. c /\ c \in 1 .. c
  BY <1>3, <1>6 DEF Ring, Held
<1>9. CASE c = 1
  <2>1. /\ root' = [root EXCEPT ![l] = Null]
        /\ next' = [next EXCEPT ![s[1]] = Null]
        /\ prev' = [prev EXCEPT ![s[1]] = Null]
    BY <1>1, <1>6, <1>7, <1>9 DEF RemoveHead
  <2>2. Tail(s) = << >>
    <3>1. PICK w : w = Tail(s)
      OBVIOUS
    <3>2. w \in Seq(Nodes) /\ Len(w) = c - 1
      BY ONLY <1>3, <1>5, <1>6, <3>1, HeadTailProperties
    <3>3. w = << >>
      BY ONLY <1>9, <3>2
    <3> QED BY ONLY <3>1, <3>3
  <2>3. Ring(Tail(s), root'[l], next', prev') /\ Held(Tail(s)) = {}
    <3>1. root'[l] = Null
      BY ONLY <1>2, <2>1, l \in Lists
    <3>2. Ring(<< >>, Null, next', prev') /\ Held(<< >>) = {}
      BY ONLY NothingLeft
    <3> QED BY ONLY <2>2, <3>1, <3>2
  <2>4. Held(s) = {s[1]}
    BY ONLY <1>6, <1>9 DEF Held
  <2>5. /\ next' \in [Nodes -> Nodes \union {Null}] /\ prev' \in [Nodes -> Nodes \union {Null}]
        /\ root' \in [Lists -> Nodes \union {Null}]
        /\ \A m \in Lists : m # l => root'[m] = root[m]
        /\ \A m \in heap \ Held(s) : next'[m] = next[m] /\ prev'[m] = prev[m]
    BY ONLY <1>2, <2>1, <2>4
  <2>6. s[1] \in Held(s) /\ Held(Tail(s)) = Held(s) \ {s[1]}
    BY <2>3, <2>4
  <2> QED BY <1>1, <1>4, <1>5, <1>7, <2>3, <2>5, <2>6, DropRings
<1>10. CASE c # 1
  <2>1. 2 \in 1 .. c /\ next[s[1]] = s[2] /\ s[1] # s[2] /\ s[1] # s[c] /\ c > 1
    BY <1>6, <1>7, <1>8, <1>10
  <2>2. /\ root' = [root EXCEPT ![l] = s[2]]
        /\ next' = [next EXCEPT ![s[c]] = s[2], ![s[1]] = Null]
        /\ prev' = [prev EXCEPT ![s[2]] = s[c], ![s[1]] = Null]
    BY <1>1, <1>6, <1>7, <1>10, <2>1 DEF RemoveHead
  <2>3. s[2] \in Nodes
    BY <1>8, <2>1
  <2>4. /\ \A m \in Nodes : next'[m] = IF m = s[1] THEN Null ELSE IF m = s[c] THEN s[2] ELSE next[m]
        /\ \A m \in Nodes : prev'[m] = IF m = s[1] THEN Null ELSE IF m = s[2] THEN s[c] ELSE prev[m]
        /\ next' \in [Nodes -> Nodes \union {Null}] /\ prev' \in [Nodes -> Nodes \union {Null}]
    BY ONLY <1>2, <1>7, <2>1, <2>2, <2>3
  <2>5. root' \in [Lists -> Nodes \union {Null}] /\ root'[l] = s[2]
        /\ \A m \in Lists : m # l => root'[m] = root[m]
    BY <1>2, <2>2, <2>3
  <2>6. next'[s[c]] = s[2] /\ prev'[s[2]] = s[c]
    BY ONLY <1>7, <2>1, <2>3, <2>4
  <2>7. ASSUME NEW i \in 2 .. c - 1 PROVE next'[s[i]] = next[s[i]]
    <3>1. i \in 1 .. c /\ i # 1 /\ i # c
      OBVIOUS
    <3>2. s[i] # s[1] /\ s[i] # s[c] /\ s[i] \in Nodes
      BY <1>8, <3>1
    <3> QED BY <2>4, <3>2
  <2>8. ASSUME NEW i \in 3 .. c PROVE prev'[s[i]] = prev[s[i]]
    <3>1. i \in 1 .. c /\ i # 1 /\ i # 2
      OBVIOUS
    <3>2. s[i] # s[1] /\ s[i] # s[2] /\ s[i] \in Nodes
      BY <1>8, <2>1, <3>1
    <3> QED BY <2>4, <3>2
  <2>9. Ring(Tail(s), s[2], next', prev') /\ Held(Tail(s)) = Held(s) \ {s[1]}
    <3>1. Unheaded(s, c, next, prev, next', prev')
      BY ONLY <1>6, <2>1, <2>6, <2>7, <2>8 DEF Unheaded
    <3> QED BY ONLY <1>3, <3>1, RingTail
  <2>10. \A m \in heap \ Held(s) : next'[m] = next[m] /\ prev'[m] = prev[m]
    <3>1. \A m \in heap \ Held(s) : m \in Nodes /\ m # s[1] /\ m # s[2] /\ m # s[c]
      BY <1>2, <1>8, <2>1
    <3> QED BY ONLY <2>4, <3>1
  <2>11. s[1] \in Held(s) /\ Ring(Tail(s), root'[l], next', prev')
    BY <1>8, <2>5, <2>9
  <2> QED BY <1>1, <1>4, <1>5, <1>7, <2>4, <2>5, <2>9, <2>10, <2>11, DropRings
<1> QED BY <1>9, <1>10

(* mboxListRemoveTail leaves the list's front.                              *)
LEMMA RemoveTailEffect ==
  ASSUME NEW q, ListTyped, Rings(q), NEW t \in Threads, NEW l \in Lists, l = On(t),
         Len(q[l]) = len[l], RemoveTail(t)
  PROVE  /\ q[l] # << >>
         /\ \E q2 : Dropped(l, q[l][Len(q[l])], q, q2, SubSeq(q[l], 1, Len(q[l]) - 1))
<1>1. PICK s : s = q[l]
  OBVIOUS
<1>2. /\ next \in [Nodes -> Nodes \union {Null}] /\ prev \in [Nodes -> Nodes \union {Null}]
      /\ heap \subseteq Nodes /\ root \in [Lists -> Nodes \union {Null}]
  BY TypedFacts
<1>3. Ring(s, root[l], next, prev) /\ s \in Seq(Nodes) /\ Held(s) \subseteq heap
  BY <1>1 DEF Rings
<1>4. len[l] # 0 /\ Discard(prev[root[l]])
  BY DEF RemoveTail
<1>5. s # << >>
  BY <1>1, <1>3, <1>4
<1>6. PICK c \in Nat \ {0} : c = Len(s)
  BY <1>3, <1>5, RingEnds
<1>7. /\ root[l] = s[1] /\ prev[s[1]] = s[c] /\ s[1] \in Nodes /\ s[c] \in Nodes
      /\ \A i \in 1 .. c - 1 : next[s[i]] = s[i + 1] /\ prev[s[i + 1]] = s[i]
  BY ONLY <1>3, <1>5, <1>6, RingEnds
<1>8. /\ \A i, j \in 1 .. c : s[i] = s[j] => i = j
      /\ \A i \in 1 .. c : s[i] \in Nodes /\ s[i] \in Held(s)
      /\ 1 \in 1 .. c /\ c \in 1 .. c
  BY <1>3, <1>6 DEF Ring, Held
<1>w. PICK w : w = SubSeq(s, 1, c - 1)
  OBVIOUS
<1>9. CASE c = 1
  <2>1. /\ root' = [root EXCEPT ![l] = Null]
        /\ next' = [next EXCEPT ![s[1]] = Null]
        /\ prev' = [prev EXCEPT ![s[1]] = Null]
    BY <1>1, <1>6, <1>7, <1>9 DEF RemoveTail
  <2>2. w = << >>
    BY <1>w, <1>9
  <2>3. Ring(w, root'[l], next', prev') /\ Held(w) = {}
    BY <1>2, <2>1, <2>2, NothingLeft
  <2>4. Held(s) = {s[1]}
    BY ONLY <1>6, <1>9 DEF Held
  <2>5. /\ next' \in [Nodes -> Nodes \union {Null}] /\ prev' \in [Nodes -> Nodes \union {Null}]
        /\ root' \in [Lists -> Nodes \union {Null}]
        /\ \A m \in Lists : m # l => root'[m] = root[m]
        /\ \A m \in heap \ Held(s) : next'[m] = next[m] /\ prev'[m] = prev[m]
    BY ONLY <1>2, <2>1, <2>4
  <2>6. s[c] \in Held(s) /\ Held(w) = Held(s) \ {s[c]}
    BY <1>9, <2>3, <2>4
  <2>7. Discard(s[c])
    BY <1>4, <1>7
  <2>8. \E q2 : Dropped(l, s[c], q, q2, w)
    BY <1>1, <2>3, <2>5, <2>6, <2>7, DropRings
  <2> QED BY <1>1, <1>5, <1>6, <1>w, <2>8
<1>10. CASE c # 1
  <2>1. /\ c - 1 \in 1 .. c /\ c - 1 # c /\ c > 1 /\ (c - 1) + 1 = c
        /\ s[1] # s[c] /\ s[c - 1] # s[c] /\ s[c - 1] \in Nodes
    BY <1>6, <1>8, <1>10
  <2>2. prev[s[c]] = s[c - 1]
    <3>1. c - 1 \in 1 .. c - 1
      BY <2>1
    <3> QED BY <1>7, <2>1, <3>1
  <2>3. /\ next' = [next EXCEPT ![s[c - 1]] = s[1], ![s[c]] = Null]
        /\ prev' = [prev EXCEPT ![s[1]] = s[c - 1], ![s[c]] = Null]
        /\ root' = root
    BY <1>1, <1>6, <1>7, <1>10, <2>2 DEF RemoveTail
  <2>4. /\ \A m \in Nodes : next'[m] = IF m = s[c] THEN Null ELSE IF m = s[c - 1] THEN s[1] ELSE next[m]
        /\ \A m \in Nodes : prev'[m] = IF m = s[c] THEN Null ELSE IF m = s[1] THEN s[c - 1] ELSE prev[m]
        /\ next' \in [Nodes -> Nodes \union {Null}] /\ prev' \in [Nodes -> Nodes \union {Null}]
    BY ONLY <1>2, <1>7, <2>1, <2>3
  <2>5. next'[s[c - 1]] = s[1] /\ prev'[s[1]] = s[c - 1]
    BY ONLY <1>7, <2>1, <2>4
  <2>6. ASSUME NEW i \in 1 .. c - 2 PROVE next'[s[i]] = next[s[i]]
    <3>1. i \in 1 .. c /\ i # c /\ i # c - 1
      OBVIOUS
    <3>2. s[i] # s[c] /\ s[i] # s[c - 1] /\ s[i] \in Nodes
      BY <1>8, <2>1, <3>1
    <3> QED BY <2>4, <3>2
  <2>7. ASSUME NEW i \in 2 .. c - 1 PROVE prev'[s[i]] = prev[s[i]]
    <3>1. i \in 1 .. c /\ i # 1 /\ i # c
      OBVIOUS
    <3>2. s[i] # s[1] /\ s[i] # s[c] /\ s[i] \in Nodes
      BY <1>8, <3>1
    <3> QED BY <2>4, <3>2
  <2>8. Ring(w, root[l], next', prev') /\ Held(w) = Held(s) \ {s[c]}
    <3>1. Untailed(s, c, w, next, prev, next', prev')
      BY ONLY <1>6, <1>w, <2>1, <2>5, <2>6, <2>7 DEF Untailed
    <3> QED BY ONLY <1>3, <3>1, RingFront
  <2>9. \A m \in heap \ Held(s) : next'[m] = next[m] /\ prev'[m] = prev[m]
    <3>1. \A m \in heap \ Held(s) : m \in Nodes /\ m # s[1] /\ m # s[c] /\ m # s[c - 1]
      BY <1>2, <1>8, <2>1
    <3> QED BY ONLY <2>4, <3>1
  <2>10. /\ s[c] \in Held(s) /\ Ring(w, root'[l], next', prev') /\ Discard(s[c])
         /\ root' \in [Lists -> Nodes \union {Null}]
         /\ \A m \in Lists : m # l => root'[m] = root[m]
    BY <1>2, <1>4, <1>7, <1>8, <2>3, <2>8
  <2>11. \E q2 : Dropped(l, s[c], q, q2, w)
    BY <1>1, <2>4, <2>8, <2>9, <2>10, DropRings
  <2> QED BY <1>1, <1>5, <1>6, <1>w, <2>11
<1> QED BY <1>9, <1>10
-----------------------------------------------------------------------------
(* A sort goes on as it was when its thread and its list are left alone.    *)
LEMMA SortingKept ==
  ASSUME NEW t \in Threads, NEW s, s \in Seq(Nodes), Sorting(t, s),
         op'[t] = op[t], frames'[t] = frames[t], part'[t] = part[t],
         \A n \in Held(s) : data'[n] = data[n] /\ next'[n] = next[n]
  PROVE  Sorting(t, s)'
<1>1. Len(s) \in Nat /\ \A i \in 1 .. Len(s) : s[i] \in Held(s)
  BY DEF Held
<1>2. SUFFICES ASSUME op[t].do \in {"helper", "pivot"}
               PROVE  /\ Len(s) >= 2
                      /\ \E R : /\ Divided(s, frames[t], R)
                                /\ InOrder(s, R)'
                                /\ Doing(t, "pivot") => /\ frames[t] # << >> /\ R[1].lo < R[1].hi
                                                        /\ Compared(s, R[1], part[t])'
  BY DEF Sorting, Doing, Divided, Spans, Compared
<1>3. PICK R : /\ Divided(s, frames[t], R)
               /\ InOrder(s, R)
               /\ Doing(t, "pivot") => /\ frames[t] # << >> /\ R[1].lo < R[1].hi
                                       /\ Compared(s, R[1], part[t])
  BY <1>2 DEF Sorting
<1>4. \A i \in 1 .. Len(s) : data'[s[i]] = data[s[i]]
  BY <1>1
<1>5. InOrder(s, R)'
  BY <1>3, <1>4 DEF InOrder
<1>6. ASSUME Doing(t, "pivot") PROVE Compared(s, R[1], part[t])'
  <2>1. PICK r : r = R[1]
    OBVIOUS
  <2>2. frames[t] # << >> /\ Compared(s, r, part[t])
    BY <1>3, <1>6, <2>1
  <2>3. r.lo \in 1 .. Len(s) + 1 /\ r.hi \in 0 .. Len(s)
    <3>1. frames[t] # << >> => Len(frames[t]) # 0
      OBVIOUS
    <3> QED BY <1>1, <1>3, <2>1, <2>2 DEF Divided, Spans
  <2>4. PICK i, j \in r.lo .. r.hi :
          /\ i <= j
          /\ part[t].prev \in Held(s) /\ next[part[t].prev] = s[i] /\ part[t].current = s[j]
          /\ \A k \in r.lo .. i - 1 : Key(data[s[k]]) <= Key(data[s[r.hi]])
          /\ \A k \in i .. j - 1 : Key(data[s[k]]) > Key(data[s[r.hi]])
    BY <2>2 DEF Compared
  <2>5. \A k \in r.lo .. r.hi : data'[s[k]] = data[s[k]]
    BY <1>1, <1>4, <2>3
  <2>6. /\ \A k \in r.lo .. i - 1 : Key(data'[s[k]]) <= Key(data'[s[r.hi]])
        /\ \A k \in i .. j - 1 : Key(data'[s[k]]) > Key(data'[s[r.hi]])
    <3>1. r.hi \in r.lo .. r.hi
      BY <2>3, <2>4
    <3>2. \A k \in r.lo .. i - 1 : k \in r.lo .. r.hi
      BY <2>3, <2>4
    <3>3. \A k \in i .. j - 1 : k \in r.lo .. r.hi
      BY <2>3, <2>4
    <3> QED BY ONLY <2>4, <2>5, <3>1, <3>2, <3>3
  <2>7. next'[part[t].prev] = s[i]
    BY <2>4
  <2> QED BY <2>1, <2>4, <2>6, <2>7 DEF Compared
<1> QED BY <1>2, <1>3, <1>5, <1>6 DEF Sorting

(* A step of the threads T on the lists L, the rings of which it makes      *)
(* those of q2, leaves the others alone.                                    *)
Aside(T, L, q, q2) ==
  /\ L \subseteq Lists /\ \A l \in L : lock[l] \in T \union {Nobody}
  /\ \A u \in Threads \ T : op'[u] = op[u] /\ frames'[u] = frames[u] /\ part'[u] = part[u]
  /\ \A m \in Lists \ L : /\ q2[m] = q[m] /\ len'[m] = len[m] /\ lock'[m] = lock[m]
                          /\ \A n \in Held(q[m]) : data'[n] = data[n] /\ next'[n] = next[n]

(* A step aside from all others keeps the lists when it keeps those it is   *)
(* about.                                                                   *)
LEMMA KeptStep ==
  ASSUME NEW q, NEW q2, NEW T, NEW L, Kept(q), Aside(T, L, q, q2), Rings(q2)',
         \A t \in T : Serving(t, q2)', \A l \in L : Unlocked(l, q2[l])'
  PROVE  Kept(q2)'
<1>1. ASSUME NEW m \in Lists PROVE Unlocked(m, q2[m])'
  <2>1. CASE m \in L
    BY <2>1
  <2>2. CASE m \notin L
    <3>1. q2[m] = q[m] /\ len'[m] = len[m] /\ lock'[m] = lock[m] /\ Unlocked(m, q[m])
      BY <2>2 DEF Aside, Kept
    <3> QED BY ONLY <3>1 DEF Unlocked
  <2> QED BY <2>1, <2>2
<1>2. ASSUME NEW u \in Threads PROVE Serving(u, q2)'
  <2>1. CASE u \in T
    BY <2>1
  <2>2. CASE u \notin T
    <3>1. Serving(u, q) /\ op'[u] = op[u] /\ frames'[u] = frames[u] /\ part'[u] = part[u]
      BY <2>2 DEF Aside, Kept
    <3>2. SUFFICES ASSUME Busy(u) PROVE Serving(u, q2)'
      BY <3>1 DEF Serving, Busy
    <3>3. PICK m \in Lists : m = On(u) /\ lock[m] = u
      BY <3>1, <3>2 DEF Serving
    <3>4. PICK s : s = q[m]
      OBVIOUS
    <3>5. m \notin L
      <4>1. u # Nobody
        BY DistinctAssumption
      <4> QED BY <2>2, <3>3, <4>1 DEF Aside
    <3>6. /\ q2[m] = s /\ len'[m] = len[m] /\ lock'[m] = u
          /\ \A n \in Held(s) : data'[n] = data[n] /\ next'[n] = next[n]
      BY <3>3, <3>4, <3>5 DEF Aside
    <3>7. s \in Seq(Nodes)
      BY <3>4 DEF Kept, Rings
    <3>8. Counts(u, Len(s)) /\ Sorting(u, s)
      BY <3>1, <3>2, <3>3, <3>4 DEF Serving
    <3>9. Sorting(u, s)'
      BY ONLY <3>1, <3>6, <3>7, <3>8, SortingKept, u \in Threads
    <3>10. On(u)' = m
      BY <3>1, <3>3 DEF On
    <3>11. Counts(u, Len(s))'
      BY ONLY <3>1, <3>3, <3>6, <3>8, <3>10 DEF Counts, Doing, On
    <3> QED BY ONLY <3>3, <3>6, <3>9, <3>10, <3>11 DEF Serving
  <2> QED BY <2>1, <2>2
<1> QED BY <1>1, <1>2 DEF Kept
-----------------------------------------------------------------------------
(* A step of t on l, its own or a free list.                                *)
Only(t, l, q, q2) ==
  /\ \A u \in Threads : u # t => op'[u] = op[u] /\ frames'[u] = frames[u] /\ part'[u] = part[u]
  /\ \A m \in Lists : m # l =>
       /\ q2[m] = q[m] /\ len'[m] = len[m] /\ lock'[m] = lock[m]
       /\ \A n \in Held(q[m]) : data'[n] = data[n] /\ next'[n] = next[n]

(* The same of one thread and one list.                                     *)
LEMMA OwnStep ==
  ASSUME NEW q, NEW q2, NEW t \in Threads, NEW l \in Lists, Kept(q), lock[l] \in {t, Nobody},
         Only(t, l, q, q2), Rings(q2)', Serving(t, q2)', Unlocked(l, q2[l])'
  PROVE  Kept(q2)'
<1>1. PICK T, L : T = {t} /\ L = {l}
  OBVIOUS
<1>2. Aside(T, L, q, q2)
  BY <1>1 DEF Aside, Only
<1>3. (\A u \in T : Serving(u, q2)') /\ (\A m \in L : Unlocked(m, q2[m])')
  BY <1>1
<1> QED BY ONLY <1>2, <1>3, Kept(q), Rings(q2)', KeptStep

(* What the list of a thread at work is.                                    *)
Served(t, l, q, s) ==
  /\ l \in Lists /\ On(t) = l /\ lock[l] = t
  /\ s = q[l] /\ s \in Seq(Nodes) /\ Len(s) \in Nat
  /\ Ring(s, root[l], next, prev) /\ Held(s) \subseteq heap
  /\ \A n \in heap : data[n] \in Items
  /\ Counts(t, Len(s)) /\ Sorting(t, s)

(* A thread at work has the lock of its list.                               *)
LEMMA AtWork ==
  ASSUME NEW q, Kept(q), NEW t \in Threads, op[t].do # "none"
  PROVE  \E l, s : Served(t, l, q, s)
<1>1. PICK l \in Lists : l = On(t) /\ lock[l] = t
  BY DEF Kept, Serving, Busy
<1>2. PICK s : s = q[l]
  OBVIOUS
<1>3. s \in Seq(Nodes) /\ Ring(s, root[l], next, prev) /\ Held(s) \subseteq heap
      /\ \A n \in heap : data[n] \in Items
  BY <1>2 DEF Kept, Rings
<1>4. Counts(t, Len(s)) /\ Sorting(t, s)
  BY <1>1, <1>2 DEF Kept, Serving, Busy
<1>5. Len(s) \in Nat
  BY <1>3
<1> QED BY <1>1, <1>2, <1>3, <1>4, <1>5 DEF Served

(* A step that frees nodes or none and starts no addition leaves room for   *)
(* those called.                                                            *)
LEMMA RoomStays ==
  ASSUME Roomy, ListTyped, heap' \subseteq heap,
         \A u \in Threads : op'[u].do \in Adding => op[u].do \in Adding
  PROVE  Roomy'
<1>1. PICK A, B : A = {u \in Threads : op[u].do \in Adding} /\ B = {u \in Threads : op'[u].do \in Adding}
  OBVIOUS
<1>2. B \subseteq A /\ A \subseteq Threads
  BY <1>1
<1>3. IsFiniteSet(A)
  BY <1>2, FiniteAssumption, FS_Subset
<1>4. Cardinality(B) <= Cardinality(A) /\ Cardinality(A) \in Nat /\ Cardinality(B) \in Nat
  BY <1>2, <1>3, FS_Subset, FS_CardinalityType
<1>5. PICK F, G : F = Nodes \ heap /\ G = Nodes \ heap'
  OBVIOUS
<1>6. IsFiniteSet(G) /\ F \subseteq G
  BY <1>5, FiniteAssumption, FS_Subset
<1>7. Cardinality(F) <= Cardinality(G) /\ Cardinality(F) \in Nat /\ Cardinality(G) \in Nat
  BY <1>6, FS_Subset, FS_CardinalityType
<1>8. Cardinality(A) <= Cardinality(F)
  BY <1>1, <1>5 DEF Roomy
<1>9. Cardinality(B) <= Cardinality(G)
  BY <1>4, <1>7, <1>8
<1> QED BY <1>1, <1>5, <1>9 DEF Roomy, Adding

(* The step that is not of an addition keeps room for those that are.       *)
LEMMA OpStep ==
  ASSUME ListTyped, Roomy, NEW t \in Threads, NEW o, o.do \notin Adding, op' = [op EXCEPT ![t] = o],
         heap' \subseteq heap
  PROVE  Roomy' /\ op'[t] = o /\ \A u \in Threads : u # t => op'[u] = op[u]
<1>1. op'[t] = o /\ \A u \in Threads : u # t => op'[u] = op[u]
  BY TypedFacts
<1> QED BY <1>1, RoomStays


(* A step that touches no node.                                             *)
Quiet(t, l) ==
  /\ UNCHANGED <<fields, root>>
  /\ \A u \in Threads : u # t => op'[u] = op[u] /\ frames'[u] = frames[u] /\ part'[u] = part[u]
  /\ \A m \in Lists : m # l => len'[m] = len[m] /\ lock'[m] = lock[m]

(* A step that links, exchanges and frees nothing keeps the lists when its  *)
(* own list is as its operation says.                                       *)
LEMMA QuietStep ==
  ASSUME NEW q, NEW t \in Threads, NEW l \in Lists, Kept(q), lock[l] \in {t, Nobody},
         Quiet(t, l), Serving(t, q)', Unlocked(l, q[l])'
  PROVE  Kept(q)'
<1>1. Only(t, l, q, q)
  BY DEF Quiet, Only, fields
<1>2. Rings(q)'
  <2>1. Rings(q) /\ \A n \in heap : data'[n] \in Items
    BY DEF Kept, Rings, Quiet, fields
  <2> QED BY <2>1, RingsStay DEF Quiet, fields
<1> QED BY ONLY <1>1, <1>2, OwnStep, Kept(q), lock[l] \in {t, Nobody}, t \in Threads, l \in Lists,
                Serving(t, q)', Unlocked(l, q[l])'

(* Where a thread may be.                                                   *)
Waits == {"none", "added", "removed", "sort", "helper", "pivot"} \union Adding \union Removing

(* The types after a step that changes no node and no root.                 *)
LEMMA TypedStep ==
  ASSUME ListTyped, NEW t \in Threads, NEW l \in Lists, NEW o,
         o \in [do : Waits, on : Lists \union {Null}], op' = [op EXCEPT ![t] = o],
         UNCHANGED <<fields, root, alive>>,
         len' \in [Lists -> Nat], lock' \in [Lists -> Threads \union {Nobody}],
         frames' \in [Threads -> Seq(Frames)],
         part' \in [Threads -> [prev : Nodes \union {Null}, current : Nodes \union {Null}]]
  PROVE  ListTyped'
BY DEF ListTyped, TypeOK, Waits, Adding, Removing, fields

(* An addition is called when there is a node for it beside those of the    *)
(* others.                                                                  *)
LEMMA RoomGrows ==
  ASSUME ListTyped, Room, NEW t \in Threads, heap' = heap,
         \A u \in Threads : u # t => op'[u] = op[u]
  PROVE  Roomy'
<1>1. PICK A, B : A = {u \in Threads : op[u].do \in Adding} /\ B = {u \in Threads : op'[u].do \in Adding}
  OBVIOUS
<1>2. B \subseteq A \union {t} /\ A \subseteq Threads
  BY <1>1
<1>3. IsFiniteSet(A) /\ IsFiniteSet(A \union {t}) /\ Cardinality(A \union {t}) <= Cardinality(A) + 1
  <2>1. IsFiniteSet(A)
    BY <1>2, FiniteAssumption, FS_Subset
  <2> QED BY <2>1, FS_AddElement, FS_CardinalityType
<1>4. Cardinality(B) <= Cardinality(A) + 1 /\ Cardinality(A) \in Nat /\ Cardinality(B) \in Nat
  <2>1. /\ IsFiniteSet(B) /\ Cardinality(B) <= Cardinality(A \union {t})
    BY <1>2, <1>3, FS_Subset
  <2>2. Cardinality(A) \in Nat /\ Cardinality(B) \in Nat /\ Cardinality(A \union {t}) \in Nat
    BY <1>3, <2>1, FS_CardinalityType
  <2> QED BY <1>3, <2>1, <2>2
<1>5. PICK F : F = Nodes \ heap
  OBVIOUS
<1>6. Cardinality(F) \in Nat
  BY <1>5, TypedFacts, FS_CardinalityType
<1>7. Cardinality(F) > Cardinality(A)
  BY <1>1, <1>5 DEF Room
<1>8. Cardinality(B) <= Cardinality(F)
  BY <1>4, <1>6, <1>7
<1> QED BY <1>1, <1>5, <1>8 DEF Roomy, Adding

(* Every operation begins with a free list, the length of which is right.   *)
LEMMA CallKeeps ==
  ASSUME ListIInv, NEW t \in Threads, NEW l \in Lists, NEW what \in Adding \union Removing \union {"sort"},
         what \in Adding => Room, Call(t, l, what)
  PROVE  ListIInv'
<1>1. PICK o : o = [do |-> what, on |-> l]
  OBVIOUS
<1>2. /\ op[t] = Idle /\ lock[l] = Nobody
      /\ lock' = [lock EXCEPT ![l] = t] /\ op' = [op EXCEPT ![t] = o]
      /\ UNCHANGED <<fields, root, len, alive, frames, part>>
  BY <1>1 DEF Call
<1>3. ListTyped /\ Roomy
  BY DEF ListIInv
<1>4. /\ op'[t] = o /\ lock'[l] = t
      /\ \A u \in Threads : u # t => op'[u] = op[u]
      /\ \A m \in Lists : m # l => lock'[m] = lock[m]
  BY <1>2, <1>3, TypedFacts
<1>5. o.do = what /\ o.on = l
  BY <1>1
<1>6. ListTyped'
  <2>1. o \in [do : Waits, on : Lists \union {Null}]
    BY <1>1 DEF Waits
  <2>2. /\ len' \in [Lists -> Nat] /\ lock' \in [Lists -> Threads \union {Nobody}]
        /\ frames' \in [Threads -> Seq(Frames)]
        /\ part' \in [Threads -> [prev : Nodes \union {Null}, current : Nodes \union {Null}]]
    BY <1>2, <1>3, TypedFacts DEF ListTyped
  <2> QED BY <1>2, <1>3, <2>1, <2>2, TypedStep
<1>7. Roomy'
  <2>1. CASE what \in Adding
    BY <1>2, <1>3, <1>4, <2>1, RoomGrows DEF fields
  <2>2. CASE what \notin Adding
    BY <1>2, <1>3, <1>5, <2>2, OpStep DEF fields
  <2> QED BY <2>1, <2>2
<1>8. PICK q : Kept(q)
  BY DEF ListIInv
<1>9. Quiet(t, l)
  BY <1>2, <1>4 DEF Quiet
<1>10. what \notin {"added", "removed", "helper", "pivot"}
  BY DEF Adding, Removing
<1>11. len[l] = Len(q[l]) /\ len'[l] = len[l]
  BY <1>2, <1>8 DEF Kept, Unlocked
<1>12. On(t)' = l
  BY <1>4, <1>5 DEF On
<1>13. Serving(t, q)'
  <2>1. Counts(t, Len(q[l]))'
    BY <1>4, <1>5, <1>10, <1>11, <1>12 DEF Counts, Doing
  <2>2. Sorting(t, q[l])'
    BY <1>4, <1>5, <1>10 DEF Sorting
  <2> QED BY <1>4, <1>12, <2>1, <2>2 DEF Serving
<1>14. Unlocked(l, q[l])'
  BY <1>11 DEF Unlocked
<1>15. Kept(q)'
  BY <1>2, <1>8, <1>9, <1>13, <1>14, QuietStep
<1> QED BY <1>6, <1>7, <1>15 DEF ListIInv


(* An operation may end when the length is that of the ring.                *)
LEMMA ReturnKeeps ==
  ASSUME ListTyped, Roomy, NEW q, Kept(q), NEW t \in Threads, NEW l, NEW s, Served(t, l, q, s),
         Return(t), UNCHANGED <<fields, root, alive, frames, part>>,
         len' \in [Lists -> Nat], len'[l] = Len(s), \A m \in Lists : m # l => len'[m] = len[m]
  PROVE  ListIInv'
<1>1. l \in Lists /\ On(t) = l /\ lock[l] = t /\ s = q[l]
  BY DEF Served
<1>2. lock' = [lock EXCEPT ![l] = Nobody] /\ op' = [op EXCEPT ![t] = Idle]
  BY <1>1 DEF Return
<1>3. /\ op'[t] = Idle /\ lock'[l] = Nobody
      /\ \A u \in Threads : u # t => op'[u] = op[u]
      /\ \A m \in Lists : m # l => lock'[m] = lock[m]
  BY <1>1, <1>2, TypedFacts
<1>4. ListTyped'
  <2>1. Idle \in [do : Waits, on : Lists \union {Null}]
    BY DEF Idle, Waits
  <2>2. /\ lock' \in [Lists -> Threads \union {Nobody}]
        /\ frames' \in [Threads -> Seq(Frames)]
        /\ part' \in [Threads -> [prev : Nodes \union {Null}, current : Nodes \union {Null}]]
    BY <1>1, <1>2, TypedFacts DEF ListTyped
  <2> QED BY <1>1, <1>2, <2>1, <2>2, TypedStep
<1>5. Roomy'
  <2>1. Idle.do \notin Adding /\ heap' \subseteq heap
    BY DEF Idle, Adding, fields
  <2> QED BY <1>2, <2>1, OpStep
<1>6. Quiet(t, l)
  BY <1>3 DEF Quiet
<1>7. Serving(t, q)'
  BY <1>3 DEF Serving, Busy, Idle
<1>8. Unlocked(l, q[l])'
  BY <1>1 DEF Unlocked
<1>9. Kept(q)'
  BY <1>1, <1>6, <1>7, <1>8, QuietStep
<1> QED BY <1>4, <1>5, <1>9 DEF ListIInv

(* The length is increased, and the list is unlocked with the right one.    *)
LEMMA AddedKeeps ==
  ASSUME ListIInv, NEW t \in Threads, Added(t)
  PROVE  ListIInv'
<1>1. PICK q : Kept(q)
  BY DEF ListIInv
<1>2. Doing(t, "added")
  BY DEF Added
<1>3. PICK l, s : Served(t, l, q, s)
  BY <1>1, <1>2, AtWork DEF Doing
<1>4. l \in Lists /\ On(t) = l /\ Len(s) = len[l] + 1 /\ Len(s) \in Nat
  BY <1>2, <1>3 DEF Served, Counts
<1>5. ListTyped /\ Roomy /\ len \in [Lists -> Nat]
  BY TypedFacts DEF ListIInv
<1>6. len' = [len EXCEPT ![l] = @ + 1] /\ Return(t) /\ UNCHANGED <<fields, root, alive, frames, part>>
  BY <1>4 DEF Added
<1>7. /\ len' \in [Lists -> Nat] /\ len'[l] = Len(s)
      /\ \A m \in Lists : m # l => len'[m] = len[m]
  BY ONLY <1>4, <1>5, <1>6
<1> QED BY <1>1, <1>3, <1>5, <1>6, <1>7, ReturnKeeps

(* The length is decreased, and the list is unlocked with the right one.    *)
LEMMA RemovedKeeps ==
  ASSUME ListIInv, NEW t \in Threads, Removed(t)
  PROVE  ListIInv'
<1>1. PICK q : Kept(q)
  BY DEF ListIInv
<1>2. Doing(t, "removed")
  BY DEF Removed
<1>3. PICK l, s : Served(t, l, q, s)
  BY <1>1, <1>2, AtWork DEF Doing
<1>4. l \in Lists /\ On(t) = l /\ Len(s) + 1 = len[l] /\ Len(s) \in Nat
  BY <1>2, <1>3 DEF Served, Counts
<1>5. ListTyped /\ Roomy /\ len \in [Lists -> Nat]
  BY TypedFacts DEF ListIInv
<1>6. len' = [len EXCEPT ![l] = @ - 1] /\ Return(t) /\ UNCHANGED <<fields, root, alive, frames, part>>
  BY <1>4 DEF Removed
<1>7. /\ len' \in [Lists -> Nat] /\ len'[l] = Len(s)
      /\ \A m \in Lists : m # l => len'[m] = len[m]
  BY ONLY <1>4, <1>5, <1>6
<1> QED BY <1>1, <1>3, <1>5, <1>6, <1>7, ReturnKeeps

(* Nothing is removed of an empty list.                                     *)
LEMMA RemoveNoneKeeps ==
  ASSUME ListIInv, NEW t \in Threads, RemoveNone(t)
  PROVE  ListIInv'
<1>1. PICK q : Kept(q)
  BY DEF ListIInv
<1>2. op[t].do \in Removing
  BY DEF RemoveNone
<1>3. PICK l, s : Served(t, l, q, s)
  BY <1>1, <1>2, AtWork DEF Removing
<1>4. l \in Lists /\ On(t) = l /\ Len(s) = len[l]
  BY <1>2, <1>3 DEF Served, Counts, Removing
<1>5. ListTyped /\ Roomy /\ len \in [Lists -> Nat]
  BY TypedFacts DEF ListIInv
<1>6. len' = len /\ Return(t) /\ UNCHANGED <<fields, root, alive, frames, part>>
  BY DEF RemoveNone
<1>7. /\ len' \in [Lists -> Nat] /\ len'[l] = Len(s)
      /\ \A m \in Lists : m # l => len'[m] = len[m]
  BY ONLY <1>4, <1>5, <1>6
<1> QED BY <1>1, <1>3, <1>5, <1>6, <1>7, ReturnKeeps

(* A sort of which no call is pending unlocks the list.                     *)
LEMMA SortReturnKeeps ==
  ASSUME ListIInv, NEW t \in Threads, SortReturn(t)
  PROVE  ListIInv'
<1>1. PICK q : Kept(q)
  BY DEF ListIInv
<1>2. Doing(t, "helper")
  BY DEF SortReturn
<1>3. PICK l, s : Served(t, l, q, s)
  BY <1>1, <1>2, AtWork DEF Doing
<1>4. l \in Lists /\ On(t) = l /\ Len(s) = len[l]
  BY <1>2, <1>3 DEF Served, Counts, Doing
<1>5. ListTyped /\ Roomy /\ len \in [Lists -> Nat]
  BY TypedFacts DEF ListIInv
<1>6. len' = len /\ Return(t) /\ UNCHANGED <<fields, root, alive, frames, part>>
  BY DEF SortReturn
<1>7. /\ len' \in [Lists -> Nat] /\ len'[l] = Len(s)
      /\ \A m \in Lists : m # l => len'[m] = len[m]
  BY ONLY <1>4, <1>5, <1>6
<1> QED BY <1>1, <1>3, <1>5, <1>6, <1>7, ReturnKeeps


(* An addition takes the node that was left for it.                         *)
LEMMA RoomUsed ==
  ASSUME ListTyped, Roomy, NEW t \in Threads, op[t].do \in Adding, op'[t].do \notin Adding,
         \A u \in Threads : u # t => op'[u] = op[u],
         NEW n \in Nodes \ heap, heap' = heap \union {n}
  PROVE  Roomy'
<1>1. PICK A, B : A = {u \in Threads : op[u].do \in Adding} /\ B = {u \in Threads : op'[u].do \in Adding}
  OBVIOUS
<1>2. B = A \ {t} /\ t \in A /\ A \subseteq Threads
  BY <1>1
<1>3. IsFiniteSet(A)
  BY <1>2, FiniteAssumption, FS_Subset
<1>4. Cardinality(B) = Cardinality(A) - 1 /\ Cardinality(A) \in Nat
  BY ONLY <1>2, <1>3, CountOneLess
<1>5. PICK F, G : F = Nodes \ heap /\ G = Nodes \ heap'
  OBVIOUS
<1>6. G = F \ {n} /\ n \in F /\ IsFiniteSet(F)
  BY <1>5, TypedFacts
<1>7. Cardinality(G) = Cardinality(F) - 1 /\ Cardinality(F) \in Nat
  BY ONLY <1>6, CountOneLess
<1>8. Cardinality(A) <= Cardinality(F)
  BY <1>1, <1>5 DEF Roomy
<1>9. Cardinality(B) <= Cardinality(G)
  BY <1>4, <1>7, <1>8
<1> QED BY <1>1, <1>5, <1>9 DEF Roomy, Adding

(* After its link an operation has only len to bring up to date.            *)
LEMMA LinkedStep ==
  ASSUME ListTyped, NEW q, NEW q2, NEW t \in Threads, NEW l, NEW s, NEW w, NEW what,
         Kept(q), Served(t, l, q, s), q2 = [q EXCEPT ![l] = w], Rings(q2)',
         op' = [op EXCEPT ![t].do = what], what \in {"added", "removed"},
         what = "added" => Len(w) = len[l] + 1, what = "removed" => Len(w) + 1 = len[l],
         UNCHANGED <<len, lock, alive, frames, part>>,
         \A n \in heap \ Held(s) : data'[n] = data[n] /\ next'[n] = next[n]
  PROVE  Kept(q2)'
<1>1. l \in Lists /\ On(t) = l /\ lock[l] = t /\ s = q[l] /\ t # Nobody
  BY DistinctAssumption DEF Served
<1>2. q \in [Lists -> Seq(Nodes)] /\ Rings(q)
  BY DEF Kept, Rings
<1>3. q2[l] = w /\ \A m \in Lists : m # l => q2[m] = q[m]
  BY <1>1, <1>2
<1>4. op \in [Threads -> [do : Waits, on : Lists \union {Null}]]
  BY DEF ListTyped, TypeOK, Waits
<1>5. /\ op'[t].do = what /\ op'[t].on = l
      /\ \A u \in Threads : u # t => op'[u] = op[u]
  <2>1. op[t].on = l
    BY <1>1 DEF On
  <2> QED BY ONLY <1>4, <2>1, t \in Threads, op' = [op EXCEPT ![t].do = what]
<1>6. Only(t, l, q, q2)
  <2>1. ASSUME NEW m \in Lists, m # l, NEW n \in Held(q[m]) PROVE n \in heap \ Held(s)
    BY <1>1, <1>2, <2>1 DEF Rings
  <2> QED BY <1>3, <1>5, <2>1 DEF Only
<1>7. Serving(t, q2)'
  <2>1. On(t)' = l
    BY <1>5 DEF On
  <2>2. Counts(t, Len(w))'
    BY ONLY <1>5, <2>1, len' = len, what \in {"added", "removed"},
            what = "added" => Len(w) = len[l] + 1, what = "removed" => Len(w) + 1 = len[l]
       DEF Counts, Doing
  <2>3. Sorting(t, w)'
    BY ONLY <1>5, what \in {"added", "removed"} DEF Sorting
  <2> QED BY <1>1, <1>3, <2>1, <2>2, <2>3 DEF Serving
<1>8. Unlocked(l, q2[l])'
  BY <1>1 DEF Unlocked
<1> QED BY <1>1, <1>6, <1>7, <1>8, OwnStep

(* The fields keep their types.                                             *)
LEMMA FieldsTyped ==
  ASSUME ListTyped, NEW t \in Threads, NEW what \in {"added", "removed"},
         op' = [op EXCEPT ![t].do = what], UNCHANGED <<len, lock, alive, frames, part>>,
         data' \in [Nodes -> Items \union {Null}],
         next' \in [Nodes -> Nodes \union {Null}], prev' \in [Nodes -> Nodes \union {Null}],
         heap' \subseteq Nodes, root' \in [Lists -> Nodes \union {Null}]
  PROVE  ListTyped'
<1>1. op \in [Threads -> [do : Waits, on : Lists \union {Null}]]
  BY DEF ListTyped, TypeOK, Waits
<1>2. what \in Waits
  BY DEF Waits
<1>3. op' \in [Threads -> [do : Waits, on : Lists \union {Null}]]
  BY ONLY <1>1, <1>2, op' = [op EXCEPT ![t].do = what]
<1> QED BY <1>3 DEF ListTyped, TypeOK, Waits, Adding, Removing

(* mboxListAddHead and mboxListAddTail put a free node between the tail and *)
(* the root.                                                                *)
LEMMA AddKeeps ==
  ASSUME ListIInv, NEW t \in Threads, Add(t)
  PROVE  ListIInv'
<1>1. PICK q : Kept(q)
  BY DEF ListIInv
<1>2. op[t].do \in Adding /\ ListTyped /\ Roomy
  BY DEF Add, ListIInv
<1>3. PICK l, s : Served(t, l, q, s)
  BY <1>1, <1>2, AtWork DEF Adding
<1>4. l \in Lists /\ On(t) = l /\ Len(s) = len[l] /\ s = q[l] /\ s \in Seq(Nodes) /\ Held(s) \subseteq heap
  BY <1>2, <1>3 DEF Served, Counts, Adding
<1>5. PICK n, x, q2, w :
        /\ n \in Nodes \ heap /\ x \in Items
        /\ Linked(l, n, x, q, q2, w)
        /\ w = IF Doing(t, "addHead") THEN <<n>> \o s ELSE s \o <<n>>
  <2>1. Rings(q)
    BY <1>1 DEF Kept
  <2>2. \E n \in Nodes \ heap, x \in Items : \E q2, w :
          /\ Linked(On(t), n, x, q, q2, w)
          /\ w = IF Doing(t, "addHead") THEN <<n>> \o q[On(t)] ELSE q[On(t)] \o <<n>>
    BY <1>2, <1>4, <2>1, AddEffect
  <2> QED BY ONLY <1>4, <2>2
<1>6. /\ heap' = heap \union {n} /\ data' = [data EXCEPT ![n] = x]
      /\ next' \in [Nodes -> Nodes \union {Null}] /\ prev' \in [Nodes -> Nodes \union {Null}]
      /\ root' \in [Lists -> Nodes \union {Null}]
      /\ \A m \in heap \ Held(s) : next'[m] = next[m] /\ prev'[m] = prev[m]
      /\ Rings(q2)' /\ q2 = [q EXCEPT ![l] = w]
  BY ONLY <1>4, <1>5 DEF Linked
<1>8. Len(w) = len[l] + 1
  <2>1. <<n>> \in Seq(Nodes) /\ Len(<<n>>) = 1
    BY <1>5
  <2>2. Len(<<n>> \o s) = len[l] + 1 /\ Len(s \o <<n>>) = len[l] + 1
    BY ONLY <1>4, <2>1
  <2> QED BY ONLY <1>5, <2>2
<1>9. op' = [op EXCEPT ![t].do = "added"] /\ UNCHANGED <<len, lock, alive, frames, part>>
  BY DEF Add
<1>10. ListTyped'
  <2>1. data' \in [Nodes -> Items \union {Null}] /\ heap' \subseteq Nodes
    BY <1>2, <1>5, <1>6, TypedFacts
  <2> QED BY <1>2, <1>6, <1>9, <2>1, FieldsTyped
<1>11. Roomy'
  <2>1. op \in [Threads -> [do : Waits, on : Lists \union {Null}]]
    BY <1>2 DEF ListTyped, TypeOK, Waits
  <2>2. op'[t].do = "added" /\ \A u \in Threads : u # t => op'[u] = op[u]
    BY ONLY <1>9, <2>1, t \in Threads
  <2>3. op'[t].do \notin Adding
    BY <2>2 DEF Adding
  <2> QED BY <1>2, <1>5, <1>6, <2>2, <2>3, RoomUsed
<1>12. Kept(q2)'
  <2>1. \A m \in heap \ Held(s) : data'[m] = data[m] /\ next'[m] = next[m]
    <3>1. data \in [Nodes -> Items \union {Null}] /\ heap \subseteq Nodes
      BY <1>2, TypedFacts
    <3> QED BY ONLY <1>5, <1>6, <3>1
  <2> QED BY <1>1, <1>2, <1>3, <1>6, <1>8, <1>9, <2>1, LinkedStep
<1> QED BY <1>10, <1>11, <1>12 DEF ListIInv


(* A removal, of either end, that is right of its ring.                     *)
LEMMA DropKeeps ==
  ASSUME ListTyped, Roomy, NEW q, NEW q2, NEW t \in Threads, NEW l, NEW s, NEW n, NEW w,
         Kept(q), Served(t, l, q, s), op[t].do \in Removing, Dropped(l, n, q, q2, w),
         n \in Held(s), Len(w) + 1 = len[l],
         op' = [op EXCEPT ![t].do = "removed"], UNCHANGED <<len, lock, alive, frames, part>>
  PROVE  ListIInv'
<1>1. l \in Lists /\ On(t) = l /\ s = q[l] /\ Held(s) \subseteq heap
  BY DEF Served
<1>2. /\ heap' = heap \ {n} /\ data' = [data EXCEPT ![n] = Null] /\ n \in heap
      /\ next' \in [Nodes -> Nodes \union {Null}] /\ prev' \in [Nodes -> Nodes \union {Null}]
      /\ root' \in [Lists -> Nodes \union {Null}]
      /\ \A m \in heap \ Held(s) : next'[m] = next[m]
      /\ Rings(q2)' /\ q2 = [q EXCEPT ![l] = w]
  BY ONLY <1>1, Dropped(l, n, q, q2, w) DEF Dropped
<1>3. data \in [Nodes -> Items \union {Null}] /\ heap \subseteq Nodes
  BY TypedFacts
<1>4. ListTyped'
  <2>1. data' \in [Nodes -> Items \union {Null}] /\ heap' \subseteq Nodes
    BY ONLY <1>2, <1>3
  <2> QED BY <1>2, <2>1, FieldsTyped
<1>5. Roomy'
  <2>1. op \in [Threads -> [do : Waits, on : Lists \union {Null}]]
    BY DEF ListTyped, TypeOK, Waits
  <2>2. op'[t].do = "removed" /\ \A u \in Threads : u # t => op'[u] = op[u]
    BY ONLY <2>1, t \in Threads, op' = [op EXCEPT ![t].do = "removed"]
  <2>3. \A u \in Threads : op'[u].do \in Adding => op[u].do \in Adding
    BY <2>2 DEF Adding
  <2> QED BY <1>2, <2>3, RoomStays
<1>6. \A m \in heap \ Held(s) : data'[m] = data[m] /\ next'[m] = next[m]
  BY ONLY <1>2, <1>3, n \in Held(s)
<1>7. Kept(q2)'
  BY <1>2, <1>6, LinkedStep
<1> QED BY <1>4, <1>5, <1>7 DEF ListIInv

(* The removal of a head keeps the lists.                                   *)
LEMMA RemoveHeadKeeps ==
  ASSUME ListIInv, NEW t \in Threads, RemoveHead(t)
  PROVE  ListIInv'
<1>1. PICK q : Kept(q)
  BY DEF ListIInv
<1>2. op[t].do = "removeHead" /\ op[t].do \in Removing /\ ListTyped /\ Roomy
  BY DEF RemoveHead, ListIInv, Removing, Doing
<1>3. PICK l, s : Served(t, l, q, s)
  BY <1>1, <1>2, AtWork
<1>4. l \in Lists /\ On(t) = l /\ Len(s) = len[l] /\ s = q[l] /\ s \in Seq(Nodes)
  BY <1>2, <1>3 DEF Served, Counts
<1>5. s # << >> /\ \E q2 : Dropped(l, s[1], q, q2, Tail(s))
  <2>1. Rings(q)
    BY <1>1 DEF Kept
  <2>2. q[l] # << >> /\ \E q2 : Dropped(l, q[l][1], q, q2, Tail(q[l]))
    BY <1>2, <1>4, <2>1, RemoveHeadEffect
  <2> QED BY ONLY <1>4, <2>2
<1>6. PICK q2, n, w : Dropped(l, n, q, q2, w) /\ n = s[1] /\ w = Tail(s)
  BY ONLY <1>5
<1>7. Len(s) \in Nat \ {0}
  BY ONLY <1>4, <1>5
<1>8. Len(w) + 1 = len[l]
  <2>1. Len(w) = Len(s) - 1
    BY ONLY <1>4, <1>5, <1>6, HeadTailProperties
  <2> QED BY ONLY <1>4, <1>7, <2>1
<1>9. n \in Held(s)
  <2>1. 1 \in 1 .. Len(s) /\ Len(s) \in 1 .. Len(s)
    BY ONLY <1>7
  <2> QED BY ONLY <1>6, <2>1 DEF Held
<1>10. op' = [op EXCEPT ![t].do = "removed"] /\ UNCHANGED <<len, lock, alive, frames, part>>
  BY DEF RemoveHead
<1> QED BY <1>1, <1>2, <1>3, <1>6, <1>8, <1>9, <1>10, DropKeeps

(* The removal of a tail keeps the lists.                                   *)
LEMMA RemoveTailKeeps ==
  ASSUME ListIInv, NEW t \in Threads, RemoveTail(t)
  PROVE  ListIInv'
<1>1. PICK q : Kept(q)
  BY DEF ListIInv
<1>2. op[t].do = "removeTail" /\ op[t].do \in Removing /\ ListTyped /\ Roomy
  BY DEF RemoveTail, ListIInv, Removing, Doing
<1>3. PICK l, s : Served(t, l, q, s)
  BY <1>1, <1>2, AtWork
<1>4. l \in Lists /\ On(t) = l /\ Len(s) = len[l] /\ s = q[l] /\ s \in Seq(Nodes)
  BY <1>2, <1>3 DEF Served, Counts
<1>5. s # << >> /\ \E q2 : Dropped(l, s[Len(s)], q, q2, SubSeq(s, 1, Len(s) - 1))
  <2>1. Rings(q)
    BY <1>1 DEF Kept
  <2>2. q[l] # << >> /\ \E q2 : Dropped(l, q[l][Len(q[l])], q, q2, SubSeq(q[l], 1, Len(q[l]) - 1))
    BY <1>2, <1>4, <2>1, RemoveTailEffect
  <2> QED BY ONLY <1>4, <2>2
<1>6. PICK q2, n, w : Dropped(l, n, q, q2, w) /\ n = s[Len(s)] /\ w = SubSeq(s, 1, Len(s) - 1)
  BY ONLY <1>5
<1>7. Len(s) \in Nat \ {0}
  BY ONLY <1>4, <1>5
<1>8. Len(w) + 1 = len[l]
  <2>1. Len(w) = Len(s) - 1
    <3>1. \A i \in 1 .. Len(s) - 1 : s[i] \in Nodes
      BY ONLY <1>4, <1>7
    <3> QED BY ONLY <1>4, <1>6, <1>7, <3>1, SubSeqProperties
  <2> QED BY ONLY <1>4, <1>7, <2>1
<1>9. n \in Held(s)
  <2>1. 1 \in 1 .. Len(s) /\ Len(s) \in 1 .. Len(s)
    BY ONLY <1>7
  <2> QED BY ONLY <1>6, <2>1 DEF Held
<1>10. op' = [op EXCEPT ![t].do = "removed"] /\ UNCHANGED <<len, lock, alive, frames, part>>
  BY DEF RemoveTail
<1> QED BY <1>1, <1>2, <1>3, <1>6, <1>8, <1>9, <1>10, DropKeeps
-----------------------------------------------------------------------------
(* What the release of l leaves.                                            *)
Emptied(l, q, q2) ==
  /\ Rings(q2)' /\ q2 = [q EXCEPT ![l] = << >>]
  /\ \A n \in heap \ Held(q[l]) : data'[n] = data[n] /\ next'[n] = next[n]
  /\ data' \in [Nodes -> Items \union {Null}]
  /\ next' \in [Nodes -> Nodes \union {Null}] /\ prev' \in [Nodes -> Nodes \union {Null}]
  /\ heap' \subseteq heap /\ root' \in [Lists -> Nodes \union {Null}]

(* The rings of the others are whole without the nodes of l.                *)
LEMMA ReleaseRings ==
  ASSUME NEW q, ListTyped, Rings(q), NEW l \in Lists, Release(l)
  PROVE  \E q2 : Emptied(l, q, q2)
<1>1. PICK s, gone : s = q[l] /\ gone = NodesOf(l)
  OBVIOUS
<1>2. /\ data \in [Nodes -> Items \union {Null}]
      /\ next \in [Nodes -> Nodes \union {Null}] /\ prev \in [Nodes -> Nodes \union {Null}]
      /\ heap \subseteq Nodes /\ root \in [Lists -> Nodes \union {Null}]
  BY TypedFacts
<1>3. gone = Held(s) /\ Held(s) \subseteq heap /\ q \in [Lists -> Seq(Nodes)]
      /\ \A n \in heap : data[n] \in Items
  BY <1>1, <1>2, HeldWalked DEF Rings
<1>4. /\ heap' = heap \ gone
      /\ data' = [n \in Nodes |-> IF n \in gone THEN Null ELSE data[n]]
      /\ next' = [n \in Nodes |-> IF n \in gone THEN Null ELSE next[n]]
      /\ prev' = [n \in Nodes |-> IF n \in gone THEN Null ELSE prev[n]]
      /\ root' = [root EXCEPT ![l] = Null]
  BY <1>1 DEF Release
<1>5. /\ \A n \in heap \ Held(s) : data'[n] = data[n] /\ next'[n] = next[n] /\ prev'[n] = prev[n]
      /\ root'[l] = Null /\ \A m \in Lists : m # l => root'[m] = root[m]
      /\ data' \in [Nodes -> Items \union {Null}]
      /\ next' \in [Nodes -> Nodes \union {Null}] /\ prev' \in [Nodes -> Nodes \union {Null}]
      /\ heap' \subseteq heap /\ root' \in [Lists -> Nodes \union {Null}]
  BY ONLY <1>2, <1>3, <1>4, l \in Lists
<1>6. PICK w, q2 : w = << >> /\ q2 = [q EXCEPT ![l] = w]
  OBVIOUS
<1>7. Rings(q2)'
  <2>1. Ring(w, root'[l], next', prev') /\ Held(w) = {}
    BY ONLY <1>5, <1>6, NothingLeft
  <2>2. /\ heap' = (heap \ Held(q[l])) \union Held(w)
        /\ \A n \in heap' : data'[n] \in Items
        /\ \A n \in Held(w) : n \in heap => n \in Held(q[l])
    BY ONLY <1>1, <1>3, <1>4, <1>5, <2>1
  <2> QED BY <1>1, <1>5, <1>6, <2>1, <2>2, RingsStep
<1> QED BY <1>1, <1>5, <1>6, <1>7 DEF Emptied

(* mboxListRelease frees the nodes of its list, which are in no other one.  *)
LEMMA ReleaseKeeps ==
  ASSUME ListIInv, NEW l \in Lists, Release(l)
  PROVE  ListIInv'
<1>1. PICK q : Kept(q)
  BY DEF ListIInv
<1>2. ListTyped /\ Roomy /\ Rings(q) /\ lock[l] = Nobody
  BY <1>1 DEF ListIInv, Kept, Release, Plain
<1>3. PICK q2 : Emptied(l, q, q2)
  BY <1>2, ReleaseRings
<1>4. /\ Rings(q2)' /\ q2 = [q EXCEPT ![l] = << >>]
      /\ \A n \in heap \ Held(q[l]) : data'[n] = data[n] /\ next'[n] = next[n]
      /\ data' \in [Nodes -> Items \union {Null}]
      /\ next' \in [Nodes -> Nodes \union {Null}] /\ prev' \in [Nodes -> Nodes \union {Null}]
      /\ heap' \subseteq heap /\ root' \in [Lists -> Nodes \union {Null}]
  BY <1>3 DEF Emptied
<1>5. /\ len' = [len EXCEPT ![l] = 0] /\ alive' = [alive EXCEPT ![l] = FALSE]
      /\ UNCHANGED <<lock, op, frames, part>>
  BY DEF Release
<1>6. len \in [Lists -> Nat] /\ heap \subseteq Nodes /\ alive \in [Lists -> BOOLEAN]
      /\ q \in [Lists -> Seq(Nodes)]
  BY <1>2, TypedFacts DEF Rings
<1>7. len'[l] = 0 /\ len' \in [Lists -> Nat] /\ \A m \in Lists : m # l => len'[m] = len[m]
  BY ONLY <1>5, <1>6, l \in Lists
<1>8. ListTyped'
  <2>1. alive' \in [Lists -> BOOLEAN]
    BY <1>5, <1>6
  <2>2. heap' \subseteq Nodes
    BY <1>4, <1>6
  <2> QED BY <1>2, <1>4, <1>5, <1>7, <2>1, <2>2 DEF ListTyped, TypeOK
<1>9. Roomy'
  BY <1>2, <1>4, <1>5, RoomStays
<1>10. q2[l] = << >> /\ \A m \in Lists : m # l => q2[m] = q[m]
  BY ONLY <1>4, <1>6, l \in Lists
<1>11. PICK T, L : T = {} /\ L = {l}
  OBVIOUS
<1>12. Aside(T, L, q, q2)
  <2>1. ASSUME NEW m \in Lists, m # l, NEW n \in Held(q[m]) PROVE n \in heap \ Held(q[l])
    BY <1>2, <2>1 DEF Rings
  <2>2. \A m \in Lists \ L : \A n \in Held(q[m]) : data'[n] = data[n] /\ next'[n] = next[n]
    BY <1>4, <1>11, <2>1
  <2> QED BY <1>2, <1>5, <1>7, <1>10, <1>11, <2>2 DEF Aside
<1>13. \A m \in L : Unlocked(m, q2[m])'
  <2>1. Len(q2[l]) = 0
    BY <1>10
  <2> QED BY <1>7, <1>11, <2>1 DEF Unlocked
<1>14. \A t \in T : Serving(t, q2)'
  BY <1>11
<1>15. Kept(q2)'
  BY ONLY <1>1, <1>4, <1>12, <1>13, <1>14, KeptStep
<1> QED BY <1>8, <1>9, <1>15 DEF ListIInv

(* What joining m to l leaves.                                              *)
Joined(l, m, q, q2) ==
  /\ Rings(q2)' /\ q2 = [q EXCEPT ![l] = @ \o q[m], ![m] = << >>]
  /\ next' \in [Nodes -> Nodes \union {Null}] /\ prev' \in [Nodes -> Nodes \union {Null}]
  /\ root' \in [Lists -> Nodes \union {Null}]
  /\ \A n \in heap : n \notin Held(q[l]) /\ n \notin Held(q[m]) => next'[n] = next[n]

(* mboxListAppendListTail makes one ring of two and leaves the second list  *)
(* empty.                                                                   *)
LEMMA JoinRings ==
  ASSUME NEW q, ListTyped, Rings(q), NEW l \in Lists, NEW m \in Lists, l # m,
         Len(q[l]) = len[l], Len(q[m]) = len[m], Append2(l, m)
  PROVE  \E q2 : Joined(l, m, q, q2)
<1>1. PICK s, u, w : s = q[l] /\ u = q[m] /\ w = s \o u
  OBVIOUS
<1>2. /\ next \in [Nodes -> Nodes \union {Null}] /\ prev \in [Nodes -> Nodes \union {Null}]
      /\ heap \subseteq Nodes /\ root \in [Lists -> Nodes \union {Null}]
  BY TypedFacts
<1>3. /\ Ring(s, root[l], next, prev) /\ s \in Seq(Nodes) /\ Held(s) \subseteq heap
      /\ Ring(u, root[m], next, prev) /\ u \in Seq(Nodes) /\ Held(u) \subseteq heap
      /\ Held(s) \intersect Held(u) = {}
      /\ heap = UNION {Held(q[k]) : k \in Lists}
      /\ q \in [Lists -> Seq(Nodes)]
      /\ \A k \in Lists : Ring(q[k], root[k], next, prev) /\ Held(q[k]) \subseteq heap
      /\ \A j, k \in Lists : j # k => Held(q[j]) \intersect Held(q[k]) = {}
      /\ \A n \in heap : data[n] \in Items
  BY <1>1 DEF Rings
<1>4. len[m] # 0 /\ data' = data /\ heap' = heap
  BY DEF Append2
<1>5. u # << >>
  BY <1>1, <1>4
<1>6. /\ root[m] = u[1] /\ prev[u[1]] = u[Len(u)] /\ u[1] \in Nodes /\ u[Len(u)] \in Nodes
      /\ root[m] \in Nodes /\ Len(u) \in Nat \ {0}
  BY ONLY <1>3, <1>5, RingEnds
<1>7. /\ Ring(w, root'[l], next', prev') /\ Held(w) = Held(s) \union Held(u)
      /\ root'[m] = Null /\ \A k \in Lists : k # l /\ k # m => root'[k] = root[k]
      /\ root' \in [Lists -> Nodes \union {Null}]
      /\ next' \in [Nodes -> Nodes \union {Null}] /\ prev' \in [Nodes -> Nodes \union {Null}]
      /\ \A n \in heap : n \notin Held(s) /\ n \notin Held(u) => next'[n] = next[n] /\ prev'[n] = prev[n]
  <2>1. CASE s = << >>
    <3>1. len[l] = 0
      BY <1>1, <2>1
    <3>2. root' = [root EXCEPT ![l] = root[m], ![m] = Null] /\ next' = next /\ prev' = prev
      BY <3>1 DEF Append2
    <3>3. w = u /\ Held(s) = {}
      BY <1>1, <1>3, <2>1 DEF Held
    <3>4. root'[l] = root[m]
      BY ONLY <1>2, <3>2, l # m, l \in Lists, m \in Lists
    <3> QED BY ONLY <1>2, <1>3, <1>6, <3>2, <3>3, <3>4, l # m, l \in Lists, m \in Lists
  <2>2. CASE s # << >>
    <3>1. len[l] # 0
      BY <1>1, <1>3, <2>2
    <3>2. /\ root[l] = s[1] /\ prev[s[1]] = s[Len(s)] /\ s[1] \in Nodes /\ s[Len(s)] \in Nodes
          /\ Len(s) \in Nat \ {0}
      BY ONLY <1>3, <2>2, RingEnds
    <3>3. /\ next' = [next EXCEPT ![s[Len(s)]] = u[1], ![u[Len(u)]] = s[1]]
          /\ prev' = [prev EXCEPT ![u[1]] = s[Len(s)], ![s[1]] = u[Len(u)]]
          /\ root' = [root EXCEPT ![m] = Null]
      BY <1>6, <3>1, <3>2 DEF Append2
    <3>4. /\ s[1] \in Held(s) /\ s[Len(s)] \in Held(s) /\ u[1] \in Held(u) /\ u[Len(u)] \in Held(u)
      <4>1. 1 \in 1 .. Len(s) /\ Len(s) \in 1 .. Len(s) /\ 1 \in 1 .. Len(u) /\ Len(u) \in 1 .. Len(u)
        BY ONLY <1>6, <3>2
      <4> QED BY ONLY <4>1 DEF Held
    <3>5. /\ \A n \in Nodes : next'[n] = IF n = u[Len(u)] THEN s[1] ELSE IF n = s[Len(s)] THEN u[1] ELSE next[n]
          /\ \A n \in Nodes : prev'[n] = IF n = s[1] THEN u[Len(u)] ELSE IF n = u[1] THEN s[Len(s)] ELSE prev[n]
          /\ next' \in [Nodes -> Nodes \union {Null}] /\ prev' \in [Nodes -> Nodes \union {Null}]
      BY ONLY <1>2, <1>6, <3>2, <3>3
    <3>6. Spliced(s, u, next, prev, next', prev')
      BY ONLY <3>5 DEF Spliced
    <3>7. Ring(s \o u, root[l], next', prev') /\ Held(s \o u) = Held(s) \union Held(u)
      BY ONLY <1>3, <1>5, <2>2, <3>6, RingsJoined
    <3>8. \A n \in heap : n \notin Held(s) /\ n \notin Held(u) => next'[n] = next[n] /\ prev'[n] = prev[n]
      <4>1. \A n \in heap : n \notin Held(s) /\ n \notin Held(u) =>
              n \in Nodes /\ n # s[1] /\ n # s[Len(s)] /\ n # u[1] /\ n # u[Len(u)]
        BY ONLY <1>2, <3>4
      <4> QED BY ONLY <3>5, <4>1
    <3>9. /\ root'[l] = root[l] /\ root'[m] = Null /\ \A k \in Lists : k # l /\ k # m => root'[k] = root[k]
          /\ root' \in [Lists -> Nodes \union {Null}]
      BY ONLY <1>2, <3>3, l # m, l \in Lists, m \in Lists
    <3> QED BY ONLY <1>1, <3>5, <3>7, <3>8, <3>9
  <2> QED BY <2>1, <2>2
<1>8. PICK q2 : q2 = [q EXCEPT ![l] = w, ![m] = << >>]
  OBVIOUS
<1>9. /\ q2[l] = w /\ q2[m] = << >> /\ \A k \in Lists : k # l /\ k # m => q2[k] = q[k]
      /\ q2 \in [Lists -> Seq(Nodes)]
  <2>1. w \in Seq(Nodes) /\ << >> \in Seq(Nodes)
    BY ONLY <1>1, <1>3
  <2> QED BY ONLY <1>3, <1>8, <2>1, l # m, l \in Lists, m \in Lists
<1>10. Held(q2[m]) = {} /\ Held(q2[l]) = Held(s) \union Held(u)
  <2>1. Held(<< >>) = {}
    BY ONLY NothingLeft
  <2> QED BY ONLY <1>7, <1>9, <2>1
<1>11. ASSUME NEW k \in Lists PROVE Ring(q2[k], root'[k], next', prev')
  <2>1. CASE k = l
    BY <1>7, <1>9, <2>1
  <2>2. CASE k = m
    <3>1. Ring(<< >>, Null, next', prev')
      BY ONLY NothingLeft
    <3> QED BY ONLY <1>7, <1>9, <2>2, <3>1
  <2>3. CASE k # l /\ k # m
    <3>1. \A n \in Held(q[k]) : n \in heap /\ n \notin Held(s) /\ n \notin Held(u)
      BY <1>1, <1>3, <2>3
    <3>2. \A n \in Held(q[k]) : next'[n] = next[n] /\ prev'[n] = prev[n]
      BY ONLY <1>7, <3>1
    <3>3. Ring(q[k], root[k], next', prev')
      BY <1>3, <3>2, RingSame
    <3> QED BY <1>7, <1>9, <2>3, <3>3
  <2> QED BY <2>1, <2>2, <2>3
<1>12. ASSUME NEW j \in Lists, NEW k \in Lists, j # k
       PROVE  Held(q2[j]) \intersect Held(q2[k]) = {}
  <2>1. CASE j = m \/ k = m
    BY <1>10, <2>1
  <2>2. CASE j = l /\ k # m
    <3>1. Held(q[k]) \intersect Held(s) = {} /\ Held(q[k]) \intersect Held(u) = {} /\ q2[k] = q[k]
      BY <1>1, <1>3, <1>9, <1>12, <2>2
    <3> QED BY ONLY <1>10, <2>2, <3>1
  <2>3. CASE k = l /\ j # m
    <3>1. Held(q[j]) \intersect Held(s) = {} /\ Held(q[j]) \intersect Held(u) = {} /\ q2[j] = q[j]
      BY <1>1, <1>3, <1>9, <1>12, <2>3
    <3> QED BY ONLY <1>10, <2>3, <3>1
  <2>4. CASE j \notin {l, m} /\ k \notin {l, m}
    BY <1>3, <1>9, <1>12, <2>4
  <2> QED BY <2>1, <2>2, <2>3, <2>4
<1>13. heap = UNION {Held(q2[k]) : k \in Lists}
  <2>1. ASSUME NEW n \in heap PROVE \E k \in Lists : n \in Held(q2[k])
    <3>1. PICK k \in Lists : n \in Held(q[k])
      BY <1>3
    <3>2. CASE k = l \/ k = m
      <4>1. n \in Held(q2[l])
        BY <1>1, <1>10, <3>1, <3>2
      <4> QED BY <4>1
    <3>3. CASE k # l /\ k # m
      BY <1>9, <3>1, <3>3
    <3> QED BY <3>2, <3>3
  <2>2. ASSUME NEW k \in Lists, NEW n \in Held(q2[k]) PROVE n \in heap
    <3>1. CASE k = l
      BY ONLY <1>3, <1>10, <2>2, <3>1
    <3>2. CASE k = m
      BY <1>10, <2>2, <3>2
    <3>3. CASE k # l /\ k # m
      BY <1>3, <1>9, <2>2, <3>3
    <3> QED BY <3>1, <3>2, <3>3
  <2> QED BY <2>1, <2>2
<1>14. Rings(q2)'
  BY ONLY <1>3, <1>4, <1>9, <1>11, <1>12, <1>13 DEF Rings
<1>15. q2 = [q EXCEPT ![l] = @ \o q[m], ![m] = << >>]
  BY <1>1, <1>3, <1>8
<1>16. Joined(l, m, q, q2)
  BY ONLY <1>1, <1>7, <1>14, <1>15 DEF Joined
<1> QED BY <1>16


(* The join keeps the lists, both of which are free.                        *)
LEMMA JoinKeeps ==
  ASSUME ListIInv, NEW l \in Lists, NEW m \in Lists, Append2(l, m)
  PROVE  ListIInv'
<1>1. PICK q : Kept(q)
  BY DEF ListIInv
<1>2. ListTyped /\ Roomy /\ Rings(q) /\ lock[l] = Nobody /\ lock[m] = Nobody /\ l # m
  BY <1>1 DEF ListIInv, Kept, Append2, Plain
<1>3. PICK s, u, w : s = q[l] /\ u = q[m] /\ w = s \o u
  OBVIOUS
<1>4. len[l] = Len(s) /\ len[m] = Len(u) /\ s \in Seq(Nodes) /\ u \in Seq(Nodes)
      /\ q \in [Lists -> Seq(Nodes)]
  BY <1>1, <1>2, <1>3 DEF Kept, Unlocked, Rings
<1>5. PICK q2 : Joined(l, m, q, q2)
  BY <1>2, <1>3, <1>4, JoinRings
<1>6. /\ Rings(q2)' /\ q2 = [q EXCEPT ![l] = @ \o q[m], ![m] = << >>]
      /\ next' \in [Nodes -> Nodes \union {Null}] /\ prev' \in [Nodes -> Nodes \union {Null}]
      /\ root' \in [Lists -> Nodes \union {Null}]
      /\ \A n \in heap : n \notin Held(s) /\ n \notin Held(u) => next'[n] = next[n]
  BY ONLY <1>3, <1>5 DEF Joined
<1>7. /\ q2[l] = w /\ q2[m] = << >> /\ \A k \in Lists : k # l /\ k # m => q2[k] = q[k]
  BY ONLY <1>2, <1>3, <1>4, <1>6, l \in Lists, m \in Lists
<1>8. /\ len' = [len EXCEPT ![l] = @ + len[m], ![m] = 0]
      /\ alive' = [alive EXCEPT ![m] = FALSE]
      /\ UNCHANGED <<data, heap, lock, op, frames, part>>
  BY DEF Append2
<1>9. len \in [Lists -> Nat] /\ alive \in [Lists -> BOOLEAN]
  BY <1>2, TypedFacts
<1>10. /\ len'[l] = len[l] + len[m] /\ len'[m] = 0 /\ len' \in [Lists -> Nat]
       /\ \A k \in Lists : k # l /\ k # m => len'[k] = len[k]
  BY ONLY <1>2, <1>8, <1>9, l \in Lists, m \in Lists
<1>11. ListTyped'
  <2>1. alive' \in [Lists -> BOOLEAN]
    BY <1>8, <1>9
  <2> QED BY <1>2, <1>6, <1>8, <1>10, <2>1 DEF ListTyped, TypeOK
<1>12. Roomy'
  BY <1>2, <1>8, RoomStays
<1>13. PICK T, L : T = {} /\ L = {l, m}
  OBVIOUS
<1>14. Aside(T, L, q, q2)
  <2>1. ASSUME NEW k \in Lists \ L, NEW n \in Held(q[k])
        PROVE  data'[n] = data[n] /\ next'[n] = next[n]
    <3>1. n \in heap /\ n \notin Held(s) /\ n \notin Held(u)
      BY <1>2, <1>3, <1>13 DEF Rings
    <3> QED BY <1>6, <1>8, <3>1
  <2> QED BY <1>2, <1>7, <1>8, <1>10, <1>13, <2>1 DEF Aside
<1>15. ASSUME NEW k \in L PROVE Unlocked(k, q2[k])'
  <2>1. Len(w) = Len(s) + Len(u) /\ Len(<< >>) = 0
    BY <1>3, <1>4
  <2>2. len'[k] = Len(q2[k])
    BY <1>4, <1>7, <1>10, <1>13, <2>1
  <2> QED BY <2>2 DEF Unlocked
<1>16. \A t \in T : Serving(t, q2)'
  BY <1>13
<1>17. Kept(q2)'
  BY ONLY <1>1, <1>6, <1>14, <1>15, <1>16, KeptStep
<1> QED BY <1>11, <1>12, <1>17 DEF ListIInv
-----------------------------------------------------------------------------
(* How a sort stands.                                                       *)
Stands(t, s, R) ==
  /\ Divided(s, frames[t], R)
  /\ InOrder(s, R)
  /\ Doing(t, "pivot") => /\ frames[t] # << >> /\ R[1].lo < R[1].hi
                          /\ Compared(s, R[1], part[t])

(* A step of a sort is right when its list stands as it should after it.    *)
LEMMA SortStep ==
  ASSUME ListTyped, Roomy, NEW q, NEW t \in Threads, NEW l, NEW s, Kept(q), Served(t, l, q, s),
         op[t].do \in {"sort", "helper", "pivot"},
         NEW what \in {"helper", "pivot"}, op'[t] = [do |-> what, on |-> l],
         \A u \in Threads : u # t => op'[u] = op[u],
         op' \in [Threads -> [do : Waits, on : Lists \union {Null}]],
         NEW fs \in Seq(Frames), frames' = [frames EXCEPT ![t] = fs],
         NEW p \in [prev : Nodes \union {Null}, current : Nodes \union {Null}],
         part' = [part EXCEPT ![t] = p],
         UNCHANGED <<next, prev, heap, root, len, lock, alive>>,
         data' \in [Nodes -> Items \union {Null}],
         \A n \in heap \ Held(s) : data'[n] = data[n], \A n \in Held(s) : data'[n] \in Items,
         Len(s) >= 2, NEW R, Stands(t, s, R)'
  PROVE  ListIInv'
<1>1. /\ l \in Lists /\ On(t) = l /\ lock[l] = t /\ s = q[l] /\ t # Nobody
      /\ Held(s) \subseteq heap /\ s \in Seq(Nodes) /\ Len(s) \in Nat
      /\ \A n \in heap : data[n] \in Items
  BY DistinctAssumption DEF Served
<1>2. Len(s) = len[l]
  BY <1>1 DEF Served, Counts
<1>3. frames \in [Threads -> Seq(Frames)]
      /\ part \in [Threads -> [prev : Nodes \union {Null}, current : Nodes \union {Null}]]
  BY DEF ListTyped
<1>4. /\ frames' \in [Threads -> Seq(Frames)]
      /\ part' \in [Threads -> [prev : Nodes \union {Null}, current : Nodes \union {Null}]]
      /\ \A u \in Threads : u # t => frames'[u] = frames[u] /\ part'[u] = part[u]
  BY ONLY <1>3, t \in Threads, fs \in Seq(Frames), frames' = [frames EXCEPT ![t] = fs],
          p \in [prev : Nodes \union {Null}, current : Nodes \union {Null}],
          part' = [part EXCEPT ![t] = p]
<1>5. ListTyped'
  BY <1>4 DEF ListTyped, TypeOK, Waits, Adding, Removing
<1>6. Roomy'
  <2>1. \A u \in Threads : op'[u].do \in Adding => op[u].do \in Adding
    BY DEF Adding
  <2> QED BY <2>1, RoomStays
<1>7. Rings(q)'
  <2>1. Rings(q) /\ \A n \in heap : data'[n] \in Items
    BY <1>1 DEF Kept
  <2> QED BY <2>1, RingsStay
<1>8. Only(t, l, q, q)
  <2>1. ASSUME NEW m \in Lists, m # l, NEW n \in Held(q[m]) PROVE n \in heap \ Held(s)
    BY <1>1, <2>1 DEF Kept, Rings
  <2> QED BY <1>4, <2>1 DEF Only
<1>9. Serving(t, q)'
  <2>1. On(t)' = l /\ op'[t].do = what
    BY DEF On
  <2>2. Counts(t, Len(s))'
    BY ONLY <1>2, <2>1, len' = len, what \in {"helper", "pivot"} DEF Counts, Doing
  <2>3. Sorting(t, s)'
    BY ONLY Stands(t, s, R)', Len(s) >= 2 DEF Sorting, Stands
  <2> QED BY ONLY <1>1, <2>1, <2>2, <2>3, lock' = lock DEF Serving
<1>10. Unlocked(l, q[l])'
  BY <1>1 DEF Unlocked
<1>11. Kept(q)'
  BY <1>1, <1>7, <1>8, <1>9, <1>10, OwnStep
<1> QED BY <1>5, <1>6, <1>11 DEF ListIInv


(* The first call of the helper spans the whole list.                       *)
LEMMA SortKeeps ==
  ASSUME ListIInv, NEW t \in Threads, Sort(t)
  PROVE  ListIInv'
<1>1. PICK q : Kept(q)
  BY DEF ListIInv
<1>2. op[t].do = "sort" /\ ListTyped /\ Roomy
  BY DEF Sort, ListIInv, Doing
<1>3. PICK l, s : Served(t, l, q, s)
  BY <1>1, <1>2, AtWork
<1>4. l \in Lists /\ On(t) = l /\ lock[l] = t /\ Len(s) = len[l] /\ s = q[l] /\ s \in Seq(Nodes)
      /\ Ring(s, root[l], next, prev) /\ Len(s) \in Nat /\ t # Nobody
      /\ Held(s) \subseteq heap /\ \A n \in heap : data[n] \in Items
  BY <1>2, <1>3, DistinctAssumption DEF Served, Counts
<1>5. /\ op \in [Threads -> [do : Waits, on : Lists \union {Null}]]
      /\ frames \in [Threads -> Seq(Frames)]
      /\ part \in [Threads -> [prev : Nodes \union {Null}, current : Nodes \union {Null}]]
  BY <1>2 DEF ListTyped, TypeOK, Waits
<1>6. UNCHANGED <<fields, root, len, lock, alive, part>>
  BY DEF Sort
<1>7. CASE len[l] <= 1
  <2>1. op' = [op EXCEPT ![t] = Idle] /\ frames' = frames
    BY <1>4, <1>7 DEF Sort
  <2>2. op'[t] = Idle /\ \A u \in Threads : u # t => op'[u] = op[u]
    BY <1>5, <2>1
  <2>3. ListTyped'
    <3>1. Idle \in [do : Waits, on : Lists \union {Null}]
      BY DEF Idle, Waits
    <3>2. len' \in [Lists -> Nat] /\ lock' \in [Lists -> Threads \union {Nobody}]
      BY <1>2, <1>6, TypedFacts
    <3> QED BY <1>2, <1>4, <1>5, <1>6, <2>1, <3>1, <3>2, TypedStep
  <2>4. Roomy'
    <3>1. Idle.do \notin Adding /\ heap' \subseteq heap
      BY <1>6 DEF Idle, Adding, fields
    <3> QED BY <1>2, <2>1, <3>1, OpStep
  <2>5. Quiet(t, l)
    BY <1>6, <2>1, <2>2 DEF Quiet
  <2>6. Serving(t, q)'
    BY <2>2 DEF Serving, Busy, Idle
  <2>7. Unlocked(l, q[l])'
    BY <1>4, <1>6 DEF Unlocked
  <2>8. Kept(q)'
    BY <1>1, <1>4, <2>5, <2>6, <2>7, QuietStep
  <2> QED BY <2>3, <2>4, <2>8 DEF ListIInv
<1>8. CASE ~(len[l] <= 1)
  <2>1. PICK n \in Nat : n = Len(s)
    BY <1>4
  <2>2. s # << >> /\ n >= 2
    BY <1>2, <1>4, <1>8, <2>1, TypedFacts
  <2>3. /\ root[l] = s[1] /\ prev[s[1]] = s[n] /\ s[1] \in Nodes /\ s[n] \in Nodes
    BY ONLY <1>4, <2>1, <2>2, RingEnds
  <2>4. PICK f : f = [low |-> s[1], high |-> s[n], count |-> 0]
    OBVIOUS
  <2>5. f \in Frames /\ f.low = s[1] /\ f.high = s[n] /\ f.count = 0
    BY ONLY <2>3, <2>4 DEF Frames
  <2>6. PICK fs : fs = <<f>>
    OBVIOUS
  <2>7. fs \in Seq(Frames) /\ Len(fs) = 1 /\ fs[1] = f
    BY ONLY <2>5, <2>6
  <2>8. op' = [op EXCEPT ![t].do = "helper"] /\ frames' = [frames EXCEPT ![t] = fs]
    BY <1>4, <1>8, <2>3, <2>4, <2>6 DEF Sort
  <2>9. PICK r : r = [lo |-> 1, hi |-> n]
    OBVIOUS
  <2>10. r \in [lo : Int, hi : Int] /\ r.lo = 1 /\ r.hi = n
    BY ONLY <2>9
  <2>11. PICK R : R = <<r>>
    OBVIOUS
  <2>12. R \in Seq([lo : Int, hi : Int]) /\ Len(R) = 1 /\ R[1] = r
    BY ONLY <2>10, <2>11
  <2>13. Spans(s, f, r)
    BY ONLY <2>1, <2>2, <2>5, <2>10 DEF Spans
  <2>14. Divided(s, fs, R)
    BY ONLY <2>7, <2>12, <2>13 DEF Divided
  <2>15. InOrder(s, R)'
    BY ONLY <2>1, <2>10, <2>12 DEF InOrder
  <2>16. /\ op'[t] = [do |-> "helper", on |-> l] /\ \A u \in Threads : u # t => op'[u] = op[u]
         /\ op' \in [Threads -> [do : Waits, on : Lists \union {Null}]]
    <3>1. op[t].on = l /\ op[t] \in [do : Waits, on : Lists \union {Null}] /\ "helper" \in Waits
      BY <1>4, <1>5 DEF On, Waits
    <3>2. op'[t] = [op[t] EXCEPT !.do = "helper"] /\ \A u \in Threads : u # t => op'[u] = op[u]
      BY ONLY <1>5, <2>8, t \in Threads
    <3>3. op'[t] = [do |-> "helper", on |-> l]
      BY ONLY <3>1, <3>2
    <3> QED BY ONLY <1>5, <2>8, <3>1, <3>2, <3>3, t \in Threads
  <2>17. frames'[t] = fs
    BY ONLY <1>5, <2>8, t \in Threads
  <2>18. Stands(t, s, R)'
    BY ONLY <2>14, <2>15, <2>16, <2>17 DEF Stands, Doing
  <2>19. PICK p : p = part[t]
    OBVIOUS
  <2>20. p \in [prev : Nodes \union {Null}, current : Nodes \union {Null}] /\ part' = [part EXCEPT ![t] = p]
    BY ONLY <1>5, <1>6, <2>19, t \in Threads
  <2>21. /\ UNCHANGED <<next, prev, heap, root, len, lock, alive>>
         /\ data' \in [Nodes -> Items \union {Null}]
         /\ \A m \in heap \ Held(s) : data'[m] = data[m]
         /\ \A m \in Held(s) : data'[m] \in Items
    BY <1>2, <1>4, <1>6, TypedFacts DEF fields
  <2>22. Len(s) >= 2 /\ "helper" \in {"helper", "pivot"} /\ op[t].do \in {"sort", "helper", "pivot"}
    BY <1>2, <2>1, <2>2
  <2> QED BY ONLY <1>1, <1>2, <1>3, <2>7, <2>8, <2>16, <2>18, <2>20, <2>21, <2>22, t \in Threads, SortStep
<1> QED BY <1>7, <1>8

(* A call ends at once when there is at most one element for it.            *)
LEMMA ShortCalls ==
  ASSUME NEW s, NEW r, Ring(s, r, next, prev), Len(s) \in Nat, Len(s) >= 2,
         NEW f \in Frames, NEW g \in [lo : Int, hi : Int], Spans(s, f, g)
  PROVE  Trivial(f) <=> g.lo >= g.hi
<1>1. PICK n \in Nat : n = Len(s) /\ n >= 2
  OBVIOUS
<1>2. PICK lo \in Int, hi \in Int : lo = g.lo /\ hi = g.hi
  OBVIOUS
<1>3. PICK a, b : a = (IF lo = n + 1 THEN 1 ELSE lo) /\ b = (IF hi = 0 THEN n ELSE hi)
  OBVIOUS
<1>4. /\ lo \in 1 .. n + 1 /\ hi \in 0 .. n /\ lo <= hi + 1
      /\ f.low = s[a] /\ f.high = s[b]
      /\ f.count = 0 <=> lo = 1 /\ hi = n
  BY ONLY <1>1, <1>2, <1>3, Spans(s, f, g) DEF Spans
<1>5. a \in 1 .. n /\ b \in 1 .. n
  BY ONLY <1>1, <1>3, <1>4
<1>6. \A i, j \in 1 .. n : s[i] = s[j] => i = j
  BY ONLY <1>1, Ring(s, r, next, prev) DEF Ring
<1>7. Up(b, n) \in 1 .. n /\ next[f.high] = s[Up(b, n)]
  <2>1. \A i \in 1 .. n : next[s[i]] = s[Up(i, n)]
    BY ONLY <1>1, Ring(s, r, next, prev) DEF Ring
  <2> QED BY ONLY <1>1, <1>4, <1>5, <2>1 DEF Up
<1>8. f.count \in {0, 1}
  BY DEF Frames
<1>9. Trivial(f) <=> a = b \/ (~(lo = 1 /\ hi = n) /\ a = Up(b, n))
  <2>1. f.low = f.high <=> a = b
    BY ONLY <1>4, <1>5, <1>6
  <2>2. f.low = next[f.high] <=> a = Up(b, n)
    BY ONLY <1>4, <1>5, <1>6, <1>7
  <2>3. f.count = 1 <=> ~(lo = 1 /\ hi = n)
    BY ONLY <1>4, <1>8
  <2> QED BY ONLY <2>1, <2>2, <2>3 DEF Trivial
<1>10. a = b \/ (~(lo = 1 /\ hi = n) /\ a = Up(b, n)) <=> lo >= hi
  BY ONLY <1>1, <1>3, <1>4 DEF Up
<1> QED BY ONLY <1>2, <1>9, <1>10

(* What is below the top of a stack.                                        *)
LEMMA PopRest ==
  ASSUME NEW S, NEW s \in Seq(S), s # << >>, NEW w, w = Tail(s)
  PROVE  /\ w \in Seq(S) /\ Len(s) \in Nat \ {0} /\ Len(w) = Len(s) - 1 /\ Head(s) = s[1] /\ s[1] \in S
         /\ \A k \in 1 .. Len(w) : w[k] = s[k + 1]
BY HeadTailProperties


(* The first of the calls pending, and its places.                          *)
AtCall(t, l, q, s, f, R, g) ==
  /\ Served(t, l, q, s) /\ Stands(t, s, R) /\ Len(s) >= 2
  /\ frames[t] \in Seq(Frames) /\ R \in Seq([lo : Int, hi : Int]) /\ R # << >>
  /\ f = Head(frames[t]) /\ f \in Frames /\ g = R[1] /\ g \in [lo : Int, hi : Int]
  /\ Len(R) = Len(frames[t]) /\ Spans(s, f, g)

(* The call on top of a thread's stack, and the range it is to sort.        *)
LEMMA CallPending ==
  ASSUME ListTyped, NEW q, Kept(q), NEW t \in Threads, op[t].do \in {"helper", "pivot"}, frames[t] # << >>
  PROVE  \E l, s, f, R, g : AtCall(t, l, q, s, f, R, g)
<1>1. PICK l, s : Served(t, l, q, s)
  BY AtWork
<1>2. Sorting(t, s)
  BY <1>1 DEF Served
<1>3. PICK R : Stands(t, s, R)
  BY <1>2 DEF Sorting, Stands
<1>4. Len(s) >= 2
  BY <1>2 DEF Sorting
<1>5. PICK fs \in Seq(Frames) : fs = frames[t]
  BY DEF ListTyped
<1>6. /\ R \in Seq([lo : Int, hi : Int]) /\ Len(R) = Len(fs)
      /\ \A k \in 1 .. Len(R) : Spans(s, fs[k], R[k])
  BY <1>3, <1>5 DEF Stands, Divided
<1>7. Len(R) \in Nat \ {0} /\ R # << >> /\ Head(fs) = fs[1] /\ fs[1] \in Frames
  BY ONLY <1>5, <1>6, frames[t] # << >>
<1>8. R[1] \in [lo : Int, hi : Int] /\ Spans(s, fs[1], R[1])
  <2>1. 1 \in 1 .. Len(R)
    BY ONLY <1>7
  <2>2. R[1] \in [lo : Int, hi : Int]
    BY ONLY <1>6, <1>7, PopRest
  <2> QED BY ONLY <1>6, <2>1, <2>2
<1>9. PICK f, g : f = Head(fs) /\ g = R[1]
  OBVIOUS
<1>10. AtCall(t, l, q, s, f, R, g)
  BY ONLY <1>1, <1>3, <1>4, <1>5, <1>6, <1>7, <1>8, <1>9 DEF AtCall
<1> QED BY <1>10

(* What SortStep asks that no step of a sort changes.                       *)
LEMMA SortOp ==
  ASSUME ListTyped, NEW t \in Threads, NEW l, On(t) = l,
         NEW what \in {"helper", "pivot"}, op' = [op EXCEPT ![t].do = what] \/ (op' = op /\ op[t].do = what)
  PROVE  /\ op'[t] = [do |-> what, on |-> l] /\ \A u \in Threads : u # t => op'[u] = op[u]
         /\ op' \in [Threads -> [do : Waits, on : Lists \union {Null}]]
<1>1. op \in [Threads -> [do : Waits, on : Lists \union {Null}]] /\ what \in Waits
  BY DEF ListTyped, TypeOK, Waits
<1>2. op[t].on = l /\ op[t] \in [do : Waits, on : Lists \union {Null}]
  BY <1>1 DEF On
<1>3. CASE op' = op /\ op[t].do = what
  <2>1. op'[t] = [do |-> what, on |-> l]
    BY ONLY <1>2, <1>3
  <2> QED BY ONLY <1>1, <1>3, <2>1
<1>4. CASE op' = [op EXCEPT ![t].do = what]
  <2>1. op'[t] = [op[t] EXCEPT !.do = what] /\ \A u \in Threads : u # t => op'[u] = op[u]
    BY ONLY <1>1, <1>4, t \in Threads
  <2>2. op'[t] = [do |-> what, on |-> l]
    BY ONLY <1>2, <2>1
  <2> QED BY ONLY <1>1, <1>2, <1>4, <2>1, <2>2, t \in Threads
<1> QED BY <1>3, <1>4

(* The first call is over.                                                  *)
LEMMA CallPopped ==
  ASSUME NEW s, NEW fs \in Seq(Frames), NEW R \in Seq([lo : Int, hi : Int]), R # << >>,
         Divided(s, fs, R), InOrder(s, R), R[1].lo >= R[1].hi
  PROVE  Divided(s, Tail(fs), Tail(R)) /\ InOrder(s, Tail(R))
<1>1. PICK gs, Q : gs = Tail(fs) /\ Q = Tail(R)
  OBVIOUS
<1>2. PICK n \in Nat : n = Len(R) /\ Len(fs) = n /\ n # 0
  BY DEF Divided
<1>3. /\ Q \in Seq([lo : Int, hi : Int]) /\ Len(Q) = n - 1
      /\ \A k \in 1 .. n - 1 : Q[k] = R[k + 1]
  BY ONLY <1>1, <1>2, R \in Seq([lo : Int, hi : Int]), R # << >>, PopRest
<1>4. /\ Len(gs) = n - 1 /\ \A k \in 1 .. n - 1 : gs[k] = fs[k + 1]
  <2>1. fs # << >>
    BY ONLY <1>2, fs \in Seq(Frames)
  <2> QED BY ONLY <1>1, <1>2, <2>1, fs \in Seq(Frames), PopRest
<1>5. \A k \in 1 .. n - 1 : k + 1 \in 1 .. n
  BY <1>2
<1>6. /\ \A k \in 1 .. n : Spans(s, fs[k], R[k])
      /\ \A k, m \in 1 .. n : k < m => R[k].hi < R[m].lo
  BY <1>2 DEF Divided
<1>7. \A k \in 1 .. n - 1 : Spans(s, gs[k], Q[k])
  BY ONLY <1>3, <1>4, <1>5, <1>6
<1>8. ASSUME NEW k \in 1 .. n - 1, NEW m \in 1 .. n - 1, k < m PROVE Q[k].hi < Q[m].lo
  <2>1. k + 1 \in 1 .. n /\ m + 1 \in 1 .. n /\ k + 1 < m + 1
    BY <1>8
  <2> QED BY ONLY <1>3, <1>6, <2>1
<1>9. Divided(s, gs, Q)
  BY ONLY <1>2, <1>3, <1>4, <1>7, <1>8 DEF Divided
<1>10. InOrder(s, Q)
  <2> SUFFICES ASSUME NEW i \in 1 .. Len(s), NEW j \in 1 .. Len(s), i < j,
                      ~(Key(data[s[i]]) <= Key(data[s[j]]))
               PROVE  \E k \in 1 .. Len(Q) : Q[k].lo <= i /\ j <= Q[k].hi
    BY DEF InOrder
  <2>1. PICK k \in 1 .. n : R[k].lo <= i /\ j <= R[k].hi
    BY <1>2 DEF InOrder
  <2>2. R[1].lo \in Int /\ R[1].hi \in Int /\ i \in Int /\ j \in Int
    <3>1. R[1] \in [lo : Int, hi : Int]
      BY ONLY PopRest, R \in Seq([lo : Int, hi : Int]), R # << >>
    <3>2. i \in Int /\ j \in Int
      BY ONLY i \in 1 .. Len(s), j \in 1 .. Len(s)
    <3> QED BY ONLY <3>1, <3>2
  <2>3. k # 1
    BY ONLY <2>1, <2>2, i < j, R[1].lo >= R[1].hi
  <2>4. k - 1 \in 1 .. n - 1 /\ (k - 1) + 1 = k
    BY ONLY <1>2, <2>1, <2>3
  <2>5. Q[k - 1] = R[k]
    BY ONLY <1>3, <2>4
  <2> QED BY ONLY <1>2, <1>3, <2>1, <2>4, <2>5
<1> QED BY <1>1, <1>9, <1>10

(* A call with a range of one place, or none, returns: a range that short   *)
(* is in order.                                                             *)
LEMMA HelperReturnKeeps ==
  ASSUME ListIInv, NEW t \in Threads, HelperReturn(t)
  PROVE  ListIInv'
<1>1. PICK q : Kept(q)
  BY DEF ListIInv
<1>2. op[t].do = "helper" /\ frames[t] # << >> /\ ListTyped /\ Roomy
  BY DEF HelperReturn, ListIInv, Doing
<1>3. PICK l, s, f, R, g : AtCall(t, l, q, s, f, R, g)
  BY <1>1, <1>2, CallPending
<1>4. PICK fs \in Seq(Frames) : fs = frames[t] /\ fs # << >>
  BY <1>2, <1>3 DEF AtCall
<1>5. /\ Served(t, l, q, s) /\ Len(s) >= 2 /\ Divided(s, fs, R) /\ InOrder(s, R)
      /\ R \in Seq([lo : Int, hi : Int]) /\ R # << >>
      /\ f \in Frames /\ g = R[1] /\ g \in [lo : Int, hi : Int] /\ Spans(s, f, g) /\ f = Head(fs)
  BY <1>3, <1>4 DEF AtCall, Stands
<1>6. /\ On(t) = l /\ Ring(s, root[l], next, prev) /\ Len(s) \in Nat
      /\ Held(s) \subseteq heap /\ \A n \in heap : data[n] \in Items
  BY <1>5 DEF Served
<1>7. g.lo >= g.hi
  <2>1. Trivial(f)
    BY <1>4, <1>5 DEF HelperReturn
  <2> QED BY ONLY <1>5, <1>6, <2>1, ShortCalls
<1>8. PICK gs, Q : gs = Tail(fs) /\ Q = Tail(R)
  OBVIOUS
<1>9. Divided(s, gs, Q) /\ InOrder(s, Q)
  BY ONLY <1>4, <1>5, <1>7, <1>8, CallPopped
<1>10. gs \in Seq(Frames)
  BY ONLY <1>4, <1>8
<1>11. frames' = [frames EXCEPT ![t] = gs] /\ UNCHANGED <<fields, root, len, lock, alive, op, part>>
  BY <1>4, <1>8 DEF HelperReturn
<1>12. /\ frames \in [Threads -> Seq(Frames)]
       /\ part \in [Threads -> [prev : Nodes \union {Null}, current : Nodes \union {Null}]]
  BY <1>2 DEF ListTyped
<1>13. frames'[t] = gs
  BY ONLY <1>11, <1>12, t \in Threads
<1>14. InOrder(s, Q)'
  BY ONLY <1>9, <1>11 DEF InOrder, fields
<1>15. Stands(t, s, Q)'
  BY ONLY <1>2, <1>9, <1>11, <1>13, <1>14 DEF Stands, Doing
<1>16. PICK p : p = part[t]
  OBVIOUS
<1>17. p \in [prev : Nodes \union {Null}, current : Nodes \union {Null}] /\ part' = [part EXCEPT ![t] = p]
  BY ONLY <1>11, <1>12, <1>16, t \in Threads
<1>18. /\ UNCHANGED <<next, prev, heap, root, len, lock, alive>>
       /\ data' \in [Nodes -> Items \union {Null}]
       /\ \A m \in heap \ Held(s) : data'[m] = data[m]
       /\ \A m \in Held(s) : data'[m] \in Items
  BY <1>2, <1>6, <1>11, TypedFacts DEF fields
<1>19. /\ op'[t] = [do |-> "helper", on |-> l] /\ \A u \in Threads : u # t => op'[u] = op[u]
       /\ op' \in [Threads -> [do : Waits, on : Lists \union {Null}]]
  BY <1>2, <1>6, <1>11, SortOp
<1>20. "helper" \in {"helper", "pivot"} /\ op[t].do \in {"sort", "helper", "pivot"}
  BY <1>2
<1> QED BY ONLY <1>1, <1>2, <1>5, <1>10, <1>11, <1>15, <1>17, <1>18, <1>19, <1>20, t \in Threads, SortStep

(* A partition begins with nothing compared.                                *)
LEMMA HelperPivotKeeps ==
  ASSUME ListIInv, NEW t \in Threads, HelperPivot(t)
  PROVE  ListIInv'
<1>1. PICK q : Kept(q)
  BY DEF ListIInv
<1>2. op[t].do = "helper" /\ frames[t] # << >> /\ ListTyped /\ Roomy
  BY DEF HelperPivot, ListIInv, Doing
<1>3. PICK l, s, f, R, g : AtCall(t, l, q, s, f, R, g)
  BY <1>1, <1>2, CallPending
<1>4. PICK fs \in Seq(Frames) : fs = frames[t] /\ fs # << >>
  BY <1>2, <1>3 DEF AtCall
<1>5. /\ Served(t, l, q, s) /\ Len(s) >= 2 /\ Divided(s, fs, R) /\ InOrder(s, R)
      /\ R \in Seq([lo : Int, hi : Int]) /\ R # << >>
      /\ f \in Frames /\ g = R[1] /\ g \in [lo : Int, hi : Int] /\ Spans(s, f, g) /\ f = Head(fs)
  BY <1>3, <1>4 DEF AtCall, Stands
<1>6. /\ On(t) = l /\ Ring(s, root[l], next, prev) /\ Len(s) \in Nat /\ s \in Seq(Nodes)
      /\ Held(s) \subseteq heap /\ \A n \in heap : data[n] \in Items
  BY <1>5 DEF Served
<1>7. g.lo < g.hi
  <2>1. ~Trivial(f)
    BY <1>4, <1>5 DEF HelperPivot
  <2>2. Trivial(f) <=> g.lo >= g.hi
    BY ONLY <1>5, <1>6, ShortCalls
  <2> QED BY ONLY <1>5, <2>1, <2>2
<1>8. PICK lo \in Nat, hi \in Nat, n \in Nat : lo = g.lo /\ hi = g.hi /\ n = Len(s)
  BY <1>5, <1>6 DEF Spans
<1>9. lo \in 1 .. n /\ hi \in 1 .. n /\ lo < hi /\ f.low = s[lo]
  BY ONLY <1>5, <1>7, <1>8 DEF Spans
<1>10. PICK b \in 1 .. n : Up(b, n) = lo
  <2>1. PICK b : b = IF lo = 1 THEN n ELSE lo - 1
    OBVIOUS
  <2>2. b \in 1 .. n /\ Up(b, n) = lo
    BY ONLY <1>8, <1>9, <2>1 DEF Up
  <2> QED BY <2>2
<1>11. next[s[b]] = s[lo] /\ prev[s[lo]] = s[b]
  BY ONLY <1>6, <1>8, <1>10 DEF Ring
<1>12. PICK p : p = [prev |-> s[b], current |-> s[lo]]
  OBVIOUS
<1>13. p \in [prev : Nodes \union {Null}, current : Nodes \union {Null}] /\ p.prev = s[b] /\ p.current = s[lo]
  BY ONLY <1>6, <1>8, <1>9, <1>12
<1>14. /\ part' = [part EXCEPT ![t] = p] /\ op' = [op EXCEPT ![t].do = "pivot"]
       /\ UNCHANGED <<fields, root, len, lock, alive, frames>>
  BY <1>4, <1>5, <1>9, <1>11, <1>12 DEF HelperPivot
<1>15. /\ frames \in [Threads -> Seq(Frames)]
       /\ part \in [Threads -> [prev : Nodes \union {Null}, current : Nodes \union {Null}]]
  BY <1>2 DEF ListTyped
<1>16. frames'[t] = fs /\ part'[t] = p /\ frames' = [frames EXCEPT ![t] = fs]
  BY ONLY <1>4, <1>14, <1>15, t \in Threads
<1>17. InOrder(s, R)'
  BY ONLY <1>5, <1>14 DEF InOrder, fields
<1>18. Compared(s, g, p)'
  <2>1. p.prev \in Held(s)
    BY ONLY <1>8, <1>10, <1>13 DEF Held
  <2>2. next'[p.prev] = s[lo]
    BY ONLY <1>11, <1>13, <1>14 DEF fields
  <2>3. lo \in g.lo .. g.hi /\ g.lo .. lo - 1 = {} /\ lo .. lo - 1 = {}
    BY ONLY <1>8, <1>9
  <2> QED BY ONLY <1>13, <2>1, <2>2, <2>3 DEF Compared
<1>19. /\ op'[t] = [do |-> "pivot", on |-> l] /\ \A u \in Threads : u # t => op'[u] = op[u]
       /\ op' \in [Threads -> [do : Waits, on : Lists \union {Null}]]
  BY <1>2, <1>6, <1>14, SortOp
<1>20. Stands(t, s, R)'
  BY ONLY <1>4, <1>5, <1>7, <1>16, <1>17, <1>18 DEF Stands
<1>21. /\ UNCHANGED <<next, prev, heap, root, len, lock, alive>>
       /\ data' \in [Nodes -> Items \union {Null}]
       /\ \A m \in heap \ Held(s) : data'[m] = data[m]
       /\ \A m \in Held(s) : data'[m] \in Items
  BY <1>2, <1>6, <1>14, TypedFacts DEF fields
<1>22. "pivot" \in {"helper", "pivot"} /\ op[t].do \in {"sort", "helper", "pivot"} /\ fs \in Seq(Frames)
  BY <1>2
<1>23. /\ Served(t, l, q, s) /\ Len(s) >= 2 /\ ListTyped /\ Roomy
       /\ part' = [part EXCEPT ![t] = p] /\ frames' = [frames EXCEPT ![t] = fs]
       /\ p \in [prev : Nodes \union {Null}, current : Nodes \union {Null}]
  BY <1>2, <1>5, <1>13, <1>14, <1>16
<1> QED BY ONLY <1>1, <1>19, <1>20, <1>21, <1>22, <1>23, t \in Threads, SortStep
-----------------------------------------------------------------------------
(* The contents of two places of s change sides.                            *)
Swapped(s, i, j) ==
  /\ \A k \in 1 .. Len(s) : data'[s[k]] = data[s[IF k = i THEN j ELSE IF k = j THEN i ELSE k]]
  /\ data' \in [Nodes -> Items \union {Null}]
  /\ \A m \in heap \ Held(s) : data'[m] = data[m]
  /\ \A m \in Held(s) : data'[m] \in Items

(* An exchange swaps the data of two places and links nothing.              *)
LEMMA ExchangeEffect ==
  ASSUME NEW s, NEW r, Ring(s, r, next, prev), data \in [Nodes -> Items \union {Null}],
         heap \subseteq Nodes, Held(s) \subseteq heap, \A n \in heap : data[n] \in Items,
         NEW i \in 1 .. Len(s), NEW j \in 1 .. Len(s), Exchange(s[i], s[j])
  PROVE  Swapped(s, i, j)
<1>1. PICK n : n = Len(s)
  OBVIOUS
<1>2. i \in 1 .. n /\ j \in 1 .. n /\ \A k \in 1 .. n : s[k] \in Held(s) /\ s[k] \in Nodes
  BY <1>1 DEF Held
<1>3. \A a, b \in 1 .. n : s[a] = s[b] => a = b
  BY <1>1 DEF Ring
<1>4. data' = [data EXCEPT ![s[i]] = data[s[j]], ![s[j]] = data[s[i]]]
  BY DEF Exchange
<1>5. \A m \in Nodes : data'[m] = IF m = s[j] THEN data[s[i]] ELSE IF m = s[i] THEN data[s[j]] ELSE data[m]
  BY ONLY <1>2, <1>4, data \in [Nodes -> Items \union {Null}]
<1>6. data[s[i]] \in Items /\ data[s[j]] \in Items
  BY <1>2
<1>7. data' \in [Nodes -> Items \union {Null}]
  BY ONLY <1>2, <1>4, <1>6, data \in [Nodes -> Items \union {Null}]
<1>8. ASSUME NEW k \in 1 .. n
      PROVE  data'[s[k]] = data[s[IF k = i THEN j ELSE IF k = j THEN i ELSE k]]
  <2>1. s[k] = s[i] <=> k = i
    BY ONLY <1>2, <1>3
  <2>2. s[k] = s[j] <=> k = j
    BY ONLY <1>2, <1>3
  <2> QED BY ONLY <1>2, <1>5, <2>1, <2>2
<1>9. \A m \in heap \ Held(s) : data'[m] = data[m]
  BY <1>2, <1>5
<1>10. \A m \in Held(s) : data'[m] \in Items
  <2>1. \A m \in Held(s) : m \in Nodes /\ data[m] \in Items
    OBVIOUS
  <2> QED BY ONLY <1>5, <1>6, <2>1
<1> QED BY ONLY <1>1, <1>7, <1>8, <1>9, <1>10 DEF Swapped

(* The keys are numbers.                                                    *)
LEMMA KeysCompare ==
  ASSUME NEW s, Held(s) \subseteq heap, \A n \in heap : data[n] \in Items
  PROVE  \A k \in 1 .. Len(s) : Key(data[s[k]]) \in Int
<1>1. \A k \in 1 .. Len(s) : data[s[k]] \in Items
  BY DEF Held
<1> QED BY <1>1, KeyAssumption

(* An exchange in one range leaves what is in order in order.               *)
LEMMA SwapKeepsOrder ==
  ASSUME NEW s, Len(s) \in Nat, NEW fs, NEW R, R # << >>, Divided(s, fs, R), InOrder(s, R),
         NEW i, NEW j, i \in R[1].lo .. R[1].hi, j \in R[1].lo .. R[1].hi, Swapped(s, i, j)
  PROVE  InOrder(s, R)'
<1>1. PICK n \in Nat : n = Len(s)
  OBVIOUS
<1>2. PICK z \in Nat \ {0} : z = Len(R)
  BY DEF Divided
<1>3. /\ \A k \in 1 .. z : R[k].lo \in Int /\ R[k].hi \in Int
      /\ 1 \in 1 .. z
      /\ \A k \in 1 .. z : k # 1 => R[1].hi < R[k].lo
      /\ R[1].lo \in 1 .. n + 1 /\ R[1].hi \in 0 .. n
  BY <1>1, <1>2 DEF Divided, Spans
<1>4. i \in 1 .. n /\ j \in 1 .. n
  BY <1>1, <1>3
<1>5. SUFFICES ASSUME NEW a \in 1 .. n, NEW b \in 1 .. n, a < b
               PROVE  \/ Key(data'[s[a]]) <= Key(data'[s[b]])
                      \/ \E k \in 1 .. z : R[k].lo <= a /\ b <= R[k].hi
  BY <1>1, <1>2 DEF InOrder
<1>6. PICK c, d : c = (IF a = i THEN j ELSE IF a = j THEN i ELSE a) /\ d = (IF b = i THEN j ELSE IF b = j THEN i ELSE b)
  OBVIOUS
<1>7. c \in 1 .. n /\ d \in 1 .. n
  BY <1>4, <1>6
<1>8. data'[s[a]] = data[s[c]] /\ data'[s[b]] = data[s[d]]
  BY <1>1, <1>6 DEF Swapped
<1>9. \A x, y \in 1 .. n : x < y => \/ Key(data[s[x]]) <= Key(data[s[y]])
                                    \/ \E k \in 1 .. z : R[k].lo <= x /\ y <= R[k].hi
  BY <1>1, <1>2 DEF InOrder
<1>10. CASE R[1].lo <= a /\ b <= R[1].hi
  BY <1>3, <1>10
<1>11. CASE ~(R[1].lo <= a /\ b <= R[1].hi)
  <2>1. c < d
    BY ONLY <1>3, <1>4, <1>5, <1>6, <1>11, i \in R[1].lo .. R[1].hi, j \in R[1].lo .. R[1].hi
  <2>a. \/ Key(data[s[c]]) <= Key(data[s[d]])
        \/ \E k \in 1 .. z : R[k].lo <= c /\ d <= R[k].hi
    BY ONLY <1>7, <1>9, <2>1
  <2>b. Key(data'[s[a]]) = Key(data[s[c]]) /\ Key(data'[s[b]]) = Key(data[s[d]])
    BY ONLY <1>8
  <2>2. CASE Key(data[s[c]]) <= Key(data[s[d]])
    BY <2>b, <2>2
  <2>3. ASSUME NEW k \in 1 .. z, R[k].lo <= c /\ d <= R[k].hi
        PROVE  R[k].lo <= a /\ b <= R[k].hi
    <3>1. R[k].lo \in Int /\ R[k].hi \in Int /\ (k # 1 => R[1].hi < R[k].lo)
      BY <1>3
    <3> QED BY ONLY <1>3, <1>4, <1>5, <1>6, <1>11, <2>3, <3>1,
                    i \in R[1].lo .. R[1].hi, j \in R[1].lo .. R[1].hi
  <2> QED BY <2>a, <2>2, <2>3
<1> QED BY <1>10, <1>11

(* What a step of the pivot finds.                                          *)
AtPivot(t, l, q, s, f, R, lo, hi, i, j) ==
  /\ AtCall(t, l, q, s, f, R, R[1]) /\ lo = R[1].lo /\ hi = R[1].hi
  /\ lo \in 1 .. Len(s) /\ hi \in 1 .. Len(s) /\ lo < hi
  /\ i \in lo .. hi /\ j \in lo .. hi /\ i <= j
  /\ part[t].prev \in Held(s) /\ next[part[t].prev] = s[i] /\ part[t].current = s[j]
  /\ f.low = s[lo] /\ f.high = s[hi]
  /\ \A k \in lo .. i - 1 : Key(data[s[k]]) <= Key(data[s[hi]])
  /\ \A k \in i .. j - 1 : Key(data[s[k]]) > Key(data[s[hi]])

(* How far the partition of a thread is, in places of its list.             *)
LEMMA PivotPending ==
  ASSUME ListTyped, NEW q, Kept(q), NEW t \in Threads, op[t].do = "pivot"
  PROVE  \E l, s, f, R, lo, hi, i, j : AtPivot(t, l, q, s, f, R, lo, hi, i, j)
<1>1. frames[t] # << >>
  <2>1. PICK l, s : Served(t, l, q, s)
    BY AtWork
  <2>2. Sorting(t, s)
    BY <2>1 DEF Served
  <2> QED BY <2>2 DEF Sorting, Doing
<1>2. PICK l, s, f, R, g : AtCall(t, l, q, s, f, R, g)
  BY <1>1, CallPending
<1>3. g = R[1] /\ Spans(s, f, g) /\ g \in [lo : Int, hi : Int] /\ Stands(t, s, R) /\ Len(s) \in Nat /\ Len(s) >= 2
  BY <1>2 DEF AtCall, Served
<1>4. g.lo < g.hi /\ Compared(s, g, part[t])
  BY <1>3 DEF Stands, Doing
<1>5. PICK lo, hi : lo = g.lo /\ hi = g.hi
  OBVIOUS
<1>6. lo \in 1 .. Len(s) /\ hi \in 1 .. Len(s) /\ lo < hi /\ f.low = s[lo] /\ f.high = s[hi]
  BY ONLY <1>3, <1>4, <1>5 DEF Spans
<1>7. PICK i, j \in lo .. hi :
         /\ i <= j
         /\ part[t].prev \in Held(s) /\ next[part[t].prev] = s[i] /\ part[t].current = s[j]
         /\ \A k \in lo .. i - 1 : Key(data[s[k]]) <= Key(data[s[hi]])
         /\ \A k \in i .. j - 1 : Key(data[s[k]]) > Key(data[s[hi]])
  BY ONLY <1>4, <1>5 DEF Compared
<1>8. AtPivot(t, l, q, s, f, R, lo, hi, i, j)
  BY ONLY <1>2, <1>3, <1>5, <1>6, <1>7 DEF AtPivot
<1> QED BY <1>8


(* A turn of the partition compares one more place, and exchanges within    *)
(* the range only.                                                          *)
LEMMA PivotStepKeeps ==
  ASSUME ListIInv, NEW t \in Threads, PivotStep(t)
  PROVE  ListIInv'
<1>1. PICK q : Kept(q)
  BY DEF ListIInv
<1>2. op[t].do = "pivot" /\ ListTyped /\ Roomy
  BY DEF PivotStep, ListIInv, Doing
<1>3. PICK l, s, f, R, lo, hi, i, j : AtPivot(t, l, q, s, f, R, lo, hi, i, j)
  BY <1>1, <1>2, PivotPending
<1>4. /\ AtCall(t, l, q, s, f, R, R[1]) /\ lo = R[1].lo /\ hi = R[1].hi
      /\ lo \in 1 .. Len(s) /\ hi \in 1 .. Len(s) /\ lo < hi
      /\ i \in lo .. hi /\ j \in lo .. hi /\ i <= j
      /\ part[t].prev \in Held(s) /\ next[part[t].prev] = s[i] /\ part[t].current = s[j]
      /\ f.low = s[lo] /\ f.high = s[hi]
  BY ONLY <1>3 DEF AtPivot
<1>5. /\ \A k \in lo .. i - 1 : Key(data[s[k]]) <= Key(data[s[hi]])
      /\ \A k \in i .. j - 1 : Key(data[s[k]]) > Key(data[s[hi]])
  BY ONLY <1>3 DEF AtPivot
<1>6. /\ Served(t, l, q, s) /\ Stands(t, s, R) /\ Len(s) >= 2 /\ f = Head(frames[t]) /\ R # << >>
      /\ frames[t] \in Seq(Frames)
  BY ONLY <1>4 DEF AtCall
<1>7. /\ On(t) = l /\ Ring(s, root[l], next, prev) /\ s \in Seq(Nodes)
      /\ Held(s) \subseteq heap /\ \A n \in heap : data[n] \in Items
  BY <1>6 DEF Served
<1>8. PICK n \in Nat : n = Len(s)
  BY <1>6 DEF Served
<1>9. PICK fs \in Seq(Frames) : fs = frames[t]
  BY ONLY <1>6
<1>10. Divided(s, fs, R) /\ InOrder(s, R) /\ fs # << >> /\ R[1].lo < R[1].hi
  BY <1>2, <1>6, <1>9 DEF Stands, Doing
<1>11. \A k \in 1 .. n : s[k] \in Nodes /\ s[k] \in Held(s)
  BY <1>7, <1>8 DEF Held
<1>12. part[t].current # f.high
  BY <1>6 DEF PivotStep
<1>13. /\ j \in lo .. hi - 1 /\ j + 1 \in lo .. hi /\ i + 1 \in lo .. hi /\ i + 1 <= j + 1
       /\ i \in 1 .. n /\ j \in 1 .. n /\ i \in 1 .. n - 1 /\ j \in 1 .. n - 1
       /\ i + 1 \in 1 .. n /\ j + 1 \in 1 .. n /\ hi \in 1 .. n /\ lo \in 1 .. n /\ j # hi /\ i # hi
  BY ONLY <1>4, <1>8, <1>12
<1>14. next[s[i]] = s[i + 1] /\ next[s[j]] = s[j + 1]
  <2>1. s # << >>
    BY ONLY <1>6
  <2>2. \A k \in 1 .. n - 1 : next[s[k]] = s[k + 1]
    BY ONLY <1>7, <1>8, <2>1, RingEnds
  <2> QED BY ONLY <1>13, <2>2
<1>15. /\ frames \in [Threads -> Seq(Frames)]
       /\ part \in [Threads -> [prev : Nodes \union {Null}, current : Nodes \union {Null}]]
       /\ data \in [Nodes -> Items \union {Null}] /\ heap \subseteq Nodes
  BY <1>2, TypedFacts DEF ListTyped
<1>16. UNCHANGED <<next, prev, heap, root, len, lock, alive, op, frames>>
  BY DEF PivotStep
<1>17. frames' = [frames EXCEPT ![t] = fs] /\ frames'[t] = fs
  BY ONLY <1>9, <1>15, <1>16, t \in Threads
<1>18. /\ op'[t] = [do |-> "pivot", on |-> l] /\ \A u \in Threads : u # t => op'[u] = op[u]
       /\ op' \in [Threads -> [do : Waits, on : Lists \union {Null}]]
  BY <1>2, <1>7, <1>16, SortOp
<1>19. "pivot" \in {"helper", "pivot"} /\ op[t].do \in {"sort", "helper", "pivot"} /\ fs \in Seq(Frames)
  BY <1>2
<1>20. \A k \in 1 .. n : Key(data[s[k]]) \in Int
  BY <1>7, <1>8, KeysCompare
<1>21. ASSUME NEW p, p \in [prev : Nodes \union {Null}, current : Nodes \union {Null}],
              part' = [part EXCEPT ![t] = p], NEW b, Swapped(s, b, j), b \in lo .. hi, Compared(s, R[1], p)'
       PROVE  ListIInv'
  <2>1. InOrder(s, R)'
    <3>1. Len(s) \in Nat /\ b \in R[1].lo .. R[1].hi /\ j \in R[1].lo .. R[1].hi
      BY <1>4, <1>8, <1>21
    <3> QED BY ONLY <1>6, <1>10, <1>21, <3>1, SwapKeepsOrder
  <2>2. part'[t] = p
    BY ONLY <1>15, <1>21, t \in Threads
  <2>3. Stands(t, s, R)'
    BY ONLY <1>10, <1>17, <1>21, <2>1, <2>2 DEF Stands
  <2>4. /\ data' \in [Nodes -> Items \union {Null}]
        /\ \A m \in heap \ Held(s) : data'[m] = data[m]
        /\ \A m \in Held(s) : data'[m] \in Items
    BY ONLY <1>21 DEF Swapped
  <2>5. UNCHANGED <<next, prev, heap, root, len, lock, alive>> /\ Served(t, l, q, s) /\ Len(s) >= 2
    BY ONLY <1>6, <1>16
  <2>6. part' = [part EXCEPT ![t] = p] /\ p \in [prev : Nodes \union {Null}, current : Nodes \union {Null}]
    BY ONLY <1>21
  <2>7. frames' = [frames EXCEPT ![t] = fs]
    BY ONLY <1>17
  <2> QED BY ONLY <1>1, <1>2, <1>18, <1>19, <2>3, <2>4, <2>5, <2>6, <2>7, t \in Threads, SortStep
<1>22. CASE Key(data[s[j]]) <= Key(data[s[hi]])
  <2>1. PICK p : p = [prev |-> s[i], current |-> s[j + 1]]
    OBVIOUS
  <2>2. p \in [prev : Nodes \union {Null}, current : Nodes \union {Null}] /\ p.prev = s[i] /\ p.current = s[j + 1]
    BY ONLY <1>11, <1>13, <2>1
  <2>3. Exchange(s[i], s[j]) /\ part' = [part EXCEPT ![t] = p]
    BY <1>4, <1>6, <1>14, <1>22, <2>1 DEF PivotStep
  <2>4. Swapped(s, i, j)
    <3>1. i \in 1 .. Len(s) /\ j \in 1 .. Len(s)
      BY ONLY <1>8, <1>13
    <3> QED BY ONLY <1>7, <1>15, <2>3, <3>1, ExchangeEffect
  <2>5. \A k \in 1 .. n : Key(data'[s[k]]) = Key(data[s[IF k = i THEN j ELSE IF k = j THEN i ELSE k]])
    BY ONLY <1>8, <2>4 DEF Swapped
  <2>6. Key(data'[s[hi]]) = Key(data[s[hi]])
    BY ONLY <1>13, <2>5
  <2>7. ASSUME NEW k \in lo .. i PROVE Key(data'[s[k]]) <= Key(data'[s[hi]])
    <3>1. k \in 1 .. n /\ (k # i => k # j /\ k \in lo .. i - 1)
      BY ONLY <1>4, <1>13, <2>7
    <3>2. CASE k = i
      <4>1. Key(data'[s[k]]) = Key(data[s[j]])
        BY ONLY <1>13, <2>5, <3>2
      <4> QED BY <1>22, <2>6, <4>1
    <3>3. CASE k # i
      <4>1. Key(data'[s[k]]) = Key(data[s[k]])
        BY ONLY <2>5, <3>1, <3>3
      <4> QED BY <1>5, <2>6, <3>1, <3>3, <4>1
    <3> QED BY <3>2, <3>3
  <2>8. ASSUME NEW k \in i + 1 .. j PROVE Key(data'[s[k]]) > Key(data'[s[hi]])
    <3>1. k \in 1 .. n /\ k # i /\ i \in i .. j - 1 /\ (k # j => k \in i .. j - 1)
      BY ONLY <1>4, <1>13, <2>8
    <3>2. CASE k = j
      <4>1. Key(data'[s[k]]) = Key(data[s[i]])
        BY ONLY <1>13, <2>5, <3>1, <3>2
      <4> QED BY <1>5, <2>6, <3>1, <4>1
    <3>3. CASE k # j
      <4>1. Key(data'[s[k]]) = Key(data[s[k]])
        BY ONLY <2>5, <3>1, <3>3
      <4> QED BY <1>5, <2>6, <3>1, <3>3, <4>1
    <3> QED BY <3>2, <3>3
  <2>9. Compared(s, R[1], p)'
    <3>1. (i + 1) - 1 = i /\ (j + 1) - 1 = j /\ i + 1 <= j + 1
      BY ONLY <1>13
    <3>2. \A k \in lo .. (i + 1) - 1 : Key(data'[s[k]]) <= Key(data'[s[hi]])
      BY ONLY <2>7, <3>1
    <3>3. \A k \in i + 1 .. (j + 1) - 1 : Key(data'[s[k]]) > Key(data'[s[hi]])
      BY ONLY <2>8, <3>1
    <3>4. p.prev \in Held(s) /\ next'[p.prev] = s[i + 1]
      BY ONLY <1>11, <1>13, <1>14, <1>16, <2>2
    <3> QED BY ONLY <1>4, <1>13, <2>2, <3>2, <3>3, <3>4 DEF Compared
  <2> QED BY ONLY <1>4, <1>21, <2>2, <2>3, <2>4, <2>9
<1>23. CASE ~(Key(data[s[j]]) <= Key(data[s[hi]]))
  <2>1. PICK p : p = [prev |-> part[t].prev, current |-> s[j + 1]]
    OBVIOUS
  <2>2. p \in [prev : Nodes \union {Null}, current : Nodes \union {Null}]
        /\ p.prev = part[t].prev /\ p.current = s[j + 1]
    <3>1. part[t].prev \in Nodes
      BY ONLY <1>4, <1>7, <1>15
    <3> QED BY ONLY <1>11, <1>13, <2>1, <3>1
  <2>3. data' = data /\ part' = [part EXCEPT ![t].current = s[j + 1]]
    BY <1>4, <1>6, <1>14, <1>23 DEF PivotStep
  <2>4. part' = [part EXCEPT ![t] = p]
    <3>1. PICK at : at = part[t]
      OBVIOUS
    <3>2. at \in [prev : Nodes \union {Null}, current : Nodes \union {Null}]
      BY ONLY <1>15, <3>1, t \in Threads
    <3>3. [at EXCEPT !.current = s[j + 1]] = p
      BY ONLY <2>1, <3>1, <3>2
    <3>4. part' = [part EXCEPT ![t] = [at EXCEPT !.current = s[j + 1]]]
      BY ONLY <1>15, <2>3, <3>1, t \in Threads
    <3> QED BY ONLY <3>3, <3>4
  <2>5. Swapped(s, j, j)
    BY ONLY <1>7, <1>15, <2>3 DEF Swapped
  <2>6. Key(data[s[j]]) > Key(data[s[hi]])
    BY ONLY <1>13, <1>20, <1>23
  <2>7. ASSUME NEW k \in i .. j PROVE Key(data[s[k]]) > Key(data[s[hi]])
    <3>1. k # j => k \in i .. j - 1
      BY ONLY <1>13, <2>7
    <3> QED BY <1>5, <2>6, <3>1
  <2>8. Compared(s, R[1], p)'
    <3>1. (j + 1) - 1 = j /\ i <= j + 1
      BY ONLY <1>4, <1>13
    <3>2. \A k \in i .. (j + 1) - 1 : Key(data[s[k]]) > Key(data[s[hi]])
      BY ONLY <2>7, <3>1
    <3>3. p.prev \in Held(s) /\ next'[p.prev] = s[i]
      BY ONLY <1>4, <1>16, <2>2
    <3> QED BY ONLY <1>4, <1>5, <1>13, <2>2, <2>3, <3>1, <3>2, <3>3 DEF Compared
  <2> QED BY ONLY <1>4, <1>21, <2>2, <2>4, <2>5, <2>8
<1> QED BY <1>22, <1>23


(* A call on a stack replaced by the two that it makes.                     *)
LEMMA TwoForOne ==
  ASSUME NEW S, NEW s \in Seq(S), s # << >>, NEW a \in S, NEW b \in S, NEW w, w = <<a, b>> \o Tail(s)
  PROVE  /\ w \in Seq(S) /\ Len(w) = Len(s) + 1 /\ w[1] = a /\ w[2] = b
         /\ \A k \in 3 .. Len(s) + 1 : w[k] = s[k - 1] /\ k - 1 \in 2 .. Len(s)
<1>1. PICK u : u = Tail(s)
  OBVIOUS
<1>2. PICK n \in Nat \ {0} : n = Len(s)
  BY PopRest
<1>3. u \in Seq(S) /\ Len(u) = n - 1 /\ \A k \in 1 .. n - 1 : u[k] = s[k + 1]
  BY <1>1, <1>2, PopRest
<1>4. PICK v : v = <<a, b>>
  OBVIOUS
<1>5. v \in Seq(S) /\ Len(v) = 2 /\ v[1] = a /\ v[2] = b
  BY ONLY <1>4, a \in S, b \in S
<1>6. w = v \o u
  BY <1>1, <1>4
<1>7. /\ w \in Seq(S) /\ Len(w) = n + 1 /\ w[1] = a /\ w[2] = b
      /\ \A k \in 3 .. n + 1 : w[k] = u[k - 2]
  <2>0. v \in Seq(S) /\ u \in Seq(S)
    BY ONLY <1>3, <1>5
  <2>a. /\ v \o u \in Seq(S) /\ Len(v \o u) = Len(v) + Len(u)
        /\ \A k \in 1 .. Len(v) + Len(u) : (v \o u)[k] = IF k <= Len(v) THEN v[k] ELSE u[k - Len(v)]
    BY ONLY <2>0, ConcatProperties, Zenon
  <2>1. w \in Seq(S) /\ Len(w) = 2 + (n - 1)
    BY ONLY <1>3, <1>5, <1>6, <2>a
  <2>2. \A k \in 1 .. 2 + (n - 1) : w[k] = IF k <= 2 THEN v[k] ELSE u[k - 2]
    BY ONLY <1>3, <1>5, <1>6, <2>a
  <2>3. 1 \in 1 .. 2 + (n - 1) /\ 2 \in 1 .. 2 + (n - 1) /\ 2 + (n - 1) = n + 1
    BY <1>2
  <2>4. \A k \in 3 .. n + 1 : k \in 1 .. 2 + (n - 1) /\ ~(k <= 2)
    BY <1>2
  <2> QED BY ONLY <1>5, <2>1, <2>2, <2>3, <2>4
<1>8. ASSUME NEW k \in 3 .. n + 1 PROVE w[k] = s[k - 1] /\ k - 1 \in 2 .. n
  <2>1. k - 2 \in 1 .. n - 1 /\ (k - 2) + 1 = k - 1 /\ k - 1 \in 2 .. n
    BY <1>2
  <2> QED BY ONLY <1>3, <1>7, <2>1
<1> QED BY ONLY <1>2, <1>7, <1>8

(* The calls for what is on the left and on the right of place i.           *)
Halves(s, f1, f2, lo, i, hi) ==
  /\ f1 \in Frames /\ f1.low = s[lo] /\ f1.high = s[IF i = 1 THEN Len(s) ELSE i - 1] /\ f1.count = 1
  /\ f2 \in Frames /\ f2.low = s[IF i = Len(s) THEN 1 ELSE i + 1] /\ f2.high = s[hi] /\ f2.count = 1

(* Two places in one range of R are in one range of Q, or have i between.   *)
Parted(s, R, Q, lo, i, hi) ==
  \A a, b \in 1 .. Len(s) : \A k \in 1 .. Len(R) :
    R[k].lo <= a /\ b <= R[k].hi =>
      \/ \E m \in 1 .. Len(Q) : Q[m].lo <= a /\ b <= Q[m].hi
      \/ lo <= a /\ a <= i /\ i <= b /\ b <= hi
      \/ a >= b

(* The first call is divided at place i.                                    *)
LEMMA CallDivided ==
  ASSUME NEW s, NEW fs \in Seq(Frames), fs # << >>, NEW R, Divided(s, fs, R), Len(s) \in Nat,
         NEW lo, NEW hi, NEW i \in lo .. hi, lo = R[1].lo, hi = R[1].hi, lo \in 1 .. Len(s), hi \in 1 .. Len(s),
         NEW f1, NEW f2, NEW gs, gs = <<f1, f2>> \o Tail(fs), Halves(s, f1, f2, lo, i, hi)
  PROVE  \E Q : Divided(s, gs, Q) /\ Parted(s, R, Q, lo, i, hi)
<1>0. /\ f1 \in Frames /\ f1.low = s[lo] /\ f1.high = s[IF i = 1 THEN Len(s) ELSE i - 1] /\ f1.count = 1
      /\ f2 \in Frames /\ f2.low = s[IF i = Len(s) THEN 1 ELSE i + 1] /\ f2.high = s[hi] /\ f2.count = 1
  BY ONLY Halves(s, f1, f2, lo, i, hi) DEF Halves
<1>1. PICK n \in Nat, z \in Nat \ {0} : n = Len(s) /\ z = Len(fs)
  BY PopRest
<1>2. /\ R \in Seq([lo : Int, hi : Int]) /\ Len(R) = z
      /\ \A k \in 1 .. z : Spans(s, fs[k], R[k])
      /\ \A k, m \in 1 .. z : k < m => R[k].hi < R[m].lo
  BY ONLY <1>1, Divided(s, fs, R) DEF Divided
<1>3. R # << >>
  BY ONLY <1>1, <1>2
<1>4. lo \in 1 .. n /\ hi \in 1 .. n /\ i \in 1 .. n /\ lo <= i /\ i <= hi /\ lo \in Int /\ hi \in Int /\ i \in Int
  BY ONLY <1>1, lo \in 1 .. Len(s), hi \in 1 .. Len(s), i \in lo .. hi
<1>5. PICK g1, g2 : g1 = [lo |-> lo, hi |-> i - 1] /\ g2 = [lo |-> i + 1, hi |-> hi]
  OBVIOUS
<1>6. /\ g1 \in [lo : Int, hi : Int] /\ g1.lo = lo /\ g1.hi = i - 1
      /\ g2 \in [lo : Int, hi : Int] /\ g2.lo = i + 1 /\ g2.hi = hi
  BY ONLY <1>4, <1>5
<1>7. PICK Q : Q = <<g1, g2>> \o Tail(R)
  OBVIOUS
<1>8. /\ Q \in Seq([lo : Int, hi : Int]) /\ Len(Q) = z + 1 /\ Q[1] = g1 /\ Q[2] = g2
      /\ \A k \in 3 .. z + 1 : Q[k] = R[k - 1] /\ k - 1 \in 2 .. z
  BY ONLY <1>2, <1>3, <1>6, <1>7, TwoForOne
<1>9. /\ Len(gs) = z + 1 /\ gs[1] = f1 /\ gs[2] = f2
      /\ \A k \in 3 .. z + 1 : gs[k] = fs[k - 1]
  BY ONLY <1>0, <1>1, fs \in Seq(Frames), fs # << >>, gs = <<f1, f2>> \o Tail(fs), TwoForOne
<1>10. Spans(s, f1, g1)
  BY ONLY <1>0, <1>1, <1>4, <1>6 DEF Spans
<1>11. Spans(s, f2, g2)
  BY ONLY <1>0, <1>1, <1>4, <1>6 DEF Spans
<1>12. ASSUME NEW k \in 1 .. z + 1 PROVE Spans(s, gs[k], Q[k])
  <2>1. k = 1 \/ k = 2 \/ k \in 3 .. z + 1
    BY <1>1
  <2>2. CASE k \in 3 .. z + 1
    <3>1. k - 1 \in 1 .. z
      BY <1>1, <2>2
    <3> QED BY ONLY <1>2, <1>8, <1>9, <2>2, <3>1
  <2> QED BY ONLY <1>8, <1>9, <1>10, <1>11, <2>1, <2>2
<1>13. \A k \in 2 .. z : R[k].lo \in Int /\ R[k].hi \in Int /\ hi < R[k].lo
  <2>1. ASSUME NEW k \in 2 .. z PROVE R[k].lo \in Int /\ R[k].hi \in Int /\ hi < R[k].lo
    <3>1. k \in 1 .. z /\ 1 \in 1 .. z /\ 1 < k
      BY <1>1
    <3>2. Spans(s, fs[k], R[k]) /\ R[1].hi < R[k].lo
      BY ONLY <1>2, <3>1
    <3>3. R[k].lo \in Int /\ R[k].hi \in Int
      BY ONLY <1>1, <3>2 DEF Spans
    <3> QED BY ONLY <3>2, <3>3, hi = R[1].hi
  <2> QED BY <2>1
<1>14. ASSUME NEW k \in 1 .. z + 1, NEW m \in 1 .. z + 1, k < m PROVE Q[k].hi < Q[m].lo
  <2>1. (k = 1 \/ k = 2 \/ k \in 3 .. z + 1) /\ (m = 2 \/ m \in 3 .. z + 1)
    BY <1>1, <1>14
  <2>2. CASE m = 2
    <3>1. k = 1
      BY <1>14, <2>2
    <3> QED BY ONLY <1>4, <1>6, <1>8, <2>2, <3>1
  <2>3. CASE m \in 3 .. z + 1
    <3>1. m - 1 \in 2 .. z /\ Q[m] = R[m - 1] /\ hi < R[m - 1].lo /\ R[m - 1].lo \in Int
      BY ONLY <1>8, <1>13, <2>3
    <3>2. CASE k = 1 \/ k = 2
      <4>1. Q[1].hi <= hi /\ Q[2].hi <= hi /\ Q[1].hi \in Int /\ Q[2].hi \in Int
        BY ONLY <1>4, <1>6, <1>8
      <4>2. Q[k].hi <= hi /\ Q[k].hi \in Int
        BY ONLY <3>2, <4>1
      <4> QED BY ONLY <1>4, <3>1, <4>2
    <3>3. CASE k \in 3 .. z + 1
      <4>1. k - 1 \in 1 .. z /\ m - 1 \in 1 .. z /\ k - 1 < m - 1
        BY <1>1, <1>14, <2>3, <3>3
      <4> QED BY ONLY <1>2, <1>8, <2>3, <3>3, <4>1
    <3> QED BY ONLY <2>1, <3>2, <3>3
  <2> QED BY ONLY <2>1, <2>2, <2>3
<1>15. Divided(s, gs, Q)
  BY ONLY <1>8, <1>9, <1>12, <1>14 DEF Divided
<1>16. ASSUME NEW a \in 1 .. n, NEW b \in 1 .. n, NEW k \in 1 .. z, R[k].lo <= a, b <= R[k].hi
       PROVE  \/ \E m \in 1 .. z + 1 : Q[m].lo <= a /\ b <= Q[m].hi
              \/ lo <= a /\ a <= i /\ i <= b /\ b <= hi
              \/ a >= b
  <2>1. CASE k = 1
    <3>1. lo <= a /\ b <= hi
      BY ONLY <1>16, <2>1, lo = R[1].lo, hi = R[1].hi
    <3>2. CASE b <= i - 1
      <4>0. Q[1].lo = lo /\ Q[1].hi = i - 1
        BY ONLY <1>6, <1>8
      <4>1. 1 \in 1 .. z + 1 /\ Q[1].lo <= a /\ b <= Q[1].hi
        BY ONLY <1>1, <3>1, <3>2, <4>0
      <4> QED BY ONLY <4>1
    <3>3. CASE a >= i + 1
      <4>0. Q[2].lo = i + 1 /\ Q[2].hi = hi
        BY ONLY <1>6, <1>8
      <4>1. 2 \in 1 .. z + 1 /\ Q[2].lo <= a /\ b <= Q[2].hi
        BY ONLY <1>1, <1>4, <3>1, <3>3, <4>0
      <4> QED BY ONLY <4>1
    <3>4. CASE ~(b <= i - 1) /\ ~(a >= i + 1)
      BY ONLY <1>4, <3>1, <3>4, a \in 1 .. n, b \in 1 .. n
    <3> QED BY ONLY <3>2, <3>3, <3>4
  <2>2. CASE k # 1
    <3>1. k + 1 \in 3 .. z + 1 /\ k + 1 \in 1 .. z + 1 /\ (k + 1) - 1 = k
      BY <1>1, <2>2
    <3>2. Q[k + 1] = R[k]
      BY ONLY <1>8, <3>1
    <3>3. k + 1 \in 1 .. z + 1 /\ Q[k + 1].lo <= a /\ b <= Q[k + 1].hi
      BY ONLY <1>16, <3>1, <3>2
    <3> QED BY ONLY <3>3
  <2> QED BY <2>1, <2>2
<1>17. Parted(s, R, Q, lo, i, hi)
  BY ONLY <1>1, <1>2, <1>8, <1>16 DEF Parted
<1> QED BY ONLY <1>15, <1>17

(* The pivot goes between the two halves, and the calls that are to sort    *)
(* these come in place of the one that is done.                             *)
LEMMA PivotEndKeeps ==
  ASSUME ListIInv, NEW t \in Threads, PivotEnd(t)
  PROVE  ListIInv'
<1>1. PICK q : Kept(q)
  BY DEF ListIInv
<1>2. op[t].do = "pivot" /\ ListTyped /\ Roomy
  BY DEF PivotEnd, ListIInv, Doing
<1>3. PICK l, s, f, R, lo, hi, i, j : AtPivot(t, l, q, s, f, R, lo, hi, i, j)
  BY <1>1, <1>2, PivotPending
<1>4. /\ AtCall(t, l, q, s, f, R, R[1]) /\ lo = R[1].lo /\ hi = R[1].hi
      /\ lo \in 1 .. Len(s) /\ hi \in 1 .. Len(s) /\ lo < hi
      /\ i \in lo .. hi /\ j \in lo .. hi /\ i <= j
      /\ part[t].prev \in Held(s) /\ next[part[t].prev] = s[i] /\ part[t].current = s[j]
      /\ f.low = s[lo] /\ f.high = s[hi]
  BY ONLY <1>3 DEF AtPivot
<1>5. /\ \A k \in lo .. i - 1 : Key(data[s[k]]) <= Key(data[s[hi]])
      /\ \A k \in i .. j - 1 : Key(data[s[k]]) > Key(data[s[hi]])
  BY ONLY <1>3 DEF AtPivot
<1>6. /\ Served(t, l, q, s) /\ Stands(t, s, R) /\ Len(s) >= 2 /\ f = Head(frames[t]) /\ R # << >>
      /\ frames[t] \in Seq(Frames) /\ f \in Frames
  BY ONLY <1>4 DEF AtCall
<1>7. /\ On(t) = l /\ Ring(s, root[l], next, prev) /\ s \in Seq(Nodes)
      /\ Held(s) \subseteq heap /\ \A n \in heap : data[n] \in Items
  BY <1>6 DEF Served
<1>8. PICK n \in Nat : n = Len(s)
  BY <1>6 DEF Served
<1>9. PICK fs \in Seq(Frames) : fs = frames[t]
  BY ONLY <1>6
<1>10. Divided(s, fs, R) /\ InOrder(s, R) /\ fs # << >>
  BY <1>2, <1>6, <1>9 DEF Stands, Doing
<1>11. \A k \in 1 .. n : s[k] \in Nodes /\ s[k] \in Held(s)
  BY <1>7, <1>8 DEF Held
<1>12. /\ lo \in 1 .. n /\ hi \in 1 .. n /\ i \in 1 .. n /\ j \in 1 .. n
       /\ lo \in Int /\ hi \in Int /\ i \in Int /\ i <= hi /\ lo <= i
  BY ONLY <1>4, <1>8
<1>13. j = hi
  <2>1. s[j] = s[hi]
    BY <1>4, <1>6 DEF PivotEnd
  <2> QED BY ONLY <1>7, <1>8, <1>12, <2>1 DEF Ring
<1>14. PICK a, b : a = (IF i = 1 THEN n ELSE i - 1) /\ b = (IF i = n THEN 1 ELSE i + 1)
  OBVIOUS
<1>15. a \in 1 .. n /\ b \in 1 .. n /\ prev[s[i]] = s[a] /\ next[s[i]] = s[b]
  <2>1. a \in 1 .. n /\ b \in 1 .. n /\ Up(a, n) = i /\ Up(i, n) = b
    BY ONLY <1>8, <1>12, <1>14 DEF Up
  <2>2. \A k \in 1 .. n : next[s[k]] = s[Up(k, n)] /\ prev[s[Up(k, n)]] = s[k]
    BY ONLY <1>7, <1>8 DEF Ring
  <2> QED BY ONLY <1>12, <2>1, <2>2
<1>16. PICK f1, f2 : /\ f1 = [low |-> f.low, high |-> s[a], count |-> 1]
                     /\ f2 = [low |-> s[b], high |-> f.high, count |-> 1]
  OBVIOUS
<1>17. /\ f1 \in Frames /\ f1.low = s[lo] /\ f1.high = s[a] /\ f1.count = 1
       /\ f2 \in Frames /\ f2.low = s[b] /\ f2.high = s[hi] /\ f2.count = 1
  BY ONLY <1>4, <1>11, <1>12, <1>15, <1>16 DEF Frames
<1>18. PICK gs : gs = <<f1, f2>> \o Tail(fs)
  OBVIOUS
<1>19. gs \in Seq(Frames)
  BY ONLY <1>10, <1>17, <1>18, TwoForOne, fs \in Seq(Frames)
<1>20. /\ Exchange(s[i], s[hi]) /\ frames' = [frames EXCEPT ![t] = gs]
       /\ part' = [part EXCEPT ![t] = NoPart] /\ op' = [op EXCEPT ![t].do = "helper"]
       /\ UNCHANGED <<next, prev, heap, root, len, lock, alive>>
  <2>1. Exchange(s[i], s[hi])
    BY <1>4, <1>6, <1>13 DEF PivotEnd
  <2>2. frames' = [frames EXCEPT ![t] =
          <<[low |-> f.low, high |-> prev[s[i]], count |-> 1],
            [low |-> next[s[i]], high |-> f.high, count |-> 1]>> \o Tail(@)]
    BY <1>4, <1>6 DEF PivotEnd
  <2>3. frames' = [frames EXCEPT ![t] = gs]
    BY <1>2, <1>9, <1>15, <1>16, <1>18, <2>2 DEF ListTyped
  <2> QED BY <2>1, <2>3 DEF PivotEnd
<1>21. /\ frames \in [Threads -> Seq(Frames)]
       /\ data \in [Nodes -> Items \union {Null}] /\ heap \subseteq Nodes
  BY <1>2, TypedFacts DEF ListTyped
<1>22. frames'[t] = gs
  BY ONLY <1>20, <1>21, t \in Threads
<1>23. Swapped(s, i, hi)
  <2>1. i \in 1 .. Len(s) /\ hi \in 1 .. Len(s)
    BY ONLY <1>8, <1>12
  <2> QED BY ONLY <1>7, <1>20, <1>21, <2>1, ExchangeEffect
<1>24. InOrder(s, R)'
  <2>1. Len(s) \in Nat /\ i \in R[1].lo .. R[1].hi /\ hi \in R[1].lo .. R[1].hi
    BY ONLY <1>4, <1>8, <1>12
  <2> QED BY ONLY <1>6, <1>10, <1>23, <2>1, SwapKeepsOrder
<1>25. PICK Q : Divided(s, gs, Q) /\ Parted(s, R, Q, lo, i, hi)
  <2>1. Len(s) \in Nat /\ i \in lo .. hi /\ lo = R[1].lo /\ hi = R[1].hi
        /\ lo \in 1 .. Len(s) /\ hi \in 1 .. Len(s)
    BY ONLY <1>4, <1>8
  <2>2. Halves(s, f1, f2, lo, i, hi)
    BY ONLY <1>8, <1>14, <1>17 DEF Halves
  <2>3. Divided(s, fs, R) /\ fs # << >> /\ fs \in Seq(Frames)
    BY ONLY <1>10, fs \in Seq(Frames)
  <2> QED BY ONLY <1>18, <2>1, <2>2, <2>3, CallDivided
<1>26. /\ \A k \in 1 .. n : Key(data'[s[k]]) = Key(data[s[IF k = i THEN hi ELSE IF k = hi THEN i ELSE k]])
       /\ \A k \in 1 .. n : Key(data[s[k]]) \in Int
  <2>1. \A k \in 1 .. n : Key(data'[s[k]]) = Key(data[s[IF k = i THEN hi ELSE IF k = hi THEN i ELSE k]])
    BY ONLY <1>8, <1>23 DEF Swapped
  <2> QED BY <1>7, <1>8, <2>1, KeysCompare
<1>27. PICK P \in Int : P = Key(data[s[hi]])
  BY ONLY <1>12, <1>26
<1>28. ASSUME NEW k \in lo .. i PROVE Key(data'[s[k]]) \in Int /\ Key(data'[s[k]]) <= P
  <2>1. k \in 1 .. n /\ (k # i => k # hi /\ k \in lo .. i - 1)
    BY ONLY <1>12, <1>28
  <2>2. CASE k = i
    BY ONLY <1>12, <1>26, <1>27, <2>1, <2>2
  <2>3. CASE k # i
    <3>1. Key(data'[s[k]]) = Key(data[s[k]]) /\ Key(data[s[k]]) \in Int
      BY ONLY <1>26, <2>1, <2>3
    <3> QED BY <1>5, <1>27, <2>1, <2>3, <3>1
  <2> QED BY <2>2, <2>3
<1>29. ASSUME NEW k \in i .. hi PROVE Key(data'[s[k]]) \in Int /\ Key(data'[s[k]]) >= P
  <2>1. k \in 1 .. n /\ (k # i => i \in i .. j - 1) /\ (k # hi => k \in i .. j - 1)
    BY ONLY <1>12, <1>13, <1>29
  <2>2. CASE k = i
    BY ONLY <1>12, <1>26, <1>27, <2>1, <2>2
  <2>3. CASE k # i /\ k = hi
    <3>1. Key(data'[s[k]]) = Key(data[s[i]]) /\ Key(data[s[i]]) \in Int
      BY ONLY <1>12, <1>26, <2>1, <2>3
    <3>2. Key(data[s[i]]) > P
      BY <1>5, <1>27, <2>1, <2>3
    <3> QED BY ONLY <1>27, <3>1, <3>2
  <2>4. CASE k # i /\ k # hi
    <3>1. Key(data'[s[k]]) = Key(data[s[k]]) /\ Key(data[s[k]]) \in Int
      BY ONLY <1>26, <2>1, <2>4
    <3>2. Key(data[s[k]]) > P
      BY <1>5, <1>27, <2>1, <2>4
    <3> QED BY ONLY <1>27, <3>1, <3>2
  <2> QED BY <2>2, <2>3, <2>4
<1>30. InOrder(s, Q)'
  <2> SUFFICES ASSUME NEW c \in 1 .. n, NEW d \in 1 .. n, c < d
               PROVE  \/ Key(data'[s[c]]) <= Key(data'[s[d]])
                      \/ \E k \in 1 .. Len(Q) : Q[k].lo <= c /\ d <= Q[k].hi
    BY <1>8 DEF InOrder
  <2>1. \/ Key(data'[s[c]]) <= Key(data'[s[d]])
        \/ \E k \in 1 .. Len(R) : R[k].lo <= c /\ d <= R[k].hi
    BY <1>8, <1>24 DEF InOrder
  <2>2. ASSUME NEW k \in 1 .. Len(R), R[k].lo <= c /\ d <= R[k].hi,
               ~\E m \in 1 .. Len(Q) : Q[m].lo <= c /\ d <= Q[m].hi
        PROVE  Key(data'[s[c]]) <= Key(data'[s[d]])
    <3>1. c \in lo .. i /\ d \in i .. hi
      <4>1. lo <= c /\ c <= i /\ i <= d /\ d <= hi
        <5>1. ~(c >= d)
          OBVIOUS
        <5> QED BY ONLY <1>8, <1>25, <2>2, <5>1, c \in 1 .. n, d \in 1 .. n DEF Parted
      <4> QED BY ONLY <1>12, <4>1, c \in 1 .. n, d \in 1 .. n
    <3>2. /\ Key(data'[s[c]]) \in Int /\ Key(data'[s[c]]) <= P
          /\ Key(data'[s[d]]) \in Int /\ Key(data'[s[d]]) >= P
      BY <1>28, <1>29, <3>1
    <3> QED BY ONLY <1>27, <3>2
  <2> QED BY ONLY <2>1, <2>2
<1>31. /\ op'[t] = [do |-> "helper", on |-> l] /\ \A u \in Threads : u # t => op'[u] = op[u]
       /\ op' \in [Threads -> [do : Waits, on : Lists \union {Null}]]
  BY <1>2, <1>7, <1>20, SortOp
<1>32. Stands(t, s, Q)'
  BY ONLY <1>22, <1>25, <1>30, <1>31 DEF Stands, Doing
<1>33. /\ data' \in [Nodes -> Items \union {Null}]
       /\ \A m \in heap \ Held(s) : data'[m] = data[m]
       /\ \A m \in Held(s) : data'[m] \in Items
  BY ONLY <1>23 DEF Swapped
<1>34. PICK p : p = NoPart
  OBVIOUS
<1>35. p \in [prev : Nodes \union {Null}, current : Nodes \union {Null}] /\ part' = [part EXCEPT ![t] = p]
  BY ONLY <1>20, <1>34 DEF NoPart
<1>36. /\ "helper" \in {"helper", "pivot"} /\ op[t].do \in {"sort", "helper", "pivot"}
       /\ frames' = [frames EXCEPT ![t] = gs] /\ UNCHANGED <<next, prev, heap, root, len, lock, alive>>
       /\ Served(t, l, q, s) /\ Len(s) >= 2 /\ ListTyped /\ Roomy
  BY <1>2, <1>6, <1>20
<1> QED BY ONLY <1>1, <1>19, <1>31, <1>32, <1>33, <1>35, <1>36, t \in Threads, SortStep
-----------------------------------------------------------------------------
(* Empty lists that nobody uses.                                            *)
LEMMA InitListIInv == Init => ListIInv
<1> SUFFICES ASSUME Init PROVE ListIInv
  OBVIOUS
<1>1. ListTyped
  BY DEF Init, ListTyped, TypeOK, Idle, NoPart
<1>2. \A t \in Threads : op[t].do = "none"
  BY DEF Init, Idle
<1>3. Roomy
  <2>0. PICK A : A = {t \in Threads : op[t].do \in Adding}
    OBVIOUS
  <2>1. A = {}
    BY <1>2, <2>0 DEF Adding
  <2>2. Cardinality(A) = 0
    BY <2>1, FS_EmptySet
  <2>3. Cardinality(Nodes \ heap) \in Nat
    BY <1>1, TypedFacts, FS_CardinalityType
  <2>4. Cardinality(A) <= Cardinality(Nodes \ heap)
    BY ONLY <2>2, <2>3
  <2> QED BY ONLY <2>0, <2>4 DEF Roomy
<1>4. PICK w : w = << >>
  OBVIOUS
<1>5. PICK q : q = [l \in Lists |-> w]
  OBVIOUS
<1>6. Held(w) = {} /\ Ring(w, Null, next, prev) /\ w \in Seq(Nodes) /\ Len(w) = 0
  BY <1>4, NothingLeft
<1>7. \A l \in Lists : q[l] = w
  BY <1>5
<1>8. Rings(q)
  <2>1. q \in [Lists -> Seq(Nodes)]
    BY <1>5, <1>6
  <2>2. \A l \in Lists : root[l] = Null
    BY DEF Init
  <2>3. heap = {}
    BY DEF Init
  <2> QED BY ONLY <1>6, <1>7, <2>1, <2>2, <2>3 DEF Rings
<1>9. \A l \in Lists : Unlocked(l, q[l])
  BY <1>6, <1>7 DEF Init, Unlocked
<1>10. \A t \in Threads : Serving(t, q)
  BY <1>2 DEF Serving, Busy
<1> QED BY <1>1, <1>3, <1>8, <1>9, <1>10 DEF ListIInv, Kept

(* What is kept is a matter of the variables.                               *)
LEMMA StillListIInv == ListIInv /\ UNCHANGED vars => ListIInv'
<1> SUFFICES ASSUME ListIInv, UNCHANGED vars PROVE ListIInv'
  OBVIOUS
<1>1. UNCHANGED <<data, next, prev, heap, root, len, lock, alive, op, frames, part>>
  BY DEF vars, fields
<1>2. ListTyped'
  BY <1>1 DEF ListIInv, ListTyped, TypeOK
<1>3. Roomy'
  BY <1>1 DEF ListIInv, Roomy
<1>4. PICK q : Kept(q)
  BY DEF ListIInv
<1>5. PICK T, L : T = {} /\ L = {}
  OBVIOUS
<1>6. Aside(T, L, q, q)
  BY <1>1, <1>5 DEF Aside
<1>7. Rings(q)'
  BY <1>1, <1>4 DEF Kept, Rings
<1>8. (\A t \in T : Serving(t, q)') /\ (\A l \in L : Unlocked(l, q[l])')
  BY <1>5
<1>9. Kept(q)'
  BY ONLY <1>4, <1>6, <1>7, <1>8, KeptStep
<1> QED BY <1>2, <1>3, <1>9 DEF ListIInv

(* Every step keeps the lists.                                              *)
LEMMA NextListIInv == ListIInv /\ [Next]_vars => ListIInv'
<1> SUFFICES ASSUME ListIInv, [Next]_vars PROVE ListIInv'
  OBVIOUS
<1>1. ASSUME NEW t \in Threads, NEW l \in Lists, NEW what \in Adding, Room, Call(t, l, what)
      PROVE  ListIInv'
  BY <1>1, CallKeeps
<1>2. ASSUME NEW t \in Threads, NEW l \in Lists, NEW what \in Removing \union {"sort"}, Call(t, l, what)
      PROVE  ListIInv'
  <2>1. what \in Adding \union Removing \union {"sort"} /\ what \notin Adding
    BY DEF Adding, Removing
  <2> QED BY <1>2, <2>1, CallKeeps
<1>3. ASSUME NEW t \in Threads, Step(t) PROVE ListIInv'
  <2>1. CASE Add(t)
    BY <2>1, AddKeeps
  <2>2. CASE Added(t)
    BY <2>2, AddedKeeps
  <2>3. CASE RemoveNone(t)
    BY <2>3, RemoveNoneKeeps
  <2>4. CASE RemoveHead(t)
    BY <2>4, RemoveHeadKeeps
  <2>5. CASE RemoveTail(t)
    BY <2>5, RemoveTailKeeps
  <2>6. CASE Removed(t)
    BY <2>6, RemovedKeeps
  <2>7. CASE Sort(t)
    BY <2>7, SortKeeps
  <2>8. CASE HelperReturn(t)
    BY <2>8, HelperReturnKeeps
  <2>9. CASE HelperPivot(t)
    BY <2>9, HelperPivotKeeps
  <2>10. CASE PivotStep(t)
    BY <2>10, PivotStepKeeps
  <2>11. CASE PivotEnd(t)
    BY <2>11, PivotEndKeeps
  <2>12. CASE SortReturn(t)
    BY <2>12, SortReturnKeeps
  <2> QED BY <1>3, <2>1, <2>2, <2>3, <2>4, <2>5, <2>6, <2>7, <2>8, <2>9, <2>10, <2>11, <2>12 DEF Step
<1>4. ASSUME NEW l \in Lists, NEW m \in Lists, Append2(l, m) PROVE ListIInv'
  BY <1>4, JoinKeeps
<1>5. ASSUME NEW l \in Lists, Release(l) PROVE ListIInv'
  BY <1>5, ReleaseKeeps
<1>6. CASE UNCHANGED vars
  BY <1>6, StillListIInv
<1> QED BY <1>1, <1>2, <1>3, <1>4, <1>5, <1>6 DEF Next

(* Each list is at all times the ring of some sequence of nodes of its own, *)
(* with the length that len, or the operation under way, says; a sort has   *)
(* all but the ranges of its pending calls in order.                        *)
THEOREM ListInvariant == Spec => []ListIInv
BY InitListIInv, NextListIInv, PTL DEF Spec

(* Whatever threads add, remove, sort, join and release, the lists are      *)
(* rings that close, read backwards as forwards, share no node, have no     *)
(* freed one, leak none, and show a right length to who finds them free.    *)
THEOREM ListsAreSound == Spec => []ListsSound
BY ListInvariant, IInvListsSound, PTL

(* The recursion of mboxQSortHelper, kept as a stack of calls, ends with    *)
(* the list in the order of the keys.                                       *)
THEOREM SortIsRight == Spec => []SortSorts
BY ListInvariant, IInvSortSorts, PTL

-----------------------------------------------------------------------------
(* What a list shows of its nodes.                                          *)
Data(d, s) == [i \in 1 .. Len(s) |-> d[s[i]]]

(* What is shown is a sequence of items, as long as that of the nodes.      *)
LEMMA DataFacts ==
  ASSUME NEW d, NEW s \in Seq(Nodes), \A n \in Held(s) : d[n] \in Items
  PROVE  /\ Data(d, s) \in Seq(Items)
         /\ Len(Data(d, s)) = Len(s) /\ Len(s) \in Nat
         /\ \A i \in 1 .. Len(s) : Data(d, s)[i] = d[s[i]]
<1>1. \A i \in 1 .. Len(s) : d[s[i]] \in Items
  BY DEF Held
<1>2. PICK n \in Nat : n = Len(s)
  OBVIOUS
<1>3. PICK e : e = [i \in 1 .. n |-> d[s[i]]]
  OBVIOUS
<1>4. e \in [1 .. n -> Items] /\ \A i \in 1 .. n : e[i] = d[s[i]]
  BY ONLY <1>1, <1>2, <1>3
<1>5. e \in Seq(Items)
  BY ONLY <1>4, n \in Nat, SeqDef
<1>6. Len(e) = n
  BY ONLY <1>4, <1>5, n \in Nat, LenProperties
<1>7. Data(d, s) = e
  BY ONLY <1>2, <1>3 DEF Data
<1> QED BY ONLY <1>2, <1>4, <1>5, <1>6, <1>7

(* It depends on the fields of these nodes only.                            *)
LEMMA DataSame ==
  ASSUME NEW d, NEW e, NEW s \in Seq(Nodes), \A n \in Held(s) : d[n] = e[n]
  PROVE  Data(d, s) = Data(e, s)
<1>1. \A i \in 1 .. Len(s) : d[s[i]] = e[s[i]]
  BY DEF Held
<1> QED BY <1>1 DEF Data

(* Sequences that are put together show what they showed.                   *)
LEMMA DataConcat ==
  ASSUME NEW d, NEW s \in Seq(Nodes), NEW u \in Seq(Nodes), NEW w, w = s \o u,
         \A n \in Held(s) \union Held(u) : d[n] \in Items
  PROVE  Data(d, w) = Data(d, s) \o Data(d, u)
<1>1. /\ w \in Seq(Nodes) /\ Len(w) = Len(s) + Len(u) /\ Len(s) \in Nat /\ Len(u) \in Nat
      /\ \A i \in 1 .. Len(s) + Len(u) : w[i] = IF i <= Len(s) THEN s[i] ELSE u[i - Len(s)]
  BY ConcatProperties, LenProperties
<1>2. \A n \in Held(w) : d[n] \in Items
  <2>1. ASSUME NEW i \in 1 .. Len(w) PROVE w[i] \in Held(s) \union Held(u)
    <3>1. CASE i <= Len(s)
      <4>1. i \in 1 .. Len(s) /\ w[i] = s[i]
        BY ONLY <1>1, <3>1, i \in 1 .. Len(w)
      <4> QED BY ONLY <4>1 DEF Held
    <3>2. CASE ~(i <= Len(s))
      <4>1. i - Len(s) \in 1 .. Len(u) /\ w[i] = u[i - Len(s)]
        BY ONLY <1>1, <3>2, i \in 1 .. Len(w)
      <4> QED BY ONLY <4>1 DEF Held
    <3> QED BY <3>1, <3>2
  <2> QED BY <2>1 DEF Held
<1>3. PICK a, b, c : a = Data(d, s) /\ b = Data(d, u) /\ c = Data(d, w)
  OBVIOUS
<1>4. /\ a \in Seq(Items) /\ Len(a) = Len(s) /\ \A i \in 1 .. Len(s) : a[i] = d[s[i]]
      /\ b \in Seq(Items) /\ Len(b) = Len(u) /\ \A i \in 1 .. Len(u) : b[i] = d[u[i]]
  BY <1>3, DataFacts
<1>5. c \in Seq(Items) /\ Len(c) = Len(w) /\ \A i \in 1 .. Len(w) : c[i] = d[w[i]]
  BY <1>1, <1>2, <1>3, DataFacts
<1>6. /\ a \o b \in Seq(Items) /\ Len(a \o b) = Len(a) + Len(b)
      /\ \A i \in 1 .. Len(a) + Len(b) : (a \o b)[i] = IF i <= Len(a) THEN a[i] ELSE b[i - Len(a)]
  BY ONLY <1>4, ConcatProperties
<1>7. PICK v : v = a \o b
  OBVIOUS
<1>8. ASSUME NEW i \in 1 .. Len(c) PROVE c[i] = v[i]
  <2>1. CASE i <= Len(s)
    <3>1. i \in 1 .. Len(s) /\ i \in 1 .. Len(w) /\ i \in 1 .. Len(s) + Len(u)
      BY ONLY <1>1, <1>5, <2>1, i \in 1 .. Len(c)
    <3> QED BY ONLY <1>1, <1>4, <1>5, <1>6, <1>7, <2>1, <3>1
  <2>2. CASE ~(i <= Len(s))
    <3>1. i - Len(s) \in 1 .. Len(u) /\ i \in 1 .. Len(w) /\ i \in 1 .. Len(s) + Len(u)
      BY ONLY <1>1, <1>5, <2>2, i \in 1 .. Len(c)
    <3>2. PICK k : k = i - Len(s)
      OBVIOUS
    <3>3. v[i] = b[k]
      BY ONLY <1>4, <1>6, <1>7, <2>2, <3>1, <3>2
    <3>4. w[i] = u[k]
      BY ONLY <1>1, <2>2, <3>1, <3>2
    <3> QED BY ONLY <1>4, <1>5, <3>1, <3>2, <3>3, <3>4
  <2> QED BY <2>1, <2>2
<1>9. c = v
  BY ONLY <1>1, <1>4, <1>5, <1>6, <1>7, <1>8, SeqEqual
<1> QED BY ONLY <1>3, <1>7, <1>9

(* One node shows one item.                                                 *)
LEMMA DataOne ==
  ASSUME NEW d, NEW n
  PROVE  Data(d, <<n>>) = <<d[n]>>
BY DEF Data

(* Without its first node a sequence shows the tail of what it showed, and  *)
(* without its last one the front.                                          *)
LEMMA DataShorter ==
  ASSUME NEW d, NEW s \in Seq(Nodes), s # << >>, \A n \in Held(s) : d[n] \in Items
  PROVE  /\ Data(d, s) # << >>
         /\ Data(d, Tail(s)) = Tail(Data(d, s))
         /\ Data(d, SubSeq(s, 1, Len(s) - 1)) = SubSeq(Data(d, s), 1, Len(Data(d, s)) - 1)
<1>1. PICK a : a = Data(d, s)
  OBVIOUS
<1>2. /\ a \in Seq(Items) /\ Len(a) = Len(s) /\ Len(s) \in Nat \ {0}
      /\ \A i \in 1 .. Len(s) : a[i] = d[s[i]] /\ s[i] \in Nodes /\ a[i] \in Items
      /\ a # << >>
  <2>1. a \in Seq(Items) /\ Len(a) = Len(s) /\ \A i \in 1 .. Len(s) : a[i] = d[s[i]]
    BY <1>1, DataFacts
  <2>2. Len(s) \in Nat \ {0}
    BY EmptySeq
  <2>3. a # << >>
    BY ONLY <2>1, <2>2, EmptySeq
  <2>4. \A i \in 1 .. Len(s) : s[i] \in Nodes
    BY ElementOfSeq
  <2>5. \A i \in 1 .. Len(a) : a[i] \in Items
    BY <2>1, ElementOfSeq
  <2> QED BY ONLY <2>1, <2>2, <2>3, <2>4, <2>5
<1>3. Data(d, Tail(s)) = Tail(a)
  <2>1. PICK w, b : w = Tail(s) /\ b = Tail(a)
    OBVIOUS
  <2>2. w \in Seq(Nodes) /\ Len(w) = Len(s) - 1 /\ \A i \in 1 .. Len(w) : w[i] = s[i + 1]
    BY <2>1, HeadTailProperties
  <2>3. b \in Seq(Items) /\ Len(b) = Len(a) - 1 /\ \A i \in 1 .. Len(b) : b[i] = a[i + 1]
    BY <1>2, <2>1, HeadTailProperties
  <2>4. \A i \in 1 .. Len(w) : w[i] \in Held(s) /\ d[w[i]] = b[i]
    <3>1. \A i \in 1 .. Len(w) : i + 1 \in 1 .. Len(s) /\ i \in 1 .. Len(b)
      BY ONLY <1>2, <2>2, <2>3
    <3> QED BY ONLY <1>2, <2>2, <2>3, <3>1 DEF Held
  <2>5. \A n \in Held(w) : d[n] \in Items
    BY <2>4 DEF Held
  <2>6. /\ Data(d, w) \in Seq(Items) /\ Len(Data(d, w)) = Len(w)
        /\ \A i \in 1 .. Len(w) : Data(d, w)[i] = d[w[i]]
    BY <2>2, <2>5, DataFacts
  <2>7. Len(Data(d, w)) = Len(b) /\ \A i \in 1 .. Len(Data(d, w)) : Data(d, w)[i] = b[i]
    BY ONLY <1>2, <2>2, <2>3, <2>4, <2>6
  <2>8. Data(d, w) = b
    BY ONLY <2>3, <2>6, <2>7, SeqEqual
  <2> QED BY <2>1, <2>8
<1>4. Data(d, SubSeq(s, 1, Len(s) - 1)) = SubSeq(a, 1, Len(a) - 1)
  <2>1. PICK w, b : w = SubSeq(s, 1, Len(s) - 1) /\ b = SubSeq(a, 1, Len(a) - 1)
    OBVIOUS
  <2>2. w \in Seq(Nodes) /\ Len(w) = Len(s) - 1 /\ \A i \in 1 .. Len(w) : w[i] = s[i]
    <3>1. \A i \in 1 .. Len(s) - 1 : s[i] \in Nodes
      BY ONLY <1>2
    <3>2. /\ w \in Seq(Nodes) /\ Len(w) = IF 1 <= Len(s) - 1 THEN Len(s) - 1 - 1 + 1 ELSE 0
          /\ \A i \in 1 .. Len(s) - 1 - 1 + 1 : w[i] = s[1 + i - 1]
      BY ONLY <1>2, <2>1, <3>1, SubSeqProperties
    <3> QED BY ONLY <1>2, <3>2
  <2>3. b \in Seq(Items) /\ Len(b) = Len(a) - 1 /\ \A i \in 1 .. Len(b) : b[i] = a[i]
    <3>1. \A i \in 1 .. Len(a) - 1 : a[i] \in Items
      BY ONLY <1>2
    <3>2. /\ b \in Seq(Items) /\ Len(b) = IF 1 <= Len(a) - 1 THEN Len(a) - 1 - 1 + 1 ELSE 0
          /\ \A i \in 1 .. Len(a) - 1 - 1 + 1 : b[i] = a[1 + i - 1]
      BY ONLY <1>2, <2>1, <3>1, SubSeqProperties
    <3> QED BY ONLY <1>2, <3>2
  <2>4. \A i \in 1 .. Len(w) : w[i] \in Held(s) /\ d[w[i]] = b[i]
    <3>1. \A i \in 1 .. Len(w) : i \in 1 .. Len(s) /\ i \in 1 .. Len(b)
      BY ONLY <1>2, <2>2, <2>3
    <3> QED BY ONLY <1>2, <2>2, <2>3, <3>1 DEF Held
  <2>5. \A n \in Held(w) : d[n] \in Items
    BY <2>4 DEF Held
  <2>6. /\ Data(d, w) \in Seq(Items) /\ Len(Data(d, w)) = Len(w)
        /\ \A i \in 1 .. Len(w) : Data(d, w)[i] = d[w[i]]
    BY <2>2, <2>5, DataFacts
  <2>7. Len(Data(d, w)) = Len(b) /\ \A i \in 1 .. Len(Data(d, w)) : Data(d, w)[i] = b[i]
    BY ONLY <1>2, <2>2, <2>3, <2>4, <2>6
  <2>8. Data(d, w) = b
    BY ONLY <2>3, <2>6, <2>7, SeqEqual
  <2> QED BY <2>1, <2>8
<1> QED BY <1>1, <1>2, <1>3, <1>4

-----------------------------------------------------------------------------
(* What the lists are to their users.                                       *)
Shown == [l \in Lists |-> Contents(l)]

(* The contents of a list are what its ring shows.                          *)
LEMMA ContentsShown ==
  \A q : next \in [Nodes -> Nodes \union {Null}] /\ Rings(q) =>
           \A l \in Lists : Contents(l) = Data(data, q[l])
<1> SUFFICES ASSUME NEW q, next \in [Nodes -> Nodes \union {Null}], Rings(q), NEW l \in Lists
             PROVE  Contents(l) = Data(data, q[l])
  OBVIOUS
<1>1. Walk(l) = q[l]
  BY RingsWalked
<1>2. DOMAIN q[l] = 1 .. Len(q[l])
  BY SeqFacts DEF Rings
<1> QED BY <1>1, <1>2 DEF Contents, Data

(* And so they are after a step.                                            *)
LEMMA ContentsAfter ==
  \A q : next' \in [Nodes -> Nodes \union {Null}] /\ Rings(q)' =>
           \A l \in Lists : Contents(l)' = Data(data', q[l])
<1>1. (\A q : next \in [Nodes -> Nodes \union {Null}] /\ Rings(q) =>
                \A l \in Lists : Contents(l) = Data(data, q[l]))'
  BY ContentsShown, PTL
<1> QED BY <1>1 DEF Data

(* The list that a thread is on, after a step.                              *)
LEMMA OnAfter ==
  \A t \in Threads, l \in Lists : On(t)' = l => Contents(On(t))' = Contents(l)'
<1>1. \A t \in Threads, l \in Lists : On(t) = l => Contents(On(t)) = Contents(l)
  OBVIOUS
<1>2. (\A t \in Threads, l \in Lists : On(t) = l => Contents(On(t)) = Contents(l))'
  BY <1>1, PTL
<1> QED BY <1>2

(* A step changes what l shows from c to e, and what no other list shows.   *)
Turned(l, c, e) ==
  /\ l \in Lists /\ c = Contents(l) /\ e = Contents(l)' /\ c \in Seq(Items)
  /\ Shown' = [Shown EXCEPT ![l] = e]

(* A step that makes w of the ring of l, and leaves what other nodes have.  *)
LEMMA OneShown ==
  ASSUME ListTyped, ListTyped', NEW q, NEW q2, Rings(q), Rings(q2)', NEW l \in Lists, NEW w,
         q2 = [q EXCEPT ![l] = w], \A n \in heap \ Held(q[l]) : data'[n] = data[n]
  PROVE  /\ Turned(l, Data(data, q[l]), Data(data', w)) /\ q[l] \in Seq(Nodes)
         /\ \A n \in Held(q[l]) : n \in heap /\ data[n] \in Items
         /\ w \in Seq(Nodes) /\ \A n \in Held(w) : n \in heap' /\ data'[n] \in Items
<1>1. next \in [Nodes -> Nodes \union {Null}] /\ next' \in [Nodes -> Nodes \union {Null}]
  BY DEF ListTyped, TypeOK
<1>2. /\ \A m \in Lists : Contents(m) = Data(data, q[m])
      /\ \A m \in Lists : Contents(m)' = Data(data', q2[m])
  BY <1>1, ContentsShown, ContentsAfter
<1>3. /\ q \in [Lists -> Seq(Nodes)] /\ q2 \in [Lists -> Seq(Nodes)]
      /\ \A m \in Lists : \A n \in Held(q[m]) : n \in heap /\ data[n] \in Items
      /\ \A m \in Lists : \A n \in Held(q2[m]) : n \in heap' /\ data'[n] \in Items
      /\ \A m \in Lists : m # l => Held(q[m]) \intersect Held(q[l]) = {}
  BY DEF Rings
<1>4. q2[l] = w /\ \A m \in Lists : m # l => q2[m] = q[m]
  BY ONLY <1>3, l \in Lists, q2 = [q EXCEPT ![l] = w]
<1>5. ASSUME NEW m \in Lists, m # l PROVE Contents(m)' = Contents(m)
  <2>1. \A n \in Held(q[m]) : data'[n] = data[n]
    BY <1>3, <1>5
  <2>2. q[m] \in Seq(Nodes)
    BY <1>3
  <2>3. Data(data', q[m]) = Data(data, q[m])
    BY ONLY <2>1, <2>2, DataSame
  <2> QED BY ONLY <1>2, <1>4, <1>5, <2>3
<1>6. Shown' = [Shown EXCEPT ![l] = Data(data', w)]
  BY <1>2, <1>4, <1>5 DEF Shown
<1>7. Data(data, q[l]) \in Seq(Items)
  BY <1>3, DataFacts
<1> QED BY <1>2, <1>3, <1>4, <1>6, <1>7 DEF Turned

(* An addition puts its item at the end it is named for.                    *)
LEMMA AddShows ==
  ASSUME ListIInv, ListIInv', NEW t \in Threads, Add(t)
  PROVE  \E l, c, e : \E x \in Items :
           /\ Turned(l, c, e) /\ On(t) = l
           /\ e = IF Doing(t, "addHead") THEN <<x>> \o c ELSE c \o <<x>>
<1>1. PICK q : Kept(q)
  BY DEF ListIInv
<1>2. op[t].do \in Adding /\ ListTyped /\ Roomy /\ ListTyped'
  BY DEF Add, ListIInv
<1>3. PICK l, s : Served(t, l, q, s)
  BY <1>1, <1>2, AtWork DEF Adding
<1>4. l \in Lists /\ On(t) = l /\ s = q[l] /\ Rings(q)
  BY <1>1, <1>3 DEF Served, Kept
<1>5. PICK n, x, q2, w :
        /\ n \in Nodes \ heap /\ x \in Items
        /\ Linked(l, n, x, q, q2, w)
        /\ w = IF Doing(t, "addHead") THEN <<n>> \o s ELSE s \o <<n>>
  <2>1. \E n \in Nodes \ heap, x \in Items : \E q2, w :
          /\ Linked(On(t), n, x, q, q2, w)
          /\ w = IF Doing(t, "addHead") THEN <<n>> \o q[On(t)] ELSE q[On(t)] \o <<n>>
    BY <1>2, <1>4, AddEffect
  <2> QED BY ONLY <1>4, <2>1
<1>6. data' = [data EXCEPT ![n] = x] /\ Rings(q2)' /\ q2 = [q EXCEPT ![l] = w]
  BY ONLY <1>5 DEF Linked
<1>7. data \in [Nodes -> Items \union {Null}] /\ heap \subseteq Nodes
  BY <1>2, TypedFacts
<1>8. data'[n] = x /\ \A m \in heap : data'[m] = data[m]
  BY ONLY <1>5, <1>6, <1>7
<1>9. \A m \in heap \ Held(q[l]) : data'[m] = data[m]
  BY <1>8
<1>10. /\ Turned(l, Data(data, s), Data(data', w)) /\ s \in Seq(Nodes)
       /\ \A m \in Held(s) : m \in heap /\ data[m] \in Items
  BY <1>2, <1>4, <1>6, <1>9, OneShown
<1>11. PICK u : u = <<n>>
  OBVIOUS
<1>12. u \in Seq(Nodes) /\ \A m \in Held(u) : data'[m] \in Items
  <2>1. u \in Seq(Nodes) /\ Len(u) = 1 /\ u[1] = n
    BY <1>5, <1>11
  <2> QED BY ONLY <1>5, <1>8, <2>1 DEF Held
<1>13. \A m \in Held(s) : data'[m] = data[m]
  BY <1>8, <1>10
<1>14. \A m \in Held(s) \union Held(u) : data'[m] \in Items
  BY <1>10, <1>12, <1>13
<1>15. Data(data', s) = Data(data, s)
  BY ONLY <1>10, <1>13, DataSame
<1>16. Data(data', u) = <<x>>
  BY <1>8, <1>11, DataOne
<1>17. CASE Doing(t, "addHead")
  <2>1. w = u \o s
    BY <1>5, <1>11, <1>17
  <2>2. Data(data', w) = Data(data', u) \o Data(data', s)
    BY ONLY <1>10, <1>12, <1>14, <2>1, DataConcat
  <2> QED BY <1>4, <1>5, <1>10, <1>15, <1>16, <1>17, <2>2
<1>18. CASE ~Doing(t, "addHead")
  <2>1. w = s \o u
    BY <1>5, <1>11, <1>18
  <2>2. Data(data', w) = Data(data', s) \o Data(data', u)
    BY ONLY <1>10, <1>12, <1>14, <2>1, DataConcat
  <2> QED BY <1>4, <1>5, <1>10, <1>15, <1>16, <1>18, <2>2
<1> QED BY <1>17, <1>18

(* A removal takes away the end it is named for.                            *)
LEMMA DropShows ==
  ASSUME ListTyped, ListTyped', NEW q, Rings(q), NEW l \in Lists, NEW n, NEW q2, NEW w,
         Dropped(l, n, q, q2, w), n \in Held(q[l])
  PROVE  /\ Turned(l, Data(data, q[l]), Data(data, w))
         /\ q[l] \in Seq(Nodes) /\ \A m \in Held(q[l]) : data[m] \in Items
<1>1. /\ data' = [data EXCEPT ![n] = Null] /\ heap' = heap \ {n}
      /\ Rings(q2)' /\ q2 = [q EXCEPT ![l] = w]
  BY DEF Dropped
<1>2. data \in [Nodes -> Items \union {Null}] /\ heap \subseteq Nodes
  BY TypedFacts
<1>3. \A m \in heap : m # n => data'[m] = data[m]
  BY ONLY <1>1, <1>2
<1>4. \A m \in heap \ Held(q[l]) : data'[m] = data[m]
  BY <1>3
<1>5. /\ Turned(l, Data(data, q[l]), Data(data', w)) /\ q[l] \in Seq(Nodes) /\ w \in Seq(Nodes)
      /\ \A m \in Held(q[l]) : m \in heap /\ data[m] \in Items
      /\ \A m \in Held(w) : m \in heap'
  BY <1>1, <1>4, OneShown
<1>6. \A m \in Held(w) : data'[m] = data[m]
  BY <1>1, <1>3, <1>5
<1>7. Data(data', w) = Data(data, w)
  BY ONLY <1>5, <1>6, DataSame
<1> QED BY <1>5, <1>7

(* What is left when an item that was put at an end is not looked at.       *)
LEMMA EndsOff ==
  ASSUME NEW S, NEW c \in Seq(S), NEW x \in S
  PROVE  /\ Tail(<<x>> \o c) = c
         /\ SubSeq(c \o <<x>>, 1, Len(c \o <<x>>) - 1) = c
         /\ c \o <<x>> = Append(c, x)
<1>1. PICK u, a, b : u = <<x>> /\ a = u \o c /\ b = c \o u
  OBVIOUS
<1>2. u \in Seq(S) /\ Len(u) = 1 /\ u[1] = x /\ Len(c) \in Nat
  BY <1>1
<1>3. /\ a \in Seq(S) /\ Len(a) = 1 + Len(c)
      /\ \A i \in 1 .. 1 + Len(c) : a[i] = IF i <= 1 THEN u[i] ELSE c[i - 1]
  BY ONLY <1>1, <1>2, ConcatProperties, c \in Seq(S)
<1>4. /\ b \in Seq(S) /\ Len(b) = Len(c) + 1
      /\ \A i \in 1 .. Len(c) + 1 : b[i] = IF i <= Len(c) THEN c[i] ELSE u[i - Len(c)]
  BY ONLY <1>1, <1>2, ConcatProperties, c \in Seq(S)
<1>5. Tail(a) = c
  <2>1. a # << >>
    BY ONLY <1>2, <1>3
  <2>2. PICK w : w = Tail(a)
    OBVIOUS
  <2>3. w \in Seq(S) /\ Len(w) = Len(a) - 1 /\ \A i \in 1 .. Len(w) : w[i] = a[i + 1]
    BY ONLY <1>3, <2>1, <2>2, HeadTailProperties
  <2>4. \A i \in 1 .. Len(w) : w[i] = c[i]
    <3>1. ASSUME NEW i \in 1 .. Len(w) PROVE w[i] = c[i]
      <4>1. i + 1 \in 1 .. 1 + Len(c) /\ ~(i + 1 <= 1) /\ (i + 1) - 1 = i
        BY ONLY <1>2, <1>3, <2>3, i \in 1 .. Len(w)
      <4> QED BY ONLY <1>3, <2>3, <4>1, i \in 1 .. Len(w)
    <3> QED BY <3>1
  <2>5. Len(w) = Len(c)
    BY ONLY <1>2, <1>3, <2>3
  <2> QED BY ONLY <2>2, <2>3, <2>4, <2>5, SeqEqual, c \in Seq(S)
<1>6. SubSeq(b, 1, Len(b) - 1) = c
  <2>1. PICK w : w = SubSeq(b, 1, Len(b) - 1)
    OBVIOUS
  <2>2. \A i \in 1 .. Len(b) - 1 : b[i] \in S
    BY ONLY <1>2, <1>4, ElementOfSeq
  <2>3. /\ w \in Seq(S) /\ Len(w) = IF 1 <= Len(b) - 1 THEN Len(b) - 1 - 1 + 1 ELSE 0
        /\ \A i \in 1 .. Len(b) - 1 - 1 + 1 : w[i] = b[1 + i - 1]
    BY ONLY <1>2, <1>4, <2>1, <2>2, SubSeqProperties
  <2>4. Len(b) - 1 = Len(c) /\ Len(b) - 1 - 1 + 1 = Len(c) /\ Len(c) \in Nat
    BY ONLY <1>2, <1>4
  <2>5. Len(w) = Len(c)
    BY ONLY <2>3, <2>4
  <2>6. ASSUME NEW i \in 1 .. Len(w) PROVE w[i] = c[i]
    <3>1. i \in Int /\ 1 <= i /\ i <= Len(c)
      BY ONLY <2>4, <2>5, i \in 1 .. Len(w)
    <3>2. w[i] = b[1 + i - 1] /\ 1 + i - 1 = i
      BY ONLY <2>3, <2>4, <3>1
    <3>3. b[i] = c[i]
      BY ONLY <1>4, <2>4, <3>1
    <3> QED BY ONLY <3>2, <3>3
  <2> QED BY ONLY <2>1, <2>3, <2>5, <2>6, SeqEqual, c \in Seq(S)
<1>7. c \o <<x>> = Append(c, x)
  BY AppendIsConcat
<1> QED BY ONLY <1>1, <1>5, <1>6, <1>7

(* The record of an operation that goes on.                                 *)
LEMMA OpGoesOn ==
  ASSUME ListTyped, NEW t \in Threads, NEW what, op' = [op EXCEPT ![t].do = what]
  PROVE  /\ On(t)' = On(t) /\ op'[t].do = what
         /\ \A u \in Threads : u # t => op'[u] = op[u]
<1>1. op \in [Threads -> [do : Waits, on : Lists \union {Null}]]
  BY DEF ListTyped, TypeOK, Waits
<1>2. /\ op'[t].on = op[t].on /\ op'[t].do = what
      /\ \A u \in Threads : u # t => op'[u] = op[u]
  BY ONLY <1>1, t \in Threads, op' = [op EXCEPT ![t].do = what]
<1> QED BY <1>2 DEF On

(* What an addition or a removal of t has to do with its list.              *)
LEMMA EndAt ==
  ASSUME NEW t \in Threads, NEW l, NEW c, NEW e, Turned(l, c, e), On(t) = l, On(t)' = l,
         op[t].do = "addHead" => Tail(e) = c,
         op[t].do = "addTail" => SubSeq(e, 1, Len(e) - 1) = c,
         op[t].do = "removeHead" => e = Tail(c),
         op[t].do = "removeTail" => e = SubSeq(c, 1, Len(c) - 1)
  PROVE  AtItsEnd(t)
<1>1. Contents(On(t)) = c /\ Contents(On(t))' = e
  BY OnAfter DEF Turned
<1> QED BY <1>1 DEF AtItsEnd, Doing

(* Nothing is asked of the other operations.                                *)
LEMMA NotAtAnEnd ==
  ASSUME NEW t \in Threads, op[t].do \notin Adding \union Removing
  PROVE  AtItsEnd(t)
BY DEF AtItsEnd, Doing, Adding, Removing

(* A step is one that a user of sequences may see, or that no user sees.    *)
Promised ==
  /\ Store!Next \/ UNCHANGED Shown
  /\ \A t \in Threads : op'[t].do # op[t].do => AtItsEnd(t)

(* mboxListAddHead and mboxListAddTail are those of a sequence.             *)
LEMMA AddPromised ==
  ASSUME ListIInv, ListIInv', NEW t \in Threads, Add(t)
  PROVE  Promised
<1>1. PICK l, c, e : \E x \in Items :
        /\ Turned(l, c, e) /\ On(t) = l
        /\ e = IF Doing(t, "addHead") THEN <<x>> \o c ELSE c \o <<x>>
  BY AddShows
<1>2. PICK x \in Items : Turned(l, c, e) /\ On(t) = l
        /\ e = IF op[t].do = "addHead" THEN <<x>> \o c ELSE c \o <<x>>
  BY <1>1 DEF Doing
<1>3. l \in Lists /\ c = Contents(l) /\ c \in Seq(Items) /\ Shown' = [Shown EXCEPT ![l] = e]
  BY <1>2 DEF Turned
<1>4. op[t].do \in {"addHead", "addTail"} /\ op' = [op EXCEPT ![t].do = "added"] /\ ListTyped
  BY DEF Add, Adding, ListIInv
<1>5. On(t)' = l /\ \A u \in Threads : u # t => op'[u] = op[u]
  BY <1>2, <1>4, OpGoesOn
<1>6. Shown[l] = c
  BY <1>3 DEF Shown
<1>7. /\ Tail(<<x>> \o c) = c /\ c \o <<x>> = Append(c, x)
      /\ SubSeq(c \o <<x>>, 1, Len(c \o <<x>>) - 1) = c
  BY <1>3, EndsOff
<1>8. Shown' = [Shown EXCEPT ![l] = <<x>> \o @] \/ Shown' = [Shown EXCEPT ![l] = Append(@, x)]
  BY <1>2, <1>3, <1>6, <1>7
<1>9. Store!PushHead(l, x) \/ Store!PushTail(l, x)
  BY <1>8 DEF Store!PushHead, Store!PushTail, Shown
<1>10. AtItsEnd(t)
  <2>1. op[t].do = "addHead" => Tail(e) = c
    BY <1>2, <1>7
  <2>2. op[t].do = "addTail" => SubSeq(e, 1, Len(e) - 1) = c
    BY <1>2, <1>7
  <2>3. op[t].do # "removeHead" /\ op[t].do # "removeTail"
    BY <1>4
  <2> QED BY <1>2, <1>5, <2>1, <2>2, <2>3, EndAt
<1>11. Store!Next
  BY <1>3, <1>9, x \in Items DEF Store!Next
<1> QED BY <1>5, <1>10, <1>11 DEF Promised

(* mboxListRemoveHead is that of a sequence.                                *)
LEMMA RemoveHeadPromised ==
  ASSUME ListIInv, ListIInv', NEW t \in Threads, RemoveHead(t)
  PROVE  Promised
<1>1. PICK q : Kept(q)
  BY DEF ListIInv
<1>2. op[t].do = "removeHead" /\ ListTyped /\ ListTyped' /\ op' = [op EXCEPT ![t].do = "removed"]
  BY DEF RemoveHead, ListIInv, Doing
<1>3. PICK l, s : Served(t, l, q, s)
  BY <1>1, <1>2, AtWork
<1>4. l \in Lists /\ On(t) = l /\ Len(s) = len[l] /\ s = q[l] /\ s \in Seq(Nodes) /\ Rings(q)
  BY <1>1, <1>2, <1>3 DEF Served, Counts, Kept
<1>5. s # << >> /\ \E q2 : Dropped(l, s[1], q, q2, Tail(s))
  <2>1. q[l] # << >> /\ \E q2 : Dropped(l, q[l][1], q, q2, Tail(q[l]))
    BY <1>2, <1>4, RemoveHeadEffect
  <2> QED BY ONLY <1>4, <2>1
<1>6. PICK q2, n, w : Dropped(l, n, q, q2, w) /\ n = s[1] /\ w = Tail(s)
  BY ONLY <1>5
<1>7. n \in Held(s)
  <2>1. 1 \in 1 .. Len(s)
    BY ONLY <1>4, <1>5
  <2> QED BY ONLY <1>6, <2>1 DEF Held
<1>8. PICK c, e : c = Data(data, s) /\ e = Data(data, w)
  OBVIOUS
<1>9. Turned(l, c, e) /\ \A m \in Held(s) : data[m] \in Items
  BY <1>2, <1>4, <1>6, <1>7, <1>8, DropShows
<1>10. c # << >> /\ e = Tail(c)
  BY ONLY <1>4, <1>5, <1>6, <1>8, <1>9, DataShorter
<1>11. c = Contents(l) /\ Shown' = [Shown EXCEPT ![l] = e] /\ Shown[l] = c
  BY <1>9 DEF Turned, Shown
<1>12. Shown' = [Shown EXCEPT ![l] = Tail(@)] /\ Shown[l] # << >>
  BY <1>10, <1>11
<1>13. Store!PopHead(l)
  BY <1>12 DEF Store!PopHead, Shown
<1>14. On(t)' = l /\ \A u \in Threads : u # t => op'[u] = op[u]
  BY <1>2, <1>4, OpGoesOn
<1>15. AtItsEnd(t)
  BY <1>2, <1>4, <1>9, <1>10, <1>14, EndAt
<1> QED BY <1>4, <1>13, <1>14, <1>15 DEF Promised, Store!Next

(* mboxListRemoveTail is that of a sequence.                                *)
LEMMA RemoveTailPromised ==
  ASSUME ListIInv, ListIInv', NEW t \in Threads, RemoveTail(t)
  PROVE  Promised
<1>1. PICK q : Kept(q)
  BY DEF ListIInv
<1>2. op[t].do = "removeTail" /\ ListTyped /\ ListTyped' /\ op' = [op EXCEPT ![t].do = "removed"]
  BY DEF RemoveTail, ListIInv, Doing
<1>3. PICK l, s : Served(t, l, q, s)
  BY <1>1, <1>2, AtWork
<1>4. l \in Lists /\ On(t) = l /\ Len(s) = len[l] /\ s = q[l] /\ s \in Seq(Nodes) /\ Rings(q)
  BY <1>1, <1>2, <1>3 DEF Served, Counts, Kept
<1>5. s # << >> /\ \E q2 : Dropped(l, s[Len(s)], q, q2, SubSeq(s, 1, Len(s) - 1))
  <2>1. q[l] # << >> /\ \E q2 : Dropped(l, q[l][Len(q[l])], q, q2, SubSeq(q[l], 1, Len(q[l]) - 1))
    BY <1>2, <1>4, RemoveTailEffect
  <2> QED BY ONLY <1>4, <2>1
<1>6. PICK q2, n, w : Dropped(l, n, q, q2, w) /\ n = s[Len(s)] /\ w = SubSeq(s, 1, Len(s) - 1)
  BY ONLY <1>5
<1>7. n \in Held(s)
  <2>1. Len(s) \in 1 .. Len(s)
    BY ONLY <1>4, <1>5
  <2> QED BY ONLY <1>6, <2>1 DEF Held
<1>8. PICK c, e : c = Data(data, s) /\ e = Data(data, w)
  OBVIOUS
<1>9. Turned(l, c, e) /\ \A m \in Held(s) : data[m] \in Items
  BY <1>2, <1>4, <1>6, <1>7, <1>8, DropShows
<1>10. c # << >> /\ e = SubSeq(c, 1, Len(c) - 1)
  BY ONLY <1>4, <1>5, <1>6, <1>8, <1>9, DataShorter
<1>11. c = Contents(l) /\ Shown' = [Shown EXCEPT ![l] = e] /\ Shown[l] = c
  BY <1>9 DEF Turned, Shown
<1>12. Shown' = [Shown EXCEPT ![l] = SubSeq(@, 1, Len(@) - 1)] /\ Shown[l] # << >>
  BY <1>10, <1>11
<1>13. Store!PopTail(l)
  BY <1>12 DEF Store!PopTail, Shown
<1>14. On(t)' = l /\ \A u \in Threads : u # t => op'[u] = op[u]
  BY <1>2, <1>4, OpGoesOn
<1>15. AtItsEnd(t)
  BY <1>2, <1>4, <1>9, <1>10, <1>14, EndAt
<1> QED BY <1>4, <1>13, <1>14, <1>15 DEF Promised, Store!Next

(* A step that leaves data, links and roots alone shows nothing.            *)
LEMMA StillShown ==
  ASSUME ListIInv, ListIInv', UNCHANGED <<data, next, prev, heap, root>>
  PROVE  Shown' = Shown
<1>1. PICK q : Kept(q)
  BY DEF ListIInv
<1>2. Rings(q) /\ Rings(q)'
  BY <1>1 DEF Kept, Rings
<1>3. next \in [Nodes -> Nodes \union {Null}] /\ next' \in [Nodes -> Nodes \union {Null}]
  BY DEF ListIInv, ListTyped, TypeOK
<1>4. \A l \in Lists : Contents(l)' = Data(data', q[l]) /\ Contents(l) = Data(data, q[l])
  BY <1>2, <1>3, ContentsShown, ContentsAfter
<1> QED BY <1>4 DEF Shown

(* The steps between, and those of a sort that exchange nothing.            *)
LEMMA StillPromised ==
  ASSUME ListIInv, ListIInv', UNCHANGED <<data, next, prev, heap, root>>,
         NEW t \in Threads, op[t].do \notin Adding \union Removing,
         \A u \in Threads : u # t => op'[u].do = op[u].do
  PROVE  Promised
BY StillShown, NotAtAnEnd DEF Promised

(* A removal that finds nothing.                                            *)
LEMMA RemoveNonePromised ==
  ASSUME ListIInv, ListIInv', NEW t \in Threads, RemoveNone(t)
  PROVE  Promised
<1>1. PICK q : Kept(q)
  BY DEF ListIInv
<1>2. /\ op[t].do \in {"removeHead", "removeTail"} /\ ListTyped
      /\ op' = [op EXCEPT ![t] = Idle] /\ UNCHANGED <<data, next, prev, heap, root>>
      /\ len[On(t)] = 0 \/ root[On(t)] = Null
  BY DEF RemoveNone, Removing, ListIInv, Return, fields
<1>3. PICK l, s : Served(t, l, q, s)
  BY <1>1, <1>2, AtWork
<1>4. /\ l \in Lists /\ On(t) = l /\ Len(s) = len[l] /\ s = q[l] /\ s \in Seq(Nodes) /\ Rings(q)
      /\ Ring(s, root[l], next, prev)
  BY <1>1, <1>2, <1>3 DEF Served, Counts, Kept
<1>5. s = << >>
  <2>1. CASE len[l] = 0
    BY <1>4, <2>1, EmptySeq
  <2>2. CASE root[l] = Null
    <3>1. s # << >> => root[l] \in Nodes
      BY ONLY <1>4, RingEnds
    <3> QED BY <2>2, <3>1, DistinctAssumption
  <2> QED BY <1>2, <1>4, <2>1, <2>2
<1>6. Contents(On(t)) = << >>
  <2>1. next \in [Nodes -> Nodes \union {Null}]
    BY <1>2, TypedFacts
  <2>2. Contents(l) = Data(data, << >>)
    BY <1>4, <1>5, <2>1, ContentsShown
  <2> QED BY <1>4, <2>2 DEF Data
<1>7. AtItsEnd(t)
  BY <1>2, <1>6 DEF AtItsEnd, Doing
<1>8. \A u \in Threads : u # t => op'[u] = op[u]
  BY <1>2 DEF ListTyped, TypeOK
<1> QED BY <1>2, <1>7, <1>8, StillShown DEF Promised

(* An exchange of a sort is one of a sequence.                              *)
LEMMA ExchangeShows ==
  ASSUME ListTyped, ListTyped', NEW q, NEW t \in Threads, NEW l, NEW s, Kept(q), Served(t, l, q, s),
         NEW i \in 1 .. Len(s), NEW j \in 1 .. Len(s), Exchange(s[i], s[j]),
         UNCHANGED <<next, prev, heap, root>>
  PROVE  Store!Next
<1>1. /\ l \in Lists /\ s = q[l] /\ s \in Seq(Nodes) /\ Len(s) \in Nat /\ Held(s) \subseteq heap
      /\ Ring(s, root[l], next, prev) /\ Rings(q) /\ \A n \in heap : data[n] \in Items
      /\ q \in [Lists -> Seq(Nodes)]
  BY DEF Served, Kept, Rings
<1>2. data \in [Nodes -> Items \union {Null}] /\ heap \subseteq Nodes
  BY TypedFacts
<1>3. Swapped(s, i, j)
  BY <1>1, <1>2, ExchangeEffect
<1>4. /\ \A k \in 1 .. Len(s) : data'[s[k]] = data[s[IF k = i THEN j ELSE IF k = j THEN i ELSE k]]
      /\ \A m \in heap \ Held(s) : data'[m] = data[m]
      /\ \A m \in Held(s) : data'[m] \in Items
  BY ONLY <1>3 DEF Swapped
<1>5. Rings(q)'
  <2>1. \A n \in heap : data'[n] \in Items
    BY <1>1, <1>4
  <2> QED BY <1>1, <2>1, RingsStay
<1>6. q = [q EXCEPT ![l] = s]
  BY <1>1
<1>7. PICK c, e : c = Data(data, s) /\ e = Data(data', s)
  OBVIOUS
<1>8. Turned(l, c, e)
  BY <1>1, <1>4, <1>5, <1>6, <1>7, OneShown
<1>9. /\ c \in Seq(Items) /\ Len(c) = Len(s) /\ \A k \in 1 .. Len(s) : c[k] = data[s[k]]
      /\ e \in Seq(Items) /\ Len(e) = Len(s) /\ \A k \in 1 .. Len(s) : e[k] = data'[s[k]]
  <2>1. \A n \in Held(s) : data[n] \in Items
    BY <1>1
  <2> QED BY <1>1, <1>4, <1>7, <2>1, DataFacts
<1>10. \A k \in 1 .. Len(s) : e[k] = c[IF k = i THEN j ELSE IF k = j THEN i ELSE k]
  BY ONLY <1>4, <1>9, i \in 1 .. Len(s), j \in 1 .. Len(s)
<1>11. PICK v : v = [[c EXCEPT ![i] = c[j]] EXCEPT ![j] = c[i]]
  OBVIOUS
<1>12. e = v
  <2>1. c[i] \in Items /\ c[j] \in Items /\ i \in 1 .. Len(c) /\ j \in 1 .. Len(c)
    BY ONLY <1>9, ElementOfSeq, i \in 1 .. Len(s), j \in 1 .. Len(s)
  <2>2. PICK u : u = [c EXCEPT ![i] = c[j]]
    OBVIOUS
  <2>3. u \in Seq(Items) /\ Len(u) = Len(c) /\ \A k \in 1 .. Len(c) : u[k] = IF k = i THEN c[j] ELSE c[k]
    BY ONLY <1>9, <2>1, <2>2, ExceptSeq
  <2>4. v = [u EXCEPT ![j] = c[i]]
    BY <1>11, <2>2
  <2>5. v \in Seq(Items) /\ Len(v) = Len(u) /\ \A k \in 1 .. Len(u) : v[k] = IF k = j THEN c[i] ELSE u[k]
    BY ONLY <2>1, <2>3, <2>4, ExceptSeq
  <2>6. Len(e) = Len(v) /\ \A k \in 1 .. Len(e) : e[k] = v[k]
    BY ONLY <1>9, <1>10, <2>1, <2>3, <2>5
  <2> QED BY ONLY <1>9, <2>5, <2>6, SeqEqual
<1>13. l \in Lists /\ c = Contents(l) /\ Shown' = [Shown EXCEPT ![l] = e] /\ Shown[l] = c
  BY <1>8 DEF Turned, Shown
<1>14. Shown' = [Shown EXCEPT ![l] = [[@ EXCEPT ![i] = c[j]] EXCEPT ![j] = c[i]]]
  BY <1>11, <1>12, <1>13
<1>15. Shown' = [Shown EXCEPT ![l][i] = Shown[l][j], ![l][j] = Shown[l][i]]
  BY <1>13, <1>14 DEF Shown
<1>16. i \in DOMAIN Shown[l] /\ j \in DOMAIN Shown[l]
  <2>1. DOMAIN c = 1 .. Len(s)
    BY <1>9, LenProperties
  <2> QED BY <1>13, <2>1
<1>17. Store!Swap(l)
  BY <1>15, <1>16 DEF Store!Swap, Shown
<1> QED BY <1>13, <1>17 DEF Store!Next

(* A comparison exchanges two elements of the sequence, or none.            *)
LEMMA PivotStepPromised ==
  ASSUME ListIInv, ListIInv', NEW t \in Threads, PivotStep(t)
  PROVE  Promised
<1>1. PICK q : Kept(q)
  BY DEF ListIInv
<1>2. /\ op[t].do = "pivot" /\ ListTyped /\ ListTyped'
      /\ UNCHANGED <<next, prev, heap, root, op>>
      /\ UNCHANGED data \/ Exchange(next[part[t].prev], part[t].current)
  BY DEF PivotStep, ListIInv, Doing
<1>3. PICK l, s, f, R, lo, hi, i, j : AtPivot(t, l, q, s, f, R, lo, hi, i, j)
  BY <1>1, <1>2, PivotPending
<1>4. /\ Served(t, l, q, s)
      /\ lo \in 1 .. Len(s) /\ hi \in 1 .. Len(s) /\ i \in lo .. hi /\ j \in lo .. hi
      /\ next[part[t].prev] = s[i] /\ part[t].current = s[j]
  BY <1>3 DEF AtPivot, AtCall
<1>5. i \in 1 .. Len(s) /\ j \in 1 .. Len(s)
  <2>1. Len(s) \in Nat
    BY <1>4 DEF Served
  <2> QED BY ONLY <1>4, <2>1
<1>6. Store!Next \/ UNCHANGED Shown
  <2>1. CASE UNCHANGED data
    BY <1>2, <2>1, StillShown
  <2>2. CASE Exchange(next[part[t].prev], part[t].current)
    <3>1. Exchange(s[i], s[j])
      BY <1>4, <2>2
    <3> QED BY <1>1, <1>2, <1>4, <1>5, <3>1, ExchangeShows
  <2> QED BY <1>2, <2>1, <2>2
<1> QED BY <1>2, <1>6 DEF Promised

(* So does the pivot that takes its place.                                  *)
LEMMA PivotEndPromised ==
  ASSUME ListIInv, ListIInv', NEW t \in Threads, PivotEnd(t)
  PROVE  Promised
<1>1. PICK q : Kept(q)
  BY DEF ListIInv
<1>2. /\ op[t].do = "pivot" /\ ListTyped /\ ListTyped'
      /\ UNCHANGED <<next, prev, heap, root>> /\ op' = [op EXCEPT ![t].do = "helper"]
      /\ Exchange(next[part[t].prev], part[t].current)
  BY DEF PivotEnd, ListIInv, Doing
<1>3. PICK l, s, f, R, lo, hi, i, j : AtPivot(t, l, q, s, f, R, lo, hi, i, j)
  BY <1>1, <1>2, PivotPending
<1>4. /\ Served(t, l, q, s)
      /\ lo \in 1 .. Len(s) /\ hi \in 1 .. Len(s) /\ i \in lo .. hi /\ j \in lo .. hi
      /\ next[part[t].prev] = s[i] /\ part[t].current = s[j]
  BY <1>3 DEF AtPivot, AtCall
<1>5. i \in 1 .. Len(s) /\ j \in 1 .. Len(s)
  <2>1. Len(s) \in Nat
    BY <1>4 DEF Served
  <2> QED BY ONLY <1>4, <2>1
<1>6. Store!Next
  <2>1. Exchange(s[i], s[j])
    BY <1>2, <1>4
  <2> QED BY <1>1, <1>2, <1>4, <1>5, <2>1, ExchangeShows
<1>7. \A u \in Threads : u # t => op'[u] = op[u]
  BY <1>2, OpGoesOn
<1>8. AtItsEnd(t)
  BY <1>2, NotAtAnEnd DEF Adding, Removing
<1> QED BY <1>6, <1>7, <1>8 DEF Promised

(* mboxListRelease empties its list.                                        *)
LEMMA ReleasePromised ==
  ASSUME ListIInv, ListIInv', NEW l \in Lists, Release(l)
  PROVE  Promised
<1>1. PICK q : Kept(q)
  BY DEF ListIInv
<1>2. Rings(q) /\ ListTyped /\ ListTyped' /\ UNCHANGED op
  BY <1>1 DEF ListIInv, Kept, Release
<1>3. PICK q2 : Emptied(l, q, q2)
  BY <1>2, ReleaseRings
<1>4. PICK w, c, e : w = << >> /\ c = Data(data, q[l]) /\ e = Data(data', w)
  OBVIOUS
<1>5. /\ Rings(q2)' /\ q2 = [q EXCEPT ![l] = w]
      /\ \A n \in heap \ Held(q[l]) : data'[n] = data[n]
  BY <1>3, <1>4 DEF Emptied
<1>6. Turned(l, c, e)
  BY <1>2, <1>4, <1>5, OneShown
<1>7. e = << >>
  BY <1>4 DEF Data
<1>8. Shown' = [Shown EXCEPT ![l] = << >>]
  BY <1>6, <1>7 DEF Turned
<1>9. Store!Empty(l)
  BY <1>8 DEF Store!Empty, Shown
<1> QED BY <1>2, <1>9 DEF Promised, Store!Next

(* mboxListAppendListTail joins the sequences.                              *)
LEMMA JoinPromised ==
  ASSUME ListIInv, ListIInv', NEW l \in Lists, NEW m \in Lists, Append2(l, m)
  PROVE  Promised
<1>1. PICK q : Kept(q)
  BY DEF ListIInv
<1>2. /\ ListTyped /\ ListTyped' /\ Rings(q) /\ lock[l] = Nobody /\ lock[m] = Nobody /\ l # m
      /\ UNCHANGED <<op, data, heap>>
  BY <1>1 DEF ListIInv, Kept, Append2, Plain
<1>3. PICK s, u, w : s = q[l] /\ u = q[m] /\ w = s \o u
  OBVIOUS
<1>4. len[l] = Len(s) /\ len[m] = Len(u) /\ s \in Seq(Nodes) /\ u \in Seq(Nodes)
      /\ q \in [Lists -> Seq(Nodes)] /\ \A k \in Lists : \A n \in Held(q[k]) : data[n] \in Items
  BY <1>1, <1>2, <1>3 DEF Kept, Unlocked, Rings
<1>5. PICK q2 : Joined(l, m, q, q2)
  BY <1>2, <1>3, <1>4, JoinRings
<1>6. Rings(q2)' /\ q2 = [q EXCEPT ![l] = @ \o q[m], ![m] = << >>]
  BY ONLY <1>5 DEF Joined
<1>7. /\ q2[l] = w /\ q2[m] = << >> /\ \A k \in Lists : k # l /\ k # m => q2[k] = q[k]
  BY ONLY <1>2, <1>3, <1>4, <1>6, l \in Lists, m \in Lists
<1>8. next \in [Nodes -> Nodes \union {Null}] /\ next' \in [Nodes -> Nodes \union {Null}]
  BY <1>2 DEF ListTyped, TypeOK
<1>9. \A k \in Lists : Contents(k) = Data(data, q[k]) /\ Contents(k)' = Data(data, q2[k])
  BY <1>2, <1>6, <1>8, ContentsShown, ContentsAfter
<1>10. Data(data, w) = Data(data, s) \o Data(data, u)
  BY <1>3, <1>4, DataConcat
<1>11. Contents(l)' = Contents(l) \o Contents(m)
  BY <1>3, <1>7, <1>9, <1>10
<1>12. Contents(m)' = << >>
  <2>1. Data(data, << >>) = << >>
    BY DEF Data
  <2> QED BY <1>7, <1>9, <2>1
<1>13. \A k \in Lists : k # l /\ k # m => Contents(k)' = Contents(k)
  BY <1>7, <1>9
<1>14. Shown' = [Shown EXCEPT ![l] = @ \o Shown[m], ![m] = << >>]
  BY <1>2, <1>11, <1>12, <1>13 DEF Shown
<1>15. Store!Join(l, m)
  BY <1>2, <1>14 DEF Store!Join, Shown
<1> QED BY <1>2, <1>15 DEF Promised, Store!Next

(* Every step is one of a sequence, or none.                                *)
LEMMA NextPromised ==
  ASSUME ListIInv, ListIInv', Next
  PROVE  Promised
<1>1. ListTyped
  BY DEF ListIInv
<1>2. op \in [Threads -> [do : Waits, on : Lists \union {Null}]]
  BY <1>1 DEF ListTyped, TypeOK, Waits
<1>3. ASSUME NEW t \in Threads, NEW l \in Lists, NEW what, Call(t, l, what) PROVE Promised
  <2>1. op[t].do = "none" /\ UNCHANGED <<data, next, prev, heap, root>>
    BY <1>3 DEF Call, Idle, fields
  <2>2. \A u \in Threads : u # t => op'[u].do = op[u].do
    BY <1>2, <1>3 DEF Call
  <2>3. op[t].do \notin Adding \union Removing
    BY <2>1 DEF Adding, Removing
  <2> QED BY <2>1, <2>2, <2>3, StillPromised
<1>4. ASSUME NEW t \in Threads,
             Added(t) \/ Removed(t) \/ Sort(t) \/ HelperReturn(t) \/ HelperPivot(t) \/ SortReturn(t)
      PROVE  Promised
  <2>1. UNCHANGED <<data, next, prev, heap, root>>
    BY <1>4 DEF Added, Removed, Sort, HelperReturn, HelperPivot, SortReturn, fields
  <2>2. op[t].do \notin Adding \union Removing
    BY <1>4 DEF Added, Removed, Sort, HelperReturn, HelperPivot, SortReturn, Doing, Adding, Removing
  <2>3. \A u \in Threads : u # t => op'[u].do = op[u].do
    BY <1>2, <1>4 DEF Added, Removed, Sort, HelperReturn, HelperPivot, SortReturn, Return
  <2> QED BY <2>1, <2>2, <2>3, StillPromised
<1>5. ASSUME NEW t \in Threads, Step(t) PROVE Promised
  BY <1>4, <1>5, AddPromised, RemoveNonePromised, RemoveHeadPromised, RemoveTailPromised,
     PivotStepPromised, PivotEndPromised DEF Step
<1>6. ASSUME NEW l \in Lists, NEW m \in Lists, Append2(l, m) PROVE Promised
  BY <1>6, JoinPromised
<1>7. ASSUME NEW l \in Lists, Release(l) PROVE Promised
  BY <1>7, ReleasePromised
<1> QED BY <1>3, <1>5, <1>6, <1>7 DEF Next

(* The lists begin empty.                                                   *)
LEMMA InitShown == Init => Store!Init
<1> SUFFICES ASSUME Init PROVE Store!Init
  OBVIOUS
<1>1. ASSUME NEW l \in Lists PROVE Contents(l) = << >>
  <2>1. root[l] = Null
    BY DEF Init
  <2>2. Walk(l) = << >>
    BY <2>1 DEF Walk
  <2> QED BY <2>2 DEF Contents
<1> QED BY <1>1 DEF Store!Init

(* Whatever threads do to the pointers, to their users the lists are        *)
(* sequences that grow and shrink at the ends an operation is named for,    *)
(* that are joined and emptied, and of which a sort exchanges elements.     *)
THEOREM ListsImplementSequences == Spec => ImplementsSequences
<1>1. Init => Store!Init
  BY InitShown
<1>2. ListIInv /\ ListIInv' /\ [Next]_vars => [Store!Next]_([l \in Lists |-> Contents(l)])
  <2> SUFFICES ASSUME ListIInv, ListIInv', [Next]_vars
               PROVE  Store!Next \/ UNCHANGED Shown
    BY DEF Shown
  <2>1. CASE Next
    BY <2>1, NextPromised DEF Promised
  <2>2. CASE UNCHANGED vars
    BY <2>2, StillShown DEF vars, fields
  <2> QED BY <2>1, <2>2
<1>3. ListIInv /\ ListIInv' /\ [Next]_vars =>
        [\A t \in Threads : op'[t].do # op[t].do => AtItsEnd(t)]_vars
  BY NextPromised DEF Promised
<1> QED BY <1>1, <1>2, <1>3, ListInvariant, PTL DEF Spec, ImplementsSequences, EndsRight, Store!Spec
=============================================================================
