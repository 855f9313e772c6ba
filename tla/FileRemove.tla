----------------------------- MODULE FileRemove -----------------------------
(***************************************************************************)
(* fileRemoveFrom of src/delete-from-file/main.c: a range of a file is     *)
(* removed in place, by moving what follows over it block by block and     *)
(* cutting the file.                                                        *)
(*                                                                         *)
(* The bytes of the file are numbered by where they were.  Reads and       *)
(* writes may be short and may fail, none of which the code looks at.      *)
(* Nothing is synced: what was written and the new size reach the disk when *)
(* and in which order the system likes.  The process may be killed at any   *)
(* moment, within a write too, and the machine may stop at any, after the   *)
(* last call too.                                                           *)
(*                                                                         *)
(* The names that every specification has begin with Remove here, so that  *)
(* one module can hold the proofs about this one and about others.         *)
(***************************************************************************)
EXTENDS Integers

CONSTANTS
  FileSize,   \* the bytes of the file when it is opened
  BufSiz,     \* how much one read may return
  PageSize,   \* the bytes that reach the disk together
  MaxEnd      \* bound: how far a range may reach, the file's end or beyond

ASSUME SizeAssumption ==
  /\ FileSize \in Nat /\ MaxEnd \in Nat
  /\ BufSiz \in Nat \ {0} /\ PageSize \in Nat \ {0}

VARIABLES
  file,          \* the file as any process sees it
  disk,          \* the file as it is on the disk
  from, to,      \* the range as it was given
  start_offset,  \* where the next block goes
  end_offset,    \* where it comes from
  rbytes, buf,   \* the block that was read
  pc,            \* where fileRemoveFrom is
  faulted        \* has a call failed or written less than asked? (history)

removeVars == <<file, disk, from, to, start_offset, end_offset, rbytes, buf, pc, faulted>>

new_size == FileSize - (to - from)

Page(i) == (i - 1) \div PageSize

(* What pwrite leaves when n bytes of the block are written.                *)
Written(n) ==
  [i \in DOMAIN file |->
     IF start_offset < i /\ i <= start_offset + n THEN buf[i - start_offset] ELSE file[i]]

-----------------------------------------------------------------------------
(* Faulty variants of the steps below: what each property is there to tell  *)
(* from the code.  They are not part of the specification.                  *)

(* A block is put one byte further on. *)
WriteSkips ==
  /\ pc = "write"
  /\ file' = Written(rbytes)
  /\ end_offset' = end_offset + rbytes
  /\ start_offset' = start_offset + rbytes + 1
  /\ pc' = "read"
  /\ UNCHANGED <<disk, from, to, rbytes, buf, faulted>>

(* The file is cut before its tail has been moved. *)
ReadCutsFirst ==
  /\ pc = "read" /\ end_offset < FileSize
  /\ \E r \in 1 .. BufSiz :
       /\ r <= FileSize - end_offset
       /\ rbytes' = r
       /\ buf' = [k \in 1 .. r |-> file[end_offset + k]]
  /\ file' = [i \in 1 .. end_offset |-> file[i]]
  /\ pc' = "write"
  /\ UNCHANGED <<disk, from, to, start_offset, end_offset, faulted>>

-----------------------------------------------------------------------------
(* main opens the file, takes its size, and asks for a range.               *)
RemoveInit ==
  /\ file = [i \in 1 .. FileSize |-> i] /\ disk = file
  /\ from \in 0 .. MaxEnd /\ to \in from .. MaxEnd
  /\ start_offset = from /\ end_offset = to
  /\ rbytes = 0 /\ buf = <<>>
  /\ pc = "read"
  /\ faulted = FALSE

(* pread returns a part of the block at least, up to the end of the file.   *)
Read ==
  /\ pc = "read" /\ end_offset < FileSize
  /\ \E r \in 1 .. BufSiz :
       /\ r <= FileSize - end_offset
       /\ rbytes' = r
       /\ buf' = [k \in 1 .. r |-> file[end_offset + k]]
  /\ pc' = "write"
  /\ UNCHANGED <<file, disk, from, to, start_offset, end_offset, faulted>>

ReadEnds ==
  /\ pc = "read" /\ end_offset >= FileSize
  /\ rbytes' = 0
  /\ pc' = "truncate"
  /\ UNCHANGED <<file, disk, from, to, start_offset, end_offset, buf, faulted>>

(* A read that fails ends the loop like the end of the file.                *)
ReadFails ==
  /\ pc = "read"
  /\ rbytes' = -1
  /\ faulted' = TRUE
  /\ pc' = "truncate"
  /\ UNCHANGED <<file, disk, from, to, start_offset, end_offset, buf>>

Write ==
  /\ pc = "write" /\ start_offset >= 0
  /\ file' = Written(rbytes)
  /\ end_offset' = end_offset + rbytes
  /\ start_offset' = start_offset + rbytes
  /\ pc' = "read"
  /\ UNCHANGED <<disk, from, to, rbytes, buf, faulted>>

(* A short write, of which the rest is never written, and one that fails:   *)
(* start_offset moves by the -1 it returns.                                 *)
WriteShort ==
  /\ pc = "write" /\ start_offset >= 0
  /\ \E w \in 0 .. rbytes - 1 :
       /\ file' = Written(w)
       /\ start_offset' = start_offset + w
  /\ end_offset' = end_offset + rbytes
  /\ faulted' = TRUE
  /\ pc' = "read"
  /\ UNCHANGED <<disk, from, to, rbytes, buf>>

WriteFails ==
  /\ pc = "write"
  /\ end_offset' = end_offset + rbytes
  /\ start_offset' = start_offset - 1
  /\ faulted' = TRUE
  /\ pc' = "read"
  /\ UNCHANGED <<file, disk, from, to, rbytes, buf>>

(* ftruncate, of a size that may be below zero: it then does nothing.       *)
Truncate ==
  /\ pc = "truncate"
  /\ file' = IF new_size < 0 THEN file ELSE [i \in 1 .. new_size |-> file[i]]
  /\ pc' = "done"
  /\ UNCHANGED <<disk, from, to, start_offset, end_offset, rbytes, buf, faulted>>

TruncateFails ==
  /\ pc = "truncate"
  /\ faulted' = TRUE
  /\ pc' = "done"
  /\ UNCHANGED <<file, disk, from, to, start_offset, end_offset, rbytes, buf>>

(* The process is killed, when any part of a write may be done.             *)
Killed ==
  /\ pc \in {"read", "write", "truncate"}
  /\ IF pc = "write" /\ start_offset >= 0
     THEN \E w \in 0 .. rbytes : file' = Written(w)
     ELSE UNCHANGED file
  /\ pc' = "killed"
  /\ UNCHANGED <<disk, from, to, start_offset, end_offset, rbytes, buf, faulted>>

(* A page of the file, or its size, is written back to the disk.  What is   *)
(* beyond the end of the file in its last page may be zeros.                *)
WriteBack ==
  /\ pc # "crashed"
  /\ \E p \in {Page(i) : i \in DOMAIN file}, zeros \in BOOLEAN :
       disk' = [i \in DOMAIN disk |->
                  IF Page(i) # p THEN disk[i]
                  ELSE IF i \in DOMAIN file THEN file[i]
                  ELSE IF zeros THEN 0 ELSE disk[i]]
  /\ UNCHANGED <<file, from, to, start_offset, end_offset, rbytes, buf, pc, faulted>>

SizeBack ==
  /\ pc # "crashed"
  /\ disk' = [i \in DOMAIN file |-> disk[i]]
  /\ UNCHANGED <<file, from, to, start_offset, end_offset, rbytes, buf, pc, faulted>>

(* The machine stops, and the disk is what is left.  (In the middle of a    *)
(* write this leaves what it leaves after a kill there.)                    *)
MachineStops ==
  /\ pc # "crashed"
  /\ file' = disk
  /\ pc' = "crashed"
  /\ UNCHANGED <<disk, from, to, start_offset, end_offset, rbytes, buf, faulted>>

RemoveStep ==
  \/ Read \/ ReadEnds \/ ReadFails
  \/ Write \/ WriteShort \/ WriteFails
  \/ Truncate \/ TruncateFails

RemoveNext == RemoveStep \/ Killed \/ WriteBack \/ SizeBack \/ MachineStops

RemoveSpec == RemoveInit /\ [][RemoveNext]_removeVars

-----------------------------------------------------------------------------
InRange == to <= FileSize

KeptBytes == (1 .. from) \union (to + 1 .. FileSize)

(* Where a byte that is kept goes.                                          *)
Target(b) == IF b <= from THEN b ELSE b - (to - from)

(* A file and what of it is on the disk, where it is only cut later.        *)
Stored(f, d) ==
  \E m \in 0 .. FileSize, n \in 0 .. FileSize :
    f \in [1 .. n -> 0 .. FileSize] /\ d \in [1 .. m -> 0 .. FileSize] /\ n <= m

Offsets ==
  /\ Stored(file, disk)
  /\ from \in Nat /\ to \in Nat /\ from <= to
  /\ start_offset \in Int /\ end_offset \in Nat
  /\ rbytes \in -1 .. BufSiz
  /\ pc \in {"read", "write", "truncate", "done", "killed", "crashed"}
  /\ pc = "write" => rbytes >= 1 /\ buf \in [1 .. rbytes -> 0 .. FileSize]

RemoveTypeOK == Offsets /\ faulted \in BOOLEAN

(* When all calls have succeeded, and the range was one of the file, it and *)
(* nothing else is gone, in whichever pieces the tail was moved.            *)
RemovedExactly ==
  pc = "done" /\ ~faulted /\ InRange =>
    /\ DOMAIN file = 1 .. new_size
    /\ \A b \in KeptBytes : file[Target(b)] = b

(* Whenever the process is killed, every byte that is kept is in the file,  *)
(* where it was or where it goes, unless a call failed before.              *)
NothingLost ==
  ~faulted /\ InRange /\ pc # "crashed" =>
    \A b \in KeptBytes :
      \/ b \in DOMAIN file /\ file[b] = b
      \/ Target(b) \in DOMAIN file /\ file[Target(b)] = b

(* What may be in the places of a file that is half done: each as it was or *)
(* as it will be, and none before the range touched; those that will be cut *)
(* off may hold a zero.                                                     *)
MayHold(f) ==
  /\ DOMAIN f \in {1 .. FileSize, 1 .. new_size}
  /\ \A i \in DOMAIN f : \/ f[i] = i
                         \/ from < i /\ f[i] = i + (to - from)
                         \/ new_size < i /\ f[i] = 0

(* A machine that stops, even after fileRemoveFrom has returned, can lose   *)
(* bytes, but leaves a mixture of the old file and the new one, of either   *)
(* size: nothing else is in any place, and all before the range is there.   *)
OldOrNew == ~faulted /\ InRange /\ pc = "crashed" => MayHold(file)

DiskMayHold == ~faulted /\ InRange => MayHold(file) /\ MayHold(disk)

(* The inductive invariant: in the loop the file keeps its size, it is as   *)
(* it will be up to start_offset and as it was from there on, and the two   *)
(* offsets are a range apart.                                               *)
Moved ==
  ~faulted /\ InRange =>
    /\ end_offset - start_offset = to - from
    /\ from <= start_offset /\ end_offset <= FileSize
    /\ pc \in {"read", "write", "truncate"} =>
         \A i \in 1 .. FileSize :
           file[i] = IF from < i /\ i <= start_offset THEN i + (to - from) ELSE i
    /\ pc = "write" => /\ rbytes <= FileSize - end_offset
                       /\ \A k \in 1 .. rbytes : buf[k] = end_offset + k
    /\ pc = "truncate" => end_offset = FileSize

WholeInLoop == pc \in {"read", "write", "truncate"} => DOMAIN file = 1 .. FileSize

RemoveInv ==
  RemoveTypeOK /\ WholeInLoop /\ Moved /\ RemovedExactly /\ NothingLost /\ DiskMayHold
=============================================================================
