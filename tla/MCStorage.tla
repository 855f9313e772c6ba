----------------------------- MODULE MCStorage -----------------------------
(* The three components of StorageProofs, which share no state: `runs' says *)
(* which of them is checked, and the others stay as they were made.         *)
(*                                                                          *)
(* Lists of three nodes, where two items out of three have the same key; a  *)
(* pool of two and a half words of four bits, and allocations of one to     *)
(* four blocks and of six, more than a word has bits; files, with blocks of *)
(* up to three bytes, pages of two, and every range, those that reach       *)
(* beyond the end of the file too.                                          *)
EXTENDS MboxList, MemPool, FileRemove

VARIABLE runs

MCItems  == 1 .. 3
MCKey(x) == (x + 1) \div 2

storageVars == <<vars, memVars, removeVars, runs>>

StorageInit ==
  /\ runs \in {"list", "pool", "file"}
  /\ Init /\ MemInit /\ RemoveInit
  /\ runs # "file" => from = 0 /\ to = 0

ListRuns == runs = "list" /\ Next /\ UNCHANGED <<memVars, removeVars, runs>>

PoolRuns == runs = "pool" /\ MemNext /\ UNCHANGED <<vars, removeVars, runs>>

FileRuns == runs = "file" /\ RemoveNext /\ UNCHANGED <<vars, memVars, runs>>

StorageNext == ListRuns \/ PoolRuns \/ FileRuns

StorageSpec ==
  /\ StorageInit /\ [][StorageNext]_storageVars
  /\ \A t \in Threads : WF_vars(runs = "list" /\ Step(t) /\ UNCHANGED <<memVars, removeVars, runs>>)
=============================================================================
