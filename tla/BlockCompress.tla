--------------------------- MODULE BlockCompress ---------------------------
(***************************************************************************)
(* What compressing a stream block by block promises: the codes are        *)
(* written in the order of the blocks, each made of the block and of the   *)
(* DictSize bytes before it, and the call returns the size of all of them  *)
(* or 0 for an error.                                                      *)
(*                                                                         *)
(* A byte of the stream is its position, and the size of a code is one.    *)
(***************************************************************************)
EXTENDS Integers, Sequences, FiniteSetsExt

CONSTANTS BlockSize, DictSize

ASSUME BlockAssumption == BlockSize \in Nat \ {0} /\ DictSize \in Nat

VARIABLES
  streamSize,  \* of the input
  out,         \* the codes that are written
  result       \* of the call

blockVars == <<streamSize, out, result>>

Running == -1

Bytes(from, to) == [i \in 1..(to - from) |-> from + i]

BlockCount == (streamSize + BlockSize - 1) \div BlockSize

Code(k) ==
  LET from == (k - 1) * BlockSize
  IN [dict |-> Bytes(Max({0, from - DictSize}), from),
      data |-> Bytes(from, Min({from + BlockSize, streamSize}))]

WriteNext ==
  /\ result = Running
  /\ Len(out) < BlockCount
  /\ out' = Append(out, Code(Len(out) + 1))
  /\ UNCHANGED <<streamSize, result>>

ReturnSize ==
  /\ result = Running
  /\ Len(out) = BlockCount
  /\ result' = Len(out)
  /\ UNCHANGED <<streamSize, out>>

ReturnError ==
  /\ result = Running
  /\ result' = 0
  /\ UNCHANGED <<streamSize, out>>

BlockInit == streamSize \in Nat /\ out = <<>> /\ result = Running

BlockNext == WriteNext \/ ReturnSize \/ ReturnError

BlockSpec == BlockInit /\ [][BlockNext]_blockVars

=============================================================================
