------------------------------ MODULE ReadData ------------------------------
(***************************************************************************)
(* Reading a file: file_read_setup of syscall.c, which keeps the position, *)
(* and read_data of files.c, which walks the blocks of an inode.  One step *)
(* is one turn of the copy loop.                                           *)
(*                                                                         *)
(* A byte of the file system image is named by where it is: <<data block,  *)
(* byte in the block>>.  The image is read only, and all state is the      *)
(* reading process's own, so other processes do not appear.                *)
(***************************************************************************)
EXTENDS Integers, Sequences

CONSTANTS
  BLOCK_SIZE,       \* bytes of a data block (4096 in the code)
  NumDataBlocks,    \* my_boot_block.num_data_blocks
  MaxBlocks,        \* bound: block numbers of an inode (1023 in an image)
  Requests,         \* values of nbytes
  UINT32            \* values of a uint32_t

ASSUME ConstantsAssumption ==
  /\ BLOCK_SIZE \in Nat \ {0}
  /\ NumDataBlocks \in Nat
  /\ MaxBlocks \in Nat \ {0}
  /\ Requests \subseteq Nat
  /\ UINT32 \in Nat /\ UINT32 > BLOCK_SIZE * MaxBlocks + 1

(* NumDataBlocks itself stands for every number behind the end of the image. *)
BlockNumbers == 0 .. NumDataBlocks
Lengths      == 0 .. BLOCK_SIZE * MaxBlocks

VARIABLES
  inode_in_range,                \* inode < my_boot_block.num_inodes
  inode_blocks, inode_length,    \* the inode in the image
  file_position,
  pc, offset, length,            \* the call
  i, curr_data_idx, curr_block_byte, count, copied,   \* locals of read_data
  buf, result

image  == <<inode_in_range, inode_blocks, inode_length>>
locals == <<i, curr_data_idx, curr_block_byte, count, copied>>
vars   == <<image, file_position, pc, offset, length, locals, buf, result>>

(* file_read_setup calls read_data with the position of the descriptor.     *)
Call(n) ==
  /\ pc = "idle"
  /\ offset' = file_position
  /\ length' = n
  /\ pc' = "start"
  /\ buf' = <<>>
  /\ result' = 0
  /\ UNCHANGED <<image, file_position, locals>>

(* The number of bytes is added to the position, also when it is -1.        *)
\* mutant: the position follows the request
AdvanceRequest(r) == (file_position + length) % UINT32
\* mutant: the position never moves
AdvanceNot(r) == file_position

Advance(r) == (file_position + r) % UINT32

Return(r) ==
  /\ result' = r
  /\ file_position' = Advance(r)
  /\ pc' = "done"

(* Nothing to read: no such inode, behind the end, or at the end.           *)
StartEnd ==
  /\ pc = "start" /\ (inode_in_range => offset >= inode_length)
  /\ Return(IF inode_in_range /\ offset = inode_length THEN 0 ELSE -1)
  /\ UNCHANGED <<image, offset, length, locals, buf>>

(* The block in which the read starts.                                      *)
\* mutant: a read always starts in the first block
FirstAlways == 1

FirstBlock == IF offset > BLOCK_SIZE THEN 1 + offset \div BLOCK_SIZE ELSE 1

Start ==
  /\ pc = "start" /\ inode_in_range /\ offset < inode_length
  /\ i' = FirstBlock
  /\ curr_data_idx' = inode_blocks[i']
  /\ curr_block_byte' = offset % BLOCK_SIZE
  /\ count' = offset
  /\ copied' = 0
  /\ pc' = "loop"
  /\ UNCHANGED <<image, file_position, offset, length, buf, result>>

(* file_reached_end, which the loop sets when it has counted to the end.    *)
file_reached_end == count >= inode_length

(* Whether the loop has to go to the next block before it copies.           *)
BlockDone == curr_block_byte >= BLOCK_SIZE

LoopBlock == IF BlockDone THEN i + 1 ELSE i
LoopIdx   == IF BlockDone THEN inode_blocks[i + 1] ELSE curr_data_idx
LoopByte  == IF BlockDone THEN 0 ELSE curr_block_byte

Loop ==
  /\ pc = "loop" /\ copied < length /\ ~file_reached_end
  /\ i' = LoopBlock
  /\ curr_data_idx' = LoopIdx
  /\ \/ /\ LoopIdx < NumDataBlocks
        /\ buf' = Append(buf, <<LoopIdx, LoopByte>>)
        /\ copied' = copied + 1
        /\ count' = count + 1
        /\ curr_block_byte' = LoopByte + 1
        /\ UNCHANGED <<file_position, pc, result>>
     \/ /\ LoopIdx >= NumDataBlocks
        /\ Return(-1)
        /\ curr_block_byte' = LoopByte
        /\ UNCHANGED <<copied, count, buf>>
  /\ UNCHANGED <<image, offset, length>>

LoopEnd ==
  /\ pc = "loop" /\ (copied >= length \/ file_reached_end)
  /\ Return(copied)
  /\ UNCHANGED <<image, offset, length, locals, buf>>

(* The program looks at what it got, and the locals are dead.               *)
Consume ==
  /\ pc = "done"
  /\ pc' = "idle"
  /\ i' = 1 /\ curr_data_idx' = 0 /\ curr_block_byte' = 0 /\ count' = 0 /\ copied' = 0
  /\ offset' = 0 /\ length' = 0 /\ buf' = <<>> /\ result' = 0
  /\ UNCHANGED <<image, file_position>>

Init ==
  /\ inode_in_range \in BOOLEAN
  /\ inode_blocks \in [1 .. MaxBlocks -> BlockNumbers]
  /\ inode_length \in Lengths
  /\ ~inode_in_range => inode_length = 0    \* it has none
  /\ file_position = 0
  /\ pc = "idle"
  /\ offset = 0 /\ length = 0
  /\ i = 1 /\ curr_data_idx = 0 /\ curr_block_byte = 0 /\ count = 0 /\ copied = 0
  /\ buf = <<>> /\ result = 0

Next ==
  \/ \E n \in Requests : Call(n)
  \/ StartEnd \/ Start \/ Loop \/ LoopEnd \/ Consume

Spec == Init /\ [][Next]_vars

-----------------------------------------------------------------------------
Bytes == BlockNumbers \X (0 .. BLOCK_SIZE - 1)

TypeOK ==
  /\ inode_in_range \in BOOLEAN
  /\ inode_blocks \in [1 .. MaxBlocks -> BlockNumbers]
  /\ inode_length \in Lengths
  /\ file_position \in 0 .. UINT32 - 1
  /\ pc \in {"idle", "start", "loop", "done"}
  /\ offset \in 0 .. UINT32 - 1
  /\ length \in Requests \cup {0}
  /\ i \in 1 .. MaxBlocks                     \* the walk stays in the inode
  /\ curr_data_idx \in BlockNumbers \cup {0}
  /\ curr_block_byte \in 0 .. BLOCK_SIZE
  /\ count \in Lengths
  /\ copied \in Nat
  /\ buf \in Seq(Bytes)
  /\ result \in Lengths \cup {-1}

(* What a file is: its k-th byte, from 0.                                   *)
FileByte(k) == <<inode_blocks[k \div BLOCK_SIZE + 1], k % BLOCK_SIZE>>

(* The bytes copied so far are the file's, from the offset on.              *)
CopiesFile ==
  pc \in {"loop", "done"} => \A k \in 1 .. Len(buf) : buf[k] = FileByte(offset + k - 1)

\* read copies the bytes of the file from the position on, in order and without a gap,
\* through however many blocks the request spans, and it copies all that was asked for
\* or all there is.  A read that starts exactly at the second block is the exception
\* (files.c:289 compares with > where the later blocks need >=).
ReadsFile ==
  /\ offset # BLOCK_SIZE => CopiesFile
  /\ pc = "done" /\ result # -1 =>
       /\ Len(buf) = result
       /\ result = length \/ file_position = inode_length

(* The inode and every block number in it are in the image.                 *)
GoodInode == inode_in_range /\ \A b \in 1 .. MaxBlocks : inode_blocks[b] < NumDataBlocks

\* The position never leaves the file of a good inode, so read reports the end of the
\* file with 0 and keeps doing so, and a program such as cat ends.  (In a file with a
\* bad block, or with no inode, the position moves back by one with every failed read.)
PositionInFile == GoodInode => file_position <= inode_length
=============================================================================
