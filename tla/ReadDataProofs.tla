--------------------------- MODULE ReadDataProofs ---------------------------
(***************************************************************************)
(* read_data walks the blocks of an inode correctly, for every block size, *)
(* every inode and every sequence of requests; and grep, which asks for    *)
(* what is free in its buffer, reads every file to its end and prints the  *)
(* lines with the pattern.                                                 *)
(***************************************************************************)
EXTENDS Grep, WellFoundedInduction, SequenceTheorems, TLAPS

\* The remainder of a division of integers.
LEMMA Remainder ==
  ASSUME NEW b \in Int, b > 0, NEW y \in Int
  PROVE  y % b = y - b * (y \div b)
OBVIOUS

\* Quotient and remainder of a position in the file.
LEMMA DivMod ==
  ASSUME NEW x \in Nat
  PROVE  \E q \in Nat, r \in 0 .. BLOCK_SIZE - 1 :
           x \div BLOCK_SIZE = q /\ x % BLOCK_SIZE = r /\ x = q * BLOCK_SIZE + r
<1> USE ConstantsAssumption
<1> DEFINE q == x \div BLOCK_SIZE
<1> DEFINE r == x % BLOCK_SIZE
<1>1. q \in Nat /\ r \in 0 .. BLOCK_SIZE - 1 OBVIOUS
<1>3. r = x - BLOCK_SIZE * q BY Remainder
<1>4. x \div BLOCK_SIZE = q /\ x % BLOCK_SIZE = r OBVIOUS
<1> HIDE DEF q, r
<1>5. x = q * BLOCK_SIZE + r BY <1>1, <1>3
<1> QED BY <1>1, <1>4, <1>5

\* The converse: what the quotient and the remainder of a sum are.
LEMMA DivModSum ==
  ASSUME NEW q \in Nat, NEW r \in 0 .. BLOCK_SIZE - 1
  PROVE  (q * BLOCK_SIZE + r) \div BLOCK_SIZE = q /\ (q * BLOCK_SIZE + r) % BLOCK_SIZE = r
<1> USE ConstantsAssumption
<1>1. (q * BLOCK_SIZE + r) \div BLOCK_SIZE = q OBVIOUS
<1>2. (q * BLOCK_SIZE + r) % BLOCK_SIZE = r OBVIOUS
<1> QED BY <1>1, <1>2

\* A block that starts below the end of the file has a number in the inode.
LEMMA BlockInInode ==
  ASSUME NEW n \in Nat, NEW x \in Nat, n * BLOCK_SIZE <= x, x < BLOCK_SIZE * MaxBlocks
  PROVE  n + 1 \in 1 .. MaxBlocks
<1> USE ConstantsAssumption
<1>1. n * BLOCK_SIZE < BLOCK_SIZE * MaxBlocks OBVIOUS
<1>2. n < MaxBlocks BY <1>1
<1> QED BY <1>2

(***************************************************************************)
(* The loop invariant.  count is the position of the next byte to copy,    *)
(* and i and curr_block_byte say where in the inode it lies; a read that   *)
(* starts at offset BLOCK_SIZE lags one block behind.                      *)
(***************************************************************************)
At == (i - 1) * BLOCK_SIZE + curr_block_byte

Walk ==
  pc = "loop" =>
    /\ offset < inode_length /\ file_position = offset
    /\ count = offset + copied
    /\ count <= inode_length /\ copied <= length
    /\ curr_data_idx = inode_blocks[i]
    /\ At <= count
    /\ offset # BLOCK_SIZE => At = count

Copied ==
  /\ pc \in {"idle", "start"} => buf = <<>>
  /\ pc = "loop" => Len(buf) = copied
  /\ offset # BLOCK_SIZE => \A k \in 1 .. Len(buf) : buf[k] = FileByte(offset + k - 1)

Entered == pc = "start" => offset = file_position

Returned ==
  pc = "done" /\ result # -1 =>
    Len(buf) = result /\ (result = length \/ file_position = inode_length)

IInv == TypeOK /\ Walk /\ Copied /\ Entered /\ Returned

\* IInv holds at first.
LEMMA InitInv == Init => IInv
<1> SUFFICES ASSUME Init PROVE IInv OBVIOUS
<1> USE ConstantsAssumption DEF Init
<1>1. <<>> \in Seq(Bytes) OBVIOUS
<1>2. TypeOK BY <1>1 DEF TypeOK, Lengths
<1>3. Walk /\ Copied /\ Entered /\ Returned BY DEF Walk, Copied, Entered, Returned
<1> QED BY <1>2, <1>3 DEF IInv

\* What the types give to arithmetic.
LEMMA Facts ==
  ASSUME TypeOK
  PROVE  /\ BLOCK_SIZE * MaxBlocks \in Nat /\ UINT32 \in Nat \ {0}
         /\ inode_length \in Nat /\ inode_length <= BLOCK_SIZE * MaxBlocks
         /\ inode_length < UINT32 - 1
         /\ file_position \in Nat /\ offset \in Nat /\ length \in Nat
         /\ count \in Nat /\ copied \in Nat
<1> USE ConstantsAssumption
<1>1. BLOCK_SIZE * MaxBlocks \in Nat OBVIOUS
<1> QED BY <1>1 DEF TypeOK, Lengths

\* A call of read.
LEMMA CallInv == ASSUME IInv, NEW n \in Requests, Call(n) PROVE IInv'
<1> USE ConstantsAssumption DEF image, locals, Call
<1>1. <<>> \in Seq(Bytes) OBVIOUS
<1>2. 0 \in Lengths BY Facts DEF Lengths, IInv
<1>3. TypeOK' BY <1>1, <1>2 DEF IInv, TypeOK
<1>4. Walk' /\ Copied' /\ Entered' /\ Returned' BY DEF Walk, Copied, Entered, Returned
<1> QED BY <1>3, <1>4 DEF IInv

\* Its result is added to the position.
LEMMA ConsumeInv == ASSUME IInv, Consume PROVE IInv'
<1> USE ConstantsAssumption DEF image, locals, Consume
<1>1. <<>> \in Seq(Bytes) OBVIOUS
<1>2. 0 \in Lengths BY Facts DEF Lengths, IInv
<1>3. TypeOK' BY <1>1, <1>2 DEF IInv, TypeOK
<1>4. Walk' /\ Copied' /\ Entered' /\ Returned' BY DEF Walk, Copied, Entered, Returned
<1> QED BY <1>3, <1>4 DEF IInv

\* read_data that returns at once.
LEMMA StartEndInv == ASSUME IInv, StartEnd PROVE IInv'
<1> USE ConstantsAssumption DEF image, locals
<1>f. /\ TypeOK /\ inode_length \in Nat /\ offset \in Nat /\ file_position \in Nat
      /\ UINT32 \in Nat \ {0} /\ inode_length < UINT32 - 1 /\ buf = <<>>
      /\ offset = file_position
  BY Facts DEF IInv, StartEnd, Copied, Entered
<1>1. /\ result' = -1 \/ (result' = 0 /\ offset = inode_length)
      /\ file_position' = (file_position + result') % UINT32
      /\ pc' = "done"
      /\ UNCHANGED <<image, offset, length, locals, buf>>
  BY DEF StartEnd, Return, Advance
<1>2. file_position' \in 0 .. UINT32 - 1 BY <1>1, <1>f
<1>3. result' \in Lengths \cup {-1} BY <1>1, <1>f, Facts DEF Lengths
<1>4. TypeOK' BY <1>1, <1>2, <1>3, <1>f DEF TypeOK
<1>5. Walk' /\ Entered' BY <1>1 DEF Walk, Entered
<1>6. Copied' BY <1>1, <1>f DEF Copied
<1>7. Returned'
  <2>1. CASE result' = -1 BY <2>1, <1>1, <1>f DEF Returned
  <2>2. CASE result' = 0 /\ offset = inode_length
    <3>2. file_position' = file_position BY <1>1, <1>f, <2>2
    <3> QED BY <1>1, <1>f, <2>2, <3>2 DEF Returned
  <2> QED BY <2>1, <2>2, <1>1, <1>f
<1> QED BY <1>4, <1>5, <1>6, <1>7 DEF IInv

\* read_data before its loop.
LEMMA StartInv == ASSUME IInv, Start PROVE IInv'
<1> USE ConstantsAssumption DEF image, locals
<1>f. /\ TypeOK /\ inode_length \in Nat /\ offset \in Nat
      /\ inode_length <= BLOCK_SIZE * MaxBlocks /\ BLOCK_SIZE * MaxBlocks \in Nat
      /\ buf = <<>> /\ offset = file_position /\ length \in Nat
  BY Facts DEF IInv, Start, Copied, Entered
<1>1. /\ offset < inode_length
      /\ i' = FirstBlock /\ curr_data_idx' = inode_blocks[i']
      /\ curr_block_byte' = offset % BLOCK_SIZE
      /\ count' = offset /\ copied' = 0 /\ pc' = "loop"
      /\ UNCHANGED <<image, file_position, offset, length, buf, result>>
  BY DEF Start
<1>2. PICK q \in Nat, r \in 0 .. BLOCK_SIZE - 1 :
        offset \div BLOCK_SIZE = q /\ offset % BLOCK_SIZE = r /\ offset = q * BLOCK_SIZE + r
  BY <1>f, DivMod
<1>3. q + 1 \in 1 .. MaxBlocks
  <2>1. q * BLOCK_SIZE <= offset BY <1>2, <1>f
  <2>2. offset < BLOCK_SIZE * MaxBlocks BY <1>1, <1>f
  <2> QED BY <2>1, <2>2, <1>f, BlockInInode
<1>4. /\ i' \in 1 .. MaxBlocks /\ curr_block_byte' = r
      /\ At' <= offset /\ (offset # BLOCK_SIZE => At' = offset)
  <2>1. CASE offset > BLOCK_SIZE
    <3>1. i' = q + 1 /\ curr_block_byte' = r BY <1>1, <1>2, <2>1 DEF FirstBlock
    <3>2. At' = q * BLOCK_SIZE + r BY <3>1 DEF At
    <3> QED BY <3>1, <3>2, <1>2, <1>3
  <2>2. CASE offset <= BLOCK_SIZE
    <3>1. i' = 1 /\ curr_block_byte' = r BY <1>1, <1>2, <2>2, <1>f DEF FirstBlock
    <3>2. At' = r BY <3>1 DEF At
    <3>3. r <= offset BY <1>2
    <3>4. offset < BLOCK_SIZE => r = offset BY <1>2, <1>f
    <3> QED BY <3>1, <3>2, <3>3, <3>4, <2>2, <1>f
  <2> QED BY <2>1, <2>2, <1>f
<1>5. curr_data_idx' \in BlockNumbers BY <1>1, <1>4, <1>f DEF TypeOK
<1>6. count' \in Lengths BY <1>1, <1>f DEF Lengths
<1>7. TypeOK' BY <1>1, <1>2, <1>4, <1>5, <1>6, <1>f DEF TypeOK
<1>8. Walk' BY <1>1, <1>4, <1>f DEF Walk
<1>9. Copied' /\ Entered' /\ Returned' BY <1>1, <1>f DEF Copied, Entered, Returned
<1> QED BY <1>7, <1>8, <1>9 DEF IInv

\* The block that a turn of the loop copies from has its number in the inode.
LEMMA LoopInBlocks ==
  ASSUME IInv, Loop
  PROVE  /\ LoopBlock \in 1 .. MaxBlocks /\ LoopByte \in 0 .. BLOCK_SIZE - 1
         /\ (LoopBlock - 1) * BLOCK_SIZE + LoopByte = At
         /\ LoopIdx = inode_blocks[LoopBlock] /\ LoopIdx \in BlockNumbers
<1> USE ConstantsAssumption DEF image
<1>f. /\ TypeOK /\ inode_length \in Nat /\ offset \in Nat /\ length \in Nat
      /\ inode_length <= BLOCK_SIZE * MaxBlocks /\ BLOCK_SIZE * MaxBlocks \in Nat
      /\ count \in Nat /\ copied \in Nat /\ file_position \in Nat
      /\ UINT32 \in Nat \ {0}
      /\ i \in 1 .. MaxBlocks /\ curr_block_byte \in 0 .. BLOCK_SIZE
      /\ inode_blocks \in [1 .. MaxBlocks -> BlockNumbers]
  BY Facts DEF IInv, TypeOK
<1>w. /\ offset < inode_length /\ file_position = offset
      /\ count = offset + copied
      /\ curr_data_idx = inode_blocks[i]
      /\ At <= count /\ (offset # BLOCK_SIZE => At = count)
      /\ Len(buf) = copied /\ buf \in Seq(Bytes)
      /\ copied < length /\ count < inode_length
      /\ offset # BLOCK_SIZE => \A k \in 1 .. Len(buf) : buf[k] = FileByte(offset + k - 1)
  BY <1>f DEF IInv, Loop, Walk, Copied, TypeOK, file_reached_end
<1>1. /\ LoopBlock \in 1 .. MaxBlocks /\ LoopByte \in 0 .. BLOCK_SIZE - 1
      /\ (LoopBlock - 1) * BLOCK_SIZE + LoopByte = At
  <2>1. CASE curr_block_byte >= BLOCK_SIZE
    <3>1. LoopBlock = i + 1 /\ LoopByte = 0 BY <2>1 DEF LoopBlock, LoopByte, BlockDone
    <3>2. At = i * BLOCK_SIZE BY <2>1, <1>f DEF At
    <3>3. i * BLOCK_SIZE <= count BY <3>2, <1>w
    <3>4. count < BLOCK_SIZE * MaxBlocks BY <1>w, <1>f
    <3>5. i + 1 \in 1 .. MaxBlocks BY <3>3, <3>4, <1>f, BlockInInode
    <3> QED BY <3>1, <3>2, <3>5, <1>f
  <2>2. CASE curr_block_byte < BLOCK_SIZE
    BY <2>2, <1>f DEF LoopBlock, LoopByte, BlockDone, At
  <2> QED BY <2>1, <2>2, <1>f
<1>2. LoopIdx = inode_blocks[LoopBlock] /\ LoopIdx \in BlockNumbers
  BY <1>1, <1>w, <1>f DEF LoopIdx, LoopBlock
<1> QED BY <1>1, <1>2
\* One turn of the loop copies the byte at position count.
LEMMA LoopInv == ASSUME IInv, Loop PROVE IInv'
<1> USE ConstantsAssumption DEF image
<1>f. /\ TypeOK /\ inode_length \in Nat /\ offset \in Nat /\ length \in Nat
      /\ inode_length <= BLOCK_SIZE * MaxBlocks /\ BLOCK_SIZE * MaxBlocks \in Nat
      /\ count \in Nat /\ copied \in Nat /\ file_position \in Nat
      /\ UINT32 \in Nat \ {0}
      /\ i \in 1 .. MaxBlocks /\ curr_block_byte \in 0 .. BLOCK_SIZE
      /\ inode_blocks \in [1 .. MaxBlocks -> BlockNumbers]
  BY Facts DEF IInv, TypeOK
<1>w. /\ offset < inode_length /\ file_position = offset
      /\ count = offset + copied
      /\ curr_data_idx = inode_blocks[i]
      /\ At <= count /\ (offset # BLOCK_SIZE => At = count)
      /\ Len(buf) = copied /\ buf \in Seq(Bytes)
      /\ copied < length /\ count < inode_length
      /\ offset # BLOCK_SIZE => \A k \in 1 .. Len(buf) : buf[k] = FileByte(offset + k - 1)
  BY <1>f DEF IInv, Loop, Walk, Copied, TypeOK, file_reached_end
<1>1. /\ LoopBlock \in 1 .. MaxBlocks /\ LoopByte \in 0 .. BLOCK_SIZE - 1
      /\ (LoopBlock - 1) * BLOCK_SIZE + LoopByte = At
  BY LoopInBlocks
<1>2. LoopIdx = inode_blocks[LoopBlock] /\ LoopIdx \in BlockNumbers
  BY LoopInBlocks
<1>3. CASE /\ LoopIdx < NumDataBlocks
           /\ buf' = Append(buf, <<LoopIdx, LoopByte>>)
           /\ copied' = copied + 1 /\ count' = count + 1
           /\ curr_block_byte' = LoopByte + 1
           /\ UNCHANGED <<file_position, pc, result>>
  <2>1. /\ i' = LoopBlock /\ curr_data_idx' = LoopIdx /\ pc = "loop"
        /\ UNCHANGED <<image, offset, length>>
    BY DEF Loop
  <2>2. <<LoopIdx, LoopByte>> \in Bytes BY <1>1, <1>2 DEF Bytes
  <2>3. /\ buf' \in Seq(Bytes) /\ Len(buf') = copied + 1
        /\ \A k \in 1 .. Len(buf) : buf'[k] = buf[k]
        /\ buf'[copied + 1] = <<LoopIdx, LoopByte>>
    BY <1>3, <2>2, <1>w
  <2>4. At' = At + 1
    <3>1. At' = (LoopBlock - 1) * BLOCK_SIZE + (LoopByte + 1) BY <1>3, <2>1 DEF At
    <3>2. (LoopBlock - 1) * BLOCK_SIZE \in Int BY <1>1
    <3> QED BY <3>1, <3>2, <1>1
  <2>5. At \in Int BY <1>f DEF At
  <2>6. TypeOK'
    <3>0. count' = count + 1 /\ count \in Nat /\ count < inode_length BY <1>3, <1>w, <1>f
    <3>1. count' \in Lengths
      <4>1. PICK top \in Nat : top = BLOCK_SIZE * MaxBlocks /\ inode_length <= top BY <1>f
      <4> QED BY <3>0, <4>1, <1>f DEF Lengths
    <3>2. curr_block_byte' \in 0 .. BLOCK_SIZE /\ copied' \in Nat BY <1>1, <1>3, <1>f
    <3>3. inode_in_range' \in BOOLEAN BY <2>1, <1>f DEF TypeOK
    <3> QED BY <1>3, <2>1, <2>3, <3>1, <3>2, <3>3, <1>1, <1>2, <1>f DEF TypeOK
  <2>7. Walk'
    <3>1. /\ inode_length' = inode_length /\ inode_blocks' = inode_blocks
          /\ offset' = offset /\ length' = length /\ file_position' = file_position
      BY <1>3, <2>1
    <3>2. At' <= count' /\ (offset # BLOCK_SIZE => At' = count')
      BY <1>3, <2>4, <2>5, <1>w, <1>f
    <3>3. curr_data_idx' = inode_blocks'[i'] BY <3>1, <2>1, <1>2
    <3>4. /\ offset' < inode_length' /\ file_position' = offset'
          /\ count' = offset' + copied' /\ count' <= inode_length' /\ copied' <= length'
      <4>1. /\ offset < inode_length /\ file_position = offset /\ count = offset + copied
            /\ copied < length /\ count < inode_length
        BY <1>w
      <4>2. count' = count + 1 /\ copied' = copied + 1 BY <1>3
      <4>3. /\ offset \in Nat /\ inode_length \in Nat /\ length \in Nat /\ count \in Nat
            /\ copied \in Nat
        BY <1>f
      <4> HIDE ConstantsAssumption
      <4> QED BY <3>1, <4>1, <4>2, <4>3
    <3> QED BY <3>1, <3>2, <3>3, <3>4 DEF Walk
  <2>8. ASSUME offset # BLOCK_SIZE
        PROVE  <<LoopIdx, LoopByte>> = FileByte(offset + copied)
    <3> DEFINE q == LoopBlock - 1
    <3> DEFINE x == offset + copied
    <3>1. q \in Nat /\ LoopBlock = q + 1 BY <1>1
    <3>2. x = q * BLOCK_SIZE + LoopByte BY <2>8, <1>1, <1>w
    <3> HIDE DEF q, x
    <3>3. x \div BLOCK_SIZE = q /\ x % BLOCK_SIZE = LoopByte BY <3>1, <3>2, <1>1, DivModSum
    <3>4. <<LoopIdx, LoopByte>> = FileByte(x) BY <3>1, <3>3, <1>2 DEF FileByte
    <3> QED BY <3>4 DEF x
  <2>9. Copied'
    <3>1. ASSUME offset # BLOCK_SIZE, NEW k \in 1 .. copied + 1
          PROVE  buf'[k] = FileByte(offset + k - 1)
      <4>1. CASE k = copied + 1
        <5>1. offset + k - 1 = offset + copied BY <4>1, <1>f
        <5> QED BY <5>1, <4>1, <2>3, <2>8, <3>1
      <4>2. CASE k \in 1 .. copied BY <4>2, <2>3, <1>w, <3>1
      <4> QED BY <4>1, <4>2, <1>f
    <3>2. pc' = "loop" /\ offset' = offset /\ inode_blocks' = inode_blocks BY <1>3, <2>1
    <3> QED BY <3>1, <3>2, <2>3, <1>3 DEF Copied, FileByte
  <2>10. Entered' /\ Returned' BY <1>3, <2>1 DEF Entered, Returned
  <2> QED BY <2>6, <2>7, <2>9, <2>10 DEF IInv
<1>4. CASE /\ LoopIdx >= NumDataBlocks
           /\ Return(-1)
           /\ curr_block_byte' = LoopByte
           /\ UNCHANGED <<copied, count, buf>>
  <2>1. /\ i' = LoopBlock /\ curr_data_idx' = LoopIdx
        /\ UNCHANGED <<image, offset, length>>
    BY DEF Loop
  <2>2. result' = -1 /\ pc' = "done" /\ file_position' = (file_position + (-1)) % UINT32
    BY <1>4 DEF Return, Advance
  <2>3. file_position' \in 0 .. UINT32 - 1 BY <2>2, <1>f
  <2>4. TypeOK' BY <1>4, <2>1, <2>2, <2>3, <1>1, <1>2, <1>f DEF TypeOK
  <2>5. Walk' /\ Entered' /\ Returned' BY <2>2 DEF Walk, Entered, Returned
  <2>6. Copied' BY <1>4, <2>1, <2>2, <1>w DEF Copied, FileByte
  <2> QED BY <2>4, <2>5, <2>6 DEF IInv
<1> QED BY <1>3, <1>4 DEF Loop

\* The end of its loop.
LEMMA LoopEndInv == ASSUME IInv, LoopEnd PROVE IInv'
<1> USE ConstantsAssumption DEF image, locals
<1>f. /\ TypeOK /\ inode_length \in Nat /\ offset \in Nat /\ length \in Nat
      /\ count \in Nat /\ copied \in Nat
      /\ UINT32 \in Nat \ {0} /\ inode_length < UINT32 - 1
      /\ inode_length <= BLOCK_SIZE * MaxBlocks /\ BLOCK_SIZE * MaxBlocks \in Nat
  BY Facts DEF IInv
<1>1. /\ pc = "loop" /\ (copied >= length \/ count >= inode_length)
      /\ result' = copied /\ file_position' = (file_position + copied) % UINT32
      /\ pc' = "done"
      /\ UNCHANGED <<image, offset, length, locals, buf>>
  BY DEF LoopEnd, Return, Advance, file_reached_end
<1>w. /\ file_position = offset /\ count = offset + copied
      /\ count <= inode_length /\ copied <= length
      /\ Len(buf) = copied
  BY <1>1 DEF IInv, Walk, Copied
<1>2. count \in 0 .. UINT32 - 1 BY <1>f, <1>w
<1>3. file_position' = count BY <1>1, <1>2, <1>w, <1>f
<1>4. result' \in Lengths BY <1>1, <1>w, <1>f DEF Lengths
<1>5. TypeOK' BY <1>1, <1>2, <1>3, <1>4, <1>f DEF TypeOK
<1>6. Walk' /\ Entered' BY <1>1 DEF Walk, Entered
<1>7. Copied' BY <1>1 DEF IInv, Copied, FileByte
<1>8. Returned'
  <2>1. CASE copied >= length BY <2>1, <1>1, <1>w, <1>f DEF Returned
  <2>2. CASE count >= inode_length BY <2>2, <1>1, <1>3, <1>w, <1>f DEF Returned
  <2> QED BY <2>1, <2>2, <1>1
<1> QED BY <1>5, <1>6, <1>7, <1>8 DEF IInv

\* Every step keeps IInv.
LEMMA NextInv == IInv /\ [Next]_vars => IInv'
<1> SUFFICES ASSUME IInv, [Next]_vars PROVE IInv' OBVIOUS
<1>1. CASE UNCHANGED vars
  BY <1>1 DEF vars, image, locals, IInv, TypeOK, Walk, Copied, Entered, Returned, At, FileByte
<1> QED
  BY <1>1, CallInv, StartEndInv, StartInv, LoopInv, LoopEndInv, ConsumeInv DEF Next

\* The inductive invariant.
LEMMA Invariant == Spec => []IInv
<1> QED BY InitInv, NextInv, PTL DEF Spec

\* Without bad blocks no read of an open file fails, so the position never moves back.
LEMMA PositionStep ==
  ASSUME GoodInode, IInv, file_position <= inode_length, [Next]_vars
  PROVE  file_position' <= inode_length'
<1> USE ConstantsAssumption DEF image, locals
<1>f. /\ inode_length \in Nat /\ file_position \in Nat /\ UINT32 \in Nat \ {0}
      /\ inode_length < UINT32 - 1 /\ offset \in Nat /\ count \in Nat /\ copied \in Nat
  BY Facts DEF IInv
<1>1. CASE \E n \in Requests : Call(n) BY <1>1 DEF Call
<1>2. CASE StartEnd
  <2>0. inode_in_range BY DEF GoodInode
  <2>1. offset = file_position /\ offset = inode_length
    BY <1>2, <1>f, <2>0 DEF StartEnd, IInv, Entered
  <2>2. file_position' = (file_position + 0) % UINT32 /\ inode_length' = inode_length
    BY <1>2, <2>0, <2>1 DEF StartEnd, Return, Advance
  <2>x. file_position \in 0 .. UINT32 - 1 BY <2>1, <1>f
  <2>y. file_position % UINT32 = file_position BY <2>x, <1>f
  <2>z. file_position + 0 = file_position BY <1>f
  <2>3. file_position' = file_position BY <2>2, <2>y, <2>z
  <2> QED BY <2>2, <2>3
<1>3. CASE Start BY <1>3 DEF Start
<1>4. CASE Loop
  <2>1. /\ LoopIdx = inode_blocks[LoopBlock] /\ LoopBlock \in 1 .. MaxBlocks
        /\ LoopIdx \in BlockNumbers
    BY <1>4, LoopInBlocks
  <2>2. LoopIdx \in Int /\ LoopIdx < NumDataBlocks BY <2>1 DEF GoodInode, BlockNumbers
  <2> QED BY <1>4, <2>2 DEF Loop
<1>5. CASE LoopEnd
  <2>1. /\ file_position' = (file_position + copied) % UINT32 /\ inode_length' = inode_length
        /\ file_position + copied = count /\ count <= inode_length
    BY <1>5 DEF LoopEnd, Return, Advance, IInv, Walk
  <2>2. file_position' = count BY <2>1, <1>f
  <2> QED BY <2>1, <2>2
<1>6. CASE Consume BY <1>6 DEF Consume
<1>7. CASE UNCHANGED vars BY <1>7 DEF vars
<1> QED BY <1>1, <1>2, <1>3, <1>4, <1>5, <1>6, <1>7 DEF Next

\* Types, and with them that the walk never leaves the block numbers of the inode,
\* whatever the position, the request and the inode (also with bad blocks).
THEOREM WalkStaysInInode == Spec => []TypeOK
<1>1. IInv => TypeOK BY DEF IInv
<1> QED BY <1>1, Invariant, PTL

\* A read that does not start at offset BLOCK_SIZE copies exactly the bytes of the file.
THEOREM ReadIsCorrect == Spec => []ReadsFile
<1>1. IInv => ReadsFile BY DEF IInv, Copied, Returned, ReadsFile, CopiesFile
<1> QED BY <1>1, Invariant, PTL

\* The position of an open file stays in the file if the image has no bad blocks.
THEOREM PositionStaysInFile == Spec => []PositionInFile
<1>1. Init => PositionInFile BY ConstantsAssumption, Facts, InitInv DEF Init, PositionInFile, IInv
<1>2. ASSUME IInv, PositionInFile, [Next]_vars PROVE PositionInFile'
  <2>1. inode_blocks' = inode_blocks /\ inode_in_range' = inode_in_range
    BY <1>2 DEF Next, vars, image, Call, StartEnd, Start, Loop, LoopEnd, Consume
  <2>2. GoodInode' => GoodInode BY <2>1 DEF GoodInode
  <2> QED BY <1>2, <2>2, PositionStep DEF PositionInFile
<1> QED BY <1>1, <1>2, Invariant, PTL DEF Spec

-----------------------------------------------------------------------------
(* grep over read.                                                          *)

\* The buffer: its kept rest leaves room, and a line begins in it.
BufferInv ==
  /\ last \in 0 .. BUFSIZE /\ line_start \in Nat
  /\ gpc \in {"read", "line", "failed", "closed"}
  /\ gpc = "read" => last < BUFSIZE
  /\ gpc = "line" => line_start = 0 \/ line_start < last
  /\ gpc # "read" => pc = "idle" /\ reader = "grep"

\* The call of read that grep waits for.
AskedInv ==
  reader = "grep" /\ pc # "idle" =>
    /\ length = BUFSIZE - last
    /\ pc = "done" => result <= length

\* What grep has got is the file up to the position, and a read that returned 0 was at the
\* end.
GotInv ==
  /\ got \in Seq(Chars)
  /\ reader = "grep" /\ gpc # "failed" =>
       /\ pc # "done" => file_position = Len(got)
       /\ pc = "done" /\ result # -1 =>
            file_position = Len(got) + result /\ file_position <= inode_length
       /\ gpc = "line" /\ cnt = 0 => Len(got) = inode_length
       /\ gpc = "closed" => Len(got) = inode_length

GrepInv == IInv /\ BufferInv /\ AskedInv /\ GotInv

\* A nonempty set of natural numbers has a smallest element.
LEMMA SmallestNat ==
  ASSUME NEW T \in SUBSET Nat, T # {}
  PROVE  \E x \in T : \A y \in T : x <= y
<1>1. PICK x \in T : \A y \in T : ~(<<y, x>> \in OpToRel(<, Nat))
  BY WFMin, NatLessThanWellFounded
<1>2. \A y \in T : ~(y < x)
  BY <1>1 DEF OpToRel
<1> QED BY <1>2

\* A set that has 0 and with every number the next one has all.
LEMMA InductionBySet ==
  ASSUME NEW S, 0 \in S, \A k \in Nat : k \in S => k + 1 \in S
  PROVE  \A k \in Nat : k \in S
<1> DEFINE T == {k \in Nat : k \notin S}
<1> SUFFICES ASSUME T # {} PROVE FALSE OBVIOUS
<1>1. PICK x \in T : \A y \in T : x <= y BY SmallestNat
<1>2. x # 0 BY DEF T
<1>3. x - 1 \in Nat /\ x - 1 \notin T BY <1>1, <1>2
<1>4. x - 1 \in S BY <1>3
<1>5. (x - 1) + 1 \in S BY <1>3, <1>4
<1> QED BY <1>5

\* The search for the end of a line ends at last.
LEMMA LineEnds ==
  ASSUME line_start \in Nat, last \in Nat, line_start <= last
  PROVE  /\ line_end \in line_start .. last
         /\ line_end = last \/ data[line_end] = "NL"
         /\ \A k \in line_start .. line_end - 1 : data[k] # "NL"
<1> DEFINE T == {e \in line_start .. last : e = last \/ data[e] = "NL"}
<1>1. T \in SUBSET Nat /\ last \in T OBVIOUS
<1>2. PICK e \in T : \A y \in T : e <= y BY <1>1, SmallestNat
<1>3. \A k \in line_start .. e - 1 : data[k] # "NL" BY <1>2
<1> QED BY <1>2, <1>3 DEF line_end

\* A read that does not fail moves the position by what it returns, which is no more than
\* was asked for.
LEMMA ReturnStep ==
  ASSUME IInv, StartEnd \/ Start \/ Loop \/ LoopEnd
  PROVE  /\ pc \in {"start", "loop"} /\ pc' \in {"loop", "done"}
         /\ UNCHANGED <<length, image>>
         /\ pc' # "done" => file_position' = file_position
         /\ pc' = "done" => result' <= length
         /\ pc' = "done" /\ result' # -1 => /\ file_position' = file_position + result'
                                          /\ file_position' <= inode_length
<1> USE ConstantsAssumption DEF image, locals
<1>f. /\ inode_length \in Nat /\ file_position \in Nat /\ UINT32 \in Nat \ {0}
      /\ inode_length < UINT32 - 1 /\ offset \in Nat /\ count \in Nat /\ copied \in Nat
      /\ length \in Nat /\ file_position \in 0 .. UINT32 - 1
  BY Facts DEF IInv, TypeOK
<1>1. CASE StartEnd
  <2>1. /\ pc = "start" /\ pc' = "done" /\ result' \in {-1, 0} /\ UNCHANGED <<length, image>>
        /\ file_position' = (file_position + result') % UINT32
    BY <1>1 DEF StartEnd, Return, Advance
  <2>2. CASE result' = 0
    <3>1. file_position' = file_position BY <2>1, <2>2, <1>f
    <3>2. offset <= inode_length BY <1>1, <2>2, <1>f DEF StartEnd, Return
    <3>3. offset = file_position BY <2>1 DEF IInv, Entered
    <3> QED BY <2>1, <2>2, <3>1, <3>2, <3>3, <1>f
  <2>3. CASE result' = -1 BY <2>1, <2>3, <1>f
  <2> QED BY <2>1, <2>2, <2>3
<1>2. CASE Start BY <1>2 DEF Start
<1>3. CASE Loop
  <2>1. /\ pc = "loop" /\ UNCHANGED <<length, image>>
        /\ \/ UNCHANGED <<file_position, pc, result>>
           \/ pc' = "done" /\ result' = -1
    BY <1>3 DEF Loop, Return
  <2> QED BY <2>1, <1>f
<1>4. CASE LoopEnd
  <2>1. /\ pc = "loop" /\ pc' = "done" /\ result' = copied /\ UNCHANGED <<length, image>>
        /\ file_position' = (file_position + copied) % UINT32
        /\ file_position + copied = count /\ count <= inode_length /\ copied <= length
    BY <1>4 DEF LoopEnd, Return, Advance, IInv, Walk
  <2>2. file_position' = count BY <2>1, <1>f
  <2> QED BY <2>1, <2>2, <1>f
<1> QED BY <1>1, <1>2, <1>3, <1>4

\* A step of a reader is one of read, or leaves read alone.
LEMMA ReaderStep ==
  ASSUME BufferInv, [GrepNext]_gvars
  PROVE  [Next]_vars
<1>1. CASE GrepRead
  <2>1. BUFSIZE - last \in Requests BY <1>1, GrepAssumption DEF GrepRead, BufferInv
  <2> QED BY <1>1, <2>1 DEF GrepRead, Next
<1> QED BY <1>1
    DEF GrepNext, gvars, Cat, KernelRead, GrepReadFailed, GrepGot, GrepMove, GrepLine, Next

\* Every step of the readers keeps GrepInv.
LEMMA GrepInductive == GrepInv /\ [GrepNext]_gvars => GrepInv'
<1> SUFFICES ASSUME GrepInv, [GrepNext]_gvars PROVE GrepInv' OBVIOUS
<1>i. IInv' BY ReaderStep, NextInv DEF GrepInv
<1>f. /\ last \in Nat /\ line_start \in Nat /\ BUFSIZE \in Nat \ {0} /\ file_position \in Nat
      /\ length \in Nat /\ got \in Seq(Chars) /\ result \in Nat \cup {-1} /\ Len(got) \in Nat
  BY GrepAssumption, Facts DEF GrepInv, BufferInv, GotInv, IInv, TypeOK, Lengths
<1>1. CASE UNCHANGED gvars
  BY <1>1, <1>i DEF gvars, vars, grep, image, GrepInv, BufferInv, AskedInv, GotInv
<1>2. CASE Cat
  <2>1. reader = "cat" /\ UNCHANGED <<reader, gpc, last, line_start, got>>
    BY <1>2 DEF Cat, grep
  <2>2. BufferInv' BY <2>1 DEF GrepInv, BufferInv
  <2>3. AskedInv' /\ GotInv' BY <2>1 DEF GrepInv, AskedInv, GotInv
  <2> QED BY <1>i, <2>2, <2>3 DEF GrepInv
<1>3. CASE KernelRead
  <2>1. StartEnd \/ Start \/ Loop \/ LoopEnd BY <1>3 DEF KernelRead
  <2>2. /\ pc \in {"start", "loop"} /\ pc' \in {"loop", "done"} /\ UNCHANGED <<length, image>>
        /\ pc' # "done" => file_position' = file_position
        /\ pc' = "done" => result' <= length
        /\ pc' = "done" /\ result' # -1 => /\ file_position' = file_position + result'
                                         /\ file_position' <= inode_length
    BY <2>1, ReturnStep DEF GrepInv
  <2>3. UNCHANGED <<reader, gpc, last, line_start, cnt, got>> BY <1>3 DEF KernelRead, grep
  <2>4. gpc = "read" BY <2>2 DEF GrepInv, BufferInv
  <2>5. BufferInv' /\ AskedInv' BY <2>2, <2>3, <2>4 DEF GrepInv, BufferInv, AskedInv
  <2>6. GotInv' BY <2>2, <2>3, <2>4 DEF GrepInv, GotInv, image
  <2> QED BY <1>i, <2>5, <2>6 DEF GrepInv
<1>4. CASE GrepRead
  <2>1. /\ pc = "idle" /\ pc' = "start" /\ length' = BUFSIZE - last /\ gpc = "read"
        /\ UNCHANGED <<reader, gpc, last, line_start, cnt, got, file_position, inode_length>>
    BY <1>4 DEF GrepRead, Call, grep, image
  <2>2. BufferInv' /\ AskedInv' BY <2>1 DEF GrepInv, BufferInv, AskedInv
  <2>3. GotInv' BY <2>1 DEF GrepInv, GotInv
  <2> QED BY <1>i, <2>2, <2>3 DEF GrepInv
<1>5. CASE GrepReadFailed
  <2>1. /\ pc' = "idle" /\ gpc' = "failed" /\ UNCHANGED <<reader, last, line_start, cnt, got>>
    BY <1>5 DEF GrepReadFailed, Consume, grep
  <2>2. reader = "grep" BY <1>5 DEF GrepReadFailed
  <2>3. BufferInv' BY <2>1, <2>2 DEF GrepInv, BufferInv
  <2>4. AskedInv' /\ GotInv' BY <2>1 DEF GrepInv, AskedInv, GotInv
  <2> QED BY <1>i, <2>3, <2>4 DEF GrepInv
<1>6. CASE GrepGot
  <2>1. /\ pc = "done" /\ pc' = "idle" /\ result # -1 /\ gpc' = "line" /\ cnt' = result
        /\ last' = last + result /\ line_start' = 0 /\ reader = "grep"
        /\ UNCHANGED <<reader, file_position, inode_length>>
    BY <1>6 DEF GrepGot, Consume, image
  <2>2. PICK bytes \in [1 .. result -> Chars] : got' = got \o bytes BY <1>6 DEF GrepGot
  <2>3. bytes \in Seq(Chars) /\ Len(bytes) = result
    <3>1. result \in Nat BY <2>1, <1>f
    <3>2. bytes \in Seq(Chars) BY <2>2, <3>1, SeqDef
    <3>3. Len(bytes) \in Nat /\ 1 .. Len(bytes) = 1 .. result
      BY <2>2, <3>2, LenProperties
    <3> QED BY <3>1, <3>2, <3>3
  <2>4. got' \in Seq(Chars) /\ Len(got') = Len(got) + result
    BY <2>2, <2>3, <1>f, ConcatProperties
  <2>5. /\ gpc = "read" /\ last < BUFSIZE /\ length = BUFSIZE - last /\ result <= length
        /\ file_position = Len(got) + result
    BY <2>1 DEF GrepInv, BufferInv, AskedInv, GotInv
  <2>6. BufferInv' BY <2>1, <2>5, <1>f DEF BufferInv
  <2>7. result = 0 => Len(got') = inode_length
    <3>1. result = length \/ file_position = inode_length BY <2>1 DEF GrepInv, IInv, Returned
    <3> QED BY <3>1, <2>4, <2>5, <1>f
  <2>8. AskedInv' BY <2>1 DEF AskedInv
  <2>9. GotInv' BY <2>1, <2>4, <2>5, <2>7, <1>f DEF GotInv
  <2> QED BY <1>i, <2>6, <2>8, <2>9 DEF GrepInv
<1>7. CASE GrepMove
  <2>1. /\ gpc = "line" /\ gpc' = "read" /\ line_start # 0 /\ last' = last - line_start
        /\ UNCHANGED <<reader, line_start, cnt, got, pc, file_position, inode_length>>
    BY <1>7 DEF GrepMove, Partial, MovedDown, vars, image
  <2>2. pc = "idle" /\ line_start < last /\ last <= BUFSIZE BY <2>1 DEF GrepInv, BufferInv
  <2>3. BufferInv' /\ AskedInv' BY <2>1, <2>2, <1>f DEF BufferInv, AskedInv
  <2>4. GotInv' BY <2>1, <2>2 DEF GrepInv, GotInv
  <2> QED BY <1>i, <2>3, <2>4 DEF GrepInv
<1>8. CASE GrepLine
  <2>1. PICK e : e = line_end OBVIOUS
  <2>2. /\ gpc = "line" /\ line_start' = e + 1
        /\ \/ e + 1 < last /\ UNCHANGED <<last, gpc>>
           \/ e + 1 >= last /\ last' = 0 /\ gpc' = IF cnt = 0 THEN "closed" ELSE "read"
        /\ UNCHANGED <<reader, cnt, got, pc, file_position, inode_length>>
    BY <1>8, <2>1 DEF GrepLine, vars, image
  <2>3. pc = "idle" /\ reader = "grep" /\ line_start <= last /\ last <= BUFSIZE
    BY <2>2, <1>f DEF GrepInv, BufferInv
  <2>4. e \in Nat BY <2>1, <2>3, <1>f, LineEnds
  <2>5. BufferInv' /\ AskedInv' BY <2>2, <2>3, <2>4, <1>f DEF BufferInv, AskedInv
  <2>6. GotInv' BY <2>2, <2>3 DEF GrepInv, GotInv
  <2> QED BY <1>i, <2>5, <2>6 DEF GrepInv
<1> QED BY <1>1, <1>2, <1>3, <1>4, <1>5, <1>6, <1>7, <1>8 DEF GrepNext

\* GrepInv holds of every behaviour of the readers.
LEMMA GrepInvariant == GrepSpec => []GrepInv
<1>1. GrepInit => GrepInv
  <2> SUFFICES ASSUME GrepInit PROVE GrepInv OBVIOUS
  <2>1. IInv BY InitInv DEF GrepInit
  <2>2. /\ last = 0 /\ line_start = 0 /\ gpc = "read" /\ got = <<>> /\ pc = "idle"
        /\ file_position = 0
    BY DEF GrepInit, Init
  <2>3. BufferInv BY <2>2, GrepAssumption DEF BufferInv
  <2>4. AskedInv /\ GotInv BY <2>2 DEF AskedInv, GotInv
  <2> QED BY <2>1, <2>3, <2>4 DEF GrepInv
<1> QED BY <1>1, GrepInductive, PTL DEF GrepSpec

\* cat and grep use read as ReadData says, so that what is proved of read holds of them: grep
\* asks only for numbers of bytes that a caller may ask for.
THEOREM ReadersCallRead == GrepSpec => Spec
<1>1. GrepInit => Init BY DEF GrepInit
<1>2. GrepInv /\ [GrepNext]_gvars => [Next]_vars BY ReaderStep DEF GrepInv
<1> QED BY <1>1, <1>2, GrepInvariant, PTL DEF GrepSpec, Spec

\* What grep has read when it ends is the whole file.
LEMMA ReadsAll == ASSUME GrepInv PROVE GrepReadsAll
<1>1. last <= BUFSIZE BY GrepAssumption DEF GrepInv, BufferInv
<1>2. gpc = "closed" => Len(got) = inode_length BY DEF GrepInv, BufferInv, GotInv
<1> QED BY <1>1, <1>2 DEF GrepReadsAll

\* grep never overruns its buffer and reads its file to the end, for every size of the
\* buffer and of the blocks, every file and every text.
THEOREM GrepReadsFile == GrepSpec => []GrepReadsAll
  BY ReadsAll, GrepInvariant, PTL

-----------------------------------------------------------------------------
(* What grep prints.                                                        *)

\* The line that starts at k ends before e.
EndOf(t, k, e) ==
  /\ e \in k .. Len(t) + 1
  /\ e = Len(t) + 1 \/ t[e] = "NL"
  /\ \A j \in k .. e - 1 : t[j] # "NL"

\* The text u goes on where t ends.
Grown(t, u) ==
  /\ t \in Seq(Chars) /\ u \in Seq(Chars) /\ Len(t) <= Len(u)
  /\ \A j \in 1 .. Len(t) : u[j] = t[j]

\* f collects the lines with the pattern among those that start at 1 .. n.
FoundUpTo(f, t, n) ==
  /\ f[0] = <<>>
  /\ \A k \in 1 .. n : f[k] = WithLine(f[k - 1], t, k)

\* Every line ends.
LEMMA EndExists ==
  ASSUME NEW t \in Seq(Chars), NEW k \in 1 .. Len(t) + 1
  PROVE  \E e : EndOf(t, k, e)
<1>0. Len(t) \in Nat BY LenProperties
<1> DEFINE T == {e \in k .. Len(t) + 1 : e = Len(t) + 1 \/ t[e] = "NL"}
<1>1. T \in SUBSET Nat /\ Len(t) + 1 \in T BY <1>0
<1>2. PICK e \in T : \A y \in T : e <= y BY <1>1, SmallestNat
<1>3. \A j \in k .. e - 1 : t[j] # "NL" BY <1>2, <1>0
<1> QED BY <1>2, <1>3 DEF EndOf

\* A line is what lies before its end.
LEMMA LineIs ==
  ASSUME NEW t \in Seq(Chars), NEW k \in 1 .. Len(t) + 1, NEW e, EndOf(t, k, e)
  PROVE  /\ LineAt(t, k) = SubSeq(t, k, e - 1)
         /\ LineAt(t, k) \in Seq(Chars)
         /\ Len(LineAt(t, k)) = e - k
         /\ \A j \in 1 .. e - k : LineAt(t, k)[j] = t[k + j - 1]
<1>0. Len(t) \in Nat /\ \A j \in 1 .. Len(t) : t[j] \in Chars BY LenProperties, ElementOfSeq
<1>e. e \in k .. Len(t) + 1 /\ e \in Int BY <1>0 DEF EndOf
<1> DEFINE F(x) == (x = Len(t) + 1 \/ t[x] = "NL") /\ \A j \in k .. x - 1 : t[j] # "NL"
<1>1. F(e) BY DEF EndOf
<1>2. \A x \in k .. Len(t) + 1 : F(x) => x = e BY <1>0, <1>1, <1>e
<1>3. e = CHOOSE x \in k .. Len(t) + 1 : F(x) BY <1>1, <1>2, <1>e
<1>4. LineAt(t, k) = SubSeq(t, k, e - 1) BY <1>3 DEF LineAt
<1>5. \A j \in k .. e - 1 : t[j] \in Chars BY <1>0, <1>e
<1>6. k \in Int /\ e - 1 \in Int BY <1>0, <1>e
<1>7. /\ SubSeq(t, k, e - 1) \in Seq(Chars)
      /\ Len(SubSeq(t, k, e - 1)) = IF k <= e - 1 THEN e - 1 - k + 1 ELSE 0
      /\ \A j \in 1 .. e - 1 - k + 1 : SubSeq(t, k, e - 1)[j] = t[k + j - 1]
  BY <1>5, <1>6, SubSeqProperties
<1>8. e - 1 - k + 1 = e - k /\ (k > e - 1 => e - k = 0) BY <1>6, <1>e, <1>0
<1> QED BY <1>4, <1>7, <1>8

\* A line that is complete, or that grows no more, is the same in the longer text.
LEMMA SameLine ==
  ASSUME NEW t, NEW u, Grown(t, u), NEW k \in 1 .. Len(t), NEW e, EndOf(t, k, e),
         e <= Len(t) \/ Len(u) = Len(t) \/ u[Len(t) + 1] = "NL"
  PROVE  EndOf(u, k, e) /\ LineAt(u, k) = LineAt(t, k)
<1>0. Len(t) \in Nat /\ Len(u) \in Nat /\ Len(t) <= Len(u) BY LenProperties DEF Grown
<1>g. \A j \in 1 .. Len(t) : u[j] = t[j] BY DEF Grown
<1>e. e \in k .. Len(t) + 1 /\ (e = Len(t) + 1 \/ t[e] = "NL")
      /\ \A j \in k .. e - 1 : t[j] # "NL"
  BY DEF EndOf
<1>1. \A j \in k .. e - 1 : u[j] # "NL" BY <1>0, <1>g, <1>e
<1>2. e = Len(u) + 1 \/ u[e] = "NL" BY <1>0, <1>g, <1>e
<1>3. EndOf(u, k, e) BY <1>0, <1>1, <1>2, <1>e DEF EndOf
<1>4. /\ t \in Seq(Chars) /\ u \in Seq(Chars) /\ k \in 1 .. Len(t) + 1 /\ k \in 1 .. Len(u) + 1
  BY <1>0 DEF Grown
<1>5. /\ LineAt(t, k) \in Seq(Chars) /\ LineAt(u, k) \in Seq(Chars)
      /\ Len(LineAt(t, k)) = e - k /\ Len(LineAt(u, k)) = e - k
      /\ \A j \in 1 .. e - k : LineAt(t, k)[j] = t[k + j - 1]
      /\ \A j \in 1 .. e - k : LineAt(u, k)[j] = u[k + j - 1]
  BY <1>3, <1>4, LineIs
<1>6. \A j \in 1 .. e - k : u[k + j - 1] = t[k + j - 1] BY <1>0, <1>g, <1>e
<1>7. LineAt(u, k) = LineAt(t, k) BY <1>5, <1>6, SeqEqual
<1> QED BY <1>3, <1>7

\* Where lines start does not change.
LEMMA SameStarts ==
  ASSUME NEW t, NEW u, Grown(t, u), NEW k \in 1 .. Len(t)
  PROVE  k \in Starts(t) <=> k \in Starts(u)
<1>0. Len(t) \in Nat /\ Len(u) \in Nat /\ Len(t) <= Len(u) BY LenProperties DEF Grown
<1>1. k # 1 => u[k - 1] = t[k - 1] BY <1>0 DEF Grown
<1> QED BY <1>0, <1>1 DEF Starts

\* Nor do the lines found so far.
LEMMA SameFound ==
  ASSUME NEW t, NEW u, Grown(t, u), NEW f, NEW P \in 0 .. Len(t), FoundUpTo(f, t, P),
         \/ P = 0 \/ t[P] = "NL" \/ Len(u) = Len(t) \/ u[Len(t) + 1] = "NL"
  PROVE  FoundUpTo(f, u, P)
<1>0. Len(t) \in Nat /\ Len(u) \in Nat /\ Len(t) <= Len(u) BY LenProperties DEF Grown
<1>1. ASSUME NEW k \in 1 .. P
      PROVE  (k \in Starts(t) <=> k \in Starts(u)) /\ LineAt(u, k) = LineAt(t, k)
  <2>1. k \in 1 .. Len(t) /\ k \in 1 .. Len(t) + 1 /\ t \in Seq(Chars) BY <1>0 DEF Grown
  <2>2. PICK e : EndOf(t, k, e) BY <2>1, EndExists
  <2>3. e <= Len(t) \/ Len(u) = Len(t) \/ u[Len(t) + 1] = "NL" BY <2>1, <2>2, <1>0 DEF EndOf
  <2> QED BY <2>1, <2>2, <2>3, SameLine, SameStarts
<1> QED BY <1>1 DEF FoundUpTo, WithLine

\* What was read fits when all of the text does.
LEMMA PrefixFits ==
  ASSUME NEW t, NEW u, Grown(t, u), TextFits(u)
  PROVE  TextFits(t)
<1>0. Len(t) \in Nat /\ Len(u) \in Nat /\ Len(t) <= Len(u) BY LenProperties DEF Grown
<1>g. \A j \in 1 .. Len(t) : u[j] = t[j] BY DEF Grown
<1>b. BUFSIZE \in Nat BY GrepAssumption
<1>1. \A k \in 1 .. Len(t) : t[k] # "NUL" BY <1>0, <1>g DEF TextFits
<1>2. ASSUME NEW k \in Starts(t) PROVE Len(LineAt(t, k)) <= BUFSIZE
  <2>1. k \in 1 .. Len(t) BY DEF Starts
  <2>2. k \in Starts(u) /\ k \in 1 .. Len(u) BY <2>1, <1>0, SameStarts
  <2>3. /\ k \in 1 .. Len(t) + 1 /\ k \in 1 .. Len(u) + 1 /\ t \in Seq(Chars) /\ u \in Seq(Chars)
    BY <2>1, <1>0 DEF Grown
  <2>4. PICK e : EndOf(t, k, e) BY <2>3, EndExists
  <2>5. PICK d : EndOf(u, k, d) BY <2>3, EndExists
  <2>6. e \in Int /\ d \in Int /\ e <= d
    <3>1. e \in k .. Len(t) + 1 /\ d \in k .. Len(u) + 1 BY <2>4, <2>5 DEF EndOf
    <3>2. CASE d < e
      <4>1. d \in k .. e - 1 /\ d \in 1 .. Len(t) BY <3>1, <3>2, <1>0, <2>1
      <4>2. t[d] # "NL" BY <4>1, <2>4 DEF EndOf
      <4>3. u[d] = "NL" BY <4>1, <2>5, <1>0 DEF EndOf
      <4> QED BY <4>1, <4>2, <4>3, <1>g
    <3> QED BY <3>1, <3>2, <1>0
  <2>7. Len(LineAt(t, k)) = e - k BY <2>3, <2>4, LineIs
  <2>8. Len(LineAt(u, k)) = d - k BY <2>3, <2>5, LineIs
  <2>9. d - k <= BUFSIZE BY <2>2, <2>8 DEF TextFits
  <2> QED BY <2>6, <2>7, <2>9, <2>1, <1>0, <1>b
<1> QED BY <1>1, <1>2 DEF TextFits

\* Behind a line as long as the buffer comes a newline.
LEMMA FullLineEnds ==
  ASSUME NEW t, NEW u, Grown(t, u), TextFits(u), Len(t) < Len(u),
         NEW s \in Starts(t), s = Len(t) - BUFSIZE + 1, \A j \in s .. Len(t) : t[j] # "NL"
  PROVE  u[Len(t) + 1] = "NL"
<1>0. /\ Len(t) \in Nat /\ Len(u) \in Nat /\ BUFSIZE \in Nat \ {0}
      /\ \A j \in 1 .. Len(t) : u[j] = t[j]
  BY LenProperties, GrepAssumption DEF Grown
<1>1. s \in 1 .. Len(t) BY DEF Starts
<1>2. s \in Starts(u) /\ s \in 1 .. Len(u) + 1 /\ u \in Seq(Chars)
  BY <1>0, <1>1, SameStarts DEF Grown
<1>3. PICK d : EndOf(u, s, d) BY <1>2, EndExists
<1>4. Len(LineAt(u, s)) = d - s /\ d - s <= BUFSIZE BY <1>2, <1>3, LineIs DEF TextFits
<1>5. d \in s .. Len(u) + 1 /\ (d = Len(u) + 1 \/ u[d] = "NL") BY <1>3 DEF EndOf
<1>6. d <= Len(t) + 1 BY <1>0, <1>1, <1>4, <1>5
<1>7. ~(d \in s .. Len(t)) BY <1>0, <1>1, <1>5
<1>8. d = Len(t) + 1 BY <1>0, <1>1, <1>5, <1>6, <1>7
<1> QED BY <1>0, <1>5, <1>8

\* A whole line more is found where a line starts.
LEMMA FoundLine ==
  ASSUME NEW t \in Seq(Chars), NEW f, NEW P \in 0 .. Len(t), FoundUpTo(f, t, P),
         NEW E, EndOf(t, P + 1, E),
         NEW Q \in P + 1 .. Len(t), Q <= E, NEW r,
         r = WithLine(f[P], t, P + 1)
  PROVE  \E g : FoundUpTo(g, t, Q) /\ g[Q] = r
<1>0. Len(t) \in Nat BY LenProperties
<1>e. E \in P + 1 .. Len(t) + 1 /\ \A j \in P + 1 .. E - 1 : t[j] # "NL" BY DEF EndOf
<1> DEFINE g == [k \in 0 .. Q |-> IF k <= P THEN f[k] ELSE r]
<1>1. g[0] = <<>> BY <1>0 DEF FoundUpTo
<1>2. ASSUME NEW k \in 1 .. Q
      PROVE  g[k] = WithLine(g[k - 1], t, k)
  <2>1. CASE k <= P
    <3>1. k \in 1 .. P /\ g[k] = f[k] /\ g[k - 1] = f[k - 1] BY <2>1, <1>0
    <3> QED BY <3>1 DEF FoundUpTo
  <2>2. CASE k = P + 1
    <3>1. g[k] = r /\ g[k - 1] = f[P] BY <2>2, <1>0
    <3> QED BY <3>1, <2>2
  <2>3. CASE k > P + 1
    <3>1. g[k] = r /\ g[k - 1] = r BY <2>3, <1>0
    <3>2. k - 1 \in P + 1 .. E - 1 BY <2>3, <1>0, <1>e
    <3>3. k \notin Starts(t) BY <3>2, <2>3, <1>0, <1>e DEF Starts
    <3> QED BY <3>1, <3>3 DEF WithLine
  <2> QED BY <2>1, <2>2, <2>3, <1>0
<1>3. g[Q] = r BY <1>0
<1>4. FoundUpTo(g, t, Q) BY <1>1, <1>2 DEF FoundUpTo
<1> QED BY <1>3, <1>4

\* The newline that ends a line adds none.
LEMMA FoundNewline ==
  ASSUME NEW t \in Seq(Chars), NEW f, NEW P \in 0 .. Len(t), FoundUpTo(f, t, P),
         P # 0, t[P] # "NL", P < Len(t)
  PROVE  \E g : FoundUpTo(g, t, P + 1) /\ g[P + 1] = f[P]
<1>0. Len(t) \in Nat BY LenProperties
<1>1. PICK E : EndOf(t, P + 1, E) BY <1>0, EndExists
<1>2. PICK Q \in P + 1 .. Len(t) : Q = P + 1 /\ Q <= E BY <1>0, <1>1 DEF EndOf
<1>3. Q \notin Starts(t) BY <1>0, <1>2 DEF Starts
<1>4. f[P] = WithLine(f[P], t, P + 1) BY <1>2, <1>3 DEF WithLine
<1> QED BY <1>1, <1>2, <1>4, FoundLine

(* P characters of got are done: printed is what they give, and the buffer   *)
(* holds the rest.  The next character starts a line, or ends the line that  *)
(* filled the buffer, or there is none.                                      *)
Fresh(P) == P = 0 \/ got[P] = "NL"

Rest(P, from) ==
  Len(got) = P + (last - from) /\ \A k \in from .. last - 1 : data[k] = got[P + k - from + 1]

FullLine ==
  \E s \in Starts(got) : s = Len(got) - BUFSIZE + 1 /\ \A j \in s .. Len(got) : got[j] # "NL"

Found(P) == \E f : FoundUpTo(f, got, P) /\ f[P] = printed

Printing(P) ==
  /\ Found(P)
  /\ data \in [0 .. BUFSIZE -> Chars] /\ data[BUFSIZE] # "NL"
  /\ gpc = "read" =>
       /\ Rest(P, 0)
       /\ Fresh(P) \/ (last = 0 /\ (P = inode_length \/ FullLine))
  /\ gpc = "line" =>
       /\ Rest(P, line_start)
       /\ last < BUFSIZE => Len(got) = inode_length
       /\ Fresh(P) \/ (line_start = 0 /\ (P = Len(got) \/ got[P + 1] = "NL"))
  /\ gpc = "closed" => P = Len(got)

PrintInv == garbage # "NL" /\ TextFits(got) => \E P \in 0 .. Len(got) : Printing(P)

\* The NUL that ends a line of a text without NULs is the one grep writes.
LEMMA EndedIs ==
  ASSUME BUFSIZE \in Nat, data \in [0 .. BUFSIZE -> Chars], line_start \in Nat,
         NEW e, e = line_end, e \in line_start .. BUFSIZE,
         \A k \in line_start .. e - 1 : data[k] # "NUL"
  PROVE  /\ Ended \in [0 .. BUFSIZE -> Chars] /\ Ended[e] = "NUL"
         /\ \A k \in 0 .. BUFSIZE : k # e => Ended[k] = data[k]
         /\ Nul(line_start) = e
<1>1. Ended = [data EXCEPT ![e] = "NUL"] BY DEF Ended
<1>2. /\ Ended \in [0 .. BUFSIZE -> Chars] /\ Ended[e] = "NUL"
      /\ \A k \in 0 .. BUFSIZE : k # e => Ended[k] = data[k]
  BY <1>1 DEF Chars
<1>3. \A k \in line_start .. e - 1 : Ended[k] # "NUL" BY <1>2
<1>4. \A x \in line_start .. BUFSIZE :
        Ended[x] = "NUL" /\ (\A k \in line_start .. x - 1 : Ended[k] # "NUL") => x = e
  BY <1>2, <1>3
<1>5. Nul(line_start) = e BY <1>2, <1>3, <1>4 DEF Nul
<1> QED BY <1>2, <1>5

\* The types that the steps of grep need.
LEMMA GrepFacts ==
  ASSUME GrepInv
  PROVE  /\ BUFSIZE \in Nat \ {0} /\ last \in Nat /\ last <= BUFSIZE /\ line_start \in Nat
         /\ got \in Seq(Chars) /\ Len(got) \in Nat /\ inode_length \in Nat
         /\ gpc = "line" => line_start <= last
  BY GrepAssumption, Facts, LenProperties DEF GrepInv, BufferInv, GotInv, IInv, TypeOK

\* grep takes what read returned.
LEMMA GotPrints ==
  ASSUME GrepInv, PrintInv, GrepGot
  PROVE  PrintInv'
<1> SUFFICES ASSUME garbage' # "NL", TextFits(got') PROVE \E P \in 0 .. Len(got') : Printing(P)'
  BY DEF PrintInv
<1>f. /\ BUFSIZE \in Nat \ {0} /\ last \in Nat /\ last <= BUFSIZE
      /\ got \in Seq(Chars) /\ Len(got) \in Nat /\ inode_length \in Nat
  BY GrepFacts
<1>1. /\ pc = "done" /\ result # -1 /\ gpc' = "line" /\ last' = last + result /\ line_start' = 0
      /\ UNCHANGED <<inode_length, garbage, printed>> /\ reader = "grep"
  BY DEF GrepGot, Consume, image
<1>2. /\ gpc = "read" /\ last < BUFSIZE /\ length = BUFSIZE - last /\ result <= length
      /\ file_position = Len(got) + result /\ file_position <= inode_length
      /\ result = length \/ file_position = inode_length
  BY <1>1 DEF GrepInv, BufferInv, AskedInv, GotInv, IInv, Returned
<1>r. result \in Nat BY <1>1 DEF GrepInv, IInv, TypeOK, Lengths
<1>3. PICK bytes \in [1 .. result -> Chars] :
        /\ data' = [k \in 0 .. BUFSIZE |->
                      IF k - last + 1 \in 1 .. result THEN bytes[k - last + 1] ELSE data[k]]
        /\ got' = got \o bytes
  BY DEF GrepGot
<1>4. bytes \in Seq(Chars) /\ Len(bytes) = result
  <2>1. bytes \in Seq(Chars) BY <1>3, <1>r, SeqDef
  <2>2. Len(bytes) \in Nat /\ 1 .. Len(bytes) = 1 .. result BY <1>3, <2>1, LenProperties
  <2> QED BY <1>r, <2>1, <2>2
<1> DEFINE t == got
           u == got \o bytes
<1>5. /\ u \in Seq(Chars) /\ Len(u) = Len(t) + result
      /\ \A j \in 1 .. Len(t) + result : u[j] = IF j <= Len(t) THEN t[j] ELSE bytes[j - Len(t)]
  BY <1>4, <1>f, ConcatProperties
<1>6. Grown(t, u) BY <1>5, <1>f, <1>r DEF Grown
<1>7. TextFits(u) BY <1>3
<1>8. TextFits(t) BY <1>6, <1>7, PrefixFits
<1>9. PICK P \in 0 .. Len(t) : Printing(P) BY <1>8, <1>1 DEF PrintInv
<1>10. /\ Len(t) = P + (last - 0) /\ \A k \in 0 .. last - 1 : data[k] = t[P + k - 0 + 1]
       /\ Fresh(P) \/ (last = 0 /\ (P = inode_length \/ FullLine))
       /\ data \in [0 .. BUFSIZE -> Chars] /\ data[BUFSIZE] # "NL"
  BY <1>9, <1>2 DEF Printing, Rest
<1>11. \/ P = 0 \/ t[P] = "NL" \/ (last = 0 /\ (Len(u) = Len(t) \/ u[Len(t) + 1] = "NL"))
  <2>1. CASE Fresh(P) BY <2>1 DEF Fresh
  <2>2. CASE last = 0 /\ P = inode_length
    <3>1. Len(t) = inode_length BY <2>2, <1>10, <1>f
    <3>2. result = 0 BY <3>1, <1>2, <1>f, <1>r
    <3> QED BY <2>2, <3>2, <1>5, <1>f
  <2>3. CASE last = 0 /\ FullLine
    <3>1. CASE result = 0 BY <2>3, <3>1, <1>5, <1>f
    <3>2. CASE result # 0
      <4>1. Len(t) < Len(u) BY <3>2, <1>5, <1>f, <1>r
      <4>2. PICK s \in Starts(t) : s = Len(t) - BUFSIZE + 1 /\ \A j \in s .. Len(t) : t[j] # "NL"
        BY <2>3 DEF FullLine
      <4> QED BY <2>3, <4>1, <4>2, <1>6, <1>7, FullLineEnds
    <3> QED BY <3>1, <3>2
  <2> QED BY <2>1, <2>2, <2>3, <1>10
<1>12. PICK f : FoundUpTo(f, t, P) /\ f[P] = printed BY <1>9 DEF Printing, Found
<1>13. FoundUpTo(f, u, P) BY <1>6, <1>11, <1>12, SameFound
<1>14. Found(P)' BY <1>13, <1>12, <1>1, <1>3 DEF Found
<1>15. P \in 0 .. Len(u) /\ P \in Nat BY <1>5, <1>f, <1>r
<1>16. /\ data' \in [0 .. BUFSIZE -> Chars]
       /\ \A k \in 0 .. BUFSIZE :
            data'[k] = IF k - last + 1 \in 1 .. result THEN bytes[k - last + 1] ELSE data[k]
  <2>1. \A k \in 0 .. BUFSIZE :
          (IF k - last + 1 \in 1 .. result THEN bytes[k - last + 1] ELSE data[k]) \in Chars
    BY <1>3, <1>10
  <2> QED BY <2>1, <1>3
<1>17. data'[BUFSIZE] # "NL"
  <2>1. ~(BUFSIZE - last + 1 \in 1 .. result) BY <1>2, <1>f, <1>r
  <2> QED BY <2>1, <1>16, <1>10, <1>f
<1>18. /\ Len(u) = P + ((last + result) - 0)
       /\ \A k \in 0 .. (last + result) - 1 : data'[k] = u[P + k - 0 + 1]
  <2>1. Len(u) = P + ((last + result) - 0) BY <1>5, <1>10, <1>15, <1>f, <1>r
  <2>2. ASSUME NEW k \in 0 .. (last + result) - 1 PROVE data'[k] = u[P + k - 0 + 1]
    <3>1. k \in 0 .. BUFSIZE BY <1>2, <1>f, <1>r
    <3>2. P + k - 0 + 1 \in 1 .. Len(t) + result BY <2>1, <1>5, <1>15, <1>f, <1>r
    <3>3. CASE k < last
      <4>1. data'[k] = data[k] BY <3>1, <3>3, <1>16, <1>f, <1>r
      <4>2. data[k] = t[P + k - 0 + 1] BY <3>3, <1>10, <1>f
      <4>3. P + k - 0 + 1 <= Len(t) BY <3>3, <1>10, <1>15, <1>f
      <4> QED BY <4>1, <4>2, <4>3, <3>2, <1>5
    <3>4. CASE k >= last
      <4>1. data'[k] = bytes[k - last + 1] BY <3>1, <3>4, <1>16, <1>f, <1>r
      <4>2. P + k - 0 + 1 > Len(t) /\ (P + k - 0 + 1) - Len(t) = k - last + 1
        BY <3>4, <1>10, <1>15, <1>f
      <4> QED BY <4>1, <4>2, <3>2, <1>5, <1>f
    <3>5. k < last \/ k >= last BY <3>1, <1>f
    <3> QED BY <3>3, <3>4, <3>5
  <2> QED BY <2>1, <2>2
<1>19. Rest(P, line_start)' BY <1>18, <1>1, <1>3 DEF Rest
<1>20. last' < BUFSIZE => Len(got') = inode_length'
  BY <1>1, <1>2, <1>3, <1>5, <1>f, <1>r
<1>21. Fresh(P)' \/ (line_start' = 0 /\ (P = Len(got') \/ got'[P + 1] = "NL"))
  <2>1. CASE P = 0 BY <2>1 DEF Fresh
  <2>2. CASE P # 0 /\ t[P] = "NL"
    <3>1. u[P] = "NL" BY <2>2, <1>15, <1>6, <1>9, <1>f DEF Grown
    <3> QED BY <3>1, <1>3 DEF Fresh
  <2>3. CASE last = 0 /\ (Len(u) = Len(t) \/ u[Len(t) + 1] = "NL")
    <3>1. P = Len(t) BY <2>3, <1>10, <1>15, <1>f
    <3> QED BY <2>3, <3>1, <1>1, <1>3
  <2> QED BY <2>1, <2>2, <2>3, <1>11
<1>22. Printing(P)' BY <1>14, <1>16, <1>17, <1>19, <1>20, <1>21, <1>1 DEF Printing
<1> QED BY <1>15, <1>22, <1>3

\* grep moves the rest of a line to the begin of the buffer.
LEMMA MovePrints ==
  ASSUME GrepInv, PrintInv, GrepMove
  PROVE  PrintInv'
<1> SUFFICES ASSUME garbage' # "NL", TextFits(got') PROVE \E P \in 0 .. Len(got') : Printing(P)'
  BY DEF PrintInv
<1>f. /\ BUFSIZE \in Nat \ {0} /\ last \in Nat /\ last <= BUFSIZE /\ line_start \in Nat
      /\ got \in Seq(Chars) /\ Len(got) \in Nat /\ inode_length \in Nat
      /\ gpc = "line" => line_start <= last
  BY GrepFacts
<1>0. PICK e : e = line_end OBVIOUS
<1>1. /\ gpc = "line" /\ gpc' = "read" /\ last' = last - line_start /\ line_start # 0
      /\ data[e] # "NL"
      /\ data' = [k \in 0 .. BUFSIZE |->
                    IF k <= Nul(line_start) - line_start THEN Ended[k + line_start] ELSE Ended[k]]
      /\ UNCHANGED <<inode_length, garbage, got, printed>>
  BY <1>0 DEF GrepMove, Partial, MovedDown, vars, image
<1>2. e = last /\ line_start < last
  <2>1. line_start < last BY <1>1, <1>f DEF GrepInv, BufferInv
  <2> QED BY <2>1, <1>0, <1>1, <1>f, LineEnds
<1>3. PICK P \in 0 .. Len(got) : Printing(P) BY <1>1 DEF PrintInv
<1>4. /\ Found(P) /\ data \in [0 .. BUFSIZE -> Chars] /\ data[BUFSIZE] # "NL"
      /\ Len(got) = P + (last - line_start)
      /\ \A k \in line_start .. last - 1 : data[k] = got[P + k - line_start + 1]
      /\ Fresh(P)
  BY <1>1, <1>3 DEF Printing, Rest
<1>5. \A k \in line_start .. e - 1 : data[k] # "NUL"
  <2> SUFFICES ASSUME NEW k \in line_start .. e - 1 PROVE data[k] # "NUL" OBVIOUS
  <2>1. P + k - line_start + 1 \in 1 .. Len(got) BY <1>2, <1>4, <1>f, <1>3
  <2> QED BY <2>1, <1>1, <1>2, <1>4 DEF TextFits
<1>6. /\ Ended \in [0 .. BUFSIZE -> Chars] /\ Ended[e] = "NUL"
      /\ \A k \in 0 .. BUFSIZE : k # e => Ended[k] = data[k]
      /\ Nul(line_start) = e
  BY <1>0, <1>2, <1>4, <1>5, <1>f, EndedIs
<1>7. /\ data' \in [0 .. BUFSIZE -> Chars]
      /\ \A k \in 0 .. BUFSIZE :
           data'[k] = IF k <= e - line_start THEN Ended[k + line_start] ELSE Ended[k]
  <2>1. \A k \in 0 .. BUFSIZE :
          (IF k <= e - line_start THEN Ended[k + line_start] ELSE Ended[k]) \in Chars
    BY <1>6, <1>2, <1>f
  <2> QED BY <2>1, <1>1, <1>6
<1>8. data'[BUFSIZE] # "NL"
  <2>1. data'[BUFSIZE] = Ended[BUFSIZE] BY <1>7, <1>1, <1>2, <1>f
  <2> QED BY <2>1, <1>6, <1>4, <1>f
<1>9. ASSUME NEW k \in 0 .. (last - line_start) - 1 PROVE data'[k] = got[P + k - 0 + 1]
  <2>1. k \in 0 .. BUFSIZE /\ k <= e - line_start /\ k + line_start \in line_start .. last - 1
    BY <1>2, <1>f
  <2>2. data'[k] = data[k + line_start] BY <2>1, <1>6, <1>7, <1>2, <1>f
  <2>3. P + (k + line_start) - line_start + 1 = P + k - 0 + 1 BY <1>f, <1>3
  <2>4. data[k + line_start] = got[P + (k + line_start) - line_start + 1] BY <2>1, <1>4
  <2> QED BY <2>2, <2>3, <2>4
<1>10. Rest(P, 0)'
  <2>1. Len(got) = P + ((last - line_start) - 0) BY <1>4, <1>f
  <2> QED BY <2>1, <1>9, <1>1 DEF Rest
<1>11. Found(P)' /\ Fresh(P)' BY <1>1, <1>4 DEF Found, Fresh
<1>12. Printing(P)' BY <1>7, <1>8, <1>10, <1>11, <1>1 DEF Printing
<1> QED BY <1>3, <1>12, <1>1

\* grep deals with a line.
LEMMA LinePrints ==
  ASSUME GrepInv, PrintInv, GrepLine
  PROVE  PrintInv'
<1> SUFFICES ASSUME garbage' # "NL", TextFits(got') PROVE \E P \in 0 .. Len(got') : Printing(P)'
  BY DEF PrintInv
<1>f. /\ BUFSIZE \in Nat \ {0} /\ last \in Nat /\ last <= BUFSIZE /\ line_start \in Nat
      /\ got \in Seq(Chars) /\ Len(got) \in Nat /\ inode_length \in Nat
      /\ gpc = "line" => line_start <= last
  BY GrepFacts
<1>0. PICK e, a : e = line_end /\ a = line_start OBVIOUS
<1>1. /\ gpc = "line" /\ ~(data[e] # "NL" /\ cnt # 0 /\ a # 0)
      /\ printed' = IF \E check \in a .. e - 1 : data[check] = "s"
                      THEN Append(printed, [k \in 1 .. Nul(line_start) - a |-> data[a + k - 1]])
                      ELSE printed
      /\ data' = Ended /\ line_start' = e + 1
      /\ \/ e + 1 < last /\ last' = last /\ gpc' = gpc
         \/ e + 1 >= last /\ last' = 0 /\ gpc' = IF cnt = 0 THEN "closed" ELSE "read"
      /\ UNCHANGED <<inode_length, garbage, got>>
  BY <1>0 DEF GrepLine, Partial, vars, image
<1>2. /\ a \in Nat /\ a <= last /\ e \in a .. last /\ (e = last \/ data[e] = "NL")
      /\ \A k \in a .. e - 1 : data[k] # "NL"
  BY <1>0, <1>1, <1>f, LineEnds
<1>3. PICK P \in 0 .. Len(got) : Printing(P) BY <1>1 DEF PrintInv
<1>4. /\ Found(P) /\ data \in [0 .. BUFSIZE -> Chars] /\ data[BUFSIZE] # "NL"
      /\ Len(got) = P + (last - a)
      /\ \A k \in a .. last - 1 : data[k] = got[P + k - a + 1]
      /\ last < BUFSIZE => Len(got) = inode_length
      /\ Fresh(P) \/ (a = 0 /\ (P = Len(got) \/ got[P + 1] = "NL"))
  BY <1>0, <1>1, <1>3 DEF Printing, Rest
<1>5. \A k \in a .. e - 1 : data[k] # "NUL"
  <2> SUFFICES ASSUME NEW k \in a .. e - 1 PROVE data[k] # "NUL" OBVIOUS
  <2>1. P + k - a + 1 \in 1 .. Len(got) /\ k \in a .. last - 1 BY <1>2, <1>4, <1>f, <1>3
  <2> QED BY <2>1, <1>1, <1>4 DEF TextFits
<1>6. /\ Ended \in [0 .. BUFSIZE -> Chars] /\ Ended[e] = "NUL"
      /\ \A k \in 0 .. BUFSIZE : k # e => Ended[k] = data[k]
      /\ Nul(line_start) = e
  <2>1. e \in line_start .. BUFSIZE BY <1>0, <1>2, <1>f
  <2> QED BY <2>1, <1>0, <1>4, <1>5, <1>f, EndedIs
<1>p. P \in Nat /\ e \in Nat /\ P + e - a + 1 \in Nat BY <1>2, <1>3, <1>f
<1> DEFINE Q == IF e < last THEN P + e - a + 1 ELSE Len(got)
<1>7. Q \in 0 .. Len(got) /\ P <= Q BY <1>2, <1>4, <1>f, <1>p
<1>8. ~Fresh(P) /\ P < Len(got) => e = 0 /\ a = 0 /\ e < last
  <2> SUFFICES ASSUME ~Fresh(P), P < Len(got) PROVE e = 0 /\ a = 0 /\ e < last OBVIOUS
  <2>1. a = 0 /\ got[P + 1] = "NL" /\ 0 < last BY <1>4, <1>f, <1>p
  <2>2. data[0] = "NL"
    <3>1. 0 \in a .. last - 1 /\ P + 0 - a + 1 = P + 1 BY <2>1, <1>f, <1>p
    <3> QED BY <2>1, <3>1, <1>4
  <2> QED BY <2>1, <2>2, <1>2, <1>f, <1>p
<1>9. PICK f : FoundUpTo(f, got, P) /\ f[P] = printed BY <1>4 DEF Found
<1>10. \E h : FoundUpTo(h, got, Q) /\ h[Q] = printed'
  <2>1. CASE P = Len(got)
    <3>1. e = a /\ e = last BY <2>1, <1>2, <1>4, <1>f, <1>p
    <3>2. Q = P /\ printed' = printed
      <4>1. ~\E check \in a .. e - 1 : data[check] = "s" BY <3>1, <1>p
      <4>2. Q = P BY <2>1, <3>1, <1>f
      <4> QED BY <4>1, <4>2, <1>1
    <3> QED BY <3>2, <1>9
  <2>2. CASE P < Len(got) /\ Fresh(P)
    <3> DEFINE E == P + 1 + (e - a)
               L == LineAt(got, P + 1)
               line == [k \in 1 .. e - a |-> data[a + k - 1]]
    <3>1. E \in P + 1 .. Len(got) + 1 BY <1>2, <1>4, <1>f, <1>p
    <3>2. \A j \in P + 1 .. E - 1 : got[j] # "NL"
      <4> SUFFICES ASSUME NEW j \in P + 1 .. E - 1 PROVE got[j] # "NL" OBVIOUS
      <4>1. a + (j - P - 1) \in a .. e - 1 /\ a + (j - P - 1) \in a .. last - 1
            /\ P + (a + (j - P - 1)) - a + 1 = j
        BY <3>1, <1>2, <1>f, <1>p
      <4> QED BY <4>1, <1>2, <1>4
    <3>3. E = Len(got) + 1 \/ got[E] = "NL"
      <4>1. CASE e = last BY <4>1, <1>2, <1>4, <1>f, <1>p
      <4>2. CASE e # last
        <5>1. e \in a .. last - 1 /\ P + e - a + 1 = E BY <4>2, <1>2, <1>f, <1>p
        <5> QED BY <5>1, <4>2, <1>2, <1>4
      <4> QED BY <4>1, <4>2
    <3>4. EndOf(got, P + 1, E) BY <3>1, <3>2, <3>3 DEF EndOf
    <3>5. P + 1 \in 1 .. Len(got) + 1 BY <2>2, <1>p, <1>f
    <3>6. /\ L \in Seq(Chars) /\ Len(L) = E - (P + 1)
          /\ \A j \in 1 .. E - (P + 1) : L[j] = got[P + 1 + j - 1]
      BY <3>4, <3>5, <1>f, LineIs
    <3>7. E - (P + 1) = e - a /\ e - a \in Nat BY <1>2, <1>p
    <3>8. \A j \in 1 .. e - a : /\ a + j - 1 \in a .. e - 1 /\ a + j - 1 \in a .. last - 1
                               /\ a + j - 1 \in 0 .. BUFSIZE
                               /\ P + (a + j - 1) - a + 1 = P + 1 + j - 1
      BY <1>2, <1>p, <1>f
    <3>9. \A j \in 1 .. e - a : data[a + j - 1] = L[j] /\ data[a + j - 1] \in Chars
      BY <3>6, <3>7, <3>8, <1>4
    <3>10. line \in Seq(Chars) /\ Len(line) = e - a /\ \A j \in 1 .. e - a : line[j] = L[j]
      <4>1. line \in [1 .. e - a -> Chars] BY <3>9
      <4>2. line \in Seq(Chars) BY <4>1, <3>7, SeqDef
      <4>3. Len(line) \in Nat /\ 1 .. Len(line) = 1 .. e - a BY <4>1, <4>2, LenProperties
      <4>4. Len(line) = e - a BY <4>3, <3>7
      <4> QED BY <4>2, <4>4, <3>9
    <3>11. line = L BY <3>6, <3>7, <3>10, SeqEqual
    <3>12. HasPattern(L) <=> \E check \in a .. e - 1 : data[check] = "s"
      <4>1. ASSUME NEW k \in 1 .. Len(L), L[k] = "s"
            PROVE  \E check \in a .. e - 1 : data[check] = "s"
        BY <4>1, <3>6, <3>7, <3>8, <3>9
      <4>2. ASSUME NEW c \in a .. e - 1, data[c] = "s" PROVE \E k \in 1 .. Len(L) : L[k] = "s"
        <5>1. c - a + 1 \in 1 .. e - a /\ a + (c - a + 1) - 1 = c BY <1>2, <1>p
        <5> QED BY <4>2, <5>1, <3>6, <3>7, <3>9
      <4> QED BY <4>1, <4>2 DEF HasPattern
    <3>13. printed' = WithLine(f[P], got, P + 1)
      <4>1. P + 1 \in Starts(got) BY <2>2, <1>p, <1>f DEF Starts, Fresh
      <4>2. printed' = IF HasPattern(L) THEN Append(f[P], L) ELSE f[P]
        BY <3>11, <3>12, <1>1, <1>6, <1>9
      <4> QED BY <4>1, <4>2 DEF WithLine
    <3>14. Q \in P + 1 .. Len(got) /\ Q <= E BY <2>2, <1>2, <1>4, <1>7, <1>f, <1>p
    <3>16. PICK x, y, r : x = E /\ y = Q /\ r = printed' OBVIOUS
    <3>17. /\ EndOf(got, P + 1, x) /\ y \in P + 1 .. Len(got) /\ y <= x
           /\ r = WithLine(f[P], got, P + 1)
      BY <3>4, <3>13, <3>14, <3>16
    <3> HIDE DEF Q, E, L, line
    <3>18. got \in Seq(Chars) /\ P \in 0 .. Len(got) /\ FoundUpTo(f, got, P) BY <1>f, <1>9, <1>3
    <3>19. \E h : FoundUpTo(h, got, y) /\ h[y] = r BY <3>17, <3>18, FoundLine
    <3> QED BY <3>16, <3>19
  <2>3. CASE P < Len(got) /\ ~Fresh(P)
    <3>1. e = 0 /\ a = 0 /\ e < last BY <2>3, <1>8
    <3>2. Q = P + 1 BY <3>1, <1>p
    <3>3. printed' = printed
      <4>1. ~\E check \in a .. e - 1 : data[check] = "s" BY <3>1
      <4> QED BY <4>1, <1>1
    <3>4. P # 0 /\ got[P] # "NL" BY <2>3 DEF Fresh
    <3> QED BY <2>3, <3>2, <3>3, <3>4, <1>3, <1>9, <1>f, FoundNewline
  <2> QED BY <2>1, <2>2, <2>3, <1>3, <1>f
<1>11. data' \in [0 .. BUFSIZE -> Chars] /\ data'[BUFSIZE] # "NL"
  BY <1>1, <1>4, <1>6, <1>f
<1>12. e < last => Q = P + e - a + 1 /\ got[Q] = "NL"
  <2> SUFFICES ASSUME e < last PROVE Q = P + e - a + 1 /\ got[Q] = "NL" OBVIOUS
  <2>1. e \in a .. last - 1 BY <1>2, <1>p, <1>f
  <2>2. Q = P + e - a + 1 BY <1>p
  <2> QED BY <2>1, <2>2, <1>2, <1>4, <1>p, <1>f
<1>q. PICK R : R = Q OBVIOUS
<1>13. Found(R)' BY <1>10, <1>1, <1>q DEF Found
<1>14. CASE e + 1 < last
  <2>1. e < last /\ gpc' = "line" /\ last' = last /\ line_start' = e + 1 BY <1>14, <1>1, <1>p, <1>f
  <2>2. R = P + e - a + 1 /\ got[R] = "NL" BY <2>1, <1>12, <1>q
  <2>3. Len(got) = R + (last - (e + 1)) BY <2>2, <1>4, <1>2, <1>p, <1>f
  <2>4. ASSUME NEW k \in e + 1 .. last - 1 PROVE Ended[k] = got[R + k - (e + 1) + 1]
    <3>1. k \in 0 .. BUFSIZE /\ k # e /\ k \in a .. last - 1 BY <1>2, <1>p, <1>f
    <3>2. R + k - (e + 1) + 1 = P + k - a + 1 BY <2>2, <3>1, <1>2, <1>p
    <3> QED BY <3>1, <3>2, <1>4, <1>6
  <2>5. Rest(R, line_start)' BY <2>1, <2>3, <2>4, <1>1 DEF Rest
  <2>6. Fresh(R)' BY <2>2, <1>1 DEF Fresh
  <2>7. Printing(R)' BY <2>1, <2>5, <2>6, <1>1, <1>4, <1>11, <1>13 DEF Printing
  <2> QED BY <2>7, <1>7, <1>1, <1>q
<1>15. CASE e + 1 >= last
  <2>1. last' = 0 /\ gpc' = IF cnt = 0 THEN "closed" ELSE "read" BY <1>15, <1>1, <1>p, <1>f
  <2>2. R = Len(got) BY <1>15, <1>q, <1>2, <1>4, <1>p, <1>f
  <2>3. Rest(R, 0)' BY <2>1, <2>2, <1>1, <1>f DEF Rest
  <2>4. cnt # 0 => Fresh(R)' \/ R = inode_length' \/ FullLine'
    <3> SUFFICES ASSUME cnt # 0 PROVE Fresh(R)' \/ R = inode_length' \/ FullLine' OBVIOUS
    <3>1. CASE e < last BY <3>1, <1>12, <1>q, <1>1 DEF Fresh
    <3>2. CASE last < BUFSIZE BY <3>2, <2>2, <1>4, <1>1
    <3>3. CASE e = last /\ last = BUFSIZE
      <4>1. data[e] # "NL" BY <3>3, <1>4
      <4>2. a = 0 BY <4>1, <1>1
      <4>3. Len(got) = P + BUFSIZE /\ P < Len(got) BY <3>3, <4>2, <1>4, <1>p, <1>f
      <4>4. Fresh(P) BY <4>3, <3>3, <1>8, <1>f
      <4>5. P + 1 \in Starts(got) BY <4>3, <4>4, <1>p, <1>f DEF Fresh, Starts
      <4>6. ASSUME NEW j \in P + 1 .. Len(got) PROVE got[j] # "NL"
        <5>1. j - P - 1 \in a .. e - 1 /\ j - P - 1 \in a .. last - 1 /\ P + (j - P - 1) - a + 1 = j
          BY <3>3, <4>2, <4>3, <1>p, <1>f
        <5> QED BY <5>1, <1>2, <1>4
      <4>7. P + 1 = Len(got) - BUFSIZE + 1 BY <4>3, <1>p, <1>f
      <4>8. FullLine BY <4>5, <4>6, <4>7 DEF FullLine
      <4> QED BY <4>8, <1>1 DEF FullLine
    <3> QED BY <3>1, <3>2, <3>3, <1>2, <1>p, <1>f
  <2>5. Printing(R)' BY <2>1, <2>2, <2>3, <2>4, <1>1, <1>11, <1>13 DEF Printing
  <2> QED BY <2>5, <1>7, <1>1, <1>q
<1> QED BY <1>14, <1>15, <1>p, <1>f

\* Every step keeps PrintInv.
LEMMA PrintInductive == GrepInv /\ PrintInv /\ [GrepNext]_gvars => PrintInv'
<1> SUFFICES ASSUME GrepInv, PrintInv, [GrepNext]_gvars PROVE PrintInv' OBVIOUS
<1>1. CASE GrepGot BY <1>1, GotPrints
<1>2. CASE GrepMove BY <1>2, MovePrints
<1>3. CASE GrepLine BY <1>3, LinePrints
<1>4. ASSUME UNCHANGED <<data, last, line_start, garbage, got, printed, inode_length>>,
             gpc' = gpc \/ gpc' = "failed"
      PROVE  PrintInv'
  <2> SUFFICES ASSUME garbage' # "NL", TextFits(got') PROVE \E P \in 0 .. Len(got') : Printing(P)'
    BY DEF PrintInv
  <2>1. PICK P \in 0 .. Len(got) : Printing(P) BY <1>4 DEF PrintInv
  <2>2. Printing(P)' BY <1>4, <2>1 DEF Printing, Found, Rest, Fresh, FullLine
  <2> QED BY <2>1, <2>2, <1>4
<1>5. CASE UNCHANGED gvars BY <1>4, <1>5 DEF gvars, vars, image, grep
<1>6. CASE Cat BY <1>4, <1>6 DEF Cat, Call, Consume, grep, image
<1>7. CASE KernelRead BY <1>4, <1>7, ReturnStep DEF KernelRead, GrepInv, grep, image
<1>8. CASE GrepRead BY <1>4, <1>8 DEF GrepRead, Call, grep, image
<1>9. CASE GrepReadFailed BY <1>4, <1>9 DEF GrepReadFailed, Consume, grep, image
<1> QED BY <1>1, <1>2, <1>3, <1>5, <1>6, <1>7, <1>8, <1>9 DEF GrepNext

\* Found to the end of the text, the lines are those that Matches names.
LEMMA AllFound ==
  ASSUME NEW t \in Seq(Chars), NEW f, FoundUpTo(f, t, Len(t))
  PROVE  f[Len(t)] = Matches(t)
<1>n. PICK n \in Nat : n = Len(t) BY LenProperties
<1> DEFINE F(u) == u = [k \in 0 .. n |-> IF k = 0 THEN <<>> ELSE WithLine(u[k - 1], t, k)]
<1>1. PICK w : w = [k \in 0 .. n |-> f[k]] OBVIOUS
<1>2. F(w)
  <2>1. \A k \in 0 .. n : w[k] = IF k = 0 THEN <<>> ELSE WithLine(w[k - 1], t, k)
    BY <1>1, <1>n DEF FoundUpTo
  <2> QED BY <1>1, <2>1
<1>3. PICK v : v = CHOOSE u : F(u) OBVIOUS
<1>4. F(v) BY <1>2, <1>3
<1>5. Matches(t) = v[n] BY <1>3, <1>n DEF Matches
<1>6. v[n] = w[n]
  <2> DEFINE S == {k \in Nat : k <= n => v[k] = w[k]}
  <2>1. 0 \in S BY <1>2, <1>4
  <2>2. ASSUME NEW k \in Nat, k \in S PROVE k + 1 \in S
    <3> SUFFICES ASSUME k + 1 <= n PROVE v[k + 1] = w[k + 1] OBVIOUS
    <3>1. PICK y \in 0 .. n : y = k + 1 /\ y # 0 /\ y - 1 = k /\ k <= n OBVIOUS
    <3>2. v[y] = WithLine(v[y - 1], t, y) BY <1>4, <3>1
    <3>3. w[y] = WithLine(w[y - 1], t, y) BY <1>2, <3>1
    <3> QED BY <2>2, <3>1, <3>2, <3>3
  <2>3. \A k \in Nat : k \in S
    <3> HIDE DEF S
    <3> QED BY <2>1, <2>2, InductionBySet
  <2> QED BY <2>3
<1> QED BY <1>1, <1>5, <1>6, <1>n

\* grep prints the lines with the pattern, each once, whole and in order, for every size of
\* the buffer and of the blocks, every file and every text without NULs whose lines fit,
\* however read cuts it.
THEOREM GrepCorrect == GrepSpec => []GrepPrints
<1>1. GrepInit => PrintInv
  <2> SUFFICES ASSUME GrepInit, garbage # "NL" PROVE \E P \in 0 .. Len(got) : Printing(P)
    BY DEF PrintInv
  <2>1. /\ got = <<>> /\ printed = <<>> /\ gpc = "read" /\ last = 0 /\ garbage \in Chars
        /\ data = [k \in 0 .. BUFSIZE |-> garbage] /\ Len(got) = 0
    BY DEF GrepInit, Chars
  <2> DEFINE f == [k \in {0} |-> <<>>]
  <2>2. FoundUpTo(f, got, 0) /\ f[0] = printed BY <2>1 DEF FoundUpTo
  <2>3. Found(0) BY <2>2 DEF Found
  <2>4. Rest(0, 0) /\ Fresh(0) BY <2>1 DEF Rest, Fresh
  <2>5. data \in [0 .. BUFSIZE -> Chars] /\ data[BUFSIZE] # "NL" BY <2>1, GrepAssumption
  <2>6. Printing(0) BY <2>1, <2>3, <2>4, <2>5 DEF Printing
  <2> QED BY <2>1, <2>6
<1>2. GrepInv /\ PrintInv => GrepPrints
  <2> SUFFICES ASSUME GrepInv, PrintInv PROVE GrepPrints OBVIOUS
  <2>1. GrepReadsAll BY ReadsAll
  <2>2. ASSUME gpc = "closed", garbage # "NL", TextFits(got) PROVE printed = Matches(got)
    <3>1. PICK P \in 0 .. Len(got) : Printing(P) BY <2>2 DEF PrintInv
    <3>2. P = Len(got) /\ Found(P) BY <2>2, <3>1 DEF Printing
    <3>3. PICK f : FoundUpTo(f, got, Len(got)) /\ f[Len(got)] = printed BY <3>2 DEF Found
    <3> QED BY <3>3, AllFound, GrepFacts
  <2> QED BY <2>1, <2>2 DEF GrepPrints
<1> QED BY <1>1, <1>2, PrintInductive, GrepInvariant, PTL DEF GrepSpec
=============================================================================
