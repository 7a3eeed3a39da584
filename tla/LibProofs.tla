------------------------------ MODULE LibProofs ------------------------------
(***************************************************************************)
(* memcpy, memset and memmove for every memory, every length and every     *)
(* alignment: they leave what a loop over single bytes would leave.  The   *)
(* invariant says how far the loop is: the bytes behind the registers are  *)
(* final, the others are those of the call.                                *)
(*                                                                         *)
(* Then the string functions, for every string: the copies, the order, the *)
(* reverse and the numeral, and that nothing outside the destination is    *)
(* ever written.  What the recursive definitions compute is shown by       *)
(* induction over sets of natural numbers (InductionBySet).                *)
(***************************************************************************)
EXTENDS Lib, WellFoundedInduction, TLAPS

MemoryFns == {"memcpy", "memmove", "memset"}

StringPCs == {"strcpy", "strncpy", "pad", "strncmp", "strrev", "itoa"}

Dest == call.dest
Src  == call.src
N    == call.n

\* the ranges of the call lie in memory
InMemory == Dest + N <= M /\ (call.fn # "memset" => Src + N <= M)

\* what the byte at address a of the destination is to become
Want(a) == IF call.fn = "memset" THEN call.c % 256 ELSE orig[Src + (a - Dest)]

\* the calls of which MemoryResult speaks
Good == call.fn = "memcpy" => Dest <= Src \/ Src + N <= Dest

\* the bytes lo .. hi - 1 of the destination are final, the others untouched
Filled(lo, hi) ==
  \A a \in Addr : mem[a] = IF Dest + lo <= a /\ a < Dest + hi THEN Want(a) ELSE orig[a]

\* going up: k bytes are done
Up(k) == k \in 0 .. N /\ edi = Dest + k /\ esi = Src + k /\ (Good => Filled(0, k))

\* going down: r bytes are left
Down(r) == r \in 0 .. N /\ edi = Dest + r - 1 /\ esi = Src + r - 1 /\ Filled(r, N)

Progress ==
  /\ pc = "top" => Up(N - ecx)
  /\ pc = "words" => ecx \in Nat /\ edx \in Nat /\ ~df /\ Up(N - 4 * ecx - edx)
  /\ pc = "bottom" => Up(N - edx)
  /\ pc = "bytes" => ecx \in 0 .. N /\ IF df THEN Src < Dest /\ Down(ecx)
                                       ELSE Dest <= Src /\ Up(N - ecx)
  /\ pc = "done" /\ Good => Filled(0, N)

Control ==
  /\ pc \in {"top", "words", "bottom"} => call.fn \in {"memcpy", "memset"}
  /\ pc = "bytes" => call.fn = "memmove"
  /\ pc \notin StringPCs
  /\ pc = "entry" => mem = orig

MemInv ==
  /\ mem \in [Addr -> Byte] /\ orig \in [Addr -> Byte]
  /\ call \in Calls
  /\ edi \in Int /\ esi \in Int /\ ecx \in Int /\ edx \in Int /\ df \in BOOLEAN
  /\ InMemory /\ Control /\ Progress

\* the invariant speaks of the calls of memory functions
IInv ==
  /\ call \in Calls
  /\ call.fn \in MemoryFns => MemInv
  /\ call.fn \notin MemoryFns => pc \in StringPCs \cup {"entry", "done"}

\* The arguments of a call.
LEMMA CallTyped ==
  ASSUME call \in Calls
  PROVE  Dest \in 0 .. M /\ Src \in 0 .. M /\ N \in 0 .. M
  BY DEF Calls, Dest, Src, N

-----------------------------------------------------------------------------
(* One step of a loop.                                                      *)

\* w bytes are moved upward: the source bytes that are still to be read have not been
\* overwritten, because the destination starts before the source or does not meet it.
LEMMA StepUp ==
  ASSUME MemInv, call.fn \in MemoryFns, NEW k \in Nat, NEW w \in 1 .. WORD, Up(k), k + w <= N,
         mem' = Stored(w), UNCHANGED <<call, orig>>,
         edi' = edi + w, esi' = esi + w,
         call.fn = "memmove" => Dest <= Src
  PROVE  Up(k + w)' /\ mem' \in [Addr -> Byte]
<1>1. /\ M \in Nat /\ Dest \in 0 .. M /\ Src \in 0 .. M /\ N \in 0 .. M
      /\ Dest + N <= M /\ (call.fn # "memset" => Src + N <= M)
      /\ call.c % 256 \in Byte
  <2>1. call.c \in Nat
    <3>1. Values \cup {0} \subseteq Nat BY ConstantsAssumption
    <3>2. call.c \in Values \cup {0} BY DEF MemInv, Calls
    <3> QED BY <3>1, <3>2
  <2>2. call.c % 256 \in Byte BY <2>1 DEF Byte
  <2> QED BY <2>2, ConstantsAssumption, CallTyped DEF MemInv, InMemory
<1>2. edi = Dest + k /\ esi = Src + k BY DEF Up
<1>3. ASSUME NEW a \in Addr
      PROVE  mem'[a] = IF edi <= a /\ a < edi + w THEN Fetched(a - edi) ELSE mem[a]
  BY DEF Stored
<1>4. ASSUME NEW a \in Addr, edi <= a, a < edi + w, call.fn # "memset"
      PROVE  /\ Src + (a - Dest) \in Addr
             /\ esi + (a - edi) = Src + (a - Dest)
             /\ Src + (a - Dest) >= Src + k /\ Src + (a - Dest) < Src + N
  BY <1>1, <1>2, <1>4 DEF Addr, WORD
<1>5. mem' \in [Addr -> Byte]
  <2>1. ASSUME NEW a \in Addr PROVE mem'[a] \in Byte
    BY <1>1, <1>3, <1>4, <2>1 DEF Fetched, MemInv
  <2>2. mem' = [a \in Addr |-> mem'[a]] BY DEF Stored
  <2> QED BY <2>1, <2>2
<1>6. ASSUME Good' PROVE Filled(0, k + w)'
  <2>0. Good BY <1>6 DEF Good, Dest, Src, N
  <2>1. Filled(0, k) BY <2>0 DEF Up
  <2>2. SUFFICES ASSUME NEW a \in Addr
        PROVE mem'[a] = IF Dest <= a /\ a < Dest + (k + w) THEN Want(a) ELSE orig[a]
    BY <1>1 DEF Filled, Want, Dest, Src
  <2>3. CASE edi <= a /\ a < edi + w /\ call.fn = "memset"
    BY <1>1, <1>2, <1>3, <2>3 DEF Fetched, Want, Addr
  <2>4. CASE edi <= a /\ a < edi + w /\ call.fn # "memset"
    <3> DEFINE b == Src + (a - Dest)
    <3>1. b \in Addr /\ b >= Src + k /\ b < Src + N BY <1>4, <2>4
    <3>2. Dest <= Src \/ Src + N <= Dest
      BY <2>0, <2>4 DEF Good, MemoryFns
    <3>3. mem[b] = orig[b]
      BY <1>1, <2>1, <3>1, <3>2 DEF Filled, Addr
    <3>4. mem'[a] = mem[b] BY <1>3, <1>4, <2>4 DEF Fetched
    <3> QED BY <1>1, <1>2, <2>4, <3>3, <3>4 DEF Want, Addr
  <2>5. CASE ~(edi <= a /\ a < edi + w)
    <3>1. mem'[a] = mem[a] BY <1>3, <2>5
    <3>2. Dest <= a /\ a < Dest + (k + w) <=> Dest <= a /\ a < Dest + k
      BY <1>1, <1>2, <2>5 DEF Addr, WORD
    <3>3. mem[a] = IF Dest + 0 <= a /\ a < Dest + k THEN Want(a) ELSE orig[a]
      BY <2>1 DEF Filled
    <3> QED BY <1>1, <3>1, <3>2, <3>3
  <2> QED BY <2>3, <2>4, <2>5
<1>7. /\ (k + w) \in 0 .. N /\ edi + w = Dest + (k + w) /\ esi + w = Src + (k + w)
  BY <1>1, <1>2 DEF WORD
<1>8. Dest' = Dest /\ Src' = Src /\ N' = N BY DEF Dest, Src, N
<1> QED BY <1>5, <1>6, <1>7, <1>8 DEF Up

\* A byte is moved downward: its source lies below the bytes that are done.
LEMMA StepDown ==
  ASSUME MemInv, NEW r \in 1 .. N, Down(r), Src < Dest, call.fn = "memmove",
         mem' = Stored(1), UNCHANGED <<call, orig>>,
         edi' = edi - 1, esi' = esi - 1
  PROVE  Down(r - 1)' /\ mem' \in [Addr -> Byte]
<1>1. /\ M \in Nat /\ Dest \in 0 .. M /\ Src \in 0 .. M /\ N \in 0 .. M
      /\ Dest + N <= M /\ Src + N <= M
  BY ConstantsAssumption, CallTyped DEF MemInv, InMemory
<1>2. edi = Dest + r - 1 /\ esi = Src + r - 1 /\ Filled(r, N) BY DEF Down
<1>3. ASSUME NEW a \in Addr
      PROVE  mem'[a] = IF a = edi THEN mem[esi] ELSE mem[a]
  <2>1. mem'[a] = IF edi <= a /\ a < edi + 1 THEN Fetched(a - edi) ELSE mem[a] BY DEF Stored
  <2>2. edi <= a /\ a < edi + 1 <=> a = edi BY <1>1, <1>2 DEF Addr
  <2>3. a = edi => Fetched(a - edi) = mem[esi] BY <1>1, <1>2 DEF Fetched
  <2> QED BY <2>1, <2>2, <2>3
<1>4. esi \in Addr /\ esi < Dest + r BY <1>1, <1>2 DEF Addr
<1>5. mem[esi] = orig[esi] BY <1>1, <1>2, <1>4 DEF Filled, Addr
<1>6. mem' \in [Addr -> Byte]
  <2>1. ASSUME NEW a \in Addr PROVE mem'[a] \in Byte BY <1>3, <1>4 DEF MemInv
  <2>2. mem' = [a \in Addr |-> mem'[a]] BY DEF Stored
  <2> QED BY <2>1, <2>2
<1>7. ASSUME NEW a \in Addr
      PROVE mem'[a] = IF Dest + (r - 1) <= a /\ a < Dest + N THEN Want(a) ELSE orig[a]
  <2>1. CASE a = edi
    <3>1. Want(a) = orig[Src + (a - Dest)] BY DEF Want
    <3>2. Src + (a - Dest) = esi BY <1>1, <1>2, <2>1
    <3>3. Dest + (r - 1) <= a /\ a < Dest + N BY <1>1, <1>2, <2>1
    <3> QED BY <1>3, <1>5, <2>1, <3>1, <3>2, <3>3
  <2>2. CASE a # edi
    <3>1. Dest + (r - 1) <= a <=> Dest + r <= a BY <1>1, <1>2, <2>2 DEF Addr
    <3> QED BY <1>2, <1>3, <2>2, <3>1 DEF Filled
  <2> QED BY <2>1, <2>2
<1>8. Dest' = Dest /\ Src' = Src /\ N' = N /\ \A a : Want(a)' = Want(a)
  BY DEF Dest, Src, N, Want
<1>9. Filled(r - 1, N)' BY <1>7, <1>8 DEF Filled
<1>10. (r - 1) \in 0 .. N /\ edi - 1 = Dest + (r - 1) - 1 /\ esi - 1 = Src + (r - 1) - 1
  BY <1>1, <1>2
<1> QED BY <1>6, <1>8, <1>9, <1>10 DEF Down

-----------------------------------------------------------------------------
(* The invariant.                                                           *)

\* A call begins with IInv.
LEMMA InitIInv == Init => IInv
<1> SUFFICES ASSUME Init PROVE IInv OBVIOUS
<1>1. call \in Calls /\ Allowed(mem, call) /\ pc = "entry" BY DEF Init
<1>2. mem \in [Addr -> Byte] /\ orig = mem BY ConstantsAssumption DEF Init
<1>3. ASSUME call.fn \in MemoryFns PROVE InMemory
  BY <1>1, <1>3 DEF Allowed, MemoryFns, InMemory, Fits, Dest, Src, N
<1>4. Control /\ Progress BY <1>1, <1>2 DEF Control, Progress, StringPCs
<1>5. edi \in Int /\ esi \in Int /\ ecx \in Int /\ edx \in Int /\ df \in BOOLEAN BY DEF Init
<1> QED BY <1>1, <1>2, <1>3, <1>4, <1>5 DEF IInv, MemInv

\* What the steps of the memory functions leave alone.
LEMMA KeptByStep ==
  ASSUME UNCHANGED <<call, orig>>
  PROVE  /\ Dest' = Dest /\ Src' = Src /\ N' = N
         /\ InMemory' <=> InMemory
         /\ Good' <=> Good
         /\ \A a : Want(a)' = Want(a)
  BY DEF Dest, Src, N, InMemory, Good, Want

\* Bytes that have been written stay when memory does.
LEMMA FilledKept ==
  ASSUME UNCHANGED <<mem, call, orig>>, NEW lo, NEW hi, Filled(lo, hi)
  PROVE  Filled(lo, hi)'
  BY DEF Filled, Want, Dest, Src

\* And so does the progress of a loop, when its registers stay.
LEMMA UpKept ==
  ASSUME UNCHANGED <<mem, call, orig, edi, esi>>, NEW k, Up(k)
  PROVE  Up(k)'
<1>1. Dest' = Dest /\ Src' = Src /\ N' = N /\ (Good' <=> Good) BY KeptByStep
<1>2. CASE Good
  <2>1. Filled(0, k) BY <1>2 DEF Up
  <2>2. Filled(0, k)' BY <2>1, FilledKept
  <2> QED BY <1>1, <2>2 DEF Up
<1>3. CASE ~Good BY <1>1, <1>3 DEF Up
<1> QED BY <1>2, <1>3

\* At the end the whole range is final.
LEMMA DoneKept ==
  ASSUME UNCHANGED <<mem, call, orig>>, Good => Filled(0, N)
  PROVE  (Good => Filled(0, N))'
  BY DEF Filled, Want, Dest, Src, N, Good

\* Every instruction of memset, memcpy and memmove keeps MemInv.
LEMMA MemNext ==
  ASSUME MemInv, call.fn \in MemoryFns, [Next]_vars
  PROVE  MemInv' /\ call' = call
<1> USE DEF regs, locals
<1>t. /\ M \in Nat /\ Dest \in 0 .. M /\ Src \in 0 .. M /\ N \in 0 .. M
      /\ mem \in [Addr -> Byte] /\ orig \in [Addr -> Byte] /\ call \in Calls
      /\ edi \in Int /\ esi \in Int /\ ecx \in Int /\ edx \in Int /\ df \in BOOLEAN
      /\ InMemory /\ Control /\ Progress
  BY ConstantsAssumption, CallTyped DEF MemInv
<1>1. CASE Enter
  <2>1. /\ pc' = "top" /\ edi' = Dest /\ esi' = Src /\ ecx' = N
        /\ UNCHANGED <<mem, call, edx, df, orig>> /\ mem = orig
    BY <1>1, <1>t DEF Enter, MemoryFns, Control, Dest, Src, N
  <2>2. call.fn \in {"memcpy", "memset"} BY <1>1 DEF Enter, MemoryFns
  <2>3. Filled(0, 0)' BY <1>t, <2>1, KeptByStep DEF Filled, Addr
  <2>4. Up(N - ecx)'
    <3>1. N - N = 0 /\ 0 \in 0 .. N /\ Dest + 0 = Dest /\ Src + 0 = Src BY <1>t
    <3>2. N' - ecx' = 0 BY <2>1, <3>1, KeptByStep
    <3> QED BY <2>1, <2>3, <3>1, <3>2, KeptByStep DEF Up, Filled
  <2>5. Progress' BY <2>1, <2>4 DEF Progress
  <2>6. Control' BY <2>1, <2>2 DEF Control, StringPCs
  <2> QED BY <1>t, <2>1, <2>5, <2>6, KeptByStep DEF MemInv
<1>2. CASE TopDone
  <2>1. pc = "top" /\ ecx = 0 /\ pc' = "done" /\ UNCHANGED <<mem, call, edi, esi, ecx, edx, df, orig>>
    BY <1>2 DEF TopDone
  <2>2. Good => Filled(0, N)
    <3>1. N - 0 = N BY <1>t
    <3> QED BY <1>t, <2>1, <3>1 DEF Progress, Up
  <2>3. (Good => Filled(0, N))' BY <2>1, <2>2, DoneKept
  <2>4. Progress' /\ Control' BY <2>1, <2>3 DEF Progress, Control, StringPCs
  <2> QED BY <1>t, <2>1, <2>4, KeptByStep DEF MemInv
<1>3. CASE TopByte
  <2>1. /\ pc = "top" /\ ecx # 0 /\ pc' = pc /\ ecx' = ecx - 1 /\ mem' = Stored(1)
        /\ edi' = edi + 1 /\ esi' = esi + 1 /\ UNCHANGED <<call, edx, df, orig>>
    BY <1>3 DEF TopByte, Forward
  <2>2. PICK k \in Nat : k = N - ecx /\ Up(k) /\ k + 1 <= N
    <3>1. Up(N - ecx) BY <1>t, <2>1 DEF Progress
    <3>2. N - ecx \in 0 .. N BY <3>1 DEF Up
    <3> QED BY <1>t, <2>1, <3>1, <3>2
  <2>3. 1 \in 1 .. WORD /\ (call.fn = "memmove" => Dest <= Src)
    BY <1>t, <2>1 DEF WORD, Control
  <2>4. Up(k + 1)' /\ mem' \in [Addr -> Byte] BY <2>1, <2>2, <2>3, StepUp
  <2>5. N' - ecx' = k + 1 BY <1>t, <2>1, <2>2, KeptByStep
  <2>6. Up(N - ecx)' BY <2>4, <2>5 DEF Up, Filled
  <2>7. Progress' /\ Control' BY <1>t, <2>1, <2>6 DEF Progress, Control
  <2> QED BY <1>t, <2>1, <2>4, <2>7, KeptByStep DEF MemInv
<1>4. CASE Aligned
  <2>1. /\ pc = "top" /\ pc' = "words" /\ edx' = ecx % WORD /\ ecx' = ecx \div WORD
        /\ df' = FALSE /\ UNCHANGED <<mem, call, edi, esi, orig>>
    BY <1>4 DEF Aligned
  <2>2. PICK k \in 0 .. N : k = N - ecx /\ Up(k)
    <3>1. Up(N - ecx) BY <1>t, <2>1 DEF Progress
    <3>2. N - ecx \in 0 .. N BY <3>1 DEF Up
    <3> QED BY <3>1, <3>2
  <2>3. edx' \in Nat /\ ecx' \in Nat /\ ecx = 4 * ecx' + edx'
    <3>1. ecx \in Nat BY <1>t, <2>2
    <3> QED BY <2>1, <3>1 DEF WORD
  <2>4. Up(k)' BY <2>1, <2>2, UpKept
  <2>5. N' - 4 * ecx' - edx' = k BY <1>t, <2>1, <2>2, <2>3, KeptByStep
  <2>6. Up(N - 4 * ecx - edx)' BY <2>4, <2>5 DEF Up, Filled
  <2>7. Progress' /\ Control' BY <1>t, <2>1, <2>3, <2>6 DEF Progress, Control, StringPCs
  <2>8. df' \in BOOLEAN BY <2>1, Zenon
  <2>9. UNCHANGED <<mem, call, edi, esi, orig>> BY <2>1
  <2> QED BY <1>t, <2>3, <2>7, <2>8, <2>9, KeptByStep DEF MemInv
<1>5. CASE Words
  <2>1. pc = "words" /\ ecx # 0 BY <1>5 DEF Words
  <2>2. ecx \in Nat /\ edx \in Nat /\ ~df /\ Up(N - 4 * ecx - edx) BY <1>t, <2>1 DEF Progress
  <2>3. /\ pc' = pc /\ ecx' = ecx - 1 /\ mem' = Stored(WORD)
        /\ edi' = edi + WORD /\ esi' = esi + WORD /\ UNCHANGED <<call, edx, df, orig>>
    BY <1>5, <2>2 DEF Words
  <2>4. PICK k \in Nat : k = N - 4 * ecx - edx /\ Up(k) /\ k + WORD <= N
    <3>1. N - 4 * ecx - edx \in 0 .. N BY <2>2 DEF Up
    <3>2. (N - 4 * ecx - edx) + WORD <= N BY <1>t, <2>1, <2>2 DEF WORD
    <3> QED BY <2>2, <3>1, <3>2
  <2>5. WORD \in 1 .. WORD /\ (call.fn = "memmove" => Dest <= Src)
    BY <1>t, <2>1 DEF WORD, Control
  <2>6. Up(k + WORD)' /\ mem' \in [Addr -> Byte]
    BY <2>3, <2>4, <2>5, StepUp
  <2>7. N' - 4 * ecx' - edx' = k + WORD /\ ecx - 1 \in Nat
    BY <1>t, <2>1, <2>2, <2>3, <2>4, KeptByStep DEF WORD
  <2>8. Up(N - 4 * ecx - edx)' BY <2>6, <2>7 DEF Up, Filled
  <2>9. Progress' /\ Control' BY <1>t, <2>1, <2>2, <2>3, <2>7, <2>8 DEF Progress, Control
  <2> QED BY <1>t, <2>3, <2>6, <2>7, <2>9, KeptByStep DEF MemInv, WORD
<1>6. CASE WordsDone
  <2>1. pc = "words" /\ ecx = 0 /\ pc' = "bottom" /\ UNCHANGED <<mem, call, edi, esi, ecx, edx,
        df, orig>>
    BY <1>6 DEF WordsDone
  <2>2. Up(N - edx)
    <3>1. N - 4 * 0 - edx = N - edx BY <1>t
    <3> QED BY <1>t, <2>1, <3>1 DEF Progress
  <2>3. Up(N - edx)'
    <3>1. PICK k : k = N - edx /\ Up(k) BY <2>2
    <3>2. Up(k)' BY <2>1, <3>1, UpKept
    <3>3. N' - edx' = k BY <2>1, <3>1, KeptByStep
    <3> QED BY <3>2, <3>3 DEF Up, Filled
  <2>4. Progress' /\ Control' BY <1>t, <2>1, <2>3 DEF Progress, Control, StringPCs
  <2> QED BY <1>t, <2>1, <2>4, KeptByStep DEF MemInv
<1>7. CASE BottomByte
  <2>1. /\ pc = "bottom" /\ edx # 0 /\ pc' = pc /\ edx' = edx - 1 /\ mem' = Stored(1)
        /\ edi' = edi + 1 /\ esi' = esi + 1 /\ UNCHANGED <<call, ecx, df, orig>>
    BY <1>7 DEF BottomByte, Forward
  <2>2. PICK k \in Nat : k = N - edx /\ Up(k) /\ k + 1 <= N
    <3>1. Up(N - edx) BY <1>t, <2>1 DEF Progress
    <3>2. N - edx \in 0 .. N BY <3>1 DEF Up
    <3> QED BY <1>t, <2>1, <3>1, <3>2
  <2>3. 1 \in 1 .. WORD /\ (call.fn = "memmove" => Dest <= Src)
    BY <1>t, <2>1 DEF WORD, Control
  <2>4. Up(k + 1)' /\ mem' \in [Addr -> Byte] BY <2>1, <2>2, <2>3, StepUp
  <2>5. N' - edx' = k + 1 BY <1>t, <2>1, <2>2, KeptByStep
  <2>6. Up(N - edx)' BY <2>4, <2>5 DEF Up, Filled
  <2>7. Progress' /\ Control' BY <1>t, <2>1, <2>6 DEF Progress, Control
  <2> QED BY <1>t, <2>1, <2>4, <2>7, KeptByStep DEF MemInv
<1>8. CASE BottomDone
  <2>1. pc = "bottom" /\ edx = 0 /\ pc' = "done" /\ UNCHANGED <<mem, call, edi, esi, ecx, edx,
        df, orig>>
    BY <1>8 DEF BottomDone
  <2>2. Good => Filled(0, N)
    <3>1. N - 0 = N BY <1>t
    <3> QED BY <1>t, <2>1, <3>1 DEF Progress, Up
  <2>3. (Good => Filled(0, N))' BY <2>1, <2>2, DoneKept
  <2>4. Progress' /\ Control' BY <2>1, <2>3 DEF Progress, Control, StringPCs
  <2> QED BY <1>t, <2>1, <2>4, KeptByStep DEF MemInv
<1>9. CASE Memmove
  <2>1. /\ pc = "entry" /\ call.fn = "memmove" /\ pc' = "bytes" /\ ecx' = N
        /\ UNCHANGED <<mem, call, edx, orig>> /\ mem = orig
    BY <1>9, <1>t DEF Memmove, Control, N
  <2>2. CASE ~(Src < Dest)
    <3>1. edi' = Dest /\ esi' = Src /\ df' = FALSE
      BY <1>9, <2>2 DEF Memmove, Downward, Dest, Src
    <3>2. Filled(0, 0)' BY <1>t, <2>1, KeptByStep DEF Filled, Addr
    <3>3. Up(N - ecx)'
      <4>1. N - N = 0 /\ 0 \in 0 .. N /\ Dest + 0 = Dest /\ Src + 0 = Src BY <1>t
      <4>2. N' - ecx' = 0 BY <2>1, <4>1, KeptByStep
      <4> QED BY <2>1, <3>1, <3>2, <4>1, <4>2, KeptByStep DEF Up, Filled
    <3>4. N \in 0 .. N /\ Dest <= Src BY <1>t, <2>2
    <3>5. Progress' /\ Control'
      BY <2>1, <3>1, <3>3, <3>4, KeptByStep DEF Progress, Control, StringPCs
    <3>6. df' \in BOOLEAN BY <3>1, Zenon
    <3>7. edi' = Dest /\ esi' = Src BY <3>1
    <3> QED BY <1>t, <2>1, <3>5, <3>6, <3>7, KeptByStep DEF MemInv
  <2>3. CASE Src < Dest
    <3>1. edi' = Dest + N - 1 /\ esi' = Src + N - 1 /\ df' = TRUE
      BY <1>9, <2>3 DEF Memmove, Downward, Dest, Src, N
    <3>2. Filled(N, N)' BY <1>t, <2>1, KeptByStep DEF Filled, Addr
    <3>3. N \in 0 .. N /\ Src < Dest BY <1>t, <2>3
    <3>4. Down(ecx)' BY <2>1, <3>1, <3>2, <3>3, KeptByStep DEF Down, Filled
    <3>5. Progress' /\ Control'
      BY <2>1, <3>1, <3>3, <3>4, KeptByStep DEF Progress, Control, StringPCs
    <3> QED BY <1>t, <2>1, <3>1, <3>5, KeptByStep DEF MemInv
  <2> QED BY <2>2, <2>3
<1>10. CASE Bytes
  <2>1. /\ pc = "bytes" /\ ecx # 0 /\ pc' = pc /\ ecx' = ecx - 1 /\ mem' = Stored(1)
        /\ UNCHANGED <<call, edx, df, orig>>
    BY <1>10 DEF Bytes
  <2>2. ecx \in 1 .. N /\ ecx - 1 \in 0 .. N /\ call.fn = "memmove"
    BY <1>t, <2>1 DEF Progress, Control
  <2>3. CASE df
    <3>1. edi' = edi - 1 /\ esi' = esi - 1 BY <1>10, <2>3 DEF Bytes
    <3>2. Src < Dest /\ Down(ecx) BY <1>t, <2>1, <2>3 DEF Progress
    <3>r. PICK r \in 1 .. N : r = ecx /\ Down(r) BY <2>2, <3>2
    <3>3. Down(r - 1)' /\ mem' \in [Addr -> Byte]
      BY <2>1, <2>2, <3>1, <3>2, <3>r, StepDown
    <3>4. Down(ecx)' BY <2>1, <3>r, <3>3 DEF Down, Filled
    <3>5. Progress' /\ Control'
      BY <1>t, <2>1, <2>2, <2>3, <3>2, <3>4, KeptByStep DEF Progress, Control
    <3> QED BY <1>t, <2>1, <3>1, <3>3, <3>5, KeptByStep DEF MemInv
  <2>4. CASE ~df
    <3>1. edi' = edi + 1 /\ esi' = esi + 1 BY <1>10, <2>4 DEF Bytes
    <3>2. Dest <= Src /\ Up(N - ecx) BY <1>t, <2>1, <2>4 DEF Progress
    <3>3. PICK k \in Nat : k = N - ecx /\ Up(k) /\ k + 1 <= N /\ 1 \in 1 .. WORD
      BY <1>t, <2>2, <3>2 DEF WORD
    <3>4. Up(k + 1)' /\ mem' \in [Addr -> Byte]
      BY <2>1, <2>2, <3>1, <3>2, <3>3, StepUp
    <3>5. N' - ecx' = k + 1 BY <1>t, <2>1, <3>3, KeptByStep
    <3>6. Up(N - ecx)' BY <3>4, <3>5 DEF Up, Filled
    <3>7. Progress' /\ Control'
      BY <1>t, <2>1, <2>2, <2>4, <3>2, <3>6, KeptByStep DEF Progress, Control
    <3> QED BY <1>t, <2>1, <3>1, <3>4, <3>7, KeptByStep DEF MemInv
  <2> QED BY <2>3, <2>4
<1>11. CASE BytesDone
  <2>1. pc = "bytes" /\ ecx = 0 /\ pc' = "done" /\ UNCHANGED <<mem, call, edi, esi, ecx, edx, df,
        orig>>
    BY <1>11 DEF BytesDone
  <2>2. Good => Filled(0, N)
    <3>1. N - 0 = N BY <1>t
    <3>2. CASE df BY <1>t, <2>1, <3>2 DEF Progress, Down
    <3>3. CASE ~df BY <1>t, <2>1, <3>1, <3>3 DEF Progress, Up
    <3> QED BY <3>2, <3>3
  <2>3. (Good => Filled(0, N))' BY <2>1, <2>2, DoneKept
  <2>4. Progress' /\ Control' BY <2>1, <2>3 DEF Progress, Control, StringPCs
  <2> QED BY <1>t, <2>1, <2>4, KeptByStep DEF MemInv
<1>12. CASE Strcpy \/ Strncpy \/ Pad \/ Strncmp \/ Strrev \/ ItoaDigit \/ ItoaReverse \/ ItoaZero
  BY <1>12, <1>t
  DEF Strcpy, Strncpy, Pad, Strncmp, Strrev, ItoaDigit, ItoaReverse, ItoaZero, Control, StringPCs
<1>13. CASE UNCHANGED vars
  <2>1. UNCHANGED <<mem, call, pc, edi, esi, ecx, edx, df, orig>> BY <1>13 DEF vars
  <2>2. Progress' /\ Control'
    BY <1>t, <2>1, KeptByStep DEF Progress, Control, Up, Down, Filled
  <2> QED BY <1>t, <2>1, <2>2, KeptByStep DEF MemInv
<1> QED
  BY <1>1, <1>2, <1>3, <1>4, <1>5, <1>6, <1>7, <1>8, <1>9, <1>10, <1>11, <1>12, <1>13 DEF Next

\* Every step keeps IInv.
LEMMA IInvNext == IInv /\ [Next]_vars => IInv'
<1> SUFFICES ASSUME IInv, [Next]_vars PROVE IInv' OBVIOUS
<1>1. call \in Calls BY DEF IInv
<1>2. CASE call.fn \in MemoryFns
  <2>1. MemInv' /\ call' = call BY <1>2, MemNext DEF IInv
  <2> QED BY <1>1, <1>2, <2>1 DEF IInv
<1>3. CASE call.fn \notin MemoryFns
  <2>1. pc \in StringPCs \cup {"entry", "done"} BY <1>3 DEF IInv
  <2>2. call.fn \in StringPCs
    BY <1>1, <1>3 DEF Calls, Functions, MemoryFns, StringPCs
  <2>3. call' = call /\ pc' \in StringPCs \cup {"entry", "done"}
    BY <1>3, <2>1, <2>2
    DEF Next, vars, MemoryFns, StringPCs, Enter, TopDone, TopByte, Aligned, Words, WordsDone,
        BottomByte, BottomDone, Memmove, Bytes, BytesDone, Strcpy, Strncpy, Pad, Strncmp, Strrev,
        ItoaDigit, ItoaReverse, ItoaZero
  <2> QED BY <1>1, <1>3, <2>3 DEF IInv
<1> QED BY <1>2, <1>3

-----------------------------------------------------------------------------
\* In every memory, for every length and alignment and whatever the direction flag was,
\* memset and memcpy leave what a loop over single bytes leaves, and memmove a copy of the
\* source as it was, also when the ranges overlap (lib.c, memset, memcpy and memmove).
THEOREM MemoryCorrect == Spec => []MemoryResult
<1>1. IInv => MemoryResult
  <2> SUFFICES ASSUME IInv, pc = "done", NEW k \in 0 .. N - 1
      PROVE  /\ call.fn = "memset" => mem[Dest + k] = call.c % 256
             /\ call.fn \in {"memcpy", "memmove"} /\ Good => mem[Dest + k] = orig[Src + k]
    BY DEF MemoryResult, Dest, Src, N, Good
  <2> SUFFICES ASSUME call.fn \in MemoryFns, Good
      PROVE  mem[Dest + k] = Want(Dest + k) /\ Src + ((Dest + k) - Dest) = Src + k
    BY DEF MemoryFns, Want, Good
  <2>1. MemInv BY DEF IInv
  <2>2. Filled(0, N) BY <2>1 DEF MemInv, Progress
  <2>3. M \in Nat /\ Dest \in 0 .. M /\ Src \in 0 .. M /\ N \in 0 .. M /\ Dest + N <= M
    BY <2>1, ConstantsAssumption, CallTyped DEF MemInv, InMemory
  <2>4. Dest + k \in Addr /\ Dest + 0 <= Dest + k /\ Dest + k < Dest + N BY <2>3 DEF Addr
  <2> QED BY <2>2, <2>3, <2>4 DEF Filled
<1> QED BY <1>1, InitIInv, IInvNext, PTL DEF Spec

-----------------------------------------------------------------------------
(* Induction over the natural numbers, for sets of them.                    *)

\* A nonempty set of natural numbers has a smallest element.
LEMMA SmallestNat ==
  ASSUME NEW T \in SUBSET Nat, T # {}
  PROVE  \E x \in T : \A y \in T : x <= y
<1>1. PICK x \in T : \A y \in T : ~(<<y, x>> \in OpToRel(<, Nat))
  BY WFMin, NatLessThanWellFounded
<1>2. \A y \in T : ~(y < x) BY <1>1 DEF OpToRel
<1> QED BY <1>2

\* A set that has 0 and with every number the next one has all.
LEMMA InductionBySet ==
  ASSUME NEW S, 0 \in S, \A k \in Nat : k \in S => k + 1 \in S
  PROVE  \A k \in Nat : k \in S
<1> DEFINE T == {k \in Nat : k \notin S}
<1> SUFFICES ASSUME T # {} PROVE FALSE OBVIOUS
<1>1. PICK x \in T : \A y \in T : x <= y BY SmallestNat
<1>2. x # 0 BY DEF T
<1>3. x - 1 \in Nat /\ x - 1 \notin T BY <1>1, <1>2
<1>4. x - 1 \in S BY <1>3
<1>5. (x - 1) + 1 \in S BY <1>3, <1>4
<1> QED BY <1>5

\* The powers of 2 are what their definition says.
LEMMA Powers == Pow2 = [k \in Nat |-> IF k = 0 THEN 1 ELSE 2 * Pow2[k - 1]]
<1> DEFINE F(n, f) == f = [k \in 0 .. n |-> IF k = 0 THEN 1 ELSE 2 * f[k - 1]]
           S == {n \in Nat : \E f : F(n, f)}
<1>1. 0 \in S
  <2>1. F(0, [k \in 0 .. 0 |-> 1]) OBVIOUS
  <2> QED BY <2>1
<1>2. ASSUME NEW n \in Nat, n \in S PROVE n + 1 \in S
  <2>1. PICK f : F(n, f) BY <1>2
  <2>2. PICK g : g = [k \in 0 .. n + 1 |-> IF k = n + 1 THEN 2 * f[n] ELSE f[k]] OBVIOUS
  <2>3. ASSUME NEW k \in 0 .. n + 1
        PROVE  g[k] = IF k = 0 THEN 1 ELSE 2 * g[k - 1]
    <3>1. CASE k = n + 1 BY <2>2, <3>1
    <3>2. CASE k # n + 1
      <4>1. k \in 0 .. n /\ (k # 0 => k - 1 \in 0 .. n /\ k - 1 # n + 1) BY <3>2
      <4>2. f[k] = IF k = 0 THEN 1 ELSE 2 * f[k - 1] BY <2>1, <4>1
      <4>3. g[k] = f[k] BY <2>2, <3>2
      <4>4. k # 0 => g[k - 1] = f[k - 1]
        <5> SUFFICES ASSUME k # 0 PROVE g[k - 1] = f[k - 1] OBVIOUS
        <5>1. k - 1 \in 0 .. n + 1 /\ k - 1 # n + 1 BY <4>1
        <5> QED BY <2>2, <5>1
      <4>5. CASE k = 0 BY <4>2, <4>3, <4>5
      <4>6. CASE k # 0
        <5>1. g[k] = 2 * f[k - 1] /\ g[k - 1] = f[k - 1] BY <4>2, <4>3, <4>4, <4>6
        <5> QED BY <4>6, <5>1
      <4> QED BY <4>5, <4>6
    <3> QED BY <3>1, <3>2
  <2>4. F(n + 1, g) BY <2>2, <2>3
  <2>5. n + 1 \in Nat OBVIOUS
  <2> HIDE DEF F
  <2> QED BY <2>4, <2>5
<1>3. \A n \in Nat : n \in S
  <2> HIDE DEF S
  <2> QED BY <1>1, <1>2, InductionBySet
<1>4. ASSUME NEW m \in Nat, NEW n \in Nat, m <= n, NEW f, F(m, f), NEW g, F(n, g)
      PROVE  f[m] = g[m]
  <2> DEFINE E == {k \in Nat : k <= m => f[k] = g[k]}
  <2>1. 0 \in E BY <1>4
  <2>2. ASSUME NEW k \in Nat, k \in E PROVE k + 1 \in E
    <3> SUFFICES ASSUME k + 1 <= m PROVE f[k + 1] = g[k + 1] OBVIOUS
    <3>1. k + 1 \in 0 .. m /\ k + 1 \in 0 .. n /\ k + 1 # 0 /\ (k + 1) - 1 = k BY <1>4
    <3>2. f[k + 1] = 2 * f[k] /\ g[k + 1] = 2 * g[k] BY <1>4, <3>1
    <3>3. f[k] = g[k] BY <2>2
    <3> QED BY <3>2, <3>3
  <2>3. m \in E
    <3> HIDE DEF E
    <3> QED BY <2>1, <2>2, InductionBySet
  <2> QED BY <2>3
<1>5. PICK w : w = [n \in Nat |-> CHOOSE f : F(n, f)] OBVIOUS
<1>6. \A n \in Nat : F(n, w[n])
  <2> TAKE n \in Nat
  <2>1. \E f : F(n, f) BY <1>3
  <2> QED BY <1>5, <2>1
<1>7. PICK p : p = [n \in Nat |-> w[n][n]] OBVIOUS
<1>8. p = [k \in Nat |-> IF k = 0 THEN 1 ELSE 2 * p[k - 1]]
  <2>1. ASSUME NEW k \in Nat PROVE p[k] = IF k = 0 THEN 1 ELSE 2 * p[k - 1]
    <3>f. PICK f : f = w[k] OBVIOUS
    <3>g. F(k, f) BY <1>6, <3>f
    <3>1. f[k] = IF k = 0 THEN 1 ELSE 2 * f[k - 1] BY <3>g
    <3>2. ASSUME k # 0 PROVE f[k - 1] = w[k - 1][k - 1]
      <4>1. PICK l \in Nat : l = k - 1 /\ l <= k BY <3>2
      <4>2. PICK g : g = w[l] OBVIOUS
      <4>3. F(l, g) BY <1>6, <4>2
      <4> HIDE DEF F
      <4>4. g[l] = f[l] BY <1>4, <3>g, <4>1, <4>3
      <4> QED BY <4>1, <4>2, <4>4
    <3>3. p[k] = f[k] /\ (k # 0 => p[k - 1] = w[k - 1][k - 1]) BY <1>7, <3>f
    <3> QED BY <3>1, <3>2, <3>3
  <2> QED BY <1>7, <2>1
<1> QED BY <1>8 DEF Pow2

-----------------------------------------------------------------------------
(* Strings and numerals.                                                    *)

\* k is the length of the string at s.
IsLength(m, s, k) ==
  /\ k \in Nat /\ s + k \in Addr /\ m[s + k] = NUL
  /\ \A l \in 0 .. k - 1 : m[s + l] # NUL

\* There is one length.
LEMMA LengthUnique ==
  ASSUME NEW m, NEW s \in Nat, NEW k, IsLength(m, s, k) PROVE strlen(m, s) = k
<1>1. M \in Nat BY ConstantsAssumption
<1>2. k \in Addr BY <1>1 DEF IsLength, Addr
<1> DEFINE L(x) == /\ s + x \in Addr /\ m[s + x] = NUL
                   /\ \A l \in 0 .. x - 1 : m[s + l] # NUL
<1>3. L(k) BY DEF IsLength
<1>4. PICK x : x = strlen(m, s) OBVIOUS
<1>5. x \in Addr /\ L(x) BY <1>2, <1>3, <1>4 DEF strlen
<1>6. k \in Nat /\ x \in Nat BY <1>1, <1>5 DEF IsLength, Addr
<1>7. ~(k < x)
  <2> SUFFICES ASSUME k < x PROVE FALSE OBVIOUS
  <2>1. k \in 0 .. x - 1 BY <1>6
  <2> QED BY <1>3, <1>5, <2>1
<1>8. ~(x < k)
  <2> SUFFICES ASSUME x < k PROVE FALSE OBVIOUS
  <2>1. x \in 0 .. k - 1 BY <1>6
  <2> QED BY <1>3, <1>5, <2>1
<1> QED BY <1>4, <1>6, <1>7, <1>8

\* A string with an end has a length.
LEMMA LengthIs ==
  ASSUME NEW m, NEW s \in Nat, Terminated(m, s) PROVE IsLength(m, s, strlen(m, s))
<1>1. M \in Nat BY ConstantsAssumption
<1> DEFINE T == {k \in Nat : s + k \in Addr /\ m[s + k] = NUL}
<1>2. PICK a \in Addr : a >= s /\ m[a] = NUL BY DEF Terminated
<1>3. a - s \in Nat /\ s + (a - s) = a BY <1>1, <1>2 DEF Addr
<1>4. a - s \in T BY <1>2, <1>3
<1>5. PICK k \in T : \A y \in T : k <= y BY <1>4, SmallestNat
<1>6. ASSUME NEW l \in 0 .. k - 1 PROVE m[s + l] # NUL
  <2>1. k \in Nat /\ l \in Nat /\ s + k \in Addr /\ l < k OBVIOUS
  <2>2. s + l \in Addr BY <1>1, <2>1 DEF Addr
  <2>3. l \notin T BY <1>5, <2>1
  <2> QED BY <2>1, <2>2, <2>3
<1>7. IsLength(m, s, k) BY <1>6 DEF IsLength
<1>8. strlen(m, s) = k BY <1>7, LengthUnique
<1> QED BY <1>7, <1>8

\* The digits of itoa are bytes, not 0, and read as what they were.
LEMMA Lookups ==
  ASSUME NEW x \in 0 .. 35
  PROVE  /\ lookup(x) \in Byte /\ lookup(x) # NUL /\ Digit(lookup(x)) = x
         /\ x # 0 => lookup(x) # lookup(0)
  BY DEF lookup, Digit, Byte, NUL

\* q holds the quotients of c by the radix, from c itself to the l-th.
Quotients(q, l, c, radix) ==
  /\ l \in Nat /\ q \in [0 .. l -> Nat] /\ q[0] = c
  /\ \A k \in 0 .. l - 1 : q[k] > 0 /\ q[k + 1] = q[k] \div radix

\* A division by the radix leaves a digit.
LEMMA Divided ==
  ASSUME NEW x \in Nat, NEW r \in 2 .. 36
  PROVE  /\ x \div r \in Nat /\ x % r \in 0 .. 35 /\ x % r \in 0 .. r - 1
         /\ r * (x \div r) + (x % r) = x
         /\ x \div r = 0 => x % r = x
<1>1. r * (x \div r) + (x % r) = x /\ x % r \in 0 .. r - 1 /\ x \div r \in Nat OBVIOUS
<1>2. x \div r = 0 => x % r = x
  <2> SUFFICES ASSUME x \div r = 0 PROVE x % r = x OBVIOUS
  <2>1. r * 0 + (x % r) = x BY <1>1
  <2>2. r * 0 = 0 OBVIOUS
  <2> QED BY <1>1, <2>1, <2>2
<1> QED BY <1>1, <1>2

\* A numeral whose digits are the remainders, the last one first, denotes the number.
LEMMA NumeralDenotes ==
  ASSUME NEW c \in Nat, NEW r \in 2 .. 36, NEW q, NEW l, Quotients(q, l, c, r), q[l] = 0, NEW s,
         \A k \in 0 .. l - 1 : mem[s + k] = lookup(q[l - 1 - k] % r)
  PROVE  Denotes(s, l, r) = c
<1> DEFINE F(v) == v = [k \in 0 .. l |-> IF k = 0 THEN 0
                                         ELSE r * v[k - 1] + Digit(mem[s + k - 1])]
<1>q. l \in Nat /\ q \in [0 .. l -> Nat] /\ q[0] = c
      /\ \A k \in 0 .. l - 1 : q[k] > 0 /\ q[k + 1] = q[k] \div r
  BY DEF Quotients
<1>1. PICK w : w = [k \in 0 .. l |-> q[l - k]] OBVIOUS
<1>2. ASSUME NEW k \in 1 .. l
      PROVE  w[k] = r * w[k - 1] + Digit(mem[s + k - 1])
  <2>1. PICK x \in 0 .. l - 1 : x = l - k BY <1>q
  <2>2. k - 1 \in 0 .. l - 1 /\ l - 1 - (k - 1) = x /\ l - (k - 1) = x + 1 BY <1>q, <2>1
  <2>3. PICK m : m = mem[s + (k - 1)] OBVIOUS
  <2>4. m = lookup(q[x] % r) BY <2>2, <2>3
  <2>5. PICK y \in Nat : y = q[x] BY <1>q, <2>1
  <2>6. Digit(m) = y % r BY <2>4, <2>5, Lookups, Divided
  <2>7. w[k] = y /\ w[k - 1] = y \div r BY <1>q, <1>1, <2>1, <2>2, <2>5
  <2>8. r * (y \div r) + (y % r) = y BY Divided
  <2>9. s + k - 1 = s + (k - 1)
    OBVIOUS
  <2> QED BY <2>3, <2>6, <2>7, <2>8, <2>9
<1>3. F(w)
  <2>1. w[0] = 0 BY <1>1, <1>q
  <2>2. \A k \in 0 .. l : w[k] = IF k = 0 THEN 0 ELSE r * w[k - 1] + Digit(mem[s + k - 1])
    BY <1>2, <2>1, <1>q
  <2> QED BY <1>1, <2>2
<1>4. PICK v : v = CHOOSE u : F(u) OBVIOUS
<1>5. F(v) BY <1>3, <1>4
<1>6. Denotes(s, l, r) = v[l] BY <1>4 DEF Denotes
<1>7. \A k \in 0 .. l : v[k] = w[k]
  <2> DEFINE S == {k \in Nat : k <= l => v[k] = w[k]}
  <2>1. 0 \in S BY <1>q, <1>5, <1>3
  <2>2. ASSUME NEW k \in Nat, k \in S PROVE k + 1 \in S
    <3> SUFFICES ASSUME k + 1 <= l PROVE v[k + 1] = w[k + 1] OBVIOUS
    <3>1. PICK y \in 1 .. l : y = k + 1 /\ y - 1 = k /\ k <= l BY <1>q
    <3>4. y \in 0 .. l /\ y # 0 BY <1>q
    <3>2. v[y] = r * v[y - 1] + Digit(mem[s + y - 1]) BY <1>5, <3>4
    <3>3. v[k] = w[k] BY <2>2, <3>1
    <3> QED BY <1>2, <3>1, <3>2, <3>3
  <2>3. \A k \in Nat : k \in S
    <3> HIDE DEF S
    <3> QED BY <2>1, <2>2, InductionBySet
  <2> QED BY <1>q, <2>3
<1>8. w[l] = c BY <1>1, <1>q
<1> QED BY <1>6, <1>7, <1>8, <1>q

-----------------------------------------------------------------------------
(* The invariant of the string functions: how far each loop is.             *)

\* the length of the string to be copied
SrcLen == strlen(orig, Src)

\* x bytes of the copy are done, the others untouched; behind the string it is filled up
CopyOf(x) ==
  \A a \in Addr : mem[a] = IF Dest <= a /\ a < Dest + x
                             THEN IF a - Dest < SrcLen THEN orig[Src + (a - Dest)] ELSE NUL
                             ELSE orig[a]

\* the digits of the call's value, the lowest first
Digits(m, q, l) ==
  /\ Quotients(q, l, call.c, call.radix)
  /\ \A k \in 0 .. l - 1 : m[Dest + k] = lookup(q[k] % call.radix)

\* the string of length l in base is to be reversed
Reverses(base, l) ==
  /\ base \in [Addr -> Byte] /\ IsLength(base, Dest, l)
  /\ call.fn = "strrev" => base = orig
  /\ call.fn = "itoa" => l > 0 /\ \E q : Digits(base, q, l) /\ q[l] = 0

\* its first x bytes have been exchanged with its last x bytes
Reversed(base, l, x) ==
  \A a \in Addr : mem[a] = IF \/ Dest <= a /\ a < Dest + x
                              \/ Dest + l - x <= a /\ a < Dest + l
                             THEN base[Dest + l - 1 - (a - Dest)] ELSE base[a]

\* the loop of strrev
Reversing ==
  \E base, l : /\ Reverses(base, l)
               /\ i \in 0 .. l /\ j = l - 1 - i /\ i <= j + 1
               /\ Reversed(base, l, i)

\* the loop of itoa: the quotient that is left needs no more digits than there is room for
Converting ==
  /\ i \in Nat /\ newval \in Nat /\ Dest + i < M /\ newval < Pow2[M - 1 - Dest - i]
  /\ \E q : Digits(mem, q, i) /\ q[i] = newval

\* which function is in which loop
StrControl ==
  /\ pc \in StringPCs \cup {"entry", "done"}
  /\ pc = "strcpy" => call.fn = "strcpy"
  /\ pc \in {"strncpy", "pad"} => call.fn = "strncpy"
  /\ pc = "strncmp" => call.fn = "strncmp"
  /\ pc = "strrev" => call.fn \in {"strrev", "itoa"}
  /\ pc = "itoa" => call.fn = "itoa"

\* What a string function leaves.
StringDone ==
  LET len == strlen(orig, call.src) IN
  CASE call.fn = "strcpy" -> \A k \in 0 .. len : At(call.dest, k) = orig[call.src + k]
    [] call.fn = "strncpy" -> \A k \in 0 .. call.n - 1 :
         At(call.dest, k) = IF k < len THEN orig[call.src + k] ELSE NUL
    [] call.fn = "strncmp" ->
         IF \E k \in 0 .. call.n - 1 : SamePrefix(k) /\ At(call.dest, k) # At(call.src, k)
         THEN \E k \in 0 .. call.n - 1 :
                /\ SamePrefix(k) /\ At(call.dest, k) # At(call.src, k)
                /\ ret > 0 <=> int8(At(call.dest, k)) > int8(At(call.src, k))
                /\ ret # 0
         ELSE ret = 0
    [] call.fn = "strrev" -> LET l == strlen(orig, call.dest) IN
         /\ strlen(mem, call.dest) = l
         /\ \A k \in 0 .. l - 1 : At(call.dest, k) = orig[call.dest + l - 1 - k]
    [] call.fn = "itoa" -> LET l == strlen(mem, call.dest) IN
         /\ Denotes(call.dest, l, call.radix) = call.c
         /\ l > 0 /\ (l > 1 => At(call.dest, 0) # lookup(0))
    [] OTHER -> TRUE

\* how far it is
StrProgress ==
  /\ pc = "entry" => mem = orig /\ i = 0
  /\ pc = "strcpy" => i \in 0 .. SrcLen /\ CopyOf(i)
  /\ pc = "strncpy" => i \in 0 .. N /\ i <= SrcLen /\ CopyOf(i)
  /\ pc = "pad" => i \in 0 .. N /\ (i >= SrcLen \/ i = N) /\ CopyOf(i)
  /\ pc = "strncmp" => mem = orig /\ i \in 0 .. N /\ SamePrefix(i)
  /\ pc = "strrev" => Reversing
  /\ pc = "itoa" => Converting
  /\ pc = "done" => StringDone

\* the invariant of a call of a string function
StrInv ==
  /\ mem \in [Addr -> Byte] /\ orig \in [Addr -> Byte] /\ call \in Calls
  /\ Allowed(orig, call) /\ StrControl /\ StrProgress

\* no function writes outside its destination
Outside == \A a \in Addr : a < call.dest \/ a >= call.dest + Target => mem[a] = orig[a]

\* the inductive invariant
TextInv == IInv /\ Outside /\ (call.fn \notin MemoryFns => StrInv)

-----------------------------------------------------------------------------
(* strcpy and strncpy.                                                      *)

\* The arguments of the two functions that copy a string.
LEMMA CopyArgs ==
  ASSUME call \in Calls, Allowed(orig, call), call.fn \in {"strcpy", "strncpy"}
  PROVE  /\ M \in Nat /\ Dest \in Nat /\ Src \in Nat /\ N \in Nat /\ SrcLen \in Nat
         /\ IsLength(orig, Src, SrcLen)
         /\ call.fn = "strcpy" => /\ Dest + SrcLen + 1 <= M
                                  /\ Dest + SrcLen + 1 <= Src \/ Src + SrcLen + 1 <= Dest
         /\ call.fn = "strncpy" => /\ Dest + N <= M
                                   /\ Dest + N <= Src \/ Src + SrcLen + 1 <= Dest
         /\ Target = IF call.fn = "strcpy" THEN SrcLen + 1 ELSE N
<1>1. M \in Nat /\ Dest \in Nat /\ Src \in Nat /\ N \in Nat
  BY CallTyped, ConstantsAssumption
<1>2. IsLength(orig, Src, SrcLen)
  <2>1. Terminated(orig, Src) BY DEF Allowed, Src
  <2> QED BY <1>1, <2>1, LengthIs DEF SrcLen
<1>3. SrcLen \in Nat BY <1>2 DEF IsLength
<1>4. call.fn = "strcpy" => Dest + (SrcLen + 1) <= M /\ Disjoint(Dest, SrcLen + 1, Src, SrcLen + 1)
  BY DEF Allowed, Fits, Dest, Src, SrcLen
<1>5. call.fn = "strncpy" => Dest + N <= M /\ Disjoint(Dest, N, Src, SrcLen + 1)
  BY DEF Allowed, Fits, Dest, Src, N, SrcLen
<1>6. Target = IF call.fn = "strcpy" THEN SrcLen + 1 ELSE N
  BY DEF Target, SrcLen, Src, N
<1> HIDE DEF SrcLen
<1> QED BY <1>1, <1>2, <1>3, <1>4, <1>5, <1>6 DEF Disjoint

\* The copy does not reach the source.
LEMMA SourceKept ==
  ASSUME call \in Calls, Allowed(orig, call), call.fn \in {"strcpy", "strncpy"},
         NEW x \in Nat, x <= SrcLen, call.fn = "strncpy" => x <= N, CopyOf(x)
  PROVE  At(Src, x) = orig[Src + x] /\ (orig[Src + x] = NUL <=> x = SrcLen)
<1>1. /\ M \in Nat /\ Dest \in Nat /\ Src \in Nat /\ N \in Nat /\ SrcLen \in Nat
      /\ IsLength(orig, Src, SrcLen)
      /\ call.fn = "strcpy" => /\ Dest + SrcLen + 1 <= M
                               /\ Dest + SrcLen + 1 <= Src \/ Src + SrcLen + 1 <= Dest
      /\ call.fn = "strncpy" => /\ Dest + N <= M
                                /\ Dest + N <= Src \/ Src + SrcLen + 1 <= Dest
  BY CopyArgs
<1>2. Src + x \in Addr /\ ~(Dest <= Src + x /\ Src + x < Dest + x)
  BY <1>1 DEF IsLength, Addr
<1>3. mem[Src + x] = orig[Src + x] BY <1>2 DEF CopyOf
<1>4. orig[Src + x] = NUL <=> x = SrcLen
  <2>1. x = SrcLen => orig[Src + x] = NUL BY <1>1 DEF IsLength
  <2>2. x # SrcLen => x \in 0 .. SrcLen - 1 BY <1>1
  <2> QED BY <1>1, <2>1, <2>2 DEF IsLength
<1> QED BY <1>3, <1>4 DEF At

\* One byte more.
LEMMA CopyMore ==
  ASSUME call \in Calls, mem \in [Addr -> Byte], orig \in [Addr -> Byte],
         NEW x \in Nat, Dest + x \in Addr, CopyOf(x), SrcLen \in Nat,
         NEW b \in Byte, b = IF x < SrcLen THEN orig[Src + x] ELSE NUL,
         Put(x, b), UNCHANGED <<call, orig>>
  PROVE  CopyOf(x + 1)' /\ mem' \in [Addr -> Byte]
<1>1. M \in Nat /\ Dest \in Nat /\ Src \in Nat BY CallTyped, ConstantsAssumption
<1>2. PICK e \in Addr : e = Dest + x OBVIOUS
<1>3. mem' = [mem EXCEPT ![e] = b] BY <1>2 DEF Put, Dest
<1>4. mem' \in [Addr -> Byte] BY <1>3
<1>5. Dest' = Dest /\ Src' = Src /\ SrcLen' = SrcLen BY DEF Dest, Src, SrcLen
<1> HIDE DEF SrcLen
<1>6. ASSUME NEW a \in Addr
      PROVE  mem'[a] = IF Dest <= a /\ a < Dest + (x + 1)
                         THEN IF a - Dest < SrcLen THEN orig[Src + (a - Dest)] ELSE NUL
                         ELSE orig[a]
  <2>1. CASE a = e
    <3>1. mem'[a] = b BY <1>3, <2>1
    <3>2. a - Dest = x /\ Dest <= a /\ a < Dest + (x + 1) BY <1>1, <1>2, <2>1
    <3> QED BY <3>1, <3>2
  <2>2. CASE a # e
    <3>1. mem'[a] = mem[a] BY <1>3, <2>2
    <3>2. a < Dest + (x + 1) <=> a < Dest + x BY <1>1, <1>2, <2>2 DEF Addr
    <3> QED BY <3>1, <3>2 DEF CopyOf
  <2> QED BY <2>1, <2>2
<1> QED BY <1>4, <1>5, <1>6 DEF CopyOf

\* A write within the destination.
LEMMA PutInside ==
  ASSUME Outside, NEW x \in Nat, NEW b, Put(x, b), UNCHANGED <<call, orig>>, x < Target,
         mem \in [Addr -> Byte], call \in Calls, Target \in Nat
  PROVE  Outside'
<1>1. call.dest \in Nat /\ M \in Nat BY CallTyped, ConstantsAssumption DEF Dest
<1>2. Target' = Target BY DEF Target
<1>3. PICK d, t : d = call.dest /\ t = Target OBVIOUS
<1>4. ASSUME NEW a \in Addr, a < d \/ a >= d + t PROVE mem'[a] = orig[a]
  <2>1. a # d + x /\ a \in Nat BY <1>1, <1>3, <1>4 DEF Addr
  <2>2. mem'[a] = mem[a] BY <1>3, <2>1 DEF Put
  <2> QED BY <1>3, <1>4, <2>2 DEF Outside
<1> QED BY <1>2, <1>3, <1>4 DEF Outside

\* No write at all.
LEMMA NoWrite ==
  ASSUME Outside, UNCHANGED <<mem, call, orig>> PROVE Outside'
  BY DEF Outside, Target

\* Allowed and the types of a call stay.
LEMMA CallKept ==
  ASSUME UNCHANGED <<call, orig>>
  PROVE  Dest' = Dest /\ Src' = Src /\ N' = N /\ SrcLen' = SrcLen /\ Target' = Target
         /\ (Allowed(orig, call)' <=> Allowed(orig, call))
  BY DEF Dest, Src, N, SrcLen, Target, Allowed

\* A step of strcpy.
LEMMA StrcpyNext ==
  ASSUME StrInv, Outside, Strcpy PROVE StrInv' /\ Outside'
<1>1. /\ pc = "strcpy" /\ Put(i, At(Src, i)) /\ i' = i + 1
      /\ pc' = (IF At(Src, i) = NUL THEN "done" ELSE pc) /\ UNCHANGED <<call, orig>>
  BY DEF Strcpy, Src
<1>2. /\ call \in Calls /\ mem \in [Addr -> Byte] /\ orig \in [Addr -> Byte]
      /\ Allowed(orig, call) /\ call.fn = "strcpy" /\ i \in 0 .. SrcLen /\ CopyOf(i)
  BY <1>1 DEF StrInv, StrControl, StrProgress
<1>3. /\ M \in Nat /\ Dest \in Nat /\ Src \in Nat /\ SrcLen \in Nat
      /\ IsLength(orig, Src, SrcLen) /\ Dest + SrcLen + 1 <= M /\ Target = SrcLen + 1
  BY <1>2, CopyArgs
<1> HIDE DEF SrcLen
<1>4. i \in Nat /\ i <= SrcLen /\ Dest + i \in Addr /\ Src + i \in Addr
  BY <1>2, <1>3 DEF Addr, IsLength
<1>5. At(Src, i) = orig[Src + i] /\ (orig[Src + i] = NUL <=> i = SrcLen)
  BY <1>2, <1>4, SourceKept
<1>x. PICK x \in Nat : x = i BY <1>4
<1>6. PICK b \in Byte : b = orig[Src + i] BY <1>2, <1>4
<1>7. b = IF i < SrcLen THEN orig[Src + i] ELSE NUL BY <1>2, <1>3, <1>5, <1>6
<1>8. Put(i, b) BY <1>1, <1>5, <1>6
<1>9. CopyOf(x + 1)' /\ mem' \in [Addr -> Byte]
  BY <1>1, <1>2, <1>3, <1>4, <1>7, <1>8, <1>x, CopyMore
<1>10. Outside' BY <1>1, <1>2, <1>3, <1>4, <1>8, <1>x, PutInside
<1>11. StrControl' /\ StrProgress'
  <2>1. CASE i = SrcLen
    <3>1. pc' = "done" BY <1>1, <1>5, <2>1
    <3>2. ASSUME NEW k \in 0 .. SrcLen PROVE mem'[Dest + k] = orig[Src + k]
      <4>1. PICK a \in Addr : a = Dest + k BY <1>3 DEF Addr
      <4>2. Dest <= a /\ a < Dest + (SrcLen + 1) /\ a - Dest = k BY <1>3, <4>1
      <4>3. mem'[a] = IF k < SrcLen THEN orig[Src + k] ELSE NUL
        BY <1>1, <1>9, <1>x, <2>1, <4>2, CallKept DEF CopyOf
      <4>4. k = SrcLen \/ k < SrcLen BY <1>3
      <4>5. orig[Src + SrcLen] = NUL BY <1>3 DEF IsLength
      <4> QED BY <4>1, <4>3, <4>4, <4>5
    <3>3. StringDone'
      <4>1. call.fn' = "strcpy" BY <1>1, <1>2
      <4>2. \A k \in 0 .. SrcLen' : mem'[Dest' + k] = orig'[Src' + k] BY <1>1, <3>2, CallKept
      <4> QED BY <4>1, <4>2 DEF StringDone, At, SrcLen, Dest, Src
    <3> QED BY <1>1, <1>2, <3>1, <3>3 DEF StrControl, StrProgress, StringPCs
  <2>2. CASE i # SrcLen
    <3>1. pc' = "strcpy" BY <1>1, <1>5, <2>2
    <3>2. i' \in 0 .. SrcLen' /\ CopyOf(i)'
      <4>1. SrcLen' = SrcLen /\ i + 1 \in 0 .. SrcLen BY <1>1, <1>2, <1>3, <2>2, CallKept
      <4> QED BY <1>1, <1>9, <1>x, <4>1 DEF CopyOf
    <3> QED BY <1>1, <1>2, <3>1, <3>2 DEF StrControl, StrProgress, StringPCs
  <2> QED BY <2>1, <2>2
<1> QED BY <1>1, <1>2, <1>9, <1>10, <1>11, CallKept DEF StrInv

\* A step of the first loop of strncpy.
LEMMA StrncpyNext ==
  ASSUME StrInv, Outside, Strncpy PROVE StrInv' /\ Outside'
<1>1. pc = "strncpy" /\ UNCHANGED <<call, orig>> BY DEF Strncpy
<1>2. /\ call \in Calls /\ mem \in [Addr -> Byte] /\ orig \in [Addr -> Byte]
      /\ Allowed(orig, call) /\ call.fn = "strncpy" /\ i \in 0 .. N /\ i <= SrcLen /\ CopyOf(i)
  BY <1>1 DEF StrInv, StrControl, StrProgress
<1>3. /\ M \in Nat /\ Dest \in Nat /\ Src \in Nat /\ SrcLen \in Nat /\ N \in Nat
      /\ IsLength(orig, Src, SrcLen) /\ Dest + N <= M /\ Target = N
  BY <1>2, CopyArgs
<1> HIDE DEF SrcLen
<1>4. i \in Nat /\ i <= SrcLen /\ i <= N /\ Src + i \in Addr
  BY <1>2, <1>3 DEF Addr, IsLength
<1>5. At(Src, i) = orig[Src + i] /\ (orig[Src + i] = NUL <=> i = SrcLen)
  BY <1>2, <1>4, SourceKept
<1>x. PICK x \in Nat : x = i BY <1>4
<1>6. CASE At(Src, i) # NUL /\ i < N
  <2>1. Put(i, At(Src, i)) /\ i' = i + 1 /\ pc' = pc BY <1>6 DEF Strncpy, Src, N
  <2>2. i < SrcLen /\ Dest + i \in Addr BY <1>3, <1>4, <1>5, <1>6 DEF Addr
  <2>3. PICK b \in Byte : b = orig[Src + i] BY <1>2, <1>4
  <2>4. b = (IF i < SrcLen THEN orig[Src + i] ELSE NUL) /\ Put(i, b) BY <1>5, <2>1, <2>2, <2>3
  <2>5. CopyOf(x + 1)' /\ mem' \in [Addr -> Byte]
    BY <1>1, <1>2, <1>3, <1>4, <2>2, <2>4, <1>x, CopyMore
  <2>6. Outside' BY <1>1, <1>2, <1>3, <1>4, <1>6, <2>4, <1>x, PutInside
  <2>7. i + 1 \in 0 .. N /\ i + 1 <= SrcLen BY <1>3, <1>4, <1>6, <2>2
  <2>8. i' \in 0 .. N' /\ i' <= SrcLen' /\ CopyOf(i)'
    BY <1>1, <2>1, <2>5, <2>7, <1>x, CallKept DEF CopyOf
  <2>9. StrControl' /\ StrProgress'
    BY <1>1, <1>2, <2>1, <2>8 DEF StrControl, StrProgress, StringPCs
  <2> QED BY <1>1, <1>2, <2>5, <2>6, <2>9, CallKept DEF StrInv
<1>7. CASE ~(At(Src, i) # NUL /\ i < N)
  <2>1. pc' = "pad" /\ UNCHANGED <<mem, i>> BY <1>7 DEF Strncpy, Src, N
  <2>2. i >= SrcLen \/ i = N BY <1>3, <1>4, <1>5, <1>7
  <2>3. CopyOf(i)' BY <1>1, <1>2, <2>1, CallKept DEF CopyOf
  <2>4. StrControl' /\ StrProgress'
    BY <1>1, <1>2, <2>1, <2>2, <2>3, CallKept DEF StrControl, StrProgress, StringPCs
  <2> QED BY <1>1, <1>2, <2>1, <2>4, CallKept, NoWrite DEF StrInv
<1> QED BY <1>6, <1>7

\* A step of its second loop, which fills up.
LEMMA PadNext ==
  ASSUME StrInv, Outside, Pad PROVE StrInv' /\ Outside'
<1>1. pc = "pad" /\ UNCHANGED <<call, orig>> BY DEF Pad
<1>2. /\ call \in Calls /\ mem \in [Addr -> Byte] /\ orig \in [Addr -> Byte]
      /\ Allowed(orig, call) /\ call.fn = "strncpy" /\ i \in 0 .. N /\ CopyOf(i)
      /\ i >= SrcLen \/ i = N
  BY <1>1 DEF StrInv, StrControl, StrProgress
<1>3. /\ M \in Nat /\ Dest \in Nat /\ Src \in Nat /\ SrcLen \in Nat /\ N \in Nat
      /\ Dest + N <= M /\ Target = N
  BY <1>2, CopyArgs
<1> HIDE DEF SrcLen
<1>4. i \in Nat /\ i <= N BY <1>2, <1>3
<1>x. PICK x \in Nat : x = i BY <1>4
<1>6. CASE i < N
  <2>1. Put(i, NUL) /\ i' = i + 1 /\ pc' = pc BY <1>6 DEF Pad, N
  <2>2. Dest + i \in Addr /\ ~(i < SrcLen) BY <1>2, <1>3, <1>4, <1>6 DEF Addr
  <2>3. NUL \in Byte BY DEF NUL, Byte
  <2>4. NUL = IF i < SrcLen THEN orig[Src + i] ELSE NUL BY <2>2
  <2>5. CopyOf(x + 1)' /\ mem' \in [Addr -> Byte]
    BY <1>1, <1>2, <1>3, <1>4, <2>1, <2>2, <2>3, <2>4, <1>x, CopyMore
  <2>6. Outside' BY <1>1, <1>2, <1>3, <1>4, <1>6, <2>1, <1>x, PutInside
  <2>7. i + 1 \in 0 .. N /\ i + 1 >= SrcLen BY <1>2, <1>3, <1>4, <1>6
  <2>8. i' \in 0 .. N' /\ i' >= SrcLen' /\ CopyOf(i)'
    BY <1>1, <2>1, <2>5, <2>7, <1>x, CallKept DEF CopyOf
  <2>9. StrControl' /\ StrProgress'
    BY <1>1, <1>2, <2>1, <2>8 DEF StrControl, StrProgress, StringPCs
  <2> QED BY <1>1, <1>2, <2>5, <2>6, <2>9, CallKept DEF StrInv
<1>7. CASE ~(i < N)
  <2>1. pc' = "done" /\ UNCHANGED <<mem, i>> /\ i = N BY <1>3, <1>4, <1>7 DEF Pad, N
  <2>2. ASSUME NEW k \in 0 .. N - 1
        PROVE  mem[Dest + k] = IF k < SrcLen THEN orig[Src + k] ELSE NUL
    <3>1. PICK a \in Addr : a = Dest + k BY <1>3 DEF Addr
    <3>2. Dest <= a /\ a < Dest + N /\ a - Dest = k BY <1>3, <3>1
    <3> QED BY <1>2, <2>1, <3>1, <3>2 DEF CopyOf
  <2>3. StringDone'
    <3>1. call.fn' = "strncpy" BY <1>1, <1>2
    <3>2. \A k \in 0 .. N' - 1 :
            mem'[Dest' + k] = IF k < SrcLen' THEN orig'[Src' + k] ELSE NUL
      BY <1>1, <2>1, <2>2, CallKept
    <3> QED BY <3>1, <3>2 DEF StringDone, At, SrcLen, Dest, Src, N
  <2>4. StrControl' /\ StrProgress'
    BY <1>1, <1>2, <2>1, <2>3 DEF StrControl, StrProgress, StringPCs
  <2> QED BY <1>1, <1>2, <2>1, <2>4, CallKept, NoWrite DEF StrInv
<1> QED BY <1>6, <1>7

-----------------------------------------------------------------------------
(* strncmp, strrev and itoa.                                                *)

\* While two strings are equal, neither has ended, so the next bytes exist.
LEMMA PrefixInside ==
  ASSUME NEW m, NEW s \in Nat, Terminated(m, s), NEW k \in Nat,
         \A l \in 0 .. k - 1 : m[s + l] # NUL
  PROVE  s + k \in Addr
<1>1. M \in Nat BY ConstantsAssumption
<1>2. PICK a \in Addr : a >= s /\ m[a] = NUL BY DEF Terminated
<1>3. ~(a < s + k)
  <2> SUFFICES ASSUME a < s + k PROVE FALSE OBVIOUS
  <2>1. a - s \in 0 .. k - 1 /\ s + (a - s) = a BY <1>1, <1>2 DEF Addr
  <2> QED BY <1>2, <2>1
<1> QED BY <1>1, <1>2, <1>3 DEF Addr

\* A step of strncmp.
LEMMA StrncmpNext ==
  ASSUME StrInv, Outside, Strncmp PROVE StrInv' /\ Outside'
<1>1. pc = "strncmp" /\ UNCHANGED <<mem, call, orig>> BY DEF Strncmp
<1>2. /\ call \in Calls /\ mem \in [Addr -> Byte] /\ orig \in [Addr -> Byte]
      /\ Allowed(orig, call) /\ call.fn = "strncmp" /\ mem = orig /\ i \in 0 .. N /\ SamePrefix(i)
  BY <1>1 DEF StrInv, StrControl, StrProgress
<1>3. M \in Nat /\ Dest \in Nat /\ Src \in Nat /\ N \in Nat /\ i \in Nat
  BY <1>2, CallTyped, ConstantsAssumption
<1>4. Dest + i \in Addr /\ Src + i \in Addr
  <2>1. Terminated(mem, Src) /\ Terminated(mem, Dest) BY <1>2 DEF Allowed, Dest, Src
  <2>2. \A l \in 0 .. i - 1 : mem[Dest + l] # NUL /\ mem[Src + l] # NUL
    BY <1>2 DEF SamePrefix, At, Dest, Src
  <2>3. Dest + i \in Addr BY <1>3, <2>1, <2>2, PrefixInside
  <2>4. Src + i \in Addr BY <1>3, <2>1, <2>2, PrefixInside
  <2> QED BY <2>3, <2>4
<1>5. PICK b \in Byte, e \in Byte : b = At(call.dest, i) /\ e = At(call.src, i)
  BY <1>2, <1>4 DEF At, Dest, Src
<1>6. PICK x \in Nat : x = i BY <1>3
<1>7. \A k : SamePrefix(k)' <=> SamePrefix(k) BY <1>1 DEF SamePrefix, At
<1>o. Outside' BY <1>1, NoWrite
<1>s. /\ mem' \in [Addr -> Byte] /\ orig' \in [Addr -> Byte] /\ call' \in Calls
      /\ Allowed(orig, call)' /\ call.fn' = "strncmp"
  BY <1>1, <1>2, CallKept
<1>8. CASE i = N
  <2>1. pc' = "done" /\ ret' = 0 BY <1>8 DEF Strncmp, N
  <2>2. ~\E k \in 0 .. call.n - 1 : SamePrefix(k) /\ At(call.dest, k) # At(call.src, k)
    BY <1>2, <1>8 DEF SamePrefix, N
  <2>3. StringDone' BY <1>1, <1>s, <2>1, <2>2 DEF StringDone, SamePrefix, At
  <2>4. StrControl' /\ StrProgress' BY <1>s, <2>1, <2>3 DEF StrControl, StrProgress, StringPCs
  <2> QED BY <1>o, <1>s, <2>4 DEF StrInv
<1>9. CASE i # N /\ (b # e \/ b = NUL)
  <2>1. pc' = "done" /\ ret' = int8(b) - int8(e) BY <1>5, <1>9 DEF Strncmp, N
  <2>2. ret' \in Int /\ (ret' > 0 <=> int8(b) > int8(e)) /\ (ret' = 0 <=> b = e)
    BY <2>1 DEF int8, Byte
  <2>3. x \in 0 .. call.n - 1 BY <1>2, <1>3, <1>6, <1>9 DEF N
  <2>4. StringDone'
    <3>1. CASE b # e
      <4>1. /\ x \in 0 .. call.n' - 1 /\ SamePrefix(x)' /\ At(call.dest, x)' = b
            /\ At(call.src, x)' = e
        BY <1>1, <1>2, <1>5, <1>6, <1>7, <2>3 DEF At
      <4> QED BY <1>s, <2>2, <3>1, <4>1 DEF StringDone
    <3>2. CASE b = e
      <4>1. b = NUL /\ ret' = 0 BY <1>9, <2>2, <3>2
      <4>2. ASSUME NEW k \in 0 .. call.n - 1, SamePrefix(k), At(call.dest, k) # At(call.src, k)
            PROVE  FALSE
        <5>1. k \in Nat BY <1>3 DEF N
        <5>2. ~(x < k)
          <6> SUFFICES ASSUME x < k PROVE FALSE OBVIOUS
          <6>1. x \in 0 .. k - 1 BY <5>1
          <6> QED BY <1>5, <1>6, <4>1, <4>2, <6>1 DEF SamePrefix
        <5>3. ~(k < x)
          <6> SUFFICES ASSUME k < x PROVE FALSE OBVIOUS
          <6>1. k \in 0 .. x - 1 BY <5>1
          <6> QED BY <1>2, <1>6, <4>2, <6>1 DEF SamePrefix
        <5>4. k = x BY <5>1, <5>2, <5>3
        <5> QED BY <1>5, <1>6, <3>2, <4>2, <5>4
      <4>3. ~\E k \in 0 .. call.n' - 1 : SamePrefix(k)' /\ At(call.dest, k)' # At(call.src, k)'
        BY <1>1, <1>7, <4>2 DEF At
      <4> QED BY <1>s, <4>1, <4>3 DEF StringDone, SamePrefix, At
    <3> QED BY <3>1, <3>2
  <2>5. StrControl' /\ StrProgress' BY <1>s, <2>1, <2>4 DEF StrControl, StrProgress, StringPCs
  <2> QED BY <1>o, <1>s, <2>5 DEF StrInv
<1>10. CASE i # N /\ b = e /\ b # NUL
  <2>1. pc' = pc /\ i' = x + 1 BY <1>5, <1>6, <1>10 DEF Strncmp, N
  <2>2. SamePrefix(x + 1)
    <3>1. ASSUME NEW l \in 0 .. (x + 1) - 1 PROVE l = x \/ l \in 0 .. x - 1 OBVIOUS
    <3> QED BY <1>2, <1>5, <1>6, <1>10, <3>1 DEF SamePrefix
  <2>3. SamePrefix(i)' BY <1>1, <2>1, <2>2 DEF SamePrefix, At
  <2>4. i' \in 0 .. N' BY <1>1, <1>2, <1>3, <1>6, <1>10, <2>1, CallKept
  <2>5. StrControl' /\ StrProgress'
    BY <1>1, <1>2, <1>s, <2>1, <2>3, <2>4 DEF StrControl, StrProgress, StringPCs
  <2> QED BY <1>o, <1>s, <2>5 DEF StrInv
<1> QED BY <1>8, <1>9, <1>10

\* Two bytes are exchanged.
LEMMA ReverseMore ==
  ASSUME call \in Calls, mem \in [Addr -> Byte], NEW base, NEW l, Reverses(base, l),
         NEW x \in Nat, NEW y \in Nat, y = l - 1 - x, x < y, Reversed(base, l, x),
         mem' = [mem EXCEPT ![Dest + x] = mem[Dest + y], ![Dest + y] = mem[Dest + x]],
         UNCHANGED <<call, orig>>
  PROVE  Reversed(base, l, x + 1)' /\ mem' \in [Addr -> Byte]
<1>1. M \in Nat /\ Dest \in Nat /\ l \in Nat /\ Dest + l \in Addr
  BY CallTyped, ConstantsAssumption DEF Reverses, IsLength
<1>2. PICK e \in Addr, f \in Addr : e = Dest + x /\ f = Dest + y BY <1>1 DEF Addr
<1>3. mem[e] = base[e] /\ mem[f] = base[f]
  <2>1. \A a \in {e, f} : ~(Dest <= a /\ a < Dest + x) /\ ~(Dest + l - x <= a /\ a < Dest + l)
    BY <1>1, <1>2
  <2> QED BY <1>2, <2>1 DEF Reversed
<1>4. mem' = [mem EXCEPT ![e] = base[f], ![f] = base[e]] BY <1>2, <1>3
<1>5. mem' \in [Addr -> Byte]
  <2>1. base[e] \in Byte /\ base[f] \in Byte BY <1>2 DEF Reverses
  <2> QED BY <1>2, <1>4, <2>1
<1>6. ASSUME NEW a \in Addr
      PROVE  mem'[a] = IF \/ Dest <= a /\ a < Dest + (x + 1)
                          \/ Dest + l - (x + 1) <= a /\ a < Dest + l
                         THEN base[Dest + l - 1 - (a - Dest)] ELSE base[a]
  <2>0. e # f BY <1>1, <1>2
  <2>1. CASE a = e
    <3>1. Dest <= a /\ a < Dest + (x + 1) /\ Dest + l - 1 - (a - Dest) = f BY <1>1, <1>2, <2>1
    <3> QED BY <1>4, <2>0, <2>1, <3>1
  <2>2. CASE a = f
    <3>1. Dest + l - (x + 1) <= a /\ a < Dest + l /\ Dest + l - 1 - (a - Dest) = e
      BY <1>1, <1>2, <2>2
    <3> QED BY <1>4, <2>0, <2>2, <3>1
  <2>3. CASE a # e /\ a # f
    <3>1. /\ (Dest <= a /\ a < Dest + (x + 1)) <=> (Dest <= a /\ a < Dest + x)
          /\ (Dest + l - (x + 1) <= a /\ a < Dest + l) <=> (Dest + l - x <= a /\ a < Dest + l)
      BY <1>1, <1>2, <2>3 DEF Addr
    <3>2. mem'[a] = mem[a] BY <1>4, <2>3
    <3> QED BY <3>1, <3>2 DEF Reversed
  <2> QED BY <2>1, <2>2, <2>3
<1>7. Dest' = Dest BY DEF Dest
<1> QED BY <1>5, <1>6, <1>7 DEF Reversed

\* When the two indices have met, the whole string is reversed.
LEMMA ReversedAll ==
  ASSUME call \in Calls, mem \in [Addr -> Byte], NEW base, NEW l, Reverses(base, l),
         NEW x \in Nat, NEW y \in Int, y = l - 1 - x, ~(x < y), x <= y + 1, Reversed(base, l, x)
  PROVE  /\ l \in Nat /\ strlen(mem, Dest) = l
         /\ \A k \in 0 .. l - 1 : mem[Dest + k] = base[Dest + l - 1 - k]
<1>1. /\ M \in Nat /\ Dest \in Nat /\ l \in Nat /\ Dest + l \in Addr /\ base[Dest + l] = NUL
      /\ \A k \in 0 .. l - 1 : base[Dest + k] # NUL
  BY CallTyped, ConstantsAssumption DEF Reverses, IsLength
<1>2. ASSUME NEW k \in 0 .. l - 1 PROVE mem[Dest + k] = base[Dest + l - 1 - k]
  <2>1. PICK a \in Addr : a = Dest + k BY <1>1 DEF Addr
  <2>2. a - Dest = k /\ Dest <= a /\ a < Dest + l BY <1>1, <2>1
  <2>3. CASE a < Dest + x \/ Dest + l - x <= a
    <3>1. mem[a] = base[Dest + l - 1 - (a - Dest)] BY <2>2, <2>3 DEF Reversed
    <3> QED BY <2>1, <2>2, <3>1
  <2>4. CASE ~(a < Dest + x \/ Dest + l - x <= a)
    <3>1. mem[a] = base[a] BY <2>4 DEF Reversed
    <3>2. Dest + l - 1 - k = a BY <1>1, <2>1, <2>2, <2>4
    <3> QED BY <2>1, <3>1, <3>2
  <2> QED BY <2>3, <2>4
<1>3. IsLength(mem, Dest, l)
  <2>1. mem[Dest + l] = NUL
    <3>1. ~(Dest + l < Dest + x) /\ ~(Dest + l < Dest + l) BY <1>1
    <3> QED BY <1>1, <3>1 DEF Reversed
  <2>2. ASSUME NEW k \in 0 .. l - 1 PROVE mem[Dest + k] # NUL
    <3>1. l - 1 - k \in 0 .. l - 1 /\ Dest + (l - 1 - k) = Dest + l - 1 - k BY <1>1
    <3> QED BY <1>1, <1>2, <3>1
  <2> QED BY <1>1, <2>1, <2>2 DEF IsLength
<1> QED BY <1>1, <1>2, <1>3, LengthUnique

\* A step of strrev, called by itself or by itoa.
LEMMA StrrevNext ==
  ASSUME StrInv, Outside, Strrev PROVE StrInv' /\ Outside'
<1>1. pc = "strrev" /\ UNCHANGED <<call, orig>> BY DEF Strrev
<1>2. /\ call \in Calls /\ mem \in [Addr -> Byte] /\ orig \in [Addr -> Byte]
      /\ Allowed(orig, call) /\ call.fn \in {"strrev", "itoa"} /\ Reversing
  BY <1>1 DEF StrInv, StrControl, StrProgress
<1>3. PICK base, l : /\ Reverses(base, l) /\ i \in 0 .. l /\ j = l - 1 - i /\ i <= j + 1
                     /\ Reversed(base, l, i)
  BY <1>2 DEF Reversing
<1>4. M \in Nat /\ Dest \in Nat /\ l \in Nat /\ Dest + l \in Addr
  BY <1>2, <1>3, CallTyped, ConstantsAssumption DEF Reverses, IsLength
<1>5. PICK x \in Nat, y \in Int : x = i /\ y = j BY <1>3, <1>4
<1>s. /\ orig' \in [Addr -> Byte] /\ call' \in Calls /\ Allowed(orig, call)'
      /\ call.fn' \in {"strrev", "itoa"} /\ Reverses(base, l)'
  BY <1>1, <1>2, <1>3, CallKept DEF Reverses, Digits, IsLength, Dest
<1>6. CASE i < j
  <2>1. /\ mem' = [mem EXCEPT ![Dest + x] = mem[Dest + y], ![Dest + y] = mem[Dest + x]]
        /\ i' = x + 1 /\ j' = y - 1 /\ pc' = pc
    BY <1>5, <1>6 DEF Strrev, At, Dest
  <2>2. y \in Nat /\ x < y /\ y = l - 1 - x BY <1>3, <1>4, <1>5, <1>6
  <2>3. Reversed(base, l, x + 1)' /\ mem' \in [Addr -> Byte]
    BY <1>1, <1>2, <1>3, <1>5, <2>1, <2>2, ReverseMore
  <2>4. Reversing'
    <3>1. x + 1 \in 0 .. l /\ y - 1 = l - 1 - (x + 1) /\ x + 1 <= (y - 1) + 1 BY <1>4, <2>2
    <3>2. Reversed(base, l, i)' BY <2>1, <2>3 DEF Reversed
    <3> QED BY <1>s, <2>1, <3>1, <3>2 DEF Reversing
  <2>5. Outside'
    <3>1. ASSUME NEW a \in Addr, a < Dest \/ a >= Dest + Target PROVE mem'[a] = mem[a]
      <4>1. Target = l \/ Target = M - Dest
        <5>1. CASE call.fn = "itoa" BY <5>1 DEF Target, Dest
        <5>2. CASE call.fn = "strrev"
          <6>1. IsLength(orig, Dest, l) BY <1>3, <5>2 DEF Reverses
          <6> QED BY <1>4, <5>2, <6>1, LengthUnique DEF Target, Dest
        <5> QED BY <1>2, <5>1, <5>2
      <4>2. a # Dest + x /\ a # Dest + y BY <1>4, <2>2, <3>1, <4>1 DEF Addr
      <4> QED BY <1>2, <2>1, <3>1, <4>2
    <3> QED BY <1>1, <3>1, CallKept DEF Outside, Dest
  <2>6. StrControl' /\ StrProgress'
    BY <1>1, <1>s, <2>1, <2>4 DEF StrControl, StrProgress, StringPCs
  <2> QED BY <1>s, <2>3, <2>5, <2>6 DEF StrInv
<1>7. CASE ~(i < j)
  <2>1. pc' = "done" /\ mem' = mem BY <1>7 DEF Strrev
  <2>2. ~(x < y) /\ y = l - 1 - x /\ x <= y + 1 /\ Reversed(base, l, x) BY <1>3, <1>5, <1>7
  <2>3. strlen(mem, Dest) = l /\ \A k \in 0 .. l - 1 : mem[Dest + k] = base[Dest + l - 1 - k]
    BY <1>2, <1>3, <2>2, ReversedAll
  <2>4. StringDone
    <3>1. CASE call.fn = "strrev"
      <4>1. base = orig /\ IsLength(orig, Dest, l) BY <1>3, <3>1 DEF Reverses
      <4>2. strlen(orig, Dest) = l BY <1>4, <4>1, LengthUnique
      <4> QED BY <2>3, <3>1, <4>1, <4>2 DEF StringDone, At, Dest
    <3>2. CASE call.fn = "itoa"
      <4>1. PICK q : Digits(base, q, l) /\ q[l] = 0 /\ l > 0 BY <1>3, <3>2 DEF Reverses
      <4>2. PICK c, r : c = call.c /\ r = call.radix OBVIOUS
      <4>3. c \in Nat /\ r \in 2 .. 36
        <5>1. Values \cup {0} \subseteq Nat /\ Radixes \subseteq 2 .. 36 BY ConstantsAssumption
        <5>2. call.c \in Values \cup {0} /\ call.radix \in Radixes \cup {0} BY <1>2 DEF Calls
        <5>3. call.radix # 0 BY <1>2, <3>2 DEF Allowed, Unused
        <5> QED BY <4>2, <5>1, <5>2, <5>3
      <4>4. Quotients(q, l, c, r) /\ \A k \in 0 .. l - 1 : base[Dest + k] = lookup(q[k] % r)
        BY <4>1, <4>2 DEF Digits
      <4>5. ASSUME NEW k \in 0 .. l - 1 PROVE mem[Dest + k] = lookup(q[l - 1 - k] % r)
        <5>1. l - 1 - k \in 0 .. l - 1 /\ Dest + (l - 1 - k) = Dest + l - 1 - k BY <1>4
        <5> QED BY <2>3, <4>4, <5>1
      <4>6. Denotes(Dest, l, r) = c BY <4>1, <4>3, <4>4, <4>5, NumeralDenotes
      <4>7. mem[Dest + 0] # lookup(0)
        <5>1. PICK z \in Nat : z = q[l - 1] /\ z > 0 /\ z \div r = 0
          <6>1. l - 1 \in 0 .. l - 1 /\ l - 1 \in 0 .. l /\ (l - 1) + 1 = l BY <1>4, <4>1
          <6> QED BY <4>1, <4>4, <6>1 DEF Quotients
        <5>2. z % r = z /\ z \in 0 .. 35
          <6>1. z % r = z /\ z % r \in 0 .. 35 BY <4>3, <5>1, Divided
          <6> QED BY <6>1
        <5>3. mem[Dest + 0] = lookup(z)
          <6>1. 0 \in 0 .. l - 1 /\ l - 1 - 0 = l - 1 BY <1>4, <4>1
          <6> QED BY <4>5, <5>1, <5>2, <6>1
        <5> QED BY <5>1, <5>2, <5>3, Lookups
      <4> QED BY <2>3, <3>2, <4>1, <4>2, <4>6, <4>7 DEF StringDone, At, Dest
    <3> QED BY <1>2, <3>1, <3>2
  <2>5. StringDone'
    BY <1>1, <2>1, <2>4, <1>2 DEF StringDone, At, Denotes, Digit, SamePrefix
  <2>6. StrControl' /\ StrProgress'
    BY <1>1, <1>s, <2>1, <2>5 DEF StrControl, StrProgress, StringPCs
  <2> QED BY <1>1, <1>2, <1>s, <2>1, <2>6, NoWrite DEF StrInv
<1> QED BY <1>6, <1>7

\* A power of 2 is a number, and the next one is twice as much.
LEMMA PowersDouble ==
  Pow2[0] = 1 /\ \A k \in Nat : Pow2[k] \in Nat /\ Pow2[k + 1] = 2 * Pow2[k]
<1>1. \A k \in Nat : Pow2[k] = IF k = 0 THEN 1 ELSE 2 * Pow2[k - 1] BY Powers
<1>2. Pow2[0] = 1 BY <1>1
<1>3. \A k \in Nat : Pow2[k + 1] = 2 * Pow2[k]
  <2> TAKE k \in Nat
  <2>1. k + 1 \in Nat /\ k + 1 # 0 /\ (k + 1) - 1 = k OBVIOUS
  <2> QED BY <1>1, <2>1
<1> DEFINE S == {k \in Nat : Pow2[k] \in Nat}
<1>4. 0 \in S BY <1>2
<1>5. ASSUME NEW k \in Nat, k \in S PROVE k + 1 \in S
  <2>1. PICK p \in Nat : p = Pow2[k] BY <1>5
  <2>2. Pow2[k + 1] = 2 * p BY <1>3, <2>1
  <2>3. 2 * p \in Nat OBVIOUS
  <2> QED BY <2>2, <2>3
<1>6. \A k \in Nat : k \in S
  <2> HIDE DEF S
  <2> QED BY <1>4, <1>5, InductionBySet
<1> QED BY <1>2, <1>3, <1>6

\* The arguments of itoa.
LEMMA ItoaArgs ==
  ASSUME call \in Calls, Allowed(orig, call), call.fn = "itoa"
  PROVE  /\ M \in Nat /\ Dest \in Nat /\ Dest + 1 < M /\ call.c \in Nat /\ call.radix \in 2 .. 36
         /\ call.c < Pow2[M - 1 - Dest] /\ Target = M - Dest
<1>1. Values \cup {0} \subseteq Nat /\ Radixes \subseteq 2 .. 36 BY ConstantsAssumption
<1>2. call.c \in Values \cup {0} /\ call.radix \in Radixes \cup {0} BY DEF Calls
<1>3. call.radix # 0 BY DEF Allowed, Unused
<1>4. Dest + 1 < M /\ call.c < Pow2[M - 1 - Dest] BY DEF Allowed, Dest
<1>5. Target = M - Dest BY DEF Target, Dest
<1>6. M \in Nat /\ Dest \in Nat BY CallTyped, ConstantsAssumption
<1> QED BY <1>1, <1>2, <1>3, <1>4, <1>5, <1>6

\* A digit more: there is room for it, because the value halves at least.
LEMMA ItoaDigitNext ==
  ASSUME StrInv, Outside, ItoaDigit PROVE StrInv' /\ Outside'
<1>1. pc = "itoa" /\ pc' = pc /\ newval > 0 /\ UNCHANGED <<call, orig>> BY DEF ItoaDigit
<1>2. /\ call \in Calls /\ mem \in [Addr -> Byte] /\ orig \in [Addr -> Byte]
      /\ Allowed(orig, call) /\ call.fn = "itoa" /\ Converting
  BY <1>1 DEF StrInv, StrControl, StrProgress
<1>3. PICK r \in 2 .. 36, c \in Nat : r = call.radix /\ c = call.c BY <1>2, ItoaArgs
<1>4. M \in Nat /\ Dest \in Nat /\ Target = M - Dest BY <1>2, ItoaArgs
<1>5. PICK x \in Nat, v \in Nat : x = i /\ v = newval /\ Dest + x < M /\ v < Pow2[M - 1 - Dest - x]
  BY <1>2 DEF Converting
<1>6. PICK q : Digits(mem, q, x) /\ q[x] = v BY <1>2, <1>5 DEF Converting
<1>7. PICK b \in Byte : b = lookup(v % r) BY Divided, Lookups
<1>8. Put(x, b) /\ i' = x + 1 /\ newval' = v \div r BY <1>3, <1>5, <1>7 DEF ItoaDigit
<1>9. PICK e \in Addr : e = Dest + x BY <1>4, <1>5 DEF Addr
<1>10. mem' = [mem EXCEPT ![e] = b] BY <1>8, <1>9 DEF Put, Dest
<1>11. mem' \in [Addr -> Byte] BY <1>2, <1>10
<1>12. Outside'
  <2>1. Target \in Nat /\ x < Target BY <1>4, <1>5
  <2> QED BY <1>1, <1>2, <1>8, <2>1, PutInside
<1>13. Dest + (x + 1) < M /\ v \div r < Pow2[M - 1 - Dest - (x + 1)]
  <2>1. PICK p \in Nat : p = M - 1 - Dest - x BY <1>4, <1>5
  <2>2. p # 0 BY <1>1, <1>5, <2>1, PowersDouble
  <2>3. PICK y \in Nat : y + 1 = p /\ y = M - 1 - Dest - (x + 1) BY <1>4, <1>5, <2>1, <2>2
  <2>4. PICK z \in Nat : z = Pow2[y] BY PowersDouble
  <2>5. v < 2 * z BY <1>5, <2>1, <2>3, <2>4, PowersDouble
  <2>6. v \div r < z
    <3>1. r \in Nat /\ r > 1 OBVIOUS
    <3> QED BY <2>5, <3>1
  <2>7. Dest + (x + 1) < M BY <1>4, <2>3
  <2> QED BY <2>3, <2>4, <2>6, <2>7
<1>14. PICK w : w = [k \in 0 .. x + 1 |-> IF k = x + 1 THEN v \div r ELSE q[k]] OBVIOUS
<1>15. Quotients(w, x + 1, c, r)
  <2>1. /\ q \in [0 .. x -> Nat] /\ q[0] = c
        /\ \A k \in 0 .. x - 1 : q[k] > 0 /\ q[k + 1] = q[k] \div r
    BY <1>3, <1>6 DEF Digits, Quotients
  <2>2. v \div r \in Nat BY Divided
  <2>3. \A k \in 0 .. x : w[k] = q[k] BY <1>14
  <2>4. w[x + 1] = v \div r BY <1>14
  <2>5. w \in [0 .. x + 1 -> Nat]
    <3>1. ASSUME NEW k \in 0 .. x + 1 PROVE w[k] \in Nat
      <4>1. k = x + 1 \/ k \in 0 .. x OBVIOUS
      <4> QED BY <2>1, <2>2, <2>3, <2>4, <4>1
    <3> QED BY <1>14, <3>1
  <2>6. ASSUME NEW k \in 0 .. (x + 1) - 1 PROVE w[k] > 0 /\ w[k + 1] = w[k] \div r
    <3>1. CASE k = x BY <1>1, <1>5, <1>6, <2>3, <2>4, <3>1
    <3>2. CASE k # x
      <4>1. k \in 0 .. x - 1 /\ k \in 0 .. x /\ k + 1 \in 0 .. x BY <3>2
      <4> QED BY <2>1, <2>3, <4>1
    <3> QED BY <3>1, <3>2
  <2>7. w[0] = c /\ x + 1 \in Nat BY <2>1, <2>3
  <2> QED BY <2>5, <2>6, <2>7 DEF Quotients
<1>16. ASSUME NEW k \in 0 .. (x + 1) - 1 PROVE mem'[Dest + k] = lookup(w[k] % r)
  <2>1. k \in 0 .. x /\ w[k] = q[k] BY <1>14
  <2>2. CASE k = x BY <1>2, <1>6, <1>7, <1>9, <1>10, <2>1, <2>2
  <2>3. CASE k # x
    <3>1. k \in 0 .. x - 1 /\ Dest + k # e /\ Dest + k \in Addr BY <1>4, <1>9, <2>1, <2>3 DEF Addr
    <3>2. mem'[Dest + k] = mem[Dest + k] BY <1>2, <1>10, <3>1
    <3> QED BY <1>3, <1>6, <2>1, <3>1, <3>2 DEF Digits
  <2> QED BY <2>2, <2>3
<1>17. Digits(mem, w, i)' /\ w[i'] = newval'
  <2>1. w[x + 1] = v \div r BY <1>14
  <2>2. Dest' = Dest /\ call.c' = c /\ call.radix' = r BY <1>1, <1>3 DEF Dest
  <2> QED BY <1>8, <1>15, <1>16, <2>1, <2>2 DEF Digits, Quotients
<1>18. Converting'
  <2>1. v \div r \in Nat /\ x + 1 \in Nat /\ Dest' = Dest BY <1>1, Divided DEF Dest
  <2> QED BY <1>8, <1>13, <1>17, <2>1 DEF Converting
<1>19. StrControl' /\ StrProgress'
  BY <1>1, <1>2, <1>18 DEF StrControl, StrProgress, StringPCs
<1> QED BY <1>1, <1>2, <1>11, <1>12, <1>19, CallKept DEF StrInv

\* The digits are ended with a 0 and handed to strrev.
LEMMA ItoaReverseNext ==
  ASSUME StrInv, Outside, ItoaReverse PROVE StrInv' /\ Outside'
<1>1. pc = "itoa" /\ pc' = "strrev" /\ newval = 0 /\ call.c # 0 /\ UNCHANGED <<call, orig>>
  BY DEF ItoaReverse
<1>2. /\ call \in Calls /\ mem \in [Addr -> Byte] /\ orig \in [Addr -> Byte]
      /\ Allowed(orig, call) /\ call.fn = "itoa" /\ Converting
  BY <1>1 DEF StrInv, StrControl, StrProgress
<1>3. PICK r \in 2 .. 36, c \in Nat : r = call.radix /\ c = call.c BY <1>2, ItoaArgs
<1>4. M \in Nat /\ Dest \in Nat /\ Target = M - Dest BY <1>2, ItoaArgs
<1>5. PICK x \in Nat : x = i /\ Dest + x < M BY <1>2 DEF Converting
<1>6. PICK q : Digits(mem, q, x) /\ q[x] = 0 BY <1>1, <1>2, <1>5 DEF Converting
<1>7. NUL \in Byte /\ Put(x, NUL) /\ i' = 0 /\ j' = strlen(mem', Dest) - 1
  BY <1>5 DEF ItoaReverse, NUL, Byte, Dest
<1>8. PICK e \in Addr : e = Dest + x BY <1>4, <1>5 DEF Addr
<1>9. mem' = [mem EXCEPT ![e] = NUL] BY <1>7, <1>8 DEF Put, Dest
<1>10. mem' \in [Addr -> Byte] BY <1>2, <1>7, <1>9
<1>11. Outside'
  <2>1. Target \in Nat /\ x < Target BY <1>4, <1>5
  <2> QED BY <1>1, <1>2, <1>7, <2>1, PutInside
<1>12. PICK base : base = mem' OBVIOUS
<1>13. /\ q \in [0 .. x -> Nat] /\ q[0] = c /\ Quotients(q, x, c, r)
       /\ \A k \in 0 .. x - 1 : mem[Dest + k] = lookup(q[k] % r)
  BY <1>3, <1>6 DEF Digits, Quotients
<1>14. ASSUME NEW k \in 0 .. x - 1
       PROVE  base[Dest + k] = lookup(q[k] % r) /\ base[Dest + k] # NUL
  <2>1. Dest + k \in Addr /\ Dest + k # e BY <1>4, <1>8 DEF Addr
  <2>2. base[Dest + k] = mem[Dest + k] BY <1>2, <1>9, <1>12, <2>1
  <2>3. q[k] \in Nat BY <1>13
  <2>4. q[k] % r \in 0 .. 35 BY <2>3, Divided
  <2> QED BY <1>13, <2>2, <2>4, Lookups
<1>15. IsLength(base, Dest, x) BY <1>2, <1>8, <1>9, <1>12, <1>14 DEF IsLength
<1>16. x > 0
  <2>1. x # 0 BY <1>1, <1>3, <1>6, <1>13
  <2> QED BY <2>1
<1>17. Reverses(base, x)'
  <2>1. Digits(base, q, x)' BY <1>1, <1>3, <1>13, <1>14 DEF Digits, Dest
  <2>2. base \in [Addr -> Byte] BY <1>10, <1>12
  <2>3. IsLength(base, Dest, x)' BY <1>1, <1>15 DEF IsLength, Dest
  <2>4. call.fn' = "itoa" BY <1>1, <1>2
  <2> QED BY <1>6, <1>16, <2>1, <2>2, <2>3, <2>4 DEF Reverses
<1>18. Reversing'
  <2>1. strlen(base, Dest) = x BY <1>4, <1>15, LengthUnique
  <2>2. i' = 0 /\ j' = x - 1 BY <1>7, <1>12, <2>1
  <2>3. Reversed(base, x, 0)'
    <3>1. Dest' = Dest BY <1>1 DEF Dest
    <3>2. \A a \in Addr : /\ ~(Dest <= a /\ a < Dest + 0)
                          /\ ~(Dest + x - 0 <= a /\ a < Dest + x)
      BY <1>4 DEF Addr
    <3> QED BY <1>12, <3>1, <3>2 DEF Reversed
  <2>4. i' \in 0 .. x /\ j' = x - 1 - i' /\ i' <= j' + 1 BY <1>16, <2>2
  <2>5. Reversed(base, x, i)' BY <2>2, <2>3 DEF Reversed
  <2> QED BY <1>17, <2>4, <2>5 DEF Reversing
<1>19. StrControl' /\ StrProgress'
  BY <1>1, <1>2, <1>18 DEF StrControl, StrProgress, StringPCs
<1> QED BY <1>1, <1>2, <1>10, <1>11, <1>19, CallKept DEF StrInv

\* The value 0 has one digit.
LEMMA ItoaZeroNext ==
  ASSUME StrInv, Outside, ItoaZero PROVE StrInv' /\ Outside'
<1>1. pc = "itoa" /\ pc' = "done" /\ call.c = 0 /\ UNCHANGED <<call, orig>> BY DEF ItoaZero
<1>2. /\ call \in Calls /\ mem \in [Addr -> Byte] /\ orig \in [Addr -> Byte]
      /\ Allowed(orig, call) /\ call.fn = "itoa"
  BY <1>1 DEF StrInv, StrControl, StrProgress
<1>3. PICK r \in 2 .. 36 : r = call.radix BY <1>2, ItoaArgs
<1>4. M \in Nat /\ Dest \in Nat /\ Dest + 1 < M /\ Target = M - Dest BY <1>2, ItoaArgs
<1>5. PICK e \in Addr, f \in Addr : e = Dest /\ f = Dest + 1 BY <1>4 DEF Addr
<1>6. mem' = [mem EXCEPT ![e] = 48, ![f] = NUL] BY <1>5 DEF ItoaZero, Dest
<1>7. mem' \in [Addr -> Byte] BY <1>2, <1>6 DEF Byte, NUL
<1>8. mem'[Dest + 0] = 48 /\ mem'[Dest + 1] = NUL BY <1>2, <1>4, <1>5, <1>6
<1>9. Outside'
  <2>1. ASSUME NEW a \in Addr, a < Dest \/ a >= Dest + Target PROVE mem'[a] = orig[a]
    <3>1. a # e /\ a # f BY <1>4, <1>5, <2>1 DEF Addr
    <3>2. mem'[a] = mem[a] BY <1>2, <1>6, <3>1
    <3> QED BY <2>1, <3>2 DEF Outside, Dest
  <2> QED BY <1>1, <2>1, CallKept DEF Outside, Dest
<1>10. strlen(mem', Dest) = 1
  <2>1. IsLength(mem', Dest, 1) BY <1>4, <1>5, <1>8 DEF IsLength, NUL
  <2> QED BY <1>4, <2>1, LengthUnique
<1>11. Denotes(Dest, 1, r)' = 0
  <2> DEFINE F(v) == v = [k \in 0 .. 1 |-> IF k = 0 THEN 0
                                           ELSE r * v[k - 1] + Digit(mem'[Dest + k - 1])]
  <2>1. PICK w : w = [k \in 0 .. 1 |-> 0] OBVIOUS
  <2>2. Digit(mem'[Dest + 1 - 1]) = 0
    <3>1. Dest + 1 - 1 = Dest + 0 BY <1>4
    <3> QED BY <1>8, <3>1 DEF Digit
  <2>3. F(w)
    <3>1. ASSUME NEW k \in 0 .. 1
          PROVE  0 = IF k = 0 THEN 0 ELSE r * w[k - 1] + Digit(mem'[Dest + k - 1])
      <4>1. CASE k = 0 BY <4>1
      <4>2. CASE k = 1
        <5>1. w[0] = 0 /\ r * 0 = 0 BY <2>1
        <5> QED BY <2>2, <4>2, <5>1
      <4> QED BY <4>1, <4>2
    <3> QED BY <2>1, <3>1
  <2>4. PICK v : v = CHOOSE u : F(u) OBVIOUS
  <2>5. F(v) BY <2>3, <2>4
  <2>6. v[0] = 0 BY <2>5
  <2>7. v[1] = r * v[0] + Digit(mem'[Dest + 1 - 1]) BY <2>5
  <2>8. v[1] = 0 BY <2>2, <2>6, <2>7
  <2>9. Dest' = Dest BY <1>1 DEF Dest
  <2>10. Denotes(Dest, 1, r)' = v[1] BY <2>4, <2>9 DEF Denotes, Digit
  <2> QED BY <2>8, <2>10
<1>12. StringDone'
  <2>1. call.fn' = "itoa" /\ call.c' = 0 /\ call.radix' = r /\ call.dest' = Dest /\ Dest' = Dest
    BY <1>1, <1>2, <1>3 DEF Dest
  <2>2. strlen(mem', call.dest') = 1 BY <1>10, <2>1
  <2>3. Denotes(call.dest, 1, call.radix)' = 0 BY <1>11, <2>1 DEF Denotes
  <2> QED BY <2>1, <2>2, <2>3 DEF StringDone
<1>13. StrControl' /\ StrProgress'
  BY <1>1, <1>2, <1>12 DEF StrControl, StrProgress, StringPCs
<1> QED BY <1>1, <1>2, <1>7, <1>9, <1>13, CallKept DEF StrInv

\* The entry of a string function.
LEMMA EnterNext ==
  ASSUME StrInv, Outside, call.fn \notin MemoryFns, Enter PROVE StrInv' /\ Outside'
<1>1. /\ pc = "entry" /\ UNCHANGED <<mem, call, i, orig>> /\ pc' = call.fn
      /\ j' = (IF call.fn = "strrev" THEN strlen(mem, Dest) - 1 ELSE 0) /\ newval' = call.c
  BY DEF Enter, MemoryFns, Dest
<1>2. /\ call \in Calls /\ mem \in [Addr -> Byte] /\ orig \in [Addr -> Byte]
      /\ Allowed(orig, call) /\ mem = orig /\ i = 0
  BY <1>1 DEF StrInv, StrProgress
<1>3. M \in Nat /\ Dest \in Nat /\ Src \in Nat /\ N \in Nat
  BY <1>2, CallTyped, ConstantsAssumption
<1>4. call.fn \in {"strcpy", "strncpy", "strncmp", "strrev", "itoa"}
  BY <1>2 DEF Calls, Functions, MemoryFns
<1>5. Outside' BY <1>1, NoWrite
<1>s. /\ mem' \in [Addr -> Byte] /\ orig' \in [Addr -> Byte] /\ call' \in Calls
      /\ Allowed(orig, call)'
  BY <1>1, <1>2, CallKept
<1>6. StrControl' BY <1>1, <1>4 DEF StrControl, StringPCs
<1>7. CASE call.fn \in {"strcpy", "strncpy"}
  <2>1. SrcLen \in Nat BY <1>2, <1>7, CopyArgs
  <2>2. SrcLen' = SrcLen /\ Dest' = Dest /\ N' = N BY <1>1, CallKept
  <2>3. CopyOf(i)'
    <3>1. \A a \in Addr : ~(Dest <= a /\ a < Dest + 0) BY <1>3 DEF Addr
    <3> QED BY <1>1, <1>2, <2>2, <3>1 DEF CopyOf
  <2>4. i' \in 0 .. SrcLen' /\ i' \in 0 .. N' /\ i' <= SrcLen' BY <1>1, <1>2, <1>3, <2>1, <2>2
  <2>5. StrProgress' BY <1>1, <1>7, <2>3, <2>4 DEF StrProgress
  <2> QED BY <1>5, <1>6, <1>s, <2>5 DEF StrInv
<1>8. CASE call.fn = "strncmp"
  <2>1. i' \in 0 .. N' /\ mem' = orig' BY <1>1, <1>2, <1>3, CallKept
  <2>2. SamePrefix(i)' BY <1>1, <1>2 DEF SamePrefix
  <2>3. StrProgress' BY <1>1, <1>8, <2>1, <2>2 DEF StrProgress
  <2> QED BY <1>5, <1>6, <1>s, <2>3 DEF StrInv
<1>9. CASE call.fn = "strrev"
  <2>1. PICK l : l = strlen(orig, Dest) OBVIOUS
  <2>2. Terminated(orig, Dest) BY <1>2, <1>9 DEF Allowed, Dest
  <2>3. IsLength(orig, Dest, l) BY <1>3, <2>1, <2>2, LengthIs
  <2>4. l \in Nat /\ i' = 0 /\ j' = l - 1 BY <1>1, <1>2, <1>9, <2>1, <2>3 DEF IsLength
  <2>5. PICK base : base = orig OBVIOUS
  <2>6. Reverses(base, l)'
    <3>1. IsLength(base, Dest, l)' BY <1>1, <2>3, <2>5 DEF IsLength, Dest
    <3> QED BY <1>1, <1>2, <1>9, <2>5, <3>1 DEF Reverses
  <2>7. Reversed(base, l, i)'
    <3>1. \A a \in Addr : /\ ~(Dest <= a /\ a < Dest + 0)
                          /\ ~(Dest + l - 0 <= a /\ a < Dest + l)
      BY <1>3, <2>4 DEF Addr
    <3>2. Dest' = Dest BY <1>1, CallKept
    <3> QED BY <1>1, <1>2, <2>4, <2>5, <3>1, <3>2 DEF Reversed
  <2>8. i' \in 0 .. l /\ j' = l - 1 - i' /\ i' <= j' + 1 BY <2>4
  <2>9. Reversing' BY <2>6, <2>7, <2>8 DEF Reversing
  <2>10. StrProgress' BY <1>1, <1>9, <2>9 DEF StrProgress
  <2> QED BY <1>5, <1>6, <1>s, <2>10 DEF StrInv
<1>10. CASE call.fn = "itoa"
  <2>1. PICK c \in Nat : c = call.c /\ Dest + 1 < M /\ c < Pow2[M - 1 - Dest]
    BY <1>2, <1>10, ItoaArgs
  <2>2. PICK q : q = [k \in 0 .. 0 |-> c] OBVIOUS
  <2>3. q \in [0 .. 0 -> Nat] /\ q[0] = c BY <2>2
  <2>4. Digits(mem, q, i)' /\ q[i'] = newval' /\ newval' = c /\ i' = 0
    BY <1>1, <1>2, <2>1, <2>3 DEF Digits, Quotients
  <2>5. Dest' = Dest /\ M - 1 - Dest - 0 = M - 1 - Dest /\ Dest + 0 < M
    BY <1>1, <1>3, <2>1, CallKept
  <2>6. Converting' BY <2>1, <2>4, <2>5 DEF Converting
  <2>7. StrProgress' BY <1>1, <1>10, <2>6 DEF StrProgress
  <2> QED BY <1>5, <1>6, <1>s, <2>7 DEF StrInv
<1> QED BY <1>4, <1>7, <1>8, <1>9, <1>10

\* Every step of a string function.
LEMMA StrNext ==
  ASSUME StrInv, Outside, call.fn \notin MemoryFns, [Next]_vars
  PROVE  StrInv' /\ Outside'
<1>1. pc \in StringPCs \cup {"entry", "done"} BY DEF StrInv, StrControl
<1>2. CASE UNCHANGED vars
  <2>1. UNCHANGED <<mem, call, pc, i, j, newval, ret, orig>> BY <1>2 DEF vars, locals
  <2>2. StrControl' BY <2>1 DEF StrInv, StrControl
  <2>3. StringDone' <=> StringDone
    BY <2>1 DEF StringDone, At, SamePrefix, Denotes
  <2>4. (Reversing' <=> Reversing) /\ (Converting' <=> Converting)
    BY <2>1 DEF Reversing, Converting, Reverses, Reversed, Digits, IsLength, Dest
  <2>5. (CopyOf(i)' <=> CopyOf(i)) /\ (SamePrefix(i)' <=> SamePrefix(i)) /\ SrcLen' = SrcLen
        /\ N' = N
    BY <2>1, CallKept DEF CopyOf, SamePrefix, At
  <2>6. StrProgress' BY <2>1, <2>3, <2>4, <2>5 DEF StrInv, StrProgress
  <2> QED BY <2>1, <2>2, <2>6, CallKept, NoWrite DEF StrInv
<1>3. CASE Enter BY <1>3, EnterNext
<1>4. CASE Strcpy BY <1>4, StrcpyNext
<1>5. CASE Strncpy BY <1>5, StrncpyNext
<1>6. CASE Pad BY <1>6, PadNext
<1>7. CASE Strncmp BY <1>7, StrncmpNext
<1>8. CASE Strrev BY <1>8, StrrevNext
<1>9. CASE ItoaDigit BY <1>9, ItoaDigitNext
<1>10. CASE ItoaReverse BY <1>10, ItoaReverseNext
<1>11. CASE ItoaZero BY <1>11, ItoaZeroNext
<1>12. CASE \/ TopDone \/ TopByte \/ Aligned \/ Words \/ WordsDone \/ BottomByte \/ BottomDone
            \/ Memmove \/ Bytes \/ BytesDone
  BY <1>1, <1>12 DEF TopDone, TopByte, Aligned, Words, WordsDone, BottomByte, BottomDone, Memmove,
     Bytes, BytesDone, StringPCs, MemoryFns
<1> QED
  BY <1>2, <1>3, <1>4, <1>5, <1>6, <1>7, <1>8, <1>9, <1>10, <1>11, <1>12 DEF Next

\* The memory functions write within the destination, also memcpy of ranges that overlap.
LEMMA MemOutside ==
  ASSUME MemInv, call.fn \in MemoryFns, Outside, [Next]_vars
  PROVE  Outside'
<1> USE DEF regs, locals
<1>1. /\ M \in Nat /\ Dest \in Nat /\ N \in Nat /\ Dest + N <= M /\ Progress /\ Control
      /\ Target = N /\ ecx \in Int /\ edx \in Int /\ df \in BOOLEAN
  BY CallTyped, ConstantsAssumption DEF MemInv, InMemory, Target, MemoryFns, N
<1>2. ASSUME NEW w \in 1 .. 4, mem' = Stored(w), UNCHANGED <<call, orig>>,
             NEW k \in Nat, edi = Dest + k, k + w <= N
      PROVE  Outside'
  <2>1. ASSUME NEW a \in Addr, a < Dest \/ a >= Dest + Target PROVE mem'[a] = orig[a]
    <3>1. ~(edi <= a /\ a < edi + w) BY <1>1, <1>2, <2>1 DEF Addr
    <3>2. mem'[a] = mem[a] BY <1>2, <3>1 DEF Stored
    <3> QED BY <2>1, <3>2 DEF Outside, Dest
  <2> QED BY <1>2, <2>1, CallKept DEF Outside, Dest
<1>3. CASE UNCHANGED <<mem, call, orig>> BY <1>3, NoWrite
<1>4. CASE TopByte
  <2>1. pc = "top" /\ ecx # 0 /\ mem' = Stored(1) /\ UNCHANGED <<call, orig>>
    BY <1>4 DEF TopByte, Forward
  <2>2. N - ecx \in 0 .. N /\ edi = Dest + (N - ecx) BY <1>1, <2>1 DEF Progress, Up
  <2>3. N - ecx \in Nat /\ (N - ecx) + 1 <= N BY <1>1, <2>1, <2>2
  <2> QED BY <1>2, <2>1, <2>2, <2>3
<1>5. CASE BottomByte
  <2>1. pc = "bottom" /\ edx # 0 /\ mem' = Stored(1) /\ UNCHANGED <<call, orig>>
    BY <1>5 DEF BottomByte, Forward
  <2>2. N - edx \in 0 .. N /\ edi = Dest + (N - edx) BY <1>1, <2>1 DEF Progress, Up
  <2>3. N - edx \in Nat /\ (N - edx) + 1 <= N BY <1>1, <2>1, <2>2
  <2> QED BY <1>2, <2>1, <2>2, <2>3
<1>6. CASE Words
  <2>1. pc = "words" /\ ecx # 0 /\ mem' = Stored(4) /\ UNCHANGED <<call, orig>>
    BY <1>6 DEF Words, WORD
  <2>2. /\ ecx \in Nat /\ edx \in Nat /\ N - 4 * ecx - edx \in 0 .. N
        /\ edi = Dest + (N - 4 * ecx - edx)
    BY <1>1, <2>1 DEF Progress, Up
  <2>3. N - 4 * ecx - edx \in Nat /\ (N - 4 * ecx - edx) + 4 <= N BY <1>1, <2>1, <2>2
  <2> QED BY <1>2, <2>1, <2>2, <2>3
<1>7. CASE Bytes
  <2>1. pc = "bytes" /\ ecx # 0 /\ mem' = Stored(1) /\ UNCHANGED <<call, orig>>
    BY <1>7 DEF Bytes
  <2>2. ecx \in 0 .. N BY <1>1, <2>1 DEF Progress
  <2>3. CASE df
    <3>1. edi = Dest + ecx - 1 BY <1>1, <2>1, <2>3 DEF Progress, Down
    <3>2. ecx - 1 \in Nat /\ edi = Dest + (ecx - 1) /\ (ecx - 1) + 1 <= N BY <1>1, <2>1, <2>2, <3>1
    <3> QED BY <1>2, <2>1, <3>2
  <2>4. CASE ~df
    <3>1. edi = Dest + (N - ecx) BY <1>1, <2>1, <2>4 DEF Progress, Up
    <3>2. N - ecx \in Nat /\ (N - ecx) + 1 <= N BY <1>1, <2>1, <2>2
    <3> QED BY <1>2, <2>1, <3>1, <3>2
  <2> QED BY <2>3, <2>4
<1>8. CASE \/ Enter \/ TopDone \/ Aligned \/ WordsDone \/ BottomDone \/ Memmove \/ BytesDone
           \/ UNCHANGED vars
  BY <1>3, <1>8 DEF Enter, TopDone, Aligned, WordsDone, BottomDone, Memmove, BytesDone, vars
<1>9. CASE Strcpy \/ Strncpy \/ Pad \/ Strncmp \/ Strrev \/ ItoaDigit \/ ItoaReverse \/ ItoaZero
  BY <1>1, <1>9
  DEF Strcpy, Strncpy, Pad, Strncmp, Strrev, ItoaDigit, ItoaReverse, ItoaZero, Control, StringPCs
<1> QED BY <1>4, <1>5, <1>6, <1>7, <1>8, <1>9 DEF Next

\* A call begins with TextInv.
LEMMA TextInit == Init => TextInv
<1> SUFFICES ASSUME Init PROVE TextInv OBVIOUS
<1>1. IInv BY InitIInv
<1>2. mem \in [Addr -> Byte] /\ orig = mem /\ call \in Calls /\ Allowed(orig, call) /\ pc = "entry"
      /\ i = 0
  BY ConstantsAssumption DEF Init
<1>3. Outside BY <1>2 DEF Outside
<1>4. StrControl /\ StrProgress BY <1>2 DEF StrControl, StrProgress, StringPCs
<1> QED BY <1>1, <1>2, <1>3, <1>4 DEF TextInv, StrInv

\* Every step keeps TextInv.
LEMMA TextNext == TextInv /\ [Next]_vars => TextInv'
<1> SUFFICES ASSUME TextInv, [Next]_vars PROVE TextInv' OBVIOUS
<1>1. IInv' BY IInvNext DEF TextInv
<1>2. CASE call.fn \in MemoryFns
  <2>1. MemInv BY <1>2 DEF TextInv, IInv
  <2>2. Outside' /\ call' = call BY <1>2, <2>1, MemOutside, MemNext DEF TextInv
  <2> QED BY <1>1, <1>2, <2>2 DEF TextInv
<1>3. CASE call.fn \notin MemoryFns BY <1>1, <1>3, StrNext DEF TextInv
<1> QED BY <1>2, <1>3

-----------------------------------------------------------------------------
\* For every memory, every length and every radix: strcpy and strncpy leave the copy they
\* promise, strncmp the order of the first difference, strrev the reverse and itoa the
\* shortest numeral of its value, whatever the value; and no function of lib.c modelled
\* here writes a byte outside its destination, at any step.
THEOREM StringsCorrect == Spec => []StringResult
<1>1. TextInv => StringResult
  <2> SUFFICES ASSUME TextInv PROVE StringResult OBVIOUS
  <2>1. Outside BY DEF TextInv
  <2>2. pc = "done" => StringDone
    <3>1. CASE call.fn \in MemoryFns BY <3>1 DEF StringDone, MemoryFns
    <3>2. CASE call.fn \notin MemoryFns BY <3>2 DEF TextInv, StrInv, StrProgress
    <3> QED BY <3>1, <3>2
  <2> QED BY <2>1, <2>2 DEF StringResult, Outside, StringDone
<1> QED BY <1>1, TextInit, TextNext, PTL DEF Spec
=============================================================================
