-------------------------------- MODULE Lib ---------------------------------
(***************************************************************************)
(* The memory and string functions of lib.c on which the rest of the       *)
(* kernel rests: memset, memcpy and memmove, which are loops of            *)
(* instructions over registers, and the C loops of strlen, strcpy,         *)
(* strncpy, strncmp, strrev and itoa.                                      *)
(*                                                                         *)
(* A behaviour is one call, from a memory and a direction flag that are    *)
(* what earlier code left.  A step is one turn of a loop; a step of rep    *)
(* movsl or rep stosl moves a word.                                        *)
(***************************************************************************)
EXTENDS Integers

CONSTANTS
  M,          \* bytes of memory
  Memories,   \* contents that a call may find
  Values,     \* values for memset and itoa
  Radixes     \* for itoa

WORD == 4
Addr == 0 .. M - 1
Byte == 0 .. 255
NUL  == 0

ASSUME ConstantsAssumption ==
  /\ M \in Nat
  /\ Memories \subseteq [Addr -> Byte]
  /\ Values \subseteq Nat
  /\ Radixes \subseteq 2 .. 36

VARIABLES
  mem,                   \* memory
  call,                  \* the function and its arguments
  pc,                    \* the loop it is in, "done" after ret
  edi, esi, ecx, edx,    \* registers of the assembler functions
  df,                    \* direction flag, TRUE: backward
  i, j, newval,          \* locals of the C functions: i is beg and j is end of strrev
  ret,                   \* what strncmp returns
  orig                   \* history: memory at the call

regs   == <<edi, esi, ecx, edx, df>>
locals == <<i, j, newval, ret>>
vars   == <<mem, call, pc, regs, locals, orig>>

-----------------------------------------------------------------------------
(* Calls with the ranges that their callers have to see to.                 *)

Fits(a, k) == a + k <= M

Terminated(m, s) == \E a \in Addr : a >= s /\ m[a] = NUL

strlen(m, s) == CHOOSE k \in Addr : /\ s + k \in Addr /\ m[s + k] = NUL
                                    /\ \A l \in 0 .. k - 1 : m[s + l] # NUL

Disjoint(a, k, b, l) == a + k <= b \/ b + l <= a

(* The powers of 2.                                                         *)
Pow2[k \in Nat] == IF k = 0 THEN 1 ELSE 2 * Pow2[k - 1]

Functions == {"memcpy", "memmove", "memset", "strcpy", "strncpy", "strncmp", "strrev", "itoa"}

Calls == [fn : Functions, dest : 0 .. M, src : 0 .. M, n : 0 .. M,
          c : Values \cup {0}, radix : Radixes \cup {0}]

(* The arguments that a function does not have are 0.                       *)
Unused(k) ==
  /\ k.fn \in {"memset", "strrev", "itoa"} => k.src = 0
  /\ k.fn \in {"strcpy", "strrev", "itoa"} => k.n = 0
  /\ k.fn \notin {"memset", "itoa"} => k.c = 0
  /\ k.fn = "itoa" <=> k.radix # 0

Allowed(m, k) ==
  /\ Unused(k)
  /\ k.fn \in {"memcpy", "memmove"} => Fits(k.dest, k.n) /\ Fits(k.src, k.n)
  /\ k.fn = "memset" => Fits(k.dest, k.n)
  /\ k.fn = "strcpy" =>
       /\ Terminated(m, k.src)
       /\ Fits(k.dest, strlen(m, k.src) + 1)
       /\ Disjoint(k.dest, strlen(m, k.src) + 1, k.src, strlen(m, k.src) + 1)
  /\ k.fn = "strncpy" =>
       /\ Terminated(m, k.src) /\ Fits(k.dest, k.n)
       /\ Disjoint(k.dest, k.n, k.src, strlen(m, k.src) + 1)
  /\ k.fn = "strncmp" => Terminated(m, k.src) /\ Terminated(m, k.dest)
  /\ k.fn = "strrev" => Terminated(m, k.dest)
  /\ k.fn = "itoa" => k.dest + 1 < M /\ k.c < Pow2[M - 1 - k.dest]

-----------------------------------------------------------------------------
(* memcpy and memset: single bytes up to a word boundary of the             *)
(* destination, then words, then the bytes that are left.  memset does not  *)
(* use esi, which is moved along here.                                      *)

(* The lowest byte of c, or what esi points at.                             *)
Fetched(k) == IF call.fn = "memset" THEN call.c % 256 ELSE mem[esi + k]

(* k bytes are read, then written.                                          *)
Stored(k) == [a \in Addr |-> IF edi <= a /\ a < edi + k THEN Fetched(a - edi) ELSE mem[a]]

Forward(k) ==
  /\ mem' = Stored(k)
  /\ edi' = edi + k
  /\ esi' = esi + k

TopDone ==
  /\ pc = "top" /\ ecx = 0
  /\ pc' = "done"
  /\ UNCHANGED <<mem, call, regs, locals, orig>>

TopByte ==
  /\ pc = "top" /\ ecx # 0 /\ edi % WORD # 0
  /\ Forward(1)
  /\ ecx' = ecx - 1
  /\ UNCHANGED <<call, pc, edx, df, locals, orig>>

Aligned ==
  /\ pc = "top" /\ ecx # 0 /\ edi % WORD = 0
  /\ edx' = ecx % WORD
  /\ ecx' = ecx \div WORD
  /\ df' = FALSE                           \* cld
  /\ pc' = "words"
  /\ UNCHANGED <<mem, call, edi, esi, locals, orig>>

(* rep movsl, rep stosl: with the direction flag set they would go down.    *)
Words ==
  /\ pc = "words" /\ ecx # 0
  /\ mem' = Stored(WORD)
  /\ edi' = IF df THEN edi - WORD ELSE edi + WORD
  /\ esi' = IF df THEN esi - WORD ELSE esi + WORD
  /\ ecx' = ecx - 1
  /\ UNCHANGED <<call, pc, edx, df, locals, orig>>

WordsDone ==
  /\ pc = "words" /\ ecx = 0
  /\ pc' = "bottom"
  /\ UNCHANGED <<mem, call, regs, locals, orig>>

BottomByte ==
  /\ pc = "bottom" /\ edx # 0
  /\ Forward(1)
  /\ edx' = edx - 1
  /\ UNCHANGED <<call, pc, ecx, df, locals, orig>>

BottomDone ==
  /\ pc = "bottom" /\ edx = 0
  /\ pc' = "done"
  /\ UNCHANGED <<mem, call, regs, locals, orig>>

-----------------------------------------------------------------------------
(* memmove: rep movsb, downward when the destination lies behind the        *)
(* source.  The direction flag stays as it is.                              *)

\* mutant: never downward
NeverDown == FALSE

Downward == call.src < call.dest

Memmove ==
  /\ pc = "entry" /\ call.fn = "memmove"
  /\ pc' = "bytes"
  /\ ecx' = call.n
  /\ IF Downward
     THEN edi' = call.dest + call.n - 1 /\ esi' = call.src + call.n - 1 /\ df' = TRUE
     ELSE edi' = call.dest /\ esi' = call.src /\ df' = FALSE
  /\ UNCHANGED <<mem, call, edx, locals, orig>>

Bytes ==
  /\ pc = "bytes" /\ ecx # 0
  /\ mem' = Stored(1)
  /\ edi' = IF df THEN edi - 1 ELSE edi + 1
  /\ esi' = IF df THEN esi - 1 ELSE esi + 1
  /\ ecx' = ecx - 1
  /\ UNCHANGED <<call, pc, edx, df, locals, orig>>

BytesDone ==
  /\ pc = "bytes" /\ ecx = 0
  /\ pc' = "done"
  /\ UNCHANGED <<mem, call, regs, locals, orig>>

-----------------------------------------------------------------------------
(* The C functions.                                                         *)

At(s, k) == mem[s + k]

Put(k, b) == mem' = [mem EXCEPT ![call.dest + k] = b]

Strcpy ==
  /\ pc = "strcpy"
  /\ Put(i, At(call.src, i))              \* the 0 too
  /\ i' = i + 1
  /\ pc' = IF At(call.src, i) = NUL THEN "done" ELSE pc
  /\ UNCHANGED <<call, regs, j, newval, ret, orig>>

Strncpy ==
  /\ pc = "strncpy"
  /\ IF At(call.src, i) # NUL /\ i < call.n
     THEN Put(i, At(call.src, i)) /\ i' = i + 1 /\ pc' = pc
     ELSE pc' = "pad" /\ UNCHANGED <<mem, i>>
  /\ UNCHANGED <<call, regs, j, newval, ret, orig>>

\* mutant: a short string is not filled up
PadSkipped ==
  /\ pc = "pad"
  /\ pc' = "done"
  /\ UNCHANGED <<mem, call, regs, locals, orig>>

Pad ==
  /\ pc = "pad"
  /\ IF i < call.n
     THEN Put(i, NUL) /\ i' = i + 1 /\ pc' = pc
     ELSE pc' = "done" /\ UNCHANGED <<mem, i>>
  /\ UNCHANGED <<call, regs, j, newval, ret, orig>>

int8(b) == IF b < 128 THEN b ELSE b - 256

Strncmp ==
  /\ pc = "strncmp"
  /\ IF i = call.n
     THEN ret' = 0 /\ pc' = "done" /\ i' = i
     ELSE IF At(call.dest, i) # At(call.src, i) \/ At(call.dest, i) = NUL
     THEN ret' = int8(At(call.dest, i)) - int8(At(call.src, i)) /\ pc' = "done" /\ i' = i
     ELSE i' = i + 1 /\ UNCHANGED <<pc, ret>>
  /\ UNCHANGED <<mem, call, regs, j, newval, orig>>

Strrev ==
  /\ pc = "strrev"
  /\ IF i < j
     THEN /\ mem' = [mem EXCEPT ![call.dest + i] = At(call.dest, j),
                                ![call.dest + j] = At(call.dest, i)]
          /\ i' = i + 1 /\ j' = j - 1 /\ pc' = pc
     ELSE pc' = "done" /\ UNCHANGED <<mem, i, j>>
  /\ UNCHANGED <<call, regs, newval, ret, orig>>

lookup(d) == IF d < 10 THEN 48 + d ELSE 55 + d

(* itoa: digits from the lowest place on; 0 is a case of its own.           *)
ItoaDigit ==
  /\ pc = "itoa" /\ newval > 0
  /\ Put(i, lookup(newval % call.radix))
  /\ i' = i + 1
  /\ newval' = newval \div call.radix
  /\ UNCHANGED <<call, pc, regs, j, ret, orig>>

ItoaReverse ==
  /\ pc = "itoa" /\ newval = 0 /\ call.c # 0
  /\ Put(i, NUL)
  /\ i' = 0
  /\ j' = strlen(mem', call.dest) - 1
  /\ pc' = "strrev"
  /\ UNCHANGED <<call, regs, newval, ret, orig>>

ItoaZero ==
  /\ pc = "itoa" /\ call.c = 0
  /\ mem' = [mem EXCEPT ![call.dest] = 48, ![call.dest + 1] = NUL]
  /\ pc' = "done"
  /\ UNCHANGED <<call, regs, locals, orig>>

-----------------------------------------------------------------------------
(* Entry of the functions other than memmove.                               *)

Enter ==
  /\ pc = "entry" /\ call.fn # "memmove"
  /\ pc' = IF call.fn \in {"memcpy", "memset"} THEN "top" ELSE call.fn
  /\ edi' = call.dest /\ esi' = call.src /\ ecx' = call.n
  /\ j' = IF call.fn = "strrev" THEN strlen(mem, call.dest) - 1 ELSE 0
  /\ newval' = call.c
  /\ UNCHANGED <<mem, call, edx, df, i, ret, orig>>

Init ==
  /\ mem \in Memories
  /\ call \in {k \in Calls : Allowed(mem, k)}
  /\ pc = "entry"
  /\ edi = 0 /\ esi = 0 /\ ecx = 0 /\ edx = 0
  /\ df \in BOOLEAN
  /\ i = 0 /\ j = 0 /\ newval = 0 /\ ret = 0
  /\ orig = mem

Next ==
  \/ Enter
  \/ TopDone \/ TopByte \/ Aligned \/ Words \/ WordsDone \/ BottomByte \/ BottomDone
  \/ Memmove \/ Bytes \/ BytesDone
  \/ Strcpy \/ Strncpy \/ Pad \/ Strncmp \/ Strrev
  \/ ItoaDigit \/ ItoaReverse \/ ItoaZero

Spec == Init /\ [][Next]_vars

-----------------------------------------------------------------------------
\* memcpy and memset do what a loop over single bytes would do, whatever the alignment of
\* the destination and the direction flag they find; memmove also when the ranges overlap
\* (lib.c:577: "used for overlapping memory areas"), and memcpy when the destination does
\* not lie inside the source behind its start.
MemoryResult ==
  pc = "done" => \A k \in 0 .. call.n - 1 :
    /\ call.fn = "memset" => mem[call.dest + k] = call.c % 256
    /\ \/ call.fn = "memmove"
       \/ call.fn = "memcpy" /\ (call.dest <= call.src \/ call.src + call.n <= call.dest)
       => mem[call.dest + k] = orig[call.src + k]

(* The number that a string of digits denotes.                              *)
Digit(b) == IF b < 58 THEN b - 48 ELSE b - 55

Denotes(s, len, radix) ==
  LET val[k \in 0 .. len] == IF k = 0 THEN 0 ELSE radix * val[k - 1] + Digit(mem[s + k - 1])
  IN val[len]

(* The first k bytes of two strings are equal, without a 0.                 *)
SamePrefix(k) == \A l \in 0 .. k - 1 : At(call.dest, l) = At(call.src, l) /\ At(call.dest, l) # NUL

(* The bytes that a call may write.                                         *)
Target ==
  CASE call.fn \in {"memcpy", "memmove", "memset", "strncpy"} -> call.n
    [] call.fn = "strcpy" -> strlen(orig, call.src) + 1
    [] call.fn = "strncmp" -> 0
    [] call.fn = "strrev" -> strlen(orig, call.dest)
    [] call.fn = "itoa" -> M - call.dest

\* The strings that the C loops leave are the ones their names promise: a copy, a copy cut
\* or filled to n bytes, the order of the first difference, the reverse, and the shortest
\* numeral of a value.  And no function, those on memory too, writes outside its
\* destination at any step: the bytes before it, up to the word boundary, and those behind
\* it belong to something else.
StringResult ==
  /\ \A a \in Addr : a < call.dest \/ a >= call.dest + Target => mem[a] = orig[a]
  /\ pc = "done" =>
      LET len == strlen(orig, call.src) IN
      CASE call.fn = "strcpy" -> \A k \in 0 .. len : At(call.dest, k) = orig[call.src + k]
        [] call.fn = "strncpy" -> \A k \in 0 .. call.n - 1 :
             At(call.dest, k) = IF k < len THEN orig[call.src + k] ELSE NUL
        [] call.fn = "strncmp" ->
             IF \E k \in 0 .. call.n - 1 : SamePrefix(k) /\ At(call.dest, k) # At(call.src, k)
             THEN \E k \in 0 .. call.n - 1 :
                    /\ SamePrefix(k) /\ At(call.dest, k) # At(call.src, k)
                    /\ ret > 0 <=> int8(At(call.dest, k)) > int8(At(call.src, k))
                    /\ ret # 0
             ELSE ret = 0
        [] call.fn = "strrev" -> LET l == strlen(orig, call.dest) IN
             /\ strlen(mem, call.dest) = l
             /\ \A k \in 0 .. l - 1 : At(call.dest, k) = orig[call.dest + l - 1 - k]
        [] call.fn = "itoa" -> LET l == strlen(mem, call.dest) IN
             /\ Denotes(call.dest, l, call.radix) = call.c
             /\ l > 0 /\ (l > 1 => At(call.dest, 0) # lookup(0))
        [] OTHER -> TRUE
=============================================================================
