------------------------------ MODULE HashFunc ------------------------------
(***************************************************************************)
(* frl_hash_func.c: hashes of a key in memory.  The same function reads    *)
(* the key by words, by halfwords or by bytes, depending on its address.   *)
(*                                                                         *)
(* A 32-bit word is a pair of 16-bit halves, the high one first.  Memory   *)
(* is a sequence of bytes that starts with the key and goes on behind it.  *)
(***************************************************************************)
EXTENDS Integers, Sequences, SequencesExt, Bitwise

CONSTANTS
  Memories,   (* the memories whose first bytes are hashed ...             *)
  MaxLength   (* ... up to this length                                     *)

ASSUME HashAssumption ==
  MaxLength \in Nat /\ \A mem \in Memories : mem \in Seq(0 .. 255) /\ Len(mem) >= MaxLength + 4

Half == 65536
Zero == <<0, 0>>

Plus(x, y) ==
  LET lo == x[2] + y[2] IN <<(x[1] + y[1] + lo \div Half) % Half, lo % Half>>
Minus(x, y) ==
  LET lo == x[2] - y[2] IN <<(x[1] - y[1] + lo \div Half) % Half, lo % Half>>
Xor32(x, y) == <<x[1] ^^ y[1], x[2] ^^ y[2]>>

(* rot: to the left by k bits.                                             *)
Rot(x, k) ==
  LET hi == IF k < 16 THEN x[1] ELSE x[2]
      lo == IF k < 16 THEN x[2] ELSE x[1]
      j == k % 16
  IN  <<((hi * 2^j) % Half) + lo \div 2^(16 - j), ((lo * 2^j) % Half) + hi \div 2^(16 - j)>>

(* One line of mix; the next line does the same to the next variable.      *)
MixRound(s, k) ==
  <<s[2], Plus(s[3], s[2]), Xor32(Minus(s[1], s[3]), Rot(s[3], k))>>
Mix(s) == FoldLeft(MixRound, s, <<4, 6, 8, 16, 19, 4>>)

(* One line of final, and its seven lines.                                 *)
FinalRound(s, k) ==
  <<s[2], Minus(Xor32(s[3], s[2]), Rot(s[2], k)), s[1]>>
Final(s) ==
  LET t == FoldLeft(FinalRound, s, <<14, 11, 25, 16, 4, 14, 24>>) IN <<t[3], t[1], t[2]>>

Add3(s, t) == <<Plus(s[1], t[1]), Plus(s[2], t[2]), Plus(s[3], t[3])>>

(* 0xdeadbeef + length + initval in all three variables.                   *)
Start(length, initval) ==
  LET x == Plus(Plus(<<57005, 48879>>, <<length \div Half, length % Half>>), initval)
  IN  <<x, x, x>>

(* All but the last 1 to n units of the key of len units are added and     *)
(* mixed n at a time, the last ones added and mixed by final; nothing is   *)
(* done for an empty key.  Read(at, m) is what m units at at add.          *)
Digested(s, len, n, Read(_, _)) ==
  LET last == IF len = 0 THEN 0 ELSE (len - 1) \div n
      most == FoldLeft(LAMBDA t, i : Mix(Add3(t, Read(n * (i - 1), n))), s, [i \in 1 .. last |-> i])
  IN  IF len = 0 THEN s ELSE Final(Add3(most, Read(n * last, len - n * last)))

-----------------------------------------------------------------------------
(* hashword and hashword2: the key k is a sequence of words.               *)

ReadWords(k, at, m) == [i \in 1 .. 3 |-> IF i <= m THEN k[at + i] ELSE Zero]

hashword2(k, pc, pb) ==
  LET s == Start(4 * Len(k), pc)
      t == Digested(<<s[1], s[2], Plus(s[3], pb)>>, Len(k), 3, LAMBDA at, m : ReadWords(k, at, m))
  IN  <<t[3], t[2]>>

(* Mutant: the length counts in words.                                     *)
hashword_InWords(k, initval) ==
  Digested(Start(Len(k), initval), Len(k), 3, LAMBDA at, m : ReadWords(k, at, m))[3]

hashword(k, initval) ==
  Digested(Start(4 * Len(k), initval), Len(k), 3, LAMBDA at, m : ReadWords(k, at, m))[3]

-----------------------------------------------------------------------------
(* How the bytes of a key become words.                                    *)

(* A byte, shifted to the left by sh bits.                                 *)
Byte(v, sh) == IF sh < 16 THEN <<0, v * 2^sh>> ELSE <<v * 2^(sh - 16), 0>>

Load16(mem, at) == mem[at + 1] + 256 * mem[at + 2]
Load32(mem, at) == <<Load16(mem, at + 2), Load16(mem, at)>>
Load32Big(mem, at) ==
  <<256 * mem[at + 1] + mem[at + 2], 256 * mem[at + 3] + mem[at + 4]>>

(* x & 0xffffff, & 0xffff, & 0xff: the first k bytes of a word.            *)
Mask(x, k) == CASE k = 4 -> x [] k = 3 -> <<x[1] % 256, x[2]>> [] k = 2 -> <<0, x[2]>>
                [] k = 1 -> <<0, x[2] % 256>> [] k = 0 -> Zero
MaskBig(x, k) == CASE k = 4 -> x [] k = 3 -> <<x[1], x[2] - (x[2] % 256)>> [] k = 2 -> <<x[1], 0>>
                   [] k = 1 -> <<x[1] - (x[1] % 256), 0>> [] k = 0 -> Zero

(* How many bytes of each word the cases 1 .. 12 of the switch keep.       *)
Kept == << <<1, 0, 0>>, <<2, 0, 0>>, <<3, 0, 0>>, <<4, 0, 0>>, <<4, 1, 0>>, <<4, 2, 0>>,
           <<4, 3, 0>>, <<4, 4, 0>>, <<4, 4, 1>>, <<4, 4, 2>>, <<4, 4, 3>>, <<4, 4, 4>> >>

(* A word that is not read at all may lie outside of memory.               *)
Read32(mem, at, m) == [i \in 1 .. 3 |->
  IF Kept[m][i] = 0 THEN Zero ELSE Mask(Load32(mem, at + 4 * (i - 1)), Kept[m][i])]
Read32Big(mem, at, m) == [i \in 1 .. 3 |->
  IF Kept[m][i] = 0 THEN Zero ELSE MaskBig(Load32Big(mem, at + 4 * (i - 1)), Kept[m][i])]

(* Mutant: the last byte of three is read as the second of a halfword.     *)
Read16In_Shifted(mem, at, k) ==
  LET low == <<0, Load16(mem, at)>>
  IN  CASE k = 0 -> Zero
        [] k = 1 -> Byte(mem[at + 1], 0)
        [] k = 2 -> low
        [] k = 3 -> Plus(Byte(mem[at + 3], 24), low)
        [] k = 4 -> Plus(low, <<Load16(mem, at + 2), 0>>)

(* What the cases of the switch for halfwords read into one variable, whose *)
(* bytes begin at at: odd cases add a byte and fall through.               *)
Read16In(mem, at, k) ==
  LET low == <<0, Load16(mem, at)>>
  IN  CASE k = 0 -> Zero
        [] k = 1 -> Byte(mem[at + 1], 0)
        [] k = 2 -> low
        [] k = 3 -> Plus(Byte(mem[at + 3], 16), low)
        [] k = 4 -> Plus(low, <<Load16(mem, at + 2), 0>>)
Read16(mem, at, m) == [i \in 1 .. 3 |-> Read16In(mem, at + 4 * (i - 1), Kept[m][i])]

(* Byte by byte, into the variable and place of each.                      *)
Sum(words) == FoldLeft(Plus, Zero, words)
Read8(mem, at, m) == [i \in 1 .. 3 |->
  Sum([j \in 1 .. Kept[m][i] |-> Byte(mem[at + 4 * (i - 1) + j], 8 * (j - 1))])]
Read8Big(mem, at, m) == [i \in 1 .. 3 |->
  Sum([j \in 1 .. Kept[m][i] |-> Byte(mem[at + 4 * (i - 1) + j], 32 - 8 * j)])]

-----------------------------------------------------------------------------
(* hashlittle, hashlittle2 and hashbig.  The key has len bytes and begins  *)
(* at an address that is addr modulo 4.                                    *)

LittleRead(endian, addr, mem, at, m) ==
  IF endian = "little" /\ addr = 0 THEN Read32(mem, at, m)
  ELSE IF endian = "little" /\ addr % 2 = 0 THEN Read16(mem, at, m)
  ELSE Read8(mem, at, m)

hashlittle2(endian, addr, mem, len, pc, pb) ==
  LET s == Start(len, pc)
      t == Digested(<<s[1], s[2], Plus(s[3], pb)>>, len, 12,
                    LAMBDA at, m : LittleRead(endian, addr, mem, at, m))
  IN  <<t[3], t[2]>>

hashlittle(endian, addr, mem, len, initval) ==
  Digested(Start(len, initval), len, 12, LAMBDA at, m : LittleRead(endian, addr, mem, at, m))[3]

hashbig(endian, addr, mem, len, initval) ==
  Digested(Start(len, initval), len, 12,
           LAMBDA at, m : IF endian = "big" /\ addr = 0
                          THEN Read32Big(mem, at, m) ELSE Read8Big(mem, at, m))[3]

-----------------------------------------------------------------------------

Machines == {"little", "big"} \X (0 .. 3)

(* For each memory: a key at its start has the same hash wherever it lies, *)
(* on machines of either byte order, whatever the bytes behind it are.     *)
KeyOnly == [mem \in Memories |-> \A len \in 0 .. MaxLength :
  LET other == [i \in DOMAIN mem |-> IF i <= len THEN mem[i] ELSE 255 - mem[i]]
      reference == hashlittle("big", 1, mem, len, Zero)
  IN  \A machine \in Machines, m \in {mem, other} :
        hashlittle(machine[1], machine[2], m, len, Zero) = reference]

(* The first n words of mem as a machine loads them.                       *)
WordsOf(Load(_, _), mem, n) == [i \in 1 .. n |-> Load(mem, 4 * (i - 1))]

(* For each memory: on keys of whole words hashword is hashlittle on       *)
(* little-endian machines and hashbig on big-endian ones, and what has two *)
(* seeds extends what has one.                                             *)
Agreement == [mem \in Memories |-> \A n \in 0 .. MaxLength \div 4, addr \in 0 .. 3 :
  LET seed == <<n, addr>>
      little == WordsOf(Load32, mem, n)
      big == WordsOf(Load32Big, mem, n)
  IN  /\ hashword(little, seed) = hashlittle("little", addr, mem, 4 * n, seed)
      /\ hashword(big, seed) = hashbig("big", addr, mem, 4 * n, seed)
      /\ hashword2(little, seed, Zero)[1] = hashword(little, seed)
      /\ hashlittle2("little", addr, mem, 4 * n, seed, Zero)[1]
           = hashlittle("little", addr, mem, 4 * n, seed)]

=============================================================================
