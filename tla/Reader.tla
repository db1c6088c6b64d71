-------------------------------- MODULE Reader --------------------------------
(***************************************************************************)
(* The binary reader of src/reader.c.  A reader is the sequence of bytes   *)
(* from its cursor on.  A read yields a status, the value it leaves in its *)
(* out parameter, and the reader afterwards.  Nothing is read when too few *)
(* bytes remain, except by the LEB128 readers, which stop where they are.  *)
(* Numbers have WIDTH bits; what does not fit is lost.                     *)
(***************************************************************************)
EXTENDS Integers, Sequences

CONSTANT WIDTH  (* Bits of a uint64_t.                                       *)

(* The last conjunct is true of every width; provers know no exponents.      *)
ASSUME ReaderAssumption ==
  /\ WIDTH \in Nat /\ WIDTH > 7
  /\ \A k \in 0..(WIDTH + 5) : 2^(k + 1) = 2 * 2^k

Byte == 0..255

Wrap(n) == n % 2^WIDTH

Signed(n) == IF n < 2^(WIDTH - 1) THEN n ELSE n - 2^WIDTH

ReadResult(status, value, rest) ==
  [status |-> status, value |-> value, rest |-> rest]

advance_reader(r, bytes) == SubSeq(r, bytes + 1, Len(r))

(* The number that is written with these digits, the least significant first.*)
FromDigits(base, digits) ==
  LET count == Len(digits)
      last[n \in 0..count] ==
        IF n = 0 THEN 0 ELSE Wrap(digits[count + 1 - n] + base * last[n - 1])
  IN  last[count]

(* memcpy into an unsigned of a little-endian machine.                       *)
LittleEndian(bytes) == FromDigits(256, bytes)

(* A read that fails leaves the out parameter as it was.                     *)
read_bytes(r, bytes, out) ==
  IF bytes > Len(r)
    THEN ReadResult("READ_ERR_OUT_OF_BOUNDS", out, r)
    ELSE ReadResult("READ_OK", LittleEndian(SubSeq(r, 1, bytes)),
                    advance_reader(r, bytes))

(* The most bytes a number takes (10 in the code).                           *)
MAX_LEB == (WIDTH + 6) \div 7

(* The loop of both LEB128 readers: groups of seven bits, least significant  *)
(* first, up to a byte without the high bit.                                 *)
Leb(r) ==
  LET available == IF Len(r) < MAX_LEB THEN Len(r) ELSE MAX_LEB
      ends == {i \in 1..available : r[i] < 128}
      consumed == IF ends = {} THEN available
                               ELSE CHOOSE i \in ends : \A j \in ends : i <= j
  IN  [status |-> CASE ends # {} -> "READ_OK"
                    [] ends = {} /\ available = MAX_LEB -> "READ_ERR_LEB_OVERFLOW"
                    [] OTHER -> "READ_ERR_OUT_OF_BOUNDS",
       value |-> FromDigits(128, [i \in 1..consumed |-> r[i] % 128]),
       consumed |-> consumed]

read_uleb128(r) ==
  LET leb == Leb(r)
  IN  ReadResult(leb.status, leb.value, advance_reader(r, leb.consumed))

(* Mutant of read_sleb128: the least number of a length is taken for a       *)
(* positive one.                                                             *)
read_sleb128_OneShort(r) ==
  LET leb == Leb(r)
      negative == /\ leb.status = "READ_OK"
                  /\ leb.consumed * 7 < WIDTH
                  /\ r[leb.consumed] % 128 > 64
  IN  ReadResult(leb.status,
                 IF negative THEN leb.value - 2^(7 * leb.consumed)
                             ELSE Signed(leb.value),
                 advance_reader(r, leb.consumed))

(* The sign is extended unless the groups fill all bits.                     *)
read_sleb128(r) ==
  LET leb == Leb(r)
      negative == /\ leb.status = "READ_OK"
                  /\ leb.consumed * 7 < WIDTH
                  /\ r[leb.consumed] % 128 >= 64
  IN  ReadResult(leb.status,
                 IF negative THEN leb.value - 2^(7 * leb.consumed)
                             ELSE Signed(leb.value),
                 advance_reader(r, leb.consumed))

(* The bytes before the next zero, which is read too.                        *)
read_cstring(r, out) ==
  LET zeros == {i \in DOMAIN r : r[i] = 0}
      end == CHOOSE i \in zeros : \A j \in zeros : i <= j
  IN  IF zeros = {}
        THEN ReadResult("READ_ERR_OUT_OF_BOUNDS", out, r)
        ELSE ReadResult("READ_OK", SubSeq(r, 1, end - 1), advance_reader(r, end))

=============================================================================
