------------------------------ MODULE Checksum ------------------------------
(***************************************************************************)
(* The IP-style checksum that mkelfImage puts into the images it builds    *)
(* (tools/mkelfImage/main/mkelfImage.c) and that its converter verifies on *)
(* the tables it is handed (linux-i386/convert_params.c).  Both add bytes  *)
(* into a 16-bit word, odd ones shifted, with the carry wrapped around.    *)
(***************************************************************************)
EXTENDS Integers, Sequences

CONSTANT Base   \* values of a byte (256); a word is two bytes

ASSUME BaseAssumption == Base \in Nat \ {0, 1}

Word == Base * Base
Bytes == 0 .. Base - 1
Words == 0 .. Word - 1

Complement(w) == Word - 1 - w
bswap_16(w) == (w % Base) * Base + w \div Base

(* The carry of a sum of two words is wrapped around.                      *)
Carried == [sum \in 0 .. 2 * Word |->
              IF sum > Word - 1 THEN (sum + sum \div Word) % Word ELSE sum]

(* The byte at offset n - 1 counts Base times at an odd offset.            *)
checksum_partial(data) ==
    LET s[n \in 0 .. Len(data)] ==
            IF n = 0 THEN 0
            ELSE Carried[s[n - 1] + data[n] * (IF n % 2 = 0 THEN Base ELSE 1)]
    IN s[Len(data)]

compute_checksum(data) == Complement(checksum_partial(data))
ipchksum(data) == Complement(checksum_partial(data))

(* The sum of two checksums, the second one of bytes that start at offset. *)
AddSums(sum, new) == Complement(IF sum + new > Word - 1 THEN sum + new - (Word - 1) ELSE sum + new)

(* Mutant: the parity of the offset is not looked at.                      *)
AddUnswapped(offset, sum, new) == AddSums(Complement(sum), Complement(new))

add_ipchksums(offset, sum, new) ==
    AddSums(Complement(sum),
            IF offset % 2 = 1 THEN bswap_16(Complement(new)) ELSE Complement(new))
=============================================================================
