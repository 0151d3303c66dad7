------------------------------- MODULE Endian -------------------------------
(***************************************************************************)
(* The byte order (gestion_endian.c).  A word of the host is the function  *)
(* from 1 .. 4 (1 .. 2 for a half) to its octets, the most significant     *)
(* first.  The files are big-endian; the host is little-endian, as every   *)
(* swap of the code takes for granted.  Shifts are by whole octets, so     *)
(* that the sums of the code never carry.                                  *)
(***************************************************************************)
EXTENDS Integers, Sequences

CONSTANT Octet  \* the number of values of a byte, 256

ASSUME OctetAssumption == Octet \in Nat \ {0}

Byte == 0 .. Octet - 1
Mot  == [1 .. 4 -> Byte]   \* Elf32_Word, Elf32_Addr, Elf32_Off
Demi == [1 .. 2 -> Byte]   \* Elf32_Half

\* What fread leaves in a word of the host: the first octet of the file is
\* the least significant.
Lu_32(octets) == <<octets[4], octets[3], octets[2], octets[1]>>
Lu_16(octets) == <<octets[2], octets[1]>>

\* The number a word stands for.
Nombre(mot) ==
  LET v[k \in 0 .. Len(mot)] == IF k = 0 THEN 0 ELSE v[k - 1] * Octet + mot[k]
  IN  v[Len(mot)]

\* << 8 * k and >> 8 * k on 32 bits.
Gauche(mot, k) == [p \in 1 .. 4 |-> IF p + k <= 4 THEN mot[p + k] ELSE 0]
Droite(mot, k) == [p \in 1 .. 4 |-> IF p - k >= 1 THEN mot[p - k] ELSE 0]

\* A half is promoted to an int before it is shifted.
Promu(demi) == [p \in 1 .. 4 |-> IF p <= 2 THEN 0 ELSE demi[p - 2]]

\* uint8_t temp, at iteration i of the loops.
temp_32(val, i) == Droite(Gauche(val, 4 - i), 3)[4]
temp_16(val, i) == Droite(Gauche(Promu(val), 2 - i), 1)[4]

\* result = (result << 8) + temp, in the width of result.
Pousser_32(result, temp) == <<result[2], result[3], result[4], temp>>
Pousser_16(result, temp) == <<result[2], temp>>

invert_endian_32(val) ==
  LET un    == Pousser_32(<<0, 0, 0, 0>>, temp_32(val, 1))
      deux  == Pousser_32(un, temp_32(val, 2))
      trois == Pousser_32(deux, temp_32(val, 3))
  IN  Pousser_32(trois, temp_32(val, 4))

invert_endian_16(val) ==
  Pousser_16(Pousser_16(<<0, 0>>, temp_16(val, 1)), temp_16(val, 2))

(***************************************************************************)
(* The structures, with the fields the other modules read.                 *)
(***************************************************************************)
swap_header(header) ==
  [header EXCEPT !.e_shnum = invert_endian_16(@)]

swap_header_section(header_sect) ==
  [header_sect EXCEPT !.sh_type = invert_endian_32(@),
                      !.sh_flags = invert_endian_32(@)]

swap_header_symb(header_sym) ==
  [st_value |-> invert_endian_32(header_sym.st_value),
   st_shndx |-> invert_endian_16(header_sym.st_shndx)]

swap_rel(relation) ==
  [r_offset |-> invert_endian_32(relation.r_offset),
   r_info |-> invert_endian_32(relation.r_info)]

\* ELF32_R_SYM: r_info >> 8.
ELF32_R_SYM(r_info) == Nombre(Droite(r_info, 1))
=============================================================================
