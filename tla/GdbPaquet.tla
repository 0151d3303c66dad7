----------------------------- MODULE GdbPaquet -----------------------------
(***************************************************************************)
(* The contents of the packets sent to the simulator (gdb_protocol.c): the *)
(* memory image cut into chunks and escaped, and a register value written  *)
(* in the byte order of the simulator.  Bytes are 0 .. 255, an image is a  *)
(* sequence of bytes.                                                      *)
(***************************************************************************)
EXTENDS Integers, Sequences, FiniteSets, FiniteSetsExt, SequencesExt

CONSTANTS
  MAX_PACKET_SIZE,  \* the array gdb->packet
  TailleEntete      \* what "X%08x,%08x:" takes in it, 19

ASSUME PaquetAssumption ==
  /\ MAX_PACKET_SIZE \in Nat /\ MAX_PACKET_SIZE > 7
  /\ TailleEntete \in Nat

MAX_BUFFER_SIZE == MAX_PACKET_SIZE - 6

Octet == 0 .. 255

Dollar == 36
Diese  == 35
Echap  == 125  \* 0x7d

Speciaux == {Dollar, Diese, Echap}

\* b ^ 0x20
Masque(b) == IF (b \div 32) % 2 = 1 THEN b - 32 ELSE b + 32

\* (mutant) The escape character itself is not escaped.
OctetsSansEchap(b) ==
  IF b \in {Dollar, Diese} THEN <<Echap, Masque(b)>> ELSE <<b>>

\* What one byte of the image takes in the packet.
Octets(b) == IF b \in Speciaux THEN <<Echap, Masque(b)>> ELSE <<b>>

Coder(s) == FlattenSeq([k \in DOMAIN s |-> Octets(s[k])])

\* What the first n bytes of the image take: buffer_size.
buffer_size(image, n) ==
  n + Cardinality({k \in 1 .. n : image[k] \in Speciaux})

\* How many bytes of the image go in the next chunk: one more as long as
\* buffer_size is below the limit, so that an escaped byte may step over it.
bytes_copied(image) ==
  Max({n \in 0 .. Len(image) :
         n > 0 => buffer_size(image, n - 1) < MAX_BUFFER_SIZE - 1})

Morceau(image) == SubSeq(image, 1, bytes_copied(image))

\* The chunk, its header, the '$' before, "#xx" and the final NUL after.
Tient(data) == 1 + TailleEntete + Len(data) + 4 <= MAX_PACKET_SIZE

\* write_uint32: the bytes in memory are copied in order when both machines
\* have the same byte order and backwards otherwise.
EnMemoire(valeur, big) == IF big THEN valeur ELSE Reverse(valeur)

\* (mutant) The order of the bytes in memory is kept.
write_uint32Direct(valeur, hote, cible) == EnMemoire(valeur, hote)

write_uint32(valeur, hote, cible) ==
  IF hote = cible THEN EnMemoire(valeur, hote) ELSE Reverse(EnMemoire(valeur, hote))

-----------------------------------------------------------------------------
(* The simulator's side. *)

\* One more byte b of an escaped sequence, d being what was read before it.
Recevoir(d, b) ==
  IF d.echap THEN [lu |-> Append(d.lu, Masque(b)), echap |-> FALSE]
  ELSE IF b = Echap THEN [lu |-> d.lu, echap |-> TRUE]
  ELSE [lu |-> Append(d.lu, b), echap |-> FALSE]

\* The bytes an escaped sequence stands for.
Decoder(s) ==
  LET recu[k \in 0 .. Len(s)] ==
        IF k = 0 THEN [lu |-> <<>>, echap |-> FALSE] ELSE Recevoir(recu[k - 1], s[k])
  IN  recu[Len(s)].lu

\* A register value read in the simulator's byte order, most significant first.
LireRegistre(s, cible) == IF cible THEN s ELSE Reverse(s)
=============================================================================
