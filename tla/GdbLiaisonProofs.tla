-------------------------- MODULE GdbLiaisonProofs --------------------------
(***************************************************************************)
(* The link with the simulator (GdbLiaison): its types, the contents of    *)
(* its packets, how late an answer may be, that it implements Commandes,   *)
(* and what it loads, for all images, sizes and bounds on the noise.       *)
(***************************************************************************)
EXTENDS GdbLiaison, RecurrenceProofs, FiniteSetTheorems

-----------------------------------------------------------------------------
(* The contents of a packet: what is coded is decoded.                     *)

LEMMA MasqueDouble ==
  ASSUME NEW b \in Octet
  PROVE  Masque(b) \in Octet /\ Masque(Masque(b)) = b
<1>1. CASE (b \div 32) % 2 = 1
  <2>1. Masque(b) = b - 32 /\ b >= 32 /\ b \in 0 .. 255
    BY <1>1 DEF Masque, Octet
  <2>2. ((b - 32) \div 32) % 2 # 1
    BY <1>1, <2>1
  <2> QED
    BY <2>1, <2>2 DEF Masque, Octet
<1>2. CASE (b \div 32) % 2 # 1
  <2>1. Masque(b) = b + 32 /\ b + 32 <= 255 /\ b \in 0 .. 255
    BY <1>2 DEF Masque, Octet
  <2>2. ((b + 32) \div 32) % 2 = 1
    BY <1>2, <2>1
  <2> QED
    BY <2>1, <2>2 DEF Masque, Octet
<1> QED
  BY <1>1, <1>2

LEMMA OctetsType ==
  ASSUME NEW b \in Octet
  PROVE  /\ Octets(b) \in Seq(Octet)
         /\ \A k \in DOMAIN Octets(b) : Octets(b)[k] \notin {Dollar, Diese}
<1>1. Masque(b) \in Octet /\ Echap \in Octet
  <2>1. Masque(b) \in Octet
    BY MasqueDouble
  <2> QED
    BY <2>1 DEF Echap, Octet
<1>2. CASE b \in Speciaux
  <2>1. Masque(36) = 4 /\ Masque(35) = 3 /\ Masque(125) = 93
    BY DEF Masque
  <2>2. Masque(b) \notin {36, 35}
    BY <1>2, <2>1 DEF Speciaux, Dollar, Diese, Echap
  <2>3. Octets(b) = <<Echap, Masque(b)>>
    BY <1>2 DEF Octets
  <2> QED
    BY <1>1, <2>2, <2>3 DEF Dollar, Diese, Echap
<1>3. CASE b \notin Speciaux
  <2>1. Octets(b) = <<b>>
    BY <1>3 DEF Octets
  <2> QED
    BY <1>3, <2>1 DEF Speciaux
<1> QED
  BY <1>2, <1>3

\* Coding goes byte by byte.
LEMMA CoderAppend ==
  ASSUME NEW s \in Seq(Octet), NEW b \in Octet
  PROVE  /\ Coder(s) \in Seq(Octet)
         /\ Coder(Append(s, b)) = Coder(s) \o Octets(b)
<1> DEFINE c == [k \in DOMAIN s |-> Octets(s[k])]
           d == [k \in DOMAIN Append(s, b) |-> Octets(Append(s, b)[k])]
<1>1. /\ Len(s) \in Nat /\ DOMAIN s = 1 .. Len(s) /\ \A k \in 1 .. Len(s) : s[k] \in Octet
      /\ DOMAIN Append(s, b) = 1 .. Len(s) + 1
      /\ Append(s, b)[Len(s) + 1] = b
      /\ \A k \in 1 .. Len(s) : Append(s, b)[k] = s[k]
  BY LenProperties, AppendProperties, ElementOfSeq
<1>2. c \in Seq(Seq(Octet)) /\ Len(c) = Len(s)
  <2>1. \A k \in 1 .. Len(s) : Octets(s[k]) \in Seq(Octet)
    BY <1>1, OctetsType
  <2> QED
    BY <1>1, <2>1
<1>3. Octets(b) \in Seq(Octet)
  BY OctetsType
<1>4. d = Append(c, Octets(b))
  <2>1. Len(Append(c, Octets(b))) = Len(s) + 1 /\ Append(c, Octets(b))[Len(s) + 1] = Octets(b)
    BY <1>2, <1>3, AppendProperties
  <2>2. \A k \in 1 .. Len(s) : Append(c, Octets(b))[k] = Octets(s[k])
    BY <1>1, <1>2, <1>3, AppendProperties
  <2>3. DOMAIN Append(c, Octets(b)) = 1 .. Len(s) + 1
    BY <1>1, <1>2, <1>3, <2>1, AppendProperties, LenProperties
  <2>4. Append(c, Octets(b)) = [k \in 1 .. Len(s) + 1 |-> Append(c, Octets(b))[k]]
    BY <1>2, <1>3, <2>1, AppendProperties, LenProperties
  <2>5. \A k \in 1 .. Len(s) + 1 : d[k] = Append(c, Octets(b))[k]
    BY <1>1, <2>1, <2>2
  <2>6. d = [k \in 1 .. Len(s) + 1 |-> d[k]]
    BY <1>1
  <2> HIDE DEF c, d
  <2> QED
    BY <2>4, <2>5, <2>6
<1>5. Coder(s) = FlattenSeq(c) /\ Coder(Append(s, b)) = FlattenSeq(d)
  BY DEF Coder
<1> HIDE DEF c, d
<1> QED
  BY <1>2, <1>3, <1>4, <1>5, FlattenAppend

LEMMA CoderVide == Coder(<<>>) = <<>>
<1> DEFINE c == [k \in DOMAIN <<>> |-> Octets(<<>>[k])]
<1>1. c = <<>> /\ Len(c) = 0
  OBVIOUS
<1>2. Coder(<<>>) = FlattenSeq(c)
  BY DEF Coder
<1> HIDE DEF c
<1> QED
  BY <1>1, <1>2, FlattenVide

\* The simulator's reading of an escaped sequence, as the equation that defines
\* it, and the state in which it leaves the simulator.
EtatRecu == [lu : Seq(Octet), echap : BOOLEAN]
Depart == [lu |-> <<>>, echap |-> FALSE]
Reception(d, s) ==
  d = [k \in 0 .. Len(s) |-> IF k = 0 THEN Depart ELSE Recevoir(d[k - 1], s[k])]
Recue(s) == (CHOOSE d : Reception(d, s))[Len(s)]

LEMMA DecoderRecue ==
  ASSUME NEW s
  PROVE  Decoder(s) = Recue(s).lu
BY DEF Decoder, Recue, Reception, Depart

LEMMA RecevoirType ==
  ASSUME NEW d \in EtatRecu, NEW b \in Octet
  PROVE  Recevoir(d, b) \in EtatRecu
<1>1. Masque(b) \in Octet
  BY MasqueDouble
<1>2. Append(d.lu, Masque(b)) \in Seq(Octet) /\ Append(d.lu, b) \in Seq(Octet)
  BY <1>1, AppendProperties DEF EtatRecu
<1> QED
  BY <1>2 DEF Recevoir, EtatRecu

LEMMA ReceptionExiste ==
  ASSUME NEW s \in Seq(Octet)
  PROVE  \E d \in [0 .. Len(s) -> EtatRecu] : Reception(d, s)
<1> DEFINE f == [p \in EtatRecu \X Octet |-> Recevoir(p[1], p[2])]
<1>1. Depart \in EtatRecu
  BY DEF Depart, EtatRecu
<1>2. f \in [EtatRecu \X Octet -> EtatRecu]
  <2> SUFFICES ASSUME NEW p \in EtatRecu \X Octet PROVE Recevoir(p[1], p[2]) \in EtatRecu
    OBVIOUS
  <2> QED
    BY RecevoirType
<1>3. \A e \in EtatRecu, b \in Octet : f[<<e, b>>] = Recevoir(e, b)
  OBVIOUS
<1> HIDE DEF f
<1>4. PICK d \in [0 .. Len(s) -> EtatRecu] : Etapes(d, f, Depart, s, Len(s))
  BY <1>1, <1>2, EtapesExistent
<1>5. Len(s) \in Nat /\ \A k \in 1 .. Len(s) : s[k] \in Octet
  BY LenProperties, ElementOfSeq
<1>6. \A k \in 1 .. Len(s) : d[k] = Recevoir(d[k - 1], s[k])
  <2> SUFFICES ASSUME NEW k \in 1 .. Len(s) PROVE d[k] = Recevoir(d[k - 1], s[k])
    OBVIOUS
  <2>1. k - 1 \in 0 .. Len(s)
    BY <1>5
  <2>2. d[k - 1] \in EtatRecu
    BY <2>1
  <2> QED
    BY <1>3, <1>4, <1>5, <2>2 DEF Etapes
<1>7. d[0] = Depart
  BY <1>4 DEF Etapes
<1>8. Reception(d, s)
  BY <1>5, <1>6, <1>7 DEF Reception
<1> QED
  BY <1>8

\* Two readings agree on what their sequences have in common.
LEMMA ReceptionsAccordees ==
  ASSUME NEW s, NEW t, NEW k \in Nat, Len(s) \in Nat, Len(t) \in Nat,
         k <= Len(s), k <= Len(t), \A m \in 1 .. k : s[m] = t[m],
         NEW d, NEW e, Reception(d, s), Reception(e, t)
  PROVE  d[k] = e[k]
<1> DEFINE Bons == {m \in 0 .. k : d[m] = e[m]}
<1>1. /\ \A m \in 0 .. Len(s) : d[m] = IF m = 0 THEN Depart ELSE Recevoir(d[m - 1], s[m])
      /\ \A m \in 0 .. Len(t) : e[m] = IF m = 0 THEN Depart ELSE Recevoir(e[m - 1], t[m])
  <2>1. d = [m \in 0 .. Len(s) |-> IF m = 0 THEN Depart ELSE Recevoir(d[m - 1], s[m])]
    BY DEF Reception
  <2>2. e = [m \in 0 .. Len(t) |-> IF m = 0 THEN Depart ELSE Recevoir(e[m - 1], t[m])]
    BY DEF Reception
  <2> QED
    BY <2>1, <2>2
<1>2. 0 \in Bons
  BY <1>1
<1>3. \A m \in 1 .. k : m - 1 \in Bons => m \in Bons
  BY <1>1
<1>4. Bons \in SUBSET (0 .. k)
  OBVIOUS
<1> HIDE DEF Bons
<1>5. Bons = 0 .. k
  BY <1>2, <1>3, <1>4, PremierEchec
<1> QED
  BY <1>5 DEF Bons

\* One more byte is received in the state the bytes before it left.
LEMMA RecueAppend ==
  ASSUME NEW s \in Seq(Octet), NEW b \in Octet
  PROVE  /\ Recue(s) \in EtatRecu
         /\ Recue(Append(s, b)) = Recevoir(Recue(s), b)
<1> DEFINE t == Append(s, b)
<1>1. /\ t \in Seq(Octet) /\ Len(t) = Len(s) + 1 /\ t[Len(s) + 1] = b
      /\ Len(s) \in Nat /\ \A m \in 1 .. Len(s) : s[m] = t[m]
  BY AppendProperties, LenProperties
<1> HIDE DEF t
<1> DEFINE d == CHOOSE x : Reception(x, s)
           e == CHOOSE x : Reception(x, t)
<1>2. Reception(d, s) /\ Reception(e, t)
  BY <1>1, ReceptionExiste
<1>3. Recue(s) = d[Len(s)] /\ Recue(t) = e[Len(t)]
  BY DEF Recue
<1> HIDE DEF d, e
<1>4. PICK c \in [0 .. Len(s) -> EtatRecu] : Reception(c, s)
  BY ReceptionExiste
<1>5. d[Len(s)] = c[Len(s)]
  BY <1>1, <1>2, <1>4, ReceptionsAccordees
<1>6. d[Len(s)] = e[Len(s)]
  BY <1>1, <1>2, ReceptionsAccordees
<1>7. e[Len(s) + 1] = Recevoir(e[Len(s)], b)
  <2>1. e = [m \in 0 .. Len(t) |-> IF m = 0 THEN Depart ELSE Recevoir(e[m - 1], t[m])]
    BY <1>2 DEF Reception
  <2>2. Len(s) + 1 \in 0 .. Len(t) /\ Len(s) + 1 # 0 /\ (Len(s) + 1) - 1 = Len(s)
    BY <1>1
  <2> QED
    BY <1>1, <2>1, <2>2
<1>8. Recue(s) \in EtatRecu
  BY <1>1, <1>3, <1>4, <1>5
<1>9. Recue(t) = Recevoir(Recue(s), b)
  BY <1>1, <1>3, <1>6, <1>7
<1> QED
  BY <1>8, <1>9 DEF t

LEMMA RecueVide == Recue(<<>>) = Depart
<1> DEFINE d == CHOOSE x : Reception(x, <<>>)
<1>1. <<>> \in Seq(Octet) /\ Len(<<>>) = 0
  OBVIOUS
<1>2. Reception(d, <<>>)
  BY <1>1, ReceptionExiste
<1>3. Recue(<<>>) = d[0]
  BY <1>1 DEF Recue
<1> HIDE DEF d
<1>4. d = [m \in 0 .. 0 |-> IF m = 0 THEN Depart ELSE Recevoir(d[m - 1], <<>>[m])]
  BY <1>1, <1>2 DEF Reception
<1>5. d[0] = Depart
  BY <1>4
<1> QED
  BY <1>3, <1>5

LEMMA DecoderType ==
  ASSUME NEW s \in Seq(Octet)
  PROVE  Decoder(s) \in Seq(Octet)
<1>1. \E b : b \in Octet
  BY DEF Octet
<1>2. Recue(s) \in EtatRecu
  BY <1>1, RecueAppend
<1> QED
  BY <1>2, DecoderRecue DEF EtatRecu

\* A byte is read as it was before it was coded.
LEMMA UnOctetRecu ==
  ASSUME NEW s \in Seq(Octet), NEW l, NEW b \in Octet,
         Recue(s) = [lu |-> l, echap |-> FALSE]
  PROVE  Recue(s \o Octets(b)) = [lu |-> Append(l, b), echap |-> FALSE]
<1>1. CASE b \in Speciaux
  <2>1. Octets(b) = <<Echap, Masque(b)>>
    BY <1>1 DEF Octets
  <2>2. Masque(b) \in Octet /\ Masque(Masque(b)) = b
    BY MasqueDouble
  <2>3. Echap \in Octet
    BY DEF Echap, Octet
  <2> DEFINE u == Append(s, Echap)
  <2>4. u \in Seq(Octet) /\ s \o Octets(b) = Append(u, Masque(b))
    BY <2>1, <2>2, <2>3
  <2>5. Recue(u) = Recevoir(Recue(s), Echap)
    BY <2>3, RecueAppend
  <2> HIDE DEF u
  <2>6. Recue(u) = [lu |-> l, echap |-> TRUE]
    BY <2>5 DEF Recevoir
  <2>7. Recue(Append(u, Masque(b))) = Recevoir(Recue(u), Masque(b))
    BY <2>2, <2>4, RecueAppend
  <2> QED
    BY <2>2, <2>4, <2>6, <2>7 DEF Recevoir
<1>2. CASE b \notin Speciaux
  <2>1. Octets(b) = <<b>> /\ b # Echap
    BY <1>2 DEF Octets, Speciaux
  <2>2. s \o Octets(b) = Append(s, b)
    BY <2>1
  <2>3. Recue(Append(s, b)) = Recevoir(Recue(s), b)
    BY RecueAppend
  <2>4. Recevoir([lu |-> l, echap |-> FALSE], b) = [lu |-> Append(l, b), echap |-> FALSE]
    BY <2>1 DEF Recevoir
  <2> QED
    BY <2>2, <2>3, <2>4
<1> QED
  BY <1>1, <1>2

CodageBon(t) ==
  /\ Coder(t) \in Seq(Octet) /\ Recue(Coder(t)) = [lu |-> t, echap |-> FALSE]
  /\ \A k \in DOMAIN Coder(t) : Coder(t)[k] \notin {Dollar, Diese}

\* The coding of a chunk stands for its bytes, none of which is a delimiter.
LEMMA CodageFidele ==
  ASSUME NEW s \in Seq(Octet)
  PROVE  /\ Coder(s) \in Seq(Octet) /\ Decoder(Coder(s)) = s
         /\ \A k \in DOMAIN Coder(s) : Coder(s)[k] \notin {Dollar, Diese}
<1> DEFINE P(k) == SubSeq(s, 1, k)
           Bons == {k \in 0 .. Len(s) : CodageBon(P(k))}
<1>1. Len(s) \in Nat
  BY LenProperties
<1>2. 0 \in Bons
  <2>1. P(0) = <<>>
    BY SubSeqProperties
  <2>2. Recue(<<>>) = [lu |-> <<>>, echap |-> FALSE]
    BY RecueVide DEF Depart
  <2>3. CodageBon(<<>>)
    <3>1. <<>> \in Seq(Octet) /\ DOMAIN <<>> = {}
      OBVIOUS
    <3> QED
      BY <2>2, <3>1, CoderVide DEF CodageBon
  <2>4. CodageBon(P(0))
    BY <2>1, <2>3, Zenon
  <2> QED
    BY <1>1, <2>4
<1>3. ASSUME NEW k \in 1 .. Len(s), k - 1 \in Bons
      PROVE  k \in Bons
  <2> DEFINE t == P(k - 1)
             b == s[k]
  <2>1. t \in Seq(Octet) /\ b \in Octet /\ P(k) = Append(t, b)
    BY <1>1
  <2>2. CodageBon(t)
    BY <1>3
  <2> HIDE DEF t, b
  <2>3. Coder(Append(t, b)) = Coder(t) \o Octets(b)
    BY <2>1, CoderAppend
  <2>4. Octets(b) \in Seq(Octet) /\ \A m \in DOMAIN Octets(b) : Octets(b)[m] \notin {Dollar, Diese}
    BY <2>1, OctetsType
  <2>5. Recue(Coder(t) \o Octets(b)) = [lu |-> Append(t, b), echap |-> FALSE]
    BY <2>1, <2>2, UnOctetRecu DEF CodageBon
  <2>6. Coder(t) \o Octets(b) \in Seq(Octet)
    BY <2>2, <2>4, ConcatProperties DEF CodageBon
  <2> DEFINE c == Coder(t)
             o == Octets(b)
  <2>7. \A m \in DOMAIN (c \o o) : (c \o o)[m] \notin {Dollar, Diese}
    <3>1. c \in Seq(Octet) /\ o \in Seq(Octet)
      BY <2>2, <2>4 DEF CodageBon
    <3>2. /\ \A m \in DOMAIN c : c[m] \notin {Dollar, Diese}
          /\ \A m \in DOMAIN o : o[m] \notin {Dollar, Diese}
      BY <2>2, <2>4 DEF CodageBon
    <3> HIDE DEF c, o
    <3> SUFFICES ASSUME NEW m \in DOMAIN (c \o o) PROVE (c \o o)[m] \notin {Dollar, Diese}
      OBVIOUS
    <3>3. Len(c) \in Nat /\ Len(o) \in Nat /\ m \in 1 .. Len(c) + Len(o)
      BY <3>1, LenProperties, ConcatProperties
    <3>4. (c \o o)[m] = IF m <= Len(c) THEN c[m] ELSE o[m - Len(c)]
      BY <3>1, <3>3, ConcatProperties
    <3>5. CASE m <= Len(c)
      BY <3>1, <3>2, <3>3, <3>4, <3>5
    <3>6. CASE ~(m <= Len(c))
      <4>1. m - Len(c) \in DOMAIN o
        BY <3>1, <3>3, <3>6, LenProperties
      <4> QED
        BY <3>2, <3>4, <3>6, <4>1
    <3> QED
      BY <3>5, <3>6
  <2>8. CodageBon(Append(t, b))
    BY <2>3, <2>5, <2>6, <2>7 DEF CodageBon
  <2>9. CodageBon(P(k))
    BY <2>1, <2>8, Zenon
  <2> QED
    BY <1>1, <2>9
<1>4. Bons \in SUBSET (0 .. Len(s))
  OBVIOUS
<1> HIDE DEF Bons
<1>5. Bons = 0 .. Len(s)
  BY <1>1, <1>2, <1>3, <1>4, PremierEchec
<1>6. Len(s) \in Bons /\ P(Len(s)) = s
  BY <1>1, <1>5
<1>7. CodageBon(s)
  BY <1>6 DEF Bons
<1> QED
  BY <1>7, DecoderRecue DEF CodageBon

\* The next chunk is a part of what is left.
LEMMA bytes_copiedBorne ==
  ASSUME NEW s \in Seq(Octet)
  PROVE  bytes_copied(s) \in 0 .. Len(s)
<1> DEFINE S == {k \in 0 .. Len(s) : k > 0 => buffer_size(s, k - 1) < MAX_BUFFER_SIZE - 1}
<1>1. Len(s) \in Nat
  BY LenProperties
<1>2. S # {} /\ S \subseteq 0 .. Len(s)
  <2>1. 0 \in S
    BY <1>1
  <2> QED
    BY <2>1
<1>3. bytes_copied(s) = Max(S)
  BY DEF bytes_copied
<1> HIDE DEF S
<1>4. Max(S) \in S
  BY <1>1, <1>2, Maximum DEF Max
<1> QED
  BY <1>2, <1>3, <1>4

-----------------------------------------------------------------------------
(* The types.                                                              *)

\* What the connection may hold when n commands were sent.
PourSim(n) == {x \in JetonsSim : x.t = "paquet" => x.c.n <= n}
PourClient(n) == {x \in JetonsClient : x.t = "paquet" => x.n <= n}

\* TypeOK in parts.
Controle ==
  /\ pc \in {"connexion", "pret", "attente", "fin", "exit", "avorte"}
  /\ etape \in {"memoire", "registre", "pas", "lancer"}
  /\ rp \in 1 .. NbAdresses + 1 /\ sockets \subseteq 1 .. NbAdresses
  /\ hote \in BOOLEAN /\ image \in Seq(Octet)
  /\ buffer \in Seq(Octet) /\ address \in 0 .. Espace /\ pas \in 0 .. MaxPas
  /\ len \in 0 .. MAX_ERROR_SIZE - 1
  /\ sim \in {"pret", "marche", "parti"}
  /\ abimes \in Nat /\ parasites \in Nat /\ detruits \in Nat /\ deborde \in BOOLEAN
Traces ==
  /\ memoire \in [0 .. Espace - 1 -> Octet] /\ registre \in Seq(Octet)
  /\ envoyees \in Nat /\ executees \in Seq(1 .. envoyees)
  /\ recues \subseteq [attend : Nat, n : Nat \cup {EOF}]
Gardes ==
  /\ packet \in Paquets(BOOLEAN) \cup {<<>>}
  /\ packet # <<>> => packet.c.n = envoyees
  /\ pc \in {"attente", "fin"} => packet # <<>>
  /\ reponse \in Reponses({TRUE}) \cup {<<>>}
  /\ reponse # <<>> => reponse.n <= envoyees
FilesTypees == versSim \in Seq(PourSim(envoyees)) /\ versClient \in Seq(PourClient(envoyees))

LEMMA SuiteRestreinte ==
  ASSUME NEW S, NEW T, T \subseteq S, NEW s \in Seq(S), \A k \in DOMAIN s : s[k] \in T
  PROVE  s \in Seq(T)
<1>1. Len(s) \in Nat /\ DOMAIN s = 1 .. Len(s) /\ s = [k \in 1 .. Len(s) |-> s[k]]
  BY LenProperties
<1> QED
  BY <1>1

LEMMA SuiteElargie ==
  ASSUME NEW S, NEW T, T \subseteq S, NEW s \in Seq(T)
  PROVE  s \in Seq(S)
<1>1. Len(s) \in Nat /\ DOMAIN s = 1 .. Len(s) /\ s = [k \in 1 .. Len(s) |-> s[k]]
  BY LenProperties
<1>2. \A k \in 1 .. Len(s) : s[k] \in S
  BY <1>1, ElementOfSeq
<1> QED
  BY <1>1, <1>2

LEMMA TypesParParts ==
  TypeOK <=> Controle /\ Traces /\ Gardes /\ FilesTypees
<1>1. PourSim(envoyees) \subseteq JetonsSim /\ PourClient(envoyees) \subseteq JetonsClient
  BY DEF PourSim, PourClient
<1>2. ASSUME Files PROVE FilesTypees
  <2>1. \A k \in DOMAIN versSim : versSim[k] \in PourSim(envoyees)
    BY <1>2, LenProperties, ElementOfSeq DEF Files, PourSim
  <2>2. \A k \in DOMAIN versClient : versClient[k] \in PourClient(envoyees)
    BY <1>2, LenProperties, ElementOfSeq DEF Files, PourClient
  <2> QED
    BY <1>1, <1>2, <2>1, <2>2, SuiteRestreinte DEF Files, FilesTypees
<1>3. ASSUME FilesTypees
      PROVE  /\ versSim \in Seq(JetonsSim) /\ versClient \in Seq(JetonsClient)
             /\ \A k \in DOMAIN versSim : versSim[k].t = "paquet" => versSim[k].c.n <= envoyees
             /\ \A k \in DOMAIN versClient : versClient[k].t = "paquet" => versClient[k].n <= envoyees
  <2>1. /\ \A k \in DOMAIN versSim : versSim[k] \in PourSim(envoyees)
        /\ \A k \in DOMAIN versClient : versClient[k] \in PourClient(envoyees)
    BY <1>3, LenProperties, ElementOfSeq DEF FilesTypees
  <2>2. versSim \in Seq(JetonsSim) /\ versClient \in Seq(JetonsClient)
    BY <1>1, <1>3, SuiteElargie DEF FilesTypees
  <2> QED
    BY <2>1, <2>2 DEF PourSim, PourClient
<1>4. TypeOK <=> Controle /\ Traces /\ Files
  BY DEF TypeOK, Controle, Traces
<1>5. Files <=> Gardes /\ FilesTypees
  BY <1>2, <1>3 DEF Files, Gardes
<1> QED
  BY <1>4, <1>5

LEMMA Jetons ==
  ASSUME NEW n \in Nat
  PROVE  /\ Plus \in PourSim(n) /\ Moins \in PourSim(n)
         /\ Plus \in PourClient(n) /\ Moins \in PourClient(n) /\ Parasite \in PourClient(n)
         /\ handle_error \in Seq(PourSim(n))
         /\ PourSim(n) \subseteq PourSim(n + 1) /\ PourClient(n) \subseteq PourClient(n + 1)
<1>1. /\ Plus \in PourSim(n) /\ Moins \in PourSim(n)
      /\ Plus \in PourClient(n) /\ Moins \in PourClient(n) /\ Parasite \in PourClient(n)
  BY DEF Plus, Moins, Parasite, PourSim, PourClient, JetonsSim, JetonsClient
<1>2. handle_error \in Seq(PourSim(n))
  BY <1>1 DEF handle_error
<1>3. PourSim(n) \subseteq PourSim(n + 1)
  <2> SUFFICES ASSUME NEW x \in PourSim(n) PROVE x \in PourSim(n + 1)
    OBVIOUS
  <2>1. x \in JetonsSim /\ (x.t = "paquet" => x.c.n <= n)
    BY DEF PourSim
  <2>2. x.t = "paquet" => x.c.n \in Nat
    BY <2>1 DEF JetonsSim, Plus, Moins, Paquets, UneCommande
  <2> QED
    BY <2>1, <2>2 DEF PourSim
<1>4. PourClient(n) \subseteq PourClient(n + 1)
  <2> SUFFICES ASSUME NEW x \in PourClient(n) PROVE x \in PourClient(n + 1)
    OBVIOUS
  <2>1. x \in JetonsClient /\ (x.t = "paquet" => x.n <= n)
    BY DEF PourClient
  <2>2. x.t = "paquet" => x.n \in Nat
    BY <2>1 DEF JetonsClient, Plus, Moins, Parasite, Reponses
  <2> QED
    BY <2>1, <2>2 DEF PourClient
<1> QED
  BY <1>1, <1>2, <1>3, <1>4

LEMMA PaquetType ==
  ASSUME NEW c \in UneCommande, NEW ok \in BOOLEAN
  PROVE  /\ Paquet(c, ok) \in Paquets(BOOLEAN) /\ Paquet(c, ok).t = "paquet"
         /\ Paquet(c, ok).c = c /\ Paquet(c, ok).ok = ok
BY DEF Paquet, Paquets

LEMMA PaquetNonVide ==
  ASSUME NEW ok, NEW p
  PROVE  (p \in Paquets(ok) => p # <<>>) /\ (p \in Reponses(ok) => p # <<>>)
<1>1. DOMAIN <<>> = {}
  OBVIOUS
<1>2. p \in Paquets(ok) => DOMAIN p = {"t", "c", "ok"}
  BY DEF Paquets
<1>3. p \in Reponses(ok) => DOMAIN p = {"t", "n", "ok"}
  BY DEF Reponses
<1> QED
  BY <1>1, <1>2, <1>3

LEMMA ReponseType ==
  ASSUME NEW p \in Reponses({TRUE})
  PROVE  p \in Reponses(BOOLEAN) /\ p.t = "paquet" /\ p.n \in Nat \ {0} /\ p.ok = TRUE
<1>1. p \in Reponses(BOOLEAN) /\ p.ok = TRUE
  BY Zenon DEF Reponses
<1> QED
  BY <1>1 DEF Reponses

LEMMA TypageInit == Init => TypeOK
<1> SUFFICES ASSUME NEW m \in Images, NEW h \in Hotes, InitLiaison(m, h)
             PROVE  TypeOK
  BY DEF Init
<1>1. m \in Seq(Octet) /\ Adresse + Len(m) <= Espace /\ Len(m) \in Nat
  BY LiaisonAssumption, LenProperties
<1>2. Controle
  <2>1. h \in BOOLEAN /\ 1 \in 1 .. NbAdresses + 1 /\ 0 \in 0 .. MAX_ERROR_SIZE - 1
    BY LiaisonAssumption
  <2>2. Adresse \in 0 .. Espace /\ 0 \in 0 .. MaxPas
    BY <1>1, LiaisonAssumption
  <2>3. /\ pc = "connexion" /\ etape = "memoire" /\ rp = 1 /\ sockets = {}
        /\ hote = h /\ image = m /\ buffer = m /\ address = Adresse /\ pas = 0
        /\ len = 0 /\ sim = "pret" /\ abimes = 0 /\ parasites = 0 /\ detruits = 0
        /\ deborde = FALSE
    BY DEF InitLiaison
  <2> QED
    BY <1>1, <2>1, <2>2, <2>3 DEF Controle
<1>3. Traces
  <2>1. 0 \in Octet
    BY DEF Octet
  <2>2. memoire = [a \in 0 .. Espace - 1 |-> 0]
    BY DEF InitLiaison
  <2>3. memoire \in [0 .. Espace - 1 -> Octet]
    BY <2>1, <2>2
  <2>4. registre = <<>> /\ envoyees = 0 /\ executees = <<>> /\ recues = {}
    BY DEF InitLiaison
  <2> QED
    BY <2>3, <2>4 DEF Traces
<1>4. Gardes /\ FilesTypees
  BY DEF Gardes, FilesTypees, InitLiaison
<1> QED
  BY <1>2, <1>3, <1>4, TypesParParts

LEMMA TypageConnexion ==
  ASSUME TypeOK, AdresseSuivante \/ Connecter \/ ConnexionImpossible
  PROVE  TypeOK'
<1>1. Controle /\ Traces /\ Gardes /\ FilesTypees
  BY TypesParParts
<1>2. /\ UNCHANGED <<etape, appel, packet, len, versSim, versClient, simulateur,
                     bruit, envoyees, recues, deborde>>
      /\ pc' \in {"connexion", "pret", "exit"}
      /\ rp' \in 1 .. NbAdresses + 1 /\ sockets' \subseteq 1 .. NbAdresses
  <2>1. CASE AdresseSuivante
    BY <1>1, <2>1, LiaisonAssumption DEF AdresseSuivante, Connexion, Controle
  <2>2. CASE Connecter
    BY <1>1, <2>2, LiaisonAssumption DEF Connecter, Connexion, Controle
  <2>3. CASE ConnexionImpossible
    BY <1>1, <2>3, LiaisonAssumption DEF ConnexionImpossible, Connexion, connexion, Controle
  <2> QED
    BY <2>1, <2>2, <2>3
<1>3. Controle'
  BY <1>1, <1>2 DEF Controle, appel, simulateur, bruit
<1>4. Traces'
  BY <1>1, <1>2 DEF Traces, simulateur
<1>5. Gardes' /\ FilesTypees'
  BY <1>1, <1>2 DEF Gardes, FilesTypees, simulateur
<1> QED
  BY <1>3, <1>4, <1>5, TypesParParts, PTL

\* A packet on its way to the simulator.
LEMMA ContenusType ==
  ASSUME NEW c \in UneCommande, gdb_send_buffer(c)
  PROVE  \E p \in Paquets(BOOLEAN) :
           /\ packet' = p /\ versSim' = Append(versSim, p) /\ p.c.n = c.n
           /\ ~deborde' => p.ok = TRUE
<1>1. PICK p \in Contenus(c) : packet' = p /\ versSim' = Append(versSim, p)
  BY DEF gdb_send_buffer
<1>2. p \in Paquets(BOOLEAN) /\ p.c.n = c.n /\ (Tient(c.data) => p.ok = TRUE)
  <2>1. CASE Tient(c.data)
    <3>1. p = Paquet(c, TRUE)
      BY <1>1, <2>1 DEF Contenus
    <3> QED
      BY <3>1, PaquetType
  <2>2. CASE ~Tient(c.data)
    <3>1. PICK d \in {c.data, [k \in DOMAIN c.data |-> 0]}, ok \in BOOLEAN :
            p = Paquet([c EXCEPT !.data = d], ok)
      BY <1>1, <2>2 DEF Contenus
    <3>2. d \in Seq(Octet)
      <4>1. c.data \in Seq(Octet) /\ 0 \in Octet
        BY DEF UneCommande, Octet
      <4>2. Len(c.data) \in Nat /\ DOMAIN c.data = 1 .. Len(c.data)
        BY <4>1, LenProperties
      <4>3. [k \in DOMAIN c.data |-> 0] \in Seq(Octet)
        BY <4>1, <4>2
      <4> QED
        BY <4>1, <4>3
    <3>3. [c EXCEPT !.data = d] \in UneCommande /\ [c EXCEPT !.data = d].n = c.n
      BY <3>2 DEF UneCommande
    <3> QED
      BY <2>2, <3>1, <3>3, PaquetType
  <2> QED
    BY <2>1, <2>2
<1>3. ~deborde' => Tient(c.data)
  BY DEF gdb_send_buffer
<1> QED
  BY <1>1, <1>2, <1>3

\* Any command sent.
LEMMA TypageEnvoi ==
  ASSUME TypeOK, NEW c \in UneCommande, c.n = envoyees + 1, gdb_send_buffer(c),
         etape' \in {"memoire", "registre", "pas", "lancer"}, pas' \in 0 .. MaxPas
  PROVE  TypeOK'
<1>1. Controle /\ Traces /\ Gardes /\ FilesTypees
  BY TypesParParts
<1>2. envoyees \in Nat
  BY <1>1 DEF Traces
<1>3. PICK p \in Paquets(BOOLEAN) :
        packet' = p /\ versSim' = Append(versSim, p) /\ p.c.n = envoyees + 1
  BY ContenusType
<1>4. p \in Paquets(BOOLEAN) /\ p.t = "paquet" /\ p.c.n = envoyees + 1
  BY <1>3 DEF Paquets
<1>5. /\ envoyees' = envoyees + 1 /\ pc' = "attente" /\ deborde' \in BOOLEAN
      /\ UNCHANGED <<rp, sockets, hote, image, buffer, address, len, versClient, sim,
                     memoire, registre, reponse, executees, abimes, parasites,
                     detruits, recues>>
  <2>1. deborde' \in BOOLEAN
    BY <1>1 DEF gdb_send_buffer, Controle
  <2> QED
    BY <2>1 DEF gdb_send_buffer, connexion, simulateur, bruit
<1>6. Controle'
  BY <1>1, <1>5 DEF Controle
<1>7. Traces'
  <2>1. 1 .. envoyees \subseteq 1 .. envoyees'
    BY <1>2, <1>5
  <2>2. executees' \in Seq(1 .. envoyees')
    BY <1>1, <1>5, <2>1, SuiteElargie DEF Traces
  <2> QED
    BY <1>1, <1>2, <1>5, <2>2 DEF Traces
<1>8. Gardes'
  <2>1. p # <<>>
    BY <1>4, PaquetNonVide
  <2>2. reponse' # <<>> => reponse'.n <= envoyees'
    <3>1. reponse # <<>> => reponse.n <= envoyees /\ reponse.n \in Nat
      BY <1>1, ReponseType DEF Gardes
    <3> QED
      BY <1>2, <1>5, <3>1
  <2> QED
    BY <1>1, <1>3, <1>4, <1>5, <2>1, <2>2 DEF Gardes
<1>9. FilesTypees'
  <2>1. versSim \in Seq(PourSim(envoyees + 1)) /\ versClient \in Seq(PourClient(envoyees + 1))
    <3>1. PourSim(envoyees) \subseteq PourSim(envoyees + 1) /\ PourClient(envoyees) \subseteq PourClient(envoyees + 1)
      BY <1>2, Jetons
    <3> QED
      BY <1>1, <3>1, SuiteElargie DEF FilesTypees
  <2>2. p \in PourSim(envoyees + 1)
    BY <1>2, <1>4 DEF PourSim, JetonsSim
  <2>3. Append(versSim, p) \in Seq(PourSim(envoyees + 1))
    BY <2>1, <2>2, AppendProperties
  <2> QED
    BY <1>3, <1>5, <2>1, <2>3 DEF FilesTypees
<1> QED
  BY <1>6, <1>7, <1>8, <1>9, TypesParParts, PTL

LEMMA EnMemoireType ==
  ASSUME NEW v \in Seq(Octet), NEW h \in BOOLEAN, NEW t \in BOOLEAN
  PROVE  /\ write_uint32(v, h, t) \in Seq(Octet) /\ LireRegistre(v, t) \in Seq(Octet)
<1>1. ASSUME NEW s \in Seq(Octet) PROVE Reverse(s) \in Seq(Octet)
  <2>1. Len(s) \in Nat /\ \A k \in 1 .. Len(s) : s[k] \in Octet
    BY LenProperties, ElementOfSeq
  <2>2. \A k \in 1 .. Len(s) : s[(Len(s) - k) + 1] \in Octet
    BY <2>1
  <2> QED
    BY <2>1, <2>2 DEF Reverse
<1>2. EnMemoire(v, h) \in Seq(Octet)
  BY <1>1 DEF EnMemoire
<1> QED
  BY <1>1, <1>2 DEF write_uint32, LireRegistre

LEMMA TypageCommandes ==
  ASSUME TypeOK,
         EnvoyerMorceau \/ MorceauFatal \/ gdb_write_register \/ arm_step \/ arm_run
  PROVE  TypeOK'
<1>1. Controle /\ Traces /\ Gardes /\ FilesTypees
  BY TypesParParts
<1>2. /\ envoyees \in Nat /\ buffer \in Seq(Octet) /\ address \in Nat /\ pas \in 0 .. MaxPas
      /\ hote \in BOOLEAN /\ Cible \in BOOLEAN /\ ValeurPC \in Seq(Octet)
      /\ MaxPas \in Nat /\ etape \in {"memoire", "registre", "pas", "lancer"}
  BY <1>1, LiaisonAssumption DEF Controle, Traces
<1>3. CASE EnvoyerMorceau
  <2>1. Chunk \in UneCommande /\ Chunk.n = envoyees + 1
    <3>1. bytes_copied(buffer) \in 0 .. Len(buffer) /\ Len(buffer) \in Nat
      BY <1>2, bytes_copiedBorne, LenProperties
    <3>2. Morceau(buffer) \in Seq(Octet)
      BY <1>2, <3>1, SubSeqProperties DEF Morceau
    <3>3. Coder(Morceau(buffer)) \in Seq(Octet)
      BY <3>2, CodageFidele
    <3> QED
      BY <1>2, <3>1, <3>3 DEF Chunk, Commande, UneCommande
  <2> QED
    BY <1>2, <1>3, <2>1, TypageEnvoi DEF EnvoyerMorceau
<1>4. CASE MorceauFatal
  <2>1. /\ UNCHANGED <<etape, connexion, appel, packet, len, versSim, versClient,
                       simulateur, bruit, envoyees, recues>>
        /\ pc' = "avorte" /\ deborde' = TRUE
    BY <1>4 DEF MorceauFatal
  <2>2. Controle' /\ Traces' /\ Gardes' /\ FilesTypees'
    BY <1>1, <2>1 DEF Controle, Traces, Gardes, FilesTypees, connexion, appel, simulateur, bruit
  <2> QED
    BY <2>2, TypesParParts, PTL
<1>5. CASE gdb_write_register
  <2> DEFINE c == Commande("P", 15, 0, write_uint32(ValeurPC, hote, Cible))
  <2>1. c \in UneCommande /\ c.n = envoyees + 1
    <3>1. write_uint32(ValeurPC, hote, Cible) \in Seq(Octet)
      BY <1>2, EnMemoireType
    <3> QED
      BY <1>2, <3>1 DEF Commande, UneCommande
  <2>2. gdb_send_buffer(c) /\ etape' = "registre" /\ pas' = pas
    BY <1>5 DEF gdb_write_register
  <2> HIDE DEF c
  <2> QED
    BY <1>2, <2>1, <2>2, TypageEnvoi
<1>6. CASE arm_step
  <2> DEFINE c == Commande("s", 0, 0, <<>>)
  <2>1. c \in UneCommande /\ c.n = envoyees + 1
    BY <1>2 DEF Commande, UneCommande
  <2>2. gdb_send_buffer(c) /\ etape' = "pas" /\ pas' \in 0 .. MaxPas
    BY <1>2, <1>6 DEF arm_step
  <2> HIDE DEF c
  <2> QED
    BY <2>1, <2>2, TypageEnvoi
<1>7. CASE arm_run
  <2> DEFINE c == Commande("c", 0, 0, <<>>)
  <2>1. c \in UneCommande /\ c.n = envoyees + 1
    BY <1>2 DEF Commande, UneCommande
  <2>2. gdb_send_buffer(c) /\ etape' = "lancer" /\ pas' = pas
    BY <1>7 DEF arm_run
  <2> HIDE DEF c
  <2> QED
    BY <1>2, <2>1, <2>2, TypageEnvoi
<1> QED
  BY <1>3, <1>4, <1>5, <1>6, <1>7

\* Any step of the scanner: it consumes a token and returns or not.
LEMMA TypageLecture ==
  ASSUME TypeOK, Ecouter,
         versClient' \in Seq(PourClient(envoyees)), versSim' \in Seq(PourSim(envoyees)),
         len' \in 0 .. MAX_ERROR_SIZE - 1,
         RestePret \/ \E r \in (1 .. envoyees) \cup {EOF} : Retour(r)
  PROVE  TypeOK'
<1>1. Controle /\ Traces /\ Gardes /\ FilesTypees
  BY TypesParParts
<1>2. /\ UNCHANGED <<etape, connexion, packet, simulateur, bruit, envoyees, deborde>>
      /\ pc = "attente"
  BY DEF Ecouter
<1>3. /\ pc' \in {"attente", "pret", "fin"} /\ buffer' \in Seq(Octet) /\ address' \in 0 .. Espace
      /\ UNCHANGED <<hote, image, pas>>
      /\ recues' \subseteq [attend : Nat, n : Nat \cup {EOF}]
  <2>1. CASE RestePret
    BY <1>1, <1>2, <2>1 DEF RestePret, appel, Controle, Traces
  <2>2. CASE \E r \in (1 .. envoyees) \cup {EOF} : Retour(r)
    <3>1. PICK r \in (1 .. envoyees) \cup {EOF} : Retour(r)
      BY <2>2
    <3>2. packet.c \in UneCommande
      BY <1>1, <1>2 DEF Gardes, Paquets
    <3>3. packet.c.lon \in Nat
      BY <3>2 DEF UneCommande
    <3>4. SubSeq(buffer, packet.c.lon + 1, Len(buffer)) \in Seq(Octet)
      BY <1>1, <3>3, SubSeqProperties DEF Controle
    <3>5. (address + packet.c.lon) % Espace \in 0 .. Espace
      <4>1. address \in Nat /\ Espace \in Nat \ {0}
        BY <1>1, LiaisonAssumption DEF Controle
      <4> DEFINE x == address + packet.c.lon
      <4>2. x \in Nat
        BY <3>3, <4>1
      <4> HIDE DEF x
      <4>3. x % Espace \in 0 .. Espace - 1
        BY <4>1, <4>2
      <4>4. x % Espace \in 0 .. Espace
        BY <4>1, <4>3
      <4> QED
        BY <4>4 DEF x
    <3>6. recues' \subseteq [attend : Nat, n : Nat \cup {EOF}]
      BY <1>1, <3>1 DEF Retour, Traces
    <3>7. pc' \in {"pret", "fin"} /\ UNCHANGED <<hote, image, pas>>
      BY <3>1 DEF Retour
    <3>8. buffer' \in Seq(Octet) /\ address' \in 0 .. Espace
      BY <1>1, <3>1, <3>4, <3>5 DEF Retour, Controle
    <3> QED
      BY <3>6, <3>7, <3>8
  <2> QED
    BY <2>1, <2>2
<1>4. Controle'
  BY <1>1, <1>2, <1>3 DEF Controle, connexion, simulateur, bruit
<1>5. Traces'
  BY <1>1, <1>2, <1>3 DEF Traces, simulateur
<1>6. Gardes' /\ FilesTypees'
  BY <1>1, <1>2, <1>3 DEF Gardes, FilesTypees, simulateur
<1> QED
  BY <1>4, <1>5, <1>6, TypesParParts, PTL

LEMMA TypageScanner ==
  ASSUME TypeOK,
         \/ LireAck \/ LireRetransmission \/ LirePaquet \/ LirePaquetAbime
         \/ LireParasite \/ LireFin
  PROVE  TypeOK'
<1>1. Controle /\ Traces /\ Gardes /\ FilesTypees
  BY TypesParParts
<1>2. /\ envoyees \in Nat /\ len \in Nat /\ len <= MAX_ERROR_SIZE - 1 /\ MAX_ERROR_SIZE >= 2
      /\ MAX_ERROR_SIZE \in Nat
      /\ versSim \in Seq(PourSim(envoyees)) /\ versClient \in Seq(PourClient(envoyees))
  BY <1>1, LiaisonAssumption DEF Controle, Traces, FilesTypees
<1>3. /\ handle_error \in Seq(PourSim(envoyees))
      /\ Plus \in PourSim(envoyees) /\ Moins \in PourSim(envoyees)
  BY <1>2, Jetons
<1>4. versSim \o handle_error \in Seq(PourSim(envoyees))
  BY <1>2, <1>3, ConcatProperties
<1>5. \A x \in PourSim(envoyees) : versSim \o handle_error \o <<x>> \in Seq(PourSim(envoyees))
  BY <1>4, ConcatProperties
<1>6. 0 \in 0 .. MAX_ERROR_SIZE - 1 /\ 1 \in 0 .. MAX_ERROR_SIZE - 1
  BY <1>2
<1>7. ASSUME Lu PROVE versClient' \in Seq(PourClient(envoyees))
  BY <1>2, <1>7, HeadTailProperties DEF Lu
<1>8. CASE LireAck
  BY <1>4, <1>6, <1>7, <1>8, TypageLecture DEF LireAck
<1>9. CASE LireRetransmission
  <2>1. packet \in PourSim(envoyees)
    <3>1. packet # <<>> /\ packet \in Paquets(BOOLEAN) /\ packet.c.n = envoyees
      BY <1>1, <1>9 DEF LireRetransmission, Ecouter, Gardes
    <3> QED
      BY <1>2, <3>1 DEF PourSim, JetonsSim
  <2> QED
    BY <1>5, <1>6, <1>7, <1>9, <2>1, TypageLecture DEF LireRetransmission
<1>10. CASE LirePaquet
  <2>1. Head(versClient).n \in 1 .. envoyees
    <3>1. Head(versClient) \in PourClient(envoyees) /\ Head(versClient).t = "paquet"
      BY <1>2, <1>10, HeadTailProperties DEF LirePaquet, Lu
    <3>2. Head(versClient) \in Reponses(BOOLEAN) /\ Head(versClient).n <= envoyees
      BY <3>1 DEF PourClient, JetonsClient, Plus, Moins, Parasite
    <3> QED
      BY <1>2, <3>2 DEF Reponses
  <2>2. versSim' = versSim \o handle_error \o <<Plus>> /\ Lu /\ Ecouter /\ len' = 0
        /\ Retour(Head(versClient).n)
    BY <1>10 DEF LirePaquet
  <2> QED
    BY <1>3, <1>5, <1>6, <1>7, <2>1, <2>2, TypageLecture
<1>11. CASE LirePaquetAbime
  BY <1>3, <1>5, <1>6, <1>7, <1>11, TypageLecture DEF LirePaquetAbime
<1>12. CASE LireParasite
  <2>1. versSim' \in Seq(PourSim(envoyees)) /\ len' \in 0 .. MAX_ERROR_SIZE - 1
    <3>1. CASE Plein
      BY <1>4, <1>6, <1>12, <3>1 DEF LireParasite
    <3>2. CASE ~Plein
      <4>1. versSim' = versSim /\ len' = len + 1
        BY <1>12, <3>2 DEF LireParasite
      <4>2. len + 1 \in 0 .. MAX_ERROR_SIZE - 1
        BY <1>2, <3>2 DEF Plein
      <4> QED
        BY <1>2, <4>1, <4>2
    <3> QED
      BY <3>1, <3>2
  <2> QED
    BY <1>7, <1>12, <2>1, TypageLecture DEF LireParasite
<1>13. CASE LireFin
  BY <1>2, <1>4, <1>6, <1>13, TypageLecture DEF LireFin
<1> QED
  BY <1>8, <1>9, <1>10, <1>11, <1>12, <1>13

\* The head of a direction of the connection, and what follows it.
LEMMA TeteEtSuite ==
  ASSUME NEW S, NEW s \in Seq(S), s # <<>>
  PROVE  Head(s) \in S /\ Tail(s) \in Seq(S) /\ s[1] = Head(s) /\ Len(s) > 0
BY HeadTailProperties, LenProperties

\* Any step of the simulator on a packet or a token it takes.
LEMMA TypageSimulateur ==
  ASSUME TypeOK, Simulateur, versClient' \in Seq(PourClient(envoyees)),
         sim' \in {"pret", "marche"},
         memoire' \in [0 .. Espace - 1 -> Octet], registre' \in Seq(Octet),
         reponse' \in Reponses({TRUE}) \cup {<<>>},
         reponse' # <<>> => reponse'.n <= envoyees,
         executees' \in Seq(1 .. envoyees)
  PROVE  TypeOK'
<1>1. Controle /\ Traces /\ Gardes /\ FilesTypees
  BY TypesParParts
<1>2. /\ UNCHANGED <<pc, etape, connexion, appel, packet, len, bruit, envoyees,
                     recues, deborde>>
      /\ versSim # <<>> /\ versSim' = Tail(versSim)
  BY DEF Simulateur
<1>3. Controle'
  BY <1>1, <1>2 DEF Controle, connexion, appel, bruit
<1>4. Traces'
  BY <1>1, <1>2 DEF Traces
<1>5. Gardes'
  BY <1>1, <1>2 DEF Gardes
<1>6. FilesTypees'
  <2>1. versSim' \in Seq(PourSim(envoyees))
    BY <1>1, <1>2, TeteEtSuite DEF FilesTypees
  <2> QED
    BY <1>2, <2>1 DEF FilesTypees
<1> QED
  BY <1>3, <1>4, <1>5, <1>6, TypesParParts, PTL

LEMMA ChargeType ==
  ASSUME memoire \in [0 .. Espace - 1 -> Octet], NEW c \in UneCommande
  PROVE  Charge(c) \in [0 .. Espace - 1 -> Octet]
<1> DEFINE d == Decoder(c.data)
<1>1. d \in Seq(Octet) /\ c.addr \in Nat
  <2>1. c.data \in Seq(Octet) /\ c.addr \in Nat
    BY DEF UneCommande
  <2> QED
    BY <2>1, DecoderType
<1> HIDE DEF d
<1>2. Len(d) \in Nat /\ \A k \in 1 .. Len(d) : d[k] \in Octet
  BY <1>1, LenProperties, ElementOfSeq
<1>3. \A a \in 0 .. Espace - 1 : a - c.addr \in 0 .. Len(d) - 1 => d[a - c.addr + 1] \in Octet
  <2> TAKE a \in 0 .. Espace - 1
  <2>1. a - c.addr \in 0 .. Len(d) - 1 => (a - c.addr) + 1 \in 1 .. Len(d)
    BY <1>1, <1>2
  <2> QED
    BY <1>2, <2>1
<1>4. Charge(c) = [a \in 0 .. Espace - 1 |->
         IF a - c.addr \in 0 .. Len(d) - 1 THEN d[a - c.addr + 1] ELSE memoire[a]]
  BY DEF Charge, d
<1> QED
  BY <1>3, <1>4

LEMMA TypageSim ==
  ASSUME TypeOK, SimAck \/ SimRetransmettre \/ SimRefuser \/ SimExecuter
  PROVE  TypeOK'
<1>1. Controle /\ Traces /\ Gardes /\ FilesTypees
  BY TypesParParts
<1>2. /\ envoyees \in Nat /\ memoire \in [0 .. Espace - 1 -> Octet] /\ registre \in Seq(Octet)
      /\ executees \in Seq(1 .. envoyees) /\ versClient \in Seq(PourClient(envoyees))
      /\ versSim \in Seq(PourSim(envoyees))
      /\ reponse \in Reponses({TRUE}) \cup {<<>>} /\ (reponse # <<>> => reponse.n <= envoyees)
  BY <1>1 DEF Traces, Gardes, FilesTypees
<1>3. Simulateur /\ sim = "pret" /\ versSim # <<>>
  BY DEF SimAck, SimRetransmettre, SimRefuser, SimExecuter, Simulateur
<1>4. \A x \in PourClient(envoyees) : Append(versClient, x) \in Seq(PourClient(envoyees))
  BY <1>2, AppendProperties
<1>5. Plus \in PourClient(envoyees) /\ Moins \in PourClient(envoyees)
  BY <1>2, Jetons
<1>6. ASSUME SimAck \/ SimRetransmettre \/ SimRefuser,
             versClient' \in Seq(PourClient(envoyees))
      PROVE  TypeOK'
  <2>1. UNCHANGED simulateur
    BY <1>6 DEF SimAck, SimRetransmettre, SimRefuser
  <2> QED
    BY <1>2, <1>3, <1>6, <2>1, TypageSimulateur DEF simulateur
<1>7. CASE SimAck
  BY <1>2, <1>6, <1>7 DEF SimAck
<1>8. CASE SimRetransmettre
  <2>1. CASE reponse = <<>>
    BY <1>2, <1>6, <1>8, <2>1 DEF SimRetransmettre
  <2>2. CASE reponse # <<>>
    <3>1. reponse \in PourClient(envoyees)
      <4>1. reponse \in Reponses(BOOLEAN) /\ reponse.n <= envoyees
        BY <1>2, <2>2, ReponseType
      <4> QED
        BY <4>1 DEF PourClient, JetonsClient
    <3> QED
      BY <1>4, <1>6, <1>8, <2>2, <3>1 DEF SimRetransmettre
  <2> QED
    BY <2>1, <2>2
<1>9. CASE SimRefuser
  BY <1>4, <1>5, <1>6, <1>9 DEF SimRefuser
<1>10. CASE SimExecuter
  <2> DEFINE c == Head(versSim).c
  <2>1. c \in UneCommande /\ c.n \in 1 .. envoyees
    <3>1. Head(versSim) \in PourSim(envoyees) /\ Head(versSim).t = "paquet"
      BY <1>2, <1>3, <1>10, TeteEtSuite DEF SimExecuter
    <3>2. Head(versSim) \in Paquets(BOOLEAN) /\ c.n <= envoyees
      BY <3>1 DEF PourSim, JetonsSim, Plus, Moins
    <3>3. c \in UneCommande
      BY <3>2 DEF Paquets
    <3> QED
      BY <1>2, <3>2, <3>3 DEF UneCommande
  <2>2. /\ executees' = Append(executees, c.n)
        /\ memoire' = IF c.op = "X" THEN Charge(c) ELSE memoire
        /\ registre' = IF c.op = "P" THEN LireRegistre(c.data, Cible) ELSE registre
        /\ \/ sim' = "marche" /\ versClient' = Append(versClient, Plus) /\ reponse' = reponse
           \/ /\ sim' = sim /\ reponse' = Reponse(c.n)
              /\ versClient' = versClient \o <<Plus, Reponse(c.n)>>
    BY <1>10 DEF SimExecuter
  <2> HIDE DEF c
  <2>3. executees' \in Seq(1 .. envoyees)
    BY <1>2, <2>1, <2>2, AppendProperties
  <2>4. memoire' \in [0 .. Espace - 1 -> Octet]
    BY <1>2, <2>1, <2>2, ChargeType
  <2>5. registre' \in Seq(Octet)
    <3>1. c.data \in Seq(Octet)
      BY <2>1 DEF UneCommande
    <3>2. LireRegistre(c.data, Cible) \in Seq(Octet)
      BY <3>1, EnMemoireType, LiaisonAssumption
    <3> QED
      BY <1>2, <2>2, <3>2
  <2>6. Reponse(c.n) \in Reponses({TRUE}) /\ Reponse(c.n).n = c.n
    BY <1>2, <2>1 DEF Reponse, Reponses
  <2>7. Reponse(c.n) \in PourClient(envoyees)
    <3>1. Reponse(c.n) \in Reponses(BOOLEAN)
      BY <2>6, ReponseType
    <3> QED
      BY <2>1, <2>6, <3>1 DEF PourClient, JetonsClient
  <2>8. versClient' \in Seq(PourClient(envoyees)) /\ sim' \in {"pret", "marche"}
        /\ reponse' \in Reponses({TRUE}) \cup {<<>>}
        /\ (reponse' # <<>> => reponse'.n <= envoyees)
    <3>1. CASE sim' = "marche" /\ versClient' = Append(versClient, Plus) /\ reponse' = reponse
      BY <1>2, <1>4, <1>5, <3>1
    <3>2. CASE /\ sim' = sim /\ reponse' = Reponse(c.n)
               /\ versClient' = versClient \o <<Plus, Reponse(c.n)>>
      <4>1. <<Plus, Reponse(c.n)>> \in Seq(PourClient(envoyees))
        BY <1>5, <2>7
      <4>2. versClient \o <<Plus, Reponse(c.n)>> \in Seq(PourClient(envoyees))
        BY <1>2, <4>1, ConcatProperties
      <4>3. reponse'.n <= envoyees
        BY <2>1, <2>6, <3>2
      <4> QED
        BY <1>3, <2>6, <3>2, <4>2, <4>3
    <3> QED
      BY <2>2, <3>1, <3>2
  <2> QED
    BY <1>3, <2>3, <2>4, <2>5, <2>8, TypageSimulateur
<1> QED
  BY <1>7, <1>8, <1>9, <1>10

\* What neither end of the connection does: the noise, and the steps that
\* change only who is still there.
LEMMA TypageAutres ==
  ASSUME TypeOK,
         UNCHANGED <<etape, connexion, appel, packet, len, memoire, registre, reponse,
                     executees, envoyees, recues, deborde>>,
         pc' \in {pc, "avorte"}, sim' \in {sim, "parti"},
         abimes' \in Nat, parasites' \in Nat, detruits' \in Nat,
         versSim' \in Seq(PourSim(envoyees)), versClient' \in Seq(PourClient(envoyees))
  PROVE  TypeOK'
<1>1. Controle /\ Traces /\ Gardes /\ FilesTypees
  BY TypesParParts
<1>2. Controle'
  BY <1>1 DEF Controle, connexion, appel
<1>3. Traces' /\ Gardes'
  BY <1>1 DEF Traces, Gardes
<1>4. FilesTypees'
  BY DEF FilesTypees
<1> QED
  BY <1>2, <1>3, <1>4, TypesParParts, PTL

LEMMA Remplace ==
  ASSUME NEW S, NEW s \in Seq(S), NEW k \in DOMAIN s, NEW x \in S
  PROVE  [s EXCEPT ![k] = x] \in Seq(S) /\ Len([s EXCEPT ![k] = x]) = Len(s)
BY ExceptSeq

LEMMA TypageBruit ==
  ASSUME TypeOK,
         \/ EcritureFatale \/ SimFin \/ SimPanne
         \/ AbimerCommande \/ AbimerReponse \/ Parasiter \/ Detruire
  PROVE  TypeOK'
<1>1. Controle /\ Traces /\ Gardes /\ FilesTypees
  BY TypesParParts
<1>2. /\ envoyees \in Nat /\ abimes \in Nat /\ parasites \in Nat /\ detruits \in Nat
      /\ versSim \in Seq(PourSim(envoyees)) /\ versClient \in Seq(PourClient(envoyees))
  BY <1>1 DEF Controle, Traces, FilesTypees
<1>3. CASE EcritureFatale
  BY <1>2, <1>3, TypageAutres DEF EcritureFatale, simulateur, bruit
<1>4. CASE SimFin
  BY <1>2, <1>4, TypageAutres DEF SimFin, bruit
<1>5. CASE SimPanne
  BY <1>2, <1>5, TypageAutres DEF SimPanne, bruit
<1>6. CASE AbimerCommande
  <2>1. PICK k \in Abimables(versSim) : versSim' = [versSim EXCEPT ![k].ok = FALSE]
    BY <1>6 DEF AbimerCommande
  <2> DEFINE y == [versSim[k] EXCEPT !.ok = FALSE]
  <2>2. k \in DOMAIN versSim /\ versSim[k] \in PourSim(envoyees) /\ versSim[k].t = "paquet"
    BY <1>2, LenProperties, ElementOfSeq DEF Abimables
  <2>3. versSim[k] \in Paquets(BOOLEAN) /\ versSim[k].c.n <= envoyees
    BY <2>2 DEF PourSim, JetonsSim, Plus, Moins
  <2>4. y \in Paquets(BOOLEAN) /\ y.c = versSim[k].c
    BY <2>3 DEF Paquets
  <2>5. y \in PourSim(envoyees)
    BY <2>3, <2>4 DEF PourSim, JetonsSim
  <2>6. versSim' = [versSim EXCEPT ![k] = y]
    BY <2>1, <2>2
  <2> HIDE DEF y
  <2>7. versSim' \in Seq(PourSim(envoyees))
    BY <1>2, <2>2, <2>5, <2>6, Remplace
  <2> QED
    BY <1>2, <1>6, <2>7, TypageAutres DEF AbimerCommande, Bruit, simulateur
<1>7. CASE AbimerReponse
  <2>1. PICK k \in Abimables(versClient) : versClient' = [versClient EXCEPT ![k].ok = FALSE]
    BY <1>7 DEF AbimerReponse
  <2> DEFINE y == [versClient[k] EXCEPT !.ok = FALSE]
  <2>2. k \in DOMAIN versClient /\ versClient[k] \in PourClient(envoyees) /\ versClient[k].t = "paquet"
    BY <1>2, LenProperties, ElementOfSeq DEF Abimables
  <2>3. versClient[k] \in Reponses(BOOLEAN) /\ versClient[k].n <= envoyees
    BY <2>2 DEF PourClient, JetonsClient, Plus, Moins, Parasite
  <2>4. y \in Reponses(BOOLEAN) /\ y.n = versClient[k].n
    BY <2>3 DEF Reponses
  <2>5. y \in PourClient(envoyees)
    BY <2>3, <2>4 DEF PourClient, JetonsClient
  <2>6. versClient' = [versClient EXCEPT ![k] = y]
    BY <2>1, <2>2
  <2> HIDE DEF y
  <2>7. versClient' \in Seq(PourClient(envoyees))
    BY <1>2, <2>2, <2>5, <2>6, Remplace
  <2> QED
    BY <1>2, <1>7, <2>7, TypageAutres DEF AbimerReponse, Bruit, simulateur
<1>8. CASE Parasiter
  <2>1. Append(versClient, Parasite) \in Seq(PourClient(envoyees))
    BY <1>2, Jetons, AppendProperties
  <2> QED
    BY <1>2, <1>8, <2>1, TypageAutres DEF Parasiter, Bruit, simulateur
<1>9. CASE Detruire
  <2>1. PICK k \in Abimables(versClient) : versClient' = [versClient EXCEPT ![k] = Parasite]
    BY <1>9 DEF Detruire
  <2>2. k \in DOMAIN versClient
    BY DEF Abimables
  <2>3. versClient' \in Seq(PourClient(envoyees))
    BY <1>2, <2>1, <2>2, Remplace, Jetons
  <2> QED
    BY <1>2, <1>9, <2>3, TypageAutres DEF Detruire, Bruit, simulateur
<1> QED
  BY <1>3, <1>4, <1>5, <1>6, <1>7, <1>8, <1>9

LEMMA TypageNext ==
  ASSUME TypeOK, [Next]_vars
  PROVE  TypeOK'
<1>1. CASE Next
  BY <1>1, TypageConnexion, TypageCommandes, TypageScanner, TypageSim, TypageBruit
     DEF Next, Client, Sim
<1>2. CASE UNCHANGED vars
  <2>1. Controle /\ Traces /\ Gardes /\ FilesTypees
    BY TypesParParts
  <2>2. Controle' /\ Traces' /\ Gardes' /\ FilesTypees'
    BY <1>2, <2>1 DEF vars, connexion, appel, simulateur, bruit, Controle, Traces, Gardes,
                      FilesTypees
  <2> QED
    BY <2>2, TypesParParts, PTL
<1> QED
  BY <1>1, <1>2

\* The variables of the link keep their types, the scanner's buffer its place
\* for the final NUL (scanner.l:38, 44, 52-56) and the queues no command that
\* was not sent, whatever the image, the noise and the simulator's departure.
THEOREM LiaisonTypee == Spec => []TypeOK
<1>1. Init => TypeOK
  BY TypageInit
<1>2. TypeOK /\ [Next]_vars => TypeOK'
  BY TypageNext
<1> QED
  BY <1>1, <1>2, PTL DEF Spec

-----------------------------------------------------------------------------
(* The chunks: what is left in the buffer is the end of the image, at its    *)
(* address, until nothing is left.                                           *)

LEMMA FinDeSuite ==
  ASSUME NEW S, NEW s \in Seq(S), NEW a \in Nat, NEW l \in Nat, a + l <= Len(s),
         NEW t \in Seq(S), t = SubSeq(s, a + 1, Len(s))
  PROVE  /\ Len(t) = Len(s) - a
         /\ SubSeq(t, 1, l) = SubSeq(s, a + 1, a + l)
         /\ SubSeq(t, l + 1, Len(t)) = SubSeq(s, (a + l) + 1, Len(s))
<1> DEFINE n == Len(s)
           u == SubSeq(t, 1, l)
           v == SubSeq(s, a + 1, a + l)
           w == SubSeq(t, l + 1, Len(t))
           x == SubSeq(s, (a + l) + 1, n)
<1>1. n \in Nat /\ a <= n /\ a + l <= n /\ Len(t) \in Nat
  BY LenProperties
<1>2. Len(t) = n - a /\ \A k \in 1 .. n - a : t[k] = s[a + k]
  <2>1. Len(t) = IF a + 1 <= n THEN (n - (a + 1)) + 1 ELSE 0
    BY <1>1, SubSeqProperties
  <2>2. \A k \in 1 .. n - a : t[k] = s[((a + 1) + k) - 1]
    BY <1>1, SubSeqProperties
  <2>3. \A k \in 1 .. n - a : ((a + 1) + k) - 1 = a + k
    BY <1>1
  <2>4. \A k \in 1 .. n - a : t[k] = s[a + k]
    <3> TAKE k \in 1 .. n - a
    <3>1. t[k] = s[((a + 1) + k) - 1]
      BY <2>2
    <3>2. ((a + 1) + k) - 1 = a + k
      BY <2>3
    <3> QED
      BY <3>1, <3>2, Zenon
  <2>5. \A q \in Int : q = (IF a + 1 <= n THEN (n - (a + 1)) + 1 ELSE 0) => q = n - a
    BY <1>1
  <2>6. Len(t) = n - a
    BY <1>1, <2>1, <2>5
  <2> QED
    BY <2>4, <2>6
<1>3. u \in Seq(S) /\ Len(u) = l /\ \A k \in 1 .. l : u[k] = t[k]
  BY <1>1, <1>2, SubSeqProperties
<1>4. v \in Seq(S) /\ Len(v) = l /\ \A k \in 1 .. l : v[k] = s[a + k]
  <2>1. v \in Seq(S) /\ Len(v) = l
    BY <1>1, SubSeqProperties
  <2>2. \A k \in 1 .. l : v[k] = s[((a + 1) + k) - 1]
    BY <1>1, SubSeqProperties
  <2>3. \A k \in 1 .. l : ((a + 1) + k) - 1 = a + k
    BY <1>1
  <2> QED
    BY <2>1, <2>2, <2>3
<1>5. w \in Seq(S) /\ Len(w) = (n - a) - l /\ \A k \in 1 .. (n - a) - l : w[k] = t[l + k]
  <2>1. w \in Seq(S) /\ Len(w) = (n - a) - l
    BY <1>1, <1>2, SubSeqProperties
  <2>2. \A k \in 1 .. (n - a) - l : w[k] = t[((l + 1) + k) - 1]
    BY <1>1, <1>2, SubSeqProperties
  <2>3. \A k \in 1 .. (n - a) - l : ((l + 1) + k) - 1 = l + k
    BY <1>1
  <2> QED
    BY <2>1, <2>2, <2>3
<1>6. x \in Seq(S) /\ Len(x) = (n - a) - l /\ \A k \in 1 .. (n - a) - l : x[k] = s[a + (l + k)]
  <2>1. x \in Seq(S) /\ Len(x) = (n - a) - l
    BY <1>1, SubSeqProperties
  <2>2. \A k \in 1 .. (n - a) - l : x[k] = s[(((a + l) + 1) + k) - 1]
    BY <1>1, SubSeqProperties
  <2>3. \A k \in 1 .. (n - a) - l : (((a + l) + 1) + k) - 1 = a + (l + k)
    BY <1>1
  <2> QED
    BY <2>1, <2>2, <2>3
<1> HIDE DEF n, u, v, w, x
<1>7. u = v
  <2>1. \A k \in 1 .. l : k \in 1 .. n - a
    BY <1>1
  <2>2. \A k \in 1 .. l : u[k] = v[k]
    BY <1>2, <1>3, <1>4, <2>1
  <2> QED
    BY <1>3, <1>4, <2>2, SeqEqual
<1>8. w = x
  <2>1. \A k \in 1 .. (n - a) - l : w[k] = x[k]
    <3>1. \A k \in 1 .. (n - a) - l : l + k \in 1 .. n - a
      BY <1>1
    <3> QED
      BY <1>2, <1>5, <1>6, <3>1
  <2> QED
    BY <1>5, <1>6, <2>1, SeqEqual
<1> QED
  BY <1>2, <1>7, <1>8 DEF n, u, v, w, x

\* What the buffer of gdb_write_memory is: the end of the image.
Avancement ==
  /\ image \in Images
  /\ buffer # <<>> =>
       /\ address >= Adresse /\ address - Adresse <= Len(image)
       /\ buffer = SubSeq(image, (address - Adresse) + 1, Len(image))

LEMMA AvancementInit == Init => Avancement
<1> SUFFICES ASSUME NEW m \in Images, NEW h \in Hotes, InitLiaison(m, h)
             PROVE  Avancement
  BY DEF Init
<1>1. m \in Seq(Octet) /\ Len(m) \in Nat /\ Adresse \in Nat
  BY LiaisonAssumption, LenProperties
<1>2. SubSeq(m, 1, Len(m)) = m
  <2> DEFINE u == SubSeq(m, 1, Len(m))
  <2>1. u \in Seq(Octet) /\ Len(u) = Len(m)
    BY <1>1, SubSeqProperties
  <2>2. \A k \in 1 .. Len(m) : u[k] = m[k]
    BY <1>1, SubSeqProperties
  <2> HIDE DEF u
  <2>3. u = m
    BY <1>1, <2>1, <2>2, SeqEqual
  <2> QED
    BY <2>3 DEF u
<1>3. image = m /\ buffer = m /\ address = Adresse
  BY DEF InitLiaison
<1>4. (address - Adresse) + 1 = 1 /\ address - Adresse = 0
  BY <1>1, <1>3
<1> QED
  BY <1>1, <1>2, <1>3, <1>4 DEF Avancement

LEMMA AvancementRetour ==
  ASSUME TypeOK, Avancement, pc = "attente", UNCHANGED packet,
         NEW r, Retour(r)
  PROVE  Avancement'
<1>1. image' = image /\ image \in Images
  BY DEF Retour, Avancement
<1>2. CASE etape # "memoire"
  BY <1>1, <1>2 DEF Retour, Avancement
<1>3. CASE etape = "memoire" /\ buffer' # <<>>
  <2> DEFINE l == packet.c.lon
             a == address - Adresse
  <2>1. /\ buffer' = SubSeq(buffer, l + 1, Len(buffer)) /\ address' = (address + l) % Espace
    BY <1>3 DEF Retour
  <2>2. l \in Nat
    <3>1. packet.c \in UneCommande
      BY TypesParParts DEF Gardes, Paquets
    <3> QED
      BY <3>1 DEF UneCommande
  <2>3. /\ buffer \in Seq(Octet) /\ Len(buffer) \in Nat /\ image \in Seq(Octet) /\ Len(image) \in Nat
        /\ address \in Nat /\ Adresse \in Nat /\ Espace \in Nat \ {0}
        /\ Adresse + Len(image) <= Espace
    <3>1. buffer \in Seq(Octet) /\ image \in Seq(Octet) /\ address \in 0 .. Espace
      BY DEF TypeOK
    <3> QED
      BY <1>1, <3>1, LenProperties, LiaisonAssumption
  <2> HIDE DEF l
  <2>4. l < Len(buffer)
    <3> DEFINE b == SubSeq(buffer, l + 1, Len(buffer))
    <3>1. l >= Len(buffer) => b \in Seq(Octet) /\ Len(b) = 0
      BY <2>2, <2>3, SubSeqProperties
    <3> HIDE DEF b
    <3>2. b \in Seq(Octet) /\ Len(b) = 0 => b = <<>>
      BY EmptySeq
    <3> QED
      BY <1>3, <2>1, <2>2, <2>3, <3>1, <3>2 DEF b
  <2>5. buffer # <<>>
    BY <2>2, <2>4
  <2>6. /\ a \in Nat /\ a <= Len(image) /\ buffer = SubSeq(image, a + 1, Len(image))
    BY <2>3, <2>5 DEF Avancement
  <2>7. Len(buffer) = Len(image) - a
    BY <2>3, <2>6, FinDeSuite, 0 \in Nat
  <2>8. a + l < Len(image)
    BY <2>2, <2>3, <2>4, <2>6, <2>7
  <2>9. buffer' = SubSeq(image, (a + l) + 1, Len(image))
    BY <2>1, <2>2, <2>3, <2>6, <2>8, FinDeSuite
  <2>10. address' = address + l
    <3> DEFINE x == address + l
    <3>1. x \in Nat /\ x < Espace
      BY <2>2, <2>3, <2>8
    <3> HIDE DEF x
    <3>2. x % Espace = x
      BY <2>3, <3>1
    <3> QED
      BY <2>1, <3>2 DEF x
  <2>11. address' - Adresse = a + l
    BY <2>2, <2>3, <2>10
  <2> HIDE DEF a
  <2>12. address' >= Adresse /\ address' - Adresse <= Len(image)
    BY <2>2, <2>3, <2>6, <2>8, <2>10, <2>11
  <2> QED
    BY <1>1, <2>9, <2>11, <2>12 DEF Avancement
<1>4. CASE etape = "memoire" /\ buffer' = <<>>
  BY <1>1, <1>4 DEF Avancement
<1> QED
  BY <1>2, <1>3, <1>4

\* A chunk just built.
LEMMA MorceauFidele ==
  ASSUME TypeOK, Avancement, buffer # <<>>
  PROVE  /\ Decoder(Chunk.data) = SubSeq(image, (Chunk.addr - Adresse) + 1,
                                         (Chunk.addr - Adresse) + Chunk.lon)
         /\ \A k \in DOMAIN Chunk.data : Chunk.data[k] \notin {Dollar, Diese}
<1> DEFINE a == address - Adresse
           l == bytes_copied(buffer)
<1>1. /\ buffer \in Seq(Octet) /\ Len(buffer) \in Nat /\ image \in Seq(Octet)
      /\ Len(image) \in Nat /\ address \in Nat /\ Adresse \in Nat
  <2>1. buffer \in Seq(Octet) /\ image \in Seq(Octet) /\ address \in 0 .. Espace
    BY DEF TypeOK
  <2> QED
    BY <2>1, LenProperties, LiaisonAssumption
<1>2. l \in 0 .. Len(buffer)
  BY <1>1, bytes_copiedBorne
<1> HIDE DEF l
<1>3. a \in Nat /\ a <= Len(image) /\ buffer = SubSeq(image, a + 1, Len(image))
  BY <1>1 DEF Avancement
<1>4. Len(buffer) = Len(image) - a
  BY <1>1, <1>3, FinDeSuite, 0 \in Nat
<1>5. l \in Nat /\ a + l <= Len(image)
  BY <1>1, <1>2, <1>3, <1>4
<1>6. SubSeq(buffer, 1, l) = SubSeq(image, a + 1, a + l)
  BY <1>1, <1>3, <1>5, FinDeSuite
<1>7. Chunk.data = Coder(SubSeq(buffer, 1, l)) /\ Chunk.addr = address /\ Chunk.lon = l
  BY DEF Chunk, Commande, Morceau, l
<1>8. SubSeq(buffer, 1, l) \in Seq(Octet)
  BY <1>1, <1>5, <1>2, SubSeqProperties
<1>9. /\ Decoder(Chunk.data) = SubSeq(buffer, 1, l)
      /\ \A k \in DOMAIN Chunk.data : Chunk.data[k] \notin {Dollar, Diese}
  BY <1>7, <1>8, CodageFidele
<1> QED
  BY <1>6, <1>7, <1>9

LEMMA EnvoiNet ==
  ASSUME NEW c, gdb_send_buffer(c), ~deborde'
  PROVE  packet' = Paquet(c, TRUE) /\ packet'.c = c
<1>1. Tient(c.data)
  BY DEF gdb_send_buffer
<1>2. Contenus(c) = {Paquet(c, TRUE)}
  BY <1>1 DEF Contenus
<1>3. packet' = Paquet(c, TRUE)
  BY <1>2 DEF gdb_send_buffer
<1> QED
  BY <1>3 DEF Paquet

LEMMA AvancementNext ==
  ASSUME TypeOK, Avancement, MorceauDecodable, [Next]_vars
  PROVE  Avancement' /\ MorceauDecodable'
<1>1. \/ UNCHANGED <<image, buffer, address, packet>> /\ (deborde => deborde')
      \/ /\ EnvoyerMorceau \/ gdb_write_register \/ arm_step \/ arm_run
      \/ /\ pc = "attente" /\ UNCHANGED <<packet, deborde>>
         /\ \E r : Retour(r)
  <2>1. CASE AdresseSuivante \/ Connecter \/ ConnexionImpossible
    BY <2>1 DEF AdresseSuivante, Connecter, ConnexionImpossible, Connexion, appel
  <2>2. CASE EnvoyerMorceau \/ gdb_write_register \/ arm_step \/ arm_run
    BY <2>2
  <2>3. CASE MorceauFatal
    BY <2>3 DEF MorceauFatal, appel
  <2>4. CASE LireAck \/ LireRetransmission \/ LirePaquetAbime \/ LireParasite
    BY <2>4 DEF LireAck, LireRetransmission, LirePaquetAbime, LireParasite, Ecouter,
                RestePret, appel
  <2>5. CASE LirePaquet \/ LireFin
    <3>1. Ecouter /\ \E r : Retour(r)
      BY <2>5 DEF LirePaquet, LireFin
    <3> QED
      BY <3>1 DEF Ecouter
  <2>6. CASE EcritureFatale
    BY <2>6 DEF EcritureFatale, appel
  <2>7. CASE SimAck \/ SimRetransmettre \/ SimRefuser \/ SimExecuter
    BY <2>7 DEF SimAck, SimRetransmettre, SimRefuser, SimExecuter, Simulateur, appel
  <2>8. CASE SimFin \/ SimPanne
    BY <2>8 DEF SimFin, SimPanne, appel
  <2>9. CASE AbimerCommande \/ AbimerReponse \/ Parasiter \/ Detruire
    BY <2>9 DEF AbimerCommande, AbimerReponse, Parasiter, Detruire, Bruit, appel
  <2>10. CASE UNCHANGED vars
    BY <2>10 DEF vars, appel
  <2> QED
    BY <2>1, <2>2, <2>3, <2>4, <2>5, <2>6, <2>7, <2>8, <2>9, <2>10 DEF Next, Client, Sim
<1>2. CASE UNCHANGED <<image, buffer, address, packet>> /\ (deborde => deborde')
  BY <1>2 DEF Avancement, MorceauDecodable
<1>3. CASE EnvoyerMorceau \/ gdb_write_register \/ arm_step \/ arm_run
  <2>1. UNCHANGED <<image, buffer, address>>
    BY <1>3 DEF EnvoyerMorceau, gdb_write_register, arm_step, arm_run, gdb_send_buffer
  <2>2. Avancement'
    BY <2>1 DEF Avancement
  <2>3. ASSUME ~deborde', packet'.c.op = "X"
        PROVE  EnvoyerMorceau /\ buffer # <<>> /\ packet'.c = Chunk
    <3>1. CASE EnvoyerMorceau
      BY <2>3, <3>1, EnvoiNet DEF EnvoyerMorceau
    <3>2. CASE gdb_write_register
      <4>1. packet'.c = Commande("P", 15, 0, write_uint32(ValeurPC, hote, Cible))
        BY <2>3, <3>2, EnvoiNet DEF gdb_write_register
      <4> QED
        BY <2>3, <4>1 DEF Commande
    <3>3. CASE arm_step
      <4>1. packet'.c = Commande("s", 0, 0, <<>>)
        BY <2>3, <3>3, EnvoiNet DEF arm_step
      <4> QED
        BY <2>3, <4>1 DEF Commande
    <3>4. CASE arm_run
      <4>1. packet'.c = Commande("c", 0, 0, <<>>)
        BY <2>3, <3>4, EnvoiNet DEF arm_run
      <4> QED
        BY <2>3, <4>1 DEF Commande
    <3> QED
      BY <1>3, <3>1, <3>2, <3>3, <3>4
  <2>4. MorceauDecodable'
    <3>1. image' = image
      BY <2>1
    <3>2. ASSUME ~deborde', packet'.c.op = "X"
          PROVE  /\ Decoder(packet'.c.data)
                      = SubSeq(image', packet'.c.addr - Adresse + 1,
                               packet'.c.addr - Adresse + packet'.c.lon)
                 /\ \A k \in DOMAIN packet'.c.data : packet'.c.data[k] \notin {Dollar, Diese}
      BY <2>3, <3>1, <3>2, MorceauFidele
    <3> QED
      BY <3>2 DEF MorceauDecodable
  <2> QED
    BY <2>2, <2>4
<1>4. CASE pc = "attente" /\ UNCHANGED <<packet, deborde>> /\ \E r : Retour(r)
  <2>1. Avancement'
    BY <1>4, AvancementRetour
  <2>2. UNCHANGED <<packet, deborde, image>>
    BY <1>4 DEF Retour
  <2> QED
    BY <2>1, <2>2 DEF MorceauDecodable
<1> QED
  BY <1>1, <1>2, <1>3, <1>4

\* A chunk stands for the bytes of the image at its address, and none of its
\* bytes delimits a packet (gdb_protocol.c:154-171), for any image.
THEOREM MorceauxDecodables == Spec => []MorceauDecodable
<1>1. Init => TypeOK /\ Avancement /\ MorceauDecodable
  BY TypageInit, AvancementInit DEF Init, InitLiaison, MorceauDecodable
<1>2. TypeOK /\ Avancement /\ MorceauDecodable /\ [Next]_vars
        => (TypeOK /\ Avancement /\ MorceauDecodable)'
  BY TypageNext, AvancementNext
<1> QED
  BY <1>1, <1>2, PTL DEF Spec

-----------------------------------------------------------------------------
(* What is on its way.  Everything the connection holds but the              *)
(* acknowledgements costs the command that waits or a character of the       *)
(* noise.                                                                    *)

EnSim == JetonsSim \ {Plus}
EnClient == JetonsClient \ {Plus}
Bons == Paquets({TRUE})
Mauvais == Paquets({FALSE})
Refus == {Moins}
Justes == Reponses({TRUE})

LEMMA Especes ==
  /\ Plus \in JetonsSim /\ Plus \notin EnSim /\ Plus \notin Bons /\ Plus \notin Mauvais
  /\ Plus \in JetonsClient /\ Plus \notin EnClient /\ Plus \notin Refus /\ Plus \notin Justes
  /\ Moins \in JetonsSim /\ Moins \in EnSim /\ Moins \notin Bons /\ Moins \notin Mauvais
  /\ Moins \in JetonsClient /\ Moins \in EnClient /\ Moins \in Refus /\ Moins \notin Justes
  /\ Parasite \in JetonsClient /\ Parasite \in EnClient
  /\ Parasite \notin Refus /\ Parasite \notin Justes
<1>1. Plus.t = "+" /\ Moins.t = "-" /\ Parasite.t = "?"
  BY DEF Plus, Moins, Parasite
<1>2. \A ok, x : (x \in Paquets(ok) \/ x \in Reponses(ok)) => x.t = "paquet"
  BY DEF Paquets, Reponses
<1>3. Plus # Moins /\ Plus # Parasite /\ Moins # Parasite
  BY <1>1
<1>4. \A ok : /\ Plus \notin Paquets(ok) /\ Plus \notin Reponses(ok)
              /\ Moins \notin Paquets(ok) /\ Moins \notin Reponses(ok)
              /\ Parasite \notin Reponses(ok)
  BY <1>1, <1>2
<1> QED
  BY <1>3, <1>4 DEF EnSim, EnClient, Bons, Mauvais, Refus, Justes, JetonsSim, JetonsClient

LEMMA EspecesSim ==
  ASSUME NEW x \in JetonsSim
  PROVE  /\ x.t = "+" => x = Plus
         /\ x.t = "-" => x = Moins
         /\ x.t = "paquet" => x \in Paquets(BOOLEAN) /\ x \in EnSim
         /\ x.t = "paquet" /\ x.ok => x \in Bons /\ x \notin Mauvais
         /\ x.t = "paquet" /\ ~x.ok => x \in Mauvais /\ x \notin Bons
         /\ x \in Bons => x.t = "paquet" /\ x.ok = TRUE
<1>1. Plus.t = "+" /\ Moins.t = "-"
  BY DEF Plus, Moins
<1>2. \A ok : x \in Paquets(ok) => x.t = "paquet" /\ x.c \in UneCommande
  BY DEF Paquets
<1>3. x = Plus \/ x = Moins \/ x \in Paquets(BOOLEAN)
  BY DEF JetonsSim
<1>4. x \in Paquets(BOOLEAN) => x.ok \in BOOLEAN
  BY DEF Paquets
<1>5. x \in Paquets(BOOLEAN) /\ x.ok = TRUE => x \in Paquets({TRUE}) /\ x \notin Paquets({FALSE})
  BY Zenon DEF Paquets
<1>6. x \in Paquets(BOOLEAN) /\ x.ok = FALSE => x \in Paquets({FALSE}) /\ x \notin Paquets({TRUE})
  BY Zenon DEF Paquets
<1>7. x \in Paquets({TRUE}) => x.ok = TRUE
  BY Zenon DEF Paquets
<1>8. x.t = "paquet" => x \in Paquets(BOOLEAN) /\ x # Plus
  BY <1>1, <1>3
<1> QED
  BY <1>1, <1>2, <1>3, <1>4, <1>5, <1>6, <1>7, <1>8 DEF EnSim, Bons, Mauvais

LEMMA EspecesClient ==
  ASSUME NEW x \in JetonsClient
  PROVE  /\ x.t = "+" => x = Plus
         /\ x.t = "-" => x = Moins
         /\ x.t = "?" => x = Parasite
         /\ x.t = "paquet" => x \in Reponses(BOOLEAN) /\ x \in EnClient /\ x \notin Refus
         /\ x.t = "paquet" /\ x.ok => x \in Justes
         /\ x.t = "paquet" /\ ~x.ok => x \notin Justes
         /\ x \in Justes => x.t = "paquet" /\ x.n \in Nat
<1>1. Plus.t = "+" /\ Moins.t = "-" /\ Parasite.t = "?"
  BY DEF Plus, Moins, Parasite
<1>2. \A ok : x \in Reponses(ok) => x.t = "paquet" /\ x.n \in Nat
  BY DEF Reponses
<1>3. x = Plus \/ x = Moins \/ x = Parasite \/ x \in Reponses(BOOLEAN)
  BY DEF JetonsClient
<1>4. x \in Reponses(BOOLEAN) => x.ok \in BOOLEAN
  BY DEF Reponses
<1>5. x \in Reponses(BOOLEAN) /\ x.ok = TRUE => x \in Reponses({TRUE})
  BY Zenon DEF Reponses
<1>6. x \in Reponses(BOOLEAN) /\ x.ok = FALSE => x \notin Reponses({TRUE})
  BY Zenon DEF Reponses
<1>7. x.t = "paquet" => x \in Reponses(BOOLEAN) /\ x # Plus /\ x # Moins
  BY <1>1, <1>3
<1> QED
  BY <1>1, <1>2, <1>3, <1>4, <1>5, <1>6, <1>7 DEF EnClient, Refus, Justes

LEMMA EspecesDisjointes ==
  /\ Bons \cap Mauvais = {} /\ Bons \subseteq EnSim /\ Mauvais \subseteq EnSim
  /\ Refus \cap Justes = {} /\ Refus \subseteq EnClient /\ Justes \subseteq EnClient
<1>1. ASSUME NEW x PROVE ~(x \in Paquets({TRUE}) /\ x \in Paquets({FALSE}))
  BY Zenon DEF Paquets
<1>2. Bons \cap Mauvais = {}
  BY <1>1 DEF Bons, Mauvais
<1>3. Paquets({TRUE}) \subseteq Paquets(BOOLEAN) /\ Paquets({FALSE}) \subseteq Paquets(BOOLEAN)
  BY Zenon DEF Paquets
<1>4. Reponses({TRUE}) \subseteq Reponses(BOOLEAN)
  BY Zenon DEF Reponses
<1>5. Bons \subseteq EnSim /\ Mauvais \subseteq EnSim
  BY <1>3, Especes DEF Bons, Mauvais, EnSim, JetonsSim
<1>6. Refus \cap Justes = {} /\ Refus \subseteq EnClient
  BY Especes DEF Refus
<1>7. Justes \subseteq EnClient
  BY <1>4, Especes DEF Justes, EnClient, JetonsClient
<1> QED
  BY <1>2, <1>5, <1>6, <1>7

\* The totals of a direction after an arrival, a departure and a change.
LEMMA AjoutElements ==
  ASSUME NEW S, NEW s \in Seq(S), NEW x \in S
  PROVE  Prolonge(Append(s, x), s, x) /\ Append(s, x) \in Seq(S)
<1> DEFINE t == Append(s, x)
<1>1. Len(s) \in Nat /\ DOMAIN s = 1 .. Len(s)
  BY LenProperties
<1>2. t \in Seq(S) /\ Len(t) = Len(s) + 1
  BY AppendProperties
<1>3. \A p \in 1 .. Len(s) : t[p] = s[p]
  BY <1>1, AppendProperties
<1>4. t[Len(s) + 1] = x
  BY AppendProperties
<1>5. DOMAIN t = 1 .. Len(s) + 1
  BY <1>2, LenProperties
<1> HIDE DEF t
<1>6. Prolonge(t, s, x)
  BY <1>1, <1>2, <1>3, <1>4, <1>5 DEF Prolonge
<1> QED
  BY <1>2, <1>6 DEF t

LEMMA SuiteElements ==
  ASSUME NEW S, NEW s \in Seq(S), s # <<>>
  PROVE  Entame(Tail(s), s) /\ Tail(s) \in Seq(S) /\ s[1] = Head(s)
<1> DEFINE t == Tail(s)
<1>1. Len(s) \in Nat /\ DOMAIN s = 1 .. Len(s) /\ Len(s) > 0
  BY LenProperties
<1>2. t \in Seq(S) /\ Len(t) = Len(s) - 1 /\ s[1] = Head(s)
  BY HeadTailProperties
<1>3. \A p \in 1 .. Len(t) : t[p] = s[p + 1]
  BY <1>2, HeadTailProperties
<1>4. Len(t) \in Nat /\ DOMAIN t = 1 .. Len(t)
  BY <1>2, LenProperties
<1> HIDE DEF t
<1>5. Entame(t, s)
  BY <1>1, <1>2, <1>3, <1>4 DEF Entame
<1> QED
  BY <1>2, <1>5 DEF t

LEMMA RemplaceElements ==
  ASSUME NEW S, NEW s \in Seq(S), NEW q \in DOMAIN s, NEW x \in S
  PROVE  /\ Retouche([s EXCEPT ![q] = x], s, q, x)
         /\ [s EXCEPT ![q] = x] \in Seq(S)
<1> DEFINE t == [s EXCEPT ![q] = x]
<1>1. Len(s) \in Nat /\ DOMAIN s = 1 .. Len(s)
  BY LenProperties
<1>2. t \in Seq(S) /\ Len(t) = Len(s)
  BY Remplace
<1>3. DOMAIN t = DOMAIN s /\ t[q] = x /\ \A p \in DOMAIN s : p # q => t[p] = s[p]
  OBVIOUS
<1> HIDE DEF t
<1>4. Retouche(t, s, q, x)
  BY <1>1, <1>2, <1>3 DEF Retouche
<1> QED
  BY <1>2, <1>4 DEF t

LEMMA TotalAjout ==
  ASSUME NEW S, NEW s \in Seq(S), NEW x \in S, NEW X
  PROVE  Total(Append(s, x), X) = Total(s, X) + Un(x, X)
BY AjoutElements, NbAjout

LEMMA TotalSuite ==
  ASSUME NEW S, NEW s \in Seq(S), s # <<>>, NEW X
  PROVE  Total(s, X) = Total(Tail(s), X) + Un(Head(s), X)
<1>1. Entame(Tail(s), s) /\ s[1] = Head(s)
  BY SuiteElements
<1> QED
  BY <1>1, NbSuite

LEMMA TotalRemplace ==
  ASSUME NEW S, NEW s \in Seq(S), NEW q \in DOMAIN s, NEW x \in S, NEW X
  PROVE  Total([s EXCEPT ![q] = x], X) + Un(s[q], X) = Total(s, X) + Un(x, X)
BY RemplaceElements, NbRemplace

Attend == IF pc \in {"connexion", "pret"} THEN 0 ELSE 1
Invalides == IF len > 0 THEN 1 ELSE 0
\* The direction of the simulator once the invalid characters are refused.
Refuse == versSim \o handle_error

EnVol ==
  sim # "parti" =>
    Total(versClient, EnClient) + Total(versSim, EnSim) + Invalides <= parasites + Attend

LEMMA RefuseDeplie ==
  ASSUME versSim \in Seq(JetonsSim)
  PROVE  /\ Refuse \in Seq(JetonsSim)
         /\ Refuse = IF len > 0 THEN Append(versSim, Moins) ELSE versSim
         /\ \A y \in JetonsSim : Refuse \o <<y>> = Append(Refuse, y)
<1>1. versSim \o <<Moins>> = Append(versSim, Moins) /\ versSim \o <<>> = versSim
  BY Especes, ConcatEmptySeq, AppendIsConcat
<1>2. Refuse = IF len > 0 THEN Append(versSim, Moins) ELSE versSim
  BY <1>1 DEF Refuse, handle_error
<1>3. Refuse \in Seq(JetonsSim)
  BY <1>2, Especes, AppendProperties
<1>4. \A y \in JetonsSim : Refuse \o <<y>> = Append(Refuse, y)
  BY <1>3, AppendIsConcat
<1> QED
  BY <1>2, <1>3, <1>4

LEMMA TotalRefuse ==
  ASSUME versSim \in Seq(JetonsSim)
  PROVE  /\ Total(Refuse, EnSim) = Total(versSim, EnSim) + Invalides
         /\ Total(Refuse, Bons) = Total(versSim, Bons)
         /\ Total(Refuse, Mauvais) = Total(versSim, Mauvais)
<1>1. \A X : Total(versSim, X) \in Nat
  BY NbTypes
<1>2. CASE len > 0
  <2>1. Refuse = Append(versSim, Moins)
    BY <1>2, RefuseDeplie
  <2>2. \A X : Total(Append(versSim, Moins), X) = Total(versSim, X) + Un(Moins, X)
    BY Especes, TotalAjout
  <2>3. Un(Moins, EnSim) = 1 /\ Un(Moins, Bons) = 0 /\ Un(Moins, Mauvais) = 0
    BY Especes DEF Un
  <2> QED
    BY <1>1, <1>2, <2>1, <2>2, <2>3 DEF Invalides
<1>3. CASE ~(len > 0)
  <2>1. Refuse = versSim
    BY <1>3, RefuseDeplie
  <2> QED
    BY <1>1, <1>3, <2>1 DEF Invalides
<1> QED
  BY <1>2, <1>3

LEMMA EnVolInit == Init => EnVol
<1> SUFFICES ASSUME Init PROVE EnVol
  OBVIOUS
<1>1. versSim = <<>> /\ versClient = <<>> /\ len = 0 /\ parasites = 0 /\ pc = "connexion"
  BY DEF Init, InitLiaison
<1>2. \A X : Total(<<>>, X) = 0
  <2> TAKE X
  <2>1. Len(<<>>) = 0 /\ \A p \in 1 .. 0 : <<>>[p] \notin X
    OBVIOUS
  <2> QED
    BY <2>1, NbDansNul DEF Total
<1> QED
  BY <1>1, <1>2 DEF EnVol, Attend, Invalides

LEMMA EnVolTypes ==
  ASSUME TypeOK
  PROVE  /\ versSim \in Seq(JetonsSim) /\ versClient \in Seq(JetonsClient)
         /\ \A X : Total(versSim, X) \in Nat /\ Total(versClient, X) \in Nat
         /\ Invalides \in {0, 1} /\ Attend \in {0, 1} /\ parasites \in Nat /\ len \in Nat
         /\ envoyees \in Nat
<1>1. versSim \in Seq(JetonsSim) /\ versClient \in Seq(JetonsClient)
  BY DEF TypeOK, Files
<1>2. parasites \in Nat /\ len \in 0 .. MAX_ERROR_SIZE - 1 /\ envoyees \in Nat
  BY DEF TypeOK
<1> QED
  BY <1>1, <1>2, NbTypes DEF Invalides, Attend

\* A packet sent, whatever the command.
Envoi(p) ==
  /\ pc = "pret" /\ pc' = "attente" /\ packet' = p /\ p \in Paquets(BOOLEAN)
  /\ p.c.n = envoyees + 1 /\ envoyees' = envoyees + 1
  /\ versSim' = Append(versSim, p)
  /\ (~deborde' => ~deborde /\ p.ok = TRUE)
  /\ UNCHANGED <<versClient, len, sim, reponse, executees, abimes, parasites, recues>>

LEMMA Envois ==
  ASSUME TypeOK, EnvoyerMorceau \/ gdb_write_register \/ arm_step \/ arm_run
  PROVE  \E p : Envoi(p)
<1>1. /\ envoyees \in Nat /\ buffer \in Seq(Octet) /\ address \in Nat /\ hote \in BOOLEAN
      /\ Cible \in BOOLEAN /\ ValeurPC \in Seq(Octet)
  BY TypesParParts, LiaisonAssumption DEF Controle, Traces
<1>2. /\ pc = "pret"
      /\ \E c \in UneCommande : gdb_send_buffer(c) /\ c.n = envoyees + 1
  <2>1. CASE EnvoyerMorceau
    <3>1. bytes_copied(buffer) \in 0 .. Len(buffer) /\ Len(buffer) \in Nat
      BY <1>1, bytes_copiedBorne, LenProperties
    <3>2. Morceau(buffer) \in Seq(Octet)
      BY <1>1, <3>1, SubSeqProperties DEF Morceau
    <3>3. Coder(Morceau(buffer)) \in Seq(Octet)
      BY <3>2, CodageFidele
    <3>4. Chunk \in UneCommande /\ Chunk.n = envoyees + 1
      BY <1>1, <3>1, <3>3 DEF Chunk, Commande, UneCommande
    <3> QED
      BY <2>1, <3>4 DEF EnvoyerMorceau
  <2>2. CASE gdb_write_register
    <3> DEFINE c == Commande("P", 15, 0, write_uint32(ValeurPC, hote, Cible))
    <3>1. write_uint32(ValeurPC, hote, Cible) \in Seq(Octet)
      BY <1>1, EnMemoireType
    <3>2. c \in UneCommande /\ c.n = envoyees + 1
      BY <1>1, <3>1 DEF Commande, UneCommande
    <3>3. gdb_send_buffer(c) /\ pc = "pret"
      BY <2>2 DEF gdb_write_register
    <3> HIDE DEF c
    <3> QED
      BY <3>2, <3>3
  <2>3. CASE arm_step
    <3> DEFINE c == Commande("s", 0, 0, <<>>)
    <3>1. c \in UneCommande /\ c.n = envoyees + 1
      BY <1>1 DEF Commande, UneCommande
    <3>2. gdb_send_buffer(c) /\ pc = "pret"
      BY <2>3 DEF arm_step
    <3> HIDE DEF c
    <3> QED
      BY <3>1, <3>2
  <2>4. CASE arm_run
    <3> DEFINE c == Commande("c", 0, 0, <<>>)
    <3>1. c \in UneCommande /\ c.n = envoyees + 1
      BY <1>1 DEF Commande, UneCommande
    <3>2. gdb_send_buffer(c) /\ pc = "pret"
      BY <2>4 DEF arm_run
    <3> HIDE DEF c
    <3> QED
      BY <3>1, <3>2
  <2> QED
    BY <2>1, <2>2, <2>3, <2>4
<1>3. PICK c \in UneCommande : gdb_send_buffer(c) /\ c.n = envoyees + 1
  BY <1>2
<1>4. PICK p \in Paquets(BOOLEAN) :
        /\ packet' = p /\ versSim' = Append(versSim, p) /\ p.c.n = c.n
        /\ ~deborde' => p.ok = TRUE
  BY <1>3, ContenusType
<1>5. Envoi(p)
  BY <1>2, <1>3, <1>4 DEF Envoi, gdb_send_buffer, simulateur, bruit
<1> QED
  BY <1>5

\* The steps that move nothing on the connection.
Muet ==
  /\ pc' \in {"connexion", "pret"} => pc \in {"connexion", "pret"}
  /\ (deborde => deborde') /\ sim' \in {sim, "parti"} /\ (sim' = "pret" => sim = "pret")
  /\ UNCHANGED <<packet, len, versSim, versClient, reponse, executees, abimes, parasites,
                 envoyees, recues>>

LEMMA Muets ==
  ASSUME \/ AdresseSuivante \/ Connecter \/ ConnexionImpossible \/ MorceauFatal
         \/ EcritureFatale \/ SimFin \/ SimPanne \/ UNCHANGED vars
  PROVE  Muet
<1>1. CASE AdresseSuivante \/ Connecter \/ ConnexionImpossible
  BY <1>1 DEF AdresseSuivante, Connecter, ConnexionImpossible, Connexion, Muet,
              simulateur, bruit
<1>2. CASE MorceauFatal \/ EcritureFatale
  BY <1>2 DEF MorceauFatal, EcritureFatale, Muet, simulateur, bruit
<1>3. CASE SimFin \/ SimPanne
  BY <1>3 DEF SimFin, SimPanne, Muet, bruit
<1>4. CASE UNCHANGED vars
  BY <1>4 DEF vars, simulateur, bruit, Muet
<1> QED
  BY <1>1, <1>2, <1>3, <1>4

\* A token taken by the scanner, and what it sends after the refusal of the
\* invalid characters.
Lecture(x) ==
  /\ pc = "attente" /\ versClient # <<>> /\ x = Head(versClient) /\ versClient' = Tail(versClient)
  /\ UNCHANGED <<packet, sim, reponse, executees, abimes, parasites, envoyees, deborde>>
Repond(y) == len' = 0 /\ versSim' = Append(Refuse, y)

Accuse == Lecture(Plus) /\ len' = 0 /\ versSim' = Refuse /\ UNCHANGED <<pc, recues>>
Renvoie == Lecture(Moins) /\ Repond(packet) /\ UNCHANGED <<pc, recues>>
Prend(x) ==
  /\ Lecture(x) /\ x \in Justes /\ Repond(Plus) /\ pc' \in {"pret", "fin"}
  /\ recues' = recues \cup {[attend |-> envoyees, n |-> x.n]}
Ecarte(x) ==
  /\ Lecture(x) /\ x \notin Justes /\ x \notin Refus /\ x \in EnClient /\ Repond(Moins)
  /\ UNCHANGED <<pc, recues>>
Ajoute ==
  /\ Lecture(Parasite) /\ UNCHANGED <<pc, recues>>
  /\ \/ len > 0 /\ len' = 1 /\ versSim' = Refuse
     \/ len' = len + 1 /\ versSim' = versSim
Raccroche ==
  /\ sim = "parti" /\ pc = "attente" /\ versClient = <<>> /\ len' = 0
  /\ recues' = recues \cup {[attend |-> envoyees, n |-> EOF]}
  /\ UNCHANGED <<versClient, packet, sim, reponse, executees, abimes, parasites, envoyees,
                 deborde>>

LEMMA Lectures ==
  ASSUME TypeOK,
         \/ LireAck \/ LireRetransmission \/ LirePaquet \/ LirePaquetAbime
         \/ LireParasite \/ LireFin
  PROVE  \/ Accuse \/ Renvoie \/ Ajoute \/ Raccroche
         \/ \E x \in JetonsClient : Prend(x) \/ Ecarte(x)
<1>1. /\ versSim \in Seq(JetonsSim) /\ versClient \in Seq(JetonsClient) /\ len \in Nat
      /\ MAX_ERROR_SIZE \in Nat /\ MAX_ERROR_SIZE >= 2
  BY EnVolTypes, LiaisonAssumption
<1> DEFINE x == Head(versClient)
<1>2. /\ pc = "attente"
      /\ UNCHANGED <<packet, sim, reponse, executees, abimes, parasites, envoyees, deborde>>
  BY DEF LireAck, LireRetransmission, LirePaquet, LirePaquetAbime, LireParasite, LireFin,
         Ecouter, simulateur, bruit
<1>3. ASSUME Lu PROVE x \in JetonsClient /\ Lecture(x)
  BY <1>1, <1>2, <1>3, HeadTailProperties DEF Lu, Lecture
<1>4. /\ Refuse \o <<Plus>> = Append(Refuse, Plus) /\ Refuse \o <<Moins>> = Append(Refuse, Moins)
  BY <1>1, RefuseDeplie, Especes
<1>5. CASE LireAck
  <2>1. Lu /\ x.t = "+" /\ UNCHANGED <<pc, recues>> /\ len' = 0 /\ versSim' = Refuse
    BY <1>5 DEF LireAck, RestePret, Refuse
  <2>2. x = Plus
    BY <1>3, <2>1, EspecesClient
  <2> QED
    BY <1>3, <2>1, <2>2 DEF Accuse
<1>6. CASE LireRetransmission
  <2>1. Lu /\ x.t = "-" /\ UNCHANGED <<pc, recues>> /\ len' = 0 /\ versSim' = Refuse \o <<packet>>
    BY <1>6 DEF LireRetransmission, RestePret, Refuse
  <2>2. x = Moins
    BY <1>3, <2>1, EspecesClient
  <2>3. packet \in JetonsSim
    BY <1>2, TypesParParts DEF Gardes, JetonsSim
  <2>4. versSim' = Append(Refuse, packet)
    BY <1>1, <2>1, <2>3, RefuseDeplie
  <2> QED
    BY <1>3, <2>1, <2>2, <2>4 DEF Renvoie, Repond
<1>7. CASE LirePaquet
  <2>1. /\ Lu /\ x.t = "paquet" /\ x.ok /\ len' = 0 /\ versSim' = Refuse \o <<Plus>>
        /\ Retour(x.n)
    BY <1>7 DEF LirePaquet, Refuse
  <2>2. x \in Justes
    BY <1>3, <2>1, EspecesClient
  <2>3. pc' \in {"pret", "fin"} /\ recues' = recues \cup {[attend |-> envoyees, n |-> x.n]}
    BY <2>1 DEF Retour
  <2>4. Prend(x)
    BY <1>3, <1>4, <2>1, <2>2, <2>3 DEF Prend, Repond
  <2> QED
    BY <1>3, <2>1, <2>4
<1>8. CASE LirePaquetAbime
  <2>1. /\ Lu /\ x.t = "paquet" /\ ~x.ok /\ len' = 0 /\ versSim' = Refuse \o <<Moins>>
        /\ UNCHANGED <<pc, recues>>
    BY <1>8 DEF LirePaquetAbime, Refuse, RestePret
  <2>2. x \notin Justes /\ x \notin Refus /\ x \in EnClient
    BY <1>3, <2>1, EspecesClient
  <2>3. Ecarte(x)
    BY <1>3, <1>4, <2>1, <2>2 DEF Ecarte, Repond
  <2> QED
    BY <1>3, <2>1, <2>3
<1>9. CASE LireParasite
  <2>1. Lu /\ x.t = "?" /\ UNCHANGED <<pc, recues>>
    BY <1>9 DEF LireParasite, RestePret
  <2>2. x = Parasite
    BY <1>3, <2>1, EspecesClient
  <2>3. \/ len > 0 /\ len' = 1 /\ versSim' = Refuse
        \/ len' = len + 1 /\ versSim' = versSim
    <3>1. CASE Plein
      BY <1>1, <1>9, <3>1 DEF LireParasite, Plein, Refuse
    <3>2. CASE ~Plein
      BY <1>9, <3>2 DEF LireParasite
    <3> QED
      BY <3>1, <3>2
  <2> QED
    BY <1>3, <2>1, <2>2, <2>3 DEF Ajoute
<1>10. CASE LireFin
  BY <1>2, <1>10 DEF LireFin, Retour, Raccroche
<1> QED
  BY <1>5, <1>6, <1>7, <1>8, <1>9, <1>10

\* A token taken by the simulator, and what it does with it.
Traite(x) ==
  /\ sim = "pret" /\ versSim # <<>> /\ x = Head(versSim) /\ versSim' = Tail(versSim)
  /\ UNCHANGED <<pc, packet, len, abimes, parasites, envoyees, recues, deborde>>

Ignore == Traite(Plus) /\ UNCHANGED <<versClient, sim, reponse, executees>>
Repete ==
  /\ Traite(Moins) /\ UNCHANGED <<sim, reponse, executees>>
  /\ versClient' = IF reponse = <<>> THEN versClient ELSE Append(versClient, reponse)
Rejette(x) ==
  /\ Traite(x) /\ x \in Mauvais /\ versClient' = Append(versClient, Moins)
  /\ UNCHANGED <<sim, reponse, executees>>
Execute(x) ==
  /\ Traite(x) /\ x \in Bons /\ executees' = Append(executees, x.c.n)
  /\ \/ sim' = "marche" /\ versClient' = Append(versClient, Plus) /\ UNCHANGED reponse
     \/ /\ sim' = sim /\ reponse' = Reponse(x.c.n)
        /\ versClient' = Append(Append(versClient, Plus), Reponse(x.c.n))

LEMMA Traitements ==
  ASSUME TypeOK, SimAck \/ SimRetransmettre \/ SimRefuser \/ SimExecuter
  PROVE  Ignore \/ Repete \/ \E x \in JetonsSim : Rejette(x) \/ Execute(x)
<1>1. versSim \in Seq(JetonsSim) /\ versClient \in Seq(JetonsClient)
  BY EnVolTypes
<1> DEFINE x == Head(versSim)
<1>2. Simulateur
  BY DEF SimAck, SimRetransmettre, SimRefuser, SimExecuter
<1>3. x \in JetonsSim /\ Traite(x)
  BY <1>1, <1>2, HeadTailProperties DEF Simulateur, Traite, bruit
<1>4. CASE SimAck
  BY <1>3, <1>4, EspecesSim DEF SimAck, Ignore, simulateur
<1>5. CASE SimRetransmettre
  BY <1>3, <1>5, EspecesSim DEF SimRetransmettre, Repete, simulateur
<1>6. CASE SimRefuser
  <2>1. x \in Mauvais
    BY <1>3, <1>6, EspecesSim DEF SimRefuser
  <2>2. Rejette(x)
    BY <1>3, <1>6, <2>1 DEF SimRefuser, Rejette, simulateur
  <2> QED
    BY <1>3, <2>2
<1>7. CASE SimExecuter
  <2>1. x \in Bons
    BY <1>3, <1>7, EspecesSim DEF SimExecuter
  <2>2. versClient \o <<Plus, Reponse(x.c.n)>> = Append(Append(versClient, Plus), Reponse(x.c.n))
    <3>1. x.c.n \in Nat \ {0}
      BY <2>1 DEF Bons, Paquets, UneCommande
    <3>2. Reponse(x.c.n) \in JetonsClient
      <4>1. Reponse(x.c.n) \in Reponses({TRUE})
        BY <3>1 DEF Reponse, Reponses
      <4> QED
        BY <4>1, ReponseType DEF JetonsClient
    <3> DEFINE y == Reponse(x.c.n)
    <3>3. y \in JetonsClient
      BY <3>2
    <3> HIDE DEF y
    <3>4. <<Plus, y>> = Append(<<Plus>>, y) /\ <<Plus>> \in Seq(JetonsClient)
      BY <3>3, Especes
    <3>5. /\ Append(versClient, Plus) \in Seq(JetonsClient)
          /\ Append(versClient, Plus) = versClient \o <<Plus>>
      BY <1>1, Especes, AppendProperties, AppendIsConcat
    <3>6. Append(Append(versClient, Plus), y) = (versClient \o <<Plus>>) \o <<y>>
      BY <3>3, <3>5, AppendIsConcat
    <3>7. (versClient \o <<Plus>>) \o <<y>> = versClient \o (<<Plus>> \o <<y>>)
      <4>1. <<y>> \in Seq(JetonsClient)
        BY <3>3
      <4> QED
        BY <1>1, <3>4, <4>1, ConcatAssociative
    <3>8. <<Plus>> \o <<y>> = <<Plus, y>>
      BY <3>3, <3>4, AppendIsConcat
    <3> QED
      BY <3>6, <3>7, <3>8 DEF y
  <2>3. Execute(x)
    BY <1>3, <1>7, <2>1, <2>2 DEF SimExecuter, Execute
  <2> QED
    BY <1>3, <2>3
<1> QED
  BY <1>2, <1>4, <1>5, <1>6, <1>7

\* What the noise does: a command damaged, an answer lost, a character added.
Bruite == UNCHANGED <<pc, packet, len, sim, reponse, executees, envoyees, recues, deborde>>
Abime(q, y) ==
  /\ Bruite /\ q \in DOMAIN versSim /\ versSim[q] \in Bons
  /\ y \in JetonsSim /\ y \in Mauvais /\ y \notin Bons
  /\ versSim' = [versSim EXCEPT ![q] = y]
  /\ abimes' = abimes + 1 /\ UNCHANGED <<versClient, parasites>>
Perd(q, y) ==
  /\ Bruite /\ q \in DOMAIN versClient /\ versClient[q] \in Justes
  /\ y \in JetonsClient /\ y \in EnClient /\ y \notin Justes /\ y \notin Refus
  /\ versClient' = [versClient EXCEPT ![q] = y]
  /\ abimes' \in {abimes, abimes + 1} /\ UNCHANGED <<versSim, parasites>>
Souffle ==
  /\ Bruite /\ versClient' = Append(versClient, Parasite)
  /\ parasites' = parasites + 1 /\ UNCHANGED <<versSim, abimes>>

LEMMA Bruits ==
  ASSUME TypeOK, AbimerCommande \/ AbimerReponse \/ Parasiter \/ Detruire
  PROVE  Souffle \/ \E q, y : Abime(q, y) \/ Perd(q, y)
<1>1. versSim \in Seq(JetonsSim) /\ versClient \in Seq(JetonsClient)
  BY EnVolTypes
<1>2. Bruite
  BY DEF AbimerCommande, AbimerReponse, Parasiter, Detruire, Bruit, Bruite, simulateur
<1>3. CASE AbimerCommande
  <2>1. PICK q \in Abimables(versSim) : versSim' = [versSim EXCEPT ![q].ok = FALSE]
    BY <1>3 DEF AbimerCommande
  <2> DEFINE y == [versSim[q] EXCEPT !.ok = FALSE]
  <2>2. q \in DOMAIN versSim /\ versSim[q] \in JetonsSim /\ versSim[q].t = "paquet" /\ versSim[q].ok
    BY <1>1, LenProperties, ElementOfSeq DEF Abimables
  <2>3. versSim[q] \in Bons /\ versSim[q] \in Paquets(BOOLEAN)
    BY <2>2, EspecesSim
  <2>4. y \in Paquets(BOOLEAN) /\ y.t = "paquet" /\ y.ok = FALSE
    BY <2>3 DEF Paquets
  <2>5. versSim' = [versSim EXCEPT ![q] = y]
    BY <2>1, <2>2
  <2>6. y \in JetonsSim
    BY <2>4 DEF JetonsSim
  <2> HIDE DEF y
  <2>7. y \in Mauvais /\ y \notin Bons
    BY <2>4, <2>6, EspecesSim
  <2>8. Abime(q, y)
    BY <1>2, <1>3, <2>2, <2>3, <2>5, <2>6, <2>7 DEF AbimerCommande, Abime
  <2> QED
    BY <2>8
<1>4. CASE AbimerReponse
  <2>1. PICK q \in Abimables(versClient) : versClient' = [versClient EXCEPT ![q].ok = FALSE]
    BY <1>4 DEF AbimerReponse
  <2> DEFINE y == [versClient[q] EXCEPT !.ok = FALSE]
  <2>2. /\ q \in DOMAIN versClient /\ versClient[q] \in JetonsClient
        /\ versClient[q].t = "paquet" /\ versClient[q].ok
    BY <1>1, LenProperties, ElementOfSeq DEF Abimables
  <2>3. versClient[q] \in Justes /\ versClient[q] \in Reponses(BOOLEAN)
    BY <2>2, EspecesClient
  <2>4. y \in Reponses(BOOLEAN) /\ y.t = "paquet" /\ y.ok = FALSE
    BY <2>3 DEF Reponses
  <2>5. versClient' = [versClient EXCEPT ![q] = y]
    BY <2>1, <2>2
  <2>6. y \in JetonsClient
    BY <2>4 DEF JetonsClient
  <2> HIDE DEF y
  <2>7. y \in EnClient /\ y \notin Justes /\ y \notin Refus
    BY <2>4, <2>6, EspecesClient
  <2>8. Perd(q, y)
    BY <1>2, <1>4, <2>2, <2>3, <2>5, <2>6, <2>7 DEF AbimerReponse, Perd
  <2> QED
    BY <2>8
<1>5. CASE Parasiter
  BY <1>2, <1>5 DEF Parasiter, Souffle
<1>6. CASE Detruire
  <2>1. PICK q \in Abimables(versClient) : versClient' = [versClient EXCEPT ![q] = Parasite]
    BY <1>6 DEF Detruire
  <2>2. /\ q \in DOMAIN versClient /\ versClient[q] \in JetonsClient
        /\ versClient[q].t = "paquet" /\ versClient[q].ok
    BY <1>1, LenProperties, ElementOfSeq DEF Abimables
  <2>3. versClient[q] \in Justes
    BY <2>2, EspecesClient
  <2>4. Perd(q, Parasite)
    BY <1>2, <1>6, <2>1, <2>2, <2>3, Especes DEF Detruire, Perd
  <2> QED
    BY <2>4
<1> QED
  BY <1>3, <1>4, <1>5, <1>6

\* Every step is one of those.
LEMMA TousLesPas ==
  ASSUME TypeOK, [Next]_vars
  PROVE  \/ Muet \/ Accuse \/ Renvoie \/ Ajoute \/ Raccroche \/ Ignore \/ Repete \/ Souffle
         \/ \E p : Envoi(p)
         \/ \E x \in JetonsClient : Prend(x) \/ Ecarte(x)
         \/ \E x \in JetonsSim : Rejette(x) \/ Execute(x)
         \/ \E q, y : Abime(q, y) \/ Perd(q, y)
<1>1. \/ AdresseSuivante \/ Connecter \/ ConnexionImpossible \/ MorceauFatal
      \/ EcritureFatale \/ SimFin \/ SimPanne \/ UNCHANGED vars
      \/ EnvoyerMorceau \/ gdb_write_register \/ arm_step \/ arm_run
      \/ LireAck \/ LireRetransmission \/ LirePaquet \/ LirePaquetAbime
      \/ LireParasite \/ LireFin
      \/ SimAck \/ SimRetransmettre \/ SimRefuser \/ SimExecuter
      \/ AbimerCommande \/ AbimerReponse \/ Parasiter \/ Detruire
  BY DEF Next, Client, Sim
<1> QED
  BY <1>1, Muets, Envois, Lectures, Traitements, Bruits

\* The totals of the two directions after a token was taken or sent.
LEMMA TotalRepond ==
  ASSUME versSim \in Seq(JetonsSim), NEW y \in JetonsSim, Repond(y)
  PROVE  /\ Total(versSim', EnSim) = Total(versSim, EnSim) + Invalides + Un(y, EnSim)
         /\ Total(versSim', Bons) = Total(versSim, Bons) + Un(y, Bons)
         /\ Total(versSim', Mauvais) = Total(versSim, Mauvais) + Un(y, Mauvais)
<1>1. Refuse \in Seq(JetonsSim) /\ versSim' = Append(Refuse, y)
  BY RefuseDeplie DEF Repond
<1>2. \A X : Total(Append(Refuse, y), X) = Total(Refuse, X) + Un(y, X)
  BY <1>1, TotalAjout
<1> QED
  BY <1>1, <1>2, TotalRefuse

LEMMA TotalLecture ==
  ASSUME versClient \in Seq(JetonsClient), NEW x, Lecture(x)
  PROVE  /\ x \in JetonsClient
         /\ \A X : /\ Total(versClient', X) \in Nat
                   /\ Total(versClient, X) = Total(versClient', X) + Un(x, X)
<1>1. versClient # <<>> /\ x = Head(versClient) /\ versClient' = Tail(versClient)
  BY DEF Lecture
<1>2. x \in JetonsClient /\ Tail(versClient) \in Seq(JetonsClient)
  BY <1>1, HeadTailProperties
<1> QED
  BY <1>1, <1>2, TotalSuite, NbTypes

LEMMA TotalTraite ==
  ASSUME versSim \in Seq(JetonsSim), NEW x, Traite(x)
  PROVE  /\ x \in JetonsSim
         /\ \A X : /\ Total(versSim', X) \in Nat
                   /\ Total(versSim, X) = Total(versSim', X) + Un(x, X)
<1>1. versSim # <<>> /\ x = Head(versSim) /\ versSim' = Tail(versSim)
  BY DEF Traite
<1>2. x \in JetonsSim /\ Tail(versSim) \in Seq(JetonsSim)
  BY <1>1, HeadTailProperties
<1> QED
  BY <1>1, <1>2, TotalSuite, NbTypes

\* The last packet sent, which is the last command, is there when one waits.
LEMMA PaquetGarde ==
  ASSUME TypeOK, pc = "attente"
  PROVE  packet \in Paquets(BOOLEAN) /\ packet \in JetonsSim /\ packet.c.n = envoyees
<1>1. packet \in Paquets(BOOLEAN) /\ packet.c.n = envoyees
  BY TypesParParts DEF Gardes
<1> QED
  BY <1>1 DEF JetonsSim

LEMMA EnVolNext ==
  ASSUME TypeOK, EnVol, [Next]_vars
  PROVE  EnVol'
<1> SUFFICES ASSUME sim' # "parti"
             PROVE  Total(versClient', EnClient) + Total(versSim', EnSim) + Invalides'
                      <= parasites' + Attend'
  BY DEF EnVol
<1>1. /\ versSim \in Seq(JetonsSim) /\ versClient \in Seq(JetonsClient)
      /\ \A X : Total(versSim, X) \in Nat /\ Total(versClient, X) \in Nat
      /\ Invalides \in {0, 1} /\ Attend \in {0, 1} /\ parasites \in Nat
  BY EnVolTypes
<1> DEFINE K == Total(versClient, EnClient)
           V == Total(versSim, EnSim)
           I == Invalides
           A == Attend
<1>2. ASSUME sim # "parti" PROVE K + V + I <= parasites + A /\ K \in Nat /\ V \in Nat
  BY <1>1, <1>2 DEF EnVol
<1>3. /\ Un(Plus, EnSim) = 0 /\ Un(Plus, EnClient) = 0 /\ Un(Moins, EnSim) = 1
      /\ Un(Moins, EnClient) = 1 /\ Un(Parasite, EnClient) = 1
  BY Especes DEF Un
<1>4. \A x : Un(x, EnSim) \in {0, 1} /\ Un(x, EnClient) \in {0, 1}
  BY DEF Un
<1>5. CASE Muet
  <2>1. sim # "parti" /\ versSim' = versSim /\ versClient' = versClient
        /\ len' = len /\ parasites' = parasites
    BY <1>5 DEF Muet
  <2>2. I' = I /\ (A' = A \/ A' = 1)
    BY <1>5, <2>1 DEF Invalides, Attend, Muet
  <2> QED
    BY <1>1, <1>2, <2>1, <2>2
<1>6. CASE \E p : Envoi(p)
  <2>1. PICK p : Envoi(p)
    BY <1>6
  <2>2. p \in JetonsSim
    BY <2>1 DEF Envoi, JetonsSim
  <2>3. /\ versSim' = Append(versSim, p) /\ versClient' = versClient /\ sim' = sim
        /\ len' = len /\ parasites' = parasites /\ pc = "pret" /\ pc' = "attente"
    BY <2>1 DEF Envoi
  <2>4. Total(versSim', EnSim) = V + Un(p, EnSim)
    BY <1>1, <2>2, <2>3, TotalAjout
  <2>5. I' = I /\ A = 0 /\ A' = 1
    BY <2>3 DEF Invalides, Attend
  <2> QED
    BY <1>1, <1>2, <1>4, <2>3, <2>4, <2>5
<1>7. CASE Accuse
  <2>1. Lecture(Plus) /\ len' = 0 /\ versSim' = Refuse /\ pc' = pc /\ sim' = sim
        /\ parasites' = parasites
    BY <1>7 DEF Accuse, Lecture
  <2>2. K = Total(versClient', EnClient) + 0
    BY <1>1, <1>3, <2>1, TotalLecture
  <2>3. Total(versSim', EnSim) = V + I
    BY <1>1, <2>1, TotalRefuse
  <2>4. I' = 0 /\ A' = A
    BY <2>1 DEF Invalides, Attend
  <2>5. Total(versClient', EnClient) \in Nat
    BY <1>1, <2>1, TotalLecture
  <2> QED
    BY <1>1, <1>2, <2>1, <2>2, <2>3, <2>4, <2>5
\* The token is answered.
<1>8. ASSUME NEW x, Lecture(x), Un(x, EnClient) = 1, NEW y \in JetonsSim, Repond(y),
             Un(y, EnSim) <= Attend'
      PROVE  Total(versClient', EnClient) + Total(versSim', EnSim) + Invalides'
               <= parasites' + Attend'
  <2>1. pc = "attente" /\ sim' = sim /\ parasites' = parasites /\ len' = 0
    BY <1>8 DEF Lecture, Repond
  <2>2. K = Total(versClient', EnClient) + 1 /\ Total(versClient', EnClient) \in Nat
    BY <1>1, <1>8, TotalLecture
  <2>3. Total(versSim', EnSim) = V + I + Un(y, EnSim)
    BY <1>1, <1>8, TotalRepond
  <2>4. I' = 0 /\ A = 1 /\ A' \in {0, 1}
    BY <2>1 DEF Invalides, Attend
  <2>5. Un(y, EnSim) \in {0, 1}
    BY <1>4
  <2> QED
    BY <1>1, <1>2, <1>8, <2>1, <2>2, <2>3, <2>4, <2>5
<1>9. CASE Renvoie
  <2>1. Lecture(Moins) /\ Repond(packet) /\ pc' = pc /\ pc = "attente"
    BY <1>9 DEF Renvoie, Lecture
  <2>2. packet \in JetonsSim
    BY <2>1, PaquetGarde
  <2>3. Un(Moins, EnClient) = 1 /\ Un(packet, EnSim) <= Attend'
    BY <1>3, <1>4, <2>1 DEF Attend
  <2> QED
    BY <1>8, <2>1, <2>2, <2>3
<1>10. CASE \E x \in JetonsClient : Prend(x) \/ Ecarte(x)
  <2>1. PICK x \in JetonsClient : Prend(x) \/ Ecarte(x)
    BY <1>10
  <2>2. Lecture(x) /\ x \in EnClient
    BY <2>1, EspecesClient DEF Prend, Ecarte
  <2>3. Un(x, EnClient) = 1
    BY <2>2 DEF Un
  <2>4. CASE Prend(x)
    <3>1. Repond(Plus) /\ Plus \in JetonsSim /\ Un(Plus, EnSim) <= Attend'
      BY <1>3, <2>4, Especes DEF Prend, Attend
    <3> QED
      BY <1>8, <2>2, <2>3, <3>1
  <2>5. CASE Ecarte(x)
    <3>1. Repond(Moins) /\ Moins \in JetonsSim /\ Un(Moins, EnSim) <= Attend'
      BY <1>3, <2>5, Especes DEF Ecarte, Lecture, Attend
    <3> QED
      BY <1>8, <2>2, <2>3, <3>1
  <2> QED
    BY <2>1, <2>4, <2>5
<1>11. CASE Ajoute
  <2>1. Lecture(Parasite) /\ pc' = pc /\ sim' = sim /\ parasites' = parasites
    BY <1>11 DEF Ajoute, Lecture
  <2>2. K = Total(versClient', EnClient) + 1 /\ Total(versClient', EnClient) \in Nat
    BY <1>1, <1>3, <2>1, TotalLecture
  <2>3. A' = A
    BY <2>1 DEF Attend
  <2>4. CASE len > 0 /\ len' = 1 /\ versSim' = Refuse
    <3>1. I = 1 /\ I' = 1
      BY <2>4 DEF Invalides
    <3>2. Total(versSim', EnSim) = V + I
      BY <1>1, <2>4, TotalRefuse
    <3> QED
      BY <1>1, <1>2, <2>1, <2>2, <2>3, <3>1, <3>2
  <2>5. CASE len' = len + 1 /\ versSim' = versSim
    <3>1. I' \in {0, 1}
      BY DEF Invalides
    <3> QED
      BY <1>1, <1>2, <2>1, <2>2, <2>3, <2>5, <3>1
  <2> QED
    BY <1>11, <2>4, <2>5 DEF Ajoute
<1>12. CASE Raccroche
  BY <1>12 DEF Raccroche
\* A token taken by the simulator, and what it sends for it.
<1>13. ASSUME NEW x, Traite(x),
              \/ versClient' = versClient
              \/ Un(x, EnSim) = 1 /\ \E y \in JetonsClient :
                   \/ versClient' = Append(versClient, y)
                   \/ versClient' = Append(Append(versClient, Plus), y)
       PROVE  Total(versClient', EnClient) + Total(versSim', EnSim) + Invalides'
                <= parasites' + Attend'
  <2>1. sim = "pret" /\ pc' = pc /\ len' = len /\ parasites' = parasites
    BY <1>13 DEF Traite
  <2>2. V = Total(versSim', EnSim) + Un(x, EnSim) /\ Total(versSim', EnSim) \in Nat
    BY <1>1, <1>13, TotalTraite
  <2>3. A' = A /\ I' = I
    BY <2>1 DEF Attend, Invalides
  <2>4. CASE versClient' = versClient
    BY <1>1, <1>2, <1>4, <2>1, <2>2, <2>3, <2>4
  <2>5. ASSUME Un(x, EnSim) = 1, NEW y \in JetonsClient,
               \/ versClient' = Append(versClient, y)
               \/ versClient' = Append(Append(versClient, Plus), y)
        PROVE  Total(versClient', EnClient) + Total(versSim', EnSim) + Invalides'
                 <= parasites' + Attend'
    <3>1. Total(versClient', EnClient) = K + Un(y, EnClient)
      <4>1. CASE versClient' = Append(versClient, y)
        BY <1>1, <4>1, TotalAjout
      <4>2. CASE versClient' = Append(Append(versClient, Plus), y)
        <5>1. /\ Append(versClient, Plus) \in Seq(JetonsClient)
              /\ Total(Append(versClient, Plus), EnClient) = K + 0
          BY <1>1, <1>3, Especes, AppendProperties, TotalAjout
        <5>2. Total(versClient', EnClient)
                = Total(Append(versClient, Plus), EnClient) + Un(y, EnClient)
          BY <4>2, <5>1, TotalAjout
        <5> QED
          BY <1>1, <5>1, <5>2
      <4> QED
        BY <2>5, <4>1, <4>2
    <3>2. Un(y, EnClient) \in {0, 1}
      BY <1>4
    <3> QED
      BY <1>1, <1>2, <2>1, <2>2, <2>3, <2>5, <3>1, <3>2
  <2> QED
    BY <1>13, <2>4, <2>5
<1>14. CASE Ignore
  BY <1>13, <1>14 DEF Ignore
<1>15. CASE Repete
  <2>1. reponse # <<>> => reponse \in JetonsClient
    <3>1. reponse # <<>> => reponse \in Reponses({TRUE})
      BY TypesParParts DEF Gardes
    <3> QED
      BY <3>1, ReponseType DEF JetonsClient
  <2> QED
    BY <1>3, <1>13, <1>15, <2>1 DEF Repete
<1>16. CASE \E x \in JetonsSim : Rejette(x) \/ Execute(x)
  <2>1. PICK x \in JetonsSim : Rejette(x) \/ Execute(x)
    BY <1>16
  <2>2. Traite(x) /\ Un(x, EnSim) = 1
    BY <2>1, EspecesDisjointes DEF Rejette, Execute, Un
  <2>3. CASE Rejette(x)
    BY <1>13, <2>2, <2>3, Especes DEF Rejette
  <2>4. CASE Execute(x)
    <3>1. Reponse(x.c.n) \in JetonsClient
      <4>1. x.c.n \in Nat \ {0}
        BY <2>4 DEF Execute, Bons, Paquets, UneCommande
      <4>2. Reponse(x.c.n) \in Reponses({TRUE})
        BY <4>1 DEF Reponse, Reponses
      <4> QED
        BY <4>2, ReponseType DEF JetonsClient
    <3> QED
      BY <1>13, <2>2, <2>4, <3>1, Especes DEF Execute
  <2> QED
    BY <2>1, <2>3, <2>4
<1>17. CASE Souffle
  <2>1. /\ versClient' = Append(versClient, Parasite) /\ parasites' = parasites + 1
        /\ pc' = pc /\ len' = len /\ versSim' = versSim /\ sim' = sim
    BY <1>17 DEF Souffle, Bruite
  <2>2. Total(versClient', EnClient) = K + 1
    BY <1>1, <1>3, <2>1, Especes, TotalAjout
  <2>3. A' = A /\ I' = I
    BY <2>1 DEF Attend, Invalides
  <2> QED
    BY <1>1, <1>2, <2>1, <2>2, <2>3
<1>18. CASE \E q, y : Abime(q, y) \/ Perd(q, y)
  <2>1. PICK q, y : Abime(q, y) \/ Perd(q, y)
    BY <1>18
  <2>2. pc' = pc /\ len' = len /\ parasites' = parasites /\ sim' = sim
    BY <2>1 DEF Abime, Perd, Bruite
  <2>3. A' = A /\ I' = I
    BY <2>2 DEF Attend, Invalides
  <2>4. CASE Abime(q, y)
    <3>1. /\ q \in DOMAIN versSim /\ y \in JetonsSim /\ versClient' = versClient
          /\ versSim' = [versSim EXCEPT ![q] = y] /\ versSim[q] \in EnSim /\ y \in EnSim
      BY <2>4, EspecesDisjointes DEF Abime
    <3>2. Total(versSim', EnSim) + Un(versSim[q], EnSim) = V + Un(y, EnSim)
      <4>1. q \in DOMAIN versSim /\ y \in JetonsSim
        BY <3>1
      <4>2. Total([versSim EXCEPT ![q] = y], EnSim) + Un(versSim[q], EnSim)
              = Total(versSim, EnSim) + Un(y, EnSim)
        BY <1>1, <4>1, TotalRemplace
      <4> QED
        BY <3>1, <4>2
    <3>3. Un(versSim[q], EnSim) = 1 /\ Un(y, EnSim) = 1
      BY <3>1 DEF Un
    <3>4. Total(versSim', EnSim) \in Nat
      <4>1. versSim' \in Seq(JetonsSim)
        BY <1>1, <3>1, Remplace
      <4> QED
        BY <4>1, NbTypes
    <3> QED
      BY <1>1, <1>2, <2>2, <2>3, <3>1, <3>2, <3>3, <3>4
  <2>5. CASE Perd(q, y)
    <3>1. /\ q \in DOMAIN versClient /\ y \in JetonsClient /\ versSim' = versSim
          /\ versClient' = [versClient EXCEPT ![q] = y] /\ versClient[q] \in EnClient
          /\ y \in EnClient
      BY <2>5, EspecesDisjointes DEF Perd
    <3>2. Total(versClient', EnClient) + Un(versClient[q], EnClient) = K + Un(y, EnClient)
      <4>1. q \in DOMAIN versClient /\ y \in JetonsClient
        BY <3>1
      <4>2. Total([versClient EXCEPT ![q] = y], EnClient) + Un(versClient[q], EnClient)
              = Total(versClient, EnClient) + Un(y, EnClient)
        BY <1>1, <4>1, TotalRemplace
      <4> QED
        BY <3>1, <4>2
    <3>3. Un(versClient[q], EnClient) = 1 /\ Un(y, EnClient) = 1
      BY <3>1 DEF Un
    <3>4. Total(versClient', EnClient) \in Nat
      <4>1. versClient' \in Seq(JetonsClient)
        BY <1>1, <3>1, Remplace
      <4> QED
        BY <4>1, NbTypes
    <3> QED
      BY <1>1, <1>2, <2>2, <2>3, <3>1, <3>2, <3>3, <3>4
  <2> QED
    BY <2>1, <2>4, <2>5
<1> QED
  BY <1>5, <1>6, <1>7, <1>9, <1>10, <1>11, <1>12, <1>14, <1>15, <1>16, <1>17, <1>18,
     TousLesPas

-----------------------------------------------------------------------------
(* The numbers of the commands on their way.  r refused ones are to be sent  *)
(* again, with the number of the last one sent, which is e.                  *)

\* A command is followed by those sent since, but for as many as that.
Tardent(s, e, r) ==
  \A p \in DOMAIN s : s[p] \in Bons => e - s[p].c.n <= r + Ensuite(s, Bons, p)
\* ... exactly.
Suivent(s, e, r) ==
  \A p \in DOMAIN s : s[p] \in Bons => e - s[p].c.n = r + Ensuite(s, Bons, p)

LEMMA NumeroType ==
  ASSUME NEW x \in Bons
  PROVE  x.c.n \in Nat
BY DEF Bons, Paquets, UneCommande

LEMMA OrdreAjoute ==
  ASSUME NEW s \in Seq(JetonsSim), NEW x \in JetonsSim,
         NEW e \in Nat, NEW r \in Nat, NEW e2 \in Nat, NEW r2 \in Nat
  PROVE  /\ x \notin Bons /\ e2 = e /\ r2 = r =>
              /\ Tardent(s, e, r) => Tardent(Append(s, x), e2, r2)
              /\ Suivent(s, e, r) => Suivent(Append(s, x), e2, r2)
         /\ x \notin Bons /\ e2 = e + 1 /\ r2 = r + 1 =>
              (Tardent(s, e, r) => Tardent(Append(s, x), e2, r2))
         /\ x \in Bons /\ x.c.n = e2 =>
              /\ Tardent(s, e, r) /\ e2 - e <= (1 + r2) - r => Tardent(Append(s, x), e2, r2)
              /\ Suivent(s, e, r) /\ e2 - e = (1 + r2) - r /\ r2 = 0
                   => Suivent(Append(s, x), e2, r2)
<1>0. Prolonge(Append(s, x), s, x)
  BY AjoutElements
<1> SUFFICES ASSUME NEW t, Prolonge(t, s, x)
             PROVE  /\ x \notin Bons /\ e2 = e /\ r2 = r =>
                         /\ Tardent(s, e, r) => Tardent(t, e2, r2)
                         /\ Suivent(s, e, r) => Suivent(t, e2, r2)
                    /\ x \notin Bons /\ e2 = e + 1 /\ r2 = r + 1 =>
                         (Tardent(s, e, r) => Tardent(t, e2, r2))
                    /\ x \in Bons /\ x.c.n = e2 =>
                         /\ Tardent(s, e, r) /\ e2 - e <= (1 + r2) - r => Tardent(t, e2, r2)
                         /\ Suivent(s, e, r) /\ e2 - e = (1 + r2) - r /\ r2 = 0
                              => Suivent(t, e2, r2)
  BY <1>0, Zenon
<1> DEFINE n == Len(s)
           u == Un(x, Bons)
<1>1. /\ n \in Nat /\ DOMAIN s = 1 .. n /\ Len(t) = n + 1 /\ DOMAIN t = 1 .. n + 1
      /\ t[n + 1] = x /\ \A p \in 1 .. n : t[p] = s[p]
  BY DEF Prolonge
<1>2. /\ \A p \in 1 .. n : Ensuite(t, Bons, p) = Ensuite(s, Bons, p) + u
      /\ Ensuite(t, Bons, n + 1) = 0
  <2>1. Ensuite(t, Bons, Len(s) + 1) = 0
    BY NbAjout
  <2>2. ASSUME NEW p \in DOMAIN s
        PROVE  Ensuite(t, Bons, p) = Ensuite(s, Bons, p) + Un(x, Bons)
    BY EnsuiteAjout
  <2> QED
    BY <1>1, <2>1, <2>2
<1>3. \A p \in 1 .. n : Ensuite(s, Bons, p) \in Nat
  BY <1>1, NbTypes
<1>4. (x \in Bons => u = 1) /\ (x \notin Bons => u = 0)
  BY DEF Un
<1>5. \A p \in 1 .. n + 1 : p \in 1 .. n \/ p = n + 1
  BY <1>1
<1>6. \A p \in 1 .. n : s[p] \in Bons => s[p].c.n \in Nat
  BY NumeroType
<1> HIDE DEF n, u
<1>7. ASSUME x \notin Bons, e2 = e, r2 = r, Tardent(s, e, r)
      PROVE  Tardent(t, e2, r2)
  BY <1>1, <1>2, <1>3, <1>4, <1>5, <1>7 DEF Tardent
<1>8. ASSUME x \notin Bons, e2 = e, r2 = r, Suivent(s, e, r)
      PROVE  Suivent(t, e2, r2)
  BY <1>1, <1>2, <1>3, <1>4, <1>5, <1>8 DEF Suivent
<1>9. ASSUME x \in Bons, x.c.n = e2, Tardent(s, e, r), e2 - e <= (1 + r2) - r
      PROVE  Tardent(t, e2, r2)
  <2> SUFFICES ASSUME NEW p \in 1 .. n + 1, t[p] \in Bons
               PROVE  e2 - t[p].c.n <= r2 + Ensuite(t, Bons, p)
    BY <1>1 DEF Tardent
  <2>1. CASE p = n + 1
    BY <1>1, <1>2, <1>9, <2>1
  <2>2. CASE p \in 1 .. n
    <3>1. t[p] = s[p] /\ e - s[p].c.n <= r + Ensuite(s, Bons, p) /\ s[p].c.n \in Nat
      BY <1>1, <1>6, <1>9, <2>2 DEF Tardent
    <3>2. Ensuite(t, Bons, p) = Ensuite(s, Bons, p) + 1 /\ Ensuite(s, Bons, p) \in Nat
      BY <1>2, <1>3, <1>4, <1>9, <2>2
    <3>3. \A m, f \in Nat : e - m <= r + f => e2 - m <= r2 + (f + 1)
      BY <1>9
    <3>4. e2 - s[p].c.n <= r2 + (Ensuite(s, Bons, p) + 1)
      BY <3>1, <3>2, <3>3, Zenon
    <3> QED
      BY <3>1, <3>2, <3>4, Zenon
  <2> QED
    BY <1>5, <2>1, <2>2
<1>10. ASSUME x \in Bons, x.c.n = e2, Suivent(s, e, r), e2 - e = (1 + r2) - r, r2 = 0
       PROVE  Suivent(t, e2, r2)
  <2> SUFFICES ASSUME NEW p \in 1 .. n + 1, t[p] \in Bons
               PROVE  e2 - t[p].c.n = r2 + Ensuite(t, Bons, p)
    BY <1>1 DEF Suivent
  <2>1. CASE p = n + 1
    BY <1>1, <1>2, <1>10, <2>1
  <2>2. CASE p \in 1 .. n
    <3>1. t[p] = s[p] /\ e - s[p].c.n = r + Ensuite(s, Bons, p) /\ s[p].c.n \in Nat
      BY <1>1, <1>6, <1>10, <2>2 DEF Suivent
    <3>2. Ensuite(t, Bons, p) = Ensuite(s, Bons, p) + 1 /\ Ensuite(s, Bons, p) \in Nat
      BY <1>2, <1>3, <1>4, <1>10, <2>2
    <3>3. \A m, f \in Nat : e - m = r + f => e2 - m = r2 + (f + 1)
      BY <1>10
    <3>4. e2 - s[p].c.n = r2 + (Ensuite(s, Bons, p) + 1)
      BY <3>1, <3>2, <3>3, Zenon
    <3> QED
      BY <3>1, <3>2, <3>4, Zenon
  <2> QED
    BY <1>5, <2>1, <2>2
<1>11. ASSUME x \notin Bons, e2 = e + 1, r2 = r + 1, Tardent(s, e, r)
       PROVE  Tardent(t, e2, r2)
  <2> SUFFICES ASSUME NEW p \in 1 .. n, t[p] \in Bons
               PROVE  e2 - t[p].c.n <= r2 + Ensuite(t, Bons, p)
    BY <1>1, <1>5, <1>11 DEF Tardent
  <2>1. t[p] = s[p] /\ e - s[p].c.n <= r + Ensuite(s, Bons, p) /\ s[p].c.n \in Nat
    BY <1>1, <1>6, <1>11 DEF Tardent
  <2>2. Ensuite(t, Bons, p) = Ensuite(s, Bons, p) /\ Ensuite(s, Bons, p) \in Nat
    BY <1>2, <1>3, <1>4, <1>11
  <2> QED
    BY <1>11, <2>1, <2>2
<1> QED
  BY <1>7, <1>8, <1>9, <1>10, <1>11

LEMMA OrdreSuite ==
  ASSUME NEW s \in Seq(JetonsSim), s # <<>>, NEW e, NEW r
  PROVE  /\ Tardent(s, e, r) => Tardent(Tail(s), e, r)
         /\ Suivent(s, e, r) => Suivent(Tail(s), e, r)
         /\ Tardent(s, e, r) /\ Head(s) \in Bons
              => e - Head(s).c.n <= r + Total(Tail(s), Bons)
         /\ Suivent(s, e, r) /\ Head(s) \in Bons
              => e - Head(s).c.n = r + Total(Tail(s), Bons)
<1>0. Entame(Tail(s), s) /\ Head(s) = s[1]
  BY SuiteElements
<1> SUFFICES ASSUME NEW t, Entame(t, s)
             PROVE  /\ Tardent(s, e, r) => Tardent(t, e, r)
                    /\ Suivent(s, e, r) => Suivent(t, e, r)
                    /\ Tardent(s, e, r) /\ Head(s) \in Bons
                         => e - Head(s).c.n <= r + Total(t, Bons)
                    /\ Suivent(s, e, r) /\ Head(s) \in Bons
                         => e - Head(s).c.n = r + Total(t, Bons)
  BY <1>0, Zenon
<1>1. 1 \in DOMAIN s /\ s[1] = Head(s)
  BY <1>0 DEF Entame
<1>2. /\ Ensuite(s, Bons, 1) = Total(t, Bons)
      /\ \A p \in DOMAIN t : /\ p + 1 \in DOMAIN s /\ t[p] = s[p + 1]
                             /\ Ensuite(t, Bons, p) = Ensuite(s, Bons, p + 1)
  <2>1. Ensuite(s, Bons, 1) = Total(t, Bons)
    BY NbSuite
  <2>2. ASSUME NEW p \in DOMAIN t
        PROVE  /\ p + 1 \in DOMAIN s /\ t[p] = s[p + 1]
               /\ Ensuite(t, Bons, p) = Ensuite(s, Bons, p + 1)
    BY EnsuiteSuite
  <2> QED
    BY <2>1, <2>2
<1>3. ASSUME Tardent(s, e, r)
      PROVE  Tardent(t, e, r) /\ (Head(s) \in Bons => e - Head(s).c.n <= r + Total(t, Bons))
  <2>1. \A p \in DOMAIN s : s[p] \in Bons => e - s[p].c.n <= r + Ensuite(s, Bons, p)
    BY <1>3 DEF Tardent
  <2>2. Tardent(t, e, r)
    BY <1>2, <2>1, Zenon DEF Tardent
  <2> QED
    BY <1>1, <1>2, <2>1, <2>2
<1>4. ASSUME Suivent(s, e, r)
      PROVE  Suivent(t, e, r) /\ (Head(s) \in Bons => e - Head(s).c.n = r + Total(t, Bons))
  <2>1. \A p \in DOMAIN s : s[p] \in Bons => e - s[p].c.n = r + Ensuite(s, Bons, p)
    BY <1>4 DEF Suivent
  <2>2. Suivent(t, e, r)
    BY <1>2, <2>1, Zenon DEF Suivent
  <2> QED
    BY <1>1, <1>2, <2>1, <2>2
<1> QED
  BY <1>3, <1>4

LEMMA OrdreRemplace ==
  ASSUME NEW s \in Seq(JetonsSim), NEW q \in DOMAIN s, s[q] \in Bons,
         NEW y \in JetonsSim, y \notin Bons, NEW e \in Nat, NEW r \in Nat, Tardent(s, e, r)
  PROVE  Tardent([s EXCEPT ![q] = y], e, r + 1)
<1>0. Retouche([s EXCEPT ![q] = y], s, q, y) /\ [s EXCEPT ![q] = y] \in Seq(JetonsSim)
  BY RemplaceElements
<1> SUFFICES ASSUME NEW t, Retouche(t, s, q, y), t \in Seq(JetonsSim)
             PROVE  Tardent(t, e, r + 1)
  BY <1>0, Zenon
<1>1. /\ Len(s) \in Nat /\ DOMAIN s = 1 .. Len(s) /\ Len(t) = Len(s) /\ q \in 1 .. Len(s)
      /\ DOMAIN t = DOMAIN s /\ t[q] = y /\ \A p \in 1 .. Len(s) : p # q => t[p] = s[p]
  BY DEF Retouche
<1>2. Un(s[q], Bons) = 1 /\ Un(y, Bons) = 0
  BY DEF Un
<1>3. ASSUME NEW p \in DOMAIN s
      PROVE  \/ Ensuite(t, Bons, p) + Un(s[q], Bons) = Ensuite(s, Bons, p) + Un(y, Bons)
             \/ Ensuite(t, Bons, p) = Ensuite(s, Bons, p)
  BY EnsuiteRemplace
<1>4. \A p \in DOMAIN s : Ensuite(t, Bons, p) \in Nat /\ Ensuite(s, Bons, p) \in Nat
  BY <1>1, NbTypes
<1> SUFFICES ASSUME NEW p \in DOMAIN s, t[p] \in Bons
             PROVE  e - t[p].c.n <= (r + 1) + Ensuite(t, Bons, p)
  BY <1>1 DEF Tardent
<1>5. p # q /\ t[p] = s[p] /\ s[p] \in Bons
  BY <1>1
<1>6. e - s[p].c.n <= r + Ensuite(s, Bons, p) /\ s[p].c.n \in Nat
  BY <1>5, NumeroType DEF Tardent
<1>7. Ensuite(s, Bons, p) <= Ensuite(t, Bons, p) + 1
  <2>1. CASE Ensuite(t, Bons, p) + Un(s[q], Bons) = Ensuite(s, Bons, p) + Un(y, Bons)
    BY <1>2, <1>4, <2>1
  <2>2. CASE Ensuite(t, Bons, p) = Ensuite(s, Bons, p)
    BY <1>4, <2>2
  <2> QED
    BY <1>3, <2>1, <2>2
<1> QED
  BY <1>4, <1>5, <1>6, <1>7

\* The refusal of the invalid characters is no command.
LEMMA OrdreRefuse ==
  ASSUME versSim \in Seq(JetonsSim), NEW e \in Nat, NEW r \in Nat
  PROVE  /\ Tardent(versSim, e, r) => Tardent(Refuse, e, r)
         /\ Suivent(versSim, e, r) => Suivent(Refuse, e, r)
<1>1. CASE len > 0
  <2>1. Refuse = Append(versSim, Moins)
    BY <1>1, RefuseDeplie
  <2>2. Moins \in JetonsSim /\ Moins \notin Bons
    BY Especes
  <2>3. /\ Tardent(versSim, e, r) => Tardent(Append(versSim, Moins), e, r)
        /\ Suivent(versSim, e, r) => Suivent(Append(versSim, Moins), e, r)
    BY <2>2, OrdreAjoute
  <2> QED
    BY <2>1, <2>3
<1>2. CASE ~(len > 0)
  BY <1>2, RefuseDeplie
<1> QED
  BY <1>1, <1>2

\* The commands refused, to be sent again: those the simulator will refuse,
\* and its refusals that the client did not read.
Refusees == Total(versSim, Mauvais) + Total(versClient, Refus)
\* The number of the last command executed.
Derniere == IF executees = <<>> THEN 0 ELSE executees[Len(executees)]

\* As many commands are on their way, to be executed or refused, as were sent
\* after the last one executed.
NonExecutees ==
  sim # "parti" =>
    /\ envoyees - Derniere <= Refusees + Total(versSim, Bons)
    /\ Tardent(versSim, envoyees, Refusees)

\* The answer kept is that of the last command.
Gardee == sim = "pret" /\ reponse # <<>> => reponse.n = Derniere

LEMMA DerniereType ==
  ASSUME TypeOK
  PROVE  Derniere \in Nat
<1>1. executees \in Seq(1 .. envoyees) /\ envoyees \in Nat
  BY DEF TypeOK
<1>2. executees # <<>> => executees[Len(executees)] \in 1 .. envoyees
  BY <1>1, EmptySeq, LenProperties, ElementOfSeq
<1> QED
  BY <1>1, <1>2 DEF Derniere

LEMMA DerniereAjout ==
  ASSUME NEW S, NEW s \in Seq(S), NEW x \in S
  PROVE  Append(s, x) # <<>> /\ Append(s, x)[Len(Append(s, x))] = x
BY AppendProperties

\* The answers on their way to the client.  Each one is late by as many
\* commands as the noise allows, less those that come before it.
Pressent(s, e, b) ==
  \A p \in DOMAIN s : s[p] \in Justes => (e - s[p].n) + Jusque(s, Justes, p) <= b

Retards ==
  /\ Pressent(versClient, envoyees, parasites + Attend)
  /\ \A r \in recues : r.n # EOF => r.n <= r.attend /\ r.attend - r.n <= parasites

\* As long as one kind of noise only was met and no packet overran its array,
\* the commands are executed in the order they were sent in, and the next ones
\* are on their way.
Fidele == sim # "parti" /\ UnSeulBruit /\ ~deborde
EnOrdre ==
  Fidele =>
    /\ executees = [k \in 1 .. Len(executees) |-> k]
    /\ envoyees - Len(executees) = Refusees + Total(versSim, Bons)
    /\ Suivent(versSim, envoyees, Refusees)
\* Where a packet damaged may come from.
Origines ==
  /\ ~deborde => (packet # <<>> => packet.ok = TRUE)
  /\ (sim # "parti" /\ abimes = 0 /\ ~deborde) => Refusees = 0

LEMMA EspecesComptees ==
  /\ Un(Plus, Bons) = 0 /\ Un(Plus, Mauvais) = 0 /\ Un(Plus, Refus) = 0 /\ Un(Plus, Justes) = 0
  /\ Un(Moins, Bons) = 0 /\ Un(Moins, Mauvais) = 0 /\ Un(Moins, Refus) = 1
  /\ Un(Moins, Justes) = 0 /\ Un(Moins, EnSim) = 1
  /\ Un(Parasite, Refus) = 0 /\ Un(Parasite, Justes) = 0
  /\ \A x, X : Un(x, X) \in {0, 1}
  /\ \A x : x \in Bons => Un(x, Bons) = 1 /\ Un(x, Mauvais) = 0
  /\ \A x : x \in Mauvais => Un(x, Bons) = 0 /\ Un(x, Mauvais) = 1
  /\ \A x : x \in Justes => Un(x, Refus) = 0 /\ Un(x, Justes) = 1
<1>1. \A x : x \in Bons => x \notin Mauvais
  BY EspecesDisjointes
<1>2. \A x : x \in Justes => x \notin Refus
  BY EspecesDisjointes
<1> QED
  BY <1>1, <1>2, Especes DEF Un

\* A packet is a command that will be executed or one that will be refused.
LEMMA BonOuMauvais ==
  ASSUME NEW x \in Paquets(BOOLEAN)
  PROVE  x \in JetonsSim /\ (x \in Bons \/ x \in Mauvais) /\ (x.ok = TRUE => x \in Bons)
<1>1. x.t = "paquet" /\ x \in JetonsSim
  BY DEF Paquets, JetonsSim
<1>2. x.ok = TRUE \/ x.ok = FALSE
  BY Zenon DEF Paquets
<1> QED
  BY <1>1, <1>2, EspecesSim

LEMMA SansReste ==
  ASSUME NEW u \in Nat, NEW v \in Nat, NEW k, NEW l, k = 0, l = 0, u + k = v + l
  PROVE  u = v
OBVIOUS

LEMMA UnDeMeme ==
  ASSUME NEW u \in Nat, NEW v \in Nat, NEW k, NEW l, k = 1, l = 1, u + k = v + l
  PROVE  u = v
OBVIOUS

LEMMA RefuseesType ==
  ASSUME TypeOK
  PROVE  Refusees \in Nat /\ Total(versSim, Bons) \in Nat
BY EnVolTypes DEF Refusees

\* What is refused, and what is to be executed, after the token y was sent in
\* answer to the token x.
LEMMA RefuseesRepond ==
  ASSUME TypeOK, NEW x, Lecture(x), NEW y \in JetonsSim, Repond(y)
  PROVE  /\ Refusees' + Un(x, Refus) = Refusees + Un(y, Mauvais) /\ Refusees' \in Nat
         /\ Total(versSim', Bons) = Total(versSim, Bons) + Un(y, Bons)
<1>1. /\ versSim \in Seq(JetonsSim) /\ versClient \in Seq(JetonsClient)
      /\ \A X : Total(versSim, X) \in Nat /\ Total(versClient, X) \in Nat
  BY EnVolTypes
<1>2. /\ Total(versClient', Refus) \in Nat
      /\ Total(versClient, Refus) = Total(versClient', Refus) + Un(x, Refus)
  BY <1>1, TotalLecture
<1>3. /\ Total(versSim', Bons) = Total(versSim, Bons) + Un(y, Bons)
      /\ Total(versSim', Mauvais) = Total(versSim, Mauvais) + Un(y, Mauvais)
  BY <1>1, TotalRepond
<1>4. Un(x, Refus) \in {0, 1} /\ Un(y, Mauvais) \in {0, 1}
  BY DEF Un
<1>5. Refusees' = Total(versSim', Mauvais) + Total(versClient', Refus)
  BY DEF Refusees
<1>6. Refusees = Total(versSim, Mauvais) + Total(versClient, Refus)
  BY DEF Refusees
<1>7. Total(versSim, Mauvais) \in Nat /\ Total(versClient, Refus) \in Nat
  BY <1>1
<1> QED
  BY <1>2, <1>3, <1>4, <1>5, <1>6, <1>7

\* ... after the token x was read and nothing sent but refusals.
LEMMA RefuseesLecture ==
  ASSUME TypeOK, NEW x, Lecture(x), x \notin Refus, versSim' = Refuse \/ versSim' = versSim
  PROVE  Refusees' = Refusees /\ Total(versSim', Bons) = Total(versSim, Bons)
<1>1. versSim \in Seq(JetonsSim) /\ versClient \in Seq(JetonsClient)
  BY EnVolTypes
<1>2. /\ Total(versClient', Refus) \in Nat
      /\ Total(versClient, Refus) = Total(versClient', Refus) + Un(x, Refus)
  BY <1>1, TotalLecture
<1>3. Un(x, Refus) = 0
  BY DEF Un
<1>4. Total(versClient, Refus) = Total(versClient', Refus)
  BY <1>2, <1>3
<1>5. /\ Total(versSim', Bons) = Total(versSim, Bons)
      /\ Total(versSim', Mauvais) = Total(versSim, Mauvais)
  BY <1>1, TotalRefuse
<1> QED
  BY <1>4, <1>5 DEF Refusees

\* ... after the simulator took the token x and sent back the token y, or
\* nothing.
LEMMA RefuseesTraite ==
  ASSUME TypeOK, NEW x, Traite(x), NEW y \in JetonsClient,
         \/ versClient' = versClient /\ Un(y, Refus) = 0
         \/ versClient' = Append(versClient, y)
         \/ versClient' = Append(Append(versClient, Plus), y)
  PROVE  /\ Refusees' + Un(x, Mauvais) = Refusees + Un(y, Refus) /\ Refusees' \in Nat
         /\ Total(versSim', Bons) + Un(x, Bons) = Total(versSim, Bons)
         /\ Total(versSim', Bons) \in Nat
<1>1. /\ versSim \in Seq(JetonsSim) /\ versClient \in Seq(JetonsClient)
      /\ \A X : Total(versSim, X) \in Nat /\ Total(versClient, X) \in Nat
  BY EnVolTypes
<1>2. \A X : /\ Total(versSim', X) \in Nat
             /\ Total(versSim, X) = Total(versSim', X) + Un(x, X)
  BY <1>1, TotalTraite
<1>3. Un(Plus, Refus) = 0 /\ Un(x, Mauvais) \in {0, 1} /\ Un(y, Refus) \in {0, 1} /\ Un(x, Bons) \in {0, 1}
  BY EspecesComptees
<1>4. Total(versClient', Refus) = Total(versClient, Refus) + Un(y, Refus)
  <2>1. CASE versClient' = versClient /\ Un(y, Refus) = 0
    BY <1>1, <2>1
  <2>2. CASE versClient' = Append(versClient, y)
    BY <1>1, <2>2, TotalAjout
  <2>3. CASE versClient' = Append(Append(versClient, Plus), y)
    <3>1. /\ Append(versClient, Plus) \in Seq(JetonsClient)
          /\ Total(Append(versClient, Plus), Refus) = Total(versClient, Refus) + 0
      BY <1>1, <1>3, Especes, AppendProperties, TotalAjout
    <3>2. Total(versClient', Refus) = Total(Append(versClient, Plus), Refus) + Un(y, Refus)
      BY <2>3, <3>1, TotalAjout
    <3> QED
      BY <1>1, <3>1, <3>2
  <2> QED
    BY <2>1, <2>2, <2>3
<1>5. Refusees' = Total(versSim', Mauvais) + Total(versClient', Refus)
  BY DEF Refusees
<1>6. Refusees = Total(versSim, Mauvais) + Total(versClient, Refus)
  BY DEF Refusees
<1>7. Total(versSim', Mauvais) \in Nat /\ Total(versClient, Refus) \in Nat /\ Total(versSim', Bons) \in Nat
  BY <1>1, <1>2
<1>8. /\ Total(versSim, Mauvais) = Total(versSim', Mauvais) + Un(x, Mauvais)
      /\ Total(versSim, Bons) = Total(versSim', Bons) + Un(x, Bons)
  BY <1>2
<1> QED
  BY <1>3, <1>4, <1>5, <1>6, <1>7, <1>8

\* ... after a step of the noise.
LEMMA RefuseesBruit ==
  ASSUME TypeOK
  PROVE  /\ \A q, y : Abime(q, y) =>
               /\ Refusees' = Refusees + 1
               /\ Total(versSim', Bons) \in Nat /\ Total(versSim', Bons) + 1 = Total(versSim, Bons)
         /\ \A q, y : Perd(q, y) => Refusees' = Refusees
         /\ Souffle => Refusees' = Refusees
<1>1. /\ versSim \in Seq(JetonsSim) /\ versClient \in Seq(JetonsClient)
      /\ \A X : Total(versSim, X) \in Nat /\ Total(versClient, X) \in Nat
  BY EnVolTypes
<1>2. ASSUME NEW q, NEW y, Abime(q, y)
      PROVE  /\ Refusees' = Refusees + 1
             /\ Total(versSim', Bons) \in Nat /\ Total(versSim', Bons) + 1 = Total(versSim, Bons)
  <2>1. /\ q \in DOMAIN versSim /\ y \in JetonsSim /\ versClient' = versClient
        /\ versSim' = [versSim EXCEPT ![q] = y] /\ versSim[q] \in Bons /\ y \in Mauvais
    BY <1>2 DEF Abime
  <2>2. /\ Un(versSim[q], Bons) = 1 /\ Un(versSim[q], Mauvais) = 0
        /\ Un(y, Bons) = 0 /\ Un(y, Mauvais) = 1
    BY <2>1, EspecesComptees
  <2>3. \A X : Total([versSim EXCEPT ![q] = y], X) + Un(versSim[q], X)
                 = Total(versSim, X) + Un(y, X)
    BY <1>1, <2>1, TotalRemplace
  <2>4. versSim' \in Seq(JetonsSim)
    BY <1>1, <2>1, Remplace
  <2>5. Total(versSim', Bons) \in Nat /\ Total(versSim', Mauvais) \in Nat
    BY <2>4, NbTypes
  <2>6. /\ Total(versSim', Bons) + 1 = Total(versSim, Bons) + 0
        /\ Total(versSim', Mauvais) + 0 = Total(versSim, Mauvais) + 1
    BY <2>1, <2>2, <2>3
  <2>7. Refusees' = Total(versSim', Mauvais) + Total(versClient, Refus)
    BY <2>1 DEF Refusees
  <2>8. Refusees = Total(versSim, Mauvais) + Total(versClient, Refus)
    BY DEF Refusees
  <2> QED
    BY <1>1, <2>5, <2>6, <2>7, <2>8
<1>3. ASSUME NEW q, NEW y, Perd(q, y)
      PROVE  Refusees' = Refusees
  <2>1. /\ q \in DOMAIN versClient /\ y \in JetonsClient /\ versSim' = versSim
        /\ versClient' = [versClient EXCEPT ![q] = y] /\ versClient[q] \in Justes
        /\ y \notin Refus
    BY <1>3 DEF Perd
  <2>2. Un(versClient[q], Refus) = 0
    BY <2>1, EspecesComptees
  <2>3. Un(y, Refus) = 0
    BY <2>1 DEF Un
  <2>4. Total([versClient EXCEPT ![q] = y], Refus) + Un(versClient[q], Refus)
          = Total(versClient, Refus) + Un(y, Refus)
    <3>1. q \in DOMAIN versClient /\ y \in JetonsClient
      BY <2>1
    <3> QED
      BY <1>1, <3>1, TotalRemplace
  <2>5. versClient' \in Seq(JetonsClient)
    BY <1>1, <2>1, Remplace
  <2>6. Total(versClient', Refus) \in Nat
    BY <2>5, NbTypes
  <2>7. Total(versClient', Refus) = Total(versClient, Refus)
    BY <1>1, <2>1, <2>2, <2>3, <2>4, <2>6
  <2> QED
    BY <2>1, <2>7 DEF Refusees
<1>4. ASSUME Souffle PROVE Refusees' = Refusees
  <2>1. versClient' = Append(versClient, Parasite) /\ versSim' = versSim
    BY <1>4 DEF Souffle
  <2>2. Total(versClient', Refus) = Total(versClient, Refus) + 0
    BY <1>1, <2>1, Especes, EspecesComptees, TotalAjout
  <2>3. Total(versClient', Refus) = Total(versClient, Refus)
    BY <1>1, <2>2
  <2> QED
    BY <2>1, <2>3 DEF Refusees
<1> QED
  BY <1>2, <1>3, <1>4

LEMMA ReponseExecutee ==
  ASSUME NEW x \in Bons
  PROVE  /\ Reponse(x.c.n) \in JetonsClient /\ Reponse(x.c.n) \in Justes
         /\ Reponse(x.c.n).n = x.c.n
<1>1. x.c.n \in Nat \ {0}
  BY DEF Bons, Paquets, UneCommande
<1>2. ASSUME NEW n \in Nat \ {0}
      PROVE  Reponse(n) \in Reponses({TRUE}) /\ Reponse(n) \in Reponses(BOOLEAN) /\ Reponse(n).n = n
  BY Zenon DEF Reponse, Reponses
<1> QED
  BY <1>1, <1>2 DEF Justes, JetonsClient

\* The answer kept, and the execution of a command.
LEMMA ReponseJuste ==
  ASSUME TypeOK, reponse # <<>>
  PROVE  reponse \in JetonsClient /\ reponse \in Justes
<1>1. reponse \in Reponses({TRUE})
  BY DEF TypeOK, Files
<1>2. Reponses({TRUE}) \subseteq Reponses(BOOLEAN)
  BY Zenon DEF Reponses
<1> QED
  BY <1>1, <1>2 DEF Justes, JetonsClient

LEMMA ExecuteDerniere ==
  ASSUME TypeOK, NEW x, Execute(x)
  PROVE  Derniere' = x.c.n
<1>1. executees \in Seq(Nat) /\ x.c.n \in Nat
  <2>1. executees \in Seq(1 .. envoyees) /\ 1 .. envoyees \subseteq Nat
    BY DEF TypeOK
  <2>2. executees \in Seq(Nat)
    BY <2>1, SuiteElargie
  <2> QED
    BY <2>2, NumeroType DEF Execute
<1>2. executees' = Append(executees, x.c.n)
  BY DEF Execute
<1> QED
  BY <1>1, <1>2, DerniereAjout DEF Derniere

LEMMA ExecuteRefusees ==
  ASSUME TypeOK, NEW x, Execute(x)
  PROVE  Refusees' = Refusees
<1>1. Traite(x) /\ x \in Bons
  BY DEF Execute
<1>2. Un(x, Mauvais) = 0 /\ Un(Plus, Refus) = 0 /\ Plus \in JetonsClient
  BY <1>1, Especes, EspecesComptees
<1>3. CASE versClient' = Append(versClient, Plus)
  <2>1. Refusees' + 0 = Refusees + 0 /\ Refusees' \in Nat
    BY <1>1, <1>2, <1>3, RefuseesTraite
  <2> QED
    BY <2>1, RefuseesType
<1>4. CASE versClient' = Append(Append(versClient, Plus), Reponse(x.c.n))
  <2>1. Reponse(x.c.n) \in JetonsClient /\ Reponse(x.c.n) \in Justes
    BY <1>1, ReponseExecutee
  <2>2. Un(Reponse(x.c.n), Refus) = 0
    BY <2>1, EspecesComptees
  <2>3. Refusees' + 0 = Refusees + 0 /\ Refusees' \in Nat
    BY <1>1, <1>2, <1>4, <2>1, <2>2, RefuseesTraite
  <2> QED
    BY <2>3, RefuseesType
<1> QED
  BY <1>3, <1>4 DEF Execute

LEMMA NonExecuteesInit == Init => NonExecutees /\ Gardee
<1> SUFFICES ASSUME Init PROVE NonExecutees /\ Gardee
  OBVIOUS
<1>1. /\ versSim = <<>> /\ versClient = <<>> /\ envoyees = 0 /\ executees = <<>>
      /\ reponse = <<>>
  BY DEF Init, InitLiaison
<1>2. \A X : Total(<<>>, X) = 0
  <2> TAKE X
  <2>1. Len(<<>>) = 0 /\ \A p \in 1 .. 0 : <<>>[p] \notin X
    OBVIOUS
  <2> QED
    BY <2>1, NbDansNul DEF Total
<1>3. Refusees = 0 /\ Total(versSim, Bons) = 0 /\ Derniere = 0
  BY <1>1, <1>2 DEF Refusees, Derniere
<1>4. Tardent(versSim, envoyees, Refusees)
  BY <1>1 DEF Tardent
<1> QED
  BY <1>1, <1>3, <1>4 DEF NonExecutees, Gardee

\* The steps that neither send, execute nor damage a command: they leave the
\* numbers of those on their way as they were.
Calme ==
  /\ executees' = executees /\ envoyees' = envoyees /\ packet' = packet
  /\ Refusees' = Refusees /\ Total(versSim', Bons) = Total(versSim, Bons)
  /\ \A e, r \in Nat : /\ Tardent(versSim, e, r) => Tardent(versSim', e, r)
                       /\ Suivent(versSim, e, r) => Suivent(versSim', e, r)
  /\ (sim' # "parti" => sim # "parti") /\ (~deborde' => ~deborde)
  /\ abimes <= abimes' /\ parasites <= parasites'
  /\ \/ parasites' = parasites /\ sim' \in {sim, "parti"}
     \/ parasites' = parasites + 1 /\ sim' = sim

LEMMA Mouvements ==
  ASSUME TypeOK, [Next]_vars
  PROVE  \/ Calme \/ Raccroche \/ Renvoie \/ \E p : Envoi(p)
         \/ \E x : Execute(x)
         \/ \E q, y : Abime(q, y)
<1> DEFINE r == Refusees
           b == Total(versSim, Bons)
           Garde(s) == \A e, k \in Nat : /\ Tardent(versSim, e, k) => Tardent(s, e, k)
                                         /\ Suivent(versSim, e, k) => Suivent(s, e, k)
<1>1. /\ versSim \in Seq(JetonsSim) /\ versClient \in Seq(JetonsClient) /\ envoyees \in Nat
      /\ abimes \in Nat /\ parasites \in Nat
  BY EnVolTypes DEF TypeOK
<1>2. r \in Nat /\ b \in Nat
  BY RefuseesType
<1>3. Garde(versSim)
  OBVIOUS
<1>4. Garde(Refuse) /\ Refuse \in Seq(JetonsSim)
  BY <1>1, OrdreRefuse, RefuseDeplie
<1> HIDE DEF r, b
<1>5. CASE Muet
  <2>1. /\ versSim' = versSim /\ versClient' = versClient
        /\ executees' = executees /\ envoyees' = envoyees /\ packet' = packet
        /\ abimes' = abimes /\ parasites' = parasites /\ (~deborde' => ~deborde)
        /\ (sim' # "parti" => sim # "parti") /\ sim' \in {sim, "parti"}
    BY <1>5 DEF Muet
  <2>2. Refusees' = Refusees /\ Total(versSim', Bons) = Total(versSim, Bons)
    BY <2>1 DEF Refusees
  <2> QED
    BY <1>1, <1>3, <2>1, <2>2 DEF Calme
<1>6. ASSUME NEW x, Lecture(x)
      PROVE  /\ executees' = executees /\ envoyees' = envoyees /\ packet' = packet
             /\ (sim' # "parti" => sim # "parti") /\ (~deborde' => ~deborde)
             /\ abimes <= abimes' /\ parasites <= parasites'
             /\ parasites' = parasites /\ sim' = sim
  BY <1>1, <1>6 DEF Lecture
\* What the scanner does with a token that is no refusal.
<1>7. ASSUME NEW x, Lecture(x), x \notin Refus, versSim' = Refuse \/ versSim' = versSim
      PROVE  Calme
  <2>1. Refusees' = Refusees /\ Total(versSim', Bons) = Total(versSim, Bons)
    BY <1>7, RefuseesLecture
  <2>2. Garde(versSim')
    BY <1>3, <1>4, <1>7
  <2> QED
    BY <1>6, <1>7, <2>1, <2>2 DEF Calme
\* ... when it answers it with an acknowledgement or a refusal.
<1>8. ASSUME NEW x, Lecture(x), x \notin Refus, NEW y \in JetonsSim, Repond(y),
             y \notin Bons, Un(y, Mauvais) = 0
      PROVE  Calme
  <2>1. Un(x, Refus) = 0 /\ Un(y, Bons) = 0
    BY <1>8 DEF Un
  <2>2. /\ Refusees' + Un(x, Refus) = r + Un(y, Mauvais) /\ Refusees' \in Nat
        /\ Total(versSim', Bons) = b + Un(y, Bons)
    BY <1>8, RefuseesRepond DEF r, b
  <2>3. Refusees' = r
    <3>1. Refusees' + Un(x, Refus) = r + Un(y, Mauvais) /\ Un(x, Refus) = 0 /\ Un(y, Mauvais) = 0
      BY <1>8, <2>1, <2>2
    <3> QED
      BY <1>2, <2>2, <3>1, SansReste
  <2>4. Total(versSim', Bons) = b
    BY <1>2, <2>1, <2>2
  <2>5. ASSUME NEW e \in Nat, NEW k \in Nat
        PROVE  /\ Tardent(Refuse, e, k) => Tardent(Append(Refuse, y), e, k)
               /\ Suivent(Refuse, e, k) => Suivent(Append(Refuse, y), e, k)
    BY <1>4, <1>8, OrdreAjoute
  <2>6. Garde(versSim')
    BY <1>4, <1>8, <2>5 DEF Repond
  <2> QED
    BY <1>6, <1>8, <2>3, <2>4, <2>6 DEF Calme, r, b
<1>9. CASE Accuse
  <2>1. Lecture(Plus) /\ versSim' = Refuse /\ Plus \notin Refus
    BY <1>9, Especes DEF Accuse
  <2> QED
    BY <1>7, <2>1
<1>10. CASE Ajoute
  <2>1. Lecture(Parasite) /\ (versSim' = Refuse \/ versSim' = versSim) /\ Parasite \notin Refus
    BY <1>10, Especes DEF Ajoute
  <2> QED
    BY <1>7, <2>1
<1>11. CASE \E x \in JetonsClient : Prend(x) \/ Ecarte(x)
  <2>1. PICK x \in JetonsClient : Prend(x) \/ Ecarte(x)
    BY <1>11
  <2>2. CASE Prend(x)
    <3>1. Lecture(x) /\ Repond(Plus) /\ x \notin Refus
      BY <2>2, EspecesDisjointes DEF Prend
    <3>2. Plus \in JetonsSim /\ Plus \notin Bons /\ Un(Plus, Mauvais) = 0
      BY Especes, EspecesComptees
    <3> QED
      BY <1>8, <3>1, <3>2
  <2>3. CASE Ecarte(x)
    <3>1. Lecture(x) /\ Repond(Moins) /\ x \notin Refus
      BY <2>3 DEF Ecarte
    <3>2. Moins \in JetonsSim /\ Moins \notin Bons /\ Un(Moins, Mauvais) = 0
      BY Especes, EspecesComptees
    <3> QED
      BY <1>8, <3>1, <3>2
  <2> QED
    BY <2>1, <2>2, <2>3
\* What the simulator does with a token.
<1>12. ASSUME NEW x, Traite(x), NEW y \in JetonsClient,
              \/ versClient' = versClient /\ Un(y, Refus) = 0
              \/ versClient' = Append(versClient, y)
              \/ versClient' = Append(Append(versClient, Plus), y),
              Un(x, Mauvais) = Un(y, Refus), executees' = executees, sim' = sim,
              Un(x, Bons) = 0
       PROVE  Calme
  <2>1. /\ versSim # <<>> /\ versSim' = Tail(versSim) /\ envoyees' = envoyees
        /\ packet' = packet /\ deborde' = deborde /\ abimes' = abimes /\ parasites' = parasites
    BY <1>12 DEF Traite
  <2>2. /\ Refusees' + Un(x, Mauvais) = r + Un(y, Refus) /\ Refusees' \in Nat
        /\ Total(versSim', Bons) + Un(x, Bons) = b /\ Total(versSim', Bons) \in Nat
    BY <1>12, RefuseesTraite DEF r, b
  <2>3. Un(x, Mauvais) \in {0, 1}
    BY EspecesComptees
  <2>4. Refusees' = r /\ Total(versSim', Bons) = b
    BY <1>2, <1>12, <2>2, <2>3
  <2>5. Garde(Tail(versSim))
    BY <1>1, <2>1, OrdreSuite
  <2> QED
    BY <1>1, <1>12, <2>1, <2>4, <2>5 DEF Calme, r, b
<1>13. CASE Ignore
  <2>1. Traite(Plus) /\ versClient' = versClient /\ executees' = executees /\ sim' = sim
    BY <1>13 DEF Ignore
  <2>2. /\ Plus \in JetonsClient /\ Un(Plus, Refus) = 0 /\ Un(Plus, Mauvais) = 0
        /\ Un(Plus, Bons) = 0
    BY Especes, EspecesComptees
  <2> QED
    BY <1>12, <2>1, <2>2
<1>14. CASE Repete
  <2>1. /\ Traite(Moins) /\ executees' = executees /\ sim' = sim
        /\ versClient' = IF reponse = <<>> THEN versClient ELSE Append(versClient, reponse)
    BY <1>14 DEF Repete
  <2>2. Un(Moins, Mauvais) = 0 /\ Un(Moins, Bons) = 0
    BY EspecesComptees
  <2>3. CASE reponse = <<>>
    <3>1. Plus \in JetonsClient /\ Un(Plus, Refus) = 0
      BY Especes, EspecesComptees
    <3> QED
      BY <1>12, <2>1, <2>2, <2>3, <3>1
  <2>4. CASE reponse # <<>>
    <3>1. reponse \in JetonsClient /\ reponse \in Justes
      BY <2>4, ReponseJuste
    <3>2. Un(reponse, Refus) = 0
      BY <3>1, EspecesComptees
    <3> QED
      BY <1>12, <2>1, <2>2, <2>4, <3>1, <3>2
  <2> QED
    BY <2>3, <2>4
<1>15. CASE \E x \in JetonsSim : Rejette(x)
  <2>1. PICK x \in JetonsSim : Rejette(x)
    BY <1>15
  <2>2. /\ Traite(x) /\ x \in Mauvais /\ versClient' = Append(versClient, Moins)
        /\ executees' = executees /\ sim' = sim
    BY <2>1 DEF Rejette
  <2>3. /\ Moins \in JetonsClient /\ Un(Moins, Refus) = 1 /\ Un(x, Mauvais) = 1
        /\ Un(x, Bons) = 0
    BY <2>2, Especes, EspecesComptees
  <2> QED
    BY <1>12, <2>2, <2>3
<1>16. ASSUME Refusees' = Refusees, versSim' = versSim, Bruite, abimes <= abimes',
              parasites <= parasites', parasites' = parasites \/ parasites' = parasites + 1
       PROVE  Calme
  BY <1>3, <1>16 DEF Bruite, Calme
<1>17. CASE \E q, y : Perd(q, y)
  <2>1. PICK q, y : Perd(q, y)
    BY <1>17
  <2>2. Refusees' = Refusees
    BY <2>1, RefuseesBruit
  <2>3. /\ Bruite /\ versSim' = versSim /\ abimes <= abimes' /\ parasites <= parasites'
        /\ parasites' = parasites
    BY <1>1, <2>1 DEF Perd
  <2> QED
    BY <1>16, <2>2, <2>3
<1>18. CASE Souffle
  <2>1. Refusees' = Refusees
    BY <1>18, RefuseesBruit
  <2>2. /\ Bruite /\ versSim' = versSim /\ abimes <= abimes' /\ parasites <= parasites'
        /\ parasites' = parasites + 1
    BY <1>1, <1>18 DEF Souffle
  <2> QED
    BY <1>16, <2>1, <2>2
<1> QED
  BY <1>5, <1>9, <1>10, <1>11, <1>13, <1>14, <1>15, <1>17, <1>18, TousLesPas

\* What is refused, and what is to be executed, after a command was sent.
LEMMA RefuseesEnvoi ==
  ASSUME TypeOK, NEW p, Envoi(p)
  PROVE  /\ p \in JetonsSim /\ (p \in Bons \/ p \in Mauvais) /\ (p.ok = TRUE => p \in Bons)
         /\ p \in Bons => /\ Refusees' = Refusees
                          /\ Total(versSim', Bons) = Total(versSim, Bons) + 1
         /\ p \in Mauvais => /\ Refusees' = Refusees + 1
                             /\ Total(versSim', Bons) = Total(versSim, Bons)
<1> DEFINE m == Total(versSim, Mauvais)
           b == Total(versSim, Bons)
           f == Total(versClient, Refus)
<1>1. versSim \in Seq(JetonsSim) /\ m \in Nat /\ b \in Nat /\ f \in Nat
  BY EnVolTypes
<1>2. p \in Paquets(BOOLEAN) /\ versSim' = Append(versSim, p) /\ versClient' = versClient
  BY DEF Envoi
<1>3. p \in JetonsSim /\ (p \in Bons \/ p \in Mauvais) /\ (p.ok = TRUE => p \in Bons)
  BY <1>2, BonOuMauvais
<1>4. \A X : Total(versSim', X) = Total(versSim, X) + Un(p, X)
  BY <1>1, <1>2, <1>3, TotalAjout
<1>5. Total(versSim', Mauvais) = m + Un(p, Mauvais) /\ Total(versSim', Bons) = b + Un(p, Bons)
  BY <1>4
<1>6. Refusees' = Total(versSim', Mauvais) + f
  BY <1>2 DEF Refusees
<1>7. Refusees = m + f
  BY DEF Refusees
<1> HIDE DEF m, b, f
<1>8. CASE p \in Bons
  <2>1. Un(p, Mauvais) = 0 /\ Un(p, Bons) = 1 /\ p \notin Mauvais
    BY <1>8, EspecesComptees, EspecesDisjointes
  <2> QED
    BY <1>1, <1>3, <1>5, <1>6, <1>7, <2>1 DEF b
<1>9. CASE p \in Mauvais
  <2>1. Un(p, Mauvais) = 1 /\ Un(p, Bons) = 0 /\ p \notin Bons
    BY <1>9, EspecesComptees, EspecesDisjointes
  <2> QED
    BY <1>1, <1>3, <1>5, <1>6, <1>7, <2>1 DEF b
<1> QED
  BY <1>3, <1>8, <1>9

\* ... after the last command was sent again.
LEMMA RefuseesRenvoie ==
  ASSUME TypeOK, Renvoie
  PROVE  /\ packet \in JetonsSim /\ packet.c.n = envoyees
         /\ packet \in Bons \/ packet \in Mauvais
         /\ packet.ok = TRUE => packet \in Bons
         /\ Refusees' \in Nat /\ versSim' = Append(Refuse, packet)
         /\ packet \in Bons => /\ Refusees' = Refusees - 1
                               /\ Total(versSim', Bons) = Total(versSim, Bons) + 1
         /\ packet \in Mauvais => /\ Refusees' = Refusees
                                  /\ Total(versSim', Bons) = Total(versSim, Bons)
<1> DEFINE r == Refusees
           b == Total(versSim, Bons)
<1>1. r \in Nat /\ b \in Nat
  BY RefuseesType
<1>2. Lecture(Moins) /\ Repond(packet) /\ pc = "attente" /\ versSim' = Append(Refuse, packet)
  BY DEF Renvoie, Lecture, Repond
<1>3. packet \in Paquets(BOOLEAN) /\ packet \in JetonsSim /\ packet.c.n = envoyees
  BY <1>2, PaquetGarde
<1>4. (packet \in Bons \/ packet \in Mauvais) /\ (packet.ok = TRUE => packet \in Bons)
  BY <1>3, BonOuMauvais
<1>5. Un(Moins, Refus) = 1 /\ Refusees' \in Nat
      /\ Refusees' + Un(Moins, Refus) = r + Un(packet, Mauvais)
      /\ Total(versSim', Bons) = b + Un(packet, Bons)
  BY <1>2, <1>3, RefuseesRepond, EspecesComptees
<1> HIDE DEF r, b
<1>6. CASE packet \in Bons
  <2>1. Un(packet, Mauvais) = 0 /\ Un(packet, Bons) = 1 /\ packet \notin Mauvais
    BY <1>6, EspecesComptees, EspecesDisjointes
  <2>2. Total(versSim', Bons) = b + 1
    BY <1>5, <2>1
  <2>3. Refusees' = r - 1
    <3>1. /\ Refusees' + Un(Moins, Refus) = r + Un(packet, Mauvais)
          /\ Un(Moins, Refus) = 1 /\ Un(packet, Mauvais) = 0
      BY <1>5, <2>1
    <3>2. Refusees' \in Nat /\ r \in Nat
      BY <1>1, <1>5
    <3>3. Refusees' + 1 = r + 0
      BY <3>1, Zenon
    <3>4. \A u, v \in Nat : u + 1 = v + 0 => u = v - 1
      OBVIOUS
    <3> QED
      BY <3>2, <3>3, <3>4, Zenon
  <2> QED
    BY <1>2, <1>3, <1>4, <1>5, <2>1, <2>2, <2>3 DEF r, b
<1>7. CASE packet \in Mauvais
  <2>1. Un(packet, Mauvais) = 1 /\ Un(packet, Bons) = 0 /\ packet \notin Bons
    BY <1>7, EspecesComptees, EspecesDisjointes
  <2>2. Total(versSim', Bons) = b
    BY <1>1, <1>5, <2>1
  <2>3. Refusees' = r
    BY <1>1, <1>5, <2>1, UnDeMeme
  <2> QED
    BY <1>2, <1>3, <1>4, <1>5, <2>1, <2>2, <2>3 DEF r, b
<1> QED
  BY <1>4, <1>6, <1>7

LEMMA NonExecuteesNext ==
  ASSUME TypeOK, NonExecutees, [Next]_vars
  PROVE  NonExecutees'
<1> DEFINE r == Refusees
           b == Total(versSim, Bons)
           Reste(e, d, k, l) == e - d <= k + l
<1> SUFFICES ASSUME sim' # "parti"
             PROVE  /\ Reste(envoyees', Derniere', Refusees', Total(versSim', Bons))
                    /\ Tardent(versSim', envoyees', Refusees')
  BY DEF NonExecutees
<1>1. /\ versSim \in Seq(JetonsSim) /\ versClient \in Seq(JetonsClient) /\ envoyees \in Nat
      /\ \A X : Total(versSim, X) \in Nat /\ Total(versClient, X) \in Nat
  BY EnVolTypes
<1>2. r \in Nat /\ b \in Nat /\ Derniere \in Nat
  BY RefuseesType, DerniereType
<1>3. ASSUME sim # "parti" PROVE envoyees - Derniere <= r + b /\ Tardent(versSim, envoyees, r)
  BY <1>3 DEF NonExecutees
<1>4. executees' = executees => Derniere' = Derniere
  BY DEF Derniere
<1> HIDE DEF r, b
<1>5. CASE Calme
  <2>1. /\ executees' = executees /\ envoyees' = envoyees /\ sim # "parti"
        /\ Refusees' = r /\ Total(versSim', Bons) = b
    BY <1>5 DEF Calme, r, b
  <2>2. Tardent(versSim', envoyees, r)
    BY <1>1, <1>2, <1>3, <1>5, <2>1 DEF Calme
  <2> QED
    BY <1>3, <1>4, <2>1, <2>2
<1>6. CASE Raccroche
  BY <1>6 DEF Raccroche
<1>7. CASE \E p : Envoi(p)
  <2>1. PICK p : Envoi(p)
    BY <1>7
  <2>2. /\ p.c.n = envoyees + 1 /\ envoyees' = envoyees + 1
        /\ versSim' = Append(versSim, p) /\ executees' = executees /\ sim' = sim
    BY <2>1 DEF Envoi
  <2>3. p \in JetonsSim /\ (p \in Bons \/ p \in Mauvais)
    BY <2>1, RefuseesEnvoi
  <2>4. Tardent(versSim, envoyees, r) /\ envoyees - Derniere <= r + b
    BY <1>3, <2>2
  <2>5. CASE p \in Bons
    <3>1. Refusees' = r /\ Total(versSim', Bons) = b + 1
      BY <2>1, <2>5, RefuseesEnvoi DEF r, b
    <3>2. envoyees + 1 \in Nat /\ (envoyees + 1) - envoyees <= (1 + r) - r
      BY <1>1, <1>2
    <3>3. Tardent(Append(versSim, p), envoyees + 1, r)
      BY <1>1, <1>2, <2>2, <2>3, <2>4, <2>5, <3>2, OrdreAjoute
    <3> QED
      BY <1>1, <1>2, <1>4, <2>2, <2>4, <3>1, <3>3
  <2>6. CASE p \in Mauvais
    <3>1. Refusees' = r + 1 /\ Total(versSim', Bons) = b /\ p \notin Bons
      BY <2>1, <2>6, RefuseesEnvoi, EspecesDisjointes DEF r, b
    <3>2. envoyees + 1 \in Nat /\ r + 1 \in Nat
      BY <1>1, <1>2
    <3>3. Tardent(Append(versSim, p), envoyees + 1, r + 1)
      BY <1>1, <1>2, <2>3, <2>4, <3>1, <3>2, OrdreAjoute
    <3> QED
      BY <1>1, <1>2, <1>4, <2>2, <2>4, <3>1, <3>3
  <2> QED
    BY <2>3, <2>5, <2>6
<1>8. CASE Renvoie
  <2>1. sim' = sim /\ executees' = executees /\ envoyees' = envoyees
    BY <1>8 DEF Renvoie, Lecture
  <2>2. /\ packet \in JetonsSim /\ packet.c.n = envoyees /\ versSim' = Append(Refuse, packet)
        /\ packet \in Bons \/ packet \in Mauvais
    BY <1>8, RefuseesRenvoie
  <2>3. Tardent(versSim, envoyees, r) /\ envoyees - Derniere <= r + b
    BY <1>3, <2>1
  <2>4. Tardent(Refuse, envoyees, r) /\ Refuse \in Seq(JetonsSim)
    BY <1>1, <1>2, <2>3, OrdreRefuse, RefuseDeplie
  <2>5. CASE packet \in Bons
    <3>1. Refusees' = r - 1 /\ Total(versSim', Bons) = b + 1 /\ r - 1 \in Nat
      BY <1>8, <2>5, RefuseesRenvoie DEF r, b
    <3>2. envoyees - envoyees <= (1 + (r - 1)) - r
      BY <1>1, <1>2
    <3>3. Tardent(Append(Refuse, packet), envoyees, r - 1)
      BY <1>1, <1>2, <2>2, <2>4, <2>5, <3>1, <3>2, OrdreAjoute
    <3> QED
      BY <1>1, <1>2, <1>4, <2>1, <2>2, <2>3, <3>1, <3>3
  <2>6. CASE packet \in Mauvais
    <3>1. Refusees' = r /\ Total(versSim', Bons) = b /\ packet \notin Bons
      BY <1>8, <2>6, RefuseesRenvoie, EspecesDisjointes DEF r, b
    <3>2. Tardent(Append(Refuse, packet), envoyees, r)
      BY <1>1, <1>2, <2>2, <2>4, <3>1, OrdreAjoute
    <3> QED
      BY <1>1, <1>2, <1>4, <2>1, <2>2, <2>3, <3>1, <3>2
  <2> QED
    BY <2>2, <2>5, <2>6
<1>9. CASE \E x : Execute(x)
  <2>1. PICK x : Execute(x)
    BY <1>9
  <2>2. /\ x \in Bons /\ sim = "pret" /\ versSim # <<>> /\ x = Head(versSim)
        /\ versSim' = Tail(versSim) /\ envoyees' = envoyees
    BY <2>1 DEF Execute, Traite
  <2>3. Derniere' = x.c.n /\ Refusees' = r
    BY <2>1, ExecuteDerniere, ExecuteRefusees DEF r
  <2>4. /\ Tardent(Tail(versSim), envoyees, r)
        /\ envoyees - Head(versSim).c.n <= r + Total(Tail(versSim), Bons)
    BY <1>1, <1>3, <2>2, OrdreSuite
  <2> QED
    BY <2>2, <2>3, <2>4
<1>10. CASE \E q, y : Abime(q, y)
  <2>1. PICK q, y : Abime(q, y)
    BY <1>10
  <2>2. /\ sim' = sim /\ executees' = executees /\ envoyees' = envoyees
        /\ q \in DOMAIN versSim /\ versSim[q] \in Bons /\ y \in JetonsSim /\ y \notin Bons
        /\ versSim' = [versSim EXCEPT ![q] = y]
    BY <2>1 DEF Abime, Bruite
  <2>3. Tardent(versSim, envoyees, r) /\ envoyees - Derniere <= r + b
    BY <1>3, <2>2
  <2>4. Tardent([versSim EXCEPT ![q] = y], envoyees, r + 1)
    BY <1>1, <1>2, <2>2, <2>3, OrdreRemplace
  <2>5. /\ Refusees' = r + 1 /\ Total(versSim', Bons) \in Nat
        /\ Total(versSim', Bons) + 1 = b
    BY <2>1, RefuseesBruit DEF r, b
  <2> QED
    BY <1>1, <1>2, <1>4, <2>2, <2>3, <2>4, <2>5
<1> QED
  BY <1>5, <1>6, <1>7, <1>8, <1>9, <1>10, Mouvements

LEMMA GardeeNext ==
  ASSUME TypeOK, Gardee, [Next]_vars
  PROVE  Gardee'
<1> SUFFICES ASSUME sim' = "pret", reponse' # <<>> PROVE reponse'.n = Derniere'
  BY DEF Gardee
<1>1. ASSUME reponse' = reponse, executees' = executees, sim = "pret"
      PROVE  reponse'.n = Derniere'
  BY <1>1 DEF Gardee, Derniere
<1>2. CASE Muet
  BY <1>1, <1>2 DEF Muet
<1>3. CASE \E p : Envoi(p)
  BY <1>1, <1>3 DEF Envoi
<1>4. CASE \/ Accuse \/ Renvoie \/ Ajoute \/ \E x \in JetonsClient : Prend(x) \/ Ecarte(x)
  BY <1>1, <1>4 DEF Accuse, Renvoie, Ajoute, Prend, Ecarte, Lecture
<1>5. CASE Raccroche
  BY <1>5 DEF Raccroche
<1>6. CASE Ignore \/ Repete \/ \E x \in JetonsSim : Rejette(x)
  BY <1>1, <1>6 DEF Ignore, Repete, Rejette, Traite
<1>7. CASE \E x \in JetonsSim : Execute(x)
  <2>1. PICK x \in JetonsSim : Execute(x)
    BY <1>7
  <2>2. x \in Bons /\ reponse' = Reponse(x.c.n)
    BY <2>1 DEF Execute
  <2>3. Derniere' = x.c.n
    BY <2>1, ExecuteDerniere
  <2>4. Reponse(x.c.n).n = x.c.n
    BY <2>2, ReponseExecutee
  <2> QED
    BY <2>2, <2>3, <2>4
<1>8. CASE Souffle \/ \E q, y : Abime(q, y) \/ Perd(q, y)
  BY <1>1, <1>8 DEF Souffle, Abime, Perd, Bruite
<1> QED
  BY <1>2, <1>3, <1>4, <1>5, <1>6, <1>7, <1>8, TousLesPas

-----------------------------------------------------------------------------
(* How late an answer may be.                                                *)

LEMMA RetardType ==
  ASSUME NEW s \in Seq(JetonsClient), NEW p \in DOMAIN s, s[p] \in Justes
  PROVE  s[p].n \in Nat /\ Jusque(s, Justes, p) \in Nat
<1>1. s[p].n \in Nat
  BY DEF Justes, Reponses
<1>2. Jusque(s, Justes, p) \in Nat
  BY NbTypes
<1> QED
  BY <1>1, <1>2

\* More commands sent than noise allowed for.
LEMMA RetardPlus ==
  ASSUME NEW s \in Seq(JetonsClient), NEW e \in Nat, NEW b \in Nat, NEW e2 \in Nat,
         NEW b2 \in Nat, Pressent(s, e, b), e2 - e <= b2 - b
  PROVE  Pressent(s, e2, b2)
<1> SUFFICES ASSUME NEW p \in DOMAIN s, s[p] \in Justes
             PROVE  (e2 - s[p].n) + Jusque(s, Justes, p) <= b2
  BY DEF Pressent
<1>1. (e - s[p].n) + Jusque(s, Justes, p) <= b
  BY DEF Pressent
<1>2. s[p].n \in Nat /\ Jusque(s, Justes, p) \in Nat
  BY RetardType
<1> HIDE DEF Jusque
<1> QED
  BY <1>1, <1>2

LEMMA RetardAjoute ==
  ASSUME NEW s \in Seq(JetonsClient), NEW x \in JetonsClient, NEW e \in Nat, NEW b \in Nat,
         Pressent(s, e, b), x \in Justes => (e - x.n) + (Total(s, Justes) + 1) <= b
  PROVE  Pressent(Append(s, x), e, b)
<1>0. Prolonge(Append(s, x), s, x)
  BY AjoutElements
<1> SUFFICES ASSUME NEW t, Prolonge(t, s, x)
             PROVE  Pressent(t, e, b)
  BY <1>0, Zenon
<1> DEFINE n == Len(s)
<1>1. /\ n \in Nat /\ DOMAIN s = 1 .. n /\ DOMAIN t = 1 .. n + 1
      /\ t[n + 1] = x /\ \A p \in 1 .. n : t[p] = s[p]
  BY DEF Prolonge
<1>2. Jusque(t, Justes, n + 1) = Total(s, Justes) + Un(x, Justes)
  BY NbAjout
<1>3. ASSUME NEW p \in DOMAIN s
      PROVE  /\ Ensuite(t, Justes, p) = Ensuite(s, Justes, p) + Un(x, Justes)
             /\ Jusque(t, Justes, p) = Jusque(s, Justes, p)
  BY EnsuiteAjout
<1>4. \A p \in 1 .. n + 1 : p \in 1 .. n \/ p = n + 1
  BY <1>1
<1>5. x \in Justes => Un(x, Justes) = 1
  BY DEF Un
<1> HIDE DEF n
<1> SUFFICES ASSUME NEW p \in 1 .. n + 1, t[p] \in Justes
             PROVE  (e - t[p].n) + Jusque(t, Justes, p) <= b
  BY <1>1 DEF Pressent
<1>6. CASE p = n + 1
  BY <1>1, <1>2, <1>5, <1>6
<1>7. CASE p \in 1 .. n
  <2>1. t[p] = s[p] /\ Jusque(t, Justes, p) = Jusque(s, Justes, p)
    BY <1>1, <1>3, <1>7
  <2>2. (e - s[p].n) + Jusque(s, Justes, p) <= b
    BY <1>1, <1>7, <2>1 DEF Pressent
  <2> QED
    BY <2>1, <2>2
<1> QED
  BY <1>4, <1>6, <1>7

LEMMA RetardSuite ==
  ASSUME NEW s \in Seq(JetonsClient), s # <<>>, NEW e \in Nat, NEW b \in Nat, Pressent(s, e, b)
  PROVE  /\ Pressent(Tail(s), e, b - Un(Head(s), Justes))
         /\ Head(s) \in Justes => (e - Head(s).n) + 1 <= b
<1>0. Entame(Tail(s), s) /\ Head(s) = s[1] /\ Tail(s) \in Seq(JetonsClient)
  BY SuiteElements
<1> SUFFICES ASSUME NEW t, Entame(t, s), t \in Seq(JetonsClient)
             PROVE  /\ Pressent(t, e, b - Un(Head(s), Justes))
                    /\ Head(s) \in Justes => (e - Head(s).n) + 1 <= b
  BY <1>0, Zenon
<1> DEFINE u == Un(Head(s), Justes)
<1>1. 1 \in DOMAIN s /\ s[1] = Head(s) /\ Jusque(s, Justes, 1) = u
  BY <1>0, NbSuite DEF Entame
<1>2. u \in {0, 1} /\ (Head(s) \in Justes => u = 1)
  BY DEF Un
<1>6. u = Un(s[1], Justes)
  BY <1>1
<1> HIDE DEF u
<1>5. ASSUME NEW p \in DOMAIN t
      PROVE  Jusque(s, Justes, p + 1) = Jusque(t, Justes, p) + u
  BY <1>6, JusqueSuite
<1>3. Head(s) \in Justes => (e - Head(s).n) + 1 <= b
  BY <1>1, <1>2 DEF Pressent
<1>4. Pressent(t, e, b - u)
  <2> SUFFICES ASSUME NEW p \in DOMAIN t, t[p] \in Justes
               PROVE  (e - t[p].n) + Jusque(t, Justes, p) <= b - u
    BY DEF Pressent
  <2>1. /\ p + 1 \in DOMAIN s /\ t[p] = s[p + 1]
        /\ Jusque(s, Justes, p + 1) = Jusque(t, Justes, p) + u
    <3>1. p + 1 \in DOMAIN s /\ t[p] = s[p + 1]
      BY DEF Entame
    <3> QED
      BY <1>5, <3>1
  <2>2. (e - t[p].n) + Jusque(s, Justes, p + 1) <= b
    BY <2>1 DEF Pressent
  <2>3. t[p].n \in Nat /\ Jusque(t, Justes, p) \in Nat
    BY RetardType
  <2>4. (e - t[p].n) + (Jusque(t, Justes, p) + u) <= b
    BY <2>1, <2>2
  <2> QED
    BY <1>2, <2>3, <2>4
<1> QED
  BY <1>3, <1>4 DEF u

LEMMA RetardRemplace ==
  ASSUME NEW s \in Seq(JetonsClient), NEW q \in DOMAIN s, s[q] \in Justes,
         NEW y \in JetonsClient, y \notin Justes, NEW e \in Nat, NEW b \in Nat,
         Pressent(s, e, b)
  PROVE  Pressent([s EXCEPT ![q] = y], e, b)
<1>0. Retouche([s EXCEPT ![q] = y], s, q, y) /\ [s EXCEPT ![q] = y] \in Seq(JetonsClient)
  BY RemplaceElements
<1> SUFFICES ASSUME NEW t, Retouche(t, s, q, y), t \in Seq(JetonsClient)
             PROVE  Pressent(t, e, b)
  BY <1>0, Zenon
<1>1. /\ DOMAIN s = 1 .. Len(s) /\ DOMAIN t = DOMAIN s /\ t[q] = y
      /\ \A p \in 1 .. Len(s) : p # q => t[p] = s[p]
  BY DEF Retouche
<1>2. Un(s[q], Justes) = 1 /\ Un(y, Justes) = 0
  BY DEF Un
<1>3. ASSUME NEW p \in DOMAIN s
      PROVE  \/ Jusque(t, Justes, p) = Jusque(s, Justes, p)
             \/ Jusque(t, Justes, p) + Un(s[q], Justes) = Jusque(s, Justes, p) + Un(y, Justes)
  BY EnsuiteRemplace
<1> SUFFICES ASSUME NEW p \in DOMAIN s, t[p] \in Justes
             PROVE  (e - t[p].n) + Jusque(t, Justes, p) <= b
  BY <1>1 DEF Pressent
<1>4. t[p] = s[p] /\ (e - s[p].n) + Jusque(s, Justes, p) <= b
  BY <1>1 DEF Pressent
<1>5. s[p].n \in Nat /\ Jusque(s, Justes, p) \in Nat /\ Jusque(t, Justes, p) \in Nat
  BY <1>1, <1>4, RetardType
<1>6. Jusque(t, Justes, p) <= Jusque(s, Justes, p)
  <2>1. CASE Jusque(t, Justes, p) = Jusque(s, Justes, p)
    BY <1>5, <2>1
  <2>2. CASE Jusque(t, Justes, p) + Un(s[q], Justes) = Jusque(s, Justes, p) + Un(y, Justes)
    BY <1>2, <1>5, <2>2
  <2> QED
    BY <1>3, <2>1, <2>2
<1> QED
  BY <1>4, <1>5, <1>6

\* What is on its way bounds how late the next answer may be: that of the
\* command taken, or the last one, sent again.
LEMMA ReponseATemps ==
  ASSUME TypeOK, EnVol, NonExecutees, NEW x, Traite(x), NEW n \in Nat,
         (x \in Bons /\ n = x.c.n) \/ (x = Moins /\ n = Derniere)
  PROVE  (envoyees - n) + (Total(versClient, Justes) + 1) <= parasites + Attend
<1>1. /\ versSim \in Seq(JetonsSim) /\ versClient \in Seq(JetonsClient) /\ envoyees \in Nat
      /\ \A X : Total(versSim, X) \in Nat /\ Total(versClient, X) \in Nat
      /\ Invalides \in {0, 1} /\ Attend \in {0, 1} /\ parasites \in Nat
  BY EnVolTypes
<1>2. sim # "parti" /\ x = Head(versSim) /\ versSim # <<>> /\ versSim' = Tail(versSim)
  BY DEF Traite
<1> DEFINE t == Tail(versSim)
           d == Total(t, Bons)
           m == Total(t, Mauvais)
           v == Total(t, EnSim)
           k == Total(versClient, EnClient)
           f == Total(versClient, Refus)
           j == Total(versClient, Justes)
<1>3. t \in Seq(JetonsSim)
  BY <1>1, <1>2, HeadTailProperties
<1>4. d \in Nat /\ m \in Nat /\ v \in Nat /\ k \in Nat /\ f \in Nat /\ j \in Nat
  BY <1>1, <1>3, NbTypes
<1>5. \A X : Total(versSim, X) = Total(t, X) + Un(x, X)
  BY <1>1, <1>2, TotalSuite
<1>6. d + m <= v
  BY <1>3, EspecesDisjointes, NbReunion
<1>7. f + j <= k
  BY <1>1, EspecesDisjointes, NbReunion
<1>8. Un(x, EnSim) = 1
  <2>1. x \in EnSim
    BY Especes, EspecesDisjointes
  <2> QED
    BY <2>1 DEF Un
<1>9. k + (v + 1) + Invalides <= parasites + Attend
  <2>1. Total(versSim, EnSim) = v + 1
    BY <1>5, <1>8
  <2> QED
    BY <1>2, <2>1 DEF EnVol
<1>10. envoyees - n <= (m + f) + d
  <2>1. /\ envoyees - Derniere <= Refusees + Total(versSim, Bons)
        /\ Tardent(versSim, envoyees, Refusees)
    BY <1>2 DEF NonExecutees
  <2>2. Refusees = Total(versSim, Mauvais) + f
    BY DEF Refusees
  <2>3. CASE x \in Bons /\ n = x.c.n
    <3>1. envoyees - x.c.n <= Refusees + d
      BY <1>1, <1>2, <2>1, <2>3, OrdreSuite
    <3>2. Un(x, Mauvais) = 0
      BY <2>3, EspecesComptees
    <3>3. Total(versSim, Mauvais) = m
      BY <1>4, <1>5, <3>2
    <3> QED
      BY <2>2, <2>3, <3>1, <3>3
  <2>4. CASE x = Moins /\ n = Derniere
    <3>1. Un(x, Mauvais) = 0 /\ Un(x, Bons) = 0
      BY <2>4, EspecesComptees
    <3>2. Total(versSim, Mauvais) = m /\ Total(versSim, Bons) = d
      BY <1>4, <1>5, <3>1
    <3> QED
      BY <2>1, <2>2, <2>4, <3>2
  <2> QED
    BY <2>3, <2>4
<1> HIDE DEF t, d, m, v, k, f, j
<1>11. (envoyees - n) + (j + 1) <= parasites + Attend
  BY <1>1, <1>4, <1>6, <1>7, <1>9, <1>10
<1> QED
  BY <1>11 DEF j

\* The answer taken is that of a command sent.
LEMMA TeteAnnoncee ==
  ASSUME TypeOK, versClient # <<>>, Head(versClient) \in Justes
  PROVE  Head(versClient).n \in Nat /\ Head(versClient).n <= envoyees
<1>1. /\ versClient \in Seq(JetonsClient)
      /\ \A k \in DOMAIN versClient : versClient[k].t = "paquet" => versClient[k].n <= envoyees
  BY DEF TypeOK, Files
<1>2. 1 \in DOMAIN versClient /\ versClient[1] = Head(versClient) /\ Head(versClient) \in JetonsClient
  BY <1>1, HeadTailProperties, SuiteElements DEF Entame
<1>3. Head(versClient).t = "paquet" /\ Head(versClient).n \in Nat
  BY <1>2, EspecesClient
<1> QED
  BY <1>1, <1>2, <1>3

LEMMA UnDePlus ==
  ASSUME NEW a \in Nat, NEW u, u \in {0, 1}, NEW b, b = a + u, NEW c \in Nat
  PROVE  b \in Nat /\ c - c <= b - a
OBVIOUS

LEMMA RetardsInit == Init => Retards
<1> SUFFICES ASSUME Init PROVE Retards
  OBVIOUS
<1>1. versClient = <<>> /\ recues = {}
  BY DEF Init, InitLiaison
<1> QED
  BY <1>1 DEF Retards, Pressent

LEMMA RetardsNext ==
  ASSUME TypeOK, EnVol, NonExecutees, Gardee, Retards, [Next]_vars
  PROVE  Retards'
<1> DEFINE B == parasites + Attend
           Suffit(r) == r.n # EOF => r.n <= r.attend /\ r.attend - r.n <= parasites
<1>1. /\ versSim \in Seq(JetonsSim) /\ versClient \in Seq(JetonsClient) /\ envoyees \in Nat
      /\ Attend \in {0, 1} /\ parasites \in Nat /\ B \in Nat
  BY EnVolTypes
<1>2. Pressent(versClient, envoyees, B) /\ \A r \in recues : Suffit(r)
  BY DEF Retards
<1>3. recues' = recues /\ parasites' = parasites =>
        \A r \in recues' : r.n # EOF => r.n <= r.attend /\ r.attend - r.n <= parasites'
  BY <1>2
\* Nothing but a token that is no answer, or one more command, and the client
\* waiting or not.
<1>4. ASSUME recues' = recues, parasites' = parasites, Pressent(versClient', envoyees', B')
      PROVE  Retards'
  BY <1>3, <1>4 DEF Retards
<1> HIDE DEF Suffit
<1>5. CASE Muet
  <2>1. /\ versClient' = versClient /\ envoyees' = envoyees /\ parasites' = parasites
        /\ recues' = recues
    BY <1>5 DEF Muet
  <2>2. Attend' = Attend \/ Attend' = 1
    BY <1>5 DEF Attend, Muet
  <2>3. B' \in Nat /\ envoyees - envoyees <= B' - B
    BY <1>1, <2>1, <2>2
  <2> HIDE DEF B
  <2>4. Pressent(versClient, envoyees, B')
    BY <1>1, <1>2, <2>3, RetardPlus
  <2> QED
    BY <1>4, <2>1, <2>4
<1>6. CASE \E p : Envoi(p)
  <2>1. /\ versClient' = versClient /\ envoyees' = envoyees + 1 /\ parasites' = parasites
        /\ recues' = recues /\ Attend = 0 /\ Attend' = 1
    BY <1>6 DEF Envoi, Attend
  <2>2. B' \in Nat /\ envoyees' \in Nat /\ envoyees' - envoyees <= B' - B
    BY <1>1, <2>1
  <2> HIDE DEF B
  <2>3. Pressent(versClient, envoyees', B')
    BY <1>1, <1>2, <2>2, RetardPlus
  <2> QED
    BY <1>4, <2>1, <2>3
<1>7. ASSUME NEW x, Lecture(x), x \notin Justes, pc' = pc, recues' = recues, parasites' = parasites
      PROVE  Retards'
  <2>1. versClient # <<>> /\ x = Head(versClient) /\ versClient' = Tail(versClient) /\ envoyees' = envoyees
    BY <1>7 DEF Lecture
  <2>2. Attend' = Attend
    BY <1>7 DEF Attend
  <2>3. B' = B
    BY <1>7, <2>2
  <2>4. Un(x, Justes) = 0
    BY <1>7 DEF Un
  <2> HIDE DEF B
  <2>5. Pressent(Tail(versClient), envoyees, B - Un(Head(versClient), Justes))
    BY <1>1, <1>2, <2>1, RetardSuite
  <2>6. B - Un(Head(versClient), Justes) = B
    BY <1>1, <2>1, <2>4
  <2> QED
    BY <1>4, <1>7, <2>1, <2>3, <2>5, <2>6
<1>8. CASE Accuse \/ Renvoie \/ Ajoute
  <2>1. /\ \E x \in {Plus, Moins, Parasite} : Lecture(x)
        /\ pc' = pc /\ recues' = recues /\ parasites' = parasites
    BY <1>8 DEF Accuse, Renvoie, Ajoute, Lecture
  <2> QED
    BY <1>7, <2>1, Especes
<1>9. CASE \E x \in JetonsClient : Ecarte(x)
  BY <1>7, <1>9 DEF Ecarte, Lecture
<1>10. CASE \E x \in JetonsClient : Prend(x)
  <2>1. PICK x \in JetonsClient : Prend(x)
    BY <1>10
  <2>2. /\ versClient # <<>> /\ x = Head(versClient) /\ versClient' = Tail(versClient)
        /\ envoyees' = envoyees /\ parasites' = parasites /\ x \in Justes
        /\ recues' = recues \cup {[attend |-> envoyees, n |-> x.n]} /\ pc = "attente"
    BY <2>1 DEF Prend, Lecture
  <2>3. Attend = 1 /\ Attend' \in {0, 1} /\ Un(x, Justes) = 1
    BY <2>2 DEF Attend, Un
  <2>4. B' \in Nat /\ B - 1 \in Nat /\ envoyees - envoyees <= B' - (B - 1) /\ B = parasites + 1
    <3>1. B = parasites + 1 /\ B - 1 = parasites /\ B - 1 \in Nat
      BY <1>1, <2>3
    <3>2. B' = parasites + Attend' /\ Attend' \in {0, 1}
      BY <2>2, <2>3
    <3>3. parasites \in Nat /\ envoyees \in Nat
      BY <1>1
    <3> HIDE DEF B
    <3>4. B' \in Nat /\ envoyees - envoyees <= B' - parasites
      BY <3>2, <3>3, UnDePlus
    <3> QED
      BY <3>1, <3>4
  <2>5. x.n \in Nat /\ x.n <= envoyees
    BY <1>1, <2>2, TeteAnnoncee
  <2> HIDE DEF B
  <2>6. /\ Pressent(Tail(versClient), envoyees, B - Un(x, Justes))
        /\ (envoyees - x.n) + 1 <= B
    BY <1>1, <1>2, <2>2, RetardSuite
  <2>7. Tail(versClient) \in Seq(JetonsClient) /\ B - Un(x, Justes) = B - 1
    BY <1>1, <2>2, <2>3, HeadTailProperties
  <2>8. Pressent(Tail(versClient), envoyees, B')
    BY <1>1, <2>4, <2>6, <2>7, RetardPlus
  <2>9. envoyees - x.n <= parasites
    BY <1>1, <2>4, <2>5, <2>6
  <2>10. ASSUME NEW r \in recues', r.n # EOF
         PROVE  r.n <= r.attend /\ r.attend - r.n <= parasites'
    BY <1>2, <2>2, <2>5, <2>9, <2>10 DEF Suffit
  <2> QED
    BY <2>2, <2>8, <2>10 DEF Retards, B
<1>11. CASE Raccroche
  <2>1. /\ versClient' = versClient /\ versClient = <<>> /\ envoyees' = envoyees
        /\ parasites' = parasites
        /\ recues' = recues \cup {[attend |-> envoyees, n |-> EOF]}
    BY <1>11 DEF Raccroche
  <2>2. Pressent(versClient', envoyees', B')
    BY <2>1 DEF Pressent
  <2>3. ASSUME NEW r \in recues', r.n # EOF
        PROVE  r.n <= r.attend /\ r.attend - r.n <= parasites'
    BY <1>2, <2>1, <2>3 DEF Suffit
  <2> QED
    BY <2>2, <2>3 DEF Retards
<1>12. ASSUME NEW x, Traite(x) PROVE recues' = recues /\ parasites' = parasites /\ envoyees' = envoyees /\ B' = B
  BY <1>12 DEF Traite, Attend
<1>13. CASE Ignore
  BY <1>2, <1>4, <1>12, <1>13 DEF Ignore
<1>14. ASSUME NEW x, Traite(x), NEW y \in JetonsClient, versClient' = Append(versClient, y),
              y \in Justes => (envoyees - y.n) + (Total(versClient, Justes) + 1) <= B
       PROVE  Retards'
  <2> HIDE DEF B
  <2>1. Pressent(Append(versClient, y), envoyees, B)
    BY <1>1, <1>2, <1>14, RetardAjoute
  <2> QED
    BY <1>4, <1>12, <1>14, <2>1 DEF B
<1>15. CASE Repete
  <2>1. /\ Traite(Moins) /\ sim = "pret"
        /\ versClient' = IF reponse = <<>> THEN versClient ELSE Append(versClient, reponse)
    BY <1>15 DEF Repete, Traite
  <2>2. CASE reponse = <<>>
    BY <1>2, <1>4, <1>12, <2>1, <2>2
  <2>3. CASE reponse # <<>>
    <3>1. reponse \in JetonsClient
      BY <2>3, ReponseJuste
    <3>2. reponse.n = Derniere /\ Derniere \in Nat
      BY <2>1, <2>3, DerniereType DEF Gardee
    <3>3. (envoyees - reponse.n) + (Total(versClient, Justes) + 1) <= B
      BY <2>1, <3>2, ReponseATemps
    <3> QED
      BY <1>14, <2>1, <2>3, <3>1, <3>3
  <2> QED
    BY <2>2, <2>3
<1>16. CASE \E x \in JetonsSim : Rejette(x)
  <2>1. PICK x \in JetonsSim : Traite(x) /\ versClient' = Append(versClient, Moins)
    BY <1>16 DEF Rejette
  <2> QED
    BY <1>14, <2>1, Especes
<1>17. CASE \E x \in JetonsSim : Execute(x)
  <2>1. PICK x \in JetonsSim : Execute(x)
    BY <1>17
  <2>2. Traite(x) /\ x \in Bons
    BY <2>1 DEF Execute
  <2>3. CASE versClient' = Append(versClient, Plus)
    BY <1>14, <2>2, <2>3, Especes
  <2>4. CASE versClient' = Append(Append(versClient, Plus), Reponse(x.c.n))
    <3> DEFINE s == Append(versClient, Plus)
               y == Reponse(x.c.n)
    <3>1. y \in JetonsClient /\ y.n = x.c.n /\ x.c.n \in Nat
      BY <2>2, ReponseExecutee, NumeroType
    <3>2. (envoyees - x.c.n) + (Total(versClient, Justes) + 1) <= B
      BY <2>2, <3>1, ReponseATemps
    <3>3. s \in Seq(JetonsClient) /\ Total(s, Justes) = Total(versClient, Justes) + 0
      BY <1>1, Especes, EspecesComptees, AppendProperties, TotalAjout
    <3>4. Total(versClient, Justes) \in Nat
      BY EnVolTypes
    <3>5. (envoyees - y.n) + (Total(s, Justes) + 1) <= B
      BY <3>1, <3>2, <3>3, <3>4
    <3>6. versClient' = Append(s, y)
      BY <2>4
    <3> HIDE DEF B, y
    <3>7. Pressent(s, envoyees, B)
      BY <1>1, <1>2, Especes, RetardAjoute
    <3> HIDE DEF s
    <3>8. Pressent(Append(s, y), envoyees, B)
      BY <1>1, <3>1, <3>3, <3>5, <3>7, RetardAjoute
    <3> QED
      BY <1>4, <1>12, <2>2, <3>6, <3>8 DEF B
  <2> QED
    BY <2>1, <2>3, <2>4 DEF Execute
<1>18. CASE Souffle
  <2>1. /\ versClient' = Append(versClient, Parasite) /\ parasites' = parasites + 1
        /\ pc' = pc /\ recues' = recues /\ envoyees' = envoyees
    BY <1>18 DEF Souffle, Bruite
  <2>2. Attend' = Attend
    BY <2>1 DEF Attend
  <2>3. B' \in Nat /\ envoyees - envoyees <= B' - B
    BY <1>1, <2>1, <2>2
  <2>4. \A r \in recues : r \in recues' =>
             (r.n # EOF => r.n <= r.attend /\ r.attend - r.n <= parasites')
    <3>1. recues \subseteq [attend : Nat, n : Nat \cup {EOF}] /\ EOF \in Int
      BY DEF TypeOK, EOF
    <3>2. ASSUME NEW r \in recues, r.n # EOF
          PROVE  r.n <= r.attend /\ r.attend - r.n <= parasites'
      <4>1. r.n \in Nat /\ r.attend \in Nat
        BY <3>1, <3>2
      <4>2. r.n <= r.attend /\ r.attend - r.n <= parasites
        BY <1>2, <3>2 DEF Suffit
      <4> QED
        BY <1>1, <2>1, <4>1, <4>2
    <3> QED
      BY <3>2
  <2> HIDE DEF B
  <2>5. Parasite \in JetonsClient /\ Parasite \notin Justes
    BY Especes
  <2>6. Pressent(versClient, envoyees, B')
    BY <1>1, <1>2, <2>3, RetardPlus
  <2>7. Pressent(Append(versClient, Parasite), envoyees, B')
    BY <1>1, <2>3, <2>5, <2>6, RetardAjoute
  <2> QED
    BY <2>1, <2>4, <2>7 DEF Retards, B
<1>19. CASE \E q, y : Abime(q, y)
  <2>1. /\ versClient' = versClient /\ parasites' = parasites
        /\ pc' = pc /\ recues' = recues /\ envoyees' = envoyees
    BY <1>19 DEF Abime, Bruite
  <2>2. B' = B
    BY <2>1 DEF Attend
  <2> QED
    BY <1>2, <1>4, <2>1, <2>2
<1>20. CASE \E q, y : Perd(q, y)
  <2>1. PICK q, y : Perd(q, y)
    BY <1>20
  <2>2. /\ q \in DOMAIN versClient /\ versClient[q] \in Justes /\ y \in JetonsClient
        /\ y \notin Justes /\ versClient' = [versClient EXCEPT ![q] = y]
        /\ parasites' = parasites /\ pc' = pc /\ recues' = recues /\ envoyees' = envoyees
    BY <2>1 DEF Perd, Bruite
  <2>3. B' = B
    BY <2>2 DEF Attend
  <2> HIDE DEF B
  <2>4. Pressent([versClient EXCEPT ![q] = y], envoyees, B)
    <3>1. /\ q \in DOMAIN versClient /\ versClient[q] \in Justes /\ y \in JetonsClient
          /\ y \notin Justes
      BY <2>2
    <3> QED
      BY <1>1, <1>2, <3>1, RetardRemplace
  <2> QED
    BY <1>4, <2>2, <2>3, <2>4
<1> QED
  BY <1>5, <1>6, <1>8, <1>9, <1>10, <1>11, <1>13, <1>15, <1>16, <1>17, <1>18, <1>19, <1>20,
     TousLesPas

Dettes == EnVol /\ NonExecutees /\ Gardee /\ Retards

LEMMA DettesNext ==
  ASSUME TypeOK, Dettes, [Next]_vars
  PROVE  Dettes'
BY EnVolNext, NonExecuteesNext, GardeeNext, RetardsNext DEF Dettes

\* The answer taken for that of a command answers one sent before, later by no
\* more commands than there were characters added by the noise: every answer
\* sent once too often was paid for by one of them (scanner.l:42-50, 69-75).
THEOREM RetardsBornes == Spec => []RetardBorne
<1>1. Init => TypeOK /\ Dettes
  BY TypageInit, EnVolInit, NonExecuteesInit, RetardsInit DEF Dettes
<1>2. TypeOK /\ Dettes /\ [Next]_vars => (TypeOK /\ Dettes)'
  BY TypageNext, DettesNext
<1>3. TypeOK /\ Dettes => RetardBorne
  BY DEF Dettes, Retards, RetardBorne
<1> QED
  BY <1>1, <1>2, <1>3, PTL DEF Spec

-----------------------------------------------------------------------------
(* The order of the commands.                                                *)

\* What waits to be executed or sent again was paid for.
LEMMA DettesBornees ==
  ASSUME TypeOK, EnVol, sim # "parti"
  PROVE  Refusees + Total(versSim, Bons) <= parasites + Attend
<1>1. /\ versSim \in Seq(JetonsSim) /\ versClient \in Seq(JetonsClient)
      /\ Invalides \in {0, 1} /\ Attend \in {0, 1} /\ parasites \in Nat
  BY EnVolTypes
<1> DEFINE b == Total(versSim, Bons)
           m == Total(versSim, Mauvais)
           v == Total(versSim, EnSim)
           k == Total(versClient, EnClient)
           f == Total(versClient, Refus)
           j == Total(versClient, Justes)
<1>2. b \in Nat /\ m \in Nat /\ v \in Nat /\ k \in Nat /\ f \in Nat /\ j \in Nat
  BY <1>1, NbTypes
<1>3. b + m <= v
  BY <1>1, EspecesDisjointes, NbReunion
<1>4. f + j <= k
  BY <1>1, EspecesDisjointes, NbReunion
<1>5. k + v + Invalides <= parasites + Attend
  BY DEF EnVol
<1>6. Refusees = m + f
  BY DEF Refusees
<1> HIDE DEF b, m, v, k, f, j
<1>7. Refusees + b <= parasites + Attend
  BY <1>1, <1>2, <1>3, <1>4, <1>5, <1>6
<1> QED
  BY <1>7 DEF b

LEMMA PaquetPresent ==
  ASSUME TypeOK, pc = "attente"
  PROVE  packet # <<>>
BY TypesParParts DEF Gardes

LEMMA OriginesInit == Init => Origines
<1> SUFFICES ASSUME Init PROVE Origines
  OBVIOUS
<1>1. versSim = <<>> /\ versClient = <<>> /\ packet = <<>>
  BY DEF Init, InitLiaison
<1>2. \A X : Total(<<>>, X) = 0
  <2> TAKE X
  <2>1. Len(<<>>) = 0 /\ \A p \in 1 .. 0 : <<>>[p] \notin X
    OBVIOUS
  <2> QED
    BY <2>1, NbDansNul DEF Total
<1>3. Refusees = 0
  BY <1>1, <1>2 DEF Refusees
<1> QED
  BY <1>1, <1>3 DEF Origines

LEMMA OriginesNext ==
  ASSUME TypeOK, Origines, [Next]_vars
  PROVE  Origines'
<1>1. abimes \in Nat /\ Refusees \in Nat
  BY RefuseesType DEF TypeOK
<1>2. /\ ~deborde => (packet # <<>> => packet.ok = TRUE)
      /\ (sim # "parti" /\ abimes = 0 /\ ~deborde) => Refusees = 0
  BY DEF Origines
<1>3. ASSUME packet' = packet, ~deborde' => ~deborde
      PROVE  ~deborde' => (packet' # <<>> => packet'.ok = TRUE)
  BY <1>2, <1>3
<1>4. CASE Calme
  <2>1. /\ packet' = packet /\ (~deborde' => ~deborde) /\ Refusees' = Refusees
        /\ abimes <= abimes' /\ (sim' # "parti" => sim # "parti")
    BY <1>4 DEF Calme
  <2>2. abimes' = 0 => abimes = 0
    BY <1>1, <2>1
  <2> QED
    BY <1>2, <1>3, <2>1, <2>2 DEF Origines
<1>5. CASE Raccroche
  BY <1>3, <1>5 DEF Raccroche, Origines
<1>6. CASE Renvoie
  <2>1. /\ packet' = packet /\ (~deborde' => ~deborde) /\ sim' = sim /\ abimes' = abimes
        /\ pc = "attente"
    BY <1>6 DEF Renvoie, Lecture
  <2>2. ~(sim' # "parti" /\ abimes' = 0 /\ ~deborde')
    <3> SUFFICES ASSUME sim' # "parti", abimes' = 0, ~deborde' PROVE FALSE
      OBVIOUS
    <3>1. Refusees = 0 /\ packet.ok = TRUE
      BY <1>2, <2>1, PaquetPresent
    <3>2. Refusees' = Refusees - 1 /\ Refusees' \in Nat
      BY <1>6, <3>1, RefuseesRenvoie
    <3>3. \A u, w \in Nat : ~(u = 0 /\ w = u - 1)
      OBVIOUS
    <3> QED
      BY <1>1, <3>1, <3>2, <3>3, Zenon
  <2> QED
    BY <1>3, <2>1, <2>2 DEF Origines
<1>7. CASE \E p : Envoi(p)
  <2>1. PICK p : Envoi(p)
    BY <1>7
  <2>2. /\ packet' = p /\ (~deborde' => ~deborde /\ p.ok = TRUE) /\ sim' = sim
        /\ abimes' = abimes
    BY <2>1 DEF Envoi
  <2>3. p.ok = TRUE => Refusees' = Refusees
    BY <2>1, RefuseesEnvoi
  <2> QED
    BY <1>2, <2>2, <2>3 DEF Origines
<1>8. CASE \E x : Execute(x)
  <2>1. PICK x : Execute(x)
    BY <1>8
  <2>2. packet' = packet /\ deborde' = deborde /\ sim = "pret" /\ abimes' = abimes
    BY <2>1 DEF Execute, Traite
  <2>3. Refusees' = Refusees
    BY <2>1, ExecuteRefusees
  <2> QED
    BY <1>2, <2>2, <2>3 DEF Origines
<1>9. CASE \E q, y : Abime(q, y)
  <2>1. packet' = packet /\ deborde' = deborde /\ abimes' = abimes + 1
    BY <1>9 DEF Abime, Bruite
  <2>2. abimes' # 0
    BY <1>1, <2>1
  <2> QED
    BY <1>3, <2>1, <2>2 DEF Origines
<1> QED
  BY <1>4, <1>5, <1>6, <1>7, <1>8, <1>9, Mouvements

LEMMA EnOrdreInit == Init => EnOrdre
<1> SUFFICES ASSUME Init PROVE EnOrdre
  OBVIOUS
<1>1. versSim = <<>> /\ versClient = <<>> /\ envoyees = 0 /\ executees = <<>>
  BY DEF Init, InitLiaison
<1>2. \A X : Total(<<>>, X) = 0
  <2> TAKE X
  <2>1. Len(<<>>) = 0 /\ \A p \in 1 .. 0 : <<>>[p] \notin X
    OBVIOUS
  <2> QED
    BY <2>1, NbDansNul DEF Total
<1>3. Refusees = 0 /\ Total(versSim, Bons) = 0
  BY <1>1, <1>2 DEF Refusees
<1>4. Suivent(versSim, envoyees, Refusees)
  BY <1>1 DEF Suivent
<1>5. executees = [k \in 1 .. Len(executees) |-> k] /\ Len(executees) = 0
  BY <1>1
<1> QED
  BY <1>1, <1>3, <1>4, <1>5 DEF EnOrdre

\* The commands executed in order, and one more.
LEMMA Suivante ==
  ASSUME NEW s \in Seq(Nat), s = [k \in 1 .. Len(s) |-> k], NEW x, x = Len(s) + 1
  PROVE  Append(s, x) = [k \in 1 .. Len(Append(s, x)) |-> k] /\ Len(Append(s, x)) = Len(s) + 1
<1> DEFINE t == Append(s, x)
           g == [k \in 1 .. Len(t) |-> k]
<1>1. Len(s) \in Nat /\ x \in Nat
  BY LenProperties
<1>2. t \in Seq(Nat) /\ Len(t) = Len(s) + 1
  BY <1>1, AppendProperties
<1>3. \A k \in 1 .. Len(s) : t[k] = s[k]
  BY <1>1, AppendProperties
<1>4. t[Len(s) + 1] = x
  BY <1>1, AppendProperties
<1>5. \A k \in 1 .. Len(t) : t[k] = k
  <2> SUFFICES ASSUME NEW k \in 1 .. Len(s) + 1 PROVE t[k] = k
    BY <1>2
  <2>1. CASE k \in 1 .. Len(s)
    BY <1>3, <2>1
  <2>2. CASE k = Len(s) + 1
    BY <1>4, <2>2
  <2> QED
    BY <1>1, <2>1, <2>2
<1>6. DOMAIN t = 1 .. Len(t)
  BY <1>2, LenProperties
<1>7. t = [k \in DOMAIN t |-> t[k]]
  <2> HIDE DEF t
  <2> QED
    BY <1>2, LenProperties
<1> HIDE DEF t
<1>8. t = g
  BY <1>5, <1>6, <1>7
<1> QED
  BY <1>2, <1>8 DEF t

\* Under one kind of noise, at most the command that waits is to be sent again.
LEMMA PeuDeRefus ==
  ASSUME TypeOK, EnVol, Origines, Fidele
  PROVE  Refusees <= Attend
<1>1. Refusees \in Nat /\ Total(versSim, Bons) \in Nat /\ Attend \in {0, 1} /\ parasites \in Nat
  BY RefuseesType, EnVolTypes
<1>2. CASE abimes = 0
  <2>1. Refusees = 0
    BY <1>2 DEF Origines, Fidele
  <2> QED
    BY <1>1, <2>1
<1>3. CASE parasites = 0
  <2>1. Refusees + Total(versSim, Bons) <= parasites + Attend
    BY DettesBornees DEF Fidele
  <2> QED
    BY <1>1, <1>3, <2>1
<1> QED
  BY <1>2, <1>3 DEF Fidele, UnSeulBruit

LEMMA EnOrdreNext ==
  ASSUME TypeOK, EnVol, Origines, EnOrdre, [Next]_vars
  PROVE  EnOrdre'
<1> DEFINE r == Refusees
           b == Total(versSim, Bons)
           Rang(s) == s = [k \in 1 .. Len(s) |-> k]
<1> SUFFICES ASSUME Fidele'
             PROVE  /\ Rang(executees')
                    /\ envoyees' - Len(executees') = Refusees' + Total(versSim', Bons)
                    /\ Suivent(versSim', envoyees', Refusees')
  BY DEF EnOrdre
<1>1. /\ versSim \in Seq(JetonsSim) /\ envoyees \in Nat
      /\ abimes \in Nat /\ parasites \in Nat /\ Attend \in {0, 1}
  BY EnVolTypes DEF TypeOK
<1>2. r \in Nat /\ b \in Nat
  BY RefuseesType
<1>3. executees \in Seq(Nat) /\ Len(executees) \in Nat
  <2>1. executees \in Seq(1 .. envoyees) /\ 1 .. envoyees \subseteq Nat
    BY DEF TypeOK
  <2>2. executees \in Seq(Nat)
    BY <2>1, SuiteElargie
  <2> QED
    BY <2>2, LenProperties
<1>4. ASSUME Fidele
      PROVE  /\ Rang(executees) /\ envoyees - Len(executees) = r + b
             /\ Suivent(versSim, envoyees, r)
  BY <1>4 DEF EnOrdre
<1>5. sim' # "parti" /\ UnSeulBruit' /\ ~deborde'
  BY DEF Fidele
<1> HIDE DEF r, b, Rang
<1>6. ASSUME sim # "parti", ~deborde, abimes <= abimes', parasites <= parasites',
             abimes' \in Nat, parasites' \in Nat
      PROVE  Fidele
  <2>1. (abimes' = 0 => abimes = 0) /\ (parasites' = 0 => parasites = 0)
    BY <1>1, <1>6
  <2> QED
    BY <1>5, <1>6, <2>1 DEF Fidele, UnSeulBruit
<1>7. ASSUME sim' # "parti" => sim # "parti", ~deborde' => ~deborde,
             abimes' = abimes, parasites' = parasites
      PROVE  Fidele
  BY <1>5, <1>7 DEF Fidele, UnSeulBruit
<1>8. CASE Calme
  <2>1. /\ executees' = executees /\ envoyees' = envoyees /\ sim # "parti" /\ ~deborde
        /\ Refusees' = r /\ Total(versSim', Bons) = b
        /\ abimes <= abimes' /\ parasites <= parasites'
    BY <1>5, <1>8 DEF Calme, r, b
  <2>2. abimes' \in Nat /\ parasites' \in Nat
    BY TypageNext DEF TypeOK
  <2>3. Fidele
    BY <1>6, <2>1, <2>2
  <2>4. Suivent(versSim', envoyees, r)
    BY <1>1, <1>2, <1>4, <1>8, <2>3 DEF Calme
  <2> QED
    BY <1>4, <2>1, <2>3, <2>4
<1>9. CASE Raccroche
  BY <1>5, <1>9 DEF Raccroche
<1>10. CASE \E p : Envoi(p)
  <2>1. PICK p : Envoi(p)
    BY <1>10
  <2>2. /\ p.c.n = envoyees + 1 /\ envoyees' = envoyees + 1 /\ p.ok = TRUE
        /\ versSim' = Append(versSim, p) /\ executees' = executees
        /\ sim' = sim /\ abimes' = abimes /\ parasites' = parasites /\ ~deborde /\ pc = "pret"
    BY <1>5, <2>1 DEF Envoi
  <2>3. p \in JetonsSim /\ p \in Bons
    BY <2>1, <2>2, RefuseesEnvoi
  <2>4. Fidele
    BY <1>7, <2>2
  <2>5. r = 0
    <3>1. Refusees <= Attend /\ Attend = 0
      BY <2>2, <2>4, PeuDeRefus DEF Attend
    <3> QED
      BY <1>2, <3>1 DEF r
  <2>6. Refusees' = r /\ Total(versSim', Bons) = b + 1
    BY <2>1, <2>3, RefuseesEnvoi DEF r, b
  <2>7. envoyees + 1 \in Nat /\ (envoyees + 1) - envoyees = (1 + r) - r
    BY <1>1, <1>2
  <2>8. Suivent(Append(versSim, p), envoyees + 1, r)
    BY <1>1, <1>2, <1>4, <2>2, <2>3, <2>4, <2>5, <2>7, OrdreAjoute
  <2>9. (envoyees + 1) - Len(executees) = r + (b + 1)
    BY <1>1, <1>2, <1>3, <1>4, <2>4
  <2> QED
    BY <1>4, <2>2, <2>4, <2>6, <2>8, <2>9
<1>11. CASE Renvoie
  <2>1. /\ packet' = packet /\ sim' = sim /\ abimes' = abimes /\ parasites' = parasites
        /\ deborde' = deborde /\ pc = "attente" /\ executees' = executees
        /\ envoyees' = envoyees
    BY <1>11 DEF Renvoie, Lecture
  <2>2. Fidele
    BY <1>7, <2>1
  <2>3. packet.ok = TRUE
    BY <2>1, <2>2, PaquetPresent DEF Origines, Fidele
  <2>4. /\ packet \in JetonsSim /\ packet.c.n = envoyees /\ packet \in Bons
        /\ Refusees' \in Nat /\ versSim' = Append(Refuse, packet)
        /\ Refusees' = r - 1 /\ Total(versSim', Bons) = b + 1
    BY <1>11, <2>3, RefuseesRenvoie DEF r, b
  <2>5. r = 1
    <3>1. Refusees <= Attend
      BY <2>2, PeuDeRefus
    <3>2. r - 1 \in Nat
      BY <2>4
    <3> QED
      BY <1>1, <1>2, <3>1, <3>2 DEF r
  <2>6. Suivent(Refuse, envoyees, r) /\ Refuse \in Seq(JetonsSim)
    BY <1>1, <1>2, <1>4, <2>2, OrdreRefuse, RefuseDeplie
  <2>7. r - 1 = 0 /\ r - 1 \in Nat /\ envoyees - envoyees = (1 + (r - 1)) - r
    BY <1>1, <2>5
  <2>8. Suivent(Append(Refuse, packet), envoyees, r - 1)
    BY <1>1, <1>2, <2>4, <2>6, <2>7, OrdreAjoute
  <2>9. envoyees - Len(executees) = (r - 1) + (b + 1)
    BY <1>1, <1>2, <1>3, <1>4, <2>2
  <2> QED
    BY <1>4, <2>1, <2>2, <2>4, <2>8, <2>9
<1>12. CASE \E x : Execute(x)
  <2>1. PICK x : Execute(x)
    BY <1>12
  <2>2. /\ x \in Bons /\ sim = "pret" /\ versSim # <<>> /\ x = Head(versSim) /\ Traite(x)
        /\ versSim' = Tail(versSim) /\ envoyees' = envoyees /\ deborde' = deborde
        /\ abimes' = abimes /\ parasites' = parasites /\ executees' = Append(executees, x.c.n)
    BY <2>1 DEF Execute, Traite
  <2>3. Fidele
    BY <1>7, <2>2
  <2>4. Refusees' = r
    BY <2>1, ExecuteRefusees DEF r
  <2>5. b = Total(versSim', Bons) + 1 /\ Total(versSim', Bons) \in Nat
    <3>1. /\ Total(versSim', Bons) \in Nat
          /\ Total(versSim, Bons) = Total(versSim', Bons) + Un(x, Bons)
      BY <1>1, <2>2, TotalTraite
    <3> QED
      BY <2>2, <3>1, EspecesComptees DEF b
  <2>6. /\ Suivent(Tail(versSim), envoyees, r)
        /\ envoyees - x.c.n = r + Total(Tail(versSim), Bons)
    BY <1>1, <1>4, <2>2, <2>3, OrdreSuite
  <2>7. x.c.n = Len(executees) + 1
    <3>1. x.c.n \in Nat
      BY <2>2, NumeroType
    <3>2. envoyees - Len(executees) = r + b
      BY <1>4, <2>3
    <3> DEFINE d == Total(versSim', Bons)
    <3>3. envoyees - x.c.n = r + d /\ b = d + 1 /\ d \in Nat
      BY <2>2, <2>5, <2>6
    <3> HIDE DEF d
    <3> QED
      BY <1>1, <1>2, <1>3, <3>1, <3>2, <3>3
  <2>8. Rang(Append(executees, x.c.n)) /\ Len(Append(executees, x.c.n)) = Len(executees) + 1
    BY <1>3, <1>4, <2>3, <2>7, Suivante DEF Rang
  <2>9. envoyees - (Len(executees) + 1) = r + Total(versSim', Bons)
    <3>1. envoyees - Len(executees) = r + b
      BY <1>4, <2>3
    <3> QED
      BY <1>1, <1>2, <1>3, <2>5, <3>1
  <2> QED
    BY <2>2, <2>4, <2>6, <2>8, <2>9
<1>13. CASE \E q, y : Abime(q, y)
  <2>1. PICK q, y : Abime(q, y)
    BY <1>13
  <2>2. /\ sim' = sim /\ executees' = executees /\ envoyees' = envoyees /\ deborde' = deborde
        /\ abimes' = abimes + 1 /\ parasites' = parasites
    BY <2>1 DEF Abime, Bruite
  <2>3. parasites = 0 /\ Fidele
    BY <1>1, <1>5, <2>2 DEF UnSeulBruit, Fidele
  <2>4. /\ Refusees' = r + 1 /\ Total(versSim', Bons) \in Nat
        /\ Total(versSim', Bons) + 1 = b
    BY <2>1, RefuseesBruit DEF r, b
  <2>5. r + b <= 0 + Attend
    BY <2>3, DettesBornees DEF Fidele, r, b
  <2>6. Total(versSim', Bons) = 0
    <3> DEFINE d == Total(versSim', Bons)
    <3>1. d \in Nat /\ d + 1 = b
      BY <2>4
    <3> HIDE DEF d
    <3>2. d = 0
      BY <1>1, <1>2, <2>5, <3>1
    <3> QED
      BY <3>2 DEF d
  <2>7. versSim' \in Seq(JetonsSim)
    BY TypageNext, EnVolTypes DEF TypeOK, Files
  <2>8. Suivent(versSim', envoyees, r + 1)
    BY <2>6, <2>7, NbNul DEF Suivent
  <2>9. envoyees - Len(executees) = (r + 1) + Total(versSim', Bons)
    <3>1. envoyees - Len(executees) = r + b
      BY <1>4, <2>3
    <3> QED
      BY <1>2, <2>4, <3>1
  <2> QED
    BY <1>4, <2>2, <2>3, <2>4, <2>8, <2>9
<1> QED
  BY <1>8, <1>9, <1>10, <1>11, <1>12, <1>13, Mouvements

Ordre == EnVol /\ Origines /\ EnOrdre

\* What a step does to the commands.
LEMMA PasFidele ==
  ASSUME TypeOK, Ordre, [Next]_vars
  PROVE  [UnSeulBruit' /\ ~deborde' => C!Next]_(C!vars)
<1>1. /\ envoyees \in Nat /\ parasites \in Nat /\ Attend \in {0, 1} /\ abimes \in Nat
      /\ Refusees \in Nat /\ Total(versSim, Bons) \in Nat
  BY EnVolTypes, RefuseesType DEF TypeOK
<1>2. Len(executees) \in Nat
  BY LenProperties DEF TypeOK
<1> SUFFICES ASSUME UnSeulBruit', ~deborde'
             PROVE  C!Next \/ UNCHANGED C!vars
  OBVIOUS
<1>3. ASSUME executees' = executees, envoyees' = envoyees, parasites' = parasites, sim' = sim
      PROVE  UNCHANGED C!vars
  BY <1>3 DEF C!vars
<1>4. CASE Calme
  <2>1. /\ executees' = executees /\ envoyees' = envoyees
        /\ \/ parasites' = parasites /\ sim' \in {sim, "parti"}
           \/ parasites' = parasites + 1 /\ sim' = sim
    BY <1>4 DEF Calme
  <2>2. CASE parasites' = parasites /\ sim' = sim
    BY <1>3, <2>1, <2>2
  <2>3. CASE parasites' = parasites /\ sim' = "parti" /\ sim # "parti"
    BY <2>1, <2>3, Zenon DEF C!Next, C!Partir
  <2>4. CASE parasites' = parasites + 1 /\ sim' = sim
    <3>1. parasites' > parasites
      BY <1>1, <2>4
    <3> QED
      BY <2>1, <2>4, <3>1, Zenon DEF C!Next, C!Perturber
  <2> QED
    BY <2>1, <2>2, <2>3, <2>4
<1>5. CASE Raccroche
  BY <1>3, <1>5 DEF Raccroche
<1>6. CASE Renvoie
  <2>1. executees' = executees /\ envoyees' = envoyees /\ parasites' = parasites /\ sim' = sim
    BY <1>6 DEF Renvoie, Lecture
  <2> QED
    BY <1>3, <2>1
<1>7. CASE \E q, y : Abime(q, y)
  <2>1. executees' = executees /\ envoyees' = envoyees /\ parasites' = parasites /\ sim' = sim
    BY <1>7 DEF Abime, Bruite
  <2> QED
    BY <1>3, <2>1
<1>8. ASSUME sim # "parti", abimes' = abimes, parasites' = parasites, ~deborde
      PROVE  /\ executees = [k \in 1 .. Len(executees) |-> k]
             /\ envoyees - Len(executees) = Refusees + Total(versSim, Bons)
             /\ Suivent(versSim, envoyees, Refusees)
  <2>1. UnSeulBruit
    BY <1>8 DEF UnSeulBruit
  <2> QED
    BY <1>8, <2>1 DEF Ordre, EnOrdre, Fidele
<1>9. CASE \E p : Envoi(p)
  <2>1. PICK p : Envoi(p)
    BY <1>9
  <2>2. /\ envoyees' = envoyees + 1 /\ executees' = executees /\ sim' = sim
        /\ abimes' = abimes /\ parasites' = parasites /\ ~deborde /\ pc = "pret"
    BY <2>1 DEF Envoi
  <2>3. sim = "parti" \/ envoyees <= Len(executees) + parasites
    <3> SUFFICES ASSUME sim # "parti" PROVE envoyees <= Len(executees) + parasites
      OBVIOUS
    <3>1. Refusees + Total(versSim, Bons) <= parasites + 0
      BY <2>2, DettesBornees DEF Ordre, Attend
    <3>2. envoyees - Len(executees) = Refusees + Total(versSim, Bons)
      BY <1>8, <2>2
    <3> QED
      BY <1>1, <1>2, <3>1, <3>2
  <2> QED
    BY <2>2, <2>3, Zenon DEF C!Next, C!Envoyer
<1>10. CASE \E x : Execute(x)
  <2>1. PICK x : Execute(x)
    BY <1>10
  <2>2. /\ x \in Bons /\ sim = "pret" /\ versSim # <<>> /\ x = Head(versSim) /\ Traite(x)
        /\ envoyees' = envoyees /\ deborde' = deborde /\ versSim' = Tail(versSim)
        /\ abimes' = abimes /\ parasites' = parasites /\ executees' = Append(executees, x.c.n)
    BY <2>1 DEF Execute, Traite
  <2>3. sim # "parti" /\ sim' # "parti"
    BY <2>1, <2>2 DEF Execute
  <2>4. /\ envoyees - Len(executees) = Refusees + Total(versSim, Bons)
        /\ Suivent(versSim, envoyees, Refusees)
    BY <1>8, <2>2, <2>3
  <2> DEFINE d == Total(Tail(versSim), Bons)
  <2>5. versSim \in Seq(JetonsSim)
    BY EnVolTypes
  <2>6. envoyees - x.c.n = Refusees + d
    BY <2>2, <2>4, <2>5, OrdreSuite
  <2>7. Total(versSim, Bons) = d + 1 /\ d \in Nat
    <3>1. /\ Total(versSim', Bons) \in Nat
          /\ Total(versSim, Bons) = Total(versSim', Bons) + Un(x, Bons)
      BY <2>2, <2>5, TotalTraite
    <3> QED
      BY <2>2, <3>1, EspecesComptees
  <2> HIDE DEF d
  <2>8. x.c.n = Len(executees) + 1 /\ Len(executees) < envoyees
    <3>1. x.c.n \in Nat
      BY <2>2, NumeroType
    <3> QED
      BY <1>1, <1>2, <2>4, <2>6, <2>7, <3>1
  <2>9. executees' = Append(executees, Len(executees) + 1)
    BY <2>2, <2>8
  <2>10. (sim' = "parti") = (sim = "parti")
    BY <2>3
  <2> QED
    BY <2>2, <2>3, <2>8, <2>9, <2>10, Zenon DEF C!Next, C!Executer
<1> QED
  BY <1>4, <1>5, <1>6, <1>7, <1>9, <1>10, Mouvements

\* The link implements Commandes: whatever is lost, refused and sent again, the
\* commands are executed once each and in order, and the next one waits for the
\* last, as long as the noise is of one kind and no packet overran its array
\* (gdb_protocol.c:183-192, scanner.l:42-75).
THEOREM CommandesExecutees == Spec => CommandesFideles
<1>1. Init => TypeOK /\ Ordre /\ C!Init
  <2>1. Init => C!Init
    BY DEF Init, InitLiaison, C!Init
  <2> QED
    BY <2>1, TypageInit, EnVolInit, OriginesInit, EnOrdreInit DEF Ordre
<1>2. TypeOK /\ Ordre /\ [Next]_vars => (TypeOK /\ Ordre)'
  BY TypageNext, EnVolNext, OriginesNext, EnOrdreNext DEF Ordre
<1>3. TypeOK /\ Ordre /\ [Next]_vars => [UnSeulBruit' /\ ~deborde' => C!Next]_(C!vars)
  BY PasFidele
<1> QED
  BY <1>1, <1>2, <1>3, PTL DEF Spec, CommandesFideles

-----------------------------------------------------------------------------
(* The memory.  Each command has its place in the image from its number,     *)
(* whenever it is executed.                                                  *)

\* Any token, if the command it may carry is one of A.
AuSim(A) == {x \in JetonsSim : x.t = "paquet" => x.c \in A}

LEMMA AuSimJetons ==
  ASSUME NEW A
  PROVE  Plus \in AuSim(A) /\ Moins \in AuSim(A) /\ AuSim(A) \subseteq JetonsSim
BY DEF AuSim, JetonsSim, Plus, Moins

LEMMA AuSimRefuse ==
  ASSUME TypeOK, NEW A, versSim \in Seq(AuSim(A))
  PROVE  Refuse \in Seq(AuSim(A))
<1>1. versSim \in Seq(JetonsSim)
  BY EnVolTypes
<1>2. Refuse = IF len > 0 THEN Append(versSim, Moins) ELSE versSim
  BY <1>1, RefuseDeplie
<1>3. Append(versSim, Moins) \in Seq(AuSim(A))
  BY AuSimJetons, AppendProperties
<1> QED
  BY <1>2, <1>3

\* But for those that send one, a step brings no other command on the
\* connection than the last one, sent again.
LEMMA CommandesConnues ==
  ASSUME TypeOK, [Next]_vars, NEW A, sim # "parti", versSim \in Seq(AuSim(A)),
         packet # <<>> => packet.c \in A
  PROVE  \/ versSim' \in Seq(AuSim(A))
         \/ EnvoyerMorceau \/ gdb_write_register \/ arm_step \/ arm_run
<1>1. Refuse \in Seq(AuSim(A)) /\ Plus \in AuSim(A) /\ Moins \in AuSim(A)
  BY AuSimRefuse, AuSimJetons
<1>2. pc = "attente" => packet \in AuSim(A)
  <2>1. pc = "attente" => packet # <<>> /\ packet \in Paquets(BOOLEAN)
    BY TypesParParts DEF Gardes
  <2> QED
    BY <2>1 DEF AuSim, JetonsSim
<1>3. \A y \in AuSim(A) : Append(Refuse, y) \in Seq(AuSim(A))
  BY <1>1, AppendProperties
<1>4. CASE AdresseSuivante \/ Connecter \/ ConnexionImpossible \/ MorceauFatal
           \/ EcritureFatale \/ SimFin \/ SimPanne \/ UNCHANGED vars
  <2>1. Muet
    BY <1>4, Muets
  <2> QED
    BY <2>1 DEF Muet
<1>5. CASE LireAck \/ LireRetransmission \/ LirePaquet \/ LirePaquetAbime
           \/ LireParasite \/ LireFin
  <2>1. CASE Accuse
    BY <1>1, <2>1 DEF Accuse
  <2>2. CASE Renvoie
    <3>1. pc = "attente" /\ versSim' = Append(Refuse, packet)
      BY <2>2 DEF Renvoie, Lecture, Repond
    <3> QED
      BY <1>2, <1>3, <3>1
  <2>3. CASE Ajoute
    BY <1>1, <2>3 DEF Ajoute
  <2>4. CASE \E x \in JetonsClient : Prend(x) \/ Ecarte(x)
    <3>1. versSim' = Append(Refuse, Plus) \/ versSim' = Append(Refuse, Moins)
      BY <2>4 DEF Prend, Ecarte, Repond
    <3> QED
      BY <1>1, <1>3, <3>1
  <2>5. ~Raccroche
    BY DEF Raccroche
  <2> QED
    BY <1>5, <2>1, <2>2, <2>3, <2>4, <2>5, Lectures
<1>6. CASE SimAck \/ SimRetransmettre \/ SimRefuser \/ SimExecuter
  <2>1. versSim # <<>> /\ versSim' = Tail(versSim)
    BY <1>6 DEF SimAck, SimRetransmettre, SimRefuser, SimExecuter, Simulateur
  <2> QED
    BY <2>1, TeteEtSuite
<1>7. CASE AbimerCommande
  <2>1. PICK q \in Abimables(versSim) : versSim' = [versSim EXCEPT ![q].ok = FALSE]
    BY <1>7 DEF AbimerCommande
  <2> DEFINE y == [versSim[q] EXCEPT !.ok = FALSE]
  <2>2. q \in DOMAIN versSim /\ versSim[q] \in AuSim(A) /\ versSim[q].t = "paquet"
    BY <2>1, LenProperties, ElementOfSeq DEF Abimables
  <2>3. versSim[q] \in Paquets(BOOLEAN) /\ versSim[q].c \in A
    BY <2>2, EspecesSim DEF AuSim
  <2>4. y \in Paquets(BOOLEAN) /\ y.c = versSim[q].c
    BY <2>3 DEF Paquets
  <2>5. versSim' = [versSim EXCEPT ![q] = y]
    BY <2>1, <2>2
  <2>6. y \in AuSim(A)
    BY <2>3, <2>4 DEF AuSim, JetonsSim
  <2> HIDE DEF y
  <2> QED
    BY <2>2, <2>5, <2>6, ExceptSeq
<1>8. CASE AbimerReponse \/ Parasiter \/ Detruire
  <2>1. versSim' = versSim
    BY <1>8 DEF AbimerReponse, Parasiter, Detruire
  <2> QED
    BY <2>1
<1>9. \/ AdresseSuivante \/ Connecter \/ ConnexionImpossible \/ MorceauFatal
      \/ EcritureFatale \/ SimFin \/ SimPanne \/ UNCHANGED vars
      \/ EnvoyerMorceau \/ gdb_write_register \/ arm_step \/ arm_run
      \/ LireAck \/ LireRetransmission \/ LirePaquet \/ LirePaquetAbime
      \/ LireParasite \/ LireFin
      \/ SimAck \/ SimRetransmettre \/ SimRefuser \/ SimExecuter
      \/ AbimerCommande \/ AbimerReponse \/ Parasiter \/ Detruire
  BY DEF Next, Client, Sim
<1> QED
  BY <1>4, <1>5, <1>6, <1>7, <1>8, <1>9

\* What the first k bytes of the image leave in the memory.
Partie(im, k) ==
  [a \in 0 .. Espace - 1 |->
     IF a - Adresse \in 0 .. k - 1 THEN im[a - Adresse + 1] ELSE 0]

LEMMA ChargeSuite ==
  ASSUME NEW im \in Seq(Octet), NEW k \in Nat, NEW l \in Nat, k <= l, l <= Len(im),
         memoire = Partie(im, k), NEW c, c.addr = Adresse + k,
         Decoder(c.data) = SubSeq(im, k + 1, l)
  PROVE  Charge(c) = Partie(im, l)
<1> DEFINE d == Decoder(c.data)
           v == [a \in 0 .. Espace - 1 |->
                   IF a - c.addr \in 0 .. Len(d) - 1 THEN d[a - c.addr + 1] ELSE memoire[a]]
<1>1. Len(im) \in Nat /\ Adresse \in Nat /\ Espace \in Nat
  BY LenProperties, LiaisonAssumption
<1>2. Len(d) = l - k /\ \A j \in 1 .. l - k : d[j] = im[k + j]
  <2> DEFINE u == SubSeq(im, k + 1, l)
  <2>1. Len(u) = IF k + 1 <= l THEN (l - (k + 1)) + 1 ELSE 0
    BY <1>1, SubSeqProperties
  <2>2. \A j \in 1 .. l - k : u[j] = im[((k + 1) + j) - 1]
    BY <1>1, SubSeqProperties
  <2> HIDE DEF u
  <2>3. Len(u) = l - k
    <3>1. \A q \in Int : q = (IF k + 1 <= l THEN (l - (k + 1)) + 1 ELSE 0) => q = l - k
      OBVIOUS
    <3>2. (IF k + 1 <= l THEN (l - (k + 1)) + 1 ELSE 0) \in Int
      OBVIOUS
    <3> QED
      BY <2>1, <3>1, <3>2
  <2>4. \A j \in 1 .. l - k : u[j] = im[k + j]
    <3> TAKE j \in 1 .. l - k
    <3>1. ((k + 1) + j) - 1 = k + j
      OBVIOUS
    <3> QED
      BY <2>2, <3>1, Zenon
  <2>5. d = u
    BY DEF d, u
  <2> QED
    BY <2>3, <2>4, <2>5, Zenon
<1>3. DOMAIN memoire = 0 .. Espace - 1
  BY DEF Partie
<1>4. Charge(c) = v
  BY <1>3 DEF Charge, d
<1> HIDE DEF d
<1>5. \A a \in 0 .. Espace - 1 : v[a] = Partie(im, l)[a]
  <2> TAKE a \in 0 .. Espace - 1
  <2>1. memoire[a] = IF a - Adresse \in 0 .. k - 1 THEN im[(a - Adresse) + 1] ELSE 0
    BY DEF Partie
  <2>2. v[a] = IF a - c.addr \in 0 .. (l - k) - 1 THEN d[(a - c.addr) + 1] ELSE memoire[a]
    BY <1>2
  <2>3. Partie(im, l)[a] = IF a - Adresse \in 0 .. l - 1 THEN im[(a - Adresse) + 1] ELSE 0
    BY DEF Partie
  <2> HIDE DEF v
  <2>4. CASE a - c.addr \in 0 .. (l - k) - 1
    <3>1. (a - c.addr) + 1 \in 1 .. l - k /\ k + ((a - c.addr) + 1) = (a - Adresse) + 1
      BY <1>1, <2>4
    <3>2. a - Adresse \in 0 .. l - 1
      BY <1>1, <2>4
    <3>3. d[(a - c.addr) + 1] = im[(a - Adresse) + 1]
      BY <1>2, <3>1
    <3> QED
      BY <2>2, <2>3, <2>4, <3>2, <3>3
  <2>5. CASE ~(a - c.addr \in 0 .. (l - k) - 1)
    <3>1. (a - Adresse \in 0 .. l - 1) <=> (a - Adresse \in 0 .. k - 1)
      BY <1>1, <2>5
    <3> QED
      BY <2>1, <2>2, <2>3, <2>5, <3>1
  <2> QED
    BY <2>4, <2>5
<1>6. DOMAIN v = 0 .. Espace - 1 /\ DOMAIN Partie(im, l) = 0 .. Espace - 1
  BY DEF Partie
<1>7. v = Partie(im, l)
  <2>1. v = [a \in 0 .. Espace - 1 |-> v[a]] /\ Partie(im, l) = [a \in 0 .. Espace - 1 |-> Partie(im, l)[a]]
    BY DEF Partie
  <2> HIDE DEF v
  <2> QED
    BY <1>5, <2>1
<1> QED
  BY <1>4, <1>7

\* A register read as it was written, whatever the byte order of the host.
LEMMA RegistreRelu ==
  ASSUME NEW v \in Seq(Octet), NEW h \in BOOLEAN, NEW t \in BOOLEAN
  PROVE  LireRegistre(write_uint32(v, h, t), t) = v
<1>1. Len(v) \in Nat /\ DOMAIN v = 1 .. Len(v) /\ v = [k \in 1 .. Len(v) |-> v[k]]
  BY LenProperties
<1>2. Reverse(v) = [k \in 1 .. Len(v) |-> v[(Len(v) - k) + 1]]
  BY DEF Reverse
<1>3. Len(Reverse(v)) = Len(v)
  BY <1>1, <1>2
<1>4. \A k \in 1 .. Len(v) : Reverse(v)[(Len(v) - k) + 1] = v[k]
  <2> TAKE k \in 1 .. Len(v)
  <2>1. (Len(v) - k) + 1 \in 1 .. Len(v) /\ (Len(v) - ((Len(v) - k) + 1)) + 1 = k
    BY <1>1
  <2>2. \A i \in 1 .. Len(v) : Reverse(v)[i] = v[(Len(v) - i) + 1]
    BY <1>2
  <2> QED
    BY <2>1, <2>2
<1>5. Reverse(Reverse(v)) = [k \in 1 .. Len(v) |-> Reverse(v)[(Len(v) - k) + 1]]
  BY <1>3 DEF Reverse
<1>6. Reverse(Reverse(v)) = v
  BY <1>1, <1>4, <1>5
<1>7. CASE h = TRUE /\ t = TRUE
  BY <1>7 DEF LireRegistre, write_uint32, EnMemoire
<1>8. CASE h = TRUE /\ t = FALSE
  BY <1>6, <1>8 DEF LireRegistre, write_uint32, EnMemoire
<1>9. CASE h = FALSE /\ t = TRUE
  BY <1>6, <1>9 DEF LireRegistre, write_uint32, EnMemoire
<1>10. CASE h = FALSE /\ t = FALSE
  BY <1>6, <1>10 DEF LireRegistre, write_uint32, EnMemoire
<1> QED
  BY <1>7, <1>8, <1>9, <1>10

\* What the n-th command holds: it loads the image from place d[n] to place
\* d[n + 1], or comes after the whole image; that of gdb_write_register has
\* number h, 0 as long as it was not sent.
Prevue(c, d, h, im) ==
  /\ c.op = "X" =>
       /\ h = 0 \/ c.n < h
       /\ d[c.n] <= d[c.n + 1] /\ c.addr = Adresse + d[c.n]
       /\ Decoder(c.data) = SubSeq(im, d[c.n] + 1, d[c.n + 1])
  /\ c.op # "X" => d[c.n + 1] = d[c.n]
  /\ c.op = "P" => c.n = h /\ LireRegistre(c.data, Cible) = ValeurPC
  /\ c.op \in {"s", "c"} => h # 0 /\ h < c.n
Prevues(d, h, e, im) == {c \in UneCommande : c.n <= e /\ Prevue(c, d, h, im)}

\* Where the client is.
Places(d, h) ==
  /\ d \in [1 .. envoyees + 1 -> 0 .. Len(image)] /\ d[1] = 0
  /\ h \in 0 .. envoyees /\ (h = 0 <=> etape = "memoire")
  /\ h # 0 => \A n \in h .. envoyees + 1 : d[n] = Len(image)
  /\ pc \in {"connexion", "pret"} => d[envoyees + 1] = Len(image) - Len(buffer)
  /\ pc = "attente" =>
       d[envoyees + 1] = (Len(image) - Len(buffer)) + IF etape = "memoire" THEN packet.c.lon ELSE 0

\* The commands on their way, and the one kept.
EnRoute(d, h) ==
  /\ versSim \in Seq(AuSim(Prevues(d, h, envoyees, image)))
  /\ packet # <<>> => packet.c \in Prevues(d, h, envoyees, image)

\* Where the simulator is.
Chargee(d, h) ==
  /\ memoire = Partie(image, d[Len(executees) + 1])
  /\ (h # 0 /\ h <= Len(executees)) => registre = ValeurPC
  /\ sim = "marche" => h # 0 /\ h <= Len(executees)

Situe(d, h) == Places(d, h) /\ EnRoute(d, h) /\ Chargee(d, h)
Chargement == Fidele => \E d, h : Situe(d, h)

LEMMA ChargementInit == Init => Chargement
<1> SUFFICES ASSUME NEW m \in Images, NEW i \in Hotes, InitLiaison(m, i)
             PROVE  \E d, h : Situe(d, h)
  BY DEF Init, Chargement
<1> DEFINE D == [n \in 1 .. 1 |-> 0]
<1>1. m \in Seq(Octet) /\ Len(m) \in Nat
  BY LiaisonAssumption, LenProperties
<1>2. /\ image = m /\ buffer = m /\ envoyees = 0 /\ etape = "memoire" /\ pc = "connexion"
      /\ packet = <<>> /\ versSim = <<>> /\ executees = <<>> /\ sim = "pret"
      /\ memoire = [a \in 0 .. Espace - 1 |-> 0]
  BY DEF InitLiaison
<1>3. Places(D, 0)
  BY <1>1, <1>2 DEF Places
<1>4. EnRoute(D, 0)
  BY <1>2, EmptySeq DEF EnRoute
<1>5. Chargee(D, 0)
  <2>1. Len(executees) = 0 /\ D[0 + 1] = 0
    BY <1>2, EmptySeq
  <2>2. Partie(image, 0) = [a \in 0 .. Espace - 1 |-> 0]
    <3>1. \A a \in 0 .. Espace - 1 : ~(a - Adresse \in 0 .. 0 - 1)
      OBVIOUS
    <3> QED
      BY <3>1 DEF Partie
  <2> HIDE DEF D
  <2> QED
    BY <1>2, <2>1, <2>2 DEF Chargee
<1> QED
  BY <1>3, <1>4, <1>5 DEF Situe

\* The steps that leave the client where it is.
Immobile ==
  /\ UNCHANGED <<image, etape, packet, envoyees, buffer, memoire, registre, executees>>
  /\ pc' \in {"connexion", "pret"} => pc \in {"connexion", "pret"}
  /\ pc' = "attente" => pc = "attente"
  /\ sim' = "marche" => sim = "marche"
\* A command of which the answer was taken.
Revient ==
  /\ pc = "attente" /\ \E r : Retour(r)
  /\ UNCHANGED <<etape, packet, envoyees, memoire, registre, executees, sim>>

LEMMA Deplacements ==
  ASSUME [Next]_vars
  PROVE  \/ Immobile \/ Revient \/ SimExecuter
         \/ EnvoyerMorceau \/ gdb_write_register \/ arm_step \/ arm_run
<1>1. CASE AdresseSuivante \/ Connecter \/ ConnexionImpossible
  BY <1>1 DEF AdresseSuivante, Connecter, ConnexionImpossible, Connexion, appel, simulateur,
              Immobile
<1>2. CASE EnvoyerMorceau \/ gdb_write_register \/ arm_step \/ arm_run
  BY <1>2
<1>3. CASE MorceauFatal \/ EcritureFatale
  BY <1>3 DEF MorceauFatal, EcritureFatale, appel, simulateur, Immobile
<1>4. CASE LireAck \/ LireRetransmission \/ LirePaquetAbime \/ LireParasite
  BY <1>4 DEF LireAck, LireRetransmission, LirePaquetAbime, LireParasite, Ecouter,
              RestePret, appel, simulateur, Immobile
<1>5. CASE LirePaquet \/ LireFin
  <2>1. Ecouter /\ \E r : Retour(r)
    BY <1>5 DEF LirePaquet, LireFin
  <2> QED
    BY <2>1 DEF Ecouter, simulateur, Revient
<1>6. CASE SimAck \/ SimRetransmettre \/ SimRefuser
  BY <1>6 DEF SimAck, SimRetransmettre, SimRefuser, Simulateur, appel, simulateur, Immobile
<1>7. CASE SimExecuter
  BY <1>7
<1>8. CASE SimFin \/ SimPanne
  BY <1>8 DEF SimFin, SimPanne, appel, Immobile
<1>9. CASE AbimerCommande \/ AbimerReponse \/ Parasiter \/ Detruire
  BY <1>9 DEF AbimerCommande, AbimerReponse, Parasiter, Detruire, Bruit, appel, simulateur,
              Immobile
<1>10. CASE UNCHANGED vars
  BY <1>10 DEF vars, appel, simulateur, Immobile
<1> QED
  BY <1>1, <1>2, <1>3, <1>4, <1>5, <1>6, <1>7, <1>8, <1>9, <1>10 DEF Next, Client, Sim

\* Both programs went as planned before a step if they do after it.
LEMMA FideleAvant ==
  ASSUME TypeOK, [Next]_vars, Fidele'
  PROVE  Fidele
<1>1. /\ abimes \in Nat /\ parasites \in Nat /\ abimes' \in Nat /\ parasites' \in Nat
      /\ sim' # "parti" /\ ~deborde' /\ (abimes' = 0 \/ parasites' = 0)
  <2>1. TypeOK'
    BY TypageNext
  <2> QED
    BY <2>1 DEF TypeOK, Fidele, UnSeulBruit
<1>2. ASSUME abimes <= abimes', parasites <= parasites', sim' # "parti" => sim # "parti",
             ~deborde' => ~deborde
      PROVE  Fidele
  <2>1. abimes = 0 \/ parasites = 0
    BY <1>1, <1>2
  <2> QED
    BY <1>1, <1>2, <2>1 DEF Fidele, UnSeulBruit
<1>3. CASE Calme
  BY <1>1, <1>2, <1>3 DEF Calme
<1>4. CASE Raccroche
  BY <1>1, <1>2, <1>4 DEF Raccroche
<1>5. CASE Renvoie
  BY <1>1, <1>2, <1>5 DEF Renvoie, Lecture
<1>6. CASE \E p : Envoi(p)
  BY <1>1, <1>2, <1>6 DEF Envoi
<1>7. CASE \E x : Execute(x)
  BY <1>1, <1>2, <1>7 DEF Execute, Traite
<1>8. CASE \E q, y : Abime(q, y)
  BY <1>1, <1>2, <1>8 DEF Abime, Bruite
<1> QED
  BY <1>3, <1>4, <1>5, <1>6, <1>7, <1>8, Mouvements

LEMMA LongueurFin ==
  ASSUME NEW S, NEW s \in Seq(S), NEW l \in Nat, l <= Len(s)
  PROVE  Len(SubSeq(s, l + 1, Len(s))) = Len(s) - l
<1>1. Len(s) \in Nat
  BY LenProperties
<1>2. Len(SubSeq(s, l + 1, Len(s))) = IF l + 1 <= Len(s) THEN (Len(s) - (l + 1)) + 1 ELSE 0
  BY <1>1, SubSeqProperties
<1> DEFINE t == Len(SubSeq(s, l + 1, Len(s)))
<1>3. \A q \in Int : q = (IF l + 1 <= Len(s) THEN (Len(s) - (l + 1)) + 1 ELSE 0) => q = Len(s) - l
  BY <1>1
<1>4. (IF l + 1 <= Len(s) THEN (Len(s) - (l + 1)) + 1 ELSE 0) \in Int
  BY <1>1
<1> QED
  BY <1>2, <1>3, <1>4

LEMMA ConnuesSansEnvoi ==
  ASSUME TypeOK, [Next]_vars, sim # "parti", envoyees' = envoyees, UNCHANGED <<image, packet>>,
         NEW d, NEW h, EnRoute(d, h)
  PROVE  EnRoute(d, h)'
<1> DEFINE A == Prevues(d, h, envoyees, image)
<1>1. versSim \in Seq(AuSim(A)) /\ (packet # <<>> => packet.c \in A)
  BY DEF EnRoute
<1>2. Prevues(d, h, envoyees', image') = A
  OBVIOUS
<1> HIDE DEF A
<1>3. envoyees \in Nat
  BY DEF TypeOK
<1>4. ~(EnvoyerMorceau \/ gdb_write_register \/ arm_step \/ arm_run)
  <2> SUFFICES ASSUME EnvoyerMorceau \/ gdb_write_register \/ arm_step \/ arm_run PROVE FALSE
    OBVIOUS
  <2>1. envoyees' = envoyees + 1
    BY DEF EnvoyerMorceau, gdb_write_register, arm_step, arm_run, gdb_send_buffer
  <2> QED
    BY <1>3, <2>1
<1>5. versSim' \in Seq(AuSim(A))
  BY <1>1, <1>4, CommandesConnues
<1> QED
  BY <1>1, <1>2, <1>5 DEF EnRoute

LEMMA SitueSansEnvoi ==
  ASSUME TypeOK, [Next]_vars, sim # "parti", NEW d, NEW h, Situe(d, h), Immobile \/ Revient
  PROVE  Situe(d, h)'
<1>1. Places(d, h) /\ EnRoute(d, h) /\ Chargee(d, h)
  BY DEF Situe
<1>2. UNCHANGED <<image, etape, packet, envoyees, memoire, registre, executees>>
  BY DEF Immobile, Revient, Retour
<1>3. EnRoute(d, h)'
  BY <1>1, <1>2, ConnuesSansEnvoi
<1>4. Chargee(d, h)'
  <2>1. sim' = "marche" => sim = "marche"
    BY DEF Immobile, Revient
  <2> QED
    BY <1>1, <1>2, <2>1 DEF Chargee
<1>5. CASE Immobile
  <2>1. Places(d, h)'
    BY <1>1, <1>5 DEF Immobile, Places
  <2> QED
    BY <1>3, <1>4, <2>1 DEF Situe
<1>6. CASE Revient
  <2> DEFINE l == packet.c.lon
             p == d[envoyees + 1]
  <2>1. /\ buffer \in Seq(Octet) /\ Len(buffer) \in Nat /\ Len(image) \in Nat /\ envoyees \in Nat
        /\ packet \in Paquets(BOOLEAN)
    <3>1. pc = "attente"
      BY <1>6 DEF Revient
    <3>2. packet \in Paquets(BOOLEAN)
      BY <3>1, TypesParParts DEF Gardes
    <3>3. buffer \in Seq(Octet) /\ image \in Seq(Octet) /\ envoyees \in Nat
      BY DEF TypeOK
    <3> QED
      BY <3>2, <3>3, LenProperties
  <2>2. l \in Nat
    <3>1. packet.c \in UneCommande
      BY <2>1 DEF Paquets
    <3> QED
      BY <3>1 DEF UneCommande
  <2>3. /\ pc = "attente" /\ pc' \in {"pret", "fin"}
        /\ buffer' = IF etape = "memoire" THEN SubSeq(buffer, l + 1, Len(buffer)) ELSE buffer
    BY <1>6 DEF Revient, Retour
  <2>4. p \in 0 .. Len(image) /\ p = (Len(image) - Len(buffer)) + IF etape = "memoire" THEN l ELSE 0
    BY <1>1, <2>1, <2>3 DEF Places
  <2> HIDE DEF l, p
  <2>5. p = Len(image) - Len(buffer')
    <3>1. CASE etape = "memoire"
      <4>1. p = (Len(image) - Len(buffer)) + l
        BY <2>4, <3>1
      <4>2. l <= Len(buffer)
        BY <2>1, <2>2, <2>4, <4>1
      <4>3. Len(buffer') = Len(buffer) - l
        BY <2>1, <2>2, <2>3, <3>1, <4>2, LongueurFin
      <4> QED
        BY <2>1, <2>2, <4>1, <4>3
    <3>2. CASE etape # "memoire"
      <4>1. p = (Len(image) - Len(buffer)) + 0
        BY <2>4, <3>2
      <4> QED
        BY <2>1, <2>3, <3>2, <4>1
    <3> QED
      BY <3>1, <3>2
  <2>6. Places(d, h)'
    <3>1. /\ d \in [1 .. envoyees + 1 -> 0 .. Len(image)] /\ d[1] = 0
          /\ h \in 0 .. envoyees /\ (h = 0 <=> etape = "memoire")
          /\ h # 0 => \A n \in h .. envoyees + 1 : d[n] = Len(image)
      BY <1>1 DEF Places
    <3>2. d[envoyees + 1] = Len(image) - Len(buffer')
      BY <2>5 DEF p
    <3> QED
      BY <1>2, <2>3, <3>1, <3>2 DEF Places
  <2> QED
    BY <1>3, <1>4, <2>6 DEF Situe
<1> QED
  BY <1>5, <1>6

LEMMA SitueExecute ==
  ASSUME TypeOK, [Next]_vars, Fidele, EnOrdre, (Fidele /\ EnOrdre)', SimExecuter,
         NEW d, NEW h, Situe(d, h)
  PROVE  Situe(d, h)'
<1> DEFINE x == Head(versSim)
           c == x.c
           m == Len(executees)
<1>1. Places(d, h) /\ EnRoute(d, h) /\ Chargee(d, h) /\ sim # "parti"
  BY DEF Situe, Fidele
<1>2. /\ UNCHANGED <<pc, etape, image, buffer, packet, envoyees>>
      /\ sim = "pret" /\ versSim # <<>> /\ x.t = "paquet"
      /\ executees' = Append(executees, c.n)
      /\ memoire' = IF c.op = "X" THEN Charge(c) ELSE memoire
      /\ registre' = IF c.op = "P" THEN LireRegistre(c.data, Cible) ELSE registre
      /\ sim' = "marche" => c.op = "c"
  BY DEF SimExecuter, Simulateur, appel
<1>3. EnRoute(d, h)'
  BY <1>1, <1>2, ConnuesSansEnvoi
<1>4. Places(d, h)'
  BY <1>1, <1>2 DEF Places
<1>5. c \in UneCommande /\ c.n <= envoyees /\ Prevue(c, d, h, image)
  <2>1. x \in AuSim(Prevues(d, h, envoyees, image))
    BY <1>1, <1>2, TeteEtSuite DEF EnRoute
  <2> QED
    BY <1>2, <2>1 DEF AuSim, Prevues
<1>6. /\ envoyees \in Nat /\ executees \in Seq(Nat) /\ m \in Nat
      /\ image \in Seq(Octet) /\ Len(image) \in Nat /\ hote \in BOOLEAN
  <2>1. executees \in Seq(1 .. envoyees) /\ envoyees \in Nat /\ image \in Seq(Octet)
    BY DEF TypeOK
  <2>2. executees \in Seq(Nat)
    BY <2>1, SuiteElargie
  <2> QED
    BY <2>1, <2>2, LenProperties DEF TypeOK
<1>7. c.n \in Nat /\ c.op \in {"X", "P", "s", "c"}
  BY <1>5 DEF UneCommande
<1>8. Len(executees') = m + 1 /\ c.n = m + 1
  <2>1. Len(executees') = m + 1 /\ executees'[m + 1] = c.n
    BY <1>2, <1>6, <1>7, AppendProperties
  <2>2. executees' = [k \in 1 .. Len(executees') |-> k]
    BY DEF EnOrdre
  <2>3. m + 1 \in 1 .. Len(executees')
    BY <1>6, <2>1
  <2>4. executees'[m + 1] = m + 1
    BY <2>2, <2>3
  <2> QED
    BY <2>1, <2>4
<1>9. d[m + 1] \in 0 .. Len(image) /\ d[(m + 1) + 1] \in 0 .. Len(image) /\ h \in 0 .. envoyees
  <2>1. d \in [1 .. envoyees + 1 -> 0 .. Len(image)] /\ h \in 0 .. envoyees
    BY <1>1 DEF Places
  <2>2. m + 1 \in 1 .. envoyees + 1 /\ (m + 1) + 1 \in 1 .. envoyees + 1
    BY <1>5, <1>6, <1>8
  <2> QED
    BY <2>1, <2>2
<1> DEFINE k == d[m + 1]
           l == d[(m + 1) + 1]
<1>10. memoire = Partie(image, k) /\ ((h # 0 /\ h <= m) => registre = ValeurPC)
  BY <1>1 DEF Chargee
<1>11. /\ c.op = "X" => /\ h = 0 \/ m + 1 < h
                        /\ k <= l /\ c.addr = Adresse + k
                        /\ Decoder(c.data) = SubSeq(image, k + 1, l)
       /\ c.op # "X" => l = k
       /\ c.op = "P" => m + 1 = h /\ LireRegistre(c.data, Cible) = ValeurPC
       /\ c.op \in {"s", "c"} => h # 0 /\ h < m + 1
  BY <1>5, <1>8 DEF Prevue
<1>12. k \in Nat /\ l \in Nat /\ l <= Len(image)
  BY <1>6, <1>9
<1> HIDE DEF c, x, m, k, l
<1>13. memoire' = Partie(image, l)
  <2>1. CASE c.op = "X"
    <3>1. Charge(c) = Partie(image, l)
      BY <1>6, <1>10, <1>11, <1>12, <2>1, ChargeSuite
    <3> QED
      BY <1>2, <2>1, <3>1
  <2>2. CASE c.op # "X"
    BY <1>2, <1>10, <1>11, <2>2
  <2> QED
    BY <2>1, <2>2
<1>14. (h # 0 /\ h <= m + 1) => registre' = ValeurPC
  <2> SUFFICES ASSUME h # 0, h <= m + 1 PROVE registre' = ValeurPC
    OBVIOUS
  <2>1. CASE c.op = "P"
    BY <1>2, <1>11, <2>1
  <2>2. CASE c.op # "P"
    <3>1. h <= m
      BY <1>6, <1>7, <1>9, <1>11, <2>2
    <3> QED
      BY <1>2, <1>10, <2>2, <3>1
  <2> QED
    BY <2>1, <2>2
<1>15. sim' = "marche" => h # 0 /\ h <= m + 1
  BY <1>2, <1>6, <1>9, <1>11
<1>16. Chargee(d, h)'
  BY <1>2, <1>8, <1>13, <1>14, <1>15 DEF Chargee, l
<1> QED
  BY <1>3, <1>4, <1>16 DEF Situe

\* A command known stays as it was planned when one more is.
LEMMA PrevuesElargies ==
  ASSUME NEW e \in Nat, NEW h \in 0 .. e, NEW d, NEW d2, NEW h2, NEW im,
         \A n \in 1 .. e + 1 : d2[n] = d[n],
         h2 = h \/ (h = 0 /\ h2 = e + 1)
  PROVE  Prevues(d, h, e, im) \subseteq Prevues(d2, h2, e + 1, im)
<1> SUFFICES ASSUME NEW c \in Prevues(d, h, e, im) PROVE c \in Prevues(d2, h2, e + 1, im)
  OBVIOUS
<1>1. c \in UneCommande /\ c.n <= e /\ Prevue(c, d, h, im)
  BY DEF Prevues
<1>2. c.n \in Nat \ {0}
  BY <1>1 DEF UneCommande
<1>3. d2[c.n] = d[c.n] /\ d2[c.n + 1] = d[c.n + 1]
  BY <1>1, <1>2
<1>4. Prevue(c, d2, h2, im)
  BY <1>1, <1>2, <1>3 DEF Prevue
<1> QED
  BY <1>1, <1>2, <1>4 DEF Prevues

LEMMA ExecuteesEnvoyees ==
  ASSUME TypeOK, EnOrdre, Fidele
  PROVE  envoyees \in Nat /\ Len(executees) \in Nat /\ Len(executees) <= envoyees
<1>1. envoyees \in Nat /\ Len(executees) \in Nat
  BY LenProperties DEF TypeOK
<1> DEFINE r == Refusees
           b == Total(versSim, Bons)
<1>2. r \in Nat /\ b \in Nat
  BY RefuseesType
<1>3. envoyees - Len(executees) = r + b
  BY DEF EnOrdre
<1> HIDE DEF r, b
<1> QED
  BY <1>1, <1>2, <1>3

LEMMA SitueEnvoi ==
  ASSUME TypeOK, NEW d, NEW h, Situe(d, h), pc = "pret", sim # "parti",
         NEW c \in UneCommande, c.n = envoyees + 1, gdb_send_buffer(c), ~deborde',
         NEW k \in 0 .. Len(image), NEW h2,
         NEW d2, d2 = [n \in 1 .. envoyees + 2 |-> IF n <= envoyees + 1 THEN d[n] ELSE k],
         h2 = h \/ (h = 0 /\ h2 = envoyees + 1), h2 = 0 <=> etape' = "memoire",
         h2 # 0 => d[envoyees + 1] = Len(image) /\ k = Len(image),
         k = (Len(image) - Len(buffer)) + (IF etape' = "memoire" THEN c.lon ELSE 0),
         Prevue(c, d2, h2, image), EnOrdre, Fidele
  PROVE  Situe(d2, h2)'
<1>1. Places(d, h) /\ EnRoute(d, h) /\ Chargee(d, h)
  BY DEF Situe
<1>2. packet' = Paquet(c, TRUE) /\ packet'.c = c
  BY EnvoiNet
<1>3. /\ envoyees' = envoyees + 1 /\ pc' = "attente" /\ versSim' = Append(versSim, packet')
      /\ UNCHANGED <<image, buffer, sim, memoire, registre, executees>>
  BY DEF gdb_send_buffer, simulateur
<1>4. envoyees \in Nat /\ Len(executees) \in Nat /\ Len(executees) <= envoyees
  BY ExecuteesEnvoyees
<1>5. /\ d \in [1 .. envoyees + 1 -> 0 .. Len(image)] /\ d[1] = 0 /\ h \in 0 .. envoyees
      /\ h # 0 => \A n \in h .. envoyees + 1 : d[n] = Len(image)
  BY <1>1 DEF Places
<1>6. /\ d2 \in [1 .. (envoyees + 1) + 1 -> 0 .. Len(image)]
      /\ d2[envoyees + 2] = k /\ \A n \in 1 .. envoyees + 1 : d2[n] = d[n]
  BY <1>4, <1>5
<1>7. h2 \in 0 .. envoyees + 1
  BY <1>4, <1>5
<1>8. h2 # 0 => \A n \in h2 .. (envoyees + 1) + 1 : d2[n] = Len(image)
  <2> SUFFICES ASSUME h2 # 0, NEW n \in h2 .. (envoyees + 1) + 1
               PROVE  d2[n] = Len(image)
    OBVIOUS
  <2>1. CASE n = envoyees + 2
    BY <1>6, <2>1
  <2>2. CASE n # envoyees + 2 /\ h2 = h
    <3>1. n \in h .. envoyees + 1 /\ n \in 1 .. envoyees + 1
      BY <1>4, <1>5, <1>7, <2>2
    <3> QED
      BY <1>5, <1>6, <2>2, <3>1
  <2>3. CASE n # envoyees + 2 /\ h2 # h
    <3>1. n = envoyees + 1
      BY <1>4, <2>3
    <3> QED
      BY <1>4, <1>6, <3>1
  <2> QED
    BY <2>1, <2>2, <2>3
<1>9. Places(d2, h2)'
  <2>1. d2[1] = 0
    BY <1>4, <1>5, <1>6
  <2>2. d2[(envoyees + 1) + 1] = (Len(image) - Len(buffer)) + IF etape' = "memoire" THEN c.lon ELSE 0
    BY <1>4, <1>6
  <2> QED
    BY <1>2, <1>3, <1>6, <1>7, <1>8, <2>1, <2>2 DEF Places
<1>10. EnRoute(d2, h2)'
  <2> DEFINE A == Prevues(d, h, envoyees, image)
             B == Prevues(d2, h2, envoyees + 1, image)
  <2>1. A \subseteq B
    BY <1>4, <1>5, <1>6, PrevuesElargies
  <2>2. c \in B
    BY <1>4 DEF Prevues
  <2>3. versSim \in Seq(AuSim(A))
    BY <1>1 DEF EnRoute
  <2> HIDE DEF A, B
  <2>4. AuSim(A) \subseteq AuSim(B)
    BY <2>1 DEF AuSim
  <2>5. packet' \in AuSim(B)
    BY <1>2, <2>2, PaquetType DEF AuSim, JetonsSim
  <2>6. versSim' \in Seq(AuSim(B))
    BY <1>3, <2>3, <2>4, <2>5, SuiteElargie, AppendProperties
  <2> QED
    BY <1>2, <1>3, <2>2, <2>6 DEF EnRoute, B
<1>11. Chargee(d2, h2)'
  <2>1. d2[Len(executees) + 1] = d[Len(executees) + 1]
    BY <1>4, <1>6
  <2>2. (h2 # 0 /\ h2 <= Len(executees)) => (h2 = h)
    BY <1>4
  <2>3. (h # 0 /\ h <= Len(executees)) => h2 = h
    <3>1. h # 0 => h2 = h
      OBVIOUS
    <3> QED
      BY <3>1
  <2> QED
    BY <1>1, <1>3, <2>1, <2>2, <2>3 DEF Chargee
<1> QED
  BY <1>9, <1>10, <1>11 DEF Situe

\* The four commands sent.
LEMMA ChargementEnvoi ==
  ASSUME TypeOK, EnOrdre, Avancement, Fidele, Fidele', NEW d, NEW h, Situe(d, h),
         EnvoyerMorceau \/ gdb_write_register \/ arm_step \/ arm_run
  PROVE  \E d2, h2 : Situe(d2, h2)'
<1> DEFINE L == Len(image)
           p == d[envoyees + 1]
           Suite(k) == [n \in 1 .. envoyees + 2 |-> IF n <= envoyees + 1 THEN d[n] ELSE k]
<1>1. /\ pc = "pret" /\ sim # "parti" /\ ~deborde'
  BY DEF EnvoyerMorceau, gdb_write_register, arm_step, arm_run, Fidele
<1>2. /\ envoyees \in Nat /\ buffer \in Seq(Octet) /\ Len(buffer) \in Nat
      /\ image \in Seq(Octet) /\ L \in Nat /\ address \in Nat /\ hote \in BOOLEAN
      /\ Cible \in BOOLEAN /\ ValeurPC \in Seq(Octet) /\ Adresse \in Nat
  <2>1. /\ envoyees \in Nat /\ buffer \in Seq(Octet) /\ image \in Seq(Octet)
        /\ address \in 0 .. Espace /\ hote \in BOOLEAN
    BY DEF TypeOK
  <2> QED
    BY <2>1, LenProperties, LiaisonAssumption
<1>3. /\ d \in [1 .. envoyees + 1 -> 0 .. L] /\ p \in 0 .. L /\ p = L - Len(buffer)
      /\ h \in 0 .. envoyees /\ (h = 0 <=> etape = "memoire") /\ (h # 0 => p = L)
  BY <1>1, <1>2 DEF Situe, Places
<1>4. \A k : Suite(k)[envoyees + 1] = p /\ Suite(k)[(envoyees + 1) + 1] = k
  BY <1>2
<1>5. CASE EnvoyerMorceau
  <2> DEFINE l == bytes_copied(buffer)
             k == p + l
             a == address - Adresse
  <2>1. gdb_send_buffer(Chunk) /\ etape' = etape /\ etape = "memoire" /\ buffer # <<>>
    BY <1>5 DEF EnvoyerMorceau
  <2>2. l \in 0 .. Len(buffer)
    BY <1>2, bytes_copiedBorne
  <2>3. Chunk.n = envoyees + 1 /\ Chunk.op = "X" /\ Chunk.addr = address /\ Chunk.lon = l
    BY DEF Chunk, Commande
  <2>4. Chunk \in UneCommande
    <3>1. Morceau(buffer) \in Seq(Octet)
      BY <1>2, <2>2, SubSeqProperties DEF Morceau
    <3>2. Coder(Morceau(buffer)) \in Seq(Octet)
      BY <3>1, CodageFidele
    <3> QED
      BY <1>2, <2>2, <3>2 DEF Chunk, Commande, UneCommande
  <2>5. a \in Nat /\ a <= L /\ buffer = SubSeq(image, a + 1, L)
    BY <1>2, <2>1 DEF Avancement
  <2>6. Len(buffer) = L - a
    BY <1>2, <2>5, LongueurFin
  <2> HIDE DEF l
  <2>7. p = a /\ address = Adresse + p /\ k \in 0 .. L /\ p <= k
    BY <1>2, <1>3, <2>2, <2>5, <2>6
  <2>8. Decoder(Chunk.data) = SubSeq(image, a + 1, a + l)
    BY <2>1, <2>3, MorceauFidele
  <2>9. PICK d2 : d2 = Suite(k)
    OBVIOUS
  <2>10. d2[envoyees + 1] = p /\ d2[(envoyees + 1) + 1] = k
    BY <1>4, <2>9, Zenon
  <2>11. Decoder(Chunk.data) = SubSeq(image, p + 1, k)
    BY <2>7, <2>8, Zenon
  <2> HIDE DEF k, p, a
  <2>12. Prevue(Chunk, d2, 0, image)
    BY <2>3, <2>7, <2>10, <2>11 DEF Prevue
  <2>13. k = (L - Len(buffer)) + (IF etape' = "memoire" THEN Chunk.lon ELSE 0)
    BY <1>3, <2>1, <2>3 DEF k
  <2>14. h = 0
    BY <1>3, <2>1
  <2>15. Situe(d2, 0)'
    BY <1>1, <2>1, <2>3, <2>4, <2>7, <2>9, <2>12, <2>13, <2>14, SitueEnvoi
  <2> QED
    BY <2>15
\* The other commands load nothing.
<1>6. ASSUME NEW c \in UneCommande, c.n = envoyees + 1, gdb_send_buffer(c), c.op # "X",
             buffer = <<>>, etape' # "memoire", NEW h2, h2 # 0, h2 = h \/ (h = 0 /\ h2 = envoyees + 1),
             c.op = "P" => h2 = envoyees + 1 /\ LireRegistre(c.data, Cible) = ValeurPC,
             c.op \in {"s", "c"} => h2 < envoyees + 1
      PROVE  \E d2 : Situe(d2, h2)'
  <2>1. p = L /\ L \in 0 .. L
    BY <1>2, <1>3, <1>6
  <2>2. PICK d2 : d2 = Suite(L)
    OBVIOUS
  <2>3. d2[envoyees + 1] = L /\ d2[(envoyees + 1) + 1] = L
    BY <1>4, <2>1, <2>2, Zenon
  <2>4. Prevue(c, d2, h2, image)
    BY <1>6, <2>3 DEF Prevue
  <2>5. L = (L - Len(buffer)) + (IF etape' = "memoire" THEN c.lon ELSE 0)
    BY <1>2, <1>3, <1>6, <2>1
  <2>6. Situe(d2, h2)'
    BY <1>1, <1>6, <2>1, <2>2, <2>4, <2>5, SitueEnvoi
  <2> QED
    BY <2>6
<1>7. CASE gdb_write_register
  <2> DEFINE c == Commande("P", 15, 0, write_uint32(ValeurPC, hote, Cible))
  <2>1. c \in UneCommande /\ c.n = envoyees + 1 /\ c.op = "P"
        /\ c.data = write_uint32(ValeurPC, hote, Cible)
    <3>1. write_uint32(ValeurPC, hote, Cible) \in Seq(Octet)
      BY <1>2, EnMemoireType
    <3> QED
      BY <1>2, <3>1 DEF Commande, UneCommande
  <2>2. gdb_send_buffer(c) /\ etape' = "registre" /\ etape = "memoire" /\ buffer = <<>>
    BY <1>7 DEF gdb_write_register
  <2>3. LireRegistre(c.data, Cible) = ValeurPC
    BY <1>2, <2>1, RegistreRelu
  <2> HIDE DEF c
  <2>4. PICK h2 : h2 = envoyees + 1
    OBVIOUS
  <2>5. /\ h2 # 0 /\ h = 0 /\ etape' # "memoire"
        /\ c.op # "X" /\ c.op \notin {"s", "c"}
    BY <1>2, <1>3, <2>1, <2>2, <2>4
  <2>6. \E d2 : Situe(d2, h2)'
    BY <1>6, <2>1, <2>2, <2>3, <2>4, <2>5
  <2> QED
    BY <2>6
<1>8. CASE arm_step \/ arm_run
  <2>1. PICK op \in {"s", "c"} :
          gdb_send_buffer(Commande(op, 0, 0, <<>>)) /\ etape' # "memoire" /\ etape # "memoire"
    BY <1>8 DEF arm_step, arm_run
  <2> DEFINE c == Commande(op, 0, 0, <<>>)
  <2>2. c \in UneCommande /\ c.n = envoyees + 1 /\ c.op = op
    BY <1>2 DEF Commande, UneCommande
  <2>3. gdb_send_buffer(c)
    BY <2>1
  <2> HIDE DEF c
  <2>4. h # 0 /\ h < envoyees + 1 /\ Len(buffer) = 0
    BY <1>2, <1>3, <2>1
  <2>5. buffer = <<>>
    BY <1>2, <2>4, EmptySeq
  <2>6. \E d2 : Situe(d2, h)'
    BY <1>6, <2>1, <2>2, <2>3, <2>4, <2>5
  <2> QED
    BY <2>6
<1> QED
  BY <1>5, <1>7, <1>8

LEMMA ChargementNext ==
  ASSUME TypeOK, Ordre, Avancement, Chargement, [Next]_vars
  PROVE  Chargement'
<1> SUFFICES ASSUME Fidele' PROVE \E d, h : Situe(d, h)'
  BY DEF Chargement
<1>1. Fidele /\ sim # "parti"
  <2>1. Fidele
    BY FideleAvant
  <2> QED
    BY <2>1 DEF Fidele
<1>2. PICK d, h : Situe(d, h)
  BY <1>1 DEF Chargement
<1>3. EnOrdre /\ EnOrdre'
  BY EnOrdreNext DEF Ordre
<1>4. CASE Immobile \/ Revient
  BY <1>1, <1>2, <1>4, SitueSansEnvoi
<1>5. CASE SimExecuter
  <2>1. Situe(d, h)'
    BY <1>1, <1>2, <1>3, <1>5, SitueExecute
  <2> QED
    BY <2>1
<1>6. CASE EnvoyerMorceau \/ gdb_write_register \/ arm_step \/ arm_run
  BY <1>1, <1>2, <1>3, <1>6, ChargementEnvoi
<1> QED
  BY <1>4, <1>5, <1>6, Deplacements

\* When the simulator starts it holds the whole image and its address, in
\* register 15, whatever the images, the noise of one kind and the byte orders
\* (gdb_protocol.c:144-181, 87-115).
THEOREM ImagesChargees == Spec => []ImageChargee
<1> DEFINE I == TypeOK /\ Ordre /\ Avancement /\ MorceauDecodable /\ Chargement
<1>1. Init => I
  <2>1. Init => MorceauDecodable
    BY DEF Init, InitLiaison, MorceauDecodable
  <2> QED
    BY <2>1, TypageInit, EnVolInit, OriginesInit, EnOrdreInit, AvancementInit, ChargementInit
    DEF Ordre
<1>2. I /\ [Next]_vars => I'
  BY TypageNext, EnVolNext, OriginesNext, EnOrdreNext, AvancementNext, ChargementNext DEF Ordre
<1>3. I => ImageChargee
  <2> SUFFICES ASSUME I, sim = "marche", UnSeulBruit, ~deborde
               PROVE  registre = ValeurPC /\ memoire = Partie(image, Len(image))
    BY DEF ImageChargee, Partie
  <2> DEFINE m == Len(executees)
  <2>1. Fidele
    BY DEF Fidele
  <2>2. PICK d, h : Situe(d, h)
    BY <2>1 DEF Chargement
  <2>3. /\ h # 0 /\ h <= m /\ registre = ValeurPC /\ memoire = Partie(image, d[m + 1])
    BY <2>2 DEF Situe, Chargee
  <2>4. h \in 0 .. envoyees /\ \A n \in h .. envoyees + 1 : d[n] = Len(image)
    BY <2>2, <2>3 DEF Situe, Places
  <2>5. envoyees \in Nat /\ m \in Nat /\ m <= envoyees
    BY <2>1, ExecuteesEnvoyees DEF Ordre
  <2> HIDE DEF m
  <2>6. m + 1 \in h .. envoyees + 1
    BY <2>3, <2>4, <2>5
  <2> QED
    BY <2>3, <2>4, <2>6
<1> QED
  BY <1>1, <1>2, <1>3, PTL DEF Spec
=============================================================================
