----------------------------- MODULE RioProofs -----------------------------
(***************************************************************************)
(* For every stream, buffer size and sequence of calls: what rio_writen    *)
(* writes is what it was asked to, and the reading functions implement     *)
(* Flot, each call taking the next bytes of the stream at once.            *)
(***************************************************************************)
EXTENDS Rio, SequenceTheorems, TLAPS

\* A sequence cut anywhere is its two parts.
LEMMA Coupe ==
  ASSUME NEW s \in Seq(STRING), NEW k \in 0 .. Len(s)
  PROVE  /\ SubSeq(s, 1, k) \in Seq(STRING) /\ Len(SubSeq(s, 1, k)) = k
         /\ SubSeq(s, k + 1, Len(s)) \in Seq(STRING)
         /\ Len(SubSeq(s, k + 1, Len(s))) = Len(s) - k
         /\ s = SubSeq(s, 1, k) \o SubSeq(s, k + 1, Len(s))
<1>1. Len(s) \in Nat /\ \A i \in 1 .. Len(s) : s[i] \in STRING
  BY LenProperties, ElementOfSeq
<1>2. SubSeq(s, 1, k) \in Seq(STRING) /\ Len(SubSeq(s, 1, k)) = k
  <2>1. \A i \in 1 .. k : s[i] \in STRING
    BY <1>1
  <2> QED
    BY <1>1, <2>1, SubSeqProperties
<1>3. /\ SubSeq(s, k + 1, Len(s)) \in Seq(STRING)
      /\ Len(SubSeq(s, k + 1, Len(s))) = Len(s) - k
  <2>1. \A i \in k + 1 .. Len(s) : s[i] \in STRING
    BY <1>1
  <2>2. k + 1 \in Int
    BY <1>1
  <2> QED
    BY <1>1, <2>1, <2>2, SubSeqProperties
<1>4. SubSeq(s, 1, k) \o SubSeq(s, k + 1, Len(s)) = SubSeq(s, 1, Len(s))
  <2>1. 1 \in 1 .. Len(s) + 1 /\ k \in 1 - 1 .. Len(s) /\ Len(s) \in k .. Len(s)
    BY <1>1
  <2> QED
    BY <2>1, ConcatAdjacentSubSeq
<1>5. SubSeq(s, 1, Len(s)) = s
  BY SubSeqFull
<1> QED
  BY <1>2, <1>3, <1>4, <1>5

\* Bytes moved from the front of a sequence to the end of the one before it.
LEMMA Glissement ==
  ASSUME NEW a \in Seq(STRING), NEW x \in Seq(STRING), NEW y \in Seq(STRING),
         NEW b, b = a \o x, NEW s, s = x \o y
  PROVE  b \o y = a \o s
BY ConcatAssociative

\* The parts of a concatenation.
LEMMA Prefixe ==
  ASSUME NEW u \in Seq(STRING), NEW v \in Seq(STRING)
  PROVE  /\ u \o v \in Seq(STRING) /\ Len(u \o v) = Len(u) + Len(v)
         /\ Len(u) \in Nat /\ Len(v) \in Nat
         /\ SubSeq(u \o v, 1, Len(u)) = u
         /\ SubSeq(u \o v, Len(u) + 1, Len(u \o v)) = v
         /\ \A i \in 1 .. Len(u) : (u \o v)[i] = u[i]
<1>1. /\ u \o v \in Seq(STRING) /\ Len(u \o v) = Len(u) + Len(v)
      /\ \A i \in 1 .. Len(u) + Len(v) :
           (u \o v)[i] = IF i <= Len(u) THEN u[i] ELSE v[i - Len(u)]
  BY ConcatProperties
<1>2. Len(u) \in Nat /\ Len(v) \in Nat
  BY LenProperties
<1>3. \A i \in 1 .. Len(u) : (u \o v)[i] = u[i]
  BY <1>1, <1>2
<1>4. SubSeq(u \o v, 1, Len(u)) = u
  <2>1. Len(u) \in 0 .. Len(u \o v)
    BY <1>1, <1>2
  <2>2. SubSeq(u \o v, 1, Len(u)) \in Seq(STRING)
        /\ Len(SubSeq(u \o v, 1, Len(u))) = Len(u)
    BY <1>1, <2>1, Coupe
  <2>3. \A i \in 1 .. Len(u) : SubSeq(u \o v, 1, Len(u))[i] = u[i]
    BY <1>1, <1>2, <1>3
  <2> QED
    BY <2>2, <2>3, SeqEqual
<1>5. SubSeq(u \o v, Len(u) + 1, Len(u \o v)) = v
  <2>1. Len(u) \in 0 .. Len(u \o v)
    BY <1>1, <1>2
  <2>2. u \o v = SubSeq(u \o v, 1, Len(u)) \o SubSeq(u \o v, Len(u) + 1, Len(u \o v))
        /\ SubSeq(u \o v, Len(u) + 1, Len(u \o v)) \in Seq(STRING)
    BY <1>1, <2>1, Coupe
  <2>3. u \o v = u \o SubSeq(u \o v, Len(u) + 1, Len(u \o v))
    BY <2>2, <1>4
  <2> QED
    BY <2>2, <2>3, ConcatSimplifications
<1> QED
  BY <1>1, <1>2, <1>3, <1>4, <1>5

\* The three parts of a concatenation.
LEMMA Milieu ==
  ASSUME NEW u \in Seq(STRING), NEW v \in Seq(STRING), NEW w \in Seq(STRING), NEW r,
         r = (u \o v) \o w
  PROVE  /\ Len(r) = Len(u) + Len(v) + Len(w)
         /\ Len(u) \in Nat /\ Len(v) \in Nat /\ Len(w) \in Nat
         /\ SubSeq(r, 1, Len(u)) = u
         /\ SubSeq(r, Len(u) + 1, Len(u) + Len(v)) = v
         /\ SubSeq(r, Len(u) + Len(v) + 1, Len(r)) = w
<1>1. PICK a \in Seq(STRING) : a = u \o v
  BY ConcatProperties
<1>a. /\ Len(a) = Len(u) + Len(v)
      /\ \A i \in 1 .. Len(u) + Len(v) : a[i] = IF i <= Len(u) THEN u[i] ELSE v[i - Len(u)]
  BY <1>1, ConcatProperties
<1>2. PICK b \in Seq(STRING) : b = v \o w
  BY ConcatProperties
<1>3. r = a \o w
  BY <1>1
<1>b. r = u \o b
  BY <1>2, ConcatAssociative
<1>4. /\ r \in Seq(STRING) /\ Len(r) = Len(a) + Len(w) /\ Len(w) \in Nat
      /\ SubSeq(r, Len(a) + 1, Len(r)) = w
      /\ \A i \in 1 .. Len(a) : r[i] = a[i]
  BY <1>3, Prefixe
<1>5. SubSeq(r, 1, Len(u)) = u
  BY <1>b, Prefixe
<1>6. Len(u) \in Nat /\ Len(v) \in Nat
  BY LenProperties
<1>7. SubSeq(r, Len(u) + 1, Len(u) + Len(v)) = v
  <2> DEFINE m == SubSeq(r, Len(u) + 1, Len(u) + Len(v))
  <2>1. \A i \in Len(u) + 1 .. Len(u) + Len(v) : r[i] \in STRING
    BY <1>a, <1>4, <1>6, ElementOfSeq
  <2>2. Len(u) + 1 \in Int /\ Len(u) + Len(v) \in Int
    BY <1>6
  <2>3. /\ m \in Seq(STRING)
        /\ Len(m) = IF Len(u) + 1 <= Len(u) + Len(v)
                    THEN (Len(u) + Len(v)) - (Len(u) + 1) + 1 ELSE 0
        /\ \A i \in 1 .. (Len(u) + Len(v)) - (Len(u) + 1) + 1 : m[i] = r[Len(u) + 1 + i - 1]
    BY <2>1, <2>2, SubSeqProperties
  <2> HIDE DEF m
  <2>4. Len(m) = Len(v)
    BY <1>6, <2>3
  <2>5. ASSUME NEW i \in 1 .. Len(v)
        PROVE  m[i] = v[i]
    <3>1. m[i] = r[Len(u) + i]
      <4>1. m[i] = r[Len(u) + 1 + i - 1]
        BY <1>6, <2>3
      <4>2. Len(u) + 1 + i - 1 = Len(u) + i
        BY <1>6
      <4> QED
        BY <4>1, <4>2
    <3>2. r[Len(u) + i] = a[Len(u) + i]
      BY <1>a, <1>4, <1>6
    <3>3. a[Len(u) + i] = v[i]
      BY <1>a, <1>6
    <3> QED
      BY <3>1, <3>2, <3>3
  <2>6. m = v
    BY <2>3, <2>4, <2>5, SeqEqual
  <2> QED
    BY <2>6 DEF m
<1> QED
  BY <1>a, <1>4, <1>5, <1>6, <1>7

-----------------------------------------------------------------------------
(* The writes, and the types. *)

\* Behind TypeOK and EcritureFidele: nothing is stored while nothing is read,
\* nothing is left to write while nothing is written.
InvEcriture ==
  /\ TypeOK
  /\ demandes = ecrits \o envoi
  /\ pc \in {"libre", "rio_writen"} => usrbuf = <<>>
  /\ pc \notin {"rio_writen", "exit"} => envoi = <<>>

LEMMA InitEcriture == Init => InvEcriture
<1> SUFFICES ASSUME NEW f \in Flux, InitRio(f)
             PROVE  InvEcriture
  BY DEF Init
<1>1. flux \in Seq(STRING) /\ <<>> \in Seq(STRING) /\ Len(<<>>) = 0
  BY RioAssumption DEF InitRio
<1>2. <<>> \o <<>> = <<>>
  BY <1>1, ConcatEmptySeq
<1> QED
  BY <1>1, <1>2, RioAssumption DEF InitRio, InvEcriture, TypeOK

\* A call that starts.
LEMMA AppelEcriture ==
  ASSUME InvEcriture, rio_readn \/ rio_readnb \/ rio_readlineb
  PROVE  InvEcriture'
<1>1. PICK fonction \in {"rio_readn", "rio_readnb", "rio_readlineb"}, n \in Tailles :
        /\ Appeler(fonction) /\ UNCHANGED ecriture
        /\ nleft' = n \/ nleft' = n - 1
  BY DEF rio_readn, rio_readnb, rio_readlineb
<1>2. nleft' \in Nat
  BY <1>1, RioAssumption
<1>3. appels' \in 0 .. MaxAppels
  BY <1>1, RioAssumption DEF InvEcriture, TypeOK, Appeler
<1> QED
  BY <1>1, <1>2, <1>3 DEF InvEcriture, TypeOK, Appeler, ecriture, lecture

LEMMA EcrireEcriture ==
  ASSUME InvEcriture, rio_writen \/ Ecrire \/ RendreEcriture
  PROVE  InvEcriture'
<1>1. CASE rio_writen
  <2>1. PICK m \in Messages :
          /\ Appeler("rio_writen") /\ envoi' = m /\ demandes' = demandes \o m
          /\ UNCHANGED <<nleft, ecrits>>
    BY <1>1 DEF rio_writen
  <2>2. envoi = <<>> /\ ecrits \in Seq(STRING) /\ demandes = ecrits
    <3>1. envoi = <<>> /\ ecrits \in Seq(STRING) /\ demandes = ecrits \o envoi
      BY <2>1 DEF InvEcriture, TypeOK, Appeler
    <3> QED
      BY <3>1, ConcatEmptySeq
  <2>3. m \in Seq(STRING) /\ demandes' \in Seq(STRING) /\ demandes' = ecrits' \o envoi'
    BY <2>1, <2>2, RioAssumption, ConcatProperties
  <2>4. appels' \in 0 .. MaxAppels
    BY <2>1, RioAssumption DEF InvEcriture, TypeOK, Appeler
  <2> QED
    BY <2>1, <2>2, <2>3, <2>4 DEF InvEcriture, TypeOK, Appeler, lecture
<1>2. CASE Ecrire
  <2>1. PICK k \in 1 .. Len(envoi) :
          /\ ecrits' = ecrits \o SubSeq(envoi, 1, k)
          /\ envoi' = SubSeq(envoi, k + 1, Len(envoi))
    BY <1>2 DEF Ecrire
  <2>2. envoi \in Seq(STRING) /\ ecrits \in Seq(STRING) /\ k \in 0 .. Len(envoi)
    BY <2>1 DEF InvEcriture, TypeOK
  <2>3. /\ SubSeq(envoi, 1, k) \in Seq(STRING) /\ envoi' \in Seq(STRING)
        /\ envoi = SubSeq(envoi, 1, k) \o envoi'
    BY <2>1, <2>2, Coupe
  <2>4. ecrits' \in Seq(STRING)
    BY <2>1, <2>2, <2>3, ConcatProperties
  <2>5. ecrits \o envoi = ecrits' \o envoi'
    <3>1. PICK x \in Seq(STRING) : ecrits' = ecrits \o x /\ envoi = x \o envoi'
      BY <2>1, <2>3
    <3> QED
      BY <2>2, <2>3, <3>1, Glissement
  <2> QED
    BY <1>2, <2>3, <2>4, <2>5 DEF Ecrire, InvEcriture, TypeOK, lecture
<1>3. CASE RendreEcriture
  BY <1>3 DEF RendreEcriture, InvEcriture, TypeOK, lecture, ecriture
<1> QED
  BY <1>1, <1>2, <1>3

\* read() moves bytes from the descriptor to the internal buffer or to the
\* user's, and from the one to the other, in order; nothing is lost.
LEMMA LireOctets ==
  ASSUME InvEcriture, LireDirect \/ Remplir \/ rio_read
  PROVE  /\ usrbuf' \in Seq(STRING) /\ rio_buf' \in Seq(STRING) /\ flux' \in Seq(STRING)
         /\ Len(rio_buf') <= RIO_BUFSIZE
         /\ nleft' \in Nat /\ Len(usrbuf') + nleft' = Len(usrbuf) + nleft
         /\ Reste' = Reste
         /\ pc' = pc /\ pc \in {"rio_readn", "rio_readnb", "rio_readlineb"}
         /\ UNCHANGED <<envoi, ecrits, demandes, rendus, appels>>
         /\ pc = "rio_readlineb" =>
              \/ usrbuf' = usrbuf
              \/ /\ Len(usrbuf') = Len(usrbuf) + 1 /\ ~LigneFinie
                 /\ \A p \in 1 .. Len(usrbuf) : usrbuf'[p] = usrbuf[p]
<1>1. /\ usrbuf \in Seq(STRING) /\ rio_buf \in Seq(STRING) /\ flux \in Seq(STRING)
      /\ Len(usrbuf) \in Nat /\ Len(rio_buf) \in Nat /\ Len(flux) \in Nat
      /\ nleft \in Nat /\ Len(rio_buf) <= RIO_BUFSIZE
  BY LenProperties DEF InvEcriture, TypeOK
<1>2. CASE LireDirect
  <2>1. /\ pc = "rio_readn" /\ pc' = pc /\ nleft > 0 /\ rio_buf' = rio_buf
        /\ UNCHANGED <<envoi, ecrits, demandes, rendus, appels>>
    BY <1>2 DEF LireDirect, EnLecture, ecriture
  <2>2. PICK k \in 1 .. Min2(nleft, Len(flux)) :
          /\ usrbuf' = usrbuf \o SubSeq(flux, 1, k)
          /\ flux' = SubSeq(flux, k + 1, Len(flux)) /\ nleft' = nleft - k
    BY <1>2 DEF LireDirect
  <2>3. k \in 0 .. Len(flux) /\ k <= nleft /\ k \in Nat
    BY <1>1 DEF Min2, F!Min2
  <2>4. /\ SubSeq(flux, 1, k) \in Seq(STRING) /\ Len(SubSeq(flux, 1, k)) = k
        /\ flux' \in Seq(STRING) /\ flux = SubSeq(flux, 1, k) \o flux'
    BY <1>1, <2>2, <2>3, Coupe
  <2>5. usrbuf' \in Seq(STRING) /\ Len(usrbuf') = Len(usrbuf) + k
    BY <1>1, <2>2, <2>4, ConcatProperties
  <2>7. Reste' = Reste
    <3>1. PICK x \in Seq(STRING) : usrbuf' = usrbuf \o x /\ flux = x \o flux'
      BY <2>2, <2>4
    <3>2. /\ rio_buf \in Seq(STRING) /\ usrbuf \in Seq(STRING)
          /\ flux' \in Seq(STRING) /\ rio_buf \o usrbuf \in Seq(STRING)
      BY <1>1, <2>4, ConcatProperties
    <3>3. rio_buf \o usrbuf' = (rio_buf \o usrbuf) \o x
      BY <3>1, <3>2, ConcatAssociative
    <3>4. PICK a \in Seq(STRING) : a = rio_buf \o usrbuf
      BY <3>2
    <3>5. rio_buf \o usrbuf' = a \o x
      BY <3>3, <3>4
    <3>6. PICK b : b = rio_buf \o usrbuf' /\ b = a \o x
      BY <3>5
    <3>7. b \o flux' = a \o flux
      BY <3>1, <3>2, <3>4, <3>6, Glissement
    <3> QED
      BY <2>1, <3>4, <3>6, <3>7 DEF Reste
  <2>8. nleft' \in Nat /\ Len(usrbuf') + nleft' = Len(usrbuf) + nleft
    BY <1>1, <2>2, <2>3, <2>5
  <2>9. rio_buf' \in Seq(STRING) /\ Len(rio_buf') <= RIO_BUFSIZE
    BY <1>1, <2>1
  <2> QED
    BY <2>1, <2>4, <2>5, <2>7, <2>8, <2>9
<1>3. CASE Remplir
  <2>1. /\ pc \in {"rio_readnb", "rio_readlineb"} /\ pc' = pc /\ rio_buf = <<>>
        /\ UNCHANGED <<usrbuf, nleft, envoi, ecrits, demandes, rendus, appels>>
    BY <1>3 DEF Remplir, EnLecture, ecriture
  <2>2. PICK k \in 1 .. Min2(RIO_BUFSIZE, Len(flux)) :
          rio_buf' = SubSeq(flux, 1, k) /\ flux' = SubSeq(flux, k + 1, Len(flux))
    BY <1>3 DEF Remplir
  <2>3. k \in 0 .. Len(flux) /\ k <= RIO_BUFSIZE /\ k \in Nat
    BY <1>1, RioAssumption DEF Min2, F!Min2
  <2>4. /\ rio_buf' \in Seq(STRING) /\ Len(rio_buf') = k
        /\ flux' \in Seq(STRING) /\ flux = rio_buf' \o flux'
    BY <1>1, <2>2, <2>3, Coupe
  <2>5. usrbuf \o rio_buf = usrbuf
    BY <1>1, <2>1, ConcatEmptySeq
  <2>6. (usrbuf \o rio_buf') \o flux' = usrbuf \o flux
    <3>1. usrbuf \in Seq(STRING)
      BY <1>1
    <3> QED
      BY <3>1, <2>4, Glissement
  <2>7. Reste' = Reste
    BY <2>1, <2>5, <2>6 DEF Reste
  <2> QED
    BY <1>1, <2>1, <2>3, <2>4, <2>7
<1>4. CASE rio_read
  <2>1. /\ pc \in {"rio_readnb", "rio_readlineb"} /\ pc' = pc /\ nleft > 0 /\ rio_buf # <<>>
        /\ pc = "rio_readlineb" => ~LigneFinie
        /\ UNCHANGED <<flux, envoi, ecrits, demandes, rendus, appels>>
    BY <1>4 DEF rio_read, ecriture
  <2>2. PICK k : /\ k = Min2(Demande, Len(rio_buf))
                 /\ usrbuf' = usrbuf \o SubSeq(rio_buf, 1, k)
                 /\ rio_buf' = SubSeq(rio_buf, k + 1, Len(rio_buf))
                 /\ nleft' = nleft - k
    BY <1>4 DEF rio_read
  <2>3. Len(rio_buf) > 0
    BY <1>1, <2>1, EmptySeq
  <2>4. /\ k \in 0 .. Len(rio_buf) /\ k <= nleft /\ k \in Nat
        /\ pc = "rio_readlineb" => k = 1
    <3>1. /\ Demande \in Nat /\ Demande > 0 /\ Demande <= nleft
          /\ pc = "rio_readlineb" => Demande = 1
      BY <1>1, <2>1 DEF Demande
    <3>2. Len(rio_buf) \in Nat
      BY <1>1
    <3>3. k = IF Demande < Len(rio_buf) THEN Demande ELSE Len(rio_buf)
      BY <2>2 DEF Min2, F!Min2
    <3>4. nleft \in Nat
      BY <1>1
    <3>5. CASE Demande < Len(rio_buf)
      <4>1. k = Demande
        BY <3>3, <3>5
      <4> QED
        BY <3>1, <3>2, <3>4, <3>5, <4>1
    <3>6. CASE ~(Demande < Len(rio_buf))
      <4>1. k = Len(rio_buf)
        BY <3>3, <3>6
      <4> QED
        BY <2>3, <3>1, <3>2, <3>4, <3>6, <4>1
    <3> QED
      BY <3>5, <3>6
  <2>5. /\ SubSeq(rio_buf, 1, k) \in Seq(STRING) /\ Len(SubSeq(rio_buf, 1, k)) = k
        /\ rio_buf' \in Seq(STRING) /\ Len(rio_buf') = Len(rio_buf) - k
        /\ rio_buf = SubSeq(rio_buf, 1, k) \o rio_buf'
    BY <1>1, <2>2, <2>4, Coupe
  <2>6. /\ usrbuf' \in Seq(STRING) /\ Len(usrbuf') = Len(usrbuf) + k
        /\ \A p \in 1 .. Len(usrbuf) : usrbuf'[p] = usrbuf[p]
    <3>1. usrbuf \in Seq(STRING)
      BY <1>1
    <3> QED
      BY <3>1, <2>2, <2>5, Prefixe
  <2>7. usrbuf' \o rio_buf' = usrbuf \o rio_buf
    <3>1. usrbuf \in Seq(STRING)
      BY <1>1
    <3>2. PICK x \in Seq(STRING) : usrbuf' = usrbuf \o x /\ rio_buf = x \o rio_buf'
      BY <2>2, <2>5
    <3> QED
      BY <3>1, <3>2, <2>5, Glissement
  <2>8. /\ nleft' \in Nat /\ Len(usrbuf') + nleft' = Len(usrbuf) + nleft
        /\ Len(rio_buf') <= RIO_BUFSIZE
    <3>1. nleft' = nleft - k /\ Len(usrbuf') = Len(usrbuf) + k
          /\ Len(rio_buf') = Len(rio_buf) - k
      BY <2>2, <2>5, <2>6
    <3>2. Len(usrbuf) \in Nat /\ Len(rio_buf) \in Nat /\ nleft \in Nat
          /\ Len(rio_buf) <= RIO_BUFSIZE /\ RIO_BUFSIZE \in Nat
      BY <1>1, RioAssumption
    <3> QED
      BY <2>4, <3>1, <3>2
  <2>9. Reste' = Reste
    BY <2>1, <2>7 DEF Reste
  <2> QED
    BY <1>1, <2>1, <2>4, <2>5, <2>6, <2>8, <2>9
<1> QED
  BY <1>2, <1>3, <1>4
-----------------------------------------------------------------------------
(* The reads. *)

Lectures == {"rio_readn", "rio_readnb", "rio_readlineb"}

\* What a reading call has stored and has still to store is what was asked
\* for, and a line goes on only while its last byte is no newline.
InvLecture ==
  /\ InvEcriture
  /\ pc \in {"rio_readn", "rio_readnb"} => Len(usrbuf) + nleft \in Tailles
  /\ pc = "rio_readlineb" =>
       /\ Len(usrbuf) + nleft + 1 \in Tailles
       /\ \A p \in 1 .. Len(usrbuf) - 1 : usrbuf[p] # "\n"

\* A call that starts has stored nothing.
LEMMA AppelLecture ==
  ASSUME InvLecture, rio_readn \/ rio_readnb \/ rio_readlineb
  PROVE  InvLecture'
<1>1. InvEcriture'
  BY AppelEcriture DEF InvLecture
<1>2. usrbuf' = <<>> /\ Len(usrbuf') = 0
  <2>1. pc = "libre" /\ usrbuf' = usrbuf
    BY DEF rio_readn, rio_readnb, rio_readlineb, Appeler, lecture
  <2> QED
    BY <2>1 DEF InvLecture, InvEcriture
<1>3. CASE rio_readn
  <2>1. pc' = "rio_readn" /\ nleft' \in Tailles
    BY <1>3 DEF rio_readn, Appeler
  <2>2. nleft' \in Nat
    BY <2>1, RioAssumption
  <2> QED
    BY <1>1, <1>2, <2>1, <2>2 DEF InvLecture
<1>4. CASE rio_readnb
  <2>1. pc' = "rio_readnb" /\ nleft' \in Tailles
    BY <1>4 DEF rio_readnb, Appeler
  <2>2. nleft' \in Nat
    BY <2>1, RioAssumption
  <2> QED
    BY <1>1, <1>2, <2>1, <2>2 DEF InvLecture
<1>5. CASE rio_readlineb
  <2>1. PICK m \in Tailles : pc' = "rio_readlineb" /\ nleft' = m - 1
    BY <1>5 DEF rio_readlineb, Appeler
  <2>2. m \in Nat /\ Len(usrbuf') + nleft' + 1 = m
    BY <1>2, <2>1, RioAssumption
  <2> QED
    BY <1>1, <1>2, <2>1, <2>2 DEF InvLecture
<1> QED
  BY <1>3, <1>4, <1>5

LEMMA LireLecture ==
  ASSUME InvLecture, LireDirect \/ Remplir \/ rio_read
  PROVE  /\ InvLecture'
         /\ UNCHANGED <<Reste, rendus>>
<1>1. InvEcriture
  BY DEF InvLecture
<1>2. /\ usrbuf' \in Seq(STRING) /\ rio_buf' \in Seq(STRING) /\ flux' \in Seq(STRING)
      /\ Len(rio_buf') <= RIO_BUFSIZE
      /\ nleft' \in Nat /\ Len(usrbuf') + nleft' = Len(usrbuf) + nleft
      /\ pc' = pc /\ pc \in Lectures
      /\ UNCHANGED <<envoi, ecrits, demandes, appels>>
  BY <1>1, LireOctets DEF Lectures
<1>3. InvEcriture'
  BY <1>1, <1>2 DEF InvEcriture, TypeOK, Lectures
<1>4. pc' = "rio_readlineb" =>
        \A p \in 1 .. Len(usrbuf') - 1 : usrbuf'[p] # "\n"
  <2> SUFFICES ASSUME pc = "rio_readlineb", NEW p \in 1 .. Len(usrbuf') - 1
               PROVE  usrbuf'[p] # "\n"
    BY <1>2
  <2>1. usrbuf \in Seq(STRING) /\ Len(usrbuf) \in Nat
    BY <1>1, LenProperties DEF InvEcriture, TypeOK
  <2>2. \A q \in 1 .. Len(usrbuf) - 1 : usrbuf[q] # "\n"
    BY DEF InvLecture
  <2>3. CASE usrbuf' = usrbuf
    BY <2>2, <2>3
  <2>4. CASE /\ Len(usrbuf') = Len(usrbuf) + 1 /\ ~LigneFinie
             /\ \A q \in 1 .. Len(usrbuf) : usrbuf'[q] = usrbuf[q]
    <3>1. p \in 1 .. Len(usrbuf) /\ usrbuf'[p] = usrbuf[p]
      BY <2>1, <2>4
    <3>2. usrbuf # <<>>
      BY <2>1, <3>1, EmptySeq
    <3>3. usrbuf[Len(usrbuf)] # "\n"
      BY <2>4, <3>2 DEF LigneFinie
    <3> QED
      BY <2>1, <2>2, <3>1, <3>3
  <2> QED
    BY <1>1, <2>3, <2>4, LireOctets
<1>5. InvLecture'
  <2>1. pc' \in {"rio_readn", "rio_readnb"} => Len(usrbuf') + nleft' \in Tailles
    BY <1>2 DEF InvLecture
  <2>2. pc' = "rio_readlineb" => Len(usrbuf') + nleft' + 1 \in Tailles
    BY <1>2 DEF InvLecture
  <2> QED
    BY <1>2, <1>3, <1>4, <2>1, <2>2 DEF InvLecture
<1> QED
  BY <1>1, <1>5, LireOctets

\* A reading call that returns.
LEMMA RendreLecture ==
  ASSUME InvLecture, NEW v, pc \in Lectures, Rendre(v)
  PROVE  InvLecture'
<1>1. InvEcriture'
  <2>1. <<>> \in Seq(STRING)
    BY EmptySeq
  <2>2. envoi = <<>>
    BY DEF InvLecture, InvEcriture, Lectures
  <2> QED
    BY <2>1, <2>2 DEF InvLecture, InvEcriture, TypeOK, Rendre, ecriture
<1> QED
  BY <1>1 DEF InvLecture, Rendre

LEMMA InvInit == Init => InvLecture
<1> SUFFICES ASSUME Init PROVE InvLecture
  OBVIOUS
<1>1. pc = "libre"
  BY DEF Init, InitRio
<1> QED
  BY <1>1, InitEcriture DEF InvLecture

LEMMA InvNext == InvLecture /\ [Next]_vars => InvLecture'
<1> SUFFICES ASSUME InvLecture, [Next]_vars
             PROVE  InvLecture'
  OBVIOUS
<1>1. CASE rio_readn \/ rio_readnb \/ rio_readlineb
  BY <1>1, AppelLecture
<1>2. CASE rio_writen \/ Ecrire \/ RendreEcriture
  <2>1. InvEcriture'
    BY <1>2, EcrireEcriture DEF InvLecture
  <2>2. pc' \in {"rio_writen", "libre"}
    BY <1>2 DEF rio_writen, Appeler, Ecrire, RendreEcriture
  <2> QED
    BY <2>1, <2>2 DEF InvLecture
<1>3. CASE LireDirect \/ Remplir \/ rio_read
  BY <1>3, LireLecture
<1>4. CASE RendreTampon \/ RendreLigne \/ FinDuFlux
  <2>1. pc \in Lectures
    BY <1>4 DEF RendreTampon, RendreLigne, FinDuFlux, EnLecture, Lectures
  <2>2. \E v : Rendre(v)
    BY <1>4 DEF RendreTampon, RendreLigne, FinDuFlux
  <2> QED
    BY <2>1, <2>2, RendreLecture
<1>5. CASE Echouer
  BY <1>5 DEF Echouer, InvLecture, InvEcriture, TypeOK, lecture, ecriture
<1>6. CASE UNCHANGED vars
  BY <1>6 DEF vars, lecture, ecriture, InvLecture, InvEcriture, TypeOK
<1> QED
  BY <1>1, <1>2, <1>3, <1>4, <1>5, <1>6 DEF Next, Progres

THEOREM InvariantRio == Spec => []InvLecture
BY InvInit, InvNext, PTL DEF Spec

\* No call stores more than the internal buffer or the user's holds.
THEOREM TypageRio == Spec => []TypeOK
<1>1. InvLecture => TypeOK
  BY DEF InvLecture, InvEcriture
<1> QED
  BY <1>1, InvariantRio, PTL

\* rio_writen writes each byte once and in order, all of them when it returns.
THEOREM EcrituresFideles == Spec => []EcritureFidele
<1>1. InvLecture => EcritureFidele
  BY DEF InvLecture, InvEcriture, EcritureFidele
<1> QED
  BY <1>1, InvariantRio, PTL

-----------------------------------------------------------------------------
(* The reading functions implement Flot. *)

\* What the user's buffer holds is the beginning of what no call has returned.
LEMMA ResteDecoupe ==
  ASSUME InvLecture, pc \in {"rio_readnb", "rio_readlineb"}
  PROVE  /\ Reste \in Seq(STRING) /\ usrbuf \in Seq(STRING)
         /\ rio_buf \o flux \in Seq(STRING)
         /\ Reste = usrbuf \o (rio_buf \o flux)
         /\ Len(Reste) = Len(usrbuf) + Len(rio_buf \o flux)
         /\ Len(usrbuf) \in Nat /\ Len(rio_buf \o flux) \in Nat /\ nleft \in Nat
         /\ SubSeq(Reste, 1, Len(usrbuf)) = usrbuf
         /\ SubSeq(Reste, Len(usrbuf) + 1, Len(Reste)) = rio_buf \o flux
         /\ \A i \in 1 .. Len(usrbuf) : Reste[i] = usrbuf[i]
<1>1. /\ usrbuf \in Seq(STRING) /\ rio_buf \in Seq(STRING) /\ flux \in Seq(STRING)
      /\ nleft \in Nat
  BY DEF InvLecture, InvEcriture, TypeOK
<1>2. rio_buf \o flux \in Seq(STRING)
  BY <1>1, ConcatProperties
<1>3. Reste = usrbuf \o (rio_buf \o flux)
  BY <1>1, ConcatAssociative DEF Reste
<1>4. PICK w \in Seq(STRING) : w = rio_buf \o flux
  BY <1>2
<1>5. Reste = usrbuf \o w
  BY <1>3, <1>4
<1> QED
  BY <1>1, <1>4, <1>5, Prefixe

\* When a call returns it takes from the stream what it stored.
LEMMA RendreFlot ==
  ASSUME InvLecture, NEW v, Rendre(v), pc \in {"rio_readnb", "rio_readlineb"}
  PROVE  F!Rendre(usrbuf, v)
<1>1. usrbuf' = <<>> /\ rio_buf' = rio_buf /\ flux' = flux
      /\ rendus' = Append(rendus, [octets |-> usrbuf, valeur |-> v])
  BY DEF Rendre
<1>2. rio_buf \in Seq(STRING)
  BY DEF InvLecture, InvEcriture, TypeOK
<1>3. (usrbuf' \o rio_buf') \o flux' = rio_buf \o flux
  BY <1>1, <1>2, ConcatEmptySeq
<1>4. (usrbuf' \o rio_buf') \o flux' = SubSeq(Reste, Len(usrbuf) + 1, Len(Reste))
  BY <1>3, ResteDecoupe
<1> QED
  BY <1>1, <1>4 DEF F!Rendre, Reste, Rendre

\* A call of rio_readnb, whether its count is met or short.
LEMMA TamponFlot ==
  ASSUME InvLecture, pc = "rio_readnb", Rendre(Len(usrbuf)),
         nleft = 0 \/ rio_buf \o flux = <<>>
  PROVE  F!Next
<1>1. PICK n \in Tailles : n = Len(usrbuf) + nleft
  BY DEF InvLecture
<1>2. /\ Len(usrbuf) \in Nat /\ nleft \in Nat
      /\ Len(rio_buf \o flux) \in Nat
      /\ Len(Reste) = Len(usrbuf) + Len(rio_buf \o flux)
  BY ResteDecoupe
<1>3. F!Min2(n, Len(Reste)) = Len(usrbuf)
  <2> DEFINE u == Len(usrbuf)
             w == Len(rio_buf \o flux)
             r == Len(Reste)
  <2>1. u \in Nat /\ w \in Nat /\ nleft \in Nat /\ r = u + w /\ n = u + nleft
    BY <1>1, <1>2
  <2>2. nleft = 0 \/ w = 0
    BY EmptySeq
  <2> HIDE DEF u, w, r
  <2>3. (IF n < r THEN n ELSE r) = u
    BY <2>1, <2>2
  <2> QED
    BY <2>3 DEF F!Min2, u, r
<1>4. F!Lire(n)
  <2>1. SubSeq(Reste, 1, F!Min2(n, Len(Reste))) = usrbuf
    BY <1>3, ResteDecoupe
  <2>2. F!Rendre(usrbuf, Len(usrbuf))
    BY RendreFlot
  <2> QED
    BY <2>1, <2>2 DEF F!Lire, Reste
<1> QED
  BY <1>4 DEF F!Next

\* A call of rio_readn takes what follows the bytes read ahead.
LEMMA DirectFlot ==
  ASSUME InvLecture, pc = "rio_readn", Rendre(Len(usrbuf)),
         nleft = 0 \/ flux = <<>>
  PROVE  F!Next
<1>1. PICK n \in Tailles : n = Len(usrbuf) + nleft
  BY DEF InvLecture
<1>2. /\ usrbuf \in Seq(STRING) /\ rio_buf \in Seq(STRING) /\ flux \in Seq(STRING)
      /\ nleft \in Nat /\ Len(rio_buf) <= RIO_BUFSIZE /\ RIO_BUFSIZE \in Nat
  BY RioAssumption DEF InvLecture, InvEcriture, TypeOK
<1>3. PICK x : x = Reste
  OBVIOUS
<1>4. PICK k, u : k = Len(rio_buf) /\ u = Len(usrbuf)
  OBVIOUS
<1>5. x = (rio_buf \o usrbuf) \o flux
  BY <1>3 DEF Reste
<1>6. /\ Len(x) = k + u + Len(flux) /\ k \in Nat /\ u \in Nat /\ Len(flux) \in Nat
      /\ SubSeq(x, 1, k) = rio_buf /\ SubSeq(x, k + 1, k + u) = usrbuf
      /\ SubSeq(x, k + u + 1, Len(x)) = flux
  BY <1>2, <1>4, <1>5, Milieu
<1>7. k \in 0 .. F!Min2(RIO_BUFSIZE, Len(x))
  BY <1>2, <1>4, <1>6 DEF F!Min2
<1>8. F!Min2(n, Len(x) - k) = u
  <2>1. nleft = 0 \/ Len(flux) = 0
    BY EmptySeq
  <2>2. Len(x) - k = u + Len(flux) /\ n = u + nleft
    BY <1>1, <1>4, <1>6
  <2> QED
    <3>1. PICK y, f : y = Len(x) - k /\ f = Len(flux)
      OBVIOUS
    <3>2. y = u + f /\ n = u + nleft /\ u \in Nat /\ f \in Nat /\ nleft \in Nat
          /\ (nleft = 0 \/ f = 0)
      BY <1>2, <1>6, <2>1, <2>2, <3>1
    <3>3. (IF n < y THEN n ELSE y) = u
      BY <3>2
    <3> QED
      BY <3>1, <3>3 DEF F!Min2
<1>9. /\ rendus' = Append(rendus, [octets |-> usrbuf, valeur |-> u])
      /\ pc' = "libre" /\ usrbuf' = <<>> /\ rio_buf' = rio_buf /\ flux' = flux
  BY <1>4 DEF Rendre
<1>10. Reste' = rio_buf \o flux
  <2>1. Reste' = (<<>> \o rio_buf) \o flux
    BY <1>9 DEF Reste
  <2> QED
    BY <1>2, <2>1, ConcatEmptySeq
<1>11. F!LireSansTampon(n)
  <2>1. SubSeq(x, k + 1, k + F!Min2(n, Len(x) - k)) = usrbuf
    BY <1>6, <1>8
  <2>2. Reste' = SubSeq(x, 1, k) \o SubSeq(x, k + u + 1, Len(x))
    BY <1>6, <1>10
  <2> QED
    BY <1>3, <1>4, <1>7, <1>9, <2>1, <2>2 DEF F!LireSansTampon
<1> QED
  BY <1>11 DEF F!Next

\* A line, complete, as long as its room or cut by the end of the stream.
LEMMA LigneFlot ==
  ASSUME InvLecture, pc = "rio_readlineb",
         LigneFinie \/ nleft = 0 \/ rio_buf \o flux = <<>>,
         Rendre(IF LigneFinie THEN Len(usrbuf)
                ELSE IF Reste = <<>> /\ nleft > 0 THEN 0 ELSE Len(usrbuf) + 1)
  PROVE  F!Next
<1> DEFINE k == Len(usrbuf)
           v == IF LigneFinie THEN k
                ELSE IF Reste = <<>> /\ nleft > 0 THEN 0 ELSE k + 1
<1>1. PICK m \in Tailles : m = k + nleft + 1
  BY DEF InvLecture
<1>2. /\ k \in Nat /\ nleft \in Nat /\ m - 1 = k + nleft
      /\ Len(Reste) \in Nat /\ Len(Reste) >= k
  BY <1>1, ResteDecoupe
<1>3. \A i \in 1 .. k - 1 : Reste[i] # "\n"
  BY <1>2, ResteDecoupe DEF InvLecture
<1>4. /\ LigneFinie <=> k > 0 /\ Reste[k] = "\n"
      /\ SubSeq(Reste, 1, k) = usrbuf
  <2>1. usrbuf # <<>> <=> k > 0
    BY ResteDecoupe, EmptySeq
  <2>2. k > 0 => Reste[k] = usrbuf[k]
    BY <1>2, ResteDecoupe
  <2> QED
    BY <2>1, <2>2, ResteDecoupe DEF LigneFinie
<1>5. F!Min2(m - 1, Len(Reste)) \in Nat /\ F!Min2(m - 1, Len(Reste)) >= k
  BY <1>2 DEF F!Min2
<1>6. ~LigneFinie => F!Min2(m - 1, Len(Reste)) = k
  <2>1. rio_buf \o flux = <<>> => Len(Reste) = k
    BY ResteDecoupe, EmptySeq
  <2> QED
    BY <1>2, <2>1 DEF F!Min2
<1>7. F!Rendre(usrbuf, v)
  BY RendreFlot
<1>8. m > 1 <=> nleft > 0 \/ k > 0
  BY <1>1, <1>2
<1>9. Reste = <<>> => k = 0
  <2>1. Reste = <<>> => Len(Reste) = 0
    BY EmptySeq
  <2> QED
    BY <1>2, <2>1
<1> DEFINE L == F!Lignes(Reste, m)
<1>10. CASE LigneFinie
  <2>1. k \in L
    BY <1>2, <1>4, <1>5, <1>10 DEF F!Lignes, Reste
  <2>2. \A p \in L : p \in Nat /\ k <= p
    BY <1>2, <1>3, <1>5 DEF F!Lignes, Reste
  <2>3. (CHOOSE l \in L : \A p \in L : l <= p) = k
    <3>1. \A l \in L : (\A p \in L : l <= p) => l = k
      BY <1>2, <2>1, <2>2
    <3> QED
      BY <2>1, <2>2, <3>1
  <2>4. L # {} /\ Reste # <<>>
    BY <1>4, <1>9, <1>10, <2>1
  <2>5. v = k
    BY <1>10
  <2>6. F!LireLigne(m)
    BY <1>4, <1>7, <2>3, <2>4, <2>5 DEF F!LireLigne, F!ValeurLigne, Reste
  <2> QED
    BY <2>6 DEF F!Next
<1>11. CASE ~LigneFinie
  <2>1. L = {}
    <3>1. ASSUME NEW l \in L
          PROVE  FALSE
      <4>1. l \in 1 .. k /\ Reste[l] = "\n"
        BY <1>2, <1>6, <1>11, <3>1 DEF F!Lignes, Reste
      <4> QED
        BY <1>2, <1>3, <1>4, <1>11, <4>1
    <3> QED
      BY <3>1
  <2>2. v = F!ValeurLigne(usrbuf, L # {}, Reste = <<>> /\ m > 1)
    BY <1>8, <1>9, <1>2, <1>11, <2>1 DEF F!ValeurLigne
  <2>3. F!LireLigne(m)
    BY <1>4, <1>6, <1>7, <1>11, <2>1, <2>2 DEF F!LireLigne, Reste
  <2> QED
    BY <2>3 DEF F!Next
<1> QED
  BY <1>10, <1>11

LEMMA PasFlot == InvLecture /\ [Next]_vars => [F!Next]_F!vars
<1> SUFFICES ASSUME InvLecture, [Next]_vars
             PROVE  F!Next \/ UNCHANGED <<Reste, rendus>>
  BY DEF F!vars, Reste
<1>1. CASE rio_readn \/ rio_readnb \/ rio_readlineb \/ rio_writen
  <2>1. /\ pc = "libre" /\ pc' \notin {"libre", "exit", "exit_readn"}
        /\ UNCHANGED <<usrbuf, rio_buf, flux, rendus>>
    BY <1>1 DEF rio_readn, rio_readnb, rio_readlineb, rio_writen, Appeler, lecture
  <2>2. usrbuf = <<>> /\ rio_buf \in Seq(STRING)
    BY <2>1 DEF InvLecture, InvEcriture, TypeOK
  <2>3. usrbuf \o rio_buf = rio_buf /\ rio_buf \o usrbuf = rio_buf
    BY <2>2, ConcatEmptySeq
  <2> QED
    BY <2>1, <2>3 DEF Reste
<1>2. CASE LireDirect \/ Remplir \/ rio_read
  BY <1>2, LireLecture DEF Reste
<1>3. CASE Ecrire \/ RendreEcriture \/ Echouer \/ UNCHANGED vars
  <2>1. UNCHANGED lecture
    BY <1>3 DEF Ecrire, RendreEcriture, Echouer, vars
  <2>2. pc \in {"rio_readn", "exit_readn"} <=> pc' \in {"rio_readn", "exit_readn"}
    BY <1>3 DEF Ecrire, RendreEcriture, Echouer, EnAppel, EnLecture, vars
  <2> QED
    BY <2>1, <2>2 DEF lecture, Reste
<1>4. CASE RendreTampon
  BY <1>4, DirectFlot, TamponFlot DEF RendreTampon
<1>5. CASE RendreLigne
  <2>1. pc = "rio_readlineb" /\ (LigneFinie \/ nleft = 0)
        /\ Rendre(IF LigneFinie THEN Len(usrbuf) ELSE Len(usrbuf) + 1)
    BY <1>5 DEF RendreLigne
  <2>2. ~LigneFinie => ~(nleft > 0)
    BY <2>1
  <2> QED
    BY <2>1, <2>2, LigneFlot
<1>6. CASE FinDuFlux
  <2>1. /\ flux = <<>> /\ nleft > 0
        /\ Rendre(IF pc = "rio_readlineb"
                  THEN IF usrbuf = <<>> THEN 0 ELSE Len(usrbuf) + 1
                  ELSE Len(usrbuf))
        /\ pc \in Lectures /\ (pc = "rio_readlineb" => ~LigneFinie)
        /\ pc # "rio_readn" => rio_buf = <<>>
    BY <1>6 DEF FinDuFlux, EnLecture, Lectures
  <2>2. CASE pc = "rio_readn"
    <3>1. pc # "rio_readlineb"
      BY <2>2
    <3>2. Rendre(Len(usrbuf))
      BY <2>1, <3>1
    <3> QED
      BY <2>1, <2>2, <3>2, DirectFlot
  <2>3. pc # "rio_readn" => rio_buf \o flux = <<>>
    <3>1. <<>> \o <<>> = <<>>
      BY EmptySeq, ConcatEmptySeq
    <3> QED
      BY <2>1, <3>1
  <2>4. CASE pc = "rio_readnb"
    <3>1. pc # "rio_readlineb" /\ pc # "rio_readn"
      BY <2>4
    <3>2. Rendre(Len(usrbuf))
      BY <2>1, <3>1
    <3> QED
      BY <2>3, <2>4, <3>1, <3>2, TamponFlot
  <2>5. CASE pc = "rio_readlineb"
    <3>0. rio_buf \o flux = <<>>
      BY <2>3, <2>5
    <3>1. Reste = usrbuf
      BY <2>5, <3>0, ResteDecoupe, ConcatEmptySeq
    <3>2. Rendre(IF LigneFinie THEN Len(usrbuf)
                 ELSE IF Reste = <<>> /\ nleft > 0 THEN 0 ELSE Len(usrbuf) + 1)
      BY <2>1, <2>5, <3>1
    <3> QED
      BY <2>5, <3>0, <3>2, LigneFlot
  <2> QED
    BY <2>1, <2>2, <2>4, <2>5 DEF Lectures
<1> QED
  BY <1>1, <1>2, <1>3, <1>4, <1>5, <1>6 DEF Next, Progres

\* Whatever read() gives at a time, each call returns the next bytes of the
\* stream or its next line, as Flot says.
THEOREM LecturesFideles == Spec => LectureFidele
<1>1. Init => rendus = <<>>
  BY DEF Init, InitRio
<1> QED
  BY <1>1, PasFlot, InvariantRio, PTL DEF Spec, LectureFidele, F!Spec
=============================================================================
