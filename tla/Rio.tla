--------------------------------- MODULE Rio ---------------------------------
(***************************************************************************)
(* The Rio package of csapp.c: reading and writing whole requests over a   *)
(* descriptor whose read() and write() may transfer less than asked for,   *)
(* be interrupted by a signal, or fail.  The client writes its packets     *)
(* with Rio_writen (gdb_protocol.c:45, 201, 230).                          *)
(***************************************************************************)
EXTENDS Integers, Sequences

CONSTANTS
  RIO_BUFSIZE,  \* the internal buffer
  Flux,         \* what may be read from the descriptor before its end
  Tailles,      \* the sizes asked for, and the line lengths
  Messages,     \* what is written
  MaxAppels     \* bound on the calls

ASSUME RioAssumption ==
  /\ RIO_BUFSIZE \in Nat \ {0} /\ Tailles \subseteq Nat \ {0}
  /\ MaxAppels \in Nat
  /\ Flux \subseteq Seq(STRING) /\ Messages \subseteq Seq(STRING)

VARIABLES
  pc,       \* the function under way, "libre", "exit", or "exit_readn" when
            \* it was rio_readn that could not go on
  flux,     \* what read() has not returned yet
  rio_buf,  \* what is left of the internal buffer, from rio_bufptr on
  usrbuf,   \* the bytes stored by the call under way
  nleft,    \* how many it still has to transfer
  envoi,    \* what rio_writen still has to write
  appels,   \* how many calls were made
  rendus,   \* (history) what each reading call returned
  ecrits, demandes  \* (history) the bytes written, and asked to be

lecture == <<flux, rio_buf, usrbuf, rendus>>
ecriture == <<envoi, ecrits, demandes>>
vars == <<pc, lecture, nleft, ecriture, appels>>

InitRio(f) ==
  /\ pc = "libre" /\ flux = f /\ rio_buf = <<>> /\ usrbuf = <<>> /\ nleft = 0
  /\ envoi = <<>> /\ appels = 0
  /\ rendus = <<>> /\ ecrits = <<>> /\ demandes = <<>>

Init == \E f \in Flux : InitRio(f)

\* The bytes that no call has returned, in the order of the stream: what
\* rio_readn stores comes after what the internal buffer holds.
Reste == IF pc \in {"rio_readn", "exit_readn"}
         THEN (rio_buf \o usrbuf) \o flux
         ELSE (usrbuf \o rio_buf) \o flux

F == INSTANCE Flot WITH reste <- Reste, Avance <- RIO_BUFSIZE
Min2(a, b) == F!Min2(a, b)

-----------------------------------------------------------------------------
Appeler(fonction) ==
  /\ pc = "libre" /\ appels < MaxAppels
  /\ pc' = fonction /\ appels' = appels + 1
  /\ UNCHANGED lecture

\* rio_readn goes to the descriptor, whatever the internal buffer holds.
rio_readn == \E n \in Tailles :
  Appeler("rio_readn") /\ nleft' = n /\ UNCHANGED ecriture
rio_readnb == \E n \in Tailles :
  Appeler("rio_readnb") /\ nleft' = n /\ UNCHANGED ecriture
rio_readlineb == \E maxlen \in Tailles :
  Appeler("rio_readlineb") /\ nleft' = maxlen - 1 /\ UNCHANGED ecriture
rio_writen == \E m \in Messages :
  /\ Appeler("rio_writen")
  /\ envoi' = m /\ demandes' = demandes \o m /\ UNCHANGED <<nleft, ecrits>>

\* A call returns n - nleft, or for a line one more than it stored when it
\* stopped before the newline.
Rendre(valeur) ==
  /\ pc' = "libre" /\ usrbuf' = <<>>
  /\ rendus' = Append(rendus, [octets |-> usrbuf, valeur |-> valeur])
  /\ UNCHANGED <<flux, rio_buf, nleft, ecriture, appels>>

LigneFinie == usrbuf # <<>> /\ usrbuf[Len(usrbuf)] = "\n"

RendreTampon ==
  /\ pc \in {"rio_readn", "rio_readnb"} /\ nleft = 0
  /\ Rendre(Len(usrbuf))

RendreLigne ==
  /\ pc = "rio_readlineb" /\ (LigneFinie \/ nleft = 0)
  /\ Rendre(IF LigneFinie THEN Len(usrbuf) ELSE Len(usrbuf) + 1)

-----------------------------------------------------------------------------
(* read(). *)

EnLecture ==
  /\ nleft > 0
  /\ \/ pc = "rio_readn"
     \/ pc = "rio_readnb" /\ rio_buf = <<>>
     \/ pc = "rio_readlineb" /\ rio_buf = <<>> /\ ~LigneFinie

\* To the user's buffer, as many bytes as the descriptor gives.
LireDirect ==
  /\ EnLecture /\ pc = "rio_readn"
  /\ \E k \in 1 .. Min2(nleft, Len(flux)) :
       /\ usrbuf' = usrbuf \o SubSeq(flux, 1, k)
       /\ flux' = SubSeq(flux, k + 1, Len(flux)) /\ nleft' = nleft - k
  /\ UNCHANGED <<pc, rio_buf, rendus, ecriture, appels>>

\* rio_read refills the internal buffer when it is empty.
Remplir ==
  /\ EnLecture /\ pc # "rio_readn"
  /\ \E k \in 1 .. Min2(RIO_BUFSIZE, Len(flux)) :
       rio_buf' = SubSeq(flux, 1, k) /\ flux' = SubSeq(flux, k + 1, Len(flux))
  /\ UNCHANGED <<pc, usrbuf, nleft, rendus, ecriture, appels>>

\* (mutant) All that the internal buffer holds is given, whatever is asked.
DemandeTout == Len(rio_buf)

\* What is asked of the internal buffer: one byte at a time for a line.
Demande == IF pc = "rio_readnb" THEN nleft ELSE 1

\* (mutant) rio_bufptr stays where it is.
rio_readSansAvancer ==
  /\ pc \in {"rio_readnb", "rio_readlineb"} /\ nleft > 0 /\ rio_buf # <<>>
  /\ pc = "rio_readlineb" => ~LigneFinie
  /\ LET cnt == Min2(Demande, Len(rio_buf))
     IN  /\ usrbuf' = usrbuf \o SubSeq(rio_buf, 1, cnt)
         /\ rio_buf' = SubSeq(rio_buf, 1, Len(rio_buf) - cnt)
         /\ nleft' = nleft - cnt
  /\ UNCHANGED <<pc, flux, rendus, ecriture, appels>>

\* It gives what the internal buffer holds, up to what is asked.
rio_read ==
  /\ pc \in {"rio_readnb", "rio_readlineb"} /\ nleft > 0 /\ rio_buf # <<>>
  /\ pc = "rio_readlineb" => ~LigneFinie
  /\ LET cnt == Min2(Demande, Len(rio_buf))
     IN  /\ usrbuf' = usrbuf \o SubSeq(rio_buf, 1, cnt)
         /\ rio_buf' = SubSeq(rio_buf, cnt + 1, Len(rio_buf))
         /\ nleft' = nleft - cnt
  /\ UNCHANGED <<pc, flux, rendus, ecriture, appels>>

\* (mutant) a read of no byte is taken for an interrupted one.
FinDuFluxIgnoree ==
  /\ EnLecture /\ flux = <<>> /\ pc = "rio_readlineb"
  /\ Rendre(IF usrbuf = <<>> THEN 0 ELSE Len(usrbuf) + 1)

\* The end of the stream: a short count.
FinDuFlux ==
  /\ EnLecture /\ flux = <<>>
  /\ Rendre(IF pc = "rio_readlineb"
            THEN IF usrbuf = <<>> THEN 0 ELSE Len(usrbuf) + 1
            ELSE Len(usrbuf))

-----------------------------------------------------------------------------
(* write(), and what both may do besides. *)

\* (mutant) what was written is not skipped.
EcrireSansAvancer ==
  /\ pc = "rio_writen"
  /\ \E k \in 1 .. Len(envoi) :
       /\ ecrits' = ecrits \o SubSeq(envoi, 1, k)
       /\ envoi' = SubSeq(envoi, 1, Len(envoi) - k)
  /\ UNCHANGED <<pc, lecture, nleft, demandes, appels>>

Ecrire ==
  /\ pc = "rio_writen"
  /\ \E k \in 1 .. Len(envoi) :
       /\ ecrits' = ecrits \o SubSeq(envoi, 1, k)
       /\ envoi' = SubSeq(envoi, k + 1, Len(envoi))
  /\ UNCHANGED <<pc, lecture, nleft, demandes, appels>>

RendreEcriture ==
  /\ pc = "rio_writen" /\ envoi = <<>> /\ pc' = "libre"
  /\ UNCHANGED <<lecture, nleft, ecriture, appels>>

EnAppel == EnLecture \/ (pc = "rio_writen" /\ envoi # <<>>)

\* unix_error ends the program.  A call that a signal interrupts is made again,
\* and so is a write of no byte when errno is still EINTR: nothing changes.
Echouer ==
  /\ EnAppel /\ pc' = IF pc = "rio_readn" THEN "exit_readn" ELSE "exit"
  /\ UNCHANGED <<lecture, nleft, ecriture, appels>>

-----------------------------------------------------------------------------
Progres ==
  \/ RendreTampon \/ RendreLigne \/ LireDirect \/ Remplir \/ rio_read
  \/ FinDuFlux \/ Ecrire \/ RendreEcriture

Next ==
  \/ rio_readn \/ rio_readnb \/ rio_readlineb \/ rio_writen
  \/ Progres \/ Echouer

Spec == Init /\ [][Next]_vars

\* A signal does not interrupt every call for ever.
FairSpec == Spec /\ WF_vars(Progres)

-----------------------------------------------------------------------------
(***************************************************************************)
(* Properties.                                                             *)
(***************************************************************************)

\* The type invariant.  The internal buffer holds at most RIO_BUFSIZE bytes and
\* a call stores at most what was asked for (csapp.c:625, 638-640).
TypeOK ==
  /\ pc \in {"libre", "exit", "exit_readn",
             "rio_readn", "rio_readnb", "rio_readlineb", "rio_writen"}
  /\ flux \in Seq(STRING) /\ rio_buf \in Seq(STRING) /\ usrbuf \in Seq(STRING)
  /\ Len(rio_buf) <= RIO_BUFSIZE
  /\ nleft \in Nat /\ (pc = "libre" => usrbuf = <<>>)
  /\ envoi \in Seq(STRING) /\ ecrits \in Seq(STRING) /\ demandes \in Seq(STRING)
  /\ appels \in 0 .. MaxAppels

\* However the writes are cut and interrupted, what went out is the beginning of
\* what was asked for, each byte once and in order, all of it when the call
\* returns (csapp.c:590-607).
EcritureFidele ==
  /\ demandes = ecrits \o envoi
  /\ pc = "libre" => envoi = <<>>

\* The calls, though made of many reads and of a buffer that outlives them, take
\* the stream as if each were one read, the buffered ones in order: nothing is
\* lost or given twice when calls of different kinds follow each other, and a
\* short count means the end (csapp.c:564-583, 620-711).
LectureFidele == F!Spec

\* A call returns, or ends the program.
Rend == (pc # "libre") ~> (pc \in {"libre", "exit", "exit_readn"})
=============================================================================
