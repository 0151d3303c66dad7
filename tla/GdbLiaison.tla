----------------------------- MODULE GdbLiaison -----------------------------
(***************************************************************************)
(* The client of the ARM simulator: sample_run (ARM_runner_example.c) over *)
(* arm_simulator_interface.c, gdb_protocol.c and the scanner of the        *)
(* answers (scanner.l), with the simulator at the other end of the         *)
(* connection (external) and the noise the scanner is written for.         *)
(***************************************************************************)
EXTENDS GdbPaquet

CONSTANTS
  MAX_ERROR_SIZE,  \* the buffer of invalid characters of the scanner
  NbAdresses,      \* what getaddrinfo returns
  Images,          \* the memory images to load
  Adresse,         \* where they go
  Espace,          \* the size of the address space
  ValeurPC,        \* Adresse as the bytes of a register
  Hotes,           \* the byte orders of the host (TRUE: big endian)
  Cible,           \* the byte order of the simulator
  MaxPas,          \* bound on the calls of arm_step
  MaxAbimes, MaxParasites, MaxDetruits  \* bounds on the noise

ASSUME LiaisonAssumption ==
  /\ MAX_ERROR_SIZE \in Nat /\ MAX_ERROR_SIZE >= 2
  /\ NbAdresses \in Nat /\ MaxPas \in Nat
  /\ Adresse \in Nat /\ Espace \in Nat \ {0} /\ ValeurPC \in Seq(Octet)
  /\ Hotes \subseteq BOOLEAN /\ Cible \in BOOLEAN
  /\ \A m \in Images : m \in Seq(Octet) /\ Adresse + Len(m) <= Espace

EOF == -1

VARIABLES
  pc,           \* "connexion", "pret", "attente" (in gdb_get_answer), "fin", ...
  etape,        \* the call of the program under way, or the last one made
  rp,           \* the address arm_connect tries next
  sockets,      \* the sockets of arm_connect that are open
  hote,         \* is_big_endian()
  image,        \* the whole memory image
  buffer,       \* gdb_write_memory: what is left of it
  address,      \* gdb_write_memory: where it goes
  pas,          \* how many steps were asked for
  packet,       \* gdb->packet: the last packet sent
  len,          \* the scanner's data.len: invalid characters not yet refused
  versSim, versClient,  \* the two directions of the connection
  sim,          \* "pret", "marche" (running the program) or "parti"
  memoire, registre,    \* the simulator's memory and register 15
  reponse,      \* the simulator's last answer, kept for a retransmission
  abimes, parasites, detruits,  \* the noise so far
  \* history
  envoyees,     \* how many commands were sent
  executees,    \* the commands executed by the simulator, in order
  recues,       \* for each answer taken: the command that waited, the one answered
  deborde       \* a packet was larger than its array

connexion == <<rp, sockets>>
appel == <<hote, image, buffer, address, pas>>
simulateur == <<sim, memoire, registre, reponse, executees>>
bruit == <<abimes, parasites, detruits>>
vars == <<pc, etape, connexion, appel, packet, len, versSim, versClient,
          simulateur, bruit, envoyees, recues, deborde>>

Plus     == [t |-> "+"]
Moins    == [t |-> "-"]
Parasite == [t |-> "?"]
Commande(op, addr, lon, data) ==
  [n |-> envoyees + 1, op |-> op, addr |-> addr, lon |-> lon, data |-> data]
Paquet(c, ok) == [t |-> "paquet", c |-> c, ok |-> ok]
Reponse(n) == [t |-> "paquet", n |-> n, ok |-> TRUE]

InitLiaison(m, h) ==
  /\ pc = "connexion" /\ etape = "memoire"
  /\ rp = 1 /\ sockets = {}
  /\ hote = h /\ image = m /\ buffer = m /\ address = Adresse /\ pas = 0
  /\ packet = <<>> /\ len = 0
  /\ versSim = <<>> /\ versClient = <<>>
  /\ sim = "pret"
  /\ memoire = [a \in 0 .. Espace - 1 |-> 0] /\ registre = <<>>
  /\ reponse = <<>>
  /\ abimes = 0 /\ parasites = 0 /\ detruits = 0
  /\ envoyees = 0 /\ executees = <<>> /\ recues = {} /\ deborde = FALSE

Init == \E m \in Images, h \in Hotes : InitLiaison(m, h)

-----------------------------------------------------------------------------
(* arm_connect. *)

Connexion ==
  /\ pc = "connexion"
  /\ UNCHANGED <<etape, appel, packet, len, versSim, versClient, simulateur,
                 bruit, envoyees, recues, deborde>>

\* socket() fails, or connect() does and the socket is closed again.
AdresseSuivante ==
  /\ Connexion /\ rp <= NbAdresses
  /\ rp' = rp + 1 /\ UNCHANGED <<pc, sockets>>

Connecter ==
  /\ Connexion /\ rp <= NbAdresses
  /\ sockets' = sockets \cup {rp}
  /\ pc' = "pret" /\ UNCHANGED rp

ConnexionImpossible ==
  /\ Connexion /\ rp > NbAdresses
  /\ pc' = "exit" /\ UNCHANGED connexion

-----------------------------------------------------------------------------
(* Sending a command and waiting for its answer. *)

\* A packet too large for its array runs over the fields that follow it.
\* Whether the content survives, whether the sum still matches it, and whether
\* the pointer to the buffer is still one, depends on how far it goes.
Contenus(c) ==
  IF Tient(c.data) THEN {Paquet(c, TRUE)}
  ELSE {Paquet([c EXCEPT !.data = d], ok) :
          d \in {c.data, [k \in DOMAIN c.data |-> 0]}, ok \in BOOLEAN}

gdb_send_buffer(c) ==
  /\ \E p \in Contenus(c) : packet' = p /\ versSim' = Append(versSim, p)
  /\ envoyees' = envoyees + 1
  /\ deborde' = (deborde \/ ~Tient(c.data))
  /\ pc' = "attente"
  /\ UNCHANGED <<connexion, hote, image, buffer, address, len, versClient,
                 simulateur, bruit, recues>>

Chunk == Commande("X", address, bytes_copied(buffer), Coder(Morceau(buffer)))

\* One iteration of gdb_write_memory.
EnvoyerMorceau ==
  /\ pc = "pret" /\ etape = "memoire" /\ buffer # <<>>
  /\ gdb_send_buffer(Chunk)
  /\ UNCHANGED <<etape, pas>>

MorceauFatal ==
  /\ pc = "pret" /\ etape = "memoire" /\ buffer # <<>> /\ ~Tient(Chunk.data)
  /\ pc' = "avorte" /\ deborde' = TRUE
  /\ UNCHANGED <<etape, connexion, appel, packet, len, versSim, versClient,
                 simulateur, bruit, envoyees, recues>>

gdb_write_register ==
  /\ pc = "pret" /\ etape = "memoire" /\ buffer = <<>>
  /\ gdb_send_buffer(Commande("P", 15, 0, write_uint32(ValeurPC, hote, Cible)))
  /\ etape' = "registre" /\ UNCHANGED pas

arm_step ==
  /\ pc = "pret" /\ etape \in {"registre", "pas"} /\ pas < MaxPas
  /\ gdb_send_buffer(Commande("s", 0, 0, <<>>))
  /\ etape' = "pas" /\ pas' = pas + 1

arm_run ==
  /\ pc = "pret" /\ etape \in {"registre", "pas"}
  /\ gdb_send_buffer(Commande("c", 0, 0, <<>>))
  /\ etape' = "lancer" /\ UNCHANGED pas

\* The scanner returns: PACKET and EOF are told apart by arm_step only.
\* gdb_write_memory moves on to the next chunk whatever the answer was.
Retour(resultat) ==
  /\ pc' = IF etape = "lancer" \/ (etape = "pas" /\ resultat = EOF)
           THEN "fin" ELSE "pret"
  /\ IF etape = "memoire"
     THEN /\ address' = (address + packet.c.lon) % Espace
          /\ buffer' = SubSeq(buffer, packet.c.lon + 1, Len(buffer))
     ELSE UNCHANGED <<address, buffer>>
  /\ recues' = recues \cup {[attend |-> envoyees, n |-> resultat]}
  /\ UNCHANGED <<hote, image, pas>>

-----------------------------------------------------------------------------
(* The scanner, one token at a time. *)

handle_error == IF len > 0 THEN <<Moins>> ELSE <<>>

Ecouter ==
  /\ pc = "attente"
  /\ UNCHANGED <<etape, connexion, packet, simulateur, bruit, envoyees, deborde>>

Lu == versClient # <<>> /\ versClient' = Tail(versClient)
RestePret == UNCHANGED <<pc, appel, recues>>

LireAck ==
  /\ Ecouter /\ Lu /\ Head(versClient).t = "+"
  /\ versSim' = versSim \o handle_error /\ len' = 0
  /\ RestePret

\* The packet sent again is the last one, whichever one was refused.
LireRetransmission ==
  /\ Ecouter /\ Lu /\ Head(versClient).t = "-"
  /\ versSim' = versSim \o handle_error \o <<packet>> /\ len' = 0
  /\ RestePret

\* gdb_packet_check
LirePaquet ==
  /\ Ecouter /\ Lu /\ Head(versClient).t = "paquet" /\ Head(versClient).ok
  /\ versSim' = versSim \o handle_error \o <<Plus>> /\ len' = 0
  /\ Retour(Head(versClient).n)

\* (mutant) A refused packet is taken all the same.
LirePaquetAbimeAccepte ==
  /\ Ecouter /\ Lu /\ Head(versClient).t = "paquet" /\ ~Head(versClient).ok
  /\ versSim' = versSim \o handle_error \o <<Moins>> /\ len' = 0
  /\ Retour(Head(versClient).n)

\* (mutant) The command is sent again instead of the answer being refused.
LirePaquetAbimeRenvoie ==
  /\ Ecouter /\ Lu /\ Head(versClient).t = "paquet" /\ ~Head(versClient).ok
  /\ versSim' = versSim \o handle_error \o <<packet>> /\ len' = 0
  /\ RestePret

\* (mutant) A packet whose sum is wrong is dropped.
LirePaquetAbimeMuet ==
  /\ Ecouter /\ Lu /\ Head(versClient).t = "paquet" /\ ~Head(versClient).ok
  /\ versSim' = versSim \o handle_error /\ len' = 0
  /\ RestePret

LirePaquetAbime ==
  /\ Ecouter /\ Lu /\ Head(versClient).t = "paquet" /\ ~Head(versClient).ok
  /\ versSim' = versSim \o handle_error \o <<Moins>> /\ len' = 0
  /\ RestePret

\* (mutant) The room for the final NUL is forgotten.
Plein1 == len > MAX_ERROR_SIZE - 1

Plein == len > MAX_ERROR_SIZE - 2

\* add_character_to_error: refused at once only when the buffer is full.
LireParasite ==
  /\ Ecouter /\ Lu /\ Head(versClient).t = "?"
  /\ IF Plein
     THEN versSim' = versSim \o handle_error /\ len' = 1
     ELSE UNCHANGED versSim /\ len' = len + 1
  /\ RestePret

LireFin ==
  /\ Ecouter /\ versClient = <<>> /\ sim = "parti" /\ UNCHANGED versClient
  /\ versSim' = versSim \o handle_error /\ len' = 0
  /\ Retour(EOF)

\* A write to a simulator that has gone may kill the process (SIGPIPE, or
\* exit in Rio_writen).
VaEcrire ==
  \/ pc = "pret"
  \/ pc = "attente" /\ versClient = <<>> /\ len > 0
  \/ /\ pc = "attente" /\ versClient # <<>>
     /\ len > 0 \/ Head(versClient).t \in {"-", "paquet"}

EcritureFatale ==
  /\ sim = "parti" /\ VaEcrire
  /\ pc' = "avorte"
  /\ UNCHANGED <<etape, connexion, appel, packet, len, versSim, versClient,
                 simulateur, bruit, envoyees, recues, deborde>>

-----------------------------------------------------------------------------
(* The simulator (external): it acknowledges and executes the packets whose  *)
(* sum is right, refuses the others, and sends its last answer again on "-". *)

Simulateur ==
  /\ sim = "pret" /\ versSim # <<>> /\ versSim' = Tail(versSim)
  /\ UNCHANGED <<pc, etape, connexion, appel, packet, len, bruit, envoyees,
                 recues, deborde>>

SimAck ==
  /\ Simulateur /\ Head(versSim).t = "+"
  /\ UNCHANGED <<versClient, simulateur>>

SimRetransmettre ==
  /\ Simulateur /\ Head(versSim).t = "-"
  /\ versClient' = IF reponse = <<>> THEN versClient ELSE Append(versClient, reponse)
  /\ UNCHANGED simulateur

SimRefuser ==
  /\ Simulateur /\ Head(versSim).t = "paquet" /\ ~Head(versSim).ok
  /\ versClient' = Append(versClient, Moins)
  /\ UNCHANGED simulateur

Charge(c) ==
  LET d == Decoder(c.data)
  IN  [a \in DOMAIN memoire |->
         IF a - c.addr \in 0 .. Len(d) - 1 THEN d[a - c.addr + 1] ELSE memoire[a]]

SimExecuter ==
  /\ Simulateur /\ Head(versSim).t = "paquet" /\ Head(versSim).ok
  /\ LET c == Head(versSim).c
     IN  /\ executees' = Append(executees, c.n)
         /\ memoire' = IF c.op = "X" THEN Charge(c) ELSE memoire
         /\ registre' = IF c.op = "P" THEN LireRegistre(c.data, Cible) ELSE registre
         /\ IF c.op = "c"
            THEN /\ sim' = "marche" /\ versClient' = Append(versClient, Plus)
                 /\ UNCHANGED reponse
            ELSE /\ reponse' = Reponse(c.n)
                 /\ versClient' = versClient \o <<Plus, Reponse(c.n)>>
                 /\ UNCHANGED sim

\* The program run by the simulator ends, and the simulator with it.
SimFin ==
  /\ sim = "marche" /\ sim' = "parti"
  /\ UNCHANGED <<pc, etape, connexion, appel, packet, len, versSim, versClient,
                 memoire, registre, reponse, executees, bruit, envoyees, recues,
                 deborde>>

SimPanne ==
  /\ sim = "pret" /\ sim' = "parti"
  /\ UNCHANGED <<pc, etape, connexion, appel, packet, len, versSim, versClient,
                 memoire, registre, reponse, executees, bruit, envoyees, recues,
                 deborde>>

-----------------------------------------------------------------------------
(* The noise: a packet whose sum no longer matches, characters that belong   *)
(* to no packet, an answer whose delimiters are lost.                        *)

Bruit ==
  UNCHANGED <<pc, etape, connexion, appel, packet, len, simulateur, envoyees,
              recues, deborde>>

Abimables(file) == {k \in DOMAIN file : file[k].t = "paquet" /\ file[k].ok}

AbimerCommande ==
  /\ Bruit /\ abimes < MaxAbimes /\ abimes' = abimes + 1
  /\ \E k \in Abimables(versSim) : versSim' = [versSim EXCEPT ![k].ok = FALSE]
  /\ UNCHANGED <<versClient, parasites, detruits>>

AbimerReponse ==
  /\ Bruit /\ abimes < MaxAbimes /\ abimes' = abimes + 1
  /\ \E k \in Abimables(versClient) :
       versClient' = [versClient EXCEPT ![k].ok = FALSE]
  /\ UNCHANGED <<versSim, parasites, detruits>>

Parasiter ==
  /\ Bruit /\ parasites < MaxParasites /\ parasites' = parasites + 1
  /\ pc # "connexion" /\ sim # "parti"
  /\ versClient' = Append(versClient, Parasite)
  /\ UNCHANGED <<versSim, abimes, detruits>>

Detruire ==
  /\ Bruit /\ detruits < MaxDetruits /\ detruits' = detruits + 1
  /\ \E k \in Abimables(versClient) :
       versClient' = [versClient EXCEPT ![k] = Parasite]
  /\ UNCHANGED <<versSim, abimes, parasites>>

-----------------------------------------------------------------------------
Client ==
  \/ AdresseSuivante \/ Connecter \/ ConnexionImpossible
  \/ EnvoyerMorceau \/ MorceauFatal \/ gdb_write_register \/ arm_step \/ arm_run
  \/ LireAck \/ LireRetransmission \/ LirePaquet \/ LirePaquetAbime
  \/ LireParasite \/ LireFin \/ EcritureFatale

Sim == SimAck \/ SimRetransmettre \/ SimRefuser \/ SimExecuter \/ SimFin

Next ==
  \/ Client \/ Sim \/ SimPanne
  \/ AbimerCommande \/ AbimerReponse \/ Parasiter \/ Detruire

Spec == Init /\ [][Next]_vars

\* Both programs keep running; the noise and the crash may never happen.
FairSpec == Spec /\ WF_vars(Client) /\ WF_vars(Sim)

-----------------------------------------------------------------------------
(***************************************************************************)
(* Properties.                                                             *)
(***************************************************************************)
UneCommande ==
  [n : Nat \ {0}, op : {"X", "P", "s", "c"}, addr : Nat, lon : Nat, data : Seq(Octet)]
Paquets(ok) == [t : {"paquet"}, c : UneCommande, ok : ok]
Reponses(ok) == [t : {"paquet"}, n : Nat \ {0}, ok : ok]
JetonsSim == {Plus, Moins} \cup Paquets(BOOLEAN)
JetonsClient == {Plus, Moins, Parasite} \cup Reponses(BOOLEAN)

\* The two directions of the connection, which hold nothing of a command that
\* was not sent, and what is kept to be sent again.
Files ==
  /\ versSim \in Seq(JetonsSim) /\ versClient \in Seq(JetonsClient)
  /\ \A k \in DOMAIN versSim : versSim[k].t = "paquet" => versSim[k].c.n <= envoyees
  /\ \A k \in DOMAIN versClient : versClient[k].t = "paquet" => versClient[k].n <= envoyees
  /\ packet \in Paquets(BOOLEAN) \cup {<<>>}
  /\ packet # <<>> => packet.c.n = envoyees
  /\ pc \in {"attente", "fin"} => packet # <<>>
  /\ reponse \in Reponses({TRUE}) \cup {<<>>}
  /\ reponse # <<>> => reponse.n <= envoyees

\* The type invariant.  The scanner's buffer keeps room for the final NUL
\* (scanner.l:38, 44, 52-56).
TypeOK ==
  /\ pc \in {"connexion", "pret", "attente", "fin", "exit", "avorte"}
  /\ etape \in {"memoire", "registre", "pas", "lancer"}
  /\ rp \in 1 .. NbAdresses + 1 /\ sockets \subseteq 1 .. NbAdresses
  /\ hote \in BOOLEAN /\ image \in Seq(Octet)
  /\ buffer \in Seq(Octet) /\ address \in 0 .. Espace /\ pas \in 0 .. MaxPas
  /\ len \in 0 .. MAX_ERROR_SIZE - 1
  /\ sim \in {"pret", "marche", "parti"}
  /\ memoire \in [0 .. Espace - 1 -> Octet] /\ registre \in Seq(Octet)
  /\ abimes \in Nat /\ parasites \in Nat /\ detruits \in Nat /\ deborde \in BOOLEAN
  /\ envoyees \in Nat /\ executees \in Seq(1 .. envoyees)
  /\ recues \subseteq [attend : Nat, n : Nat \cup {EOF}]
  /\ Files

UnSeulBruit == abimes = 0 \/ parasites = 0

C == INSTANCE Commandes WITH avance <- parasites, parti <- sim = "parti"

\* Whatever is lost, refused and sent again, the link implements Commandes, as
\* long as the noise damages packets or adds characters but not both, and no
\* packet overran its array, which may damage it too: then a late request for
\* retransmission gets the wrong packet (scanner.l:64-68).
CommandesFideles == C!Init /\ [][UnSeulBruit' /\ ~deborde' => C!Next]_(C!vars)

\* When the simulator starts, its memory holds the whole image, at its address,
\* and register 15 leads to it (gdb_protocol.c:144-181, 87-115), whatever was
\* escaped, cut or sent again on the way.
ImageChargee ==
  (sim = "marche" /\ UnSeulBruit /\ ~deborde) =>
    /\ registre = ValeurPC
    /\ memoire = [a \in 0 .. Espace - 1 |->
                    IF a - Adresse \in 0 .. Len(image) - 1
                    THEN image[a - Adresse + 1] ELSE 0]

\* A chunk stands for the bytes of the image at its address and none of its
\* bytes delimits a packet (gdb_protocol.c:154-171).
MorceauDecodable ==
  (packet # <<>> /\ ~deborde) =>
    LET c == packet.c
    IN  c.op = "X" =>
          /\ Decoder(c.data) = SubSeq(image, c.addr - Adresse + 1,
                                      c.addr - Adresse + c.lon)
          /\ \A k \in DOMAIN c.data : c.data[k] \notin {Dollar, Diese}

\* The answer taken for that of a command is its own; every character
\* added, by causing an answer to be sent once too often, may make it one command late
\* (scanner.l:42-50, 69-75).
RetardBorne ==
  \A r \in recues : r.n # EOF =>
    r.n <= r.attend /\ r.attend - r.n <= parasites

\* The client ends, by itself or because the simulator went, unless an answer
\* lost its delimiters or a packet overran its array.
Termine ==
  <>(pc \in {"fin", "exit", "avorte"} \/ detruits > 0 \/ deborde)

-----------------------------------------------------------------------------
(***************************************************************************)
(* What the source says and the code does not do (the violation runs).     *)
(***************************************************************************)

\* "#define MAX_BUFFER_SIZE (MAX_PACKET_SIZE-6)" (gdb_protocol.c:33): a packet
\* fits in its array.
PaquetTient == packet # <<>> => Tient(packet.c.data)

\* "gdb protocol error, invalid data : %s, requiring retransmission"
\* (scanner.l:45-46): invalid data is refused.
RetransmissionDemandee == (len > 0) ~> (len = 0 \/ pc = "avorte")
=============================================================================
