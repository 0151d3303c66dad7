# Verification of the ELF tools of PROG5

TLA+ models, TLC runs and TLAPS proofs for the programs of `src/V_base`: the
display and the merge of 32-bit big-endian relocatable ELF files, and the
client of a remote ARM simulator. The modules keep the names of the source
(French and English mixed) wherever TLA+ allows it.

- [1. The system](#1-the-system) – inventory: components, state, operations, hazards
- [2. The modules](#2-the-modules) – what models what, and how
- [3. The runs](#3-the-runs) – bounds, fairness, what each one shows
- [4. The proofs](#4-the-proofs) – what holds for every value of the constants, and why
- [5. What the code does not do](#5-what-the-code-does-not-do) – the disagreements met
- [6. Limits and plan](#6-limits-and-plan)

Every definition of a module that stands for code is tied to its lines in
`PROJECT.json` (`map`); `components` and `hazards` there repeat section 1 in a
form tools can read.

## 1. The system

One executable, `ARM_runner_example`, whose `main` runs the options of its
command line one after the other. Nothing in it is threaded; its concurrency is
with the simulator at the other end of a TCP connection, and its persistent
state is the file it writes.

| Component | Source | State | Operations | Interacts with |
|---|---|---|---|---|
| Command line | `ARM_runner_example.c` `main` | `optind`, `name_file`, `hostname`, `servicename` | one branch per option, `usage` | calls every other component |
| Reading of ELF files | `lecture.c`, `verification.c` | none of its own: every call opens the file again | `load_header`, `load_section`, `load_tablesection`, `load_stringtable`, `load_symb`, `load_tablesymbole`, `load_offset_symb`, `load_relocation_table` | fills the lists; `exit(0)` on a file that cannot be opened |
| Growable lists | `type_liste_symb.c`, `type_liste_section.c`, `elf32_reloc_table.c` | `n` or `size`, `taille_max`, `tab` | `creer_liste`, `ajouter`, `re_alloc`, `get_symbol`, … in three copies | used by reading, display and merge |
| String tables under construction | `table_string.c` | `val` (next free byte), the bytes, the size they were allocated with | `creat_table_string`, `init_table`, `write_table`, `write_table_Symb` | used by the merge, which takes `val` as `sh_name` and as size |
| Merge of two files | `mains.c` `main_fus`, `fusion.c`, `ecriture.c` | `offset`, `tab_bool`, `liste_section`, `table`, `new_header`, the result file | the two section loops, `put_sect`, `cont_sect`, `new_string_sect`, `write_section_table`, `write_new_header` | reads both sources, calls the next component |
| Merge of the symbol tables | `fusion.c` `concat_table_symb` | the three symbol lists, `traiter`, the string table of names | the two loops, `is_define_in_table` | called by `main_fus`, which does not learn of its errors |
| Display | `affichage.c`, `mains.c` `main_load_header` … `main_relocation_table` | locals | print the header, the sections, one section, the symbols, the relocations | uses reading and lists |
| Client of the simulator | `arm_simulator_interface.c`, `gdb_protocol.c`, `scanner.l` | the socket; the last packet; the scanner's invalid characters | `arm_connect`, `arm_write_memory`, `arm_write_register`, `arm_step`, `arm_run`; the scanner of the answers | the simulator, a separate program |
| Scanner of the answers | `scanner.c`, generated from `scanner.l` | the buffer with its hidden character, the positions in it, the automaton | `yylex`, `yy_get_next_buffer`, `yyrestart`, … | reads the socket, runs the five rules of the client |
| Input and output of whole requests | `csapp.c` `rio_*` | `rio_buf`, `rio_bufptr`, `rio_cnt` | `rio_readn`, `rio_writen`, `rio_readnb`, `rio_readlineb` | the client writes its packets with `Rio_writen` |
| Debug file table | `debug.c` | `debugged_files`, `nb_debugged_files` | `add_debug_to`, `__is_debugged` | filled by `--debug`, read by `debug()` |
| Byte order | `gestion_endian.c` | none | `invert_endian_32`, `invert_endian_16`, one swap per structure | everywhere a structure is read or written |

Beside these: `util.c` (`min`, `is_big_endian`, no state), the rest of `csapp.c`
(wrappers of system calls that print and exit), the autotools files, the sample
ARM programs, `sectionTest.c` and the shell tests.

`sample_run`, which drives the client, is commented out of `main`
(`ARM_runner_example.c:134`); it is the only caller the repository has, so the
client is modelled as `sample_run` uses it, with `arm_step` between its calls.

What must be right, and what makes it hard:

- **Merge.** Each header of the result is built in one loop and relied on in
  another: `sh_name` points into a table that still grows, `sh_offset` to bytes
  written at that moment, `e_shstrndx` is taken from the length of a list before
  the header it designates is added, the ELF header comes last in a hole left at
  the front. *Correct* means: no section lost or duplicated, every name and every
  content found from its header, parts that do not overlap, a header that agrees
  with what was written.
- **Symbols.** A symbol of source 2 may be left out because of a decision made
  while a symbol of source 1 was examined. *Correct* means: complete, ordered,
  each entry with its own name, nothing left out without that decision.
- **Client.** Two processes, retransmission requested by either side, invalid
  characters of which the refusal is delayed, a packet buffer that holds only the
  last packet, a simulator that may go at any time. *Correct* means: each command
  executed once and in order, the memory image loaded whatever is escaped or
  cut, each answer taken for that of its command, and an end.
- **Scanner.** An answer comes in pieces of any size; the buffer is moved and
  grows while the text under way is half matched, a NUL of the stream looks like
  the end of the buffer, and the character after the text is hidden by a NUL.
  *Correct* means: the texts given to the rules are those of the stream, and the
  scanner never waits for a character it does not need, which would not come.
- **Rio.** A read may be short, a write partial, a signal interrupt both, and
  the bytes of one call outlive it in the internal buffer. *Correct* means:
  every byte once and in order, a short count only at the end.
- **Reading and display.** The result of every `fread` is ignored, so a short
  file continues with headers that were never read; lists that double; a symbol
  index used on two tables; each field is swapped in place, by whoever reads
  it. *Correct* means: everything read and printed, once and in order, with the
  numbers of the file, each value with its relocation.

## 2. The modules

| Module | Models | State and actions |
|---|---|---|
| `TableString` | `table_string.c` | operators only: the table is the set of the names written with their positions, `val` and the size allocated; `Ecritures` are the tables a write may leave |
| `FusionSymboles` | `concat_table_symb` | one action per way through an iteration of a loop (`NouvelleEntree`, `EntreeMarquee`, `ErreurFusion`, `PasserTable2`, `AjouterSymbole2`, …); past the buffer a name is kept or lost (`Ecritures`), or the run is over (`DebordementFatal`) |
| `Fusion` | `main_fus` with `creat_table_string`, `search_same_name`, `put_sect`, `cont_sect`, `new_string_sect`, `write_*` | extends `FusionSymboles`, whose steps are those of `Concatener`; `pc` is the place in `main_fus`, `fres` the parts written to the result, each with what it is made of; `altere` (history) tells that a header of source 2 was overwritten in memory (`EcraserEntete`) |
| `EcritureElf` | nothing: the abstract specification | a file is a set of blocks and a limit; a block is added at the limit, and the file closed by its header, or given up |
| `GdbPaquet` | how `gdb_write_memory` escapes and cuts, how `write_uint32` orders bytes | operators only, with the simulator's decoding (external) |
| `GdbLiaison` | `sample_run`, `arm_connect`, the calls of the interface, `gdb_send_buffer`, the scanner rule by rule | two queues of tokens, the client, the scanner (`Lire…`), the simulator (`Sim…`, external), the noise (`Abimer…`, `Parasiter`, `Detruire`) |
| `Commandes` | nothing: the abstract specification of the link with the simulator | a command is sent when the last one was executed, and executed once, in order; `avance` is what the noise may have added |
| `Decoupage` | nothing: the abstract specification of the scanner, from `scanner.l` | the stream is cut into the longest texts of the rules, then its end is told |
| `Analyseur` | `scanner.c`: `yylex`, `yy_get_next_buffer`, `yy_get_previous_state`, `yy_try_NUL_trans`, `yyrestart`, with the tables of the automaton | one action per label of `yylex` and per way out of `yy_get_next_buffer`; `yy_ch_buf` ends with its two end-of-buffer characters, as in C |
| `Flot` | nothing: the abstract specification of reading | a buffered call takes at once the next bytes or the next line; `LireSansTampon` those that follow at most `Avance` bytes read ahead |
| `Rio` | `csapp.c:560-711` | one action per call made, per `read` or `write` that transfers something, and per return; `flux` is what the descriptor still holds, `Reste` what no call has returned: the internal buffer comes before what `rio_readn` takes from the descriptor, and after what a buffered call has stored |
| `Listes` | the growable lists | operators only: elements and room allocated |
| `DebugFiles` | `debug.c` | operators only: insertion and binary search (a recursive function) |
| `Endian` | `gestion_endian.c` | operators only: a word is a tuple of octets as the host sees them, least significant first |
| `Lecture` | `main`, `-A` to `-E`, `lecture.c`, the control of `affichage.c` | `pc` is the loop under way, `sortie` the lines printed; extends `Listes`, `DebugFiles` and `Endian` |
| `MC…` | – | the values of the constants and the initial states for TLC |
| `…Proofs` | – | theorems about the module they are named for, `FusionProofs` also about `FusionSymboles` and `TableString`, `LectureProofs` also about `Endian`, `GdbLiaisonProofs` also about `GdbPaquet` and `Commandes`; `FusionResultatProofs` builds on `FusionProofs`; `RecurrenceProofs` holds lemmas about naturals, folds and counting that belong to no component |

What the data is abstracted to:

- **Sections** carry name, type, offset and size; their bytes are named by where
  they come from (`Segment(src, pos, len)`), so a run can tell which bytes of
  which source a part of the result holds. `sh_link`, `sh_info` and `st_shndx`
  are copied unchanged by the code; they are not fields of the model, and
  `NumerosStables` states when the numbers they hold still designate the same
  sections. `sh_addr` and the like are copied too and not modelled.
- **Names** are members of a small set with a length; their bytes never matter,
  except that `.shstrtab`, `.strtab` and `.symtab` are told apart by `strcmp`.
- **Packets** carry their command and whether their sum is right; the bytes of a
  chunk are modelled, since escaping them and stopping at the limit is what can
  go wrong.
- **Fields** in `Lecture` are tuples of octets, read by a little-endian host from
  a big-endian file and swapped where the code swaps them; what is printed is a
  number. Of a header the model keeps `e_shnum`, of a section its name, type,
  flags and entries, of a symbol its value and section, of a relocation both
  fields. `Fichier` is the set of all such files: as many sections as the header
  says, the entries of each of its type, and `lisibles`, how many headers are there
  to be read; `Init` takes any of them and any sequence of words, `MCInit` those
  of the run. `Octet`, the number of values of a byte, is 16 for TLC and any number
  in the proofs.
- **Characters** in `Analyseur` are the classes of the automaton; in `Rio` they
  are told apart only from the newline.

Undefined behaviour is a choice over what a build can do, never a way out:

| Where | Outcomes |
|---|---|
| `mains.c:261` index past `tab_bool` and `sect_head2` | any size of `TaillesIndefinies`, and the write goes unnoticed (`FusionnerHorsTable`), sets the name, type, offset or size of a header of source 2 (`EcraserEntete`, with other bytes for symbols when it is that of the symbol table), or kills (`HorsTableFatal`) |
| `table_string.c:58` section names past the buffer | each is kept or lost (`Ecritures`), or killed (`DebordementNoms`) |
| `table_string.c:71` symbol names past the buffer | each is kept or lost (`Ecritures`), or killed (`DebordementFatal`) |
| `mains.c:345` no SYMTAB header in source 1 | any name, or killed (`SymtabFatale`) |
| `gdb_protocol.c:154` chunk larger than the packet | content kept or lost, sum right or wrong (`Contenus`), or killed (`MorceauFatal`) |
| `lecture.c:49` header not read | any header of `SectionsIndefinies`, or killed (`TronqueFatale`) |
| `debug.c:42` last name moved past the table | goes unnoticed, or killed (`OptionDebugFatale`) |
| `affichage.c:505`, `mains.c:85` index past the sections | goes unnoticed, or killed (`NomHorsTable`, `main_sectionFatale`) |
| `mains.c:157` no `.strtab` | names read from elsewhere, or killed (`SansStrtab`) |

`DebordementNoms` and `DebordementFatal` also stand for a write that damages the
lists beside the buffer, after which nothing more is said of the run. Between
`tab_bool` and the headers of source 1 lie all those of source 2 (`mains.c:225-243`), so
only a source 1 with some eleven times as many sections could reach its own headers;
that is not modelled.

In `Lecture`, `flags` is an `int` (`EnInt`): the upper half of the words is negative
and no letter is printed for it. Below `-2^31 + 1024` the differences of the code
overflow; they are taken as comparisons, which is how the `-O2` of the Makefile builds
them.

The simulator is not part of the repository. It is modelled from what the client
expects: it acknowledges and executes a packet whose sum is right, refuses
another with `-`, and sends its last answer again when it gets `-`. The noise is
what the scanner has rules for: a packet whose sum is wrong, characters outside
packets, and an answer whose delimiters are lost.

## 3. The runs

All of them are started with `tlc -config X.cfg M` in this directory.
`CHECK_DEADLOCK FALSE` is everywhere: these programs end (`return`, `exit`, or
killed), and a state without a successor is such an end; that they reach one is
a property of its own.

| Run | Module, cfg | Bounds | Shows |
|---|---|---|---|
| `symboles` | `MCFusionSymboles`, `FusionSymboles.cfg` | all pairs of tables of a null symbol and up to 2 and 3 more out of 6 kinds, or no table; string table of the size the two `.strtab` would have | names, order, marks, completeness, the partial result of an error, the end |
| `fusion` | `MCFusion`, `Fusion.cfg` | all pairs of 42 files: 0–3 sections of code and data, empty or repeated, with three orders of the tables, stripped or without symbol table, with a name of two types or a recomputed table of data, and with six sections of one name whose copies overflow the buffer of names; 2 sizes and 2 symbol tables for what is read from the wrong place; each source missing; about 200 000 states | layout, names, sections, header, the end; `EcritElf`: every step writes as `EcritureElf` says |
| `analyseur` | `MCAnalyseur`, `Analyseur.cfg` | all streams of up to 4 pieces out of 9 (parts of packets, acknowledgements, a newline, a NUL); a buffer of 2 that doubles, reads of 1–3 characters; about 615 000 states | the cutting of the stream, no useless wait, positions within the buffer, the end |
| `rio` | `MCRio`, `Rio.cfg` | 6 streams of 0–5 characters and lines; sequences of 4 calls of any kind, `rio_readn` on a full buffer included, with sizes 1, 2, 3, 6; an internal buffer of 2; 2 messages; about 116 000 states | reading and writing whatever the transfers and the mix of calls, the end of a call |
| `liaison` | `MCGdbLiaison`, `GdbLiaison.cfg` | 5 images of 0–3 bytes sent in chunks of 1–2, with and without escapes; both host byte orders; 2 addresses; 1 `arm_step`; 1 damaged packet, 2 characters, 1 answer without delimiters; the simulator may go at any time; about 1 000 000 states | commands, image, chunks, answers, the end |
| `lecture` | `MCLecture`, `Lecture.cfg` | 24 files with 1–6 symbols, REL and RELA sections, one or two symbol tables, with and without `.strtab`, each whole or short of 1–2 headers; sections with flags of every group and one of the upper half; command lines of 0–2 display options; every sequence of 4 `--debug` in a table of 3; octets of 16 values; about 150 000 states | what is read and printed, the lists, the debug table, the end |
| the `V_*.cfg` | – | the smallest instance that shows it | one disagreement each, see section 5 |

Why these bounds are enough to be of interest: source 2 may have fewer or more
sections than source 1, or the same ones in another order, so every branch of
the section loops is taken with a wrong index as well as with a right one; three
symbols are enough for two symbols of source 1 to mark the same or different ones of
source 2; one chunk after another, escaped or not, at and over the limit; lists
of initial room 1 double three times; a debug table of 3 overflows at the fourth
name. A stream of the scanner is several times its first buffer, so the text under
way is moved and the buffer grows at every place of a packet; a request of `rio`
is smaller than, equal to and larger than the internal buffer and the stream. TLC reports that every action of every `Next` fires.

Properties by module, with what each one guards against in a comment above it:

- `FusionSymboles`: `TypeOKSymb`, `NomsFinals`, `NomsEmpiles`, `OrdreDesSources`,
  `MarqueJustifiee`, `RienOublie`, `ErreurPartielle`, `Terminaison`.
- `Fusion`: `TypeOK`, `ContenuDeclare`, `PartiesSeparees`, `NomsSections`,
  `AucuneSectionPerdue`, `OrdreSections`, `EnteteCoherent`,
  `NumerosStables`, `FusionSeTermine`, `EcritElf`.
- `GdbLiaison`: `TypeOK`, `CommandesFideles`, `ImageChargee`, `MorceauDecodable`,
  `RetardBorne`, `Termine`.
- `Analyseur`: `TypeOK`, `DecoupageFidele`, `PasDAttenteInutile`, `FinRendue`.
- `Rio`: `TypeOK`, `EcritureFidele`, `LectureFidele`, `Rend`.
- `Lecture`: `TypeOK`, `Capacites`, `SymbolesLus`, `ValeursRel`,
  `PermissionsAffichees`, `TableDebug`, `AffichageComplet`, `Termine`.

`ContenuDeclare`, `NomsSections` and `AucuneSectionPerdue` compare the result with the
sources, and say nothing once a header of source 2 was overwritten in memory
(`altere`); the layout, the order and the header of the result (`PartiesSeparees`,
`OrdreSections`, `EnteteCoherent`, `NumerosStables`, `EcritElf`) hold all the same.
`NomsSections` and `NomsFinals` speak of the names that lie in their buffer: those are
never disturbed, however many are written past it. What is written past it is
`TableSuffisante`, which is violated.

Four of them are refinements: `EcritElf` (of `EcritureElf`), `CommandesFideles`
(of `Commandes`, for the steps under one kind of noise), `DecoupageFidele` (of
`Decoupage`) and `LectureFidele` (of `Flot`). In the last two the abstract stream is
what the descriptor still holds after what the buffers hold: moving bytes from one
to the other is a stutter, so a byte lost, read twice or out of order is not. `Flot` lets
`rio_readn` skip at most a buffer of bytes, which stay for the buffered calls: it has no
buffer of its own and the code does not look at the other one.

What `liaison` says of the protocol is worth spelling out. `CommandesFideles` and
`ImageChargee` hold when packets are damaged, or when characters are added, but not
with both: an added character makes the answer come twice, the client then runs
one command ahead of the answers it reads, and a `-` that arrives late makes it
send its *last* packet instead of the refused one. The two properties are stated
under `UnSeulBruit` for that reason. They also exclude a packet that overran its
array (`deborde`): its sum may be wrong, so it is refused like a damaged one.
`RetardBorne` needs neither: each character added costs at most one command of
delay, a damaged packet none. `Termine` excludes an answer that lost its
delimiters, for which `V_RetransmissionDemandee` shows client and simulator
waiting for each other.

**Fairness.** `main_fus`, `concat_table_symb` and the options are sequential
code in which a step is always followed by the next: `WF_vars(Next)`. In
`GdbLiaison` client and simulator are two processes that keep running:
`WF_vars(Client)` and `WF_vars(Sim)`, the second one including that the program
loaded in the simulator ends. There is no fairness on the noise nor on the
loss of the simulator, which may never come. In `Analyseur`, `WF_vars(yylex)`:
the client goes on asking for packets (it waits for one after each command) and
the simulator sends what it has to send, then closes, so a `read` returns. In
`Rio`, `WF_vars(Progres)`: a signal does not interrupt every call for ever; nothing
is assumed of the calls the program makes.

Each property of a passing run has a mutant in `PROJECT.json`: a small change of
a mapped definition, kept beside it in the module as "(mutant)", under which TLC
finds the property violated.

## 4. The proofs

`tlapm M.tla` checks them. They hold for all files, symbol tables, command lines,
names and sizes: `Fichier`, `Symbole` and `Section` are whole sets of records, `Noms`
and `Longueur` arbitrary, under the assumptions the modules declare and TLC
evaluates on the instances: a name takes at least its final NUL
(`LongueurAssumption`); the buffer of the scanner and its reads are not of size 0
(`AnalyseurAssumption`); the sizes of the ELF structures are not zero, what is read
out of bounds is a size, the three names the code compares with are names
(`TaillesAssumption`); the lists are created with some room, `strcmp` ranks
different words differently, and what the stack holds in place of what was not
read has the type it is read with (`LectureAssumption`).

| Theorem | Module | States |
|---|---|---|
| `TypageSymboles` | `FusionProofs` | `TypeOKSymb` |
| `NomsConserves` | `FusionProofs` | `NomsFinals` |
| `NomsNonRecouverts` | `FusionProofs` | `NomsEmpiles` |
| `OrdreConserve` | `FusionProofs` | `OrdreDesSources` |
| `MarquesJustifiees` | `FusionProofs` | `MarqueJustifiee` |
| `FusionComplete` | `FusionProofs` | `RienOublie` |
| `ArretPartiel` | `FusionProofs` | `ErreurPartielle` |
| `TypageFusion` | `FusionProofs` | `TypeOK` |
| `NomsFusion` | `FusionProofs` | `NomsSections` |
| `ContenuFusion` | `FusionProofs` | `ContenuDeclare` |
| `EnteteFusion` | `FusionResultatProofs` | `EnteteCoherent` |
| `DispositionFusion` | `FusionResultatProofs` | `PartiesSeparees` |
| `FusionEcritElf` | `FusionResultatProofs` | `EcritElf`, the refinement |
| `SectionsGardees` | `FusionResultatProofs` | `AucuneSectionPerdue` |
| `SectionsOrdonnees` | `FusionResultatProofs` | `OrdreSections` |
| `NumerosGardes` | `FusionResultatProofs` | `NumerosStables` |
| `FichierBienEcrit` | `EcritureElfProofs` | in `EcritureElf`, no byte is written twice and the front stays free until the file is closed |
| `OrdreDuFichier` | `LectureProofs` | a field swapped once after it was read holds the octets of the file, most significant first |
| `Involution`, `StructuresRendues` | `LectureProofs` | what is swapped twice is unchanged: a field, the header, a section, a symbol |
| `LectureTypee` | `LectureProofs` | `TypeOK` |
| `ListesContenues` | `LectureProofs` | `Capacites` |
| `SymbolesDuFichier` | `LectureProofs` | `SymbolesLus` |
| `ValeursDesSymboles` | `LectureProofs` | `ValeursRel` |
| `PermissionsDesSections` | `LectureProofs` | `PermissionsAffichees` |
| `FichiersDebogues` | `LectureProofs` | `TableDebug` |
| `ToutEstAffiche` | `LectureProofs` | `AffichageComplet` |
| `TypageRio` | `RioProofs` | `TypeOK` |
| `EcrituresFideles` | `RioProofs` | `EcritureFidele` |
| `LecturesFideles` | `RioProofs` | `LectureFidele`, the refinement |
| `LiaisonTypee` | `GdbLiaisonProofs` | `TypeOK` |
| `MorceauxDecodables` | `GdbLiaisonProofs` | `MorceauDecodable` |
| `RetardsBornes` | `GdbLiaisonProofs` | `RetardBorne` |
| `CommandesExecutees` | `GdbLiaisonProofs` | `CommandesFideles`, the refinement |
| `ImagesChargees` | `GdbLiaisonProofs` | `ImageChargee` |
| `AnalyseurTypee` | `AnalyseurProofs` | `TypeOK` |
| `AttenteUtile` | `AnalyseurProofs` | `PasDAttenteInutile` |
| `DecoupagesFideles` | `AnalyseurProofs` | `DecoupageFidele`, the refinement |

The argument, bottom up:

1. `RecurrenceProofs`: a non-empty set of naturals has a least element
   (`Minimum`, from the well-foundedness of `<`). What is wrong for some index of a
   recursive function is wrong for a first one, so an induction becomes a proof by
   contradiction that needs no operator parameter. `EtapesExistent` and the lemmas
   after it give the folds their intermediate values, `FlattenAppend` and `Insere`
   are the facts about `FlattenSeq` and about insertion that the proofs cite. `Enfilees`
   is what the elements of a sequence give, one after the other, when each gives a
   sequence of its own: selecting, unfolding tables and concatenating lists are
   cases of it, and `EnfileesPlus` and its neighbours say what one element more adds.
2. `FusionProofs`, strings: writing a name keeps every name already written where it
   is (`Designe`) and the table stacked (`Empilee`), because a name goes at `val`
   and `val` only grows. Then the loops: the invariant `InvSymb` says what was done up to the
   current rank of the loop under way: each entry has its name, the entries are
   those of the ranks passed, in order, and a mark has a symbol of source 1 that
   justifies it. The properties alone are not inductive: they speak of the end.
3. `FusionProofs`, the merge: typing, for which `Deroulement` is needed (what `boucle` and
   the lists are at each `pc`): without it `ChargerSymboles` could be taken in a
   state where the symbols are half merged. Then names and contents: almost every
   action of `Fusion` that changes the
   result appends one header, one name and one part, at `offset`, and moves
   `offset` past it (lemma `Ecriture`), or writes none of these. Two lemmas on
   such a step carry names and contents; each action is then classified once
   (`Classement`). A name past the buffer may be lost, so what is carried is *found or
   past the end* (`DansLaTable`, lemma `BonNomReste`): `val` and the size allocated
   tell which, and a name already within the buffer cannot be lost later.
   `EcraserEntete` is the one step that changes a source (`MemesFichiers`): it keeps
   the types (`EcraseType`) and sets `altere`, under which the properties that read
   source 2 say nothing, and it leaves the length of its section table alone,
   which is all that layout and order need.
4. `FusionResultatProofs`: `Compte` strengthens `EnteteCoherent` with the number
   of headers at each `pc` – it is off by one between `EcrireStrtab` and the end –
   and with where `e_shstrndx` points once set. `Disposition` strengthens
   `PartiesSeparees` with *every part ends before `Limite`, none but the ELF
   header lies in the first `TailleEhdr` bytes*; a part at `Limite` is then
   disjoint from all. The same invariant maps each step to `EcritureElf`.
   `AvancementSections` says what the section loops have done so far: every header
   comes from a section already passed (`DePasses`), every section passed is in the
   list or merged (`ToutesPassees`), the sections of an assembled source 1 are at
   their own index (`Rangees`). At the end of the loops it is
   `AucuneSectionPerdue`, `OrdreSections` and `NumerosStables`. Trying to prove the
   last one showed which hypothesis it needs: besides coming last, the recomputed
   tables must not be program data and sections of one name must have one type
   (`Assemblee`), or `search_same_name` may merge across the two. Only the part of
   `ToutesPassees` that speaks of source 2 depends on `altere`.
5. `LectureProofs`, bytes and types: `Pousser_` and the loops of the two inversions are computed
   for four and two octets, which gives the word with its octets reversed; reading
   a field of the file reverses it too, hence `OrdreDuFichier`. `LectureTypee` needs
   `OptionEnCours` beside the types: in the loops the option at hand is still the
   word `getopt` is at, or the lines printed could come from any option, and a
   file read whole is in `sections` as it is. `EnInt` of a word is an integer
   (`EnIntType`), below 2048 the word itself, for which `LettresBonnes` follows the tests.
6. `LectureProofs`, display: the symbols read are those of the sections passed and
   of the part of the current one (`LusJusquIci`); a symbol more, or a section done,
   extends it. Swapping a loaded symbol gives it back, by `OrdreDuFichier`, so the
   list swapped once is the file's. `Dichotomie` shows that the binary search of an
   ordered table finds a name if and only if it is there, by the first
   interval on which it fails; `NomEnOrdre` that an insertion keeps the order and loses only
   the last name of a full table. `ToutEstAffiche` joins three invariants. Nothing is
   printed for the option at hand before its loop (`RienDit`: `optind` has moved on
   since the last line); the tables of relocations give the SHT_REL sections already passed, in
   order (`EntreesChargees`); and the two loops that print have printed the tables
   before `i` and the current one up to `j` (`EntreesImprimees`). The property only
   says what holds at the end, so it is none of them. TLC checked the three on the
   instance of the run before they were proved.
7. `RioProofs`: `InvLecture` adds to the types what a call under way has still to
   do: `Len(usrbuf) + nleft` (one more for a line) is a size asked for, and only the last byte
   stored by `rio_readlineb` may be a newline. Moving bytes between `flux`,
   `rio_buf` and `usrbuf` leaves their concatenation alone (associativity), so a
   step is a stutter of `Flot` until the call returns; then the invariant says that
   what is stored is the prefix `Flot` takes. `Reste` puts the internal buffer before
   what `rio_readn` has stored, so such a call is a stutter too; when it returns, `Flot`
   skips what the buffer holds, which is no more than `RIO_BUFSIZE`.
8. `GdbLiaisonProofs`, contents: `CodageFidele` computes `Decoder` after `Coder`
   byte by byte, and `Avancement` says that the buffer of `gdb_write_memory` is the
   end of the image, at its address, until it is empty.
   `LiaisonTypee` needs, besides the types, that nothing on the connection has a
   number that was not given yet.
9. `GdbLiaisonProofs`, delays: the queues have no bound of their own, so what they hold
   must be paid for by something. `EnVol` is that account: the packets, answers,
   refusals and characters on the two directions, and the invalid characters the
   scanner has yet to refuse, are together no more than the characters added by the
   noise, and one while a command waits; only an acknowledgement is free. A damaged
   packet or a refused one is replaced, not added. `NonExecutees` bounds by what is on
   its way how far the simulator is behind, `Gardee` says whose answer it would send again,
   and `Retards` gives each answer under way its delay, less the answers before
   it; the delay of the one taken is then `RetardBorne`. None of the four is
   inductive alone (`Dettes` is their conjunction), and the property says nothing
   of what is still on its way.
10. `GdbLiaisonProofs`, order: `EnOrdre` sharpens `NonExecutees` from *at most* to *exactly*:
    the commands on their way, to be executed or to be sent again, are those sent
    after the last one executed. It holds because under one kind of noise at most one
    command is refused, and then it is the last one (`PeuDeRefus`), which is the packet the client
    sends again; without damage nothing is refused at all (`Origines`). With it each
    step is one of `Commandes` or a stutter (`PasFidele`). `TousLesPas` and
    `Mouvements` classify the actions of `Next` once, by what they do to the
    queues, and every invariant above is proved on the classes.
11. `GdbLiaisonProofs`, memory: under one kind of noise and while packets fit, there are a
    table `d` and a number `h` such that command `n` loads the image from byte
    `d[n]` up to `d[n + 1]` if it comes before `h`, sets the register if it is `h`,
    and starts the simulator after it (`Chargement`). They speak of what a command is, not
    of when it is executed, so a command sent again changes neither; `EnOrdre`
    says which number is executed next, hence the memory is the image up to
    `d[Len(executees) + 1]`. The simulator is started by a command after `h`: by then
    the whole image and the register are there. `d` and `h` are quantified, for
    the model does not keep the commands already executed.
12. `AnalyseurProofs`, automaton: the compressed tables are unfolded once into the
    transitions they stand for; `Mene(s, r, q)` then says what the first `q`
    characters of a text `r` are when they lead to state `s` (state 9, for one: a `$`, then
    neither `$` nor `#`). A run is a recursive function on the positions;
    `RecurrenceProofs` gives its first failure, so that `Mene` holds all along it,
    and `EstDernier` which accepting state it met last. `Issue` is what a run finds
    in a buffer: the end-of-buffer rule on a NUL, the text before it being one that
    can go on (`Ouverts`), or the longest text of a rule. That a rule is given one
    character only where no packet begins (`SansPaquet`) is where the longest match matters.
13. `AnalyseurProofs`, buffer: `Reste`, the text under way followed by what the
    descriptor still holds, is left alone by every move, growth, read and restart
    of the buffer. `Inv` says at each label what the automaton has found of `Reste`, in
    terms that do not depend on where the buffer ends: that is why a text half matched
    before a read is still matched after it. A NUL of the stream and the end of
    the buffer are told apart by the position alone. The three theorems follow from
    `Inv`; `TypeOK` alone is not inductive, for the position after `yy_find_action` is
    that of the last accepting state, which only `Issue` bounds (`dernier` may be left
    from the previous text, and is then not used). `Inv` was checked by TLC on the
    instance of the run before it was proved.

Every invariant and action property the passing runs check, and every refinement, is a
theorem above. Only model-checked:

- every liveness property (`Terminaison`, `FusionSeTermine`, `Termine`, `FinRendue`,
  `Rend`): the prover does not handle fairness;
- what a recursion over data computes for every input, but where `RecurrenceProofs`
  gives a first counterexample.

## 5. What the code does not do

| Run | Where | What |
|---|---|---|
| `meme_nom` | `mains.c:259` | `search_same_name` is given source 1, so a section is merged with whatever has its index in source 2, or with what lies past the end of its table |
| `contenu` | `ecriture.c:142` | the second half of a merged section is read from source 1 |
| `chaines` | `table_string.c:71` | the names of the symbols outgrow their buffer when the sources share names |
| `paquet_tient` | `gdb_protocol.c:154` | a chunk of the largest size does not fit in the packet |
| `retransmission` | `scanner.l:55` | invalid data with nothing after it is never refused |
| `entrees` | `lecture.c:212` | a SHT_RELA section is announced with 0 entries and none is printed |

More that the models show as steps and no run forbids. After "impossible de
fusionner les fichiers" (`fusion.c:180`) `main_fus` goes on and writes a complete
result: `ErreurPartielle` says what it then holds. A name that *differs* is taken
for a second definition (`fusion.c:55`): `MarqueJustifiee` says what justifies a
mark. `rio_readlineb` counts one byte more than it stored when it stopped before
the newline (`csapp.c:709`): `Flot` says so (`ValeurLigne`). A lone NUL is kept by
the scanner until the next character, as `PasDAttenteInutile` allows. `-C` accepts the
index `e_shnum`, one past the last section (`mains.c:84`), and after one invalid
character `gdb_cont` takes the second copy of the previous answer for the end of
the simulation (`gdb_protocol.c:187`; `RetardBorne` allows exactly that).

The properties of the passing runs state what the code achieves all the same:
`NumerosStables`, for one, needs the recomputed tables to come last in source 1, as
the assembler of the examples leaves them, none of them to be program data, and the
sections of one name to have one type (`Assemblee`).

## 6. Limits and plan

Not modelled, and why: allocation failures (`malloc`, `realloc` and `fdopen` are
not tested by the code); a result that is also a source; file contents that stop
inside a symbol or relocation table, or inside a record; record sizes that are not a
multiple of the entry size; words of the command line that `getopt_long` would
reorder before `argv[3]` is read; the wording of what is printed and the names of
types; the section flags above 2047 or with bit 8, which are masks; the
hexadecimal dump of `-C` (`affichage.c:260`, which does not pad a byte to two
digits) and the reading of a relocation's type; the fields the display does not
print; a little-endian file or a big-endian host, which the code never asks for
(`lecture.c:14`); the functions nobody calls (`Supprimer`, `vider`, `free_section`,
…); what the scanner echoes to the terminal.

Of `scanner.c`, `input`, the `yy_scan_*`, `yypush_buffer_state`,
`yypop_buffer_state` and `yy_switch_to_buffer` are called nowhere; a buffer that can no
longer grow (1 GiB, or no memory) is only the action `Fatale`. Of `csapp.c`, the
program uses `Rio_writen` only; the readers are modelled because they are there
with their buffer. A `write` that returns 0 is retried when `errno` still holds
`EINTR`: it changes nothing and is left to the fairness. The other functions are
one call and an exit.

Done, in this order: `TableString`, `FusionSymboles`, `Fusion`, `EcritureElf` and
their proofs; `GdbPaquet`, `GdbLiaison` and `Commandes`; `Listes`, `DebugFiles`,
`Lecture`; `Analyseur` with `Decoupage`; `Rio` with `Flot` and their proofs;
`Endian`, its proofs, and its use in `Lecture`; the proofs of the section loops of
`Fusion`, of `Lecture`, of `GdbLiaison` with its refinement of `Commandes`, and of `Analyseur`
with its refinement of `Decoupage`.

Next: the composition of `Analyseur` with `GdbLiaison`, which takes the texts given to
the rules as its tokens; the step between them is `Decoupage`.
