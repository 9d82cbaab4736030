# PrisonServerEmulator in TLA+

A verification project for the server of this repository: models of its parts
that TLC checks on small instances, and theorems about them that TLAPS checks
for every value of the constants. Names follow the source.

## The system

One Windows process, four threads:

| thread | runs | keeps |
|---|---|---|
| login | `ServidorUdp::ejecutar` of `ServidorLogin` (UDP 25666) | `conexiones_`, `siguienteId_`, the MySQL handle |
| updates | `ejecutar` of `ServidorUpdates` | nothing: it logs what it receives |
| world | `ejecutar` of `ServidorMundo` (UDP 25001) | its own `conexiones_`, the tables built by `prepararContenido` |
| window | `WinMain`, a timer of 1 s | what it shows, read from `monitor` |

Each server thread receives one datagram, handles it to the end, and receives
again; nothing is retransmitted and nothing times out on the server's side. The
threads meet in three places: `monitor.cpp` (under a mutex), the log file, and the
function-local `static` arrays of `enviarFiable` and `enviarFragmentado`
(under no lock). Clients are not part of the repository: in most models they and
the network are free, and may repeat, reorder or never send a datagram; where an
answer to the client matters (`Enlace`, `Tabla`) the client is what the comments
of the source tell of it, and is marked external.

### Components, their state, and what makes them correct

* **servidor_login.** A map from endpoints to `Conexion`; handlers for SYN,
  ACK, FIN, and the records of data datagrams (LOGIN, CREAR_PERSONAJE, LATIDO,
  PIDE_SERVIDORES, JUGAR, SELECCIONAR). Hard: every record may come twice or in
  any order, the account read at the SYN is judged at the LOGIN, an INSERT may
  fail, MySQL may be gone. Correct when each question is answered once, message
  ids leave no hole, two addresses do not share an account, characters get
  slots and nicks of their own.
* **estados_cuenta.** The verdict on an account. Correct when the order of the
  tests decides and every state has its code.
* **servidor_udp.** The loop, and the helpers that number, cipher and send.
  Hard: two threads in one static array. Correct when a packet is the one its
  caller asked for.
* **servidor_mundo.** Connections, PING/PONG, and the appearance of a player:
  up to ten messages with a `Sleep` after each, sent by the only thread.
  Correct when a connection hears the whole sequence once, PINGs are answered
  in the end, and the monitor agrees with the connections.
* **monitor**, **main**. The list of players, its peak, the log queue; the
  window reads each under a lock of its own. Correct when the window shows the
  state of the monitor, and the newest lines of the log.
* **registro**. One line to the queue of the monitor, then to the file, by any
  thread; `WinMain` opens the file first. Hard: the two are not one step, a
  server whose port is taken logs for ever, the window may be late, the program
  may end meanwhile. Correct when lines are lost only from the old end of a full
  queue and no thread's earlier line comes after a later one.
* **The transport** (the head of `procesarPaquete` and `procesarDatos`). A
  handshake that gives the client an id and a masked key, an ACK per datagram
  that asks for one, FIN. Hard: the client repeats, the server never does, and
  datagrams of an earlier attempt look like new ones. Correct when both sides
  have the same key, a confirmed record is not dropped, a close ends.
* **base_datos**, **sql**. Queries that give a default when MySQL fails.
* **cifrado**. The XOR chain, Adler-32, and `comprimirZlib`: greedy LZ77 on hash
  chains, written with the fixed Huffman code. Correct when the client's inflate
  gives the table back and the output fits the caller's array.
* **protocolo_sns**, **utilidades**. Records and numbers on the wire. Correct
  when the reader of records finds what the writer wrote.
* **configuracion**. Environment variables, read once.
* **servidor_updates**. Logs each datagram; keeps nothing.
* **nombres_objeto**, **diag_capture**, **analysis**, build files: no state that
  another part depends on.

The hazards, each at its line and with the properties aimed at it, are in
`PROJECT.json`.

## Modules

| module | models | its state in the code |
|---|---|---|
| `EstadosCuenta` | `evaluarEstado`, `contrasenaCoincide`, `estadoARechazo` | none: operators |
| `ServidorLogin` | `servidor_login.cpp`, the queries of `base_datos.cpp` | `conexiones_`, `siguienteId_`, the tables, the clock |
| `ServidorMundo` | `servidor_mundo.cpp`, `monitor.cpp`, `refrescar` of `main.cpp` | `conexiones_`, the socket queue, the appearance in hand, players and peak, the window |
| `EnvioUdp` | `enviarFiable`, `enviarFragmentado` under two threads | the two static arrays, where each thread stands, `idMensajeTx` |
| `ServicioLogin` | what the login server promises its clients | abstract: the session of each endpoint, the answers given |
| `ServicioMundo` | what the world server promises its clients and the window | abstract: sessions, what each heard of its appearance, players listed, peak |
| `Enlace` | the transport of `servidor_login.cpp`: SYN, ACK, FIN, LOGIN, over a network that fails | the `Conexion` of one endpoint, `siguienteId_`; the client; the datagrams |
| `Compresor` | the loop of `comprimirZlib` | `i`, `head`, `prev`, the search in hand, what was emitted |
| `Cifrado` | the pure functions of `cifrado.cpp` | none: operators |
| `Trama` | `componerMensajeApp`, the record loop of `procesarDatos`, the split of `enviarFragmentado`, `utilidades.hpp` | none: operators |
| `Tabla` | a compressed table from the request to the client | `EscritorBits`, the packets, the client's fragments, where its inflate is |
| `Registro` | `registro.cpp`, the queue of `monitor.cpp`, `iniciar`, `WinMain` | `g_archivoLog`, `colaLog`, the file, the console, where each thread is in its call of `log` |
| `MC...` | instances for TLC | |
| `..._proofs` | theorems about the module of that name | |

`ServidorLogin` EXTENDS `EstadosCuenta` and instantiates `ServicioLogin` with its
own state, as `ServidorMundo` does `ServicioMundo`; `Tabla` EXTENDS `Compresor`, `Cifrado` and `Trama` and drives them. The
servers' modules are otherwise apart, because the code shares nothing between
them but the arrays, which `EnvioUdp` models for all, and the log.

**ServidorLogin.** One action per kind of datagram (`RecibirSyn`, `RecibirAck`,
`RecibirFin`, `RecibirDatos`) and one per branch of the if-chain of
`procesarDatos` (`LoginAceptado`, `LoginRechazado`, `NickRepetido`,
`CrearPersonaje`, `Latido`, `PideServidores`, `Jugar`, `Seleccionar`,
`Saltar`). A data datagram is a sequence of records; `pendientes` holds those
not handled yet, and only then the thread receives again, but other programs
may change MySQL between two records. `Rama` is the chain of guards. `red` is
every application message ever sent, with its connection and message ids; the
replies of the transport (SYN-ACK, ACK, FIN-ACK) change no state here; `Enlace`
has them. A message keeps what a property tells apart: its opcode, a number and the
characters it shows. A creation block is told apart by the name it begins with:
the nick stored is that name cut at 31 characters, or "Recluso" if it is empty or
there is no block (`NickDe`), and CUENTA copies the block, name and all, over the
card, so that only a character without block shows its nick (`Rotulo`). What a
block without the final 0 of its name leaves of the card it falls on is not
modelled. An absent key of `conexiones_` is `SinConexion`, whose id
0 no connection ever has. A record is read from its decrypted bytes, whose
layout `Trama` has. The answer of
`comprimirZlib` for the rich list fits one fragment for any prison name that
fits its buffer.

**ServidorMundo.** The thread either sends the next message of the appearance
in hand (`Aparecer`) or takes a datagram out of the socket queue; datagrams
arrive at any time, so a FIN, a SYN or a PING may wait behind a spawn. The
monitor's calls are part of the action of the handler that makes them. The
window's `refrescar` reads number and peak in two steps, as it takes the lock
twice.

**EnvioUdp.** A call of a helper goes through the statements that write the
array (header, id, memcpy, cifrar) and sends it; each is a step, and the other
thread may step in between. The data race of the C++ code can also tear a field;
a field here is written whole, so every mixture shown is one the build can
produce, but not every one is shown.

**ServicioLogin.** A session is opened under an id never used, replaced or
closed; on it there is one verdict, one acceptance and one entry at most, no
acceptance before the verdict, and nothing after it is gone. The mapping reads
the session of an endpoint from its `Conexion` and the answers from `red`; the
flags, the datagrams and the tables have no counterpart.

**ServicioMundo.** A session hears its appearance message by message, once; while
one is half told nobody opens, closes or begins; a player enters the list with
CREAR_JUGADOR, under the session that is appearing, and leaves it with the
session's FIN. The mapping reads the sessions from `conexiones_`, what they heard
from the messages sent, and the list and the peak from the monitor. The socket
queue, `enviadoAceptar`, the task in hand, PING and the window have no
counterpart. A session replaced by a new SYN leaves its player listed (finding
`mundoLista`), and the service says so.

**Enlace.** One client at one endpoint, which opens, sends a LOGIN, closes, and
opens again. `ida` is everything the client ever sent: any of it may be taken
by the server at any time and any number of times, so old datagrams come late
and twice. `vuelta` is what the server sent and was not lost. The LOGIN may
reach the server before the ACK of the handshake, whose phase the code never
tests. A 32-bit word is the set of its bits, so XOR and the mask are set
operations and the key exchange is exact. A datagram of an earlier attempt is
told by the nonce only where the server echoes it.

**Compresor, Cifrado, Trama, Tabla.** `Compresor` is the while loop of
`comprimirZlib`, one action per turn of its inner loops: look up the chain,
try a candidate, emit a literal or a repetition, insert a covered position. Its
limits and the hash function are constants. `Tabla` writes the bits of each
token as it is emitted, ends the stream, sends it as the rich list
(`enviarFragmentado`) or as CLASSINFO (`enviarFiable`), lets the packets arrive
in any order, and inflates symbol by symbol, one action for a literal, a
repetition and the end of the block, with an inflate written from RFC 1951's
arithmetic and not from the encoder's tables; what does not fit, or a wrong size or
checksum at the end, leaves `tramo` at `"rota"`. `EscritorBits` is the sequence of the
bits it was given, the pending ones of `buf` included, and `Escrito` is what `out`
holds of them. Loops are recursive functions over sequences of bytes, with no
recursive operator, so that theorems can be proved about them. `comprimirZlibStored`, which nothing calls,
is checked as an operator. The client's rule for one packet (records, or raw if
it is no chain of records) is an assumption: the comments say that several
fragments are joined raw and one packet is read as records, and
`enviarFragmentado` sends raw data also when one fragment is enough.

**Registro.** `Guion` is the order of `WinMain`; each of its steps says how many
lines it logs and `Empezar`, `Emitir`, `Escribir` are the three parts of a call
of `log`, in any thread. A server whose socket is not bound logs one line at
every turn of `ejecutar`, without a datagram. `Refrescar` is `drenarLog` and
`appendConsola`. Lines carry no text but their own name, repeated for their
length, so that the end of a full console may fall inside a line. The console is an
EDIT control that is never sent `EM_SETLIMITTEXT`; `LimiteEdit` is the limit Windows
gives such a control (external: about 30000 characters), and `EnEdit` the insertion
that it cuts. `LimiteEdit <= MaxTexto` is assumed, as 30000 <= 120000, and so the trim
of `appendConsola`, which is in the model, never acts. The time in a line is read before
the queue's mutex, so times in window and file may go back by the length of a
call; and the two may order overlapping calls differently. From the end of the
message loop on the window does nothing, the threads still run, and the process
may end at any moment.

## Runs

| run | question | states | bounds |
|---|---|---|---|
| `pasos` | one answer per question, ids without holes, types, and the service implemented, when records repeat, reorder and group, the account is edited and MySQL dies | 2.9*10^5 | two connections made, one with key 0; five datagram shapes of one or two records; no datagram received beyond message id 4, which lets a connection send a whole `CUENTA` (5 fragments) and the longest `LATIDO` |
| `sesiones` | when may two addresses hold sessions of one account | 1.3*10^6 | three endpoints of two addresses, three connections, clock 1..3 with `CADUCIDAD_USO` = 2 ticks: expiry happens, and activity just before it too |
| `personajes` | slots, nicks, and what CUENTA shows | 1.9*10^6 | two accounts; creation blocks with a name that is empty, over 31 characters, the same once cut, and none at all; one deletion, MySQL may die |
| `mundo` | appearances, monitor, window, PINGs, and the service implemented | 1.4*10^5 | two players, four datagrams (a player appears, repeats, leaves or reconnects while the other waits), the whole sequence of ten messages |
| `envio` | what the two static arrays still guarantee | 1.0*10^6 | three packets of a login client, with one message of two fragments, and two of a player |
| `enlace` | the same key on both sides, no confirmed LOGIN dropped, the verdict and the close in the end | 1.6*10^5 | two attempts of the client, three connections of the server, two lost datagrams; words of four bits, two addresses of which one has key 0: an old SYN, FIN or LOGIN can meet every state of the next attempt |
| `tabla` | tables come back whole, the compressor's tokens, chains and search, the size of the output, the codes | 2.7*10^4 | every buffer of up to 7 bytes of two values and of 4 bytes of three, and eight of 19 and 40 bytes that repeat; limits scaled down (24 of 258, 10 of 32768, chain 2 of 256) so that each is reached; fragments of 12 bytes |
| `registro` | what the log shows | 3.7*10^5 | seven lines at the start, a queue of eight, a console that is full in the ninth line, two lines of updates, one of world and one command; with or without file and sockets; a window that may drain at any time or never |
| `enUso`, `creado`, `mundoLista`, `paqueteIntegro` | a sentence of the source that the code does not keep | | the bounds of the runs above |

`MaxId`, `MaxIdMensaje`, `MaxReloj`, `MaxBorrados`, `MaxLlegadas`,
`MaxPaquetes`, `MaxIntentos`, `MaxPerdidas` and `MaxLineas` are bounds of the
model, in the guards of the action they bound. `mundo` and `envio` stop when
their bound is reached and `registro` when the process ends, so deadlock is not
checked there; the login server always accepts a FIN, and `tabla` goes on only
once the client has the table.

**What the safety properties say.** `RespuestasUnicas`, `NumeracionContinua`:
the three flags and one counter of `Conexion` stand against every repetition
and order. `SesionUnica`: two addresses share an account only if one of them
was silent for 60 s at some time. `RanurasContiguas`, `CreadoUnaVez`,
`InsercionPrevista`, `CuentaCompleta`: what the count taken before the INSERT,
the nick test and the three slots achieve, and under which conditions. `RanurasContiguas`
is about accounts that lost no character; after a deletion slots may collide.
`CuentaCompleta` says which cards CUENTA has and that a card shows the stored nick, with
the two exceptions of the code: an empty name is stored as "Recluso" and shown empty, one over
31 characters is stored cut and shown longer.
`AparicionEntera`, `ListaFiel`, `VistaCoherente`: the spawn sequence against
queued and repeated datagrams, the monitor against the connections, the window
against the monitor. `FragmentosIntegros`, `MezclaSoloSolapada`: large messages
survive the second thread, and small ones are spoilt by real overlap only.
`ImplementaServicio`: all of a server's steps seen as steps of
`ServicioLogin` or `ServicioMundo`. `ClaveCompartida`, `ConfirmadoNoEspera`: what holds between
client and server whatever the network does; the latter names the four ways
in which a client that stopped repeating its LOGIN may wait in vain (the verdict
was lost; a late SYN or FIN; the LOGIN of an earlier attempt took the verdict; a
key that is 0). `Fiel`, `FichasValidas`, `FichasExactas`, `CadenasCompletas`, `Voraz`,
`TablaLlega`, `TamanoAcotado`, `CodigosExactos`, `StoredFiel`, `RegistrosLeidos`:
the compressor is right, finds what its limits allow, and client and server
agree on every byte. `TamanoAcotado` bounds the growth and thereby shows that the list
of at most 256 bytes fits its 512; that the tables of up to 16384 bytes fit arrays of
the same size rests on what they hold, which is not modelled. `VistaCoherente` is about
number and peak, not the list. `ColaFiel`, `ConsolaFiel`, `OrdenReal`, `FicheroAlDia`: the
window and the file against the calls of `log`; the console has the first
`LimiteEdit` characters it was given, in one piece, and nothing that came after.

**Fairness.** `mundo`: `WF_vars(Hilo)`, because `ejecutar` loops for ever in a
thread of its own and `Sleep` returns. Clients and window owe nothing.
`PingContestado` (a PING that waits, without a FIN of its endpoint before it, is
answered) rests on it; it says that the answer comes, not how soon: the clients'
patience of about 5 s is not in the model. `enlace`: the server takes what the client insists on
(its loop never stops, and the client repeats SYN, LOGIN and FIN until answered:
the comment on FIN at servidor_login.cpp:140 counts about ten times, here it does
not give up), and the client takes what the network did not lose; neither old
datagrams nor losses are fair. `VeredictoLlega` and `CierreConfirmado` rest on
it. `tabla`: `WF` on the loop of `comprimirZlib`, one thread's code without a
wait, for `Acaba`.

**Findings.** Four sentences of the source are not kept: `CUENTA_EN_USO` is
sent when nobody is in (`enviadoLogin` is set before the verdict, so a rejected
client counts as a session); CHARCREATED does not confirm the INSERT; a player who sends a new SYN stays listed under the old id; a packet of
`enviarFiable` may leave with another thread's contents.

A fifth thing is stated by a property that holds, `ConsolaFiel`: the window stops
showing new lines when its EDIT control is full, because the trim of `appendConsola`
("Recortar si crece demasiado", main.cpp:114) waits for 120000 characters in a control
that takes about 30000; the log file goes on. In the same way `CuentaCompleta` names the
cards of CUENTA that do not show the stored nick.

## Proofs

Checked by tlapm for any constants that satisfy the modules' assumptions
(`HashesAssumption`, `ConfigAssumption`, `LoginAssumption`, `IdsDeCuentaAssumption`,
`MundoAssumption`, `EnvioAssumption`, `EnlaceAssumption`, `CompresorAssumption`,
`RegistroAssumption`, and for `Tabla` `FormatoAssumption`, `EntradasAssumption`,
`CasosAssumption`; TLC evaluates them in the runs). Every invariant that a passing
run checks is a theorem; so are `ImplementaServicio`, of both servers, and the
action property `CuentaCompleta`.

* `TipoCorrecto` (`ServidorLogin_proofs`): `Spec => []TypeOK`. `TypeOK` is
  inductive. One lemma per group of actions; the records of the chain go
  through `AtenderContesta`: every handler is one `Responder` of a well-typed
  sequence of messages and a connection that differs only in its flags, so
  later invariants look at one form of step instead of nine.
* `RespuestasSonUnicas` (`Unicidad_proofs`): `Spec => []RespuestasUnicas`.
  `RespuestasUnicas` alone is not inductive: that the flag of an answer is
  still unset must imply that no such answer was sent *on this connection*.
  The invariant adds that ids of connections and messages are below
  `siguienteId` and connections have different ids (`IdsDados`), that the messages
  of a connection have ids up to its `idMensajeTx` (`EnCurso`), and that an answer of a class sets
  the flag of the class (`Anotadas`).
* `NumeracionSiempreContinua` (`Unicidad_proofs`): on top of that invariant,
  `Numeracion` says that no two messages of a connection share an id, and that
  the ids taken are exactly those from the first to `idMensajeTx`. A step that
  sends adds the next group of ids; that each id of the group is of exactly one
  fragment of one message is arithmetic of a division by the number of fragments
  (`DivisionEntera`, `GrupoDe`, `IdsDeNumerados`).
* `CuentaSiempreCompleta` (`Unicidad_proofs`): an action property, about the
  CUENTA that a step adds to `red`; the slots it reads from are those of
  `InvTablas`, so the first three rows are all of them and each has its card
  (`FichasCompletas`). That the card of a block stored as it came shows the stored nick
  is `NicksGuardados`: every row has the nick of its block.
* `UnaSesionPorCuenta` (`Unicidad_proofs`): `SesionUnica` needs that the clock has
  not wrapped and no activity lies in the future, so that the subtraction modulo
  2^32 is exact (`Reloj`, from `MaxReloj < Palabra` of `LoginAssumption`), and that
  an account found has an id that is not 0 (`Identificadas`, from
  `IdsDeCuentaAssumption`): for id 0 `cuentaYaConectada` does not look.
* `CadaPersonajeUnaVez`, `InsercionSiemprePrevista`, `RanurasSiempreContiguas`
  (`ServidorLogin_proofs`): one invariant of the tables, `InvTablas`. That nicks are
  unique (`NicksUnicos`), that an announced creation has its row and the other way
  round (`Anunciados`, `Creaciones`, `Distintas`), and that the slots of an account
  that lost nobody are 0 .. n-1 (`Ranuras`) hold each other up: the slot is a
  count, and a count is a free slot only if nothing was deleted and all the slots
  below it are taken.
* `FragmentosSiempreIntegros`, `SoloMezclaElSolape`, `TipoEnvio`
  (`EnvioUdp_proofs`): `FragmentosIntegros`, `MezclaSoloSolapada` and `TypeOK`
  for any threads, connections, fragment counts and packets per connection. What
  was sent says nothing of the packet being built, so the invariant `InvEnvio`
  adds: a call is for a connection of its thread, and `pedidos` ends with what
  the call has still to send (`LlamadaOK`); unless another thread wrote there,
  the array holds what the call has done so far (`Progreso`); nobody else writes
  the array of a thread that fragments (`FragmentoSolo`); the counter is the
  number of packets sent, or one more while one is numbered and not sent
  (`CuentaOK`); what was sent is right (`SalidaOK`). `FragmentoSolo` is where
  `EnvioAssumption` counts: one thread only calls `enviarFragmentado`.
* `ServidorImplementaServicio` (`Unicidad_proofs`): `Spec => ImplementaServicio`,
  every step of the login server is a step of `ServicioLogin` or leaves its state
  alone. On top of the invariant of `RespuestasSonUnicas` it needs that a
  connection whose `enviadoLogin` is set was sent a verdict (`Juzgadas`): the
  guard of LATIDO and SELECCIONAR then stands for the order verdict, acceptance.
* `TipoMundo`, `AparicionSiempreEntera`, `ListaSiempreFiel`,
  `VistaSiempreCoherente` (`ServidorMundo_proofs`): the invariants hold together
  (`InvMundo`). The only strengthening is `Aceptada`: the connection whose
  appearance is in hand says that it was accepted, so that the last message of
  the sequence leaves it whole and marked.
* `MundoImplementaServicio` (`ServidorMundo_proofs`): `Spec => ImplementaServicio`,
  from the same `InvMundo`. A datagram is taken only between appearances, and
  then `AparicionEntera` says that every connection heard nothing or all
  (`TodosQuietos`); in an appearance the head of what is left is the next message
  of the whole (`Siguiente`), and the two branches of `clienteEntra` come to one:
  the new entry takes the place of the old, the peak is the most ever listed
  (`EntraEs`).
* `TipoEnlace`, `ClaveSiempreCompartida`, `ConfirmadoNuncaEspera`
  (`Enlace_proofs`): for words of any size, any endpoints, mask and timestamps.
  `ClaveRecuperada` is the key exchange itself: what the client computes from
  `f1` and `f2` is K. The invariant adds that whatever is in the network was
  made with the endpoint's key (`Llaves`), that ids and attempts in it are of the
  past (`Ids`, `Orden`), that nothing is confirmed before it is sent
  (`Primero`, `SinConfirmar`), and that a connection whose LOGIN was confirmed
  has judged one (`Atendido`).
* `TipoCompresor`, `CompresorFiel`, `FichasSiempreValidas`,
  `CadenasSiempreCompletas` (`Compresor_proofs`): for any buffer, limits and hash
  function. The invariant says what the search in hand has found (the bytes from
  the candidate on are equal) and where an insertion stands. That a repetition
  may overlap itself is an induction over its bytes; as the prover cannot use an
  induction rule, it takes the first byte that differs (`Menor`: a set of
  naturals that is not empty has a least element) and shows that there is none.
* `SiempreVoraz` (`Compresor_proofs`): while a search is in hand, the candidates
  passed are those of the chain after `cand`, they are `MaxCadena - pasos`, and
  none repeats more than `mejorLen` (`Busqueda`). `CadenasCompletas` makes the step
  from `cand` to `prev[cand]` pass exactly one more. At the end each of the four
  reasons to stop leaves no candidate out.
* `FichasSiempreExactas` (`Compresor_proofs`): what is needed besides is where the
  repetition being inserted ends (`InvExactas`).
* `BucleAcotado` (`Compresor_proofs`): `Rango` falls at every step and stays a
  natural. With the fairness of `tabla` it is the argument of `Acaba`; the last
  step of it, from fairness to the end, needs ENABLED and stays with TLC.
* `ColaSiempreFiel`, `FicheroSiempreAlDia` (`Registro_proofs`): for any number of
  lines and any limits. `ColaFiel` is carried line by line (`Ultimas`: line j of
  the queue is line j of the last `Espera` emitted), which a drop at the head
  keeps. `FicheroAlDia` needs that a line a thread holds for writing was emitted
  (`Emitidas`) and that nobody logs before the file is open (`Callados`); the
  start-up must then stay in its place of `Guion`.
* `TipoRegistro`, `ConsolaSiempreFiel` (`Registro_proofs`): `ConsolaFiel` is inductive,
  because what the control cuts from one text leaves no room for the next
  (`PrimerosDeJunta`) and the trim finds nothing to do. That the text of two lists of
  lines is the text of one after the text of the other (`TextoDeConcat`) is
  again arithmetic of a division, which is why `Texto` says which line each
  character is of.
* `OrdenSiempreReal` (`Registro_proofs`): the file and the window lose lines in
  different ways, so the invariant `Ordenes` carries the order in the history of
  emissions and relates both to it. A line is emitted once and before its thread
  lets it go (`UnaVez`); a call that was over when b began was emitted before b
  (`Acabadas`); and what the window has, with the queue behind it, is a
  strictly increasing selection of the emissions (`Dentro`, `DentroDeTodas`),
  whatever was dropped. In the file a line comes in late but never after one
  that began when it was over, because a line in hand is in no `tras`.

* **The codecs** (`Tabla_proofs`). What a loop over bytes computes takes an
  induction, and the provers take no induction rule. `Induccion` states it for a
  set of numbers (a set with 0 and the successor of each of its members below n has
  all up to n: the least one left out, from `Menor`, would contradict that), and
  each proof puts "the loop is right up to here" into such a set. That a recursive
  definition is the function its equation describes needs that such a function
  exists: `Iterada` builds it for loops that go one step at a time, `HayAdelante` for
  those that jump to a later position (records, blocks).
  * `RegistrosInversos`, `RegistrosSiempreLeidos`: `descifrar` undoes `cifrar`
    (`DescifrarEs`, from the XOR of two bytes, eight bits each), and after each
    record that `Agrupar` wrote the loop stands where the next begins, four bytes of
    zero at the end (`HayRegistro`, `RegistroDetras`).
  * `CodigosDeTodos`, `CodigosSiempreExactos`: the 29 lengths and 30 distances of the
    tables, row by row (`Longitudes`, `Distancias`), and what the search returns
    (`IndiceEs`).
  * `StoredInverso`, `StoredSiempreFiel`: where each block begins in the stream
    (`Cortes`, `FlujosEs`), and that the reader, from the last block back to the
    first, gives what is left of the input.
  * `TamanoSiempreAcotado`: the invariant `InvEscritor` carries the stream while the
    compressor writes it. There is a path of bit positions, one for each token, and
    from each to the next the stream has that token's code (`EsCamino`,
    `EsFicha`); a token takes at most nine bits for each byte it stands for.
  * `TablaSiempreLlega`: three invariants. `InvEscritor`: the stream is header,
    tokens, end of block and checksum. `InvEntrega`: what is in the network and what
    the client has are a split of one message (`Reparto`, `Recibidos`), whose parts
    make it again (`TrozosJuntos`; a fragment of a list is no chain of records,
    `ListaSinRegistros`, and CLASSINFO in one packet is one). `InvLectura`: the
    client's bit is where a token begins, and it has the bytes that the tokens
    before tell (`EnFicha`). A step of the inflate then reads back what the writer
    wrote: the first seven bits tell the length of a code (`LeerSimbolo`), extra bits
    and tables agree with the arithmetic of RFC 1951 (`LeerRepeticion`), and a
    repetition that overlaps itself is the period of the bytes before it
    (`Periodo`, `CopiarEs`), by `FichasSiempreExactas`.

Only model-checked: liveness (`PingContestado`, `VeredictoLlega`, `CierreConfirmado`,
`Acaba`), which takes fairness and ENABLED.

## Not modelled, and why

* Window drawing, memory figures, log text, the contents of the world's tables
  (`prepararContenido` is one step that logs), `diag_capture`, the name table.
* What the detached threads do with the objects that `WinMain`'s return destroys:
  `Registro` lets them run until the process ends, and their use of a destroyed
  queue or socket has no defined outcome.
* More than 255 fragments (`ventana` and `ack` are one byte): the largest table
  has fewer.
* A clock set back (the subtraction of `uint32_t` would expire every session),
  a `START_FIELDC` of 0 (ids would start at 2^32-1).
* MySQL lost between two queries of one record; another writer of `characters`
  between the count and the INSERT (other programs only delete, between records).

## Plan

Done, in order of importance: the login server, the shared arrays, the world
server, the abstract services of both, the transport, the compressor and the wire format,
start-up and log; theorems for every module, the codecs included. Next:

1. An abstract specification of the log, and that `Registro` implements it.
2. The world server's transport as an instance of `Enlace`: the code is the same,
   without the verdict.
3. Two clients that keep each other out of an account, once a client's retries
   are known.
