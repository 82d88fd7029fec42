# A verification project for p2p-file-sharing

TLA+ models of the peer-to-peer file sharing program in `src/src`, TLC
configurations that check them on small instances, and proofs that TLAPS checks
for every value of the constants. The code is the reference: definitions follow
the code line by line, not its comments (`PROJECT.json`, "map").

## 1. The system

A **tracker** keeps users, groups and the files shared in the groups. A **peer**
logs in and either *shares* a file (a seeder) or asks the tracker who has it (a
leecher). A file is cut into pieces of 512 KiB, and a torrent file, made by
`torrent_generator`, lists the SHA1 of each. A leecher starts one thread for
each peer the tracker lists; the threads fetch pieces over HTTP from the upload
servers of those peers. Every peer, leechers too, runs an upload server.

| component | state it keeps | operations | speaks to |
|---|---|---|---|
| downloader threads, `tsafe_set` (`client.cpp` 204-296, 417-472, 686-770) | set of pieces, `pieces_priority`, `ndata`, the file | `remove_top`, `push`, `update_priority`, `download`, `write_piece`, `update_ndata_callback` | upload servers of neighbours; the shared stream |
| `upload_server`, `tsafe_fstream` (`client.cpp` 59-144, 299-415) | one stream with one position and one mutex, one buffer | `callback`, `read_piece`; `seekg`, `tellg`, `read`, `write` | `http_server` threads; the downloader threads of the same peer |
| `tracker`, `sqlite_client` (`tracker.cpp`, `sqlite/sqlite_client.cpp`) | tables USER, TOKEN, GROUP, MEMBER; maps `groups`, `token_map`, `address` | eight resources: `/signup` `/login` `/logout` `/create_group` `/join_group` `/leave_group` `/share_file` `/peers` | `http_server` threads; SQLite |
| `tracker_client`, `peer::start` (`client.cpp` 480-631, 835-861) | the token, one connection | a request for each resource; start-up and joining of threads | tracker |
| `bitfield` (`client.cpp` 146-202) | a string of bytes | `[]`, `set`, `reset`, conversions | - |
| `http_client`, `http_server` (`http.cpp` 476-772) | a connection; the accept loop and its threads | framing, send and receive loops, retry | sockets, callbacks |
| HTTP messages (`http.cpp` 25-470) | - | serialise, parse | - |
| `inet_socket`, `sock_addr` (`socket.cpp`) | a descriptor | connect, read, write, errno to exception, address to number | the kernel |
| `torrent_generator.cpp`, vendored SQLite, tests | - | - | - |

What is hard in each:

* **Download.** All threads share the set, the priorities and the stream. The
  test for emptiness and the removal are two critical sections. A thread that
  loses its neighbour gives its piece back and ends. The order of the set reads
  a vector that the threads change. A priority is read outside the lock and
  written inside it. A write may fail without an exception. *Correct* means: a
  piece is never with two threads nor forgotten, the set stays ordered, what
  counts as fetched is genuine on disk, and the threads end.
* **Upload.** The mutex protects each operation on the stream, not the four in a
  row that serve a piece, and nothing protects the buffer. *Correct* means: no
  read past the end (it would break the stream for everybody), responses of the
  right length with the right bytes but for the two races the code has, and an
  answer to every request.
* **Tracker.** Everything is kept twice, in tables and in maps, by handlers that
  interleave, without transactions, with statements that can fail and a process
  that can end between any two. *Correct* means: the maps never know more than
  the tables that a restart reads, nothing is done in the name of nobody, at
  rest maps and tables agree both ways, and every request ends.
* **HTTP and sockets.** Sockets handed to threads by reference, descriptors given
  out again, partial sends, headers split over chunks, time-outs, retries, errno
  tested with `&`. *Correct* means: a thread, its descriptor and its responses
  belong to one connection, messages arrive whole, no request is handled twice.
* **The parts together.** A leecher gets addresses from a tracker that forgets
  when it is killed, of peers that come and go, some of which serve holes.
  *Correct* means: whoever serves is listed under an address that reaches it, a
  leecher finds the seeder, and what a seeder alone is asked for arrives.

`PROJECT.json` lists each hazard at its line ("hazards"), with the properties
that cover it or why none does yet.

## 2. The modules

| module | what it is |
|---|---|
| `PieceTransfer` | abstract: a piece is in one place; workers take, store, discard, give back, quit |
| `PieceDownload` | the downloading half of a peer; implements `PieceTransfer` |
| `PieceDownload_proofs` | its theorems |
| `UploadServer` | the serving half of a peer with the writers of the same peer |
| `UploadServer_proofs` | its theorems |
| `Tracker` | the tracker over its database |
| `MCTracker` | `Tracker` with the symmetry of its constants, for TLC |
| `Tracker_proofs` | its theorems |
| `HttpServer` | the accept loop of `http_server` and its threads, over descriptors |
| `HttpServer_proofs` | its theorems |
| `HttpExchange` | one client and one server thread over a byte stream |
| `HttpExchange_proofs` | its theorems about types and repeated requests |
| `HttpDelivery_proofs` | its theorems about what arrives; extends the one before |
| `Swarm` | peers and the tracker together, with processes killed and started again |
| `Swarm_proofs` | its theorems |

Variants named `Operation_SomethingWrong`, each just before the operation it varies,
state a plausible mistake in that operation (a forgotten `pop`, a missing seek);
they are in no specification. `PROJECT.json` ("mutants") says which property
notices which.

### PieceDownload

One thread for each neighbour, with a program counter. An action is one critical
section of a shared object or one exchange with the neighbour.

| code | model |
|---|---|
| `piece_set`, and the keys its tree was built with | `queued`, `placed` |
| `pieces_priority` | `pieces_priority` |
| the mutex of the set held for ever | `wedged` |
| `downloader_routine`, statement by statement | `pc`, `piece`, `data`; `Connect` ... `PushBack` |
| `pieces.empty()`, then `pieces.remove_top()` | `CheckEmpty`, `RemoveTop`, `RemoveTopOfEmpty` |
| `downloader::download`, `is_valid` | `FetchAccepted`, `FetchMismatch`, `FetchFails`, `FetchHangs`, `Verdicts` |
| `write_piece` and its flush | `WritePiece`, `WriteLost`, `WriteThrows`; `disk`, `stream` |
| `update_ndata_callback`, per piece: read, then `update_priority` | `ReadPriority`, `UpdatePriority`; `idx`, `seen` |

* `RemoveTopOfEmpty`: `begin()` of an empty `std::set` is its header node.
  libstdc++ does not return from erasing that node, so the thread keeps the mutex:
  `wedged`. The outcome is undefined by the language and this is what the build
  does.
* `Verdicts`: digests are built from `unsigned char *` and so end at a zero byte.
  With a zero byte inside (a piece not in `OpenDigest`), other bytes may match;
  without one the string runs on past the array, and the genuine bytes may fail.
* A neighbour is *sound* (it holds the file, answers, and the connection lasts) or
  not; an unsound one refuses, fails, sends other bytes, or closes half-way. The
  kind is chosen in `Init` and the threads do not know it.
* `fetched` and `dropped` are history: the pieces whose `write_piece` returned,
  and those abandoned after a mismatch.
* Left out: neighbours with a torrent of another number of pieces and malformed
  `Bit-Field` headers (every neighbour runs this program for this torrent), and the
  integer width of a priority.

### UploadServer

A connection is a thread of `http_server`. An action is one operation that
`tsafe_fstream` locks; the read into the buffer and the copy out of it go unit by
unit, since copying takes no lock and may see a buffer half refilled. A file is
counted in units, `UnitsPerPiece` to a piece, with a shorter last piece. The mutex
is held over several actions only by `ReadBegin`/`FillUnit` (`lock`). The writers
are the downloader threads of the same peer (`WritePiece`, `WriteFails`): they move
the joint position to the end of the piece they wrote. Holes before the last
written piece read as zeros (`UnitAt`). A leecher may open a file that an earlier
run filled in part: `Init` takes any pieces as there, and the threads write the
others (`unwritten`).

Three variables are history, one entry a connection: `had`, its piece was on disk when
it was asked for; `moved`, another thread moved the joint position between its seek to
the end and its `tellg`; `refilled`, another thread filled the buffer while it was being
copied. A body is exact when each cell holds its unit, and holds it from disk, not from
a hole, if the piece was there (`BodyOfPiece`). A request for a piece that was *not* there
may be answered with zeros, which the digest tells from the piece.

Left out: negative piece numbers, and a piece of which an earlier run wrote a part
before it was killed.

### Tracker

An action is one SQL statement or one use of a map. `job[w].at` is the place of a
worker in its handler. The lookups of a token that a request makes (`verified`,
then `find` and `[]` of `tokent_to_userid`) are steps of their own, because another
request may log the token out in between; so are the statements and the updates of
the maps. Where a handler looks into maps several times on end, the model merges the
lookups into one step, so that no other request comes between them:

| step | merged |
|---|---|
| `UidNow` | `find` and `[]` of `tokent_to_userid` (131-134): that `[]` enters an empty user for a token erased between the two |
| `ServerAddress` | `token_map[]` and `address[]` of `/share_file` (319) |
| `PeerAddress` | the same of `/peers` (346) |
| `ListPeers` | the asker's entry, the iteration and `address[id]` (107-124) |
| `ShareFile`, `CheckPeers` | chains of `find`s |

No property depends on a step between them: those that two workers are checked for say
nothing about addresses and files, and count an entry of the empty user as no session.

* A token stands for its user (`generate_token` concatenates id and password; that
  two users may have one token is left out). Ids have no quote characters.
* `delete_token` never executes its query: `EraseAddress` leaves the table alone.
* `constraint_failed_exception` inherits privately, so what catches it is decided
  by its own name only: `/signup`, `/create_group` and `/join_group` answer 409,
  `/login` ends the process (`Terminates`). An `sqlite_exception` is no
  `std::exception` for a catch clause either: it ends the process out of
  `/create_group`, which does not name it, and answers 500 elsewhere.
* `stoll` may throw at the address that a client sends (`ServerAddress`): 500, in
  `/share_file` after the file has been stored.
* `torn` is history: the groups about which tables and maps have come apart. There are
  two ways: a user joins a group that does not exist yet, and the deletion of a group
  fails between its two statements. A group is mended when it is deleted; after a
  restart, it is torn if it has members in the tables and no owner.
* `Crash` happens between any two steps; `Restart` is the constructor, which fills
  the maps from the tables.
* A use of a map is atomic. What two uses at the same instant do to the map
  itself is undefined and left out.
* `"/signup"` and `"/login"` take a user whose password is right; a wrong one
  behaves as an unknown user.

### HttpServer

| code | model |
|---|---|
| `accept_clients`, statement by statement | `loop`; `Accept`, `StoreFd`, `StoreAddress`, `AcceptFails` |
| its local variable `sock` | `slot` |
| the parameter `sock` of `handle_client` | `fd`, `addr`; `CopyFd`, `CopyAddress` |
| the loop of `handle_client` with its catch clauses | `pc`; `ReadRequest`, `ReadFails`, `WriteResponse`, `WriteFails`, `Close` |
| the descriptors of the process | `fdtab`: the connection behind each |
| the vector of threads, never joined | `Created`, `limit` |
| the other ends | `client`, `inbox`; `SendRequest`, `Leave` |

* `accept_connection` builds its result in the variable of the loop (copy
  elision): empty address, descriptor, address are three steps. The thread copies
  the members one by one, whenever it gets to run. That both touch the socket at
  one time is a data race; the model has every order of the two copies with the
  three stores. The address is short enough to be stored inside its string, so a
  torn string is left out.
* `late` is history: the variable was reused before a thread had its copy. What
  the program promises, it promises up to that.
* A request may end its thread or the whole process. A header without a first line is
  indexed all the same (`http.cpp:207-211`), and an exception of the callback that
  no clause catches leaves the thread (`tracker.cpp:187-193`): `"crash"` in `Request`, and
  `TakeRequest` brings the process down.
* `write_response` calls `send` again and again after a failure, which may be for
  good, the client gone, or pass, on a connection that is still open. Either way -1 is
  subtracted from the count, and `swollen` says that `to_send` has grown: what is sent in
  the end goes on behind the end of the response. If the descriptor has become another
  connection's, all of it goes there (`astray`).
* `limit` is how many threads the process can create. It is chosen in `Init` from
  `ThreadLimits`, one value below the number of connections and one not.

### HttpExchange

| code | model |
|---|---|
| `read_response` and `read_request` | `header`, `body`, `len`; `ReadHead`, `ReadBody`, `ReadEnd` |
| `deserialize`, `get_header("Content-Length")` | `Parses`, `HeaderDone` |
| `write_request` and `write_response` | `msg`, `to_send`; `SendSome`, `SendFails` |
| `read_bytes`: `recv`, time-out, error | `Receive`, `TimeOut`, `ReadFails` |
| `throw_exception` | `Tests`, `CommonBit`, `Thrown` |
| `send_request`, `reconnect` | `retries`, `Reconnect` |

A message is one unit of header, two of CRLFCRLF and its body; a unit knows the
message it is of, so a reader that joins parts of two shows. `Thrown` keeps the
numbers of errno and the order of the tests: ECONNRESET and ENOTCONN have a bit in
common with EBADF and leave as `invalid_socket_descriptor`, so the retry of
`send_request` never runs. With a comparison in place of `&` (`Thrown_Equal`) it
would, and a request would be handled twice (`AtMostOnce`). A header that a faulty
send has spoilt may be taken for anything (`Parses`): a length, none, a number that `stol`
refuses, which ends the loop of the server and `send_request` of the client, or a text
that faults the process. One of fewer than three units is malformed, because `substr`
throws and `deserialize` turns that into `parse_exception`. A header sent whole is read back
as it was sent. Errors of `recv` other than the loss of the connection are left out.

Two variables are history. `spoilt` has the sides to which a send was partial or
failed. `early` says that the client made a request before the server was through
(`Through`) with the one before. That takes a spoilt response: a client that takes
parts of it for the answers to several requests makes them too soon, the server has
two requests in its stream, and what it reads beyond the end of a body is dropped with
the header (`ForgetRead`). So a request that no fault touched is lost or read from its
middle, after faults in the *other* direction only. `Faithful` and
`CrashOnlyIfDisturbed` once left `early` out and held in a run of fewer requests and
faults; the attempt to prove them showed this behaviour, and the run has since been
large enough for it.

### Swarm

| code | model |
|---|---|
| `groups[gid].files[fname]`, `address` of the tracker | `seeders`, `leechers`, `address` |
| `peer::start` | `pc`; `Start`, `Login`, `Share`, `AskPeers`, `Downloaded`, `Return` |
| an exception in `start`, then `~peer` | `End` |
| `upload_server_thread` | `us` |
| the file, `pieces` | `have`, `todo` |
| a thread of `downloader_routine` | `job`, `piece`; `Connect` ... `HeaderCut` |
| its write to a disk that fails, for good from then on | `broken`; `StoreLost`, cause `"disk"` |
| its catch clauses | `Ends`, `GiveUp`; `Block` if the set is wedged |
| `read_piece` of the neighbour | `Answers` |

It composes what the other modules have in detail, each by its outcome: a request to
the tracker is one step (`Tracker`); a set found not empty and then emptied wedges
the thread that takes from it (`PieceDownload`); overlapping requests on one stream may
answer wrongly (`UploadServer`); a neighbour that goes away makes the fetch fail, hang
or crash (`HttpExchange`). `linked` and `overlap` say which of these a fetch is
open to.

* A fetch ends (`Causes`) because the neighbour is gone, because it refuses, because no
  answer comes in time though the neighbour is there (the end of the header split over
  two chunks, `http.cpp:495-516`), or because the leecher's own stream has failed. The
  thread puts its piece back and ends; when the set is wedged it waits for ever with
  the piece (`Block`).
* A piece that a leecher lacks is in one of three states. It is queued or carried by a thread that
  runs; or *dropped* (`Dropped`): neither on disk, nor queued, nor carried; or *stranded*
  (`Stranded`): queued with all threads over, or carried by one that is stuck.
* `mixed`, `cut` and `late` are history: who had an overlapped request, who had a thread cut
  short, and who had an answer time out. With `broken` they are what the properties excuse.
* Each peer has an account of its own and is a member of the group, roles are fixed,
  and digests are sound. The exceptions to the last are in `PieceDownload`.
* An address is the one of the login connection or the one of the upload server; its
  number (`socket.cpp:133-160`) is a bijection.
* The upload thread has tried to bind by the time the user has typed a password.
* Left out: late threads and limits of the HTTP server, and a response of the tracker
  cut by its crash.

## 3. The runs

| run | module, cfg | asks |
|---|---|---|
| `download` | `PieceDownload` | type and conservation, order of the set, disk contents, ends of threads, refinement of `PieceTransfer` |
| `download_priority` | `PieceDownload` | violation: a priority counts the holders of a piece |
| `upload` | `UploadServer` | lengths, no read past the end; a body is spoilt only by a refilled buffer, a piece refused only after a move of the position; an answer to every request, no deadlock |
| `upload_body` | `UploadServer` | violation: every connection gets its own bytes |
| `tracker_one_client` | `Tracker` | all resources, one at a time: tables and memory agree at rest, no anonymous acts, every request ends |
| `tracker_concurrent` | `MCTracker` | two requests at a time: sessions, members and owners are backed by tables |
| `http_server` | `HttpServer` | threads, descriptors and responses stay with their connections; the process ends only at a limit or over a request; every request is answered, every closed connection released |
| `http_server_threads` | `HttpServer` | violation: each client has a thread of its own |
| `http_exchange` | `HttpExchange` | messages arrive whole, in step and at most once; crashes only after faulty sends; `send_request` ends |
| `swarm` | `Swarm` | what is listed, reachable, dropped, stranded and completed across crashes, late answers, failing disks and restarts |
| `tracker_owner` | `Tracker` | violation: a group goes when its owner leaves |
| `tracker_terminates` | `Tracker` | violation: serving throws nothing |

**Bounds.** `download`: two threads and three pieces. Each race needs one thread
between two of its steps while another runs a whole round; three pieces leave one
queued while each thread carries one, and let the first piece of the order be
neither the first nor the last by number. One seeder and one leecher make the
priorities differ, one of the three digests has no zero byte, and the disk may
fail. `upload`: two connections, three units in pieces of two: the last piece is short,
a border is inside the file, and the first piece may be a hole before the second. Any
pieces may be there from an earlier run. `tracker_one_client`: two
users, one group, one file; one restart (`MaxRestarts`), one failing statement
(`MaxDbFaults`), which may be any statement of any handler. After the last restart allowed the tracker stays up and after the
last failure statements succeed: bounds of the run, not claims of the code.
`tracker_concurrent`: two workers, one restart, no failing statement, and the four
operations that only add rows or sessions (plus logout); users and workers are
interchangeable.

`http_server`: three connections over two descriptors, so that a number is given
out again while an older thread still runs, and one request each. `http_exchange`:
a buffer of four units, which is a whole message with a body, or the end of one message
and the start of the next; three requests and three faulty sends, so that a client can
run ahead of the server (`early`). `swarm`: one seeder and two leechers, two pieces (a
leecher can then hold the second and not the first), one fault (`MaxFaults`: a process
killed, an answer too late, or a disk that fails), one peer started again. A second
seeder would be refused while the first is listed. The leechers are alike, so only one of
them returns; `CompleteFromSeeder` is asked of that one, which may also never return.
Asked of both, so of a leecher while the other one returns, it holds on this instance
too; that makes the run half as long again.

**Deadlock** is checked for `upload`, where a connection can always ask again. The
download ends when the set is empty; connections, rounds and starts are bounded; a tracker that is down and may not be started
again is the bound on restarts.

**Fairness.** `PieceDownload`: weak, per thread. A thread is runnable until it
ends or waits for the mutex of the set; each holder of that mutex lets go within
the action, unless the set is wedged, when nobody claims anything. A wait for a neighbour
ends by the poll time-out (`socket.cpp:268`), except for the endless loop of
`read_response`, which is the state "stuck". `UploadServer`: strong, per connection,
because the stream's mutex is free and taken in turn. The requesters sleep a
second after every piece (`client.cpp:731`), far longer than a read holds the
mutex, so a waiter finds it free again and again; nothing in the code assures a
mutex without this. `Tracker`: weak, per worker; a handler waits for nothing but the
database. `HttpServer`: weak, per thread and for the loop between two accepts: a
thread never waits for another, and a poll ends by its time-out. Clients owe
nothing. `HttpExchange`: weak, for the reads and for the sends of each side, by the
same time-out. `Swarm`: weak, for each thread that fetches from a seeder; users,
processes and the tracker owe nothing.

### What the violations show

* `download_priority`: the remembered bitfield is never updated, so one seeder counts again
  with each piece it sends (`client.cpp:689`).
* `upload_body`: two requests share `buf` (`client.cpp:304`), and a response carries bytes of the
  other's piece. The leecher sees a SHA mismatch and drops the piece for good.
* `http_server_threads`: the loop accepts a second client before the first thread
  has copied the socket (`http.cpp:750`). Two threads read the second client's
  requests, and the first client has none.
* `tracker_owner`: join a group that does not exist, then create it: 409, but the row of
  the group stays, memory has no owner for it, and it outlives its owner's leaving.
* `tracker_terminates`: two logins of one user at a time end the tracker.

## 4. The theorems

Every safety property of the passing runs, invariant or action property, is a
theorem: it holds for any number of pieces, neighbours, connections, descriptors,
users, groups, files, workers, requests, peers, faults and restarts. The proofs rest on
the named assumptions of the modules only, which TLC evaluates in the runs:

| assumption | says, beyond the types of the constants |
|---|---|
| `DownloadAssumption` | seeders are neighbours; `NoPiece` and the three other places are no names of pieces or neighbours |
| `UploadAssumption` | the file and a piece are not empty; connections are finitely many |
| `TrackerAssumption` | `Nobody` and `Absent` are no users; workers are finitely many |
| `ServerAssumption` | at least one connection, descriptor and request |
| `ExchangeAssumption` | the buffer holds at least one unit; at least one request |
| `SwarmAssumption` | seeders and those that return are peers; at least one piece |

`MaxRestarts`, `MaxDbFaults`, `MaxRounds`, `MaxFaults` and `MaxRequests`
may be any numbers, so the bounds of the runs are none of the theorems.

Each inductive invariant was checked with TLC, on the instance of the run or a larger
one, before it was proved.

### PieceDownload_proofs

* `TypeCorrect`: `TypeOK` is not inductive as it stands. A thread that fetches
  carries a piece, a callback runs with an index below `NPieces`; the invariant adds
  these.
* `Conservation`: `PieceConservation` counts the places of a piece, which no step
  preserves by itself. The inductive form says that the four kinds of place cover the
  pieces (`Covered`), exclude each other (`SetsApart`, and carried pieces are in no
  set), and that no two threads carry one piece; a lemma turns it into the
  cardinality.
* `KeysAreStable`, then `RarestLeavesFirst`: the comparison made with the keys of insertion
  is, by stability, one made with the current priorities.
* `WedgedSetIsDrained`: once wedged, nobody pushes, since a push needs the mutex.
* `FetchedPiecesAreGenuine`: a thread about to write carries bytes that `Verdicts` accepted, and by
  conservation nobody overwrites a fetched piece.
* `OneSilentLoss`: a torn piece means a bad stream, which no later write gets past.
* `Refinement`: initial states map to initial states, each of the fifteen actions to a
  step of `PieceTransfer` or a stutter, with `at[p] = PlacesOf(p)`.

### UploadServer_proofs

Two invariants. `ServingInv` holds whatever interleaves:

* The joint position is a *border* (the end of a piece, or 0) whenever the mutex is
  free (`PositionInFile`), because readers stop and writers stop at borders. So the
  size that `read_piece` takes from another thread's position, though it may be
  wrong, is always a border inside the file (`SizeInFile`), and a piece that starts
  before it ends before it (lemma `CountIsLength`). From this `ReadsInsideFile` and
  `ResponseHasLengthOfPiece`: the race over the position changes which pieces are
  refused, never how many bytes of one are sent.
* `LoopsCount` ties the counter of a loop to the position and to the body. A file only grows
  (`SizeGrows`), so a size once taken stays inside it.

`SharedInv` is what the races leave, up to the histories. Unless the buffer was refilled, each
cell that a connection has filled, and each of its body, holds the unit of its piece, and
no hole if the piece was on disk (`CellsRight`); a piece on disk stays there
(`HadOnDisk`). Unless the position was moved, the size that it takes has the piece in it
(`SizeSeen`). From this `OnlyRefillsSpoil` and `OnlyMovesRefuse`, for any number of
connections beside the writers. `Max` and `Min` are defined
by `CHOOSE`; the lemmas that they exist go through well-founded induction on the naturals.

### Tracker_proofs

* `TypeCorrect`: the strengthening says that a worker beyond the lookup serves an authorised
  resource and that a busy worker's token, group and file are filled in.
* `SessionsAreBacked`: an entry of `token_map` names its user or nobody, its row exists,
  and a login about to make the entry has seen or inserted the row.
* `MemoryIsBacked`: with `"/leave_group"` not among `Ops`, rows are only added; a handler
  at its step in memory has its member row, and a creating one its group row too
  (`BackedJobs`), so what it enters in the maps is backed (`BackedMaps`).
* `EveryActHasItsUser`: with one worker, the token that was found is still there when it
  is looked up again, so the name a handler carries is that of a user (`NamedJobs`), and so
  is what it enters in tables and maps. A tracker that is down has no job (`DownIsIdle`),
  which covers crashes.
* `TablesAndMemoryAgree`: `AgreeInv` says that for a group that is not torn members and
  owner in memory are the rows of the tables (`MembersAgree`, `OwnerAgrees`), except
  while a handler is between a statement about the group and the map
  (`AboutMembers`, `AboutOwner`), and then how the two differ (`Between`). Only a torn
  group has members and no owner in the tables (`TableInv`), and a restart
  leaves as torn just those. With one worker a step is about one group
  (`FocusOnGroup`); the others are as they were (`OthersQuiet`). Statements may fail and
  the tracker may crash at any step.

### HttpServer_proofs

`ServerInv` = types, and that a connection is behind one descriptor at most
(`Table`), and, as long as no thread was late (`InTime`):

* `LastCopies`: only the last thread may still be copying, and the loop's
  variable is what it copies.
* `OwnCopies`: the descriptor a thread holds is behind its own connection. The kernel gives out the
  least free number, and a number that a serving thread holds is not free: `Close`
  is its last use. From these two `ThreadsKeepTheirConnection`.
* `Responding`: a request that a thread answers came over its own connection, and
  `to_send` has grown only for a thread that is still sending, which keeps its descriptor,
  whether its client has aborted or the failure passed: `ResponsesGoBack`.
* `FdsOfThreads`: every descriptor in use belongs to a thread that still runs. If
  none is free, the threads that run are as many as descriptors (by a bijection).
  With `ThreadsInLimit`, that no more threads are created than the limit, this gives
  `ProcessEndsAtLimitOrRequest`: the loop ends the process only when the number of
  threads is at its limit or every descriptor is behind a thread that runs, and
  everything else that ends it is a request.

### HttpExchange_proofs

* `TypeCorrect`: what a side holds of a message depends on where it is in its loops; the
  remaining length is not negative because the body loop stops at it.
* `NeverRetried`: by evaluation of `&` over the bits of the numbers of errno,
  in the order of the tests of `throw_exception`.
* `HandledAtMostOnce`: `OnceInv` says of the server's stream, what is read of a header
  followed by what is on its way, that each request is in it at most once, is not one
  already handled, and is none later than the last sent. A request is recognised by its
  second unit, where `find` finds the end of its header, so partial reads and dropped rests keep
  the invariant. That a request is not sent again, the only other way to spoil it,
  is `NeverRetried`.

### HttpDelivery_proofs

A message on its way is followed unit by unit: `Coming(s, m)` says that there is a
position `j` such that reader `s` has the units of `m` up to `j`, split between
header and body as its loops would, and the stream has the rest, and nothing else.
Wherever a chunk ends, a step of the reader moves `j`, and at `Size(m)` it completes
with exactly the body sent.

* `RequestInv`, while requests are unspoilt and none was early: the server either has nothing before
  it (`Waits`) or the client's last request is coming to it.
* `ResponseInv`, while nothing is spoilt: a client that waits has nothing before it or
  the response of its round is coming, and in the second case the server is `Settled`. In
  particular no request is made early.

From both, `UndisturbedArriveWhole`, `InStepBetweenExchanges` and
`CrashNeedsDisturbance`.

### Swarm_proofs

* `TypeCorrect` needs that only a peer which has asked the tracker has threads.
* `ServingPeerIsReachable`, `ServingPeerIsListed`: inductive together with
  `SharedFirst`, that leechers are on the list only of a file that somebody has shared.
  Without it a second `/share_file` would put an empty list in the place of theirs.
* `DownloadFindsSeeder`: an action property, from the two: the answer to `AskPeers`
  holds everyone listed under the address of an upload server.
* `NothingIsLostToSeeder`, from two invariants. `PiecesInv`: a piece is dropped only with an
  excuse (`NoneDropped`), because a seeder's file is whole (`SeederHasAll`), a leecher
  that has not begun has everything to fetch (`AllToFetch`), and overlapping requests
  mark the peer they are made by (`OverlapIsMixed`). `CutInv`: a thread that is `Loose` (its connection is
  gone, it is stuck, or it is over with pieces still queued) belongs to a peer that is
  marked `cut`. A thread that ends by itself found the set empty, and what is put back
  later is put back by a thread that was cut short.

### Only model-checked

The liveness properties: `ThreadsFinish` and `SoundNeighboursComplete` of
`PieceDownload`, the two `EveryRequestAnswered`, `ClosedIsReleased`, `EveryRequestEnds`,
`ExchangeEnds`, `CompleteFromSeeder`. They rest on fairness, so on `ENABLED`, which is
beyond the prover. The properties of the violation runs are false and so have no theorem.

Some liveness properties excuse what the code leaves open. `ThreadsFinish`, `ExchangeEnds`
and `CompleteFromSeeder` do not claim that a thread comes out of the endless read of a body
whose sender is gone (`http.cpp:524`): it does not, and nothing in the repository says
that it would.

## 5. The plan

Done: the two halves of a peer, the tracker, the HTTP layer, their composition, and
proofs of all safety properties that the runs check. What is left is to say more, and to
prove it:

1. An abstract exchange (a request is sent, handled at most once, answered or lost) that
   `HttpExchange` implements while nothing is spoilt; `RequestInv` and `ResponseInv` are the
   invariants its refinement needs.
2. An abstract store of groups and sessions that `Tracker` implements with one worker.
3. Action properties where an invariant says too little: what a crash of the tracker may
   take from memory, and which steps may lower the position of the stream.

## 6. Not modelled

* Vendored SQLite (`sqlite3.c`, `shell.c` and headers), which is 99% of the lines under
  `src`: its tables are sets and its statements atomic.
* `torrent_generator`, a sequential program that writes digests, and the interactive tests.
* The character level of HTTP messages, and the arithmetic of `bitfield` and of the
  number of an address: the bitfields sent are all ones or all zeros, the numbers are
  read back as written.
* `signup`, `create_group` and `logout` of `tracker_client`, which no peer calls (the
  tracker's side of them is in `Tracker`); its `join_group` and `leave_group`, which
  omit `Group-Id` and cannot succeed; `stop` of `http_server`, which nothing calls;
  `socket`, `listen` and `inet_aton` failing. `send_request_async` joins the thread it
  starts at once, so it is a `send_request`.
* A second login of an account whose peer is serving: it overwrites the address in
  `Tracker`, but `Swarm` has one login a process.
* A piece torn by a kill in the middle of a write, as the next run finds it.
* What a data race on a map of the tracker does to the map; file formats; console
  output.
