# Verification of SafeTrackingNumber

SafeTrackingNumber is a parcel service with encrypted tracking numbers. A Windows TCP server keeps
users, delivery men and packages in memory. A console client registers people, sends packages and
takes them. A modified Kyber-512 proves who a client is and hides the index in a printed QR code
from everyone but the person it is for.

This directory holds TLA+ models of that code, TLC configurations that check them on small
instances, and TLAPS proofs of results that hold for every value of the constants. `PROJECT.json`
relates every definition to the lines it models. Source paths below are relative to `src/`;
`server/` stands for `Server/Server/source/`.

## 1. Inventory

| Part | Source | State | Operations | Interacts with |
|---|---|---|---|---|
| Database | `server/Database/**` | three arrays of 100 pointers in one object, a static counter per class, the heap objects | `CreateUser`, `CreateDeliveryMan`, `CreatePackage`, `DeliveryTakePackage`, `VerifyUser`, `VerifyDeliveryMan`, unchecked getters | called by every handler thread, without a lock |
| Handler thread | `server/main.cpp`: `HandleClient`, `UserVerify`, `DeliveryManVerify` | receive buffer, locals of the command | four commands, each a fixed sequence of `recv` and `send` | client by TCP, database by calls, QR text |
| Accept thread, console, pool | `server/main.cpp`: `main`, `RunServer`, `CloseServer`, `ClientAccept`, end of `HandleClient` | `clientPool`, `clientThreads` | start; accept, start a handler, add to the pool; remove at the end; `list`; send any other line to all | `clientPool` is shared by all threads, without a lock |
| Client | `Client/main.cpp` | a user's and a delivery man's secret key, the last socket error | `SocketSetting` with its retries, the same four commands from the other side, `Terminate` | handler by TCP |
| QR text and picture | `server/QRGenerator/QRGenerator.cpp`, `CharToHex` of the client | a stack buffer | hexadecimal encoding and decoding, `printQr`, `toSvgString` | handler prints, a person scans, the client reads |
| Crypto | `server/Crypto/*`, `Client/Crypto/*` (two copies) | none, but for a static file descriptor | key pair, encryption, decryption, decapsulation; transform, compression, sampling, Keccak, random bytes | `CryptoInterface` on the server, `indcpa_dec` on the client |
| QR code libraries | `server/QRGenerator/qrcodegen.*` (C++), `Server/Server/lib/qrcodegen.*` (C), each with further copies | the object; the caller's two buffers | text or bytes to a masked symbol; a test program for the C one | `MakeQRCode` uses the C++ one |
| Echo server | `server/Connection/Server.cpp` | its pool | start, accept, echo, end | not compiled |
| QR code demos | `QrCodeGeneratorDemo.cpp` and others | none | print pictures | vendored |

What is hard here:

* **Concurrency without locks.** Every connection has a thread. They share the counters, the arrays,
  the package objects, the connection pool and (on other systems) the descriptor of `/dev/urandom`.
* **A protocol over a byte stream.** Each side expects one message per `recv`, TCP promises no such
  thing, the results of most `recv` calls are ignored, and console lines are sent into the middle of
  commands.
* **Failure.** A client may disappear at any point, `accept`, `connect` and every call of the start
  may fail, and an unknown index or an overlong name ends the server process for everybody.
* **Numbers.** Signed chars are compared with ints up to 254. The Kyber code works in 16 bits
  without reductions in the inner loops and divides by multiplying. A QR symbol must be exact to the
  bit at the capacity of its version.
* **Reused memory.** The QR library in C works in two buffers that hold what earlier calls left; the
  hash functions carry a position from call to call.

What makes each part correct:

| Part | Correct when |
|---|---|
| Database | an index is given once; a registered object stays under its index; a package keeps its parties, gets a delivery man before it is under way and does not come back; a take works on the package whose parties were read |
| Handler and client | who is verified was issued the key; who holds the key is verified; nobody waits for ever; only complete registrations are made; a printed code leads to a package |
| Pool and console | the list shows who is served; an end removes its own entry; a command reaches the connections it found |
| Start and end | what was taken is given back, whichever call fails; a client that is connected gets to its commands |
| QR code | what is scanned is what was encrypted; the symbol is what the standard says, at the least version and best level |
| Crypto | decryption undoes encryption; no 16-bit value wraps where it matters; hash values depend on the message only; coins are filled |

`PROJECT.json` lists the hazards behind these under "hazards", each at its line.

## 2. Modules

| Module | Models | Used by |
|---|---|---|
| `Parcel` | abstract: what the server promises of every package | `Registry` implements it |
| `Registry` | the database, step by step, for any set of threads | `RegistryProofs`; `Session` implements it (`SessionProofs`) |
| `Wire` | what messages, texts and bytes mean to the two programs | `Session` |
| `Session` | a client and its handler per connection, the TCP queues, the console; composed with `Registry` | `SessionProofs`, `MCSession` |
| `ClientPool` | accept thread, `clientPool`, the end of a handler, the console's loops over the pool | `ClientPoolProofs`, run `pool` |
| `Startup` | how server and clients come up and go down | `EchoServer` |
| `EchoServer` | `Connection/Server.cpp`, composed with `Startup` | `EchoServerProofs`, run `startup` |
| `Coeff` | operators on coefficients: reductions, compression, packing | `Codec`, `Ntt` |
| `Codec` | a group of coefficients on its way through key, ciphertext and message bytes | `CodecProofs`, `MCCodec` |
| `Ntt` | operators on polynomials: layers of the transforms, `basemul` and its sum over a vector | `Transform`, `Indcpa` |
| `Transform` | the transform at work, one layer per step | `TransformProofs`, `MCTransform` |
| `Hash` | abstract: what a hash function promises (FIPS 202) | `Xof` implements it |
| `Keccak` | the unrolled permutation on its 25 lanes, the standard's as a reference, and how Kyber calls the hash functions built on it | `Indcpa` |
| `Sponge` | absorbing and squeezing around a permutation | `Xof`, `Keccak` |
| `Xof` | the incremental interface of `fips202.c`, call by call | `Crypto`, `CryptoProofs` |
| `Indcpa` | sampling (`rej_uniform`, `cbd2`, `cbd3`); key generation, encryption and decryption on whole polynomials and byte arrays | `Kem` |
| `DeliveryKeys` | the key pair compiled into the programs | `Kem` |
| `Kem` | `kem.c` and who calls it with what | `Crypto` |
| `Randombytes` | the four variants of `randombytes`, per thread | `Crypto` |
| `Crypto` | `Kem`, `Xof` and `Randombytes` side by side | `MCCrypto` |
| `QRText` | `HexToChar`, the buffer, `CharToHex` | `QRTextProofs`, `QRGenerator` |
| `QrBits`, `QrLayout` | what both QR libraries compute alike: tables, Reed-Solomon code, places in the symbol, penalty points | `QrSegment`, `QrBuffers` |
| `QrSegment`, `QrCode` | the library in C++: segments, then the symbol step by step | `QRGenerator` |
| `QrBuffers`, `QrCodeC` | the library in C, on the caller's two buffers | `QRGenerator` |
| `QrTests` | the test program of the library in C | `QRGenerator` |
| `QrReader`, `QrSymbol` | abstract: a reader after ISO/IEC 18004, and what an encoder promises | both libraries implement `QrSymbol` |
| `QRGenerator` | a ciphertext's way to the client on paper; both libraries on the same calls | `MCQRGenerator` |
| `Strict` | two operators without meaning of their own that make TLC compute a value once | most |

Each `MC...` module gives a model its constants for TLC; `ClientPool` and `EchoServer` need only what a
.cfg says.

### Registry and Parcel

`slots` is the memory of the three arrays in the order of `Database.h`, so an index outside its array
reaches a cell of the next one (`Cell`), and beyond the object the behaviour is undefined
(`status = "undefined"`). `obj` is the heap, `UniqueNumber` the static counters, `call[t]` the locals
of the call a thread is in. `return UniqueNumber++` is three steps in the debug build: a load for the
result, a second load, a store (`FetchUnique`, `LoadUnique`, `StoreUnique`); then the pointer is
stored (`StoreSlot`). `DeliveryTakePackage` is the handler's own lookup (`TakeLookup`), the second
lookup with the first write of `TakePackage` (`TakeAssign`), the write of the state (`TakeState`), and
the two encryptions, which look up both keys (`TakeEncrypt`). Dereferencing a null pointer ends the
process (`"aborted"`). The history variables `given` and `raced` record which number an object got and
whether its increment overlapped another of the same class.

`Parcel` knows a package's state, parties and man. `ImplementsParcel` maps them to the objects of
class `Package` on the heap; counters, arrays and threads are invisible there.

### Session

`toSrv` and `toCli` are the bytes under way. `Recv` is what one `recv` can return: the first message,
possibly merged with later ones, of which the programs look at the first only and zero the rest away;
or nothing, when the peer has closed. `h[c].pc` is the `recv` or call the handler is at, `cl[c].pc`
the prompt or `recv` of the client. A handler's call of the database runs through the actions of
`Registry` in its own thread. Keys are the object they belong to, printed codes are under the one
embedded delivery key, and a ciphertext opens to its message under that key and to noise under any
other; `Kem` looks at the real thing. `Wire` keeps the conversions that matter: the signed `char`
behind both comparisons, `stoi` with its two error values, the lengths `strcpy_s` insists on, the
index cut to a byte by `IdxToMessage`.

### ClientPool

`accepting` is the accept thread between `accept`, `_beginthreadex` and the two `push_back`s; a failed
`accept` goes through the same steps, as in the code. A handler that ends searches the pool (`Leave`),
removes what is at the place found (`Erase`) and closes its socket (`CloseSocket`), which frees the
handle for a later `accept`. `console` is the main thread inside a range-based `for`: the end that was
taken before the loop, the iterator, the entry copied by the loop (`CompareAndCopy`) and then used
(`LoopBody`). A `push_back` or `erase` in between disturbs the iterators, and the next comparison of
disturbed iterators stops the debug build. `early` and `shifted` record two of the three races.

### Startup and EchoServer

`server` and `client[c]` have a program counter, a socket and the number of their uses of WinSock.
Every call may fail. `lastError[c]` is what `WSAGetLastError` returns: a failed call sets it, a later
success does not clear it (`LastErrorAfterConnect`), and the loop of the client's `main` looks at it.
`GiveUp` is the `Terminate` inside `SocketSetting`, `Terminate` the second one in `main`.
`EchoServer` adds the stream of each connection and `recv` that cuts it anywhere (`HandleClient`). Its
pool has the same separate steps as `ClientPool`: the accept thread starts a handler (`BeginThread`),
keeps its handle (`PushThread`) and pushes the entry (`PushPool`), also after a failed `accept`
(`AcceptFails`); a handler searches (`Leave`), removes what is at the place found (`Erase`, or
`EraseStops` past the end, where the debug build stops) and closes its socket (`CloseSocket`). The races
of finding 3 are therefore in it, and nothing is claimed of its pool: only that none of them touches
what is echoed. `EchoStopServer` is the process ending by itself, with its threads and its pool.

### Coeff, Codec, Ntt, Transform

`Coeff` keeps the widths of the C code: `I16` is the cast to `int16_t`, and the products with the
reciprocals of q are computed exactly, in halves (`MulShift` and its relatives) because TLC's integers
have 32 bits; only the bits the code keeps are taken. `Codec` has all of `poly.c` and `polyvec.c` that
encodes: the 4- and 10-bit encodings that are built (`KYBER_K` is 2), and the 5- and 11-bit ones of
the branches for `KYBER_K` 4, which are in the files and not in the build. `Transform` takes one step per layer
of `ntt` and `invntt` and has the reductions where the code has them.

The two programs have identical copies of these files. `Codec` and `Transform` are mapped to the
client's copy, `Ntt` and `Indcpa` to the server's.

### Keccak, Sponge, Xof, Hash

A lane of 64 bits is the set of its bits. `KeccakF1600_StatePermute` of the model follows the code's
unrolled double round, whose row operations name each of the 25 lanes (`RowsAE`, `RowsEA`);
`ReferencePermutation` is the round of FIPS 202 with its index arithmetic. `Sponge` has the functions
that carry `pos`, around any permutation; `Xof` calls them in any sequence the interface allows, with
pieces of any size. `Hash` is the standard: output is a function of the whole message, however it is
cut. The last part of `Keccak` puts the real permutation and rates in.

### Indcpa, Kem, DeliveryKeys, Randombytes, Crypto

`Indcpa` has `rej_uniform` on a buffer of bytes and `cbd2`, `cbd3` with their masked words (`Sums2`,
`Sums3`), and composes the operators into `indcpa_keypair_derand`, `indcpa_enc` and `indcpa_dec` on byte
arrays; its `gen_matrix` squeezes block after block until a polynomial is full, as the code does.
`Kem` has the actions `CreateNewKey` (a registration), `Encryption` (a challenge or a code under some
owner's key), `Decrypt` (the client) and `Decryption` (`crypto_kem_dec`). Coins are no longer hashed
from the message (`HashedForCoins`) and the message itself is encrypted; both are changes of this
repository. The delivery man's pair in `DeliveryKeys` is one of the owners. `Randombytes` has a
thread's way through each variant: Windows, Linux, NetBSD, and `/dev/urandom` with its static
descriptor, with interrupted, partial and failing calls. `Crypto` starts one of `Kem`, `Xof` and
`Randombytes`; they share no state.

### The QR code libraries

The library in C++ is `QrCode`: `Call`, `encodeSegments` (least version, best level, codewords),
`Construct` (error correction, drawing), then `TryMask` and `UndoMask` for each mask and `Finish`. The
dark modules are a set of cells. `QrCodeC` is the one in C with one action for each stage that
overwrites a buffer; a buffer is an array of bytes, a byte a set of bits, and both start with whatever
`Fresh` puts there. A write behind the end of an array extends the domain of the model's buffer, so
`WritesInBuffer`, that both domains stay those of the length for `maxVersion`, looks at the writes of
every stage. `QrTests` runs the asserts of `qrcodegen-test.c` on the C operators. `QrReader`
reads a symbol back without using the encoders' definitions (only the table of block counts is
shared), and `QrSymbol` says what a call promises: the text, the least version, the best level, the
mask with the fewest points, or a refusal of a text that fits nowhere. `QRGenerator` connects
`QRText`, the C++ library, `printQr` (two characters per module, `PrintedModules`), a scanner, and
`CharToHex`; other behaviours call both libraries with the same arguments, or run the tests.
`MakeQRCode` asks for level LOW and any version. `ToSvg` is called with a border of -1, 0, 4 and the
widest that version 1 allows; those that the code's checks throw for give no picture (`BorderFits`).

## 3. Runs

| Run | Instance | States, time | Shows |
|---|---|---|---|
| `registry` | 2 threads, 4 objects, arrays of 2 | 300 000, 30 s | numbers repeat only through a raced increment; a registration is lost only through that or to an object past the end of its array; a take works on the package whose parties were read; the parties of a package stay readable; every package goes the way of `Parcel` |
| `session_one` | 1 client, 4 commands, up to 3 messages merged, 1 console line, overlong names, unknown indices, the client may be closed any time | 1.9 million, 150 s | both sides wait for each other only after a merge or a console line; a registration with empty fields, or a package without a name, only for a client that is gone; a printed code leads to a package; a key holder is refused only for a number above 127 or on a disturbed connection; a begun command ends, also when the server dies on it |
| `session_two` | 2 clients with 2 commands each, no merging | 1.0 million, 125 s | the handlers make only the calls `Registry` allows (refinement `Spec`); a verified index is one whose key went to this very connection |
| `session_holder` | 1 client, undisturbed | | **violated**: a key holder is refused (finding 1) |
| `session_heeded` | the same | | **violated**: a client goes on after a refusal (finding 2) |
| `pool` | 3 connections over 2 sockets, console commands begun with at most 2 connections there | 325 000, 35 s | outside three named races the list is exact and an end removes its own entry; a command reaches the connections it found, or the server stops; a line goes astray only when the pool changed under the loop; the entry of a client that hung up goes |
| `pool_list` | the same | | **violated**: the list is not exact in general (finding 3) |
| `startup` | 2 clients, 3 bytes together, buffer of 2, 2 sockets, 1 failed `accept` | 1.5 million, 110 s | a client gets to its commands only by its first call of `connect`; it comes to its loop or to an end that leaves nothing open; what the echo server returns is what was sent, whatever the races on its pool |
| `codec` | every coefficient in each of the encodings, every `int16_t` sum, chosen products, every tolerable noise | 412 000, 50 s | encodings are inverse or as close as Kyber's analysis needs; reductions keep their descriptions |
| `transform` | 8 polynomials, 3 vectors of factors, full size | 384, 4 s | no wrap; the transform evaluates at the roots of the table and is undone; the product is that of the ring |
| `crypto` | 2 key pairs and the compiled-in one, 2 coins, 3 messages, every pair of owners, full size; every sequence of hash calls with up to 4 bytes in and 7 out; 2 threads for 3 coins | 4 800, 35 s | the owner gets all 32 bytes back, another key nothing the server accepts; the randomness is what the streams say; the unrolled permutation is Keccak's; decapsulation rejects every ciphertext of the server; the hash functions keep `Hash`'s promise; coins are filled whatever the system calls do |
| `qr` | 6 ciphertexts up to 768 bytes, 11 direct calls, versions from 1 to above 20, both libraries, 4 borders of the picture, all 20 tests | 990, 50 s | what is scanned is the ciphertext; both libraries make the same symbol, and it is what `QrSymbol` promises; every write of the C library stays in its buffers; its tests pass |

**Bounds and why they are enough.** Two threads suffice for every overlap the registry properties
speak of (each relates two increments, or a take and a registration), 4 objects over arrays of 2 let
every array overflow into its neighbour, and package indices include -1. In `session_one`, four
commands reach register, send, register as a delivery man, take; three merged messages cover the
longest burst a client sends without waiting (its fields). `session_two` leaves merging out, because
the database does not see it, and two commands each let one connection register and send while the
other does the same. `RandNums` has a number on each side of 127. In `pool`, two sockets for three
connections make a socket come back while an older entry is still listed, and two connections suffice
for a push or an erase under the console's loop (`MaxAtConsole`); commands are two, `list` and a line
to send. In `startup` a client calls `connect` up to four times as in the code, three bytes through a buffer of
two are cut in every way, and two handlers besides that of a failed `accept` suffice for an erase that
comes too early, too late or at the wrong place.

`transform` and `crypto` cannot enumerate polynomials: monomials find a wrong root or order, constants
at the limit a wrap, mixed ones a wrong product; the theorems of `TransformProofs` are about all of
them. The seeds of `crypto` are fixed numbers, chosen so
that one polynomial of each user's matrix needs a fourth block of the stream (`MaxBlocks`, 5, is more than any
needs); its properties are checked on these samples. The small hash functions of `crypto` have a
permutation of four bytes and rates of 1 to 3, so that every position relative to the end of a block
is met; the real rates are in `Keccak`. `qr` chooses its texts and versions so that each mode,
count width, block structure (one, several equal, short and long: 270 bytes at version 10-L have blocks of
68 and 69 codewords, 140 digits at 5-Q of 15 and 16), version information, and a text
that fills its version to the last bit occur; `Versions`, `Places` and `Seeds` bound the loops of the
test program in the same way.

**Deadlock** is not checked: with the commands used up, the process dead or a connection ended, the
programs really do stop. Waiting that is wrong is stated by `StuckOnlyIfDisturbed`, `CommandEnds` and
`StartsOrEnds`.

**Fairness.** `FairSession` has weak fairness of each handler (the system schedules threads) and of
each client's steps inside a command (a person who began one types the rest; `recv` returns when there
is something to return). It does not assume that anyone begins a command. `FairSpec` of `ClientPool`
has weak fairness of the accept thread between an `accept` and the next, and of each handler from the
moment its client is gone; neither that clients come nor that they hang up is assumed, and nothing of
the console. `Spec` of `EchoServer` has weak fairness of each client program up to its loop; the
server may never start.

**Refinements.** `Registry` implements `Parcel` (checked in `registry`, proved in `RegistryProofs`);
`Session` implements `Registry` (checked in `session_two`, proved in `SessionProofs`); `Xof` implements `Hash` (`crypto`); each QR library
implements `QrSymbol` (`qr`).

**Symmetry** of addresses (and of the two threads, where they get the same constants) is used in the
safety runs only.

## 4. Findings

1. `server/main.cpp:424` (and 446) compares an `int` from `rand() % 255` with a signed `char`: numbers
   from 128 on are never equal, and the right answer is refused (`session_holder`).
2. `Client/main.cpp:190` (and 233, 259) tests `msg[0] == 251` on a signed `char`: never true, so the
   client reports success after a refusal and goes on (`session_heeded`).
3. `server/main.cpp:162`: the handler starts before its entry is in the pool. One that ends at once
   leaves an entry that `list` shows for good (`pool_list`).

Two further properties hold and are worth a maintainer's look. The client's retries of `connect` never
help (`CommandsNeedFirstConnect`): the error of the first call is still the last one when a retry has
succeeded. And `crypto_kem_dec` takes every ciphertext of the server for a forgery
(`DecapsulationRejects`), since the coins no longer come from the message.

## 5. Proofs

All theorems hold for every value of the constants that satisfies the named assumptions of the module
that declares them.

* **`RegistryProofs`**, for any threads, addresses and capacity (`PtrAssumption`,
  `CapacityAssumption`, `PackIdxsAssumption`). `UniqueUnlessRaced` is not inductive: nothing in it
  says what a thread in the middle of an increment holds. `NumberingInv` adds that: `CallInv` (a
  create call knows its object, and no two share one), `AloneInWindow` (an increment nobody overlapped
  is alone at its counter, which has not moved), `AboveFinished` (the counter and every running
  increment are above the number of a finished unraced one). `RegistryInv` proves types and
  `NumberingInv` inductive together with one lemma per action; `UniqueNumbers` and `CounterBack`
  follow. `PackagesLive` is the refinement of `Parcel`: initial states map to initial states, and each
  action of any thread to `Register`, `Assign`, `Depart` or a stutter. Its invariant `TakeInv` says of
  a thread inside `TakePackage` that the man it was given has a number and that the object it holds is
  a package with a man.
  Three more properties rest on `ContentsInv`, which ties the arrays to the heap: a cell that holds an
  object holds a finished one whose number leads there (`SlotsInv`), both parties of a package are
  numbers under which a person was once found (`PartiesInv`), and a take holds what its two lookups
  returned (`LookupInv`). Arrays share one memory, so an index beyond one array or below zero reaches a
  person of another class; `PersonAt` speaks of cells and not of classes for that reason. From it,
  `NumberingInv` and `UniqueNumbers` follow `RegistrationsKept`, `PartiesAlwaysFound` and
  `TakesOnePackage`. `RegistrationsKept` has arrays that overflow: the object found in the place of
  another is of the same number if it is of the same class, which only a race allows, and otherwise one
  of the two is past the end of its array. The other two hold while no array has overflowed.
* **`SessionProofs`**, for any number of connections, any texts and any number of messages merged by
  one `recv` (`TextAssumption`: a typed word is not empty; `KeyAssumption`, `RandAssumption`,
  `CoalesceAssumption`: the mark of a damaged key is no object, random numbers are those of `% 255`, a
  `recv` returns at least one message). `UseInv` joins the registry's invariants with what each
  handler's program counter says of its own call (`CallOf`), of what it has looked up (`FoundOf`), and
  of the codes that were printed (`CodesInv`). One lemma per handler action shows that the action is a
  step of `Registry` or leaves the database alone; that gives `SessionsUseRegistry`: every session
  implements the database's specification, so all that is proved of `Registry` holds of the composed
  system. Its hypothesis is that `PackIdxs` is -128 to 127, the values of the signed char the handler
  passes on. `PrintedCodesLead` needs arrays of at most 128 for the same reason: a larger index would
  not survive that char. The code has arrays of 100.

  The two programs of a connection are related by `Lockstep`: as long as the connection is undisturbed
  there is a place of the client which, with the bytes under way in both directions, fits the place of
  the handler (`InStep`); a client that has gone left such a place and the bytes it had sent. Only
  this makes `WaitsExplained` provable: at no such pair do both sides wait with nothing under way.
  `ClosedInv` gives `BlankFieldsExplained`: a handler that has read an empty field, or no name of a
  package, has a client that is gone and stays gone until the object is registered. `KeysInv` (a client
  has no key but those sent to it) with `Lockstep` gives `VerificationsIssued`, and `AnswerInv` (whose
  key is asked about was looked up under the index that is verified) `RefusalsExplained`.
* **`ClientPoolProofs`**, for any number of connections and sockets (`SocketAssumption`,
  `ConnAssumption`). `PoolInv` says of each entry that it belongs to a connection of its own whose
  handler has still to remove it, of each such handler that it has an entry or will get it from the
  accept thread, that the place a handler found is still that of its entry, and that no two live
  connections share a socket (`SocketsApart`), although sockets are given out again; the parts about
  entries hold up to the first race. For the console's loop, `Reaching` relates the iterator to the
  entries the command began with. `ListsTheServed` (with a bijection between entries and served
  connections), `RemovesOwnEntry` and `CommandsReachPool` follow.
* **`EchoServerProofs`**, for any set of clients, any buffer and any numbers of failed accepts and of
  sockets. `Attempting` says what the count of `connect` calls and the last error are at
  each place of the start: `RetriesNeverHelp`. `EchoInv` says that returned and unread bytes together
  are those sent, through every step of the accept thread and the handlers: `EchoesExactly`. It says
  nothing of the pool.
* **`QRTextProofs`**, for every length and whatever the skipped byte holds (`LenAssumption`,
  `SourceAssumption`, `FreshAssumption`): `QRRoundTrip` and `QRComplete`, from an invariant that says
  what the buffer is after each step.
* **`CodecProofs`** has the arithmetic first: each reduction, compression and packing for every
  argument, of all encodings. It carries it through the steps with `CodecInv` (what has been
  computed is the function of the argument): `KeysKept`, `CompressionClose`, `MessagesKept`,
  `ReductionsAreExact`, from `CodecAssumption` (coefficients are between -q+1 and q-1, sums are
  `int16_t`, products are what `montgomery_reduce` documents).
* **`TransformProofs`**, for all polynomials with reduced coefficients and all vectors of factors
  (`TransformAssumption`). `TransformNeverWraps`: `TransformInv` gives each layer its own limit, 3328
  more than the one before, up to 26624 < 2^15; `invntt` reduces one half and multiplies the other in
  every layer.

  `NttTakesRemainders`: `Same` is congruence modulo q. `Stage(g, n, w, c)` is coefficient c of the
  remainder of g modulo X^n - 17^w, a sum over every n-th coefficient, and `ForwardInv` says that while
  `ntt` goes on `r` holds these remainders for n = 2 `len`, block by block; at the start this is the
  polynomial itself, at the end what `NttEvaluates` says. `LayerEvaluates` takes it through a layer:
  the sum over every n-th coefficient is the one over every 2n-th and 17^w times the other
  (`StageHalves`), and `Exponents` fits the order in which the loops read the table to the blocks.
  That `zetas[k]` is 2^16 17^b for the bit-reversed k in b is proved from the table (`ZetaIs`).

  `TransformMultiplies`: `BackwardInv` says that while `invntt` goes on `r` holds multiples of the
  remainders of the result: 1 of them at first, twice as many after each layer (`InvLayerSame`). The
  multiplication leaves 169 of them, which is 2^-16, and `InvScaleSame` multiplies by 2^16 / 128, so
  that 2^16 times the polynomial remains without a multiplication, and the product with one. That the
  product of two remainders modulo X^2 - w is the remainder of the product modulo X^256 + 1 is
  `ProductRemainder`: `Prod` sums rotated polynomials (`Rot` is multiplication by X, with the sign
  changed at the end), `ShiftOdd` and `ShiftEven` say what one turn does to a remainder, `Convolution`
  sums that over all turns, and `TimesSame` says that `Prod` is the product of the property. `BaseZetaIs`, `LowerSame` and `UpperSame` are
  `basemul`, `AccumulateSame` the sum over the vector.

  Sums are functions defined by their own value for one term less (`Total`). `Recursion` says that
  such a function exists and `Induction` how to prove something of all its values, by a least
  counterexample in the library's well-founded order of the naturals. `SumOfIs` relates them to the sums
  of the properties, which add neighbours in a tower so that TLC need not go deep.

* **`CryptoProofs`** has the parts of `Crypto/` that Kyber's polynomials are sampled from.
  `CoinsAreFilled` is about `Randombytes`, for any number of threads, any length and any failures.
  `CoinsInv` says of each thread that the bytes before its pointer are written once and the others
  never, that a call that is over wants no more bytes, and of the static descriptor that a thread which
  relies on it finds it open unless a call failed or another thread's interrupted `open` overwrote it.

  `XofImplementsHash` is the refinement of `Hash` by `Xof`, step by step, for every permutation that
  maps arrays of `Width` bytes to such arrays, and for all rates, pieces and lengths
  (`XofAssumption`; its part `Sizes` is evaluated by the run). `Absorbed` says what a `keccak_state`
  is while it absorbs: with len = q r + p bytes taken up, the state after q whole blocks of the
  message with its last p bytes added, p being the position. `Squeezing` says it of a state that
  gives output: where the position is in which block of the output, and that the permutation of the
  state is the next block. The loops of the code are functions defined by their own value at the turn
  before; `Induction` (from the library's well-founded order of the naturals, by a least
  counterexample) gives `Loop`, which says that such a function exists and stays within sets its turns
  lead through. `BlocksAbsorb`, `CallAbsorbs`, `Finalized`, `CallSqueezes` and `CallSqueezesBlocks`
  are the five functions, `ShakeGives` and `Sha3Gives` those that hash at once, `OutputIs` what `Hash`
  promises in the same terms. `Fips202ImplementsHash` instantiates the result with the rates of
  `fips202.h` and the permutation of `Keccak`, of which it needs only that it writes 200 bytes.

  `UnrolledIsKeccak` is about that permutation, for every state of 25 lanes, and
  `PermutationIsStandard` follows from it. The constants come first. `Path` and `StepTo` list the walk
  of rho (`WalkIs`: the recursion of the standard gives this list), so that the offsets and the order
  of lanes in `RowsAE` and `RowsEA` can be compared with the standard's (`RowsAre`). `Sent` lists the
  bits that leave the shift register; each is the sum of four later ones (`SentAgain`), from which what
  the register holds after any number of steps follows (`Content`, `RegisterIs`), and with it that the
  24 constants are the standard's (`ConstantsAre`). `Laid` puts the lanes of the code, which are
  numbered, at the standard's coordinates; `RoundIs` shows that one unrolled round commutes with it,
  step by step and bit by bit: the parity of a column is the exclusive or of its lanes (`ParityIs`),
  rho and pi are one rotation to another place (`RhoPiIs`), `a ^ (~b & c)` is chi. `RoundsAre` follows
  the loop and the standard through their twelve double rounds.

  `NoiseIsBinomial` is about `cbd.c`, for every array of bytes the hash function may return: each
  coefficient is the ones among three (two) bits of its own less the ones among the next three (two),
  as `Binomial` in `Kem` demands of the seeds of the run. `Threes` and `Pairs` say which bits the masks
  leave where, `WordBits` which byte a bit of the word of three bytes is from; each field of the sum is
  at most 3, so none carries into the next (`LowDigit`, `HighDigit`, `ThreesOf`, `PairsOf`), and the
  two fields of a coefficient are those of its bits (`Cbd3At`, `Cbd2At`; `Cbd3Is` and `Cbd2Is` say it of
  every coefficient).

Only model-checked:

* liveness (`CommandEnds`, `EntryRemoved`, `StartsOrEnds`), which is out of the prover's reach, as is
  `ENABLED`;
* what the library computes from particular coins (`SampledFromStreams`, `OwnerDecrypts`,
  `OtherRefused`, `DecapsulationRejects`): a stream of the hash function might hold too few values
  below q, noise may be too large and two hashes may agree, so these hold of nearly all coins and not
  of all of them. The transform, the encodings, the noise and the hash functions that they are built
  from are proved;
* the symbols of the QR libraries (`SameSymbol`, `WritesInBuffer`, `PictureReads`, `TestsPass`), whose
  modules reach `RECURSIVE` definitions.

## 6. Assumptions

* In `Session` a message is never split by TCP: the longest has 768 bytes and the buffers 1024.
  `EchoServer` splits them, of the echoing clients.
* Noise does not begin with the byte 17. The server compares two of 32 bytes, so a wrong key passes
  with probability about 2^-16; `OtherRefused` looks at samples of it.
* Each operation of `std::vector` is atomic, but for the console's loop, which is one step per use of
  its iterator. The models have the races between operations and not those inside one.
* Debug build for x64 with signed `char` and iterator checks, as in the project files.
* The client's input is one of the four commands; it sends others too, and the handler ignores them.
* WinSock, the scanner and the system's sources of randomness are external: they may fail, and keep
  their documented promise where they do not.

## 7. Not modelled

* The QR code demos: examples that only print.
* Of the QR library in C++: `makeEci` and calls with several segments, which nobody makes (the tests
  of the C library reach its `makeEci`); the accessors without use. `makeKanji` does not exist. The
  copies of both libraries elsewhere in the tree are the same text.
* `kem.c:30`, where `crypto_kem_keypair` writes a secret key of 1632 bytes into a buffer of 768: the
  layout of the stack is below the level of the models. Only the first 768 bytes are sent.
* That `clientThreads` only grows and no handle is closed: a property would restate that nothing is
  removed.
* The code after the endless loop of the server's `main`, and `~Database`, which only it calls:
  unreachable.
* The reference key pair in `Params.h` (`PUBLIC_KEY_REF_2`, `SECRET_KEY_REF_2`), which nothing uses.

## 8. Plan

Built so far, in this order: `Registry`, `Session` over it, `ClientPool`, `QRText`, the Kyber
arithmetic from the coefficient up to `Indcpa`, the proofs of these; then `Parcel`, the console's
loops, `Startup` and `EchoServer`, the hash functions, `Kem` with decapsulation and the compiled-in
keys, `Randombytes`, the QR libraries with their reader, the unbuilt encodings, the refinement proof
of `Parcel`, the proofs about sessions, pool and start, and those about the coins and the sponge.

Next, most important first:

1. Calls of the QR libraries with several segments, and a reader for them.
2. A session in which TCP also splits messages.
