------------------------------ MODULE Session -------------------------------
(***************************************************************************)
(* A client and its handler thread for every connection, over TCP, with    *)
(* the database they share.                                                *)
(*                                                                         *)
(* Each program sends with one `send' per message and reads with one       *)
(* `recv' per message it expects, while TCP keeps no boundaries: a recv    *)
(* may return several messages, of which the programs look at the first.   *)
(* A message is not split: the longest has 768 bytes and the buffers have  *)
(* 1024.  The result of a recv inside a command is never looked at; at the *)
(* end of the stream it leaves a zeroed buffer.                            *)
(***************************************************************************)
EXTENDS Registry, Wire, Sequences

CONSTANTS
  RandNums,      \* the values of rand() % 255 considered
  NameTexts,     \* what a person types as name, phone and address, and as a package's name
  IdxTexts,      \* what a person types as an index
  MaxCmds,       \* how many commands each client gives
  MaxCoalesce,   \* messages one recv can return
  MaxBroadcast,  \* lines typed at the server's console
  MayDie         \* whether a client program may be closed during a command

ASSUME RandAssumption == RandNums \subseteq 0 .. 254
\* `cin >> msg' reads a word: it is never empty.
ASSUME TextAssumption ==
  /\ NameTexts \in [Fields \cup {"packName"} -> SUBSET (Texts \ {""})]
  /\ IdxTexts \subseteq Texts \ {""}
ASSUME CoalesceAssumption == MaxCoalesce \in Nat \ {0}

\* A secret key is the object it belongs to, NoPtr for the zeros a key begins with,
\* or "damaged" for bytes that are no key.
ASSUME KeyAssumption == "damaged" \notin Ptr

\* The key pair compiled into both programs; the key of no object.
DeliveryKey == "delivery"

Text(x) == [type |-> "text", text |-> x]
SecretKey(k) == [type |-> "key", key |-> k]
Cipher(k, m) == [type |-> "cipher", key |-> k, m |-> m]
Plain(m) == [type |-> "plain", m |-> m]
Signal(s) == [type |-> "signal", sig |-> s]
Nothing == [type |-> "nothing"]   \* a zeroed buffer

VARIABLES
  toSrv, toCli,  \* per connection, the bytes under way in each direction
  h,             \* per connection, the handler thread
  cl,            \* per connection, the client program
  printed,       \* package codes the server has printed
  lines,         \* lines typed at the console so far
  lost,          \* history: connections where a recv returned several messages
  disturbed,     \* history: connections that were sent a console line
  issued         \* history: the secret keys sent to each connection

netVars == <<toSrv, toCli, h, cl, printed, lines, lost, disturbed, issued>>
vars == <<dbVars, netVars>>

Handler0 == [pc |-> "cmd", kind |-> "User", idx |-> INVALID_VALUE, rand |-> 0,
             key |-> NoPtr, arg |-> INVALID_VALUE, fits |-> TRUE, blank |-> FALSE,
             refused |-> FALSE]

Client0 == [pc |-> "input", cmd |-> 0, n |-> 0, err |-> FALSE,
            UserSecretKey |-> NoPtr, DeliverySecretKey |-> NoPtr, told |-> 0]

SessionInit ==
  /\ Init
  /\ toSrv = [c \in Threads |-> <<>>]
  /\ toCli = [c \in Threads |-> <<>>]
  /\ h = [c \in Threads |-> Handler0]
  /\ cl = [c \in Threads |-> Client0]
  /\ printed = {}
  /\ lines = 0
  /\ lost = {}
  /\ disturbed = {}
  /\ issued = [c \in Threads |-> {}]

\* An end of the connection is open while its program runs and has not closed it.
SrvOpen(c) == status # "aborted" /\ h[c].pc # "ended"
CliOpen(c) == cl[c].pc # "ended"

----------------------------------------------------------------------------
(* recv and send, of either side.                                           *)

\* What one recv can return from a queue, and what it leaves there.  When the
\* peer has closed, the recv may also fail or end and leave the buffer zeroed:
\* a connection closed with unread data is reset.
Recv(queue, peerOpen) ==
  {[buf |-> queue[1], rest |-> SubSeq(queue, n + 1, Len(queue)), took |-> n] :
      n \in 1 .. IF Len(queue) < MaxCoalesce THEN Len(queue) ELSE MaxCoalesce}
  \cup (IF ~peerOpen
        THEN {[buf |-> Nothing, rest |-> <<>>, took |-> 0]} ELSE {})

\* The buffer as a C string.
AsText(buf) == CASE buf.type = "text" -> buf.text
                 [] buf.type = "nothing" -> ""
                 [] OTHER -> "binary"

\* The buffer as a 32-byte message; no text begins with the byte 17.
AsMessage(buf) == CASE buf.type = "plain" -> buf.m
                    [] buf.type = "nothing" -> Zero
                    [] OTHER -> Noise

\* The server's recv in connection c gives `in'; replies are then appended.
Received(c, in, replies) ==
  /\ toSrv' = [toSrv EXCEPT ![c] = in.rest]
  /\ lost' = IF in.took > 1 THEN lost \cup {c} ELSE lost
  /\ toCli' = [toCli EXCEPT ![c] = IF CliOpen(c) THEN @ \o replies ELSE @]

\* A step of handler c that only makes its own progress.
Goes(c, new) == h' = [h EXCEPT ![c] = new]

\* The handler at pc reads a message.
Reads(c, pc) == status = "running" /\ h[c].pc = pc

SrvRecv(c) == Recv(toSrv[c], CliOpen(c))

\* The handler's thread dies with the process.
Dies(k, i) ==
  /\ status' = Fault(k, i)
  /\ UNCHANGED <<UniqueNumber, slots, obj, call, given, raced>>

----------------------------------------------------------------------------
(* The handler.                                                             *)

\* Top of HandleClient's loop: a command, the end of the stream, or anything
\* else, which is ignored.
RecvCommand(c) ==
  /\ Reads(c, "cmd")
  /\ \E in \in SrvRecv(c) :
       /\ Received(c, in, <<>>)
       /\ Goes(c,
            CASE in.buf.type = "nothing" -> [h[c] EXCEPT !.pc = "ended"]
              [] AsText(in.buf) = "1" -> [Handler0 EXCEPT !.pc = "name", !.kind = "User"]
              [] AsText(in.buf) = "2" -> [Handler0 EXCEPT !.pc = "name", !.kind = "DeliveryMan"]
              [] AsText(in.buf) = "3" -> [Handler0 EXCEPT !.pc = "idx", !.kind = "User"]
              [] AsText(in.buf) = "4" -> [Handler0 EXCEPT !.pc = "idx", !.kind = "DeliveryMan"]
              [] OTHER -> h[c])
  /\ UNCHANGED <<dbVars, cl, printed, lines, disturbed, issued>>

\* Mutant: the phone number is read over and over.
NextFieldRepeat == [f \in Fields |-> IF f = "addr" THEN "create" ELSE "phone"]

NextField == [f \in Fields |-> CASE f = "name" -> "phone"
                                 [] f = "phone" -> "addr"
                                 [] f = "addr" -> "create"]

\* Mutant: the buffer is zeroed after the recv.
RecvFieldZeroed(c, f) ==
  /\ Reads(c, f)
  /\ \E in \in SrvRecv(c) : Received(c, in, <<>>)
  /\ Goes(c, [h[c] EXCEPT !.pc = NextField[f], !.blank = TRUE])
  /\ UNCHANGED <<dbVars, cl, printed, lines, disturbed, issued>>

\* One of the three fields of a new user or delivery man.
RecvField(c, f) ==
  /\ Reads(c, f)
  /\ \E in \in SrvRecv(c) :
       /\ Received(c, in, <<>>)
       /\ Goes(c, [h[c] EXCEPT !.pc = NextField[f],
                               !.fits = @ /\ Fits(f, AsText(in.buf)),
                               !.blank = @ \/ AsText(in.buf) = ""])
  /\ UNCHANGED <<dbVars, cl, printed, lines, disturbed, issued>>

\* CreateUser or CreateDeliveryMan is called ...
CallCreate(c) ==
  /\ Reads(c, "create")
  /\ NewPerson(c, h[c].kind, h[c].fits)
  /\ Goes(c, [h[c] EXCEPT !.pc = "creating"])
  /\ UNCHANGED <<toSrv, toCli, cl, printed, lines, lost, disturbed, issued>>

\* ... and returns: the secret key goes to the client.
SendKey(c) ==
  /\ Reads(c, "creating")
  /\ Return(c)
  /\ toCli' = [toCli EXCEPT ![c] = IF CliOpen(c) THEN Append(@, SecretKey(call[c].obj)) ELSE @]
  /\ Goes(c, [h[c] EXCEPT !.pc = "cmd"])
  /\ issued' = [issued EXCEPT ![c] = @ \cup {call[c].obj}]
  /\ UNCHANGED <<toSrv, cl, printed, lines, lost, disturbed>>

\* UserVerify and DeliveryManVerify, first part: an index, a random number,
\* and the number encrypted with the key of that index.
RecvIdx(c) ==
  /\ Reads(c, "idx")
  /\ \E in \in SrvRecv(c), rand \in RandNums :
       LET i == GetIdxFromReceiveMessage[AsText(in.buf)]
           k == h[c].kind
       IN  \/ /\ Readable(k, i)
              /\ Received(c, in, <<Cipher(Get(k, i), IdxToMessage(rand))>>)
              /\ Goes(c, [h[c] EXCEPT !.pc = "answer", !.idx = i, !.rand = rand,
                                      !.key = Get(k, i)])
              /\ UNCHANGED dbVars
           \/ /\ ~Readable(k, i)
              /\ Received(c, in, <<>>)
              /\ Dies(k, i)
              /\ UNCHANGED h
  /\ UNCHANGED <<cl, printed, lines, disturbed, issued>>

\* Second part: the answer.  A refusal ends the connection; otherwise the
\* object is looked up once more, for its name: a user's after the reply, a
\* delivery man's before it.
RecvAnswer(c) ==
  /\ Reads(c, "answer")
  /\ \E in \in SrvRecv(c) :
       LET k == h[c].kind
           ok == AnswerAccepted(AsMessage(in.buf), h[c].rand) /\ h[c].idx # INVALID_VALUE
           dies == ok /\ ~Readable(k, h[c].idx)
       IN  /\ Received(c, in, CASE ~ok -> <<Signal(SIGNAL_UNVERIFYED)>>
                                [] dies /\ k = "DeliveryMan" -> <<>>
                                [] OTHER -> <<Signal(SIGNAL_VERIFYED)>>)
           /\ IF dies
              THEN Dies(k, h[c].idx) /\ UNCHANGED h
              ELSE /\ Goes(c, [h[c] EXCEPT !.pc = CASE ~ok -> "ended"
                                                    [] ok /\ k = "User" -> "receiver"
                                                    [] OTHER -> "package",
                                           !.refused = ~ok])
                   /\ UNCHANGED dbVars
  /\ UNCHANGED <<cl, printed, lines, disturbed, issued>>

\* Mutant: the receiver is not looked up.
RecvReceiverBlind(c) ==
  /\ Reads(c, "receiver")
  /\ \E in \in SrvRecv(c) :
       /\ Received(c, in, <<>>)
       /\ Goes(c, [h[c] EXCEPT !.pc = "packName",
                               !.arg = GetIdxFromReceiveMessage[AsText(in.buf)]])
  /\ UNCHANGED <<dbVars, cl, printed, lines, disturbed, issued>>

\* Create Package: the receiver, whose name is printed.
RecvReceiver(c) ==
  /\ Reads(c, "receiver")
  /\ \E in \in SrvRecv(c) :
       LET r == GetIdxFromReceiveMessage[AsText(in.buf)]
       IN  /\ Received(c, in, <<>>)
           /\ \/ /\ Readable("User", r)
                 /\ Goes(c, [h[c] EXCEPT !.pc = "packName", !.arg = r])
                 /\ UNCHANGED dbVars
              \/ /\ ~Readable("User", r)
                 /\ Dies("User", r)
                 /\ UNCHANGED h
  /\ UNCHANGED <<cl, printed, lines, disturbed, issued>>

\* The package's name, then CreatePackage ...
RecvPackName(c) ==
  /\ Reads(c, "packName")
  /\ \E in \in SrvRecv(c) :
       /\ Received(c, in, <<>>)
       /\ Goes(c, [h[c] EXCEPT !.pc = "createPack", !.blank = AsText(in.buf) = ""])
  /\ UNCHANGED <<dbVars, cl, printed, lines, disturbed, issued>>

CallCreatePackage(c) ==
  /\ Reads(c, "createPack")
  /\ NewPackage(c, h[c].idx, h[c].arg)
  /\ Goes(c, [h[c] EXCEPT !.pc = "packing"])
  /\ UNCHANGED <<toSrv, toCli, cl, printed, lines, lost, disturbed, issued>>

\* Mutant: the code holds the number of packages, not the index.
PrintPackageCount(c) ==
  /\ Reads(c, "packing")
  /\ Return(c)
  /\ printed' = printed \cup {Cipher(DeliveryKey, IdxToMessage(call[c].idx + 1))}
  /\ Goes(c, [h[c] EXCEPT !.pc = "cmd"])
  /\ UNCHANGED <<toSrv, toCli, cl, lines, lost, disturbed, issued>>

\* ... and the code with the package's index, under the delivery key.
PrintPackage(c) ==
  /\ Reads(c, "packing")
  /\ Return(c)
  /\ printed' = printed \cup {Cipher(DeliveryKey, IdxToMessage(call[c].idx))}
  /\ Goes(c, [h[c] EXCEPT !.pc = "cmd"])
  /\ UNCHANGED <<toSrv, toCli, cl, lines, lost, disturbed, issued>>

\* Take Package: the decrypted package code.
RecvPackage(c) ==
  /\ Reads(c, "package")
  /\ \E in \in SrvRecv(c) :
       LET m == AsMessage(in.buf)
       IN  \/ /\ PackageAccepted(m)
              /\ Received(c, in, <<Signal(SIGNAL_VERIFYED)>>)
              /\ Goes(c, [h[c] EXCEPT !.pc = "take", !.arg = PackageIdx(m)])
           \/ /\ ~PackageAccepted(m)
              /\ Received(c, in, <<Signal(SIGNAL_UNVERIFYED)>>)
              /\ Goes(c, [h[c] EXCEPT !.pc = "ended"])
  /\ UNCHANGED <<dbVars, cl, printed, lines, disturbed, issued>>

CallTake(c) ==
  /\ Reads(c, "take")
  /\ TakeLookup(c, h[c].arg, h[c].idx)
  /\ Goes(c, [h[c] EXCEPT !.pc = "taking"])
  /\ UNCHANGED <<toSrv, toCli, cl, printed, lines, lost, disturbed, issued>>

\* The two codes of a take are printed; they are not under the delivery key.
PrintTaken(c) ==
  /\ Reads(c, "taking")
  /\ Return(c)
  /\ Goes(c, [h[c] EXCEPT !.pc = "cmd"])
  /\ UNCHANGED <<toSrv, toCli, cl, printed, lines, lost, disturbed, issued>>

\* A step inside the database call that the handler has made.
InDatabase(c) == CallStep(c) /\ UNCHANGED netVars

HandlerStep(c) ==
  \/ RecvCommand(c)
  \/ \E f \in Fields : RecvField(c, f)
  \/ CallCreate(c)
  \/ SendKey(c)
  \/ RecvIdx(c)
  \/ RecvAnswer(c)
  \/ RecvReceiver(c)
  \/ RecvPackName(c)
  \/ CallCreatePackage(c)
  \/ PrintPackage(c)
  \/ RecvPackage(c)
  \/ CallTake(c)
  \/ PrintTaken(c)
  \/ InDatabase(c)

----------------------------------------------------------------------------
(* The client.                                                              *)

CliRecv(c) == Recv(toCli[c], SrvOpen(c))

\* An operation on a connection the server has closed may set the socket error.
Err(c) == {cl[c].err} \cup (IF SrvOpen(c) THEN {} ELSE {TRUE})

\* The client sends msg and goes on with the state `new'.
Sends(c, msg, new) ==
  /\ toSrv' = [toSrv EXCEPT ![c] = IF SrvOpen(c) THEN Append(@, msg) ELSE @]
  /\ \E e \in Err(c) : cl' = [cl EXCEPT ![c] = [new EXCEPT !.err = e]]

\* The texts of the four commands.
Command == <<"1", "2", "3", "4">>

\* The loop of main: a command is typed, unless the socket has failed.
Input(c, cmd) ==
  /\ cl[c].pc = "input" /\ ~cl[c].err /\ cl[c].n < MaxCmds[c]
  /\ Sends(c, Text(Command[cmd]),
           [cl[c] EXCEPT !.pc = IF cmd <= 2 THEN "name" ELSE "idx", !.cmd = cmd, !.n = @ + 1])
  /\ UNCHANGED <<dbVars, toCli, h, printed, lines, lost, disturbed, issued>>

\* Terminate, after a socket error.
Terminate(c) ==
  /\ cl[c].pc = "input" /\ cl[c].err
  /\ cl' = [cl EXCEPT ![c].pc = "ended"]
  /\ UNCHANGED <<dbVars, toSrv, toCli, h, printed, lines, lost, disturbed, issued>>

TypeField(c, f) ==
  /\ cl[c].pc = f
  /\ \E x \in NameTexts[f] :
       Sends(c, Text(x), [cl[c] EXCEPT !.pc = CASE f = "name" -> "phone"
                                                [] f = "phone" -> "addr"
                                                [] f = "addr" -> "waitKey"])
  /\ UNCHANGED <<dbVars, toCli, h, printed, lines, lost, disturbed, issued>>

\* What the client's recv leaves in its queue, with the next state.
Takes(c, in, new) ==
  /\ toCli' = [toCli EXCEPT ![c] = in.rest]
  /\ lost' = IF in.took > 1 THEN lost \cup {c} ELSE lost
  /\ \E e \in Err(c) : cl' = [cl EXCEPT ![c] = [new EXCEPT !.err = e]]

\* The first 768 bytes of whatever arrives become the secret key.
WaitKey(c) ==
  /\ cl[c].pc = "waitKey"
  /\ \E in \in CliRecv(c) :
       LET k == CASE in.buf.type = "key" -> in.buf.key
                  [] in.buf.type = "nothing" -> NoPtr
                  [] OTHER -> "damaged"
       IN  Takes(c, in, IF cl[c].cmd = 1
                        THEN [cl[c] EXCEPT !.pc = "input", !.UserSecretKey = k]
                        ELSE [cl[c] EXCEPT !.pc = "input", !.DeliverySecretKey = k])
  /\ UNCHANGED <<dbVars, toSrv, h, printed, lines, disturbed, issued>>

TypeIdx(c) ==
  /\ cl[c].pc = "idx"
  /\ \E x \in IdxTexts : Sends(c, Text(x), [cl[c] EXCEPT !.pc = "waitCipher"])
  /\ UNCHANGED <<dbVars, toCli, h, printed, lines, lost, disturbed, issued>>

OwnKey(c) == IF cl[c].cmd = 3 THEN cl[c].UserSecretKey ELSE cl[c].DeliverySecretKey

\* indcpa_dec, symbolically: the message if the key is the one it was
\* encrypted for, noise otherwise.
Decrypt(buf, k) == IF buf.type = "cipher" /\ buf.key = k THEN buf.m ELSE Noise

\* The challenge arrives, is decrypted and answered.
WaitCipher(c) ==
  /\ cl[c].pc = "waitCipher"
  /\ \E in \in CliRecv(c) :
       /\ Takes(c, in, [cl[c] EXCEPT !.pc = "waitSignal"])
       /\ toSrv' = [toSrv EXCEPT ![c] =
                      IF SrvOpen(c) THEN Append(@, Plain(Decrypt(in.buf, OwnKey(c)))) ELSE @]
  /\ UNCHANGED <<dbVars, h, printed, lines, disturbed, issued>>

\* The byte msg[0] of a reply.
FirstByte(buf) == CASE buf.type = "signal" -> buf.sig
                    [] buf.type = "nothing" -> 0
                    [] OTHER -> 65

\* The verdict.  The loop is left if the client recognises a refusal.
WaitSignal(c) ==
  /\ cl[c].pc = "waitSignal"
  /\ \E in \in CliRecv(c) :
       Takes(c, in, [cl[c] EXCEPT !.told = FirstByte(in.buf),
                                  !.pc = IF TellsRefusal(FirstByte(in.buf)) THEN "ended"
                                         ELSE IF cl[c].cmd = 3 THEN "receiver" ELSE "code"])
  /\ UNCHANGED <<dbVars, toSrv, h, printed, lines, disturbed, issued>>

TypeReceiver(c) ==
  /\ cl[c].pc = "receiver"
  /\ \E x \in IdxTexts : Sends(c, Text(x), [cl[c] EXCEPT !.pc = "packName"])
  /\ UNCHANGED <<dbVars, toCli, h, printed, lines, lost, disturbed, issued>>

TypePackName(c) ==
  /\ cl[c].pc = "packName"
  /\ \E x \in NameTexts["packName"] : Sends(c, Text(x), [cl[c] EXCEPT !.pc = "input"])
  /\ UNCHANGED <<dbVars, toCli, h, printed, lines, lost, disturbed, issued>>

\* The text of a printed package code is typed, or any other text, and
\* decrypted with the delivery key.
TypeCode(c) ==
  /\ cl[c].pc = "code"
  /\ \E code \in printed \cup {Nothing} :
       Sends(c, Plain(Decrypt(code, DeliveryKey)), [cl[c] EXCEPT !.pc = "waitDone"])
  /\ UNCHANGED <<dbVars, toCli, h, printed, lines, lost, disturbed, issued>>

WaitDone(c) ==
  /\ cl[c].pc = "waitDone"
  /\ \E in \in CliRecv(c) :
       Takes(c, in, [cl[c] EXCEPT !.told = FirstByte(in.buf),
                                  !.pc = IF TellsRefusal(FirstByte(in.buf)) THEN "ended"
                                                                           ELSE "input"])
  /\ UNCHANGED <<dbVars, toSrv, h, printed, lines, disturbed, issued>>

ClientStep(c) ==
  \/ \E f \in Fields : TypeField(c, f)
  \/ WaitKey(c)
  \/ TypeIdx(c)
  \/ WaitCipher(c)
  \/ WaitSignal(c)
  \/ TypeReceiver(c)
  \/ TypePackName(c)
  \/ TypeCode(c)
  \/ WaitDone(c)
  \/ Terminate(c)

\* The client program is closed.
Close(c) ==
  /\ cl[c].pc # "ended" /\ (MayDie \/ cl[c].pc = "input")
  /\ cl' = [cl EXCEPT ![c].pc = "ended"]
  /\ toCli' = [toCli EXCEPT ![c] = <<>>]
  /\ UNCHANGED <<dbVars, toSrv, h, printed, lines, lost, disturbed, issued>>

----------------------------------------------------------------------------
(* The console: any line but "list" is sent to every client.                *)

Broadcast ==
  /\ status = "running" /\ lines < MaxBroadcast
  /\ lines' = lines + 1
  /\ toCli' = [c \in Threads |-> IF SrvOpen(c) /\ CliOpen(c)
                                 THEN Append(toCli[c], Text("kim")) ELSE toCli[c]]
  /\ disturbed' = disturbed \cup {c \in Threads : SrvOpen(c) /\ CliOpen(c)}
  /\ UNCHANGED <<dbVars, toSrv, h, cl, printed, lost, issued>>

SessionNext ==
  \/ \E c \in Threads : HandlerStep(c)
  \/ \E c \in Threads : ClientStep(c)
  \/ \E c \in Threads, cmd \in 1 .. 4 : Input(c, cmd)
  \/ \E c \in Threads : Close(c)
  \/ Broadcast

SessionSpec == SessionInit /\ [][SessionNext]_vars

\* The handler threads are scheduled, and a person who has begun a command
\* types the rest of it.
FairSession ==
  /\ SessionSpec
  /\ \A c \in Threads : WF_vars(HandlerStep(c)) /\ WF_vars(ClientStep(c))

----------------------------------------------------------------------------
(* Properties.                                                              *)

\* A handler goes on past the verification (main.cpp:289, 334) only for an index
\* whose secret key the server has sent to this very connection, unless a recv merged
\* two messages or a console line was taken for a reply.
VerifiedWasIssued ==
  \A c \in Threads :
    h[c].pc \in {"receiver", "packName", "createPack", "packing", "package", "take", "taking"}
      => h[c].key \in issued[c] \/ c \in lost \cup disturbed

\* A client that holds the key is refused (main.cpp:424, 446) only when the
\* random number does not fit a signed char, or the connection was disturbed.
RefusalExplained ==
  [][\A c \in Threads : h'[c].refused /\ ~h[c].refused =>
       \/ h[c].rand > 127
       \/ h[c].key # OwnKey(c)
       \/ c \in lost \cup disturbed \/ ~CliOpen(c)]_vars

Waiting == {"waitKey", "waitCipher", "waitSignal", "waitDone"}

\* Both programs are in recv and nothing is under way.
Stuck(c) ==
  /\ status = "running"
  /\ toSrv[c] = <<>> /\ toCli[c] = <<>>
  /\ cl[c].pc \in Waiting
  /\ h[c].pc \in {"cmd", "name", "phone", "addr", "idx", "answer", "receiver",
                  "packName", "package"}

\* Handler and client wait for each other for ever only if a recv merged two
\* messages or a console line was taken for a reply.
StuckOnlyIfDisturbed == \A c \in Threads : Stuck(c) => c \in lost \cup disturbed

\* A user or delivery man with an empty field, or a package without a name, is registered
\* only for a client that has gone away during the command (recv results unchecked,
\* main.cpp:199-211, 242-254, 303-307).
BlankOnlyIfClosed ==
  \A c \in Threads :
    h[c].blank /\ h[c].pc \in {"create", "creating", "createPack", "packing"} => ~CliOpen(c)

\* The index in every printed package code leads to a package: taking it does
\* not dereference a null pointer (main.cpp:315, 349-352).
PrintedLeadsToPackage ==
  \A code \in printed :
    LET m == Decrypt(code, DeliveryKey)
    IN  PackageAccepted(m) /\ Get("Package", PackageIdx(m)) # NoPtr

\* The bound on addresses stops the handler where the code would go on.
OutOfAddresses(c) ==
  h[c].pc \in {"create", "createPack"} /\ \A p \in Ptr : obj[p].kind # "free"

\* A command that was begun comes to its end, also when the server dies on it or
\* refuses it, unless a recv merges two messages or the console sends a line into it
\* (Client/main.cpp:112-264).
CommandEnds ==
  \A c \in Threads :
    cl[c].pc # "input" ~> \/ cl[c].pc \in {"input", "ended"} \/ status = "undefined"
                         \/ c \in lost \cup disturbed \/ OutOfAddresses(c)

\* The verification accepts every client that holds the key of the index it
\* gave, on an undisturbed connection.
HolderVerified ==
  [][\A c \in Threads : h'[c].refused /\ ~h[c].refused =>
       h[c].key # OwnKey(c) \/ c \in lost \cup disturbed \/ ~CliOpen(c)]_vars

\* A client that has received the refusal of its verification does not go on
\* with the command.
RefusalHeeded ==
  \A c \in Threads : cl[c].pc \in {"receiver", "packName", "code", "waitDone"}
                        => cl[c].told # SIGNAL_UNVERIFYED
=============================================================================
