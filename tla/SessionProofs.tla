---------------------------- MODULE SessionProofs ----------------------------
(* Proofs about Session, for any number of connections, commands, objects,  *)
(* messages that a recv merges, and lines typed at the console.             *)
EXTENDS Session, RegistryProofs

----------------------------------------------------------------------------
(* What the variables can hold.                                             *)

Secrets == Ptr \cup {NoPtr, "damaged"}

\* A message under way; no text is empty.
Packet == [type : {"text"}, text : Texts \ {""}]
          \cup [type : {"key"}, key : Ptr \cup {NoPtr}]
          \cup [type : {"cipher"}, key : Ptr, m : Message]
          \cup [type : {"plain"}, m : Message]
          \cup [type : {"signal"}, sig : {SIGNAL_VERIFYED, SIGNAL_UNVERIFYED}]

HandlerPCs == {"cmd", "name", "phone", "addr", "create", "creating", "idx", "answer", "receiver",
               "packName", "createPack", "packing", "package", "take", "taking", "ended"}

ClientPCs == {"input", "name", "phone", "addr", "waitKey", "idx", "waitCipher", "waitSignal",
              "receiver", "packName", "code", "waitDone", "ended"}

Handlers == [pc : HandlerPCs, kind : Persons, idx : Int, rand : 0 .. 254,
             key : Ptr \cup {NoPtr}, arg : Int, fits : BOOLEAN, blank : BOOLEAN,
             refused : BOOLEAN]

Clients == [pc : ClientPCs, cmd : 0 .. 4, n : Int, err : BOOLEAN, UserSecretKey : Secrets,
            DeliverySecretKey : Secrets, told : Byte]

SessionTypes ==
  /\ toSrv \in [Threads -> Seq(Packet)]
  /\ toCli \in [Threads -> Seq(Packet)]
  /\ h \in [Threads -> Handlers]
  /\ cl \in [Threads -> Clients]
  /\ issued \in [Threads -> SUBSET (Ptr \cup {NoPtr})]

----------------------------------------------------------------------------
(* The handler and its call of the database.                                *)

\* The class of the object that the handler is having created.
Creates(c) == IF h[c].pc = "creating" THEN h[c].kind ELSE "Package"

\* A handler is inside a call of the database exactly while it waits for one, and
\* the object of a finished registration has the number that the call returns.
CallOf(c) ==
  CASE h[c].pc \in {"creating", "packing"} ->
         /\ call[c].pc \in CreatePCs \cup {"done"}
         /\ call[c].kind = Creates(c)
         /\ call[c].obj \in Ptr /\ obj[call[c].obj].kind = Creates(c)
         /\ call[c].pc = "done" => Published(call[c].obj) /\ given[call[c].obj] = call[c].idx
    [] h[c].pc = "taking" -> call[c].pc \in TakePCs \cup {"done"}
    [] OTHER -> call[c].pc = "idle"

\* The indices that a handler goes on with are those of persons it has found.
FoundOf(c) ==
  /\ h[c].pc \in {"receiver", "packName", "createPack"} =>
       h[c].kind = "User" /\ h[c].idx \in NamePrinted("User")
  /\ h[c].pc \in {"packName", "createPack"} => h[c].arg \in NamePrinted("User")
  /\ h[c].pc \in {"package", "take"} => h[c].idx \in NamePrinted("DeliveryMan")
  /\ h[c].pc = "take" => h[c].arg \in Chars
  /\ h[c].pc = "answer" => h[c].key \in Ptr

\* What every code that was printed is about.
CodeOf(code) ==
  \E p \in Ptr : /\ Published(p) /\ obj[p].kind = "Package"
                 /\ code = Cipher(DeliveryKey, IdxToMessage(given[p]))

CodesInv == \A code \in printed : CodeOf(code)

HandlerOf(c) == (status = "running" => CallOf(c)) /\ FoundOf(c)

HandlerInv == \A c \in Threads : HandlerOf(c)

----------------------------------------------------------------------------
(* The two programs of a connection.                                        *)

\* A field is blank only if the client has gone; a socket error needs a closed server.
ClosedOf(c) == (h[c].blank => ~CliOpen(c)) /\ (cl[c].err => ~SrvOpen(c))

ClosedInv == \A c \in Threads : ClosedOf(c)

\* A client has no secret key but those that were sent to it.
KeysOf(c) ==
  /\ cl[c].UserSecretKey \in issued[c] \cup {NoPtr, "damaged"}
  /\ cl[c].DeliverySecretKey \in issued[c] \cup {NoPtr, "damaged"}
  /\ \A i \in 1 .. Len(toCli[c]) : toCli[c][i].type = "key" => toCli[c][i].key \in issued[c]

\* The connections for which the two programs are in step.
Aligned(c) == status = "running" /\ h[c].pc # "ended" /\ c \notin lost \cup disturbed

\* The class that a command is about.
ClassOf(cmd) == IF cmd \in {1, 3} THEN "User" ELSE "DeliveryMan"

\* The messages that the client has sent of its command at w, that the handler has
\* still to read of a command that is over for the client, and that it has read of a
\* registration.
Sent == [w \in {"input", "name", "phone", "addr", "waitKey", "idx", "waitCipher"} |->
           CASE w = "input" -> 0
             [] w \in {"name", "idx"} -> 1
             [] w \in {"phone", "waitCipher"} -> 2
             [] w = "addr" -> 3
             [] w = "waitKey" -> 4]
Left == [s \in {"cmd", "receiver", "packName", "createPack", "packing", "take", "taking"} |->
           CASE s = "receiver" -> 2 [] s = "packName" -> 1 [] OTHER -> 0]
Read == [s \in {"name", "phone", "addr", "create", "creating"} |->
           CASE s = "name" -> 1 [] s = "phone" -> 2 [] s = "addr" -> 3 [] OTHER -> 4]

\* The command of a client at w is one that leads there.
CommandAt(c, w) ==
  /\ w \in {"name", "phone", "addr", "waitKey"} => cl[c].cmd \in {1, 2}
  /\ w \in {"idx", "waitCipher", "waitSignal"} => cl[c].cmd \in {3, 4}
  /\ w \in {"receiver", "packName"} => cl[c].cmd = 3
  /\ w \in {"code", "waitDone"} => cl[c].cmd = 4

\* No reply is under way; one is.
Quiet(c) == CliOpen(c) => toCli[c] = <<>>
Replied(c) == CliOpen(c) => Len(toCli[c]) = 1

\* The handler has not yet read the client's command.
Ahead(c, w) ==
  /\ h[c].pc \in DOMAIN Left /\ w \in DOMAIN Sent
  /\ Len(toSrv[c]) = Left[h[c].pc] + Sent[w]
  /\ Sent[w] > 0 => toSrv[c][Left[h[c].pc] + 1] = Text(Command[cl[c].cmd])
  /\ Quiet(c)

\* Both are in the same command, in one of its stages.
Registering(c, w) ==
  /\ h[c].pc \in DOMAIN Read /\ w \in {"name", "phone", "addr", "waitKey"}
  /\ Len(toSrv[c]) + Read[h[c].pc] = Sent[w]
  /\ Quiet(c)

KeySent(c, w) ==
  /\ h[c].pc = "cmd" /\ w = "waitKey" /\ toSrv[c] = <<>>
  /\ CliOpen(c) => \E k \in Ptr : /\ toCli[c] = <<SecretKey(k)>>
                                  /\ obj[k].kind = ClassOf(cl[c].cmd)

Asking(c, w) ==
  /\ h[c].pc = "idx" /\ w \in {"idx", "waitCipher"}
  /\ Len(toSrv[c]) + 1 = Sent[w]
  /\ Quiet(c)

Challenge(c) == Cipher(h[c].key, IdxToMessage(h[c].rand))

Challenged(c, w) ==
  /\ h[c].pc = "answer"
  /\ \/ w = "waitCipher" /\ toSrv[c] = <<>> /\ (CliOpen(c) => toCli[c] = <<Challenge(c)>>)
     \/ w = "waitSignal" /\ toSrv[c] = <<Plain(Decrypt(Challenge(c), OwnKey(c)))>> /\ Quiet(c)

Verified(c, w) ==
  /\ h[c].pc = IF cl[c].cmd = 3 THEN "receiver" ELSE "package"
  /\ w = "waitSignal" /\ toSrv[c] = <<>> /\ Replied(c)

Packing(c, w) ==
  /\ <<h[c].pc, w>> \in {"receiver", "packName"} \X {"receiver", "packName"}
  /\ h[c].pc = "packName" => w = "packName"
  /\ Len(toSrv[c]) = IF h[c].pc = w THEN 0 ELSE 1
  /\ Quiet(c)

Collecting(c, w) ==
  \/ w = "code" /\ h[c].pc = "package" /\ toSrv[c] = <<>> /\ Quiet(c)
  \/ w = "waitDone" /\ h[c].pc = "package" /\ Len(toSrv[c]) = 1 /\ Quiet(c)
  \/ w = "waitDone" /\ h[c].pc \in {"take", "taking", "cmd"} /\ toSrv[c] = <<>> /\ Replied(c)

Stages(c, w) ==
  \/ Registering(c, w) \/ KeySent(c, w) \/ Asking(c, w) \/ Challenged(c, w) \/ Verified(c, w)
  \/ Packing(c, w) \/ Collecting(c, w)

InStep(c, w) ==
  /\ CommandAt(c, w)
  /\ \/ Ahead(c, w)
     \/ /\ Stages(c, w)
        /\ h[c].pc # "cmd" => h[c].kind = ClassOf(cl[c].cmd)

\* The keys of an undisturbed client are of the right class.
KeyClasses(c) ==
  /\ cl[c].UserSecretKey \in Ptr => obj[cl[c].UserSecretKey].kind = "User"
  /\ cl[c].DeliverySecretKey \in Ptr => obj[cl[c].DeliverySecretKey].kind = "DeliveryMan"

\* A client that has gone is where it went, or what it had sent is lost.
Gone(c) == ~CliOpen(c) /\ toSrv[c] = <<>>

LockstepOf(c) ==
  Aligned(c) =>
    /\ KeyClasses(c)
    /\ \/ Gone(c)
       \/ \E w \in ClientPCs \ {"ended"} : (CliOpen(c) => cl[c].pc = w) /\ InStep(c, w)

Lockstep == \A c \in Threads : LockstepOf(c)

----------------------------------------------------------------------------
(* Buffers and queues.                                                      *)

Buffer == Packet \cup {Nothing}

LEMMA PacketKinds ==
  /\ \A x \in Texts \ {""} : Text(x) \in Packet
  /\ \A k \in Ptr \cup {NoPtr} : SecretKey(k) \in Packet
  /\ \A k \in Ptr, m \in Message : Cipher(k, m) \in Packet
  /\ \A m \in Message : Plain(m) \in Packet
  /\ Signal(SIGNAL_VERIFYED) \in Packet /\ Signal(SIGNAL_UNVERIFYED) \in Packet
  BY DEF Text, SecretKey, Cipher, Plain, Signal, Packet

LEMMA Messages ==
  /\ Noise \in Message /\ Zero \in Message
  /\ \A i \in Int : IdxToMessage(i) \in Message
  BY DEF Noise, Zero, IdxToMessage, Message, Byte, U8, SIGNAL_CHECK_DELIVERY

\* The messages by what they are.
LEMMA BufferKinds ==
  ASSUME NEW buf \in Buffer
  PROVE  \/ buf.type = "text" /\ buf.text \in Texts \ {""} /\ buf # Nothing
         \/ buf.type = "key" /\ buf.key \in Ptr \cup {NoPtr} /\ buf # Nothing
         \/ buf.type = "cipher" /\ buf.key \in Ptr /\ buf.m \in Message /\ buf # Nothing
         \/ buf.type = "plain" /\ buf.m \in Message /\ buf # Nothing
         \/ buf.type = "signal" /\ buf.sig \in {SIGNAL_VERIFYED, SIGNAL_UNVERIFYED}
            /\ buf # Nothing
         \/ buf.type = "nothing" /\ buf = Nothing
  <1>1. Nothing.type = "nothing"
    BY DEF Nothing
  <1>2. CASE buf \in [type : {"text"}, text : Texts \ {""}]
    BY <1>1, <1>2
  <1>3. CASE buf \in [type : {"key"}, key : Ptr \cup {NoPtr}]
    BY <1>1, <1>3
  <1>4. CASE buf \in [type : {"cipher"}, key : Ptr, m : Message]
    BY <1>1, <1>4
  <1>5. CASE buf \in [type : {"plain"}, m : Message]
    BY <1>1, <1>5
  <1>6. CASE buf \in [type : {"signal"}, sig : {SIGNAL_VERIFYED, SIGNAL_UNVERIFYED}]
    BY <1>1, <1>6
  <1>7. CASE buf = Nothing
    BY <1>1, <1>7
  <1> QED
    BY <1>2, <1>3, <1>4, <1>5, <1>6, <1>7 DEF Buffer, Packet

\* What the programs read from a buffer.
LEMMA BufferRead ==
  ASSUME NEW buf \in Buffer
  PROVE  /\ AsText(buf) \in Texts /\ GetIdxFromReceiveMessage[AsText(buf)] \in Int
         /\ AsMessage(buf) \in Message /\ FirstByte(buf) \in Byte
         /\ (AsText(buf) = "" <=> buf = Nothing)
         /\ \A k : Decrypt(buf, k) \in Message
         /\ PackageIdx(AsMessage(buf)) \in Chars
         /\ buf.type = "key" => buf.key \in Ptr \cup {NoPtr}
         /\ buf.type = "nothing" <=> buf = Nothing
  <1>1. AsText(buf) \in Texts /\ (AsText(buf) = "" <=> buf = Nothing)
    BY BufferKinds DEF AsText, Texts
  <1>2. \A x \in Texts : GetIdxFromReceiveMessage[x] \in Int
    BY DEF GetIdxFromReceiveMessage
  <1>3. AsMessage(buf) \in Message
    BY Messages, BufferKinds DEF AsMessage
  <1>4. FirstByte(buf) \in Byte
    <2>1. 0 \in Byte /\ 65 \in Byte /\ {SIGNAL_VERIFYED, SIGNAL_UNVERIFYED} \subseteq Byte
      BY DEF Byte, SIGNAL_VERIFYED, SIGNAL_UNVERIFYED
    <2> QED
      BY <2>1, BufferKinds DEF FirstByte
  <1>5. \A k : Decrypt(buf, k) \in Message
    BY Messages, BufferKinds DEF Decrypt
  <1>6. PackageIdx(AsMessage(buf)) \in Chars
    BY <1>3 DEF PackageIdx, SChar, Message, Byte, Chars
  <1> QED
    BY <1>1, <1>2, <1>3, <1>4, <1>5, <1>6, BufferKinds

LEMMA PacketNotNothing == Nothing \notin Packet
  BY DEF Packet, Nothing

\* A recv takes messages from the front of the queue; it takes one, unless it is
\* merged, and takes none only if the peer has closed.
LEMMA RecvRead ==
  ASSUME NEW q \in Seq(Packet), NEW open \in BOOLEAN, NEW in \in Recv(q, open)
  PROVE  /\ in.buf \in Buffer /\ in.rest \in Seq(Packet) /\ in.took \in Nat
         /\ in.buf = Nothing => ~open /\ in.rest = <<>>
         /\ in.buf # Nothing => q # <<>> /\ in.buf = q[1]
         /\ in.buf # Nothing /\ in.took <= 1 => in.rest = Tail(q)
         /\ \A i \in 1 .. Len(in.rest) : \E j \in 1 .. Len(q) : in.rest[i] = q[j]
  <1>1. CASE \E n \in 1 .. Len(q) : in = [buf |-> q[1], rest |-> SubSeq(q, n + 1, Len(q)),
                                          took |-> n]
    <2>1. PICK n \in 1 .. Len(q) : in = [buf |-> q[1], rest |-> SubSeq(q, n + 1, Len(q)),
                                          took |-> n]
      BY <1>1
    <2>2. q[1] \in Packet /\ q # <<>> /\ q[1] # Nothing
      <3>1. Len(q) \in Nat /\ 1 \in 1 .. Len(q)
        BY <2>1
      <3>2. q[1] \in Packet
        BY <3>1
      <3> QED
        BY <3>1, <3>2, PacketNotNothing
    <2>3. SubSeq(q, n + 1, Len(q)) \in Seq(Packet)
      BY <2>1
    <2>4. \A i \in 1 .. Len(in.rest) : in.rest[i] = q[i + n] /\ i + n \in 1 .. Len(q)
      BY <2>1
    <2>5. n = 1 => in.rest = Tail(q)
      BY <2>1
    <2>6. /\ in.buf = q[1] /\ in.rest = SubSeq(q, n + 1, Len(q)) /\ n \in Nat
          /\ in.took = n
      BY <2>1
    <2>7. \A i \in 1 .. Len(in.rest) : \E j \in 1 .. Len(q) : in.rest[i] = q[j]
      BY <2>4
    <2>8. in.buf \in Buffer /\ in.rest \in Seq(Packet) /\ in.took \in Nat /\ in.buf # Nothing
      BY <2>2, <2>3, <2>6 DEF Buffer
    <2>9. in.took <= 1 => in.rest = Tail(q)
      BY <2>1, <2>5, <2>6
    <2> QED
      BY <2>2, <2>6, <2>7, <2>8, <2>9
  <1>2. CASE ~open /\ in = [buf |-> Nothing, rest |-> <<>>, took |-> 0]
    <2>1. in.buf = Nothing /\ in.rest = <<>> /\ in.took = 0
      BY <1>2
    <2>2. <<>> \in Seq(Packet) /\ \A i \in 1 .. Len(<<>>) : FALSE
      OBVIOUS
    <2> QED
      BY <1>2, <2>1, <2>2 DEF Buffer
  <1>3. \/ in \in {[buf |-> q[1], rest |-> SubSeq(q, n + 1, Len(q)), took |-> n] :
                   n \in 1 .. IF Len(q) < MaxCoalesce THEN Len(q) ELSE MaxCoalesce}
        \/ ~open /\ in = [buf |-> Nothing, rest |-> <<>>, took |-> 0]
    BY DEF Recv
  <1>4. (1 .. IF Len(q) < MaxCoalesce THEN Len(q) ELSE MaxCoalesce) \subseteq 1 .. Len(q)
    BY CoalesceAssumption
  <1> QED
    BY <1>1, <1>2, <1>3, <1>4

----------------------------------------------------------------------------
(* Types, and what a step of one connection leaves alone.                   *)

\* The other connections are as they were.
Elsewhere(c) ==
  \A d \in Threads \ {c} :
    /\ h'[d] = h[d] /\ cl'[d] = cl[d] /\ toSrv'[d] = toSrv[d] /\ toCli'[d] = toCli[d]
    /\ issued'[d] = issued[d]
    /\ (d \in lost' <=> d \in lost) /\ (d \in disturbed' <=> d \in disturbed)

LEMMA HandlerBegins == Handler0 \in Handlers
  BY DEF Handler0, Handlers, HandlerPCs, Persons, INVALID_VALUE

LEMMA OneMessage == <<>> \in Seq(Packet) /\ \A x \in Packet : <<x>> \in Seq(Packet)
  OBVIOUS

LEMMA InitTypes == SessionInit => SessionTypes
  <1> SUFFICES ASSUME SessionInit PROVE SessionTypes
    OBVIOUS
  <1>1. Handler0 \in Handlers
    BY HandlerBegins
  <1>2. Client0 \in Clients
    BY DEF Client0, Clients, ClientPCs, Secrets, Byte
  <1> QED
    BY <1>1, <1>2 DEF SessionInit, SessionTypes

LEMMA ReceivedEffect ==
  ASSUME SessionTypes, NEW c \in Threads, NEW in \in SrvRecv(c), NEW replies \in Seq(Packet),
         Received(c, in, replies)
  PROVE  /\ toSrv' \in [Threads -> Seq(Packet)] /\ toCli' \in [Threads -> Seq(Packet)]
         /\ toSrv'[c] = in.rest
         /\ toCli'[c] = IF CliOpen(c) THEN toCli[c] \o replies ELSE toCli[c]
         /\ \A d \in Threads \ {c} : /\ toSrv'[d] = toSrv[d] /\ toCli'[d] = toCli[d]
                                     /\ (d \in lost' <=> d \in lost)
         /\ c \notin lost' => c \notin lost /\ in.took <= 1
  <1>1. in.rest \in Seq(Packet) /\ in.took \in Nat
    BY RecvRead DEF SessionTypes, SrvRecv, CliOpen
  <1>2. toCli[c] \o replies \in Seq(Packet)
    BY DEF SessionTypes
  <1> QED
    BY <1>1, <1>2 DEF Received, SessionTypes

LEMMA TakesEffect ==
  ASSUME SessionTypes, NEW c \in Threads, NEW in \in CliRecv(c), NEW new \in Clients,
         Takes(c, in, new)
  PROVE  /\ toCli' \in [Threads -> Seq(Packet)] /\ cl' \in [Threads -> Clients]
         /\ toCli'[c] = in.rest
         /\ \E e \in Err(c) : cl'[c] = [new EXCEPT !.err = e]
         /\ \A d \in Threads \ {c} : /\ cl'[d] = cl[d] /\ toCli'[d] = toCli[d]
                                     /\ (d \in lost' <=> d \in lost)
         /\ c \notin lost' => c \notin lost /\ in.took <= 1
  <1>1. in.rest \in Seq(Packet) /\ in.took \in Nat
    BY RecvRead DEF SessionTypes, CliRecv, SrvOpen
  <1>2. \A e \in Err(c) : [new EXCEPT !.err = e] \in Clients
    BY DEF SessionTypes, Clients, Err
  <1>3. toCli' \in [Threads -> Seq(Packet)] /\ toCli' = [toCli EXCEPT ![c] = in.rest]
    BY <1>1 DEF Takes, SessionTypes
  <1>4. PICK e \in Err(c) : cl' = [cl EXCEPT ![c] = [new EXCEPT !.err = e]]
    BY DEF Takes
  <1>5. cl' \in [Threads -> Clients] /\ cl'[c] = [new EXCEPT !.err = e]
    BY <1>2, <1>4 DEF SessionTypes
  <1>6. \A d \in Threads \ {c} : cl'[d] = cl[d] /\ toCli'[d] = toCli[d]
    BY <1>3, <1>4 DEF SessionTypes
  <1>7. /\ \A d \in Threads \ {c} : d \in lost' <=> d \in lost
        /\ c \notin lost' => c \notin lost /\ in.took <= 1
    BY <1>1 DEF Takes
  <1> QED
    BY <1>3, <1>5, <1>6, <1>7 DEF SessionTypes

LEMMA SendsEffect ==
  ASSUME SessionTypes, NEW c \in Threads, NEW msg \in Packet, NEW new \in Clients,
         Sends(c, msg, new)
  PROVE  /\ toSrv' \in [Threads -> Seq(Packet)] /\ cl' \in [Threads -> Clients]
         /\ toSrv'[c] = IF SrvOpen(c) THEN Append(toSrv[c], msg) ELSE toSrv[c]
         /\ \E e \in Err(c) : cl'[c] = [new EXCEPT !.err = e]
         /\ \A d \in Threads \ {c} : cl'[d] = cl[d] /\ toSrv'[d] = toSrv[d]
  <1>1. \A e \in Err(c) : [new EXCEPT !.err = e] \in Clients
    BY DEF SessionTypes, Clients, Err
  <1>2. Append(toSrv[c], msg) \in Seq(Packet)
    BY DEF SessionTypes
  <1> QED
    BY <1>1, <1>2 DEF Sends, SessionTypes

LEMMA GoesEffect ==
  ASSUME SessionTypes, NEW c \in Threads, NEW new \in Handlers, Goes(c, new)
  PROVE  /\ h' \in [Threads -> Handlers] /\ h'[c] = new
         /\ \A d \in Threads \ {c} : h'[d] = h[d]
  BY DEF Goes, SessionTypes

\* A step that reads and leaves the client and what was issued as they were.
LEMMA ReadTypes ==
  ASSUME SessionTypes, NEW c \in Threads, NEW in \in SrvRecv(c), NEW replies \in Seq(Packet),
         Received(c, in, replies), UNCHANGED <<cl, disturbed, issued>>,
         (\E new \in Handlers : Goes(c, new)) \/ UNCHANGED h
  PROVE  SessionTypes' /\ Elsewhere(c)
  <1>1. h' \in [Threads -> Handlers] /\ \A d \in Threads \ {c} : h'[d] = h[d]
    BY GoesEffect DEF SessionTypes
  <1> QED
    BY <1>1, ReceivedEffect DEF SessionTypes, Elsewhere

\* A step that reads nothing and changes only the handler, and what it sends.
LEMMA GoTypes ==
  ASSUME SessionTypes, NEW c \in Threads, NEW new \in Handlers, Goes(c, new),
         UNCHANGED <<toSrv, toCli, cl, lost, disturbed, issued>>
  PROVE  SessionTypes' /\ Elsewhere(c)
  BY GoesEffect DEF SessionTypes, Elsewhere

\* Values that a handler's record takes.
LEMMA HandlerSet ==
  ASSUME NEW x \in Handlers
  PROVE  /\ \A pc \in HandlerPCs : [x EXCEPT !.pc = pc] \in Handlers
         /\ \A pc \in HandlerPCs, r \in BOOLEAN :
              [x EXCEPT !.pc = pc, !.refused = r] \in Handlers
         /\ \A pc \in HandlerPCs, f, b \in BOOLEAN :
              [x EXCEPT !.pc = pc, !.fits = f, !.blank = b] \in Handlers
         /\ \A pc \in HandlerPCs, b \in BOOLEAN : [x EXCEPT !.pc = pc, !.blank = b] \in Handlers
         /\ \A pc \in HandlerPCs, i \in Int : [x EXCEPT !.pc = pc, !.arg = i] \in Handlers
         /\ \A pc \in HandlerPCs, i \in Int, r \in 0 .. 254, k \in Ptr :
              [x EXCEPT !.pc = pc, !.idx = i, !.rand = r, !.key = k] \in Handlers
         /\ \A pc \in HandlerPCs, k \in Persons :
              [Handler0 EXCEPT !.pc = pc, !.kind = k] \in Handlers
  <1>1. \A pc \in HandlerPCs : [x EXCEPT !.pc = pc] \in Handlers
    BY DEF Handlers
  <1>2. \A pc \in HandlerPCs, r \in BOOLEAN : [x EXCEPT !.pc = pc, !.refused = r] \in Handlers
    BY DEF Handlers
  <1>3. \A pc \in HandlerPCs, f, b \in BOOLEAN :
          [x EXCEPT !.pc = pc, !.fits = f, !.blank = b] \in Handlers
    BY DEF Handlers
  <1>4. \A pc \in HandlerPCs, i \in Int : [x EXCEPT !.pc = pc, !.arg = i] \in Handlers
    BY DEF Handlers
  <1>5. \A pc \in HandlerPCs, i \in Int, r \in 0 .. 254, k \in Ptr :
          [x EXCEPT !.pc = pc, !.idx = i, !.rand = r, !.key = k] \in Handlers
    BY DEF Handlers
  <1>6. \A pc \in HandlerPCs, k \in Persons : [Handler0 EXCEPT !.pc = pc, !.kind = k] \in Handlers
    BY HandlerBegins DEF Handlers
  <1>7. \A pc \in HandlerPCs, b \in BOOLEAN : [x EXCEPT !.pc = pc, !.blank = b] \in Handlers
    BY DEF Handlers
  <1> QED
    BY <1>1, <1>2, <1>3, <1>4, <1>5, <1>6, <1>7

\* What the name of a package leaves behind.
LEMMA PackNameRead ==
  ASSUME NEW c \in Threads, RecvPackName(c)
  PROVE  \E in \in SrvRecv(c), b \in BOOLEAN :
           /\ b <=> AsText(in.buf) = ""
           /\ Goes(c, [h[c] EXCEPT !.pc = "createPack", !.blank = b])
  <1>1. PICK in \in SrvRecv(c) :
          Goes(c, [h[c] EXCEPT !.pc = "createPack", !.blank = AsText(in.buf) = ""])
    BY DEF RecvPackName
  <1> DEFINE b == AsText(in.buf) = ""
  <1>2. b \in BOOLEAN /\ (b <=> AsText(in.buf) = "")
    OBVIOUS
  <1>3. Goes(c, [h[c] EXCEPT !.pc = "createPack", !.blank = b])
    BY <1>1
  <1> HIDE DEF b
  <1> QED
    BY <1>2, <1>3

LEMMA HandlerTypes ==
  ASSUME TypeOK, SessionTypes, NEW c \in Threads, HandlerStep(c)
  PROVE  SessionTypes' /\ Elsewhere(c)
  <1>1. h[c] \in Handlers /\ <<>> \in Seq(Packet)
    BY DEF SessionTypes
  <1>2. \A in \in SrvRecv(c) : in.buf \in Buffer
    BY RecvRead DEF SessionTypes, SrvRecv, CliOpen
  <1>3. CASE RecvCommand(c)
    <2>1. PICK in \in SrvRecv(c) :
            /\ Received(c, in, <<>>)
            /\ Goes(c,
                 CASE in.buf.type = "nothing" -> [h[c] EXCEPT !.pc = "ended"]
                   [] AsText(in.buf) = "1" -> [Handler0 EXCEPT !.pc = "name", !.kind = "User"]
                   [] AsText(in.buf) = "2" -> [Handler0 EXCEPT !.pc = "name", !.kind = "DeliveryMan"]
                   [] AsText(in.buf) = "3" -> [Handler0 EXCEPT !.pc = "idx", !.kind = "User"]
                   [] AsText(in.buf) = "4" -> [Handler0 EXCEPT !.pc = "idx", !.kind = "DeliveryMan"]
                   [] OTHER -> h[c])
      BY <1>3 DEF RecvCommand
    <2>2. \E new \in Handlers : Goes(c, new)
      BY <1>1, <2>1, HandlerSet DEF HandlerPCs, Persons
    <2> QED
      BY <1>1, <1>3, <2>1, <2>2, ReadTypes DEF RecvCommand
  <1>4. ASSUME NEW f \in Fields, RecvField(c, f) PROVE SessionTypes' /\ Elsewhere(c)
    <2>1. PICK in \in SrvRecv(c) :
            /\ Received(c, in, <<>>)
            /\ Goes(c, [h[c] EXCEPT !.pc = NextField[f],
                               !.fits = h[c].fits /\ Fits(f, AsText(in.buf)),
                               !.blank = h[c].blank \/ AsText(in.buf) = ""])
      BY <1>4 DEF RecvField
    <2>2. NextField[f] \in HandlerPCs
      BY DEF NextField, Fields, HandlerPCs
    <2>3. (h[c].fits /\ Fits(f, AsText(in.buf))) \in BOOLEAN
          /\ (h[c].blank \/ AsText(in.buf) = "") \in BOOLEAN
      OBVIOUS
    <2>4. \E new \in Handlers : Goes(c, new)
      <3> DEFINE a == h[c].fits /\ Fits(f, AsText(in.buf))
                 b == h[c].blank \/ AsText(in.buf) = ""
      <3>1. a \in BOOLEAN /\ b \in BOOLEAN /\ Goes(c, [h[c] EXCEPT !.pc = NextField[f], !.fits = a, !.blank = b])
        BY <2>1
      <3> HIDE DEF a, b
      <3> QED
        BY <1>1, <2>2, <3>1, HandlerSet
    <2> QED
      BY <1>1, <1>4, <2>1, <2>4, ReadTypes DEF RecvField
  <1>5. CASE CallCreate(c) \/ CallCreatePackage(c) \/ PrintPackage(c) \/ CallTake(c) \/ PrintTaken(c)
    <2>1. \E new \in Handlers : Goes(c, new)
      <3>1. \E pc \in {"creating", "packing", "cmd", "taking"} : Goes(c, [h[c] EXCEPT !.pc = pc])
        BY <1>5 DEF CallCreate, CallCreatePackage, PrintPackage, CallTake, PrintTaken
      <3>2. \A pc \in {"creating", "packing", "cmd", "taking"} : [h[c] EXCEPT !.pc = pc] \in Handlers
        <4>1. {"creating", "packing", "cmd", "taking"} \subseteq HandlerPCs
          BY DEF HandlerPCs
        <4> QED
          BY <1>1, <4>1, HandlerSet
      <3> QED
        BY <3>1, <3>2
    <2> QED
      BY <1>5, <2>1, GoTypes DEF CallCreate, CallCreatePackage, PrintPackage, CallTake, PrintTaken
  <1>6. CASE SendKey(c)
    <2>1. Goes(c, [h[c] EXCEPT !.pc = "cmd"]) /\ [h[c] EXCEPT !.pc = "cmd"] \in Handlers
      BY <1>1, <1>6, HandlerSet DEF SendKey, HandlerPCs
    <2>2. call[c].obj \in Ptr \cup {NoPtr}
      BY DEF TypeOK, Call
    <2>3. Append(toCli[c], SecretKey(call[c].obj)) \in Seq(Packet)
      <3>1. SecretKey(call[c].obj) \in Packet /\ toCli[c] \in Seq(Packet)
        BY <2>2, PacketKinds DEF SessionTypes
      <3> HIDE DEF Packet
      <3> QED
        BY <3>1
    <2> QED
      BY <1>6, <2>1, <2>2, <2>3, GoesEffect DEF SendKey, SessionTypes, Elsewhere
  <1>7. CASE RecvIdx(c)
    <2>1. PICK in \in SrvRecv(c), rand \in RandNums, i \in Int :
            \/ /\ Get(h[c].kind, i) \in Ptr
               /\ Received(c, in, <<Cipher(Get(h[c].kind, i), IdxToMessage(rand))>>)
               /\ Goes(c, [h[c] EXCEPT !.pc = "answer", !.idx = i, !.rand = rand,
                                       !.key = Get(h[c].kind, i)])
            \/ /\ Received(c, in, <<>>)
               /\ UNCHANGED h
      BY <1>2, <1>7, BufferRead DEF RecvIdx, Readable
    <2>2. rand \in 0 .. 254 /\ rand \in Int
      BY RandAssumption
    <2>3. CASE Received(c, in, <<>>) /\ UNCHANGED h
      BY <1>1, <1>7, <2>3, ReadTypes DEF RecvIdx
    <2>4. CASE /\ Get(h[c].kind, i) \in Ptr
               /\ Received(c, in, <<Cipher(Get(h[c].kind, i), IdxToMessage(rand))>>)
               /\ Goes(c, [h[c] EXCEPT !.pc = "answer", !.idx = i, !.rand = rand,
                                       !.key = Get(h[c].kind, i)])
      <3>1. <<Cipher(Get(h[c].kind, i), IdxToMessage(rand))>> \in Seq(Packet)
        BY <2>2, <2>4, PacketKinds, Messages, OneMessage
      <3>2. \E new \in Handlers : Goes(c, new)
        <4>1. "answer" \in HandlerPCs
          BY DEF HandlerPCs
        <4>2. \A k \in Ptr : [h[c] EXCEPT !.pc = "answer", !.idx = i, !.rand = rand, !.key = k]
                                \in Handlers
          BY <1>1, <2>2, <4>1, HandlerSet
        <4> QED
          BY <2>4, <4>2
      <3> QED
        BY <1>7, <2>4, <3>1, <3>2, ReadTypes DEF RecvIdx
    <2> QED
      BY <2>1, <2>3, <2>4
  <1>8. CASE RecvAnswer(c)
    <2>1. PICK in \in SrvRecv(c), r \in {<<>>, <<Signal(SIGNAL_VERIFYED)>>, <<Signal(SIGNAL_UNVERIFYED)>>} :
            Received(c, in, r)
      BY <1>8 DEF RecvAnswer
    <2>2. r \in Seq(Packet)
      BY PacketKinds, OneMessage
    <2>3. (\E new \in Handlers : Goes(c, new)) \/ UNCHANGED h
      <3>1. CASE UNCHANGED h
        BY <3>1
      <3>2. CASE \E pc \in {"ended", "receiver", "package"}, ok \in BOOLEAN :
                   Goes(c, [h[c] EXCEPT !.pc = pc, !.refused = ok])
        <4>1. \A pc \in {"ended", "receiver", "package"}, ok \in BOOLEAN :
                [h[c] EXCEPT !.pc = pc, !.refused = ok] \in Handlers
          <5>1. {"ended", "receiver", "package"} \subseteq HandlerPCs
            BY DEF HandlerPCs
          <5> QED
            BY <1>1, <5>1, HandlerSet
        <4> QED
          BY <3>2, <4>1
      <3> QED
        BY <1>8, <3>1, <3>2 DEF RecvAnswer
    <2> QED
      BY <1>8, <2>1, <2>2, <2>3, ReadTypes DEF RecvAnswer
  <1>9. CASE RecvReceiver(c)
    <2>1. PICK in \in SrvRecv(c), r \in Int :
            /\ Received(c, in, <<>>)
            /\ Goes(c, [h[c] EXCEPT !.pc = "packName", !.arg = r]) \/ UNCHANGED h
      BY <1>2, <1>9, BufferRead DEF RecvReceiver
    <2>2. [h[c] EXCEPT !.pc = "packName", !.arg = r] \in Handlers
      <3>1. "packName" \in HandlerPCs
        BY DEF HandlerPCs
      <3> QED
        BY <1>1, <3>1, HandlerSet
    <2>3. UNCHANGED <<cl, disturbed, issued>>
      BY <1>9 DEF RecvReceiver
    <2> QED
      BY <1>1, <2>1, <2>2, <2>3, ReadTypes
  <1>10. CASE RecvPackName(c)
    <2>1. \E new \in Handlers : Goes(c, new)
      <3>1. "createPack" \in HandlerPCs
        BY DEF HandlerPCs
      <3>2. PICK b \in BOOLEAN : Goes(c, [h[c] EXCEPT !.pc = "createPack", !.blank = b])
        BY <1>10, PackNameRead
      <3> QED
        BY <1>1, <3>1, <3>2, HandlerSet
    <2> QED
      BY <1>1, <1>10, <2>1, ReadTypes DEF RecvPackName
  <1>11. CASE RecvPackage(c)
    <2>1. PICK in \in SrvRecv(c), i \in Int, r \in {SIGNAL_VERIFYED, SIGNAL_UNVERIFYED} :
            /\ Received(c, in, <<Signal(r)>>)
            /\ \/ Goes(c, [h[c] EXCEPT !.pc = "take", !.arg = i])
               \/ Goes(c, [h[c] EXCEPT !.pc = "ended"])
      <3>1. Chars \subseteq Int
        BY DEF Chars
      <3> QED
        BY <1>2, <1>11, <3>1, BufferRead DEF RecvPackage
    <2>2. <<Signal(r)>> \in Seq(Packet)
      BY PacketKinds, OneMessage
    <2>3. \E new \in Handlers : Goes(c, new)
      <3>1. /\ [h[c] EXCEPT !.pc = "take", !.arg = i] \in Handlers
            /\ [h[c] EXCEPT !.pc = "ended"] \in Handlers
        <4>1. "take" \in HandlerPCs /\ "ended" \in HandlerPCs
          BY DEF HandlerPCs
        <4> QED
          BY <1>1, <4>1, HandlerSet
      <3> QED
        BY <2>1, <3>1
    <2> QED
      BY <1>11, <2>1, <2>2, <2>3, ReadTypes DEF RecvPackage
  <1>12. CASE InDatabase(c)
    BY <1>12 DEF InDatabase, netVars, SessionTypes, Elsewhere
  <1> QED
    BY <1>3, <1>4, <1>5, <1>6, <1>7, <1>8, <1>9, <1>10, <1>11, <1>12 DEF HandlerStep

\* Values that a client's record takes.
LEMMA ClientSet ==
  ASSUME NEW x \in Clients
  PROVE  /\ \A pc \in ClientPCs : [x EXCEPT !.pc = pc] \in Clients
         /\ \A pc \in ClientPCs, b \in Byte : [x EXCEPT !.told = b, !.pc = pc] \in Clients
         /\ \A pc \in ClientPCs, k \in Secrets :
              /\ [x EXCEPT !.pc = pc, !.UserSecretKey = k] \in Clients
              /\ [x EXCEPT !.pc = pc, !.DeliverySecretKey = k] \in Clients
         /\ \A pc \in ClientPCs, cmd \in 0 .. 4, n \in Int :
              [x EXCEPT !.pc = pc, !.cmd = cmd, !.n = n] \in Clients
  <1>1. \A pc \in ClientPCs : [x EXCEPT !.pc = pc] \in Clients
    BY DEF Clients
  <1>2. \A pc \in ClientPCs, b \in Byte : [x EXCEPT !.told = b, !.pc = pc] \in Clients
    BY DEF Clients
  <1>3. \A pc \in ClientPCs, k \in Secrets :
          /\ [x EXCEPT !.pc = pc, !.UserSecretKey = k] \in Clients
          /\ [x EXCEPT !.pc = pc, !.DeliverySecretKey = k] \in Clients
    BY DEF Clients
  <1>4. \A pc \in ClientPCs, cmd \in 0 .. 4, n \in Int :
          [x EXCEPT !.pc = pc, !.cmd = cmd, !.n = n] \in Clients
    BY DEF Clients
  <1> QED
    BY <1>1, <1>2, <1>3, <1>4

\* The client sends a message; the client reads one.
LEMMA SendTypes ==
  ASSUME SessionTypes, NEW c \in Threads, NEW msg \in Packet, NEW new \in Clients,
         Sends(c, msg, new), UNCHANGED <<toCli, h, lost, disturbed, issued>>
  PROVE  SessionTypes' /\ Elsewhere(c)
  BY SendsEffect DEF SessionTypes, Elsewhere

LEMMA TakeTypes ==
  ASSUME SessionTypes, NEW c \in Threads, NEW in \in CliRecv(c), NEW new \in Clients,
         Takes(c, in, new), UNCHANGED <<toSrv, h, disturbed, issued>>
  PROVE  SessionTypes' /\ Elsewhere(c)
  BY TakesEffect DEF SessionTypes, Elsewhere

\* The next place of a client after a field.
AfterField == [f \in Fields |-> CASE f = "name" -> "phone" [] f = "phone" -> "addr"
                                  [] f = "addr" -> "waitKey"]

\* Whatever is typed for a package code, its decryption is a message.
LEMMA CodeDecrypts ==
  ASSUME TypeOK, CodesInv
  PROVE  \A code \in printed \cup {Nothing} : Decrypt(code, DeliveryKey) \in Message
  <1>1. \A p \in Ptr : given[p] \in Int
    BY DEF TypeOK, INVALID_VALUE
  <1>2. \A m \in Message : Decrypt(Cipher(DeliveryKey, m), DeliveryKey) = m
    BY DEF Decrypt, Cipher
  <1>3. \A code \in printed : Decrypt(code, DeliveryKey) \in Message
    BY <1>1, <1>2, Messages DEF CodesInv, CodeOf
  <1>4. Decrypt(Nothing, DeliveryKey) \in Message
    BY BufferRead DEF Buffer
  <1> QED
    BY <1>3, <1>4

LEMMA ClientTypes ==
  ASSUME TypeOK, SessionTypes, CodesInv, NEW c \in Threads, ClientStep(c)
  PROVE  SessionTypes' /\ Elsewhere(c)
  <1>1. cl[c] \in Clients
    BY DEF SessionTypes
  <1>2. \A in \in CliRecv(c) : in.buf \in Buffer
    BY RecvRead DEF SessionTypes, CliRecv, SrvOpen
  <1>3. ASSUME NEW f \in Fields, TypeField(c, f) PROVE SessionTypes' /\ Elsewhere(c)
    <2>1. PICK x \in NameTexts[f] : Sends(c, Text(x), [cl[c] EXCEPT !.pc = AfterField[f]])
      BY <1>3 DEF TypeField, AfterField
    <2>2. Text(x) \in Packet
      BY PacketKinds, TextAssumption
    <2>3. [cl[c] EXCEPT !.pc = AfterField[f]] \in Clients
      BY <1>1, ClientSet DEF AfterField, Fields, ClientPCs
    <2> QED
      BY <1>3, <2>1, <2>2, <2>3, SendTypes DEF TypeField
  <1>4. CASE WaitKey(c)
    <2>1. PICK in \in CliRecv(c), k \in Secrets :
            Takes(c, in, IF cl[c].cmd = 1
                         THEN [cl[c] EXCEPT !.pc = "input", !.UserSecretKey = k]
                         ELSE [cl[c] EXCEPT !.pc = "input", !.DeliverySecretKey = k])
      BY <1>2, <1>4, BufferRead DEF WaitKey, Secrets
    <2> QED
      BY <1>1, <1>4, <2>1, ClientSet, TakeTypes DEF WaitKey, ClientPCs
  <1>5. CASE TypeIdx(c) \/ TypeReceiver(c) \/ TypePackName(c)
    <2>1. PICK x \in Texts \ {""}, pc \in {"waitCipher", "packName", "input"} :
            Sends(c, Text(x), [cl[c] EXCEPT !.pc = pc])
      BY <1>5, TextAssumption DEF TypeIdx, TypeReceiver, TypePackName
    <2> QED
      BY <1>1, <1>5, <2>1, ClientSet, SendTypes, PacketKinds
         DEF TypeIdx, TypeReceiver, TypePackName, ClientPCs
  <1>6. CASE WaitCipher(c)
    <2>1. PICK in \in CliRecv(c) :
            /\ Takes(c, in, [cl[c] EXCEPT !.pc = "waitSignal"])
            /\ toSrv' = [toSrv EXCEPT ![c] =
                           IF SrvOpen(c) THEN Append(@, Plain(Decrypt(in.buf, OwnKey(c)))) ELSE @]
      BY <1>6 DEF WaitCipher
    <2>2. Plain(Decrypt(in.buf, OwnKey(c))) \in Packet
      BY <1>2, BufferRead, PacketKinds
    <2>3. Append(toSrv[c], Plain(Decrypt(in.buf, OwnKey(c)))) \in Seq(Packet)
      BY <2>2 DEF SessionTypes
    <2>4. toSrv' \in [Threads -> Seq(Packet)] /\ \A d \in Threads \ {c} : toSrv'[d] = toSrv[d]
      BY <2>1, <2>3 DEF SessionTypes
    <2> QED
      BY <1>1, <1>6, <2>1, <2>4, ClientSet, TakesEffect
         DEF WaitCipher, ClientPCs, SessionTypes, Elsewhere
  <1>7. CASE WaitSignal(c) \/ WaitDone(c)
    <2>1. PICK in \in CliRecv(c), b \in Byte, pc \in {"ended", "receiver", "code", "input"} :
            Takes(c, in, [cl[c] EXCEPT !.told = b, !.pc = pc])
      BY <1>2, <1>7, BufferRead DEF WaitSignal, WaitDone
    <2> QED
      BY <1>1, <1>7, <2>1, ClientSet, TakeTypes DEF WaitSignal, WaitDone, ClientPCs
  <1>8. CASE TypeCode(c)
    <2>1. PICK m \in Message : Sends(c, Plain(m), [cl[c] EXCEPT !.pc = "waitDone"])
      BY <1>8, CodeDecrypts DEF TypeCode
    <2> QED
      BY <1>1, <1>8, <2>1, ClientSet, SendTypes, PacketKinds DEF TypeCode, ClientPCs
  <1>9. CASE Terminate(c)
    <2>1. cl' = [cl EXCEPT ![c] = [cl[c] EXCEPT !.pc = "ended"]]
      BY <1>9 DEF Terminate
    <2> QED
      BY <1>1, <1>9, <2>1, ClientSet DEF Terminate, ClientPCs, SessionTypes, Elsewhere
  <1> QED
    BY <1>3, <1>4, <1>5, <1>6, <1>7, <1>8, <1>9 DEF ClientStep

LEMMA InputTypes ==
  ASSUME SessionTypes, NEW c \in Threads, NEW cmd \in 1 .. 4, Input(c, cmd)
  PROVE  SessionTypes' /\ Elsewhere(c)
  <1>1. Command[cmd] \in Texts \ {""}
    <2>1. Command[1] = "1" /\ Command[2] = "2" /\ Command[3] = "3" /\ Command[4] = "4"
      BY DEF Command
    <2>2. cmd = 1 \/ cmd = 2 \/ cmd = 3 \/ cmd = 4
      OBVIOUS
    <2> QED
      BY <2>1, <2>2 DEF Texts
  <1>2. cl[c] \in Clients /\ cl[c].n + 1 \in Int
    BY DEF SessionTypes, Clients
  <1>3. [cl[c] EXCEPT !.pc = IF cmd <= 2 THEN "name" ELSE "idx", !.cmd = cmd, !.n = @ + 1]
          \in Clients
    <2>1. (IF cmd <= 2 THEN "name" ELSE "idx") \in ClientPCs /\ cmd \in 0 .. 4
      BY DEF ClientPCs
    <2> QED
      BY <1>2, <2>1, ClientSet
  <1> QED
    BY <1>1, <1>3, SendTypes, PacketKinds DEF Input

LEMMA CloseTypes ==
  ASSUME SessionTypes, NEW c \in Threads, Close(c)
  PROVE  SessionTypes' /\ Elsewhere(c)
  <1>1. [cl[c] EXCEPT !.pc = "ended"] \in Clients /\ <<>> \in Seq(Packet)
    BY ClientSet, OneMessage DEF SessionTypes, ClientPCs
  <1> QED
    BY <1>1 DEF Close, SessionTypes, Elsewhere

LEMMA BroadcastTypes ==
  ASSUME SessionTypes, Broadcast
  PROVE  SessionTypes'
  <1>1. Text("kim") \in Packet
    BY PacketKinds DEF Texts
  <1>2. \A c \in Threads : Append(toCli[c], Text("kim")) \in Seq(Packet)
    BY <1>1 DEF SessionTypes
  <1> QED
    BY <1>2 DEF Broadcast, SessionTypes

LEMMA TypesStep ==
  ASSUME TypeOK, SessionTypes, CodesInv, [SessionNext]_vars
  PROVE  SessionTypes'
  <1>1. CASE UNCHANGED vars
    BY <1>1 DEF vars, netVars, SessionTypes
  <1> QED
    BY <1>1, HandlerTypes, ClientTypes, InputTypes, CloseTypes, BroadcastTypes DEF SessionNext

----------------------------------------------------------------------------
(* The sessions use the database as Registry says.                          *)

\* The handler dies on an index it has looked up.
LEMMA DiesFails ==
  ASSUME NEW c \in Threads, Idle(c), NEW k \in Persons, NEW i \in Int, ~Readable(k, i),
         Dies(k, i)
  PROVE  LookupFails(c)
  <1>1. CASE Cell(k, i) \in Cells
    <2>1. i \in Reach(k)
      BY <1>1, CapacityAssumption DEF Reach, Cell, Cells, Base, Kinds, Persons
    <2> QED
      BY <2>1 DEF LookupFails, Dies
  <1>2. CASE Cell(k, i) \notin Cells
    BY <1>2 DEF LookupFails, Dies, Fault
  <1> QED
    BY <1>1, <1>2

\* Every step of a handler is one of the database, or leaves it alone.
LEMMA HandlerDatabase ==
  ASSUME TypeOK, SlotsInv, SessionTypes, HandlerInv, NEW c \in Threads, HandlerStep(c)
  PROVE  [AnyNext]_dbVars
  <1>1. h[c] \in Handlers
    BY DEF SessionTypes
  <1>2. \A in \in SrvRecv(c) : in.buf \in Buffer
    BY RecvRead DEF SessionTypes, SrvRecv, CliOpen
  <1>3. ASSUME status = "running",
               h[c].pc \notin {"creating", "packing", "taking"}
        PROVE  Idle(c)
    BY <1>3 DEF HandlerInv, HandlerOf, CallOf, Idle
  <1>4. h[c].kind \in Persons /\ h[c].idx \in Int /\ h[c].fits \in BOOLEAN
    BY <1>1 DEF Handlers
  <1>5. ASSUME LookupFails(c) \/ Return(c) \/ CallStep(c) PROVE AnyNext
    BY <1>5 DEF AnyNext, NextFor
  <1>6. CASE UNCHANGED dbVars
    BY <1>6
  <1>7. CASE CallCreate(c)
    BY <1>4, <1>7 DEF CallCreate, AnyNext, NextFor
  <1>8. CASE SendKey(c) \/ PrintPackage(c) \/ PrintTaken(c)
    BY <1>5, <1>8 DEF SendKey, PrintPackage, PrintTaken
  <1>9. CASE RecvIdx(c)
    <2>1. PICK i \in Int : UNCHANGED dbVars \/ (~Readable(h[c].kind, i) /\ Dies(h[c].kind, i))
      BY <1>2, <1>9, BufferRead DEF RecvIdx
    <2>2. Idle(c)
      BY <1>3, <1>9 DEF RecvIdx, Reads
    <2> QED
      BY <1>4, <1>5, <2>1, <2>2, DiesFails
  <1>10. CASE RecvAnswer(c)
    <2>1. \/ UNCHANGED dbVars
          \/ ~Readable(h[c].kind, h[c].idx) /\ Dies(h[c].kind, h[c].idx)
      BY <1>10 DEF RecvAnswer
    <2>2. Idle(c)
      BY <1>3, <1>10 DEF RecvAnswer, Reads
    <2> QED
      BY <1>4, <1>5, <2>1, <2>2, DiesFails
  <1>11. CASE RecvReceiver(c)
    <2>1. PICK i \in Int : UNCHANGED dbVars \/ (~Readable("User", i) /\ Dies("User", i))
      BY <1>2, <1>11, BufferRead DEF RecvReceiver
    <2>2. Idle(c) /\ "User" \in Persons
      BY <1>3, <1>11 DEF RecvReceiver, Reads, Persons
    <2> QED
      BY <1>5, <2>1, <2>2, DiesFails
  <1>12. CASE CallCreatePackage(c)
    <2>1. h[c].idx \in NamePrinted("User") /\ h[c].arg \in NamePrinted("User")
      BY <1>12 DEF CallCreatePackage, Reads, HandlerInv, HandlerOf, FoundOf
    <2> QED
      BY <1>12, <2>1 DEF CallCreatePackage, AnyNext, NextFor
  <1>13. CASE CallTake(c)
    <2>1. h[c].idx \in NamePrinted("DeliveryMan") /\ h[c].arg \in Chars
      BY <1>13 DEF CallTake, Reads, HandlerInv, HandlerOf, FoundOf
    <2> QED
      BY <1>13, <2>1 DEF CallTake, AnyNext, NextFor
  <1>14. CASE InDatabase(c)
    BY <1>5, <1>14 DEF InDatabase
  <1> QED
    BY <1>6, <1>7, <1>8, <1>9, <1>10, <1>11, <1>12, <1>13, <1>14
       DEF HandlerStep, RecvCommand, RecvField, RecvPackName, RecvPackage

LEMMA DatabaseStep ==
  ASSUME TypeOK, SlotsInv, SessionTypes, HandlerInv, [SessionNext]_vars
  PROVE  [AnyNext]_dbVars
  <1>1. CASE UNCHANGED dbVars
    BY <1>1
  <1>2. ASSUME NEW c \in Threads, ClientStep(c) PROVE UNCHANGED dbVars
    BY <1>2 DEF ClientStep, TypeField, WaitKey, TypeIdx, WaitCipher, WaitSignal, TypeReceiver,
                TypePackName, TypeCode, WaitDone, Terminate
  <1> QED
    BY <1>1, <1>2, HandlerDatabase DEF SessionNext, Input, Close, Broadcast, vars

\* A connection whose handler and call are as they were.
LEMMA HandlerFrame ==
  ASSUME TypeOK, NumberingInv, SessionTypes, Kept, NEW c \in Threads, HandlerOf(c),
         h'[c] = h[c], call'[c] = call[c], status' = "running" => status = "running"
  PROVE  HandlerOf(c)'
  <1>1. (status = "running" => CallOf(c)) => (status' = "running" => CallOf(c)')
    <2>1. Creates(c)' = Creates(c) /\ Creates(c) \in Kinds
      BY DEF Creates, SessionTypes, Handlers, Persons, Kinds
    <2> QED
      BY <2>1 DEF CallOf, Kept, Kinds
  <1>2. FoundOf(c) => FoundOf(c)'
    BY NamePrintedKept DEF FoundOf, Kinds
  <1> QED
    BY <1>1, <1>2 DEF HandlerOf

\* A database that has stopped stays so; the calls of other threads are theirs.
LEMMA CallElsewhere ==
  ASSUME TypeOK, NEW c \in Threads, HandlerStep(c)
  PROVE  /\ \A d \in Threads \ {c} : call'[d] = call[d]
         /\ status = "running"
  <1>1. CASE UNCHANGED dbVars /\ status = "running"
    BY <1>1 DEF dbVars
  <1>2. CASE CallCreate(c) \/ CallCreatePackage(c) \/ CallTake(c)
    BY <1>2 DEF CallCreate, CallCreatePackage, CallTake, NewPerson, NewPackage, Allocate,
                TakeLookup, Reads, TypeOK
  <1>3. CASE SendKey(c) \/ PrintPackage(c) \/ PrintTaken(c)
    BY <1>3 DEF SendKey, PrintPackage, PrintTaken, Return, Reads, TypeOK
  <1>4. CASE RecvIdx(c) \/ RecvAnswer(c) \/ RecvReceiver(c)
    BY <1>4 DEF RecvIdx, RecvAnswer, RecvReceiver, Reads, Dies, dbVars
  <1>5. CASE InDatabase(c)
    BY <1>5 DEF InDatabase, CallStep, FetchUnique, LoadUnique, StoreUnique, StoreSlot, TakeAssign,
                TakeState, TakeEncrypt, At, TypeOK
  <1> QED
    BY <1>1, <1>2, <1>3, <1>4, <1>5
       DEF HandlerStep, RecvCommand, RecvField, RecvPackName, RecvPackage, Reads

\* A step of the call that a handler waits for.
LEMMA CallKept ==
  ASSUME TypeOK, NumberingInv, SessionTypes, Kept, NEW c \in Threads, HandlerOf(c),
         InDatabase(c)
  PROVE  HandlerOf(c)'
  <1>1. h'[c] = h[c]
    BY DEF InDatabase, netVars
  <1>2. FoundOf(c)'
    BY <1>1, NamePrintedKept DEF HandlerOf, FoundOf, Kinds
  <1>3. ASSUME status' = "running" PROVE CallOf(c)'
    <2>1. status = "running" /\ CallOf(c)
      BY CallElsewhere DEF HandlerOf, HandlerStep
    <2>2. Creates(c)' = Creates(c) /\ Creates(c) \in Kinds
      BY <1>1 DEF Creates, SessionTypes, Handlers, Persons, Kinds
    <2>3. CASE FetchUnique(c) \/ LoadUnique(c) \/ StoreUnique(c)
      <3>1. /\ call[c].pc \in CreatePCs /\ call'[c].pc \in CreatePCs
            /\ call'[c].kind = call[c].kind /\ call'[c].obj = call[c].obj
            /\ UNCHANGED obj
        BY <2>3 DEF FetchUnique, LoadUnique, StoreUnique, At, CreatePCs, TypeOK, Call
      <3> QED
        BY <1>1, <2>1, <2>2, <3>1 DEF CallOf, CreatePCs, TakePCs
    <2>4. CASE StoreSlot(c)
      <3>1. /\ call[c].pc = "stored" /\ call'[c].pc = "done"
            /\ call'[c].kind = call[c].kind /\ call'[c].obj = call[c].obj
            /\ call'[c].idx = call[c].idx
            /\ \A d \in Threads \ {c} : call'[d] = call[d]
            /\ UNCHANGED <<obj, given>>
        BY <1>3, <2>4 DEF StoreSlot, At, TypeOK, Call
      <3>2. PICK p \in Ptr, n \in Nat : /\ p = call[c].obj /\ n = call[c].idx /\ given[p] = n
                                        /\ call'[c].obj = p /\ call'[c].idx = n
        BY <3>1 DEF NumberingInv, CallInv, CreatePCs
      <3>3. \A d \in Threads \ {c} : call[d].pc \in CreatePCs => call[d].obj # p
        BY <3>1, <3>2 DEF NumberingInv, CallInv, CreatePCs
      <3>4. Published(p)' /\ given'[p] = n
        BY <3>1, <3>2, <3>3 DEF Published, Numbered, CreatePCs, INVALID_VALUE
      <3>5. h[c].pc \in {"creating", "packing"} /\ call[c].kind = Creates(c)
            /\ obj[p].kind = Creates(c)
        BY <2>1, <3>1, <3>2 DEF CallOf, CreatePCs, TakePCs
      <3> QED
        BY <1>1, <2>2, <3>1, <3>2, <3>4, <3>5 DEF CallOf, Published, Numbered
    <2>5. CASE TakeAssign(c) \/ TakeState(c) \/ TakeEncrypt(c)
      <3>1. call[c].pc \in TakePCs /\ call'[c].pc \in TakePCs \cup {"done"}
        BY <1>3, <2>1, <2>5 DEF TakeAssign, TakeState, TakeEncrypt, At, TakePCs, TypeOK, Call
      <3> QED
        BY <1>1, <2>1, <3>1 DEF CallOf, CreatePCs, TakePCs
    <2> QED
      BY <2>3, <2>4, <2>5 DEF InDatabase, CallStep
  <1> QED
    BY <1>2, <1>3 DEF HandlerOf

\* The place and the indices of the handler that makes a step.
LEMMA HandlerOwn ==
  ASSUME TypeOK, NumberingInv, SlotsInv, SessionTypes, Kept, NEW c \in Threads, HandlerOf(c),
         HandlerStep(c)
  PROVE  HandlerOf(c)'
  <1>1. h[c] \in Handlers /\ h[c].kind \in Persons /\ status = "running" /\ CallOf(c)
    BY CallElsewhere DEF SessionTypes, Handlers, HandlerOf
  <1>2. \A in \in SrvRecv(c) : in.buf \in Buffer
    BY RecvRead DEF SessionTypes, SrvRecv, CliOpen
  <1>3. \A k \in Kinds : \A i \in NamePrinted(k) : i \in NamePrinted(k)'
    BY NamePrintedKept
  <1>4. \A k \in Persons, i \in Int : Readable(k, i) => i \in NamePrinted(k) /\ Get(k, i) \in Ptr
    BY FoundPerson DEF Readable
  <1>5. "User" \in Kinds /\ "DeliveryMan" \in Kinds /\ "User" \in Persons
    BY DEF Kinds, Persons
  <1>6. ASSUME UNCHANGED call, call[c].pc = "idle",
               h'[c].pc \notin {"creating", "packing", "taking"}
        PROVE  status' = "running" => CallOf(c)'
    BY <1>6 DEF CallOf
  <1>7. CASE RecvCommand(c)
    <2>1. h'[c].pc \in {"ended", "name", "idx"} \/ h'[c] = h[c]
      BY <1>1, <1>7 DEF RecvCommand, Goes, SessionTypes, Handlers, Handler0
    <2> QED
      BY <1>1, <1>6, <1>7, <2>1 DEF RecvCommand, Reads, HandlerOf, FoundOf, CallOf, dbVars
  <1>8. ASSUME NEW f \in Fields, RecvField(c, f) PROVE HandlerOf(c)'
    <2>1. h'[c].pc \in {"phone", "addr", "create"}
      BY <1>1, <1>8 DEF RecvField, Goes, SessionTypes, Handlers, NextField, Fields
    <2> QED
      BY <1>1, <1>6, <1>8, <2>1 DEF RecvField, Reads, Fields, HandlerOf, FoundOf, CallOf, dbVars
  <1>9. CASE CallCreate(c)
    <2>1. h'[c].pc = "creating" /\ h'[c].kind = h[c].kind
      BY <1>1, <1>9 DEF CallCreate, Goes, SessionTypes, Handlers
    <2>2. ASSUME status' = "running" PROVE CallOf(c)'
      <3>1. PICK p \in Ptr :
              /\ obj' = [obj EXCEPT ![p] = New(h[c].kind, INVALID_VALUE, INVALID_VALUE)]
              /\ call' = [call EXCEPT ![c] = Begin("constructed", h[c].kind, p, INVALID_VALUE,
                                                   INVALID_VALUE)]
        BY <1>9, <2>2 DEF CallCreate, NewPerson, Allocate
      <3>2. /\ call'[c].pc = "constructed" /\ call'[c].kind = h[c].kind /\ call'[c].obj = p
            /\ obj'[p].kind = h[c].kind
        BY <3>1 DEF TypeOK, Begin, New
      <3> QED
        BY <2>1, <3>2 DEF CallOf, Creates, CreatePCs
    <2> QED
      BY <2>1, <2>2 DEF HandlerOf, FoundOf
  <1>10. CASE SendKey(c) \/ PrintPackage(c) \/ PrintTaken(c)
    <2>1. h'[c].pc = "cmd" /\ call'[c].pc = "idle"
      BY <1>1, <1>10 DEF SendKey, PrintPackage, PrintTaken, Return, NoCall, Begin, Goes,
                         SessionTypes, Handlers, TypeOK
    <2> QED
      BY <2>1 DEF HandlerOf, FoundOf, CallOf
  <1>11. CASE RecvIdx(c)
    <2>1. UNCHANGED call
      BY <1>11 DEF RecvIdx, dbVars, Dies
    <2>2. h'[c] = h[c] \/ (h'[c].pc = "answer" /\ h'[c].key \in Ptr)
      <3>1. PICK in \in SrvRecv(c), rand \in RandNums, i \in Int :
            \/ /\ Get(h[c].kind, i) \in Ptr
               /\ Goes(c, [h[c] EXCEPT !.pc = "answer", !.idx = i, !.rand = rand,
                                       !.key = Get(h[c].kind, i)])
            \/ UNCHANGED h
        BY <1>1, <1>2, <1>4, <1>11, BufferRead DEF RecvIdx
      <3> QED
        BY <1>1, <3>1 DEF Goes, SessionTypes, Handlers
    <2> QED
      BY <1>1, <1>6, <1>11, <2>1, <2>2 DEF RecvIdx, Reads, HandlerOf, FoundOf, CallOf
  <1>12. CASE RecvAnswer(c)
    <2>1. UNCHANGED call
      BY <1>12 DEF RecvAnswer, dbVars, Dies
    <2>2. \/ h'[c] = h[c]
          \/ h'[c].pc = "ended"
          \/ /\ h'[c].kind = h[c].kind /\ h'[c].idx = h[c].idx
             /\ h'[c].pc = IF h[c].kind = "User" THEN "receiver" ELSE "package"
             /\ Readable(h[c].kind, h[c].idx)
      <3>1. CASE \E ok, no \in BOOLEAN, pc \in {"ended", "receiver", "package"} :
                   /\ ~ok => pc = "ended"
                   /\ ok => /\ pc = IF h[c].kind = "User" THEN "receiver" ELSE "package"
                            /\ Readable(h[c].kind, h[c].idx)
                   /\ Goes(c, [h[c] EXCEPT !.pc = pc, !.refused = no])
        <4>1. PICK ok \in BOOLEAN, no \in BOOLEAN, pc \in {"ended", "receiver", "package"} :
                   /\ ~ok => pc = "ended"
                   /\ ok => /\ pc = IF h[c].kind = "User" THEN "receiver" ELSE "package"
                            /\ Readable(h[c].kind, h[c].idx)
                   /\ Goes(c, [h[c] EXCEPT !.pc = pc, !.refused = no])
          BY <3>1
        <4>2. h'[c].pc = pc /\ h'[c].kind = h[c].kind /\ h'[c].idx = h[c].idx
          BY <1>1, <4>1 DEF Goes, SessionTypes, Handlers
        <4> QED
          BY <4>1, <4>2
      <3>2. CASE UNCHANGED h
        BY <3>2
      <3>3. PICK in \in SrvRecv(c) :
              LET k == h[c].kind
                  ok == AnswerAccepted(AsMessage(in.buf), h[c].rand) /\ h[c].idx # INVALID_VALUE
                  dies == ok /\ ~Readable(k, h[c].idx)
              IN  IF dies THEN UNCHANGED h
                  ELSE Goes(c, [h[c] EXCEPT !.pc = CASE ~ok -> "ended"
                                                    [] ok /\ k = "User" -> "receiver"
                                                    [] OTHER -> "package",
                                           !.refused = ~ok])
        BY <1>12 DEF RecvAnswer
      <3>4. PICK ok \in BOOLEAN :
              ok = (AnswerAccepted(AsMessage(in.buf), h[c].rand) /\ h[c].idx # INVALID_VALUE)
        OBVIOUS
      <3>5. CASE ok
        <4>1. CASE UNCHANGED h
          BY <3>2, <4>1
        <4>2. CASE /\ Readable(h[c].kind, h[c].idx)
                   /\ \E no \in BOOLEAN :
                        Goes(c, [h[c] EXCEPT !.pc = IF h[c].kind = "User" THEN "receiver"
                                                                         ELSE "package",
                                             !.refused = no])
          BY <3>1, <3>5, <4>2
        <4> QED
          BY <3>3, <3>4, <3>5, <4>1, <4>2
      <3>6. CASE ~ok
        <4>1. \E no \in BOOLEAN : Goes(c, [h[c] EXCEPT !.pc = "ended", !.refused = no])
          BY <3>3, <3>4, <3>6, Zenon
        <4> QED
          BY <1>1, <4>1 DEF Goes, SessionTypes, Handlers
      <3> QED
        BY <3>5, <3>6
    <2>3. PICK k \in Persons, i \in Int : k = h[c].kind /\ i = h[c].idx
      BY <1>1 DEF Handlers
    <2>4. CASE h'[c] = h[c] \/ h'[c].pc = "ended"
      BY <1>1, <1>6, <1>12, <2>1, <2>4 DEF RecvAnswer, Reads, HandlerOf, FoundOf, CallOf
    <2>5. CASE /\ h'[c].kind = h[c].kind /\ h'[c].idx = h[c].idx
               /\ h'[c].pc = IF h[c].kind = "User" THEN "receiver" ELSE "package"
               /\ Readable(h[c].kind, h[c].idx)
      <3>1. i \in NamePrinted(k)'
        BY <1>3, <1>4, <2>3, <2>5 DEF Persons, Kinds
      <3> QED
        BY <1>1, <1>6, <1>12, <2>1, <2>3, <2>5, <3>1
           DEF RecvAnswer, Reads, HandlerOf, FoundOf, CallOf, Persons
    <2> QED
      BY <2>2, <2>4, <2>5
  <1>13. CASE RecvReceiver(c)
    <2>1. UNCHANGED call
      BY <1>13 DEF RecvReceiver, dbVars, Dies
    <2>2. \/ h'[c] = h[c]
          \/ /\ h'[c].pc = "packName" /\ h'[c].kind = h[c].kind /\ h'[c].idx = h[c].idx
             /\ h'[c].arg \in NamePrinted("User")
      <3>1. PICK r \in Int :
              \/ Readable("User", r) /\ Goes(c, [h[c] EXCEPT !.pc = "packName", !.arg = r])
              \/ UNCHANGED h
        BY <1>2, <1>13, BufferRead DEF RecvReceiver
      <3>2. Goes(c, [h[c] EXCEPT !.pc = "packName", !.arg = r]) =>
              /\ h'[c].pc = "packName" /\ h'[c].kind = h[c].kind /\ h'[c].idx = h[c].idx
              /\ h'[c].arg = r
        BY <1>1 DEF Goes, SessionTypes, Handlers
      <3>3. Readable("User", r) => r \in NamePrinted("User")
        BY <1>4, <1>5
      <3> QED
        BY <3>1, <3>2, <3>3
    <2> QED
      BY <1>1, <1>3, <1>5, <1>6, <1>13, <2>1, <2>2
         DEF RecvReceiver, Reads, HandlerOf, FoundOf, CallOf
  <1>14. CASE RecvPackName(c)
    <2>1. /\ UNCHANGED call /\ h'[c].pc = "createPack" /\ h'[c].kind = h[c].kind
          /\ h'[c].idx = h[c].idx /\ h'[c].arg = h[c].arg
      <3>1. PICK b \in BOOLEAN : Goes(c, [h[c] EXCEPT !.pc = "createPack", !.blank = b])
        BY <1>14, PackNameRead
      <3>2. UNCHANGED call
        BY <1>14 DEF RecvPackName, dbVars
      <3> QED
        BY <1>1, <3>1, <3>2 DEF Goes, SessionTypes, Handlers
    <2> QED
      BY <1>1, <1>3, <1>5, <1>6, <1>14, <2>1 DEF RecvPackName, Reads, HandlerOf, FoundOf, CallOf
  <1>15. CASE CallCreatePackage(c)
    <2>1. h'[c].pc = "packing"
      BY <1>1, <1>15 DEF CallCreatePackage, Goes, SessionTypes, Handlers
    <2>2. PICK p \in Ptr :
            /\ obj' = [obj EXCEPT ![p] = New("Package", h[c].idx, h[c].arg)]
            /\ call' = [call EXCEPT ![c] = Begin("constructed", "Package", p, INVALID_VALUE,
                                                 INVALID_VALUE)]
      BY <1>15 DEF CallCreatePackage, NewPackage, Allocate
    <2>3. /\ call'[c].pc = "constructed" /\ call'[c].kind = "Package" /\ call'[c].obj = p
          /\ obj'[p].kind = "Package"
      BY <2>2 DEF TypeOK, Begin, New
    <2> QED
      BY <2>1, <2>3 DEF HandlerOf, FoundOf, CallOf, Creates, CreatePCs
  <1>16. CASE RecvPackage(c)
    <2>1. /\ UNCHANGED call /\ h'[c].idx = h[c].idx
          /\ h'[c].pc = "ended" \/ (h'[c].pc = "take" /\ h'[c].arg \in Chars)
      <3>1. PICK i \in Chars : \/ Goes(c, [h[c] EXCEPT !.pc = "take", !.arg = i])
                              \/ Goes(c, [h[c] EXCEPT !.pc = "ended"])
        BY <1>2, <1>16, BufferRead DEF RecvPackage
      <3>2. UNCHANGED call
        BY <1>16 DEF RecvPackage, dbVars
      <3>3. CASE Goes(c, [h[c] EXCEPT !.pc = "take", !.arg = i])
        BY <1>1, <3>2, <3>3 DEF Goes, SessionTypes, Handlers
      <3>4. CASE Goes(c, [h[c] EXCEPT !.pc = "ended"])
        BY <1>1, <3>2, <3>4 DEF Goes, SessionTypes, Handlers
      <3> QED
        BY <3>1, <3>3, <3>4
    <2> QED
      BY <1>1, <1>3, <1>5, <1>6, <1>16, <2>1 DEF RecvPackage, Reads, HandlerOf, FoundOf, CallOf
  <1>17. CASE CallTake(c)
    <2>1. h'[c].pc = "taking"
      BY <1>1, <1>17 DEF CallTake, Goes, SessionTypes, Handlers
    <2>2. status' = "running" => call'[c].pc = "looked"
      <3>1. ASSUME status' = "running", UNCHANGED call PROVE FALSE
        BY <1>1, <1>17, <3>1 DEF CallTake, TakeLookup, Idle, Fault, Begin, TypeOK
      <3>2. call' = [call EXCEPT ![c] = Begin("looked", "Package", Get("Package", h[c].arg),
                                              h[c].arg, h[c].idx)] \/ UNCHANGED call
        BY <1>17 DEF CallTake, TakeLookup
      <3> QED
        BY <3>1, <3>2 DEF Begin, TypeOK
    <2> QED
      BY <2>1, <2>2 DEF HandlerOf, FoundOf, CallOf, TakePCs
  <1>18. CASE InDatabase(c)
    BY <1>18, CallKept
  <1> QED
    BY <1>7, <1>8, <1>9, <1>10, <1>11, <1>12, <1>13, <1>14, <1>15, <1>16, <1>17, <1>18
       DEF HandlerStep

\* Steps of the clients and of the console touch no handler and no call.
LEMMA ClientElsewhere ==
  ASSUME NEW c \in Threads, \/ ClientStep(c)
                            \/ \E cmd \in 1 .. 4 : Input(c, cmd)
                            \/ Close(c)
  PROVE  UNCHANGED <<dbVars, h, printed, lines, disturbed, issued>>
  BY DEF ClientStep, TypeField, WaitKey, TypeIdx, WaitCipher, WaitSignal, TypeReceiver,
         TypePackName, TypeCode, WaitDone, Terminate, Input, Close

LEMMA HandlerInvStep ==
  ASSUME TypeOK, NumberingInv, SlotsInv, SessionTypes, HandlerInv, Kept, [SessionNext]_vars
  PROVE  HandlerInv'
  <1>1. ASSUME NEW c \in Threads, HandlerStep(c), NEW d \in Threads
        PROVE  HandlerOf(d)'
    <2>1. CASE d = c
      BY <1>1, <2>1, HandlerOwn DEF HandlerInv
    <2>2. CASE d # c
      BY <1>1, <2>2, HandlerTypes, CallElsewhere, HandlerFrame DEF HandlerInv, Elsewhere
    <2> QED
      BY <2>1, <2>2
  <1>2. ASSUME UNCHANGED <<dbVars, h>>, NEW d \in Threads
        PROVE  HandlerOf(d)'
    BY <1>2, HandlerFrame DEF HandlerInv, dbVars
  <1> QED
    BY <1>1, <1>2, ClientElsewhere DEF SessionNext, HandlerInv, Broadcast, vars, netVars

\* The only code that is printed carries the number of a package that is in its place.
LEMMA CodesStep ==
  ASSUME TypeOK, NumberingInv, SlotsInv, SessionTypes, HandlerInv, CodesInv, Kept,
         [SessionNext]_vars
  PROVE  CodesInv'
  <1>1. \A code : CodeOf(code) => CodeOf(code)'
    BY DEF CodeOf, Kept
  <1>2. CASE UNCHANGED printed
    BY <1>1, <1>2 DEF CodesInv
  <1>3. ASSUME NEW c \in Threads, PrintPackage(c) PROVE CodesInv'
    <2>1. call[c].pc = "done" /\ CallOf(c) /\ h[c].pc = "packing"
      BY <1>3 DEF PrintPackage, Reads, Return, At, HandlerInv, HandlerOf
    <2>2. CodeOf(Cipher(DeliveryKey, IdxToMessage(call[c].idx)))
      BY <2>1 DEF CallOf, Creates, CodeOf
    <2>3. PICK code : code = Cipher(DeliveryKey, IdxToMessage(call[c].idx))
      OBVIOUS
    <2>4. printed' = printed \cup {code}
      BY <1>3, <2>3 DEF PrintPackage
    <2> QED
      BY <1>1, <2>2, <2>3, <2>4 DEF CodesInv
  <1>4. ASSUME NEW c \in Threads, HandlerStep(c) PROVE CodesInv'
    BY <1>2, <1>3, <1>4
       DEF HandlerStep, RecvCommand, RecvField, CallCreate, SendKey, RecvIdx, RecvAnswer,
           RecvReceiver, RecvPackName, CallCreatePackage, RecvPackage, CallTake, PrintTaken,
           InDatabase, netVars
  <1> QED
    BY <1>2, <1>4, ClientElsewhere DEF SessionNext, Broadcast, vars, netVars

\* The invariants so far; the database behaves as Registry in them.
UseInv ==
  /\ TypeOK /\ NumberingInv /\ ContentsInv
  /\ SessionTypes /\ HandlerInv /\ CodesInv

LEMMA InitUse == SessionInit => UseInv
  <1> SUFFICES ASSUME SessionInit PROVE UseInv
    OBVIOUS
  <1>1. TypeOK /\ NumberingInv /\ ContentsInv
    BY InitInv, ContentsInit DEF SessionInit
  <1>2. \A c \in Threads : h[c].pc = "cmd" /\ call[c].pc = "idle"
    BY DEF SessionInit, Init, NoCall, Begin, Handler0
  <1>3. HandlerInv
    BY <1>2 DEF HandlerInv, HandlerOf, CallOf, FoundOf
  <1>4. CodesInv
    BY DEF SessionInit, CodesInv
  <1> QED
    BY <1>1, <1>3, <1>4, InitTypes DEF UseInv

LEMMA UseStep == UseInv /\ [SessionNext]_vars => UseInv' /\ [AnyNext]_dbVars /\ Kept
  <1> SUFFICES ASSUME UseInv, [SessionNext]_vars
               PROVE  UseInv' /\ [AnyNext]_dbVars /\ Kept
    OBVIOUS
  <1>1. [AnyNext]_dbVars
    BY DatabaseStep DEF UseInv, ContentsInv
  <1>2. Kept
    BY <1>1, KeptStep DEF UseInv
  <1>3. TypeOK' /\ NumberingInv' /\ ContentsInv'
    BY <1>1, NextInv, ContentsStep DEF UseInv
  <1>4. SessionTypes' /\ HandlerInv' /\ CodesInv'
    BY <1>2, TypesStep, HandlerInvStep, CodesStep DEF UseInv, ContentsInv
  <1> QED
    BY <1>1, <1>2, <1>3, <1>4 DEF UseInv

LEMMA UseAlways == SessionSpec => []UseInv
  BY InitUse, UseStep, PTL DEF SessionSpec

\* Type correctness of the connections and of the database they share, for any number
\* of each.
THEOREM SessionTyped == SessionSpec => [](TypeOK /\ SessionTypes)
  <1>1. UseInv => TypeOK /\ SessionTypes
    BY DEF UseInv
  <1> QED
    BY <1>1, UseAlways, PTL

\* The handlers use the database only as Registry lets them, so that what is proved of
\* Registry holds of every session; a package code holds any signed char.
THEOREM SessionsUseRegistry ==
  ASSUME PackIdxs = -128 .. 127
  PROVE  SessionSpec => Spec
  <1>1. AnyNext => Next
    BY DEF AnyNext, Next, Chars
  <1>2. SessionInit => Init
    BY DEF SessionInit
  <1> QED
    BY <1>1, <1>2, UseAlways, UseStep, PTL DEF SessionSpec, Spec

\* A package code leads to a package as long as its number fits the signed char it is
\* read through, as every number does that is within arrays of 100.
THEOREM PrintedCodesLead ==
  ASSUME MAX_USER_NUM <= 128
  PROVE  SessionSpec => [](WithinCapacity => PrintedLeadsToPackage)
  <1>1. ASSUME UseInv, WithinCapacity, NEW code \in printed
        PROVE  LET m == Decrypt(code, DeliveryKey)
               IN  PackageAccepted(m) /\ Get("Package", PackageIdx(m)) # NoPtr
    <2>1. PICK p \in Ptr : /\ Published(p) /\ obj[p].kind = "Package"
                           /\ code = Cipher(DeliveryKey, IdxToMessage(given[p]))
      BY <1>1 DEF UseInv, CodesInv, CodeOf
    <2>2. Decrypt(code, DeliveryKey) = IdxToMessage(given[p])
      BY <2>1 DEF Decrypt, Cipher
    <2>3. given[p] \in 0 .. 127
      BY <1>1, <2>1, PublishedKind, CapacityAssumption DEF UseInv, WithinCapacity, PastItsArray
    <2>4. PackageIdx(IdxToMessage(given[p])) = given[p]
      BY <2>3 DEF PackageIdx, IdxToMessage, SChar, U8
    <2>5. PackageAccepted(IdxToMessage(given[p]))
      BY DEF PackageAccepted, IdxToMessage, SChar, SIGNAL_CHECK_DELIVERY
    <2>6. Get("Package", given[p]) # NoPtr
      BY <1>1, <2>1 DEF UseInv, ContentsInv, SlotsInv, Get
    <2> QED
      BY <2>2, <2>4, <2>5, <2>6
  <1>2. UseInv => (WithinCapacity => PrintedLeadsToPackage)
    BY <1>1 DEF PrintedLeadsToPackage
  <1> QED
    BY <1>2, UseAlways, PTL

----------------------------------------------------------------------------
(* Ends of a connection, and the secret keys that go over it.               *)

\* What a closed end stays, in steps of the connection and of others.
LEMMA ClosedStep ==
  ASSUME UseInv, [SessionNext]_vars, NEW c \in Threads
  PROVE  /\ ~CliOpen(c) => ~CliOpen(c)'
         /\ ~SrvOpen(c) => ~SrvOpen(c)'
         /\ c \in lost \cup disturbed => c \in lost' \cup disturbed'
         /\ Aligned(c)' => Aligned(c)
  <1>1. SessionTypes /\ HandlerInv
    BY DEF UseInv
  <1>2. lost \subseteq lost' /\ disturbed \subseteq disturbed'
    <2>1. ASSUME NEW d \in Threads, HandlerStep(d)
          PROVE  lost \subseteq lost' /\ UNCHANGED disturbed
      <3>1. \A in, r : Received(d, in, r) => lost \subseteq lost'
        BY DEF Received
      <3>2. lost \subseteq lost'
        BY <2>1, <3>1
           DEF HandlerStep, RecvCommand, RecvField, CallCreate, SendKey, RecvIdx, RecvAnswer,
               RecvReceiver, RecvPackName, CallCreatePackage, PrintPackage, RecvPackage,
               CallTake, PrintTaken, InDatabase, netVars
      <3>3. UNCHANGED disturbed
        BY <2>1
           DEF HandlerStep, RecvCommand, RecvField, CallCreate, SendKey, RecvIdx, RecvAnswer,
               RecvReceiver, RecvPackName, CallCreatePackage, PrintPackage, RecvPackage,
               CallTake, PrintTaken, InDatabase, netVars
      <3> QED
        BY <3>2, <3>3
    <2>2. ASSUME NEW d \in Threads, \/ ClientStep(d)
                                    \/ \E cmd \in 1 .. 4 : Input(d, cmd)
                                    \/ Close(d)
          PROVE  lost \subseteq lost' /\ UNCHANGED disturbed
      <3>1. \A in, new : Takes(d, in, new) => lost \subseteq lost'
        BY DEF Takes
      <3>2. lost \subseteq lost'
        BY <2>2, <3>1
           DEF ClientStep, TypeField, WaitKey, TypeIdx, WaitCipher, WaitSignal, TypeReceiver,
               TypePackName, TypeCode, WaitDone, Terminate, Input, Close
      <3> QED
        BY <2>2, <3>2, ClientElsewhere
    <2> QED
      BY <2>1, <2>2 DEF SessionNext, Broadcast, vars, netVars
  <1>3. ASSUME NEW d \in Threads, HandlerStep(d)
        PROVE  /\ ~CliOpen(c) => ~CliOpen(c)'
               /\ ~SrvOpen(c) => ~SrvOpen(c)'
               /\ status = "running" /\ (h[c].pc = "ended" => h'[c].pc = "ended")
    <2>1. status = "running"
      BY <1>3, CallElsewhere DEF UseInv
    <2>2. UNCHANGED cl
      BY <1>3 DEF HandlerStep, RecvCommand, RecvField, CallCreate, SendKey, RecvIdx, RecvAnswer,
                  RecvReceiver, RecvPackName, CallCreatePackage, PrintPackage, RecvPackage,
                  CallTake, PrintTaken, InDatabase, netVars
    <2>3. h[c].pc = "ended" => h'[c].pc = "ended"
      <3>1. CASE d # c
        BY <1>3, <3>1, HandlerTypes DEF UseInv, Elsewhere
      <3>2. CASE d = c
        BY <1>3, <3>2
           DEF HandlerStep, RecvCommand, RecvField, CallCreate, SendKey, RecvIdx, RecvAnswer,
               RecvReceiver, RecvPackName, CallCreatePackage, PrintPackage, RecvPackage,
               CallTake, PrintTaken, InDatabase, netVars, Reads, Fields
      <3> QED
        BY <3>1, <3>2
    <2> QED
      BY <2>1, <2>2, <2>3 DEF CliOpen, SrvOpen
  <1>4. ASSUME NEW d \in Threads, \/ ClientStep(d)
                                  \/ \E cmd \in 1 .. 4 : Input(d, cmd)
                                  \/ Close(d)
        PROVE  /\ ~CliOpen(c) => ~CliOpen(c)'
               /\ UNCHANGED <<status, h>>
    <2>1. UNCHANGED <<status, h>>
      BY <1>4, ClientElsewhere DEF dbVars
    <2>2. cl[c].pc = "ended" => cl'[c].pc = "ended"
      <3>1. CASE d # c
        BY <1>4, <3>1, ClientTypes, InputTypes, CloseTypes DEF UseInv, Elsewhere
      <3>2. CASE d = c
        BY <1>4, <3>2, <1>1
           DEF ClientStep, TypeField, WaitKey, TypeIdx, WaitCipher, WaitSignal, TypeReceiver,
               TypePackName, TypeCode, WaitDone, Terminate, Input, Close, Fields
      <3> QED
        BY <3>1, <3>2
    <2> QED
      BY <2>1, <2>2 DEF CliOpen
  <1>5. CASE UNCHANGED <<status, h, cl>>
    BY <1>2, <1>5 DEF CliOpen, SrvOpen, Aligned
  <1> QED
    BY <1>2, <1>3, <1>4, <1>5 DEF SessionNext, Broadcast, vars, netVars, dbVars, CliOpen, SrvOpen,
                                  Aligned

\* An empty field comes only from a client that has gone.
LEMMA BlankStep ==
  ASSUME UseInv, NEW c \in Threads, HandlerStep(c), h'[c].blank
  PROVE  h[c].blank \/ ~CliOpen(c)
  <1>1. h[c] \in Handlers /\ \A n \in Handlers : Goes(c, n) => h'[c] = n
    BY GoesEffect DEF UseInv, SessionTypes
  <1>2. ASSUME NEW f \in Fields, RecvField(c, f) PROVE h[c].blank \/ ~CliOpen(c)
    <2>1. PICK in \in SrvRecv(c), f1, b1 \in BOOLEAN :
            /\ b1 <=> h[c].blank \/ AsText(in.buf) = ""
            /\ Goes(c, [h[c] EXCEPT !.pc = NextField[f], !.fits = f1, !.blank = b1])
      <3>1. PICK in \in SrvRecv(c) :
              Goes(c, [h[c] EXCEPT !.pc = NextField[f],
                                   !.fits = h[c].fits /\ Fits(f, AsText(in.buf)),
                                   !.blank = h[c].blank \/ AsText(in.buf) = ""])
        BY <1>2 DEF RecvField
      <3> DEFINE F == h[c].fits /\ Fits(f, AsText(in.buf))
                 B == h[c].blank \/ AsText(in.buf) = ""
      <3>2. F \in BOOLEAN /\ B \in BOOLEAN /\ (B <=> h[c].blank \/ AsText(in.buf) = "")
        OBVIOUS
      <3>3. Goes(c, [h[c] EXCEPT !.pc = NextField[f], !.fits = F, !.blank = B])
        BY <3>1
      <3> HIDE DEF F, B
      <3> QED
        BY <3>2, <3>3
    <2>2. b1
      BY <1>1, <1>2, <2>1 DEF Goes, UseInv, SessionTypes, Handlers
    <2>3. in.buf = Nothing => ~CliOpen(c)
      BY RecvRead DEF UseInv, SessionTypes, SrvRecv, CliOpen
    <2>4. AsText(in.buf) = "" => in.buf = Nothing
      BY BufferRead, RecvRead DEF UseInv, SessionTypes, SrvRecv, CliOpen
    <2>5. h[c].blank \/ AsText(in.buf) = ""
      <3>1. b1 <=> (h[c].blank \/ AsText(in.buf) = "")
        BY <2>1
      <3> QED
        BY <2>2, <3>1
    <2> QED
      BY <2>3, <2>4, <2>5
  <1>3. CASE RecvCommand(c)
    <2>1. \/ Goes(c, [h[c] EXCEPT !.pc = "ended"])
          \/ Goes(c, h[c])
          \/ \E pc, k : Goes(c, [Handler0 EXCEPT !.pc = pc, !.kind = k])
      BY <1>3 DEF RecvCommand
    <2>2. [h[c] EXCEPT !.pc = "ended"].blank = h[c].blank
      BY <1>1 DEF Handlers
    <2>3. \A pc, k : [Handler0 EXCEPT !.pc = pc, !.kind = k].blank = FALSE
      BY DEF Handler0
    <2>4. \A new : Goes(c, new) => h'[c] = new
      BY DEF Goes, UseInv, SessionTypes
    <2> QED
      BY <1>1, <2>1, <2>2, <2>3, <2>4
  <1>4. CASE UNCHANGED h
    BY <1>4
  <1>5. CASE CallCreate(c) \/ SendKey(c) \/ CallCreatePackage(c) \/ PrintPackage(c) \/ CallTake(c)
             \/ PrintTaken(c)
    <2>1. \E pc : Goes(c, [h[c] EXCEPT !.pc = pc])
      BY <1>5 DEF CallCreate, SendKey, CallCreatePackage, PrintPackage, CallTake, PrintTaken
    <2> QED
      BY <1>1, <2>1 DEF Goes, UseInv, SessionTypes, Handlers
  <1>6. CASE RecvIdx(c) \/ RecvReceiver(c) \/ RecvPackage(c)
    <2>1. \/ UNCHANGED h
          \/ \E i, rand, k :
               Goes(c, [h[c] EXCEPT !.pc = "answer", !.idx = i, !.rand = rand, !.key = k])
          \/ \E pc, r : Goes(c, [h[c] EXCEPT !.pc = pc, !.arg = r])
          \/ Goes(c, [h[c] EXCEPT !.pc = "ended"])
      <3>1. CASE RecvIdx(c)
        BY <3>1 DEF RecvIdx
      <3>2. CASE RecvReceiver(c) \/ RecvPackage(c)
        BY <3>2 DEF RecvReceiver, RecvPackage
      <3> QED
        BY <1>6, <3>1, <3>2
    <2>2. \A new : Goes(c, new) => h'[c] = new
      BY DEF Goes, UseInv, SessionTypes
    <2> QED
      BY <1>1, <2>1, <2>2 DEF Handlers
  <1>7. CASE RecvAnswer(c)
    <2>1. UNCHANGED h \/ \E pc, ok : Goes(c, [h[c] EXCEPT !.pc = pc, !.refused = ok])
      BY <1>7 DEF RecvAnswer
    <2> QED
      BY <1>1, <2>1 DEF Goes, UseInv, SessionTypes, Handlers
  <1>8. CASE RecvPackName(c)
    <2>1. PICK in \in SrvRecv(c), b \in BOOLEAN :
            /\ b <=> AsText(in.buf) = ""
            /\ Goes(c, [h[c] EXCEPT !.pc = "createPack", !.blank = b])
      BY <1>8, PackNameRead
    <2>2. b
      BY <1>1, <2>1 DEF Goes, UseInv, SessionTypes, Handlers
    <2>3. in.buf = Nothing => ~CliOpen(c)
      BY RecvRead DEF UseInv, SessionTypes, SrvRecv, CliOpen
    <2>4. AsText(in.buf) = "" => in.buf = Nothing
      BY BufferRead, RecvRead DEF UseInv, SessionTypes, SrvRecv, CliOpen
    <2> QED
      BY <2>1, <2>2, <2>3, <2>4
  <1> QED
    BY <1>2, <1>3, <1>4, <1>5, <1>6, <1>7, <1>8 DEF HandlerStep, InDatabase, netVars

\* A socket error comes only from a server that has closed.
LEMMA ErrorStep ==
  ASSUME UseInv, NEW c \in Threads,
         ClientStep(c) \/ (\E cmd \in 1 .. 4 : Input(c, cmd)) \/ Close(c), cl'[c].err
  PROVE  cl[c].err \/ ~SrvOpen(c)
  <1>1. cl \in [Threads -> Clients] /\ cl[c] \in Clients
    BY DEF UseInv, SessionTypes
  <1>2. ASSUME NEW pc, cl' = [cl EXCEPT ![c].pc = pc] PROVE cl[c].err
    BY <1>1, <1>2 DEF Clients
  <1>3. ASSUME NEW new, DOMAIN new = DOMAIN cl[c],
               \E e \in Err(c) : cl' = [cl EXCEPT ![c] = [new EXCEPT !.err = e]]
        PROVE  cl[c].err \/ ~SrvOpen(c)
    <2>1. PICK e \in Err(c) : cl' = [cl EXCEPT ![c] = [new EXCEPT !.err = e]]
      BY <1>3
    <2>2. cl'[c].err = e
      <3>1. "err" \in DOMAIN cl[c]
        BY <1>1 DEF Clients
      <3> QED
        BY <1>1, <1>3, <2>1, <3>1
    <2> QED
      BY <2>2 DEF Err
  <1>4. \A msg, new : Sends(c, msg, new) /\ DOMAIN new = DOMAIN cl[c] => cl[c].err \/ ~SrvOpen(c)
    BY <1>3 DEF Sends
  <1>5. \A in, new : Takes(c, in, new) /\ DOMAIN new = DOMAIN cl[c] => cl[c].err \/ ~SrvOpen(c)
    BY <1>3 DEF Takes
  <1>6. ASSUME NEW f \in Fields, TypeField(c, f) PROVE cl[c].err \/ ~SrvOpen(c)
    BY <1>4, <1>6 DEF TypeField
  <1>7. CASE WaitKey(c)
    <2>1. \E in, k : Takes(c, in, IF cl[c].cmd = 1
                                  THEN [cl[c] EXCEPT !.pc = "input", !.UserSecretKey = k]
                                  ELSE [cl[c] EXCEPT !.pc = "input", !.DeliverySecretKey = k])
      BY <1>7 DEF WaitKey
    <2> QED
      BY <1>5, <2>1
  <1>8. CASE TypeIdx(c) \/ TypeReceiver(c) \/ TypePackName(c) \/ TypeCode(c)
    BY <1>4, <1>8 DEF TypeIdx, TypeReceiver, TypePackName, TypeCode
  <1>9. CASE WaitCipher(c)
    BY <1>5, <1>9 DEF WaitCipher
  <1>10. CASE WaitSignal(c) \/ WaitDone(c)
    BY <1>5, <1>10 DEF WaitSignal, WaitDone
  <1>11. ASSUME NEW cmd \in 1 .. 4, Input(c, cmd) PROVE cl[c].err \/ ~SrvOpen(c)
    <2>1. \E msg, pc, n : Sends(c, msg, [cl[c] EXCEPT !.pc = pc, !.cmd = cmd, !.n = n])
      BY <1>11 DEF Input
    <2> QED
      BY <1>4, <2>1
  <1> QED
    BY <1>2, <1>6, <1>7, <1>8, <1>9, <1>10, <1>11 DEF ClientStep, Terminate, Close

\* The connection is as it was.
Untouched(c) ==
  /\ h'[c] = h[c] /\ cl'[c] = cl[c] /\ toSrv'[c] = toSrv[c] /\ toCli'[c] = toCli[c]
  /\ issued'[c] = issued[c]
  /\ (c \in lost' <=> c \in lost) /\ (c \in disturbed' <=> c \in disturbed)

ClientMove(c) == ClientStep(c) \/ (\E cmd \in 1 .. 4 : Input(c, cmd)) \/ Close(c)

\* Who makes a step, seen from one connection.
LEMMA StepAt ==
  ASSUME UseInv, [SessionNext]_vars, NEW c \in Threads
  PROVE  HandlerStep(c) \/ ClientMove(c) \/ Broadcast \/ Untouched(c)
  <1>1. \A d \in Threads \ {c} : Elsewhere(d) => Untouched(c)
    BY DEF Elsewhere, Untouched
  <1>2. UNCHANGED vars => Untouched(c)
    BY DEF vars, netVars, Untouched
  <1>3. \A d \in Threads : HandlerStep(d) \/ ClientMove(d) => Elsewhere(d)
    BY HandlerTypes, ClientTypes, InputTypes, CloseTypes DEF UseInv, ClientMove
  <1> QED
    BY <1>1, <1>2, <1>3 DEF SessionNext, ClientMove

\* What each kind of step leaves alone.
LEMMA HandlerLeaves ==
  ASSUME NEW c \in Threads, HandlerStep(c)
  PROVE  UNCHANGED <<cl, disturbed>>
  BY DEF HandlerStep, RecvCommand, RecvField, CallCreate, SendKey, RecvIdx, RecvAnswer,
         RecvReceiver, RecvPackName, CallCreatePackage, PrintPackage, RecvPackage,
         CallTake, PrintTaken, InDatabase, netVars

LEMMA ClientLeaves ==
  ASSUME NEW c \in Threads, ClientMove(c)
  PROVE  UNCHANGED <<dbVars, h, disturbed, issued>>
  BY DEF ClientMove, ClientStep, TypeField, WaitKey, TypeIdx, WaitCipher, WaitSignal,
         TypeReceiver, TypePackName, TypeCode, WaitDone, Terminate, Input, Close

LEMMA ClosedInvStep ==
  ASSUME UseInv, ClosedInv, [SessionNext]_vars
  PROVE  ClosedInv'
  <1> SUFFICES ASSUME NEW c \in Threads PROVE ClosedOf(c)'
    BY DEF ClosedInv
  <1>1. ClosedOf(c)
    BY DEF ClosedInv
  <1>2. (~CliOpen(c) => ~CliOpen(c)') /\ (~SrvOpen(c) => ~SrvOpen(c)')
    BY ClosedStep
  <1>3. h'[c].blank => h[c].blank \/ ~CliOpen(c)
    <2>1. CASE HandlerStep(c)
      BY <2>1, BlankStep
    <2>2. CASE h'[c] = h[c]
      BY <2>2
    <2> QED
      BY <2>1, <2>2, StepAt, ClientLeaves DEF Broadcast, Untouched
  <1>4. cl'[c].err => cl[c].err \/ ~SrvOpen(c)
    <2>1. CASE ClientMove(c)
      BY <2>1, ErrorStep DEF ClientMove
    <2>2. CASE cl'[c] = cl[c]
      BY <2>2
    <2> QED
      BY <2>1, <2>2, StepAt, HandlerLeaves DEF Broadcast, Untouched
  <1> QED
    BY <1>1, <1>2, <1>3, <1>4 DEF ClosedOf

LEMMA ClosedAlways == SessionSpec => []ClosedInv
  <1>1. SessionInit => ClosedInv
    <2>1. Handler0.blank = FALSE /\ Client0.err = FALSE
      BY DEF Handler0, Client0
    <2>2. SessionInit => \A c \in Threads : h[c] = Handler0 /\ cl[c] = Client0
      BY DEF SessionInit
    <2> QED
      BY <2>1, <2>2 DEF ClosedInv, ClosedOf
  <1>2. UseInv /\ ClosedInv /\ [SessionNext]_vars => ClosedInv'
    BY ClosedInvStep
  <1> QED
    BY <1>1, <1>2, UseAlways, PTL DEF SessionSpec

\* The recv results that a registration does not look at do harm only to a client that
\* has gone: no one who is still there is registered with an empty field.
THEOREM BlankFieldsExplained == SessionSpec => []BlankOnlyIfClosed
  <1>1. ClosedInv => BlankOnlyIfClosed
    BY DEF ClosedInv, ClosedOf, BlankOnlyIfClosed
  <1> QED
    BY <1>1, ClosedAlways, PTL

\* Every key under way in a queue is one of ks.
KeysIn(q, ks) == \A i \in 1 .. Len(q) : q[i].type = "key" => q[i].key \in ks

LEMMA KeysAppended ==
  ASSUME NEW q \in Seq(Packet), NEW ks, KeysIn(q, ks), NEW x \in Packet,
         x.type = "key" => x.key \in ks
  PROVE  KeysIn(Append(q, x), ks) /\ KeysIn(q \o <<x>>, ks) /\ KeysIn(q \o <<>>, ks)
  <1> DEFINE P == Packet
  <1>1. q \in Seq(P) /\ x \in P
    OBVIOUS
  <1> HIDE DEF P
  <1>2. Len(Append(q, x)) = Len(q) + 1 /\ Append(q, x) = q \o <<x>> /\ q \o <<>> = q
    BY <1>1
  <1>3. \A i \in 1 .. Len(q) + 1 : Append(q, x)[i] = IF i <= Len(q) THEN q[i] ELSE x
    BY <1>1
  <1>4. KeysIn(Append(q, x), ks)
    BY <1>1, <1>2, <1>3 DEF KeysIn
  <1> QED
    BY <1>2, <1>4

LEMMA KeysTypes ==
  /\ \A x : Text(x).type # "key" /\ Signal(x).type # "key"
  /\ \A k, m : Cipher(k, m).type # "key"
  /\ \A k : SecretKey(k).type = "key" /\ SecretKey(k).key = k
  BY DEF Text, Signal, Cipher, SecretKey

\* Every key that the handler sends is recorded as issued.
LEMMA HandlerKeys ==
  ASSUME UseInv, NEW c \in Threads, HandlerStep(c), KeysIn(toCli[c], issued[c])
  PROVE  issued[c] \subseteq issued'[c] /\ KeysIn(toCli'[c], issued'[c])
  <1>1. /\ toCli \in [Threads -> Seq(Packet)] /\ toCli[c] \in Seq(Packet)
        /\ issued \in [Threads -> SUBSET (Ptr \cup {NoPtr})] /\ SessionTypes
    BY DEF UseInv, SessionTypes
  <1>2. ASSUME UNCHANGED issued, NEW in \in SrvRecv(c), Received(c, in, <<>>)
        PROVE  issued[c] \subseteq issued'[c] /\ KeysIn(toCli'[c], issued'[c])
    <2>1. toCli'[c] = toCli[c] \/ toCli'[c] = toCli[c] \o <<>>
      BY <1>1, <1>2 DEF Received
    <2>2. toCli[c] \o <<>> = toCli[c]
      BY <1>1
    <2> QED
      BY <1>2, <2>1, <2>2
  <1>3. ASSUME UNCHANGED issued, NEW in, NEW x \in Packet, x.type # "key", Received(c, in, <<x>>)
        PROVE  issued[c] \subseteq issued'[c] /\ KeysIn(toCli'[c], issued'[c])
    <2>1. toCli'[c] = toCli[c] \/ toCli'[c] = toCli[c] \o <<x>>
      BY <1>1, <1>3 DEF Received
    <2> QED
      BY <1>1, <1>3, <2>1, KeysAppended
  <1>4. CASE SendKey(c)
    <2>1. call[c].obj \in Ptr \cup {NoPtr}
      BY DEF UseInv, TypeOK, Call
    <2>2. issued'[c] = issued[c] \cup {call[c].obj}
      BY <1>1, <1>4 DEF SendKey
    <2>3. toCli'[c] = toCli[c] \/ toCli'[c] = Append(toCli[c], SecretKey(call[c].obj))
      BY <1>1, <1>4 DEF SendKey
    <2>4. KeysIn(toCli[c], issued'[c])
      BY <2>2 DEF KeysIn
    <2>5. KeysIn(Append(toCli[c], SecretKey(call[c].obj)), issued'[c])
      BY <1>1, <2>1, <2>2, <2>4, KeysAppended, KeysTypes, PacketKinds
    <2> QED
      BY <2>2, <2>3, <2>4, <2>5
  <1>5. CASE RecvCommand(c) \/ RecvPackName(c) \/ RecvReceiver(c) \/ \E f \in Fields : RecvField(c, f)
    BY <1>2, <1>5 DEF RecvCommand, RecvPackName, RecvReceiver, RecvField
  <1>6. CASE RecvIdx(c)
    <2>1. PICK in \in SrvRecv(c), rand \in RandNums, k \in Ptr \cup {NoPtr} :
            \/ Received(c, in, <<>>)
            \/ k \in Ptr /\ Received(c, in, <<Cipher(k, IdxToMessage(rand))>>)
      BY <1>6 DEF RecvIdx, Readable
    <2>2. \A k1 \in Ptr : Cipher(k1, IdxToMessage(rand)) \in Packet
      <3>1. rand \in Int
        BY RandAssumption
      <3>2. IdxToMessage(rand) \in Message
        BY <3>1, Messages
      <3> QED
        BY <3>2, PacketKinds
    <2> QED
      BY <1>2, <1>3, <1>6, <2>1, <2>2, KeysTypes DEF RecvIdx
  <1>7. CASE RecvAnswer(c) \/ RecvPackage(c)
    <2>1. PICK in \in SrvRecv(c),
               r \in {<<>>, <<Signal(SIGNAL_VERIFYED)>>, <<Signal(SIGNAL_UNVERIFYED)>>} :
            Received(c, in, r)
      <3>1. CASE RecvAnswer(c)
        BY <3>1 DEF RecvAnswer
      <3>2. CASE RecvPackage(c)
        BY <3>2 DEF RecvPackage
      <3> QED
        BY <1>7, <3>1, <3>2
    <2>2. UNCHANGED issued
      BY <1>7 DEF RecvAnswer, RecvPackage
    <2>3. CASE r = <<>>
      BY <1>2, <2>1, <2>2, <2>3
    <2>4. ASSUME NEW s \in {SIGNAL_VERIFYED, SIGNAL_UNVERIFYED}, r = <<Signal(s)>>
          PROVE  issued[c] \subseteq issued'[c] /\ KeysIn(toCli'[c], issued'[c])
      BY <1>3, <2>1, <2>2, <2>4, KeysTypes, PacketKinds
    <2> QED
      BY <2>3, <2>4
  <1>8. CASE UNCHANGED <<toCli, issued>>
    BY <1>8
  <1> QED
    BY <1>4, <1>5, <1>6, <1>7, <1>8
       DEF HandlerStep, CallCreate, CallCreatePackage, PrintPackage, CallTake, PrintTaken,
           InDatabase, netVars

\* What a client holds after a step is what it held, or a key that was sent to it.
LEMMA ClientKeys ==
  ASSUME UseInv, NEW c \in Threads, ClientMove(c), KeysIn(toCli[c], issued[c])
  PROVE  LET ks == issued[c] \cup {NoPtr, "damaged"}
         IN  /\ KeysIn(toCli'[c], issued[c])
             /\ cl'[c].UserSecretKey \in ks \cup {cl[c].UserSecretKey}
             /\ cl'[c].DeliverySecretKey \in ks \cup {cl[c].DeliverySecretKey}
  <1> DEFINE ks == issued[c] \cup {NoPtr, "damaged"}
             SameKeys == /\ cl'[c].UserSecretKey = cl[c].UserSecretKey
                         /\ cl'[c].DeliverySecretKey = cl[c].DeliverySecretKey
  <1>1. /\ toCli \in [Threads -> Seq(Packet)] /\ cl \in [Threads -> Clients]
        /\ cl[c] \in Clients /\ SessionTypes
    BY DEF UseInv, SessionTypes
  <1>2. ASSUME NEW in \in CliRecv(c), NEW new, Takes(c, in, new)
        PROVE  /\ KeysIn(toCli'[c], issued[c])
               /\ in.buf.type = "key" => in.buf.key \in issued[c]
               /\ in.buf \in Buffer
    <2>1. /\ in.buf \in Buffer /\ (in.buf # Nothing => toCli[c] # <<>> /\ in.buf = toCli[c][1])
          /\ \A i \in 1 .. Len(in.rest) : \E j \in 1 .. Len(toCli[c]) : in.rest[i] = toCli[c][j]
      <3> DEFINE q == toCli[c]
                 open == status # "aborted" /\ h[c].pc # "ended"
      <3>1. q \in Seq(Packet) /\ open \in BOOLEAN /\ in \in Recv(q, open)
        BY <1>1, <1>2 DEF CliRecv, SrvOpen
      <3> HIDE DEF q, open
      <3>2. /\ in.buf \in Buffer /\ (in.buf # Nothing => q # <<>> /\ in.buf = q[1])
            /\ \A i \in 1 .. Len(in.rest) : \E j \in 1 .. Len(q) : in.rest[i] = q[j]
        BY <3>1, RecvRead
      <3> QED
        BY <3>2 DEF q
    <2>2. toCli'[c] = in.rest
      BY <1>1, <1>2 DEF Takes
    <2>3. KeysIn(in.rest, issued[c])
      BY <2>1 DEF KeysIn
    <2>4. toCli[c] # <<>> => 1 \in 1 .. Len(toCli[c])
      BY <1>1
    <2>5. in.buf.type = "key" => in.buf # Nothing
      BY <2>1, BufferRead DEF Nothing
    <2> QED
      BY <2>1, <2>2, <2>3, <2>4, <2>5 DEF KeysIn
  <1>3. CASE WaitKey(c)
    <2> DEFINE KeyOf(buf) == CASE buf.type = "key" -> buf.key
                               [] buf.type = "nothing" -> NoPtr
                               [] OTHER -> "damaged"
    <2>0. PICK in \in CliRecv(c) :
            Takes(c, in, IF cl[c].cmd = 1
                         THEN [cl[c] EXCEPT !.pc = "input", !.UserSecretKey = KeyOf(in.buf)]
                         ELSE [cl[c] EXCEPT !.pc = "input", !.DeliverySecretKey = KeyOf(in.buf)])
      BY <1>3 DEF WaitKey
    <2>1. PICK k :
            /\ k = CASE in.buf.type = "key" -> in.buf.key
                     [] in.buf.type = "nothing" -> NoPtr
                     [] OTHER -> "damaged"
            /\ Takes(c, in, IF cl[c].cmd = 1
                            THEN [cl[c] EXCEPT !.pc = "input", !.UserSecretKey = k]
                            ELSE [cl[c] EXCEPT !.pc = "input", !.DeliverySecretKey = k])
      BY <2>0
    <2>2. /\ KeysIn(toCli'[c], issued[c])
          /\ in.buf.type = "key" => in.buf.key \in issued[c]
      BY <1>2, <2>1
    <2>3. k \in ks
      BY <2>1, <2>2
    <2>4. \/ cl'[c].UserSecretKey = k /\ cl'[c].DeliverySecretKey = cl[c].DeliverySecretKey
          \/ cl'[c].DeliverySecretKey = k /\ cl'[c].UserSecretKey = cl[c].UserSecretKey
      <3>1. CASE cl[c].cmd = 1
        BY <1>1, <2>1, <3>1 DEF Takes, Clients
      <3>2. CASE cl[c].cmd # 1
        BY <1>1, <2>1, <3>2 DEF Takes, Clients
      <3> QED
        BY <3>1, <3>2
    <2> QED
      BY <2>2, <2>3, <2>4
  <1>4. CASE WaitCipher(c) \/ WaitSignal(c) \/ WaitDone(c)
    <2>1. KeysIn(toCli'[c], issued[c])
      BY <1>2, <1>4 DEF WaitCipher, WaitSignal, WaitDone
    <2>2. SameKeys
      <3>1. \E in, pc, b : \/ Takes(c, in, [cl[c] EXCEPT !.pc = pc])
                           \/ Takes(c, in, [cl[c] EXCEPT !.told = b, !.pc = pc])
        <4>1. CASE WaitCipher(c)
          BY <4>1 DEF WaitCipher
        <4>2. CASE WaitSignal(c) \/ WaitDone(c)
          BY <4>2 DEF WaitSignal, WaitDone
        <4> QED
          BY <1>4, <4>1, <4>2
      <3>2. \A in, new : Takes(c, in, new) => \E e : cl'[c] = [new EXCEPT !.err = e]
        BY <1>1 DEF Takes
      <3>3. PICK in, new : /\ Takes(c, in, new)
                           /\ \E pc, b : \/ new = [cl[c] EXCEPT !.pc = pc]
                                         \/ new = [cl[c] EXCEPT !.told = b, !.pc = pc]
        BY <3>1, ZenonT(60)
      <3>4. /\ new.UserSecretKey = cl[c].UserSecretKey
            /\ new.DeliverySecretKey = cl[c].DeliverySecretKey
            /\ {"UserSecretKey", "DeliverySecretKey"} \subseteq DOMAIN new
        BY <1>1, <3>3 DEF Clients
      <3>5. PICK e : cl'[c] = [new EXCEPT !.err = e]
        BY <3>2, <3>3
      <3> QED
        BY <3>4, <3>5
    <2> QED
      BY <2>1, <2>2
  <1>5. ASSUME NEW msg, NEW new, Sends(c, msg, new), UNCHANGED toCli,
               \/ \E pc : new = [cl[c] EXCEPT !.pc = pc]
               \/ \E pc, cmd, n : new = [cl[c] EXCEPT !.pc = pc, !.cmd = cmd, !.n = n]
        PROVE  KeysIn(toCli'[c], issued[c]) /\ SameKeys
    <2>1. \E e : cl'[c] = [new EXCEPT !.err = e]
      BY <1>1, <1>5 DEF Sends
    <2>2. /\ new.UserSecretKey = cl[c].UserSecretKey
          /\ new.DeliverySecretKey = cl[c].DeliverySecretKey
          /\ {"UserSecretKey", "DeliverySecretKey"} \subseteq DOMAIN new
      BY <1>1, <1>5 DEF Clients
    <2>3. SameKeys
      BY <2>1, <2>2
    <2> QED
      BY <1>5, <2>3
  <1>6. ASSUME NEW f \in Fields, TypeField(c, f) PROVE KeysIn(toCli'[c], issued[c]) /\ SameKeys
    BY <1>5, <1>6 DEF TypeField
  <1>7. CASE TypeIdx(c) \/ TypeReceiver(c) \/ TypePackName(c) \/ TypeCode(c)
    BY <1>5, <1>7 DEF TypeIdx, TypeReceiver, TypePackName, TypeCode
  <1>8. ASSUME NEW cmd \in 1 .. 4, Input(c, cmd) PROVE KeysIn(toCli'[c], issued[c]) /\ SameKeys
    BY <1>5, <1>8 DEF Input
  <1>9. CASE Terminate(c) \/ Close(c)
    <2>1. toCli'[c] = toCli[c] \/ toCli'[c] = <<>>
      BY <1>1, <1>9 DEF Terminate, Close
    <2>2. SameKeys
      BY <1>1, <1>9 DEF Terminate, Close, Clients
    <2>3. KeysIn(<<>>, issued[c])
      BY DEF KeysIn
    <2> QED
      BY <2>1, <2>2, <2>3
  <1> QED
    BY <1>3, <1>4, <1>6, <1>7, <1>8, <1>9 DEF ClientMove, ClientStep

KeysInv == \A c \in Threads : KeysOf(c)

LEMMA KeysStep ==
  ASSUME UseInv, KeysInv, [SessionNext]_vars
  PROVE  KeysInv'
  <1> SUFFICES ASSUME NEW c \in Threads PROVE KeysOf(c)'
    BY DEF KeysInv
  <1>1. KeysOf(c) /\ KeysIn(toCli[c], issued[c])
    BY DEF KeysInv, KeysOf, KeysIn
  <1>2. CASE HandlerStep(c)
    <2>1. cl'[c] = cl[c]
      BY <1>2, HandlerLeaves
    <2> QED
      BY <1>1, <1>2, <2>1, HandlerKeys DEF KeysOf, KeysIn
  <1>3. CASE ClientMove(c)
    <2>1. issued'[c] = issued[c]
      BY <1>3, ClientLeaves
    <2> QED
      BY <1>1, <1>3, <2>1, ClientKeys DEF KeysOf, KeysIn
  <1>4. CASE Untouched(c)
    BY <1>1, <1>4 DEF KeysOf, Untouched
  <1>5. CASE Broadcast
    <2>1. toCli'[c] = toCli[c] \/ toCli'[c] = Append(toCli[c], Text("kim"))
      BY <1>5 DEF Broadcast
    <2>2. KeysIn(Append(toCli[c], Text("kim")), issued[c])
      <3>1. Text("kim") \in Packet /\ toCli[c] \in Seq(Packet)
        BY PacketKinds DEF Texts, UseInv, SessionTypes
      <3> QED
        BY <1>1, <3>1, KeysAppended, KeysTypes
    <2>3. cl'[c] = cl[c] /\ issued'[c] = issued[c]
      BY <1>5 DEF Broadcast
    <2> QED
      BY <1>1, <2>1, <2>2, <2>3 DEF KeysOf, KeysIn
  <1> QED
    BY <1>2, <1>3, <1>4, <1>5, StepAt

LEMMA KeysAlways == SessionSpec => []KeysInv
  <1>1. SessionInit => KeysInv
    <2>1. Client0.UserSecretKey = NoPtr /\ Client0.DeliverySecretKey = NoPtr
      BY DEF Client0
    <2>2. SessionInit => \A c \in Threads : toCli[c] = <<>> /\ cl[c] = Client0
      BY DEF SessionInit
    <2>3. \A i \in 1 .. Len(<<>>) : FALSE
      OBVIOUS
    <2> QED
      BY <2>1, <2>2, <2>3 DEF KeysInv, KeysOf
  <1> QED
    BY <1>1, KeysStep, UseAlways, PTL DEF SessionSpec

----------------------------------------------------------------------------
(* The two programs of an undisturbed connection stay in step.              *)

LEMMA Counts ==
  /\ Sent["input"] = 0 /\ Sent["name"] = 1 /\ Sent["idx"] = 1 /\ Sent["phone"] = 2
  /\ Sent["waitCipher"] = 2 /\ Sent["addr"] = 3 /\ Sent["waitKey"] = 4
  /\ DOMAIN Sent = {"input", "name", "phone", "addr", "waitKey", "idx", "waitCipher"}
  /\ Left["receiver"] = 2 /\ Left["packName"] = 1 /\ Left["cmd"] = 0 /\ Left["createPack"] = 0
  /\ Left["packing"] = 0 /\ Left["take"] = 0 /\ Left["taking"] = 0
  /\ DOMAIN Left = {"cmd", "receiver", "packName", "createPack", "packing", "take", "taking"}
  /\ Read["name"] = 1 /\ Read["phone"] = 2 /\ Read["addr"] = 3 /\ Read["create"] = 4
  /\ Read["creating"] = 4 /\ DOMAIN Read = {"name", "phone", "addr", "create", "creating"}
  BY DEF Sent, Left, Read

LEMMA Queues ==
  ASSUME NEW q \in Seq(Packet)
  PROVE  /\ Len(q) \in Nat /\ (Len(q) = 0 <=> q = <<>>) /\ q \o <<>> = q
         /\ q # <<>> => /\ Len(Tail(q)) = Len(q) - 1
                        /\ \A i \in 1 .. Len(q) - 1 : Tail(q)[i] = q[i + 1]
         /\ \A x \in Packet : /\ Len(Append(q, x)) = Len(q) + 1
                              /\ Len(q \o <<x>>) = Len(q) + 1
                              /\ \A i \in 1 .. Len(q) : Append(q, x)[i] = q[i]
                              /\ Append(q, x)[Len(q) + 1] = x
                              /\ q = <<>> => q \o <<x>> = <<x>> /\ Append(q, x) = <<x>>
  <1> DEFINE P == Packet
  <1>1. q \in Seq(P)
    OBVIOUS
  <1> HIDE DEF P
  <1>2. Len(q) \in Nat /\ (Len(q) = 0 <=> q = <<>>) /\ q \o <<>> = q
    BY <1>1
  <1>3. q # <<>> => /\ Len(Tail(q)) = Len(q) - 1
                    /\ \A i \in 1 .. Len(q) - 1 : Tail(q)[i] = q[i + 1]
    BY <1>1
  <1>4. ASSUME NEW x \in P
        PROVE  /\ Len(Append(q, x)) = Len(q) + 1
               /\ \A i \in 1 .. Len(q) : Append(q, x)[i] = q[i]
               /\ Append(q, x)[Len(q) + 1] = x
    BY <1>1, <1>4
  <1>5. ASSUME NEW x \in P PROVE Len(q \o <<x>>) = Len(q) + 1
    BY <1>1, <1>5
  <1>6. ASSUME NEW x \in P, q = <<>> PROVE q \o <<x>> = <<x>> /\ Append(q, x) = <<x>>
    <2>1. <<>> \o <<x>> = <<x>> /\ Append(<<>>, x) = <<x>>
      BY <1>6
    <2> QED
      BY <1>6, <2>1
  <1> QED
    BY <1>2, <1>3, <1>4, <1>5, <1>6 DEF P

\* An undisturbed recv of the handler takes one message, or finds the client gone.
LEMMA ReadsOne ==
  ASSUME SessionTypes, NEW c \in Threads, NEW in \in SrvRecv(c), NEW replies \in Seq(Packet),
         Received(c, in, replies), c \notin lost', UNCHANGED cl
  PROVE  \/ Gone(c)'
         \/ /\ toSrv[c] # <<>> /\ in.buf = toSrv[c][1] /\ toSrv'[c] = Tail(toSrv[c])
            /\ toCli'[c] = IF CliOpen(c) THEN toCli[c] \o replies ELSE toCli[c]
  <1>1. /\ toSrv'[c] = in.rest /\ in.took <= 1
        /\ toCli'[c] = IF CliOpen(c) THEN toCli[c] \o replies ELSE toCli[c]
    BY ReceivedEffect
  <1>2. /\ in.buf = Nothing => ~CliOpen(c) /\ in.rest = <<>>
        /\ in.buf # Nothing => toSrv[c] # <<>> /\ in.buf = toSrv[c][1]
        /\ in.buf # Nothing /\ in.took <= 1 => in.rest = Tail(toSrv[c])
    <2> DEFINE q == toSrv[c]
               open == cl[c].pc # "ended"
    <2>1. q \in Seq(Packet) /\ open \in BOOLEAN /\ in \in Recv(q, open)
      BY DEF SessionTypes, SrvRecv, CliOpen
    <2> HIDE DEF q, open
    <2>2. /\ in.buf = Nothing => ~open /\ in.rest = <<>>
          /\ in.buf # Nothing => q # <<>> /\ in.buf = q[1]
          /\ in.buf # Nothing /\ in.took <= 1 => in.rest = Tail(q)
      BY <2>1, RecvRead
    <2> QED
      BY <2>2 DEF q, open, CliOpen
  <1> QED
    BY <1>1, <1>2 DEF Gone, CliOpen

\* One of the client does so while the server is open.
LEMMA TakesOne ==
  ASSUME SessionTypes, NEW c \in Threads, SrvOpen(c), NEW in \in CliRecv(c), NEW new,
         Takes(c, in, new), c \notin lost'
  PROVE  /\ toCli[c] # <<>> /\ in.buf = toCli[c][1] /\ toCli'[c] = Tail(toCli[c])
         /\ cl' = [cl EXCEPT ![c] = [new EXCEPT !.err = cl[c].err]]
  <1> DEFINE q == toCli[c]
             open == status # "aborted" /\ h[c].pc # "ended"
  <1>1. q \in Seq(Packet) /\ open \in BOOLEAN /\ open /\ in \in Recv(q, open)
    BY DEF SessionTypes, CliRecv, SrvOpen
  <1> HIDE DEF q, open
  <1>2. /\ in.buf = Nothing => ~open /\ in.rest = <<>>
        /\ in.buf # Nothing => q # <<>> /\ in.buf = q[1]
        /\ in.buf # Nothing /\ in.took <= 1 => in.rest = Tail(q)
        /\ in.took \in Nat
    BY <1>1, RecvRead
  <1>3. in.took <= 1
    BY <1>2 DEF Takes
  <1>4. toCli'[c] = in.rest
    BY DEF Takes, SessionTypes
  <1>5. cl' = [cl EXCEPT ![c] = [new EXCEPT !.err = cl[c].err]]
    BY DEF Takes, Err
  <1> QED
    BY <1>1, <1>2, <1>3, <1>4, <1>5 DEF q

\* Steps that change neither the programs' places nor what they send; the client may go.
LEMMA StageFrame ==
  ASSUME UseInv, Kept, NEW c \in Threads, NEW w, InStep(c, w), h'[c] = h[c],
         toSrv'[c] = toSrv[c], CliOpen(c)' => CliOpen(c) /\ toCli'[c] = toCli[c],
         cl'[c].cmd = cl[c].cmd, cl'[c].UserSecretKey = cl[c].UserSecretKey,
         cl'[c].DeliverySecretKey = cl[c].DeliverySecretKey
  PROVE  InStep(c, w)'
  <1>1. (Quiet(c) => Quiet(c)') /\ (Replied(c) => Replied(c)')
    BY DEF Quiet, Replied
  <1>2. OwnKey(c)' = OwnKey(c) /\ Challenge(c)' = Challenge(c)
    BY DEF OwnKey, Challenge
  <1>3. CommandAt(c, w)'
    BY DEF InStep, CommandAt
  <1>4. Ahead(c, w) => Ahead(c, w)'
    BY <1>1 DEF Ahead
  <1>5. (Registering(c, w) => Registering(c, w)') /\ (Asking(c, w) => Asking(c, w)')
    BY <1>1 DEF Registering, Asking
  <1>6. KeySent(c, w) => KeySent(c, w)'
    BY DEF KeySent, Kept, ClassOf
  <1>7. Challenged(c, w) => Challenged(c, w)'
    BY <1>1, <1>2 DEF Challenged
  <1>8. (Verified(c, w) => Verified(c, w)') /\ (Packing(c, w) => Packing(c, w)')
    BY <1>1 DEF Verified, Packing
  <1>9. Collecting(c, w) => Collecting(c, w)'
    BY <1>1 DEF Collecting
  <1> QED
    BY <1>3, <1>4, <1>5, <1>6, <1>7, <1>8, <1>9 DEF InStep, Stages

LEMMA Classes ==
  /\ ClassOf(1) = "User" /\ ClassOf(2) = "DeliveryMan"
  /\ ClassOf(3) = "User" /\ ClassOf(4) = "DeliveryMan"
  BY DEF ClassOf

LEMMA LockCommand ==
  ASSUME UseInv, NEW c \in Threads, NEW w, InStep(c, w), RecvCommand(c), c \notin lost'
  PROVE  Gone(c)' \/ InStep(c, w)'
  <1>1. h[c].pc = "cmd" /\ SessionTypes /\ toSrv[c] \in Seq(Packet) /\ cl[c] \in Clients
    BY DEF RecvCommand, Reads, UseInv, SessionTypes
  <1>2. PICK in \in SrvRecv(c) :
          /\ Received(c, in, <<>>)
          /\ Goes(c,
               CASE in.buf.type = "nothing" -> [h[c] EXCEPT !.pc = "ended"]
                 [] AsText(in.buf) = "1" -> [Handler0 EXCEPT !.pc = "name", !.kind = "User"]
                 [] AsText(in.buf) = "2" -> [Handler0 EXCEPT !.pc = "name", !.kind = "DeliveryMan"]
                 [] AsText(in.buf) = "3" -> [Handler0 EXCEPT !.pc = "idx", !.kind = "User"]
                 [] AsText(in.buf) = "4" -> [Handler0 EXCEPT !.pc = "idx", !.kind = "DeliveryMan"]
                 [] OTHER -> h[c])
    BY DEF RecvCommand
  <1>3. UNCHANGED cl
    BY DEF RecvCommand
  <1>4. \/ Gone(c)'
        \/ /\ toSrv[c] # <<>> /\ in.buf = toSrv[c][1] /\ toSrv'[c] = Tail(toSrv[c])
           /\ toCli'[c] = IF CliOpen(c) THEN toCli[c] \o <<>> ELSE toCli[c]
    BY <1>1, <1>2, <1>3, ReadsOne, OneMessage
  <1>5. SUFFICES ASSUME toSrv[c] # <<>>, in.buf = toSrv[c][1], toSrv'[c] = Tail(toSrv[c]),
                        toCli'[c] = IF CliOpen(c) THEN toCli[c] \o <<>> ELSE toCli[c]
                 PROVE  InStep(c, w)'
    BY <1>4
  <1>6. Ahead(c, w) /\ CommandAt(c, w)
    BY <1>1, <1>5, Counts DEF InStep, Stages, Registering, KeySent, Asking, Challenged, Verified,
                      Packing, Collecting
  <1>7. /\ Len(toSrv[c]) = Sent[w] /\ Sent[w] > 0 /\ in.buf = Text(Command[cl[c].cmd])
        /\ w \in DOMAIN Sent
    BY <1>1, <1>5, <1>6, Queues, Counts DEF Ahead
  <1>8. Quiet(c)'
    <2>1. toCli[c] \o <<>> = toCli[c]
      BY Queues DEF UseInv, SessionTypes
    <2> QED
      BY <1>3, <1>5, <1>6, <2>1 DEF Ahead, Quiet, CliOpen
  <1>9. Len(toSrv'[c]) = Sent[w] - 1
    BY <1>1, <1>5, <1>7, Queues
  <1>10. \A x : Text(x).type = "text" /\ AsText(Text(x)) = x
    BY DEF Text, AsText
  <1>11. \A new : Goes(c, new) => h'[c] = new
    BY <1>1 DEF Goes, SessionTypes
  <1>12. ASSUME NEW pc, NEW k, Goes(c, [Handler0 EXCEPT !.pc = pc, !.kind = k])
         PROVE  h'[c].pc = pc /\ h'[c].kind = k
    <2>1. /\ [Handler0 EXCEPT !.pc = pc, !.kind = k].pc = pc
          /\ [Handler0 EXCEPT !.pc = pc, !.kind = k].kind = k
      BY DEF Handler0
    <2> QED
      BY <1>11, <1>12, <2>1
  <1>13. Command[1] = "1" /\ Command[2] = "2" /\ Command[3] = "3" /\ Command[4] = "4"
    BY DEF Command
  <1>14. CASE w \in {"name", "phone", "addr", "waitKey"}
    <2>1. cl[c].cmd = 1 \/ cl[c].cmd = 2
      BY <1>6, <1>14 DEF CommandAt
    <2>2. h'[c].pc = "name" /\ h'[c].kind = ClassOf(cl[c].cmd)
      <3>1. CASE cl[c].cmd = 1
        <4>1. in.buf.type = "text" /\ AsText(in.buf) = "1"
          BY <1>7, <1>10, <1>13, <3>1
        <4>2. Goes(c, [Handler0 EXCEPT !.pc = "name", !.kind = "User"])
          BY <1>2, <4>1
        <4> QED
          BY <1>12, <3>1, <4>2, Classes
      <3>2. CASE cl[c].cmd = 2
        <4>1. in.buf.type = "text" /\ AsText(in.buf) = "2"
          BY <1>7, <1>10, <1>13, <3>2
        <4>2. Goes(c, [Handler0 EXCEPT !.pc = "name", !.kind = "DeliveryMan"])
          BY <1>2, <4>1
        <4> QED
          BY <1>12, <3>2, <4>2, Classes
      <3> QED
        BY <2>1, <3>1, <3>2
    <2>3. Registering(c, w)'
      BY <1>8, <1>9, <1>14, <2>2, Counts DEF Registering
    <2> QED
      BY <1>3, <1>6, <2>2, <2>3 DEF InStep, Stages, CommandAt
  <1>15. CASE w \in {"idx", "waitCipher"}
    <2>1. cl[c].cmd = 3 \/ cl[c].cmd = 4
      BY <1>6, <1>15 DEF CommandAt
    <2>2. h'[c].pc = "idx" /\ h'[c].kind = ClassOf(cl[c].cmd)
      <3>1. CASE cl[c].cmd = 3
        <4>1. in.buf.type = "text" /\ AsText(in.buf) = "3"
          BY <1>7, <1>10, <1>13, <3>1
        <4>2. Goes(c, [Handler0 EXCEPT !.pc = "idx", !.kind = "User"])
          BY <1>2, <4>1
        <4> QED
          BY <1>12, <3>1, <4>2, Classes
      <3>2. CASE cl[c].cmd = 4
        <4>1. in.buf.type = "text" /\ AsText(in.buf) = "4"
          BY <1>7, <1>10, <1>13, <3>2
        <4>2. Goes(c, [Handler0 EXCEPT !.pc = "idx", !.kind = "DeliveryMan"])
          BY <1>2, <4>1
        <4> QED
          BY <1>12, <3>2, <4>2, Classes
      <3> QED
        BY <2>1, <3>1, <3>2
    <2>3. Asking(c, w)'
      BY <1>8, <1>9, <1>15, <2>2, Counts DEF Asking
    <2> QED
      BY <1>3, <1>6, <2>2, <2>3 DEF InStep, Stages, CommandAt
  <1> QED
    BY <1>7, <1>14, <1>15, Counts

\* The handler's queue after a read, without a reply and with one.
ReadOn(c, in) ==
  /\ toSrv[c] # <<>> /\ in.buf = toSrv[c][1] /\ Len(toSrv'[c]) = Len(toSrv[c]) - 1
  /\ \A i \in 1 .. Len(toSrv[c]) - 1 : toSrv'[c][i] = toSrv[c][i + 1]

LEMMA ReadSilent ==
  ASSUME UseInv, NEW c \in Threads, NEW in \in SrvRecv(c), Received(c, in, <<>>),
         c \notin lost', UNCHANGED cl
  PROVE  Gone(c)' \/ (ReadOn(c, in) /\ toCli'[c] = toCli[c])
  <1>1. toSrv[c] \in Seq(Packet) /\ toCli[c] \in Seq(Packet) /\ SessionTypes
    BY DEF UseInv, SessionTypes
  <1>2. toCli[c] \o <<>> = toCli[c] /\ <<>> \in Seq(Packet)
    BY <1>1, Queues, OneMessage
  <1>3. \/ Gone(c)'
        \/ /\ toSrv[c] # <<>> /\ in.buf = toSrv[c][1] /\ toSrv'[c] = Tail(toSrv[c])
           /\ toCli'[c] = IF CliOpen(c) THEN toCli[c] \o <<>> ELSE toCli[c]
    BY <1>1, <1>2, ReadsOne
  <1>4. toSrv[c] # <<>> /\ in.buf = toSrv[c][1] /\ toSrv'[c] = Tail(toSrv[c]) => ReadOn(c, in)
    BY <1>1, Queues DEF ReadOn
  <1> QED
    BY <1>2, <1>3, <1>4

LEMMA ReadReplied ==
  ASSUME UseInv, NEW c \in Threads, NEW in \in SrvRecv(c), NEW x \in Packet,
         Received(c, in, <<x>>), c \notin lost', UNCHANGED cl, Quiet(c)
  PROVE  Gone(c)' \/ (ReadOn(c, in) /\ (CliOpen(c)' => toCli'[c] = <<x>>))
  <1>1. toSrv[c] \in Seq(Packet) /\ toCli[c] \in Seq(Packet) /\ SessionTypes
    BY DEF UseInv, SessionTypes
  <1>2. CliOpen(c) => toCli[c] \o <<x>> = <<x>>
    BY <1>1, Queues DEF Quiet
  <1>3. CliOpen(c)' = CliOpen(c)
    BY DEF CliOpen
  <1>4. <<x>> \in Seq(Packet)
    BY OneMessage
  <1>5. \/ Gone(c)'
        \/ /\ toSrv[c] # <<>> /\ in.buf = toSrv[c][1] /\ toSrv'[c] = Tail(toSrv[c])
           /\ toCli'[c] = IF CliOpen(c) THEN toCli[c] \o <<x>> ELSE toCli[c]
    BY <1>1, <1>4, ReadsOne
  <1>6. toSrv[c] # <<>> /\ in.buf = toSrv[c][1] /\ toSrv'[c] = Tail(toSrv[c]) => ReadOn(c, in)
    BY <1>1, Queues DEF ReadOn
  <1> QED
    BY <1>2, <1>3, <1>5, <1>6

LEMMA LockField ==
  ASSUME UseInv, NEW c \in Threads, NEW w, InStep(c, w), NEW f \in Fields, RecvField(c, f),
         c \notin lost'
  PROVE  Gone(c)' \/ InStep(c, w)'
  <1>1. h[c].pc = f /\ UNCHANGED cl /\ h[c] \in Handlers
    BY DEF RecvField, Reads, UseInv, SessionTypes
  <1>2. PICK in \in SrvRecv(c) : Received(c, in, <<>>)
    BY DEF RecvField
  <1>3. h'[c].pc = NextField[f] /\ h'[c].kind = h[c].kind
    BY <1>1 DEF RecvField, Goes, UseInv, SessionTypes, Handlers
  <1>4. SUFFICES ASSUME ReadOn(c, in), toCli'[c] = toCli[c] PROVE InStep(c, w)'
    BY <1>1, <1>2, ReadSilent
  <1>5. Registering(c, w) /\ CommandAt(c, w) /\ h[c].kind = ClassOf(cl[c].cmd)
    BY <1>1, Counts DEF InStep, Stages, Ahead, KeySent, Asking, Challenged, Verified, Packing,
                        Collecting, Fields
  <1>6. NextField[f] \in DOMAIN Read /\ Read[NextField[f]] = Read[f] + 1
    BY Counts DEF NextField, Fields
  <1>7. Quiet(c)'
    BY <1>1, <1>4, <1>5 DEF Registering, Quiet, CliOpen
  <1>8. Len(toSrv[c]) \in Nat
    BY Queues DEF UseInv, SessionTypes
  <1>9. Read[f] \in Int
    BY Counts DEF Fields
  <1>10. Registering(c, w)'
    BY <1>1, <1>3, <1>4, <1>5, <1>6, <1>7, <1>8, <1>9 DEF Registering, ReadOn
  <1>11. CommandAt(c, w)' /\ h'[c].kind = ClassOf(cl[c].cmd)'
    BY <1>1, <1>3, <1>5 DEF CommandAt, ClassOf
  <1> QED
    BY <1>10, <1>11 DEF InStep, Stages

\* The registration in the database, and the key that it ends with.
LEMMA LockCreate ==
  ASSUME UseInv, Kept, NEW c \in Threads, NEW w, InStep(c, w),
         CallCreate(c) \/ SendKey(c)
  PROVE  InStep(c, w)'
  <1>1. /\ UNCHANGED <<toSrv, cl>> /\ h[c].pc \in {"create", "creating"} /\ status = "running"
        /\ h[c] \in Handlers /\ CallOf(c)
    BY DEF CallCreate, SendKey, Reads, UseInv, SessionTypes, HandlerInv, HandlerOf
  <1>2. Registering(c, w) /\ CommandAt(c, w) /\ h[c].kind = ClassOf(cl[c].cmd)
    BY <1>1, Counts DEF InStep, Stages, Ahead, KeySent, Asking, Challenged, Verified, Packing,
                        Collecting
  <1>3. CommandAt(c, w)' /\ ClassOf(cl[c].cmd)' = ClassOf(cl[c].cmd)
    BY <1>1, <1>2 DEF CommandAt, ClassOf
  <1>4. CASE CallCreate(c)
    <2>1. h'[c].pc = "creating" /\ h'[c].kind = h[c].kind /\ h[c].pc = "create"
          /\ UNCHANGED toCli
      BY <1>1, <1>4 DEF CallCreate, Reads, Goes, UseInv, SessionTypes, Handlers
    <2>2. Registering(c, w)'
      BY <1>1, <1>2, <2>1, Counts DEF Registering, Quiet, CliOpen
    <2> QED
      BY <1>2, <1>3, <2>1, <2>2 DEF InStep, Stages
  <1>5. CASE SendKey(c)
    <2>1. h'[c].pc = "cmd" /\ h[c].pc = "creating"
      BY <1>1, <1>5 DEF SendKey, Reads, Goes, UseInv, SessionTypes, Handlers
    <2>2. w = "waitKey" /\ toSrv'[c] = <<>>
      <3>1. Len(toSrv[c]) \in Nat /\ (Len(toSrv[c]) = 0 => toSrv[c] = <<>>)
        BY Queues DEF UseInv, SessionTypes
      <3> QED
        BY <1>1, <1>2, <2>1, <3>1, Counts DEF Registering
    <2>3. call[c].obj \in Ptr /\ obj[call[c].obj].kind = h[c].kind
      BY <1>1, <2>1 DEF CallOf, Creates
    <2>4. CliOpen(c) => toCli'[c] = <<SecretKey(call[c].obj)>>
      <3>1. SecretKey(call[c].obj) \in Packet /\ toCli[c] \in Seq(Packet)
        BY <2>3, PacketKinds DEF UseInv, SessionTypes
      <3>2. CliOpen(c) => toCli'[c] = Append(toCli[c], SecretKey(call[c].obj)) /\ toCli[c] = <<>>
        BY <1>2, <1>5 DEF SendKey, UseInv, SessionTypes, Registering, Quiet
      <3> QED
        BY <3>1, <3>2, Queues
    <2>5. obj'[call[c].obj].kind = ClassOf(cl[c].cmd)
      BY <1>2, <1>5, <2>3 DEF SendKey, Return
    <2>6. KeySent(c, w)'
      <3>1. PICK k \in Ptr : k = call[c].obj
        BY <2>3
      <3>2. CliOpen(c)' => toCli'[c] = <<SecretKey(k)>> /\ obj'[k].kind = ClassOf(cl[c].cmd)'
        BY <1>1, <1>3, <2>4, <2>5, <3>1 DEF CliOpen
      <3> QED
        BY <2>1, <2>2, <3>2 DEF KeySent
    <2> QED
      BY <1>3, <2>1, <2>6 DEF InStep, Stages
  <1> QED
    BY <1>4, <1>5

LEMMA DiesStops == \A k, i : Dies(k, i) => status' # "running"
  BY DEF Dies, Fault

\* The challenge.
LEMMA LockIdx ==
  ASSUME UseInv, NEW c \in Threads, NEW w, InStep(c, w), RecvIdx(c), c \notin lost',
         status' = "running"
  PROVE  Gone(c)' \/ InStep(c, w)'
  <1>1. h[c].pc = "idx" /\ UNCHANGED cl /\ h[c] \in Handlers
    BY DEF RecvIdx, Reads, UseInv, SessionTypes
  <1>2. PICK in \in SrvRecv(c), rand \in RandNums, i \in Int, k \in Ptr :
          /\ Received(c, in, <<Cipher(k, IdxToMessage(rand))>>)
          /\ Goes(c, [h[c] EXCEPT !.pc = "answer", !.idx = i, !.rand = rand, !.key = k])
    <2>1. \A in \in SrvRecv(c) : GetIdxFromReceiveMessage[AsText(in.buf)] \in Int
      BY RecvRead, BufferRead DEF UseInv, SessionTypes, SrvRecv, CliOpen
    <2> QED
      BY <2>1, DiesStops DEF RecvIdx, Readable
  <1>3. /\ h'[c].pc = "answer" /\ h'[c].kind = h[c].kind /\ h'[c].key = k /\ h'[c].rand = rand
    BY <1>1, <1>2 DEF Goes, UseInv, SessionTypes, Handlers
  <1>4. Cipher(k, IdxToMessage(rand)) \in Packet
    <2>1. rand \in Int
      BY RandAssumption
    <2>2. IdxToMessage(rand) \in Message
      BY <2>1, Messages
    <2> QED
      BY <2>2, PacketKinds
  <1>5. Asking(c, w) /\ CommandAt(c, w) /\ h[c].kind = ClassOf(cl[c].cmd)
    BY <1>1, Counts DEF InStep, Stages, Ahead, Registering, KeySent, Challenged, Verified, Packing,
                        Collecting
  <1>6. SUFFICES ASSUME ReadOn(c, in),
                        CliOpen(c)' => toCli'[c] = <<Cipher(k, IdxToMessage(rand))>>
                 PROVE  InStep(c, w)'
    BY <1>1, <1>2, <1>4, <1>5, ReadReplied DEF Asking
  <1>7. /\ Len(toSrv[c]) \in Nat /\ (Len(toSrv[c]) = 0 => toSrv[c] = <<>>)
        /\ (Len(toSrv'[c]) = 0 => toSrv'[c] = <<>>)
    <2>1. toSrv[c] \in Seq(Packet) /\ toSrv'[c] \in Seq(Packet)
      BY <1>2, HandlerTypes DEF UseInv, SessionTypes, HandlerStep
    <2> QED
      BY <2>1, Queues
  <1>8. w = "waitCipher" /\ toSrv'[c] = <<>>
    BY <1>5, <1>6, <1>7, Counts DEF Asking, ReadOn
  <1>9. Challenged(c, w)'
    <2>1. Challenge(c)' = Cipher(k, IdxToMessage(rand))
      BY <1>3 DEF Challenge
    <2> QED
      BY <1>3, <1>6, <1>8, <2>1 DEF Challenged
  <1>10. CommandAt(c, w)' /\ h'[c].kind = ClassOf(cl[c].cmd)'
    BY <1>1, <1>3, <1>5 DEF CommandAt, ClassOf
  <1> QED
    BY <1>9, <1>10 DEF InStep, Stages

\* The verdict on the answer.
LEMMA LockAnswer ==
  ASSUME UseInv, NEW c \in Threads, NEW w, InStep(c, w), RecvAnswer(c), c \notin lost',
         status' = "running", h'[c].pc # "ended"
  PROVE  Gone(c)' \/ InStep(c, w)'
  <1>1. h[c].pc = "answer" /\ UNCHANGED cl /\ h[c] \in Handlers
    BY DEF RecvAnswer, Reads, UseInv, SessionTypes
  <1>0. PICK in \in SrvRecv(c), x \in {SIGNAL_VERIFYED, SIGNAL_UNVERIFYED} : \E pc, no :
          /\ Received(c, in, <<Signal(x)>>)
          /\ Goes(c, [h[c] EXCEPT !.pc = pc, !.refused = no])
          /\ pc \in {"ended", IF h[c].kind = "User" THEN "receiver" ELSE "package"}
    <2>1. PICK in \in SrvRecv(c) :
            LET k == h[c].kind
                ok == AnswerAccepted(AsMessage(in.buf), h[c].rand) /\ h[c].idx # INVALID_VALUE
                dies == ok /\ ~Readable(k, h[c].idx)
            IN  /\ ~dies
                /\ Received(c, in, CASE ~ok -> <<Signal(SIGNAL_UNVERIFYED)>>
                                     [] dies /\ k = "DeliveryMan" -> <<>>
                                     [] OTHER -> <<Signal(SIGNAL_VERIFYED)>>)
                /\ Goes(c, [h[c] EXCEPT !.pc = CASE ~ok -> "ended"
                                                 [] ok /\ k = "User" -> "receiver"
                                                 [] OTHER -> "package",
                                        !.refused = ~ok])
      BY DiesStops DEF RecvAnswer
    <2>2. PICK ok \in BOOLEAN :
            ok = (AnswerAccepted(AsMessage(in.buf), h[c].rand) /\ h[c].idx # INVALID_VALUE)
      OBVIOUS
    <2>3. CASE ok
      <3>1. Received(c, in, <<Signal(SIGNAL_VERIFYED)>>)
        BY <2>1, <2>2, <2>3
      <3>2. \E no : Goes(c, [h[c] EXCEPT !.pc = IF h[c].kind = "User" THEN "receiver" ELSE "package",
                                         !.refused = no])
        BY <2>1, <2>2, <2>3
      <3> QED
        BY <3>1, <3>2
    <2>4. CASE ~ok
      <3>1. Received(c, in, <<Signal(SIGNAL_UNVERIFYED)>>)
        BY <2>1, <2>2, <2>4
      <3>2. \E no : Goes(c, [h[c] EXCEPT !.pc = "ended", !.refused = no])
        BY <2>1, <2>2, <2>4, Zenon
      <3> QED
        BY <3>1, <3>2
    <2> QED
      BY <2>3, <2>4
  <1>2. PICK pc, no :
          /\ Received(c, in, <<Signal(x)>>)
          /\ Goes(c, [h[c] EXCEPT !.pc = pc, !.refused = no])
          /\ pc \in {"ended", IF h[c].kind = "User" THEN "receiver" ELSE "package"}
    BY <1>0
  <1>3. h'[c].pc = pc /\ h'[c].kind = h[c].kind
    BY <1>1, <1>2 DEF Goes, UseInv, SessionTypes, Handlers
  <1>4. /\ Challenged(c, w) /\ CommandAt(c, w) /\ h[c].kind = ClassOf(cl[c].cmd)
    BY <1>1, Counts DEF InStep, Stages, Ahead, Registering, KeySent, Asking, Verified, Packing,
                        Collecting
  <1>5. CASE w = "waitCipher"
    <2>1. toSrv[c] = <<>>
      BY <1>4, <1>5 DEF Challenged
    <2>2. <<Signal(x)>> \in Seq(Packet)
      BY PacketKinds, OneMessage
    <2> QED
      BY <1>1, <1>2, <2>1, <2>2, ReadsOne DEF UseInv
  <1>6. CASE w = "waitSignal"
    <2>1. Len(toSrv[c]) = 1 /\ Quiet(c)
      BY <1>4, <1>6 DEF Challenged
    <2>2. Signal(x) \in Packet
      BY PacketKinds
    <2>3. SUFFICES ASSUME ReadOn(c, in), CliOpen(c)' => toCli'[c] = <<Signal(x)>>
                   PROVE  InStep(c, w)'
      BY <1>1, <1>2, <2>1, <2>2, ReadReplied
    <2>4. toSrv'[c] = <<>>
      <3>1. toSrv'[c] \in Seq(Packet)
        BY HandlerTypes DEF UseInv, SessionTypes, HandlerStep
      <3> QED
        BY <2>1, <2>3, <3>1, Queues DEF ReadOn
    <2>5. cl[c].cmd = 3 \/ cl[c].cmd = 4
      BY <1>4, <1>6 DEF CommandAt
    <2>6. h'[c].pc = IF cl[c].cmd = 3 THEN "receiver" ELSE "package"
      BY <1>2, <1>3, <1>4, <2>5, Classes
    <2>7. Verified(c, w)'
      BY <1>1, <1>6, <2>3, <2>4, <2>6 DEF Verified, Replied
    <2>8. CommandAt(c, w)' /\ h'[c].kind = ClassOf(cl[c].cmd)'
      BY <1>1, <1>3, <1>4 DEF CommandAt, ClassOf
    <2> QED
      BY <2>7, <2>8 DEF InStep, Stages
  <1> QED
    BY <1>4, <1>5, <1>6 DEF Challenged

\* A message of the client's next command, seen past those the handler has still to read.
LEMMA AheadRead ==
  ASSUME UseInv, NEW c \in Threads, NEW w, Ahead(c, w), NEW in, ReadOn(c, in),
         toCli'[c] = toCli[c], UNCHANGED cl, h'[c].pc \in DOMAIN Left,
         Left[h[c].pc] = Left[h'[c].pc] + 1
  PROVE  Ahead(c, w)'
  <1>1. Len(toSrv[c]) \in Nat /\ Sent[w] \in Nat /\ Left[h[c].pc] \in Nat /\ Left[h'[c].pc] \in Nat
    BY Queues, Counts DEF Ahead, UseInv, SessionTypes
  <1>2. Len(toSrv'[c]) = Left[h'[c].pc] + Sent[w]
    BY <1>1 DEF Ahead, ReadOn
  <1>3. ASSUME Sent[w] > 0
        PROVE  toSrv'[c][Left[h'[c].pc] + 1] = toSrv[c][Left[h[c].pc] + 1]
    <2>1. Left[h'[c].pc] + 1 \in 1 .. Len(toSrv[c]) - 1
      BY <1>1, <1>3 DEF Ahead
    <2>2. toSrv'[c][Left[h'[c].pc] + 1] = toSrv[c][(Left[h'[c].pc] + 1) + 1]
      BY <2>1 DEF ReadOn
    <2> QED
      BY <1>1, <2>2
  <1>4. Quiet(c)'
    BY DEF Ahead, Quiet, CliOpen
  <1> QED
    BY <1>2, <1>3, <1>4 DEF Ahead

\* The receiver and the name of a package.
LEMMA LockPackage ==
  ASSUME UseInv, NEW c \in Threads, NEW w, InStep(c, w), RecvReceiver(c) \/ RecvPackName(c),
         c \notin lost', status' = "running"
  PROVE  Gone(c)' \/ InStep(c, w)'
  <1>1. UNCHANGED cl /\ h[c] \in Handlers
    BY DEF RecvReceiver, RecvPackName, UseInv, SessionTypes
  <1>2. PICK in \in SrvRecv(c) : Received(c, in, <<>>)
    BY DEF RecvReceiver, RecvPackName
  <1>3. /\ h'[c].kind = h[c].kind
        /\ \/ h[c].pc = "receiver" /\ h'[c].pc = "packName"
           \/ h[c].pc = "packName" /\ h'[c].pc = "createPack"
    <2>1. CASE RecvReceiver(c)
      <3>1. PICK r : Goes(c, [h[c] EXCEPT !.pc = "packName", !.arg = r])
        BY <2>1, DiesStops DEF RecvReceiver
      <3>2. h[c].pc = "receiver"
        BY <2>1 DEF RecvReceiver, Reads
      <3> QED
        BY <1>1, <3>1, <3>2 DEF Goes, UseInv, SessionTypes, Handlers
    <2>2. CASE RecvPackName(c)
      <3>1. PICK b \in BOOLEAN : Goes(c, [h[c] EXCEPT !.pc = "createPack", !.blank = b])
        BY <2>2, PackNameRead
      <3>2. h[c].pc = "packName"
        BY <2>2 DEF RecvPackName, Reads
      <3> QED
        BY <1>1, <3>1, <3>2 DEF Goes, UseInv, SessionTypes, Handlers
    <2> QED
      BY <2>1, <2>2
  <1>4. SUFFICES ASSUME ReadOn(c, in), toCli'[c] = toCli[c] PROVE InStep(c, w)'
    BY <1>1, <1>2, ReadSilent
  <1>5. CommandAt(c, w)' /\ ClassOf(cl[c].cmd)' = ClassOf(cl[c].cmd) /\ CommandAt(c, w)
    BY <1>1 DEF InStep, CommandAt, ClassOf
  <1>6. CASE Ahead(c, w)
    <2>1. h'[c].pc \in DOMAIN Left /\ Left[h[c].pc] = Left[h'[c].pc] + 1
      BY <1>3, Counts
    <2>2. Ahead(c, w)'
      BY <1>1, <1>4, <1>6, <2>1, AheadRead
    <2> QED
      BY <1>5, <2>2 DEF InStep
  <1>7. CASE ~Ahead(c, w)
    <2>1. toSrv[c] # <<>> /\ Len(toSrv[c]) \in Nat /\ (Len(toSrv[c]) = 0 <=> toSrv[c] = <<>>)
      BY <1>4, Queues DEF ReadOn, UseInv, SessionTypes
    <2>2. Packing(c, w) /\ h[c].kind = ClassOf(cl[c].cmd)
      BY <1>3, <1>7, <2>1, Counts DEF InStep, Stages, Registering, KeySent, Asking, Challenged,
                                      Verified, Collecting
    <2>3. h[c].pc = "receiver" /\ w = "packName" /\ Len(toSrv[c]) = 1 /\ Quiet(c)
      BY <1>3, <2>1, <2>2 DEF Packing
    <2>4. Packing(c, w)'
      BY <1>1, <1>3, <1>4, <2>3 DEF Packing, ReadOn, Quiet, CliOpen
    <2> QED
      BY <1>3, <1>5, <2>2, <2>4 DEF InStep, Stages
  <1> QED
    BY <1>6, <1>7

\* The package code.
LEMMA LockCode ==
  ASSUME UseInv, NEW c \in Threads, NEW w, InStep(c, w), RecvPackage(c), c \notin lost',
         h'[c].pc # "ended"
  PROVE  Gone(c)' \/ InStep(c, w)'
  <1>1. h[c].pc = "package" /\ UNCHANGED cl /\ h[c] \in Handlers
    BY DEF RecvPackage, Reads, UseInv, SessionTypes
  <1>0. PICK in \in SrvRecv(c), x \in {SIGNAL_VERIFYED, SIGNAL_UNVERIFYED} : \E i :
          /\ Received(c, in, <<Signal(x)>>)
          /\ \/ Goes(c, [h[c] EXCEPT !.pc = "take", !.arg = i])
             \/ Goes(c, [h[c] EXCEPT !.pc = "ended"])
    BY DEF RecvPackage
  <1>2. PICK i :
          /\ Received(c, in, <<Signal(x)>>)
          /\ \/ Goes(c, [h[c] EXCEPT !.pc = "take", !.arg = i])
             \/ Goes(c, [h[c] EXCEPT !.pc = "ended"])
    BY <1>0
  <1>3. h'[c].pc = "take" /\ h'[c].kind = h[c].kind
    <2>1. CASE Goes(c, [h[c] EXCEPT !.pc = "take", !.arg = i])
      BY <1>1, <2>1 DEF Goes, UseInv, SessionTypes, Handlers
    <2>2. CASE Goes(c, [h[c] EXCEPT !.pc = "ended"])
      BY <1>1, <2>2 DEF Goes, UseInv, SessionTypes, Handlers
    <2> QED
      BY <1>2, <2>1, <2>2
  <1>4. /\ Verified(c, w) \/ Collecting(c, w)
        /\ CommandAt(c, w) /\ h[c].kind = ClassOf(cl[c].cmd)
    BY <1>1, Counts DEF InStep, Stages, Ahead, Registering, KeySent, Asking, Challenged, Packing
  <1>5. CommandAt(c, w)' /\ h'[c].kind = ClassOf(cl[c].cmd)'
    BY <1>1, <1>3, <1>4 DEF CommandAt, ClassOf
  <1>6. CASE toSrv[c] = <<>>
    <2>1. <<Signal(x)>> \in Seq(Packet)
      BY PacketKinds, OneMessage
    <2> QED
      BY <1>1, <1>2, <1>6, <2>1, ReadsOne DEF UseInv
  <1>7. CASE toSrv[c] # <<>>
    <2>1. w = "waitDone" /\ Len(toSrv[c]) = 1 /\ Quiet(c)
      BY <1>1, <1>4, <1>7 DEF Verified, Collecting
    <2>2. Signal(x) \in Packet
      BY PacketKinds
    <2>3. SUFFICES ASSUME ReadOn(c, in), CliOpen(c)' => toCli'[c] = <<Signal(x)>>
                   PROVE  InStep(c, w)'
      BY <1>1, <1>2, <2>1, <2>2, ReadReplied
    <2>4. toSrv'[c] = <<>>
      <3>1. toSrv'[c] \in Seq(Packet)
        BY HandlerTypes DEF UseInv, SessionTypes, HandlerStep
      <3> QED
        BY <2>1, <2>3, <3>1, Queues DEF ReadOn
    <2>5. Collecting(c, w)'
      BY <1>3, <2>1, <2>3, <2>4 DEF Collecting, Replied
    <2> QED
      BY <1>5, <2>5 DEF InStep, Stages
  <1> QED
    BY <1>6, <1>7

\* What the handler does between its messages, with a package or with the codes of a take.
LEMMA LockSilent ==
  ASSUME UseInv, NEW c \in Threads, NEW w, InStep(c, w),
         CallCreatePackage(c) \/ PrintPackage(c) \/ CallTake(c) \/ PrintTaken(c)
  PROVE  InStep(c, w)'
  <1>1. UNCHANGED <<toSrv, toCli, cl>> /\ h[c] \in Handlers
    BY DEF CallCreatePackage, PrintPackage, CallTake, PrintTaken, UseInv, SessionTypes
  <1>2. /\ h'[c].kind = h[c].kind
        /\ <<h[c].pc, h'[c].pc>> \in {<<"createPack", "packing">>, <<"packing", "cmd">>,
                                      <<"take", "taking">>, <<"taking", "cmd">>}
    BY <1>1 DEF CallCreatePackage, PrintPackage, CallTake, PrintTaken, Reads, Goes, UseInv,
                SessionTypes, Handlers
  <1>3. CommandAt(c, w)' /\ ClassOf(cl[c].cmd)' = ClassOf(cl[c].cmd) /\ Quiet(c)' = Quiet(c)
        /\ Replied(c)' = Replied(c)
    BY <1>1 DEF InStep, CommandAt, ClassOf, Quiet, Replied, CliOpen
  <1>4. /\ h[c].pc \in {"createPack", "packing", "take", "taking"}
        /\ h'[c].pc \in {"packing", "cmd", "taking"}
        /\ h[c].pc \in {"take", "taking"} => h'[c].pc \in {"taking", "cmd"}
    BY <1>2
  <1>5. CASE Ahead(c, w)
    <2>1. h'[c].pc \in DOMAIN Left /\ Left[h'[c].pc] = 0 /\ Left[h[c].pc] = 0
      BY <1>4, Counts
    <2>2. Ahead(c, w)'
      BY <1>1, <1>3, <1>5, <2>1 DEF Ahead
    <2> QED
      BY <1>3, <2>2 DEF InStep
  <1>6. CASE ~Ahead(c, w)
    <2>1. Collecting(c, w) /\ h[c].kind = ClassOf(cl[c].cmd)
      BY <1>4, <1>6, Counts DEF InStep, Stages, Registering, KeySent, Asking, Challenged, Verified,
                                Packing
    <2>2. Collecting(c, w)'
      BY <1>1, <1>3, <1>4, <2>1 DEF Collecting
    <2> QED
      BY <1>2, <1>3, <2>1, <2>2 DEF InStep, Stages
  <1> QED
    BY <1>5, <1>6

LEMMA LockHandler ==
  ASSUME UseInv, Kept, NEW c \in Threads, NEW w, InStep(c, w), HandlerStep(c), c \notin lost',
         status' = "running", h'[c].pc # "ended"
  PROVE  Gone(c)' \/ InStep(c, w)'
  <1>1. CASE InDatabase(c)
    BY <1>1, StageFrame DEF InDatabase, netVars, CliOpen
  <1> QED
    BY <1>1, LockCommand, LockField, LockCreate, LockIdx, LockAnswer, LockPackage, LockCode,
       LockSilent DEF HandlerStep

\* Once the client has gone and all it sent is read, nothing else arrives.
LEMMA GoneHandler ==
  ASSUME UseInv, NEW c \in Threads, Gone(c), HandlerStep(c)
  PROVE  Gone(c)'
  <1>1. ASSUME NEW in \in SrvRecv(c), NEW r, Received(c, in, r) PROVE toSrv'[c] = <<>>
    <2> DEFINE q == toSrv[c]
               open == cl[c].pc # "ended"
    <2>1. q \in Seq(Packet) /\ open \in BOOLEAN /\ in \in Recv(q, open)
      BY <1>1 DEF UseInv, SessionTypes, SrvRecv, CliOpen
    <2> HIDE DEF q, open
    <2>2. in.rest \in Seq(Packet) /\ \A i \in 1 .. Len(in.rest) : \E j \in 1 .. Len(q) : TRUE
      BY <2>1, RecvRead
    <2>3. Len(q) = 0
      BY DEF Gone, q
    <2>4. Len(in.rest) = 0
      <3>1. Len(in.rest) \in Nat
        BY <2>2, Queues
      <3>2. \A i \in 1 .. Len(in.rest) : FALSE
        BY <2>2, <2>3
      <3>3. Len(in.rest) > 0 => 1 \in 1 .. Len(in.rest)
        BY <3>1
      <3> QED
        BY <3>1, <3>2, <3>3
    <2>5. in.rest = <<>>
      BY <2>2, <2>4, Queues
    <2> QED
      BY <1>1, <2>5 DEF Received, UseInv, SessionTypes
  <1>2. toSrv'[c] = <<>>
    <2>1. CASE UNCHANGED toSrv
      BY <2>1 DEF Gone
    <2> QED
      BY <1>1, <2>1
         DEF HandlerStep, RecvCommand, RecvField, CallCreate, SendKey, RecvIdx, RecvAnswer,
             RecvReceiver, RecvPackName, CallCreatePackage, PrintPackage, RecvPackage,
             CallTake, PrintTaken, InDatabase, netVars
  <1> QED
    BY <1>2, HandlerLeaves DEF Gone, CliOpen

\* What a client's own state keeps when it goes on.
SameClient(c) ==
  /\ cl'[c].cmd = cl[c].cmd /\ cl'[c].UserSecretKey = cl[c].UserSecretKey
  /\ cl'[c].DeliverySecretKey = cl[c].DeliverySecretKey

\* The client's queue to the handler after it has sent a message.
SentOn(c, msg) ==
  /\ Len(toSrv'[c]) = Len(toSrv[c]) + 1
  /\ \A i \in 1 .. Len(toSrv[c]) : toSrv'[c][i] = toSrv[c][i]
  /\ toSrv'[c][Len(toSrv[c]) + 1] = msg
  /\ toSrv[c] = <<>> => toSrv'[c] = <<msg>>

LEMMA SendsOne ==
  ASSUME UseInv, NEW c \in Threads, SrvOpen(c), NEW msg \in Packet, NEW p,
         Sends(c, msg, [cl[c] EXCEPT !.pc = p])
  PROVE  SentOn(c, msg) /\ cl'[c].pc = p /\ SameClient(c)
  <1>1. toSrv[c] \in Seq(Packet) /\ toSrv'[c] = Append(toSrv[c], msg)
    BY DEF Sends, UseInv, SessionTypes
  <1>2. SentOn(c, msg)
    <2>1. PICK q \in Seq(Packet) : q = toSrv[c]
      BY <1>1
    <2>2. /\ Len(Append(q, msg)) = Len(q) + 1
          /\ \A i \in 1 .. Len(q) : Append(q, msg)[i] = q[i]
          /\ Append(q, msg)[Len(q) + 1] = msg
          /\ q = <<>> => Append(q, msg) = <<msg>>
      BY Queues
    <2> QED
      BY <1>1, <2>1, <2>2 DEF SentOn
  <1>3. cl[c] \in Clients /\ cl \in [Threads -> Clients]
    BY DEF UseInv, SessionTypes
  <1>4. cl' = [cl EXCEPT ![c] = [[cl[c] EXCEPT !.pc = p] EXCEPT !.err = cl[c].err]]
    BY DEF Sends, Err
  <1>5. cl'[c].pc = p /\ SameClient(c)
    BY <1>3, <1>4 DEF SameClient, Clients
  <1> QED
    BY <1>2, <1>5

LEMMA AheadSent ==
  ASSUME UseInv, NEW c \in Threads, NEW w, NEW v, Ahead(c, w), NEW msg, SentOn(c, msg),
         UNCHANGED <<h, toCli>>, cl'[c].cmd = cl[c].cmd, CliOpen(c), v \in DOMAIN Sent,
         Sent[v] = Sent[w] + 1, Sent[w] > 0
  PROVE  Ahead(c, v)'
  <1>1. Len(toSrv[c]) \in Nat /\ Sent[w] \in Nat /\ Left[h[c].pc] \in Nat
    BY Queues, Counts DEF Ahead, UseInv, SessionTypes
  <1>2. Len(toSrv[c]) = Left[h[c].pc] + Sent[w]
    BY DEF Ahead
  <1>3. Len(toSrv'[c]) = Left[h[c].pc] + Sent[v]
    <2>1. Len(toSrv'[c]) = Len(toSrv[c]) + 1
      BY DEF SentOn
    <2> QED
      BY <1>1, <1>2, <2>1
  <1>4. toSrv'[c][Left[h[c].pc] + 1] = toSrv[c][Left[h[c].pc] + 1]
    <2>1. Left[h[c].pc] + 1 \in 1 .. Len(toSrv[c])
      BY <1>1, <1>2
    <2> QED
      BY <2>1 DEF SentOn
  <1>5. Quiet(c)'
    BY DEF Ahead, Quiet
  <1> QED
    BY <1>3, <1>4, <1>5 DEF Ahead

\* The client's moves from a place w to another.
OnTo(c, w) == (cl'[c].pc = w) /\ (w \in ClientPCs \ {"ended"}) /\ InStep(c, w)'

LEMMA LockType ==
  ASSUME UseInv, NEW c \in Threads, SrvOpen(c), NEW w, w = cl[c].pc, InStep(c, w),
         NEW f \in Fields, TypeField(c, f)
  PROVE  SameClient(c) /\ OnTo(c, AfterField[f])
  <1>1. w = f /\ CliOpen(c) /\ UNCHANGED <<h, toCli>>
    BY DEF TypeField, CliOpen, Fields
  <1>2. PICK x \in NameTexts[f] : Sends(c, Text(x), [cl[c] EXCEPT !.pc = AfterField[f]])
    BY DEF TypeField, AfterField
  <1>3. Text(x) \in Packet
    BY PacketKinds, TextAssumption
  <1>4. SentOn(c, Text(x)) /\ cl'[c].pc = AfterField[f] /\ SameClient(c)
    BY <1>2, <1>3, SendsOne
  <1>5. AfterField[f] \in {"phone", "addr", "waitKey"} /\ Sent[AfterField[f]] = Sent[f] + 1
        /\ f \in {"name", "phone", "addr"} /\ Sent[f] > 0 /\ Sent[f] \in Nat
        /\ AfterField[f] \in DOMAIN Sent
    BY Counts DEF AfterField, Fields
  <1>6. CommandAt(c, w)
    BY DEF InStep
  <1>7. CommandAt(c, AfterField[f])' /\ ClassOf(cl[c].cmd)' = ClassOf(cl[c].cmd)
    BY <1>1, <1>4, <1>5, <1>6 DEF CommandAt, SameClient, ClassOf
  <1>8. CASE Ahead(c, w)
    <2>1. Ahead(c, AfterField[f])'
      BY <1>1, <1>4, <1>5, <1>8, AheadSent DEF SameClient
    <2> QED
      BY <1>4, <1>5, <1>7, <2>1 DEF InStep, OnTo, ClientPCs
  <1>9. CASE ~Ahead(c, w)
    <2>1. Registering(c, w) /\ h[c].kind = ClassOf(cl[c].cmd)
      <3>1. Len(toCli[c]) \in Nat /\ (KeySent(c, w) => w = "waitKey")
        BY Queues DEF KeySent, UseInv, SessionTypes
      <3> QED
        BY <1>1, <1>5, <1>9, <3>1, Counts DEF InStep, Stages, Asking, Challenged, Verified, Packing,
                                              Collecting, Registering
    <2>2. Registering(c, AfterField[f])'
      <3>1. Len(toSrv[c]) \in Nat /\ Read[h[c].pc] \in Nat
        BY <2>1, Queues, Counts DEF Registering, UseInv, SessionTypes
      <3>2. Quiet(c)'
        BY <1>1, <2>1 DEF Registering, Quiet
      <3> QED
        BY <1>1, <1>4, <1>5, <2>1, <3>1, <3>2 DEF Registering, SentOn
    <2>3. h'[c].pc # "cmd" => h'[c].kind = ClassOf(cl[c].cmd)'
      BY <1>1, <1>7, <2>1
    <2> QED
      BY <1>4, <1>5, <1>7, <2>2, <2>3 DEF InStep, Stages, OnTo, ClientPCs
  <1> QED
    BY <1>4, <1>8, <1>9

LEMMA LockInput ==
  ASSUME UseInv, NEW c \in Threads, SrvOpen(c), InStep(c, "input"), NEW cmd \in 1 .. 4,
         Input(c, cmd)
  PROVE  /\ OnTo(c, IF cmd <= 2 THEN "name" ELSE "idx")
         /\ cl'[c].UserSecretKey = cl[c].UserSecretKey
         /\ cl'[c].DeliverySecretKey = cl[c].DeliverySecretKey
  <1> DEFINE v == IF cmd <= 2 THEN "name" ELSE "idx"
             msg == Text(Command[cmd])
  <1>1. /\ UNCHANGED <<h, toCli>> /\ cl \in [Threads -> Clients] /\ cl[c] \in Clients
        /\ CliOpen(c)
    BY DEF Input, UseInv, SessionTypes, CliOpen
  <1>2. msg \in Packet
    <2>1. Command[1] = "1" /\ Command[2] = "2" /\ Command[3] = "3" /\ Command[4] = "4"
      BY DEF Command
    <2>2. cmd = 1 \/ cmd = 2 \/ cmd = 3 \/ cmd = 4
      OBVIOUS
    <2>3. Command[cmd] \in Texts \ {""}
      BY <2>1, <2>2 DEF Texts
    <2> QED
      BY <2>3, PacketKinds
  <1>3. SentOn(c, msg)
    <2>1. toSrv[c] \in Seq(Packet) /\ toSrv'[c] = Append(toSrv[c], msg)
      BY DEF Input, Sends, UseInv, SessionTypes
    <2>2. PICK q \in Seq(Packet) : q = toSrv[c]
      BY <2>1
    <2> HIDE DEF msg
    <2>3. /\ Len(Append(q, msg)) = Len(q) + 1
          /\ \A i \in 1 .. Len(q) : Append(q, msg)[i] = q[i]
          /\ Append(q, msg)[Len(q) + 1] = msg
          /\ q = <<>> => Append(q, msg) = <<msg>>
      BY <1>2, Queues
    <2> QED
      BY <2>1, <2>2, <2>3 DEF SentOn
  <1>4. /\ cl'[c].pc = v /\ cl'[c].cmd = cmd
        /\ cl'[c].UserSecretKey = cl[c].UserSecretKey
        /\ cl'[c].DeliverySecretKey = cl[c].DeliverySecretKey
    <2>1. PICK e, n : cl' = [cl EXCEPT ![c] =
                               [[cl[c] EXCEPT !.pc = v, !.cmd = cmd, !.n = n] EXCEPT !.err = e]]
      BY DEF Input, Sends
    <2> QED
      BY <1>1, <2>1 DEF Clients
  <1>5. Ahead(c, "input")
    BY Counts DEF InStep, Stages, Registering, KeySent, Asking, Challenged, Verified, Packing,
                  Collecting
  <1>6. v \in DOMAIN Sent /\ Sent[v] = 1 /\ Sent["input"] = 0 /\ v \in ClientPCs \ {"ended"}
    BY Counts DEF ClientPCs
  <1>7. CommandAt(c, v)'
    <2>1. CASE cmd <= 2
      <3>1. cmd \in {1, 2} /\ v = "name"
        BY <2>1
      <3> QED
        BY <1>4, <3>1 DEF CommandAt
    <2>2. CASE ~(cmd <= 2)
      <3>1. cmd \in {3, 4} /\ v = "idx"
        BY <2>2
      <3> QED
        BY <1>4, <3>1 DEF CommandAt
    <2> QED
      BY <2>1, <2>2
  <1>8. Ahead(c, v)'
    <2>1. Len(toSrv[c]) = Left[h[c].pc] /\ Left[h[c].pc] \in Nat
      BY <1>5, <1>6, Counts DEF Ahead
    <2>2. Len(toSrv'[c]) = Left[h[c].pc] + 1 /\ toSrv'[c][Left[h[c].pc] + 1] = msg
      BY <1>3, <2>1 DEF SentOn
    <2>3. Quiet(c)'
      BY <1>1, <1>5 DEF Ahead, Quiet
    <2>4. h'[c].pc \in DOMAIN Left
      BY <1>1, <1>5 DEF Ahead
    <2> HIDE DEF v
    <2> QED
      BY <1>1, <1>4, <1>6, <2>2, <2>3, <2>4 DEF Ahead
  <1> QED
    BY <1>4, <1>6, <1>7, <1>8 DEF InStep, OnTo

\* The client's recv takes the reply that is under way, and the only one.
LEMMA ReplyTaken ==
  ASSUME UseInv, NEW c \in Threads, SrvOpen(c), CliOpen(c), NEW in \in CliRecv(c), NEW new,
         Takes(c, in, new), c \notin lost'
  PROVE  /\ ~Quiet(c) /\ in.buf = toCli[c][1]
         /\ Replied(c) => Quiet(c)'
         /\ cl' = [cl EXCEPT ![c] = [new EXCEPT !.err = cl[c].err]]
  <1>1. /\ toCli[c] # <<>> /\ in.buf = toCli[c][1] /\ toCli'[c] = Tail(toCli[c])
        /\ cl' = [cl EXCEPT ![c] = [new EXCEPT !.err = cl[c].err]]
    BY TakesOne DEF UseInv
  <1>2. toCli[c] \in Seq(Packet)
    BY DEF UseInv, SessionTypes
  <1>3. ASSUME Len(toCli[c]) = 1 PROVE Tail(toCli[c]) = <<>>
    <2>1. PICK q \in Seq(Packet) : q = toCli[c]
      BY <1>2
    <2>2. Len(Tail(q)) = 0 /\ q # <<>>
      BY <1>1, <1>3, <2>1, Queues
    <2>3. Tail(q) \in Seq(Packet)
      <3> DEFINE P == Packet
      <3>1. q \in Seq(P)
        OBVIOUS
      <3> HIDE DEF P
      <3>2. Tail(q) \in Seq(P)
        BY <2>2, <3>1
      <3> QED
        BY <3>2 DEF P
    <2> QED
      BY <2>1, <2>2, <2>3, Queues
  <1> QED
    BY <1>1, <1>3 DEF Quiet, Replied

LEMMA LockKey ==
  ASSUME UseInv, NEW c \in Threads, SrvOpen(c), KeyClasses(c), InStep(c, "waitKey"), WaitKey(c),
         c \notin lost'
  PROVE  OnTo(c, "input") /\ KeyClasses(c)'
  <1>1. /\ CliOpen(c) /\ UNCHANGED <<dbVars, h, toSrv>> /\ UNCHANGED obj
        /\ cl \in [Threads -> Clients] /\ cl[c] \in Clients
    BY DEF WaitKey, CliOpen, UseInv, SessionTypes, dbVars
  <1> DEFINE KeyOf(buf) == CASE buf.type = "key" -> buf.key
                             [] buf.type = "nothing" -> NoPtr
                             [] OTHER -> "damaged"
  <1>0. PICK in \in CliRecv(c) :
          Takes(c, in, IF cl[c].cmd = 1
                       THEN [cl[c] EXCEPT !.pc = "input", !.UserSecretKey = KeyOf(in.buf)]
                       ELSE [cl[c] EXCEPT !.pc = "input", !.DeliverySecretKey = KeyOf(in.buf)])
    BY DEF WaitKey
  <1>2. PICK k :
          /\ k = CASE in.buf.type = "key" -> in.buf.key
                   [] in.buf.type = "nothing" -> NoPtr
                   [] OTHER -> "damaged"
          /\ Takes(c, in, IF cl[c].cmd = 1
                          THEN [cl[c] EXCEPT !.pc = "input", !.UserSecretKey = k]
                          ELSE [cl[c] EXCEPT !.pc = "input", !.DeliverySecretKey = k])
    BY <1>0
  <1>3. ~Quiet(c) /\ in.buf = toCli[c][1] /\ (Replied(c) => Quiet(c)')
    BY <1>1, <1>2, ReplyTaken
  <1>4. KeySent(c, "waitKey") /\ CommandAt(c, "waitKey")
    BY <1>1, <1>3, Counts DEF InStep, Stages, Ahead, Registering, Asking, Challenged, Verified,
                              Packing, Collecting
  <1>5. PICK s \in Ptr : toCli[c] = <<SecretKey(s)>> /\ obj[s].kind = ClassOf(cl[c].cmd)
    BY <1>1, <1>4 DEF KeySent
  <1>6. k = s /\ Quiet(c)'
    <2>1. in.buf = SecretKey(s) /\ Replied(c)
      BY <1>3, <1>5 DEF Replied
    <2> QED
      BY <1>2, <1>3, <2>1, KeysTypes
  <1>7. cl[c].cmd = 1 \/ cl[c].cmd = 2
    BY <1>4 DEF CommandAt
  <1>8. CASE cl[c].cmd = 1
    <2>1. Takes(c, in, [cl[c] EXCEPT !.pc = "input", !.UserSecretKey = k])
      BY <1>2, <1>8
    <2>2. cl' = [cl EXCEPT ![c] = [[cl[c] EXCEPT !.pc = "input", !.UserSecretKey = k]
                                     EXCEPT !.err = cl[c].err]]
      BY <1>1, <2>1, ReplyTaken
    <2>3. /\ cl'[c].pc = "input" /\ cl'[c].UserSecretKey = k
          /\ cl'[c].DeliverySecretKey = cl[c].DeliverySecretKey
      BY <1>1, <2>2 DEF Clients
    <2>4. KeyClasses(c)'
      BY <1>1, <1>5, <1>6, <1>8, <2>3, Classes DEF KeyClasses
    <2> QED
      BY <1>1, <1>4, <1>6, <2>3, <2>4, Counts DEF OnTo, ClientPCs, InStep, CommandAt, Ahead, KeySent
  <1>9. CASE cl[c].cmd = 2
    <2>1. Takes(c, in, [cl[c] EXCEPT !.pc = "input", !.DeliverySecretKey = k])
      BY <1>2, <1>9
    <2>2. cl' = [cl EXCEPT ![c] = [[cl[c] EXCEPT !.pc = "input", !.DeliverySecretKey = k]
                                     EXCEPT !.err = cl[c].err]]
      BY <1>1, <2>1, ReplyTaken
    <2>3. /\ cl'[c].pc = "input" /\ cl'[c].DeliverySecretKey = k
          /\ cl'[c].UserSecretKey = cl[c].UserSecretKey
      BY <1>1, <2>2 DEF Clients
    <2>4. KeyClasses(c)'
      BY <1>1, <1>5, <1>6, <1>9, <2>3, Classes DEF KeyClasses
    <2> QED
      BY <1>1, <1>4, <1>6, <2>3, <2>4, Counts DEF OnTo, ClientPCs, InStep, CommandAt, Ahead, KeySent
  <1> QED
    BY <1>7, <1>8, <1>9

\* No reply is taken for a refusal: a signed char is never 251.
LEMMA NeverTold == \A buf \in Buffer : ~TellsRefusal(FirstByte(buf))
  <1>1. \A b \in Byte : ~TellsRefusal(b)
    BY DEF Byte, TellsRefusal, SChar, SIGNAL_UNVERIFYED
  <1> QED
    BY <1>1, BufferRead

LEMMA LockIndex ==
  ASSUME UseInv, NEW c \in Threads, SrvOpen(c), InStep(c, "idx"), TypeIdx(c)
  PROVE  SameClient(c) /\ OnTo(c, "waitCipher")
  <1>1. CliOpen(c) /\ UNCHANGED <<h, toCli>>
    BY DEF TypeIdx, CliOpen
  <1>2. PICK x \in IdxTexts : Sends(c, Text(x), [cl[c] EXCEPT !.pc = "waitCipher"])
    BY DEF TypeIdx
  <1>3. Text(x) \in Packet
    BY PacketKinds, TextAssumption
  <1>4. SentOn(c, Text(x)) /\ cl'[c].pc = "waitCipher" /\ SameClient(c)
    BY <1>2, <1>3, SendsOne
  <1>5. CommandAt(c, "waitCipher")' /\ ClassOf(cl[c].cmd)' = ClassOf(cl[c].cmd)
    BY <1>4 DEF InStep, CommandAt, SameClient, ClassOf
  <1>6. "waitCipher" \in ClientPCs \ {"ended"}
    BY DEF ClientPCs
  <1>7. CASE Ahead(c, "idx")
    <2>1. Ahead(c, "waitCipher")'
      BY <1>1, <1>4, <1>7, AheadSent, Counts DEF SameClient
    <2> QED
      BY <1>4, <1>5, <1>6, <2>1 DEF InStep, OnTo
  <1>8. CASE ~Ahead(c, "idx")
    <2>1. Asking(c, "idx") /\ (h[c].pc # "cmd" => h[c].kind = ClassOf(cl[c].cmd))
      BY <1>8 DEF InStep, Stages, Registering, KeySent, Challenged, Verified, Packing, Collecting
    <2>2. Len(toSrv[c]) \in Nat
      BY Queues DEF UseInv, SessionTypes
    <2>3. Asking(c, "waitCipher")'
      BY <1>1, <1>4, <2>1, <2>2, Counts DEF Asking, SentOn, Quiet
    <2> QED
      BY <1>1, <1>4, <1>5, <1>6, <2>1, <2>3 DEF InStep, Stages, OnTo
  <1> QED
    BY <1>4, <1>7, <1>8

LEMMA LockCipher ==
  ASSUME UseInv, NEW c \in Threads, SrvOpen(c), InStep(c, "waitCipher"), WaitCipher(c),
         c \notin lost'
  PROVE  SameClient(c) /\ OnTo(c, "waitSignal")
  <1>1. /\ CliOpen(c) /\ UNCHANGED h /\ cl \in [Threads -> Clients] /\ cl[c] \in Clients
    BY DEF WaitCipher, CliOpen, UseInv, SessionTypes
  <1>2. PICK in \in CliRecv(c) :
          /\ Takes(c, in, [cl[c] EXCEPT !.pc = "waitSignal"])
          /\ toSrv' = [toSrv EXCEPT ![c] =
                         IF SrvOpen(c) THEN Append(@, Plain(Decrypt(in.buf, OwnKey(c)))) ELSE @]
    BY DEF WaitCipher
  <1>3. /\ ~Quiet(c) /\ in.buf = toCli[c][1] /\ (Replied(c) => Quiet(c)')
        /\ cl' = [cl EXCEPT ![c] = [[cl[c] EXCEPT !.pc = "waitSignal"] EXCEPT !.err = cl[c].err]]
    BY <1>1, <1>2, ReplyTaken
  <1>4. cl'[c].pc = "waitSignal" /\ SameClient(c)
    BY <1>1, <1>3 DEF SameClient, Clients
  <1>5. Challenged(c, "waitCipher") /\ (h[c].pc # "cmd" => h[c].kind = ClassOf(cl[c].cmd))
    BY <1>3 DEF InStep, Stages, Ahead, Registering, KeySent, Asking, Verified, Packing, Collecting
  <1>6. h[c].pc = "answer" /\ toSrv[c] = <<>> /\ toCli[c] = <<Challenge(c)>>
    BY <1>1, <1>5 DEF Challenged
  <1>7. in.buf = Challenge(c) /\ Quiet(c)'
    BY <1>3, <1>6 DEF Replied
  <1>8. toSrv'[c] = <<Plain(Decrypt(Challenge(c), OwnKey(c)))>>
    <2>1. toSrv'[c] = Append(<<>>, Plain(Decrypt(Challenge(c), OwnKey(c))))
      BY <1>2, <1>6, <1>7 DEF UseInv, SessionTypes
    <2> QED
      BY <2>1
  <1>9. OwnKey(c)' = OwnKey(c) /\ Challenge(c)' = Challenge(c)
    BY <1>1, <1>4 DEF OwnKey, Challenge, SameClient
  <1>10. Challenged(c, "waitSignal")'
    BY <1>1, <1>6, <1>7, <1>8, <1>9 DEF Challenged
  <1>11. CommandAt(c, "waitSignal")' /\ ClassOf(cl[c].cmd)' = ClassOf(cl[c].cmd)
    BY <1>4 DEF InStep, CommandAt, SameClient, ClassOf
  <1>12. "waitSignal" \in ClientPCs \ {"ended"}
    BY DEF ClientPCs
  <1> QED
    BY <1>1, <1>4, <1>5, <1>10, <1>11, <1>12 DEF InStep, Stages, OnTo

\* A verdict, of the verification or of the package code.
LEMMA VerdictTaken ==
  ASSUME UseInv, NEW c \in Threads, SrvOpen(c), CliOpen(c), NEW in \in CliRecv(c), NEW p, NEW q,
         Takes(c, in, [cl[c] EXCEPT !.told = FirstByte(in.buf),
                                    !.pc = IF TellsRefusal(FirstByte(in.buf)) THEN p ELSE q]),
         c \notin lost'
  PROVE  ~Quiet(c) /\ (Replied(c) => Quiet(c)') /\ cl'[c].pc = q /\ SameClient(c)
  <1>1. cl \in [Threads -> Clients] /\ cl[c] \in Clients
    BY DEF UseInv, SessionTypes
  <1>2. in.buf \in Buffer
    BY RecvRead DEF UseInv, SessionTypes, CliRecv, SrvOpen
  <1>3. ~TellsRefusal(FirstByte(in.buf))
    BY <1>2, NeverTold
  <1>4. PICK b : b = FirstByte(in.buf)
    OBVIOUS
  <1>5. Takes(c, in, [cl[c] EXCEPT !.told = b, !.pc = q])
    BY <1>3, <1>4
  <1>6. /\ ~Quiet(c) /\ (Replied(c) => Quiet(c)')
        /\ cl' = [cl EXCEPT ![c] = [[cl[c] EXCEPT !.told = b, !.pc = q] EXCEPT !.err = cl[c].err]]
    BY <1>5, ReplyTaken
  <1>7. cl'[c].pc = q /\ SameClient(c)
    BY <1>1, <1>6 DEF SameClient, Clients
  <1> QED
    BY <1>6, <1>7

LEMMA LockSignal ==
  ASSUME UseInv, NEW c \in Threads, SrvOpen(c), InStep(c, "waitSignal"), WaitSignal(c),
         c \notin lost'
  PROVE  SameClient(c) /\ \E v \in {"receiver", "code"} : OnTo(c, v)
  <1>1. CliOpen(c) /\ UNCHANGED <<h, toSrv>>
    BY DEF WaitSignal, CliOpen
  <1>2. PICK in \in CliRecv(c), v \in {"receiver", "code"} :
          /\ v = IF cl[c].cmd = 3 THEN "receiver" ELSE "code"
          /\ Takes(c, in, [cl[c] EXCEPT !.told = FirstByte(in.buf),
                                        !.pc = IF TellsRefusal(FirstByte(in.buf)) THEN "ended"
                                                                                   ELSE v])
    BY DEF WaitSignal
  <1>3. ~Quiet(c) /\ (Replied(c) => Quiet(c)') /\ cl'[c].pc = v /\ SameClient(c)
    BY <1>1, <1>2, VerdictTaken, ZenonT(60)
  <1>4. Verified(c, "waitSignal") /\ (h[c].pc # "cmd" => h[c].kind = ClassOf(cl[c].cmd))
    BY <1>1, <1>3, Counts DEF InStep, Stages, Ahead, Registering, KeySent, Asking, Challenged,
                              Packing, Collecting
  <1>5. cl[c].cmd \in {3, 4}
    BY DEF InStep, CommandAt
  <1>6. CommandAt(c, v)' /\ ClassOf(cl[c].cmd)' = ClassOf(cl[c].cmd)
    BY <1>2, <1>3, <1>5 DEF CommandAt, SameClient, ClassOf
  <1>7. v \in ClientPCs \ {"ended"}
    BY <1>2 DEF ClientPCs
  <1>8. Quiet(c)' /\ toSrv'[c] = <<>> /\ Len(toSrv'[c]) = 0
    BY <1>1, <1>3, <1>4 DEF Verified
  <1>9. Packing(c, v)' \/ Collecting(c, v)'
    BY <1>1, <1>2, <1>4, <1>8 DEF Verified, Packing, Collecting
  <1> QED
    <2>1. OnTo(c, v)
      BY <1>1, <1>3, <1>4, <1>6, <1>7, <1>9 DEF InStep, Stages, OnTo
    <2>2. v \in {"receiver", "code"}
      BY <1>2
    <2> QED
      BY <1>3, <2>1, <2>2

LEMMA LockReceiver ==
  ASSUME UseInv, NEW c \in Threads, SrvOpen(c), InStep(c, "receiver"), TypeReceiver(c)
  PROVE  SameClient(c) /\ OnTo(c, "packName")
  <1>1. CliOpen(c) /\ UNCHANGED <<h, toCli>>
    BY DEF TypeReceiver, CliOpen
  <1>2. PICK x \in IdxTexts : Sends(c, Text(x), [cl[c] EXCEPT !.pc = "packName"])
    BY DEF TypeReceiver
  <1>3. Text(x) \in Packet
    BY PacketKinds, TextAssumption
  <1>4. SentOn(c, Text(x)) /\ cl'[c].pc = "packName" /\ SameClient(c)
    BY <1>2, <1>3, SendsOne
  <1>5. Packing(c, "receiver") /\ (h[c].pc # "cmd" => h[c].kind = ClassOf(cl[c].cmd))
    BY Counts DEF InStep, Stages, Ahead, Registering, KeySent, Asking, Challenged, Verified,
                  Collecting
  <1>6. h[c].pc = "receiver" /\ Len(toSrv[c]) = 0 /\ Quiet(c)
    BY <1>5 DEF Packing
  <1>7. Packing(c, "packName")'
    BY <1>1, <1>4, <1>6 DEF Packing, SentOn, Quiet
  <1>8. CommandAt(c, "packName")' /\ ClassOf(cl[c].cmd)' = ClassOf(cl[c].cmd)
    BY <1>4 DEF InStep, CommandAt, SameClient, ClassOf
  <1>9. "packName" \in ClientPCs \ {"ended"}
    BY DEF ClientPCs
  <1> QED
    BY <1>1, <1>4, <1>5, <1>7, <1>8, <1>9 DEF InStep, Stages, OnTo

LEMMA LockPackName ==
  ASSUME UseInv, NEW c \in Threads, SrvOpen(c), InStep(c, "packName"), TypePackName(c)
  PROVE  SameClient(c) /\ OnTo(c, "input")
  <1>1. CliOpen(c) /\ UNCHANGED <<h, toCli>>
    BY DEF TypePackName, CliOpen
  <1>2. PICK x \in NameTexts["packName"] : Sends(c, Text(x), [cl[c] EXCEPT !.pc = "input"])
    BY DEF TypePackName
  <1>3. Text(x) \in Packet
    BY PacketKinds, TextAssumption
  <1>4. SentOn(c, Text(x)) /\ cl'[c].pc = "input" /\ SameClient(c)
    BY <1>2, <1>3, SendsOne
  <1>5. Packing(c, "packName")
    BY Counts DEF InStep, Stages, Ahead, Registering, KeySent, Asking, Challenged, Verified,
                  Collecting
  <1>6. Len(toSrv'[c]) = Left[h[c].pc] /\ h[c].pc \in DOMAIN Left /\ Quiet(c)
    <2>1. \/ h[c].pc = "receiver" /\ Len(toSrv[c]) = 1
          \/ h[c].pc = "packName" /\ Len(toSrv[c]) = 0
      BY <1>5 DEF Packing
    <2>2. Len(toSrv'[c]) = Len(toSrv[c]) + 1 /\ Quiet(c)
      BY <1>4, <1>5 DEF SentOn, Packing
    <2>3. CASE h[c].pc = "receiver" /\ Len(toSrv[c]) = 1
      BY <2>2, <2>3, Counts
    <2>4. CASE h[c].pc = "packName" /\ Len(toSrv[c]) = 0
      BY <2>2, <2>4, Counts
    <2> QED
      BY <2>1, <2>3, <2>4
  <1>7. Ahead(c, "input")'
    BY <1>1, <1>6, Counts DEF Ahead, Quiet
  <1>8. CommandAt(c, "input")' /\ "input" \in ClientPCs \ {"ended"}
    BY DEF CommandAt, ClientPCs
  <1> QED
    BY <1>4, <1>7, <1>8 DEF InStep, OnTo

LEMMA LockTyped ==
  ASSUME UseInv, NEW c \in Threads, SrvOpen(c), InStep(c, "code"), TypeCode(c)
  PROVE  SameClient(c) /\ OnTo(c, "waitDone")
  <1>1. CliOpen(c) /\ UNCHANGED <<h, toCli>>
    BY DEF TypeCode, CliOpen
  <1>2. PICK m \in Message : Sends(c, Plain(m), [cl[c] EXCEPT !.pc = "waitDone"])
    BY CodeDecrypts DEF TypeCode, UseInv
  <1>3. Plain(m) \in Packet
    BY PacketKinds
  <1>4. SentOn(c, Plain(m)) /\ cl'[c].pc = "waitDone" /\ SameClient(c)
    BY <1>2, <1>3, SendsOne
  <1>5. Collecting(c, "code") /\ (h[c].pc # "cmd" => h[c].kind = ClassOf(cl[c].cmd))
    BY Counts DEF InStep, Stages, Ahead, Registering, KeySent, Asking, Challenged, Verified,
                  Packing
  <1>6. h[c].pc = "package" /\ toSrv[c] = <<>> /\ Len(toSrv[c]) = 0 /\ Quiet(c)
    BY <1>5 DEF Collecting
  <1>7. Collecting(c, "waitDone")'
    BY <1>1, <1>4, <1>6 DEF Collecting, SentOn, Quiet
  <1>8. CommandAt(c, "waitDone")' /\ ClassOf(cl[c].cmd)' = ClassOf(cl[c].cmd)
    BY <1>4 DEF InStep, CommandAt, SameClient, ClassOf
  <1>9. "waitDone" \in ClientPCs \ {"ended"}
    BY DEF ClientPCs
  <1> QED
    BY <1>1, <1>4, <1>5, <1>7, <1>8, <1>9 DEF InStep, Stages, OnTo

LEMMA LockDone ==
  ASSUME UseInv, NEW c \in Threads, SrvOpen(c), InStep(c, "waitDone"), WaitDone(c),
         c \notin lost'
  PROVE  SameClient(c) /\ OnTo(c, "input")
  <1>1. CliOpen(c) /\ UNCHANGED <<h, toSrv>>
    BY DEF WaitDone, CliOpen
  <1>2. PICK in \in CliRecv(c) :
          Takes(c, in, [cl[c] EXCEPT !.told = FirstByte(in.buf),
                                     !.pc = IF TellsRefusal(FirstByte(in.buf)) THEN "ended"
                                                                               ELSE "input"])
    BY DEF WaitDone
  <1>3. ~Quiet(c) /\ (Replied(c) => Quiet(c)') /\ cl'[c].pc = "input" /\ SameClient(c)
    BY <1>1, <1>2, VerdictTaken
  <1>4. Collecting(c, "waitDone")
    BY <1>1, <1>3, Counts DEF InStep, Stages, Ahead, Registering, KeySent, Asking, Challenged,
                              Verified, Packing
  <1>5. h[c].pc \in {"take", "taking", "cmd"} /\ toSrv[c] = <<>> /\ Replied(c)
    BY <1>3, <1>4 DEF Collecting
  <1>6. Ahead(c, "input")'
    BY <1>1, <1>3, <1>5, Counts DEF Ahead
  <1>7. CommandAt(c, "input")' /\ "input" \in ClientPCs \ {"ended"}
    BY DEF CommandAt, ClientPCs
  <1> QED
    BY <1>3, <1>6, <1>7 DEF InStep, OnTo

LEMMA LockClose ==
  ASSUME UseInv, Kept, NEW c \in Threads, NEW w, InStep(c, w), Close(c)
  PROVE  ~CliOpen(c)' /\ SameClient(c) /\ InStep(c, w)'
  <1>1. UNCHANGED <<h, toSrv>> /\ cl \in [Threads -> Clients] /\ cl[c] \in Clients
    BY DEF Close, UseInv, SessionTypes
  <1>2. cl' = [cl EXCEPT ![c].pc = "ended"]
    BY DEF Close
  <1>3. cl'[c].pc = "ended" /\ SameClient(c)
    BY <1>1, <1>2 DEF SameClient, Clients
  <1>4. ~CliOpen(c)'
    BY <1>3 DEF CliOpen
  <1> QED
    BY <1>1, <1>3, <1>4, StageFrame DEF SameClient

\* A step of the client, whatever it was doing.
LEMMA LockClient ==
  ASSUME UseInv, Kept, NEW c \in Threads, ClientMove(c), ClosedOf(c), SrvOpen(c), KeyClasses(c),
         NEW w \in ClientPCs \ {"ended"}, w = cl[c].pc, InStep(c, w), c \notin lost'
  PROVE  /\ KeyClasses(c)'
         /\ \E v \in ClientPCs \ {"ended"} : (CliOpen(c)' => cl'[c].pc = v) /\ InStep(c, v)'
  <1>1. UNCHANGED obj
    BY ClientLeaves DEF dbVars
  <1>2. ASSUME cl'[c].UserSecretKey = cl[c].UserSecretKey,
               cl'[c].DeliverySecretKey = cl[c].DeliverySecretKey
        PROVE  KeyClasses(c)'
    BY <1>1, <1>2 DEF KeyClasses
  <1>3. ASSUME NEW v, SameClient(c), OnTo(c, v)
        PROVE  /\ KeyClasses(c)'
               /\ \E v1 \in ClientPCs \ {"ended"} : (CliOpen(c)' => cl'[c].pc = v1) /\ InStep(c, v1)'
    BY <1>2, <1>3 DEF SameClient, OnTo
  <1>4. ASSUME NEW f \in Fields, TypeField(c, f) PROVE SameClient(c) /\ OnTo(c, AfterField[f])
    BY <1>4, LockType
  <1>5. ASSUME TypeIdx(c) \/ WaitCipher(c) \/ WaitSignal(c) \/ TypeReceiver(c) \/ TypePackName(c)
                 \/ TypeCode(c) \/ WaitDone(c)
        PROVE  SameClient(c) /\ \E v : OnTo(c, v)
    <2>1. CASE TypeIdx(c)
      <3>1. w = "idx"
        BY <2>1 DEF TypeIdx
      <3> QED
        BY <2>1, <3>1, LockIndex
    <2>2. CASE WaitCipher(c)
      <3>1. w = "waitCipher"
        BY <2>2 DEF WaitCipher
      <3> QED
        BY <2>2, <3>1, LockCipher
    <2>3. CASE WaitSignal(c)
      <3>1. w = "waitSignal"
        BY <2>3 DEF WaitSignal
      <3> QED
        BY <2>3, <3>1, LockSignal
    <2>4. CASE TypeReceiver(c)
      <3>1. w = "receiver"
        BY <2>4 DEF TypeReceiver
      <3> QED
        BY <2>4, <3>1, LockReceiver
    <2>5. CASE TypePackName(c)
      <3>1. w = "packName"
        BY <2>5 DEF TypePackName
      <3> QED
        BY <2>5, <3>1, LockPackName
    <2>6. CASE TypeCode(c)
      <3>1. w = "code"
        BY <2>6 DEF TypeCode
      <3> QED
        BY <2>6, <3>1, LockTyped
    <2>7. CASE WaitDone(c)
      <3>1. w = "waitDone"
        BY <2>7 DEF WaitDone
      <3> QED
        BY <2>7, <3>1, LockDone
    <2> QED
      BY <1>5, <2>1, <2>2, <2>3, <2>4, <2>5, <2>6, <2>7
  <1>6. CASE WaitKey(c)
    <2>1. w = "waitKey"
      BY <1>6 DEF WaitKey
    <2> QED
      BY <1>6, <2>1, LockKey DEF OnTo
  <1>7. ~Terminate(c)
    BY DEF Terminate, ClosedOf
  <1>8. CASE Close(c)
    BY <1>2, <1>8, LockClose DEF SameClient
  <1>9. ASSUME NEW cmd \in 1 .. 4, Input(c, cmd)
        PROVE  /\ KeyClasses(c)'
               /\ \E v \in ClientPCs \ {"ended"} : (CliOpen(c)' => cl'[c].pc = v) /\ InStep(c, v)'
    <2>1. w = "input"
      BY <1>9 DEF Input
    <2>2. PICK v : v = IF cmd <= 2 THEN "name" ELSE "idx"
      OBVIOUS
    <2>3. /\ OnTo(c, v) /\ cl'[c].UserSecretKey = cl[c].UserSecretKey
          /\ cl'[c].DeliverySecretKey = cl[c].DeliverySecretKey
      BY <1>9, <2>1, <2>2, LockInput
    <2> QED
      BY <1>2, <2>3 DEF OnTo
  <1> QED
    BY <1>3, <1>4, <1>5, <1>6, <1>7, <1>8, <1>9 DEF ClientMove, ClientStep

LEMMA LockstepStep ==
  ASSUME UseInv, Kept, ClosedInv, Lockstep, [SessionNext]_vars
  PROVE  Lockstep'
  <1> SUFFICES ASSUME NEW c \in Threads, Aligned(c)'
               PROVE  /\ KeyClasses(c)'
                      /\ \/ Gone(c)'
                         \/ \E v \in ClientPCs \ {"ended"} :
                              (CliOpen(c)' => cl'[c].pc = v) /\ InStep(c, v)'
    BY DEF Lockstep, LockstepOf, CliOpen
  <1>1. Aligned(c) /\ (~CliOpen(c) => ~CliOpen(c)') /\ ClosedOf(c)
    BY ClosedStep DEF ClosedInv
  <1>2. KeyClasses(c) /\ SrvOpen(c)
    BY <1>1 DEF Lockstep, LockstepOf, SrvOpen, Aligned
  <1>3. c \notin lost' /\ c \notin disturbed' /\ status' = "running" /\ h'[c].pc # "ended"
    BY DEF Aligned
  <1>4. ASSUME SameClient(c) PROVE KeyClasses(c)'
    BY <1>2, <1>4 DEF SameClient, KeyClasses, Kept
  <1>5. cl[c] \in Clients /\ h \in [Threads -> Handlers]
    BY DEF UseInv, SessionTypes
  <1>6. CASE HandlerStep(c)
    <2>1. UNCHANGED cl
      BY <1>6, HandlerLeaves
    <2>2. CASE Gone(c)
      BY <1>4, <1>6, <2>1, <2>2, GoneHandler DEF SameClient
    <2>3. ASSUME NEW w \in ClientPCs \ {"ended"}, CliOpen(c) => cl[c].pc = w, InStep(c, w)
          PROVE  Gone(c)' \/ (InStep(c, w)' /\ (CliOpen(c)' => cl'[c].pc = w))
      BY <1>3, <1>6, <2>1, <2>3, LockHandler DEF CliOpen
    <2>4. KeyClasses(c)'
      BY <1>4, <2>1 DEF SameClient
    <2> QED
      BY <1>1, <2>2, <2>3, <2>4 DEF Lockstep, LockstepOf
  <1>7. CASE ClientMove(c)
    <2>1. CliOpen(c)
      BY <1>7, <1>2, <1>1 DEF ClientMove, ClientStep, TypeField, WaitKey, TypeIdx, WaitCipher, WaitSignal,
         TypeReceiver, TypePackName, TypeCode, WaitDone, Terminate, Input, Close, CliOpen, Fields
    <2>2. PICK w \in ClientPCs \ {"ended"} : w = cl[c].pc /\ InStep(c, w)
      BY <1>1, <2>1 DEF Lockstep, LockstepOf, Gone
    <2> QED
      BY <1>1, <1>2, <1>3, <1>7, <2>2, LockClient
  <1>8. CASE /\ h'[c] = h[c] /\ toSrv'[c] = toSrv[c] /\ cl'[c] = cl[c]
             /\ CliOpen(c)' => CliOpen(c) /\ toCli'[c] = toCli[c]
    <2>1. SameClient(c)
      BY <1>8 DEF SameClient
    <2>2. Gone(c) => Gone(c)'
      BY <1>8 DEF Gone, CliOpen
    <2>3. ASSUME NEW w, InStep(c, w), CliOpen(c) => cl[c].pc = w
          PROVE  InStep(c, w)' /\ (CliOpen(c)' => cl'[c].pc = w)
      BY <1>8, <2>1, <2>3, StageFrame DEF SameClient
    <2> QED
      BY <1>1, <1>4, <2>1, <2>2, <2>3 DEF Lockstep, LockstepOf
  <1>9. CASE Broadcast
    BY <1>2, <1>3, <1>8, <1>9 DEF Broadcast, CliOpen
  <1>10. CASE Untouched(c)
    BY <1>8, <1>10 DEF Untouched, CliOpen
  <1> QED
    BY <1>6, <1>7, <1>9, <1>10, StepAt

LEMMA LockstepAlways == SessionSpec => []Lockstep
  <1>1. SessionInit => Lockstep
    <2> SUFFICES ASSUME SessionInit, NEW c \in Threads PROVE LockstepOf(c)
      BY DEF Lockstep
    <2>1. /\ h[c] = Handler0 /\ cl[c] = Client0 /\ toSrv[c] = <<>> /\ toCli[c] = <<>>
      BY DEF SessionInit
    <2>2. /\ h[c].pc = "cmd" /\ cl[c].pc = "input" /\ cl[c].cmd = 0
          /\ cl[c].UserSecretKey = NoPtr /\ cl[c].DeliverySecretKey = NoPtr
      BY <2>1 DEF Handler0, Client0
    <2>3. KeyClasses(c)
      BY <2>2, PtrAssumption DEF KeyClasses
    <2>4. InStep(c, "input")
      BY <2>1, <2>2, Counts DEF InStep, CommandAt, Ahead, Quiet
    <2>5. "input" \in ClientPCs \ {"ended"}
      BY DEF ClientPCs
    <2> QED
      BY <2>2, <2>3, <2>4, <2>5 DEF LockstepOf
  <1>2. UseInv /\ ClosedInv /\ Lockstep /\ [SessionNext]_vars => Lockstep'
    BY UseStep, LockstepStep
  <1> QED
    BY <1>1, <1>2, UseAlways, ClosedAlways, PTL DEF SessionSpec

\* Handler and client never wait for each other, as long as no recv merges two messages and
\* no console line comes between.
THEOREM WaitsExplained == SessionSpec => []StuckOnlyIfDisturbed
  <1>1. ASSUME UseInv, Lockstep, NEW c \in Threads, Stuck(c)
        PROVE  c \in lost \cup disturbed
    <2> SUFFICES ASSUME c \notin lost \cup disturbed PROVE FALSE
      OBVIOUS
    <2>1. Aligned(c) /\ CliOpen(c) /\ cl[c].pc \in Waiting
      BY <1>1 DEF Stuck, Aligned, CliOpen, Waiting
    <2>2. PICK w \in ClientPCs \ {"ended"} : w = cl[c].pc /\ InStep(c, w)
      BY <1>1, <2>1 DEF Lockstep, LockstepOf, Gone
    <2>3. /\ toSrv[c] = <<>> /\ toCli[c] = <<>> /\ ~Replied(c) /\ Len(toSrv[c]) = 0
          /\ w \in {"waitKey", "waitCipher", "waitSignal", "waitDone"}
          /\ h[c].pc \notin {"create", "creating", "take", "taking"}
      BY <1>1, <2>1, <2>2 DEF Stuck, Replied, Waiting
    <2>4. ~Ahead(c, w)
      <3>1. CASE w = "waitKey" \/ w = "waitCipher"
        <4>1. Sent[w] > 0 /\ Sent[w] \in Nat
          BY <3>1, Counts
        <4>2. h[c].pc \in DOMAIN Left => Left[h[c].pc] \in Nat
          BY Counts
        <4> QED
          BY <2>3, <4>1, <4>2 DEF Ahead
      <3>2. CASE w = "waitSignal" \/ w = "waitDone"
        BY <3>2, Counts DEF Ahead
      <3> QED
        BY <2>3, <3>1, <3>2
    <2>5. ~Registering(c, w)
      BY <2>3, Counts DEF Registering
    <2>6. ~Asking(c, w)
      BY <2>3, Counts DEF Asking
    <2>7. ~KeySent(c, w) /\ ~Challenged(c, w) /\ ~Verified(c, w)
      BY <2>1, <2>3 DEF KeySent, Challenged, Verified
    <2>8. ~Packing(c, w) /\ ~Collecting(c, w)
      BY <2>3 DEF Packing, Collecting
    <2> QED
      BY <2>2, <2>4, <2>5, <2>6, <2>7, <2>8 DEF InStep, Stages
  <1>2. UseInv /\ Lockstep => StuckOnlyIfDisturbed
    BY <1>1 DEF StuckOnlyIfDisturbed
  <1> QED
    BY <1>2, UseAlways, LockstepAlways, PTL

----------------------------------------------------------------------------
(* What a verification proves.                                              *)

Past == {"receiver", "packName", "createPack", "packing", "package", "take", "taking"}

\* The answer that an undisturbed handler reads is the client's, to its challenge.
LEMMA AnswerRead ==
  ASSUME UseInv, Lockstep, NEW c \in Threads, Aligned(c), h[c].pc = "answer",
         NEW in \in SrvRecv(c)
  PROVE  \/ in.buf = Nothing /\ ~CliOpen(c)
         \/ in.buf = Plain(Decrypt(Challenge(c), OwnKey(c))) /\ h[c].kind = ClassOf(cl[c].cmd)
              /\ cl[c].cmd \in {3, 4}
  <1>1. toSrv[c] \in Seq(Packet) /\ SessionTypes
    BY DEF UseInv, SessionTypes
  <1>2. \/ in.buf = Nothing /\ ~CliOpen(c)
        \/ toSrv[c] # <<>> /\ in.buf = toSrv[c][1]
    <2> DEFINE q == toSrv[c]
               open == cl[c].pc # "ended"
    <2>1. q \in Seq(Packet) /\ open \in BOOLEAN /\ in \in Recv(q, open)
      BY <1>1 DEF SrvRecv, CliOpen
    <2> HIDE DEF q, open
    <2>2. /\ in.buf = Nothing => ~open
          /\ in.buf # Nothing => q # <<>> /\ in.buf = q[1]
      BY <2>1, RecvRead
    <2> QED
      BY <2>2 DEF q, open, CliOpen
  <1>3. SUFFICES ASSUME toSrv[c] # <<>>, in.buf = toSrv[c][1]
                 PROVE  /\ in.buf = Plain(Decrypt(Challenge(c), OwnKey(c)))
                        /\ h[c].kind = ClassOf(cl[c].cmd) /\ cl[c].cmd \in {3, 4}
    BY <1>2
  <1>4. PICK w \in ClientPCs \ {"ended"} : InStep(c, w)
    BY <1>3 DEF Lockstep, LockstepOf, Gone
  <1>5. Challenged(c, w) /\ CommandAt(c, w) /\ h[c].kind = ClassOf(cl[c].cmd)
    BY <1>4, Counts DEF InStep, Stages, Ahead, Registering, KeySent, Asking, Verified, Packing,
                        Collecting
  <1>6. w = "waitSignal" /\ toSrv[c] = <<Plain(Decrypt(Challenge(c), OwnKey(c)))>>
    BY <1>3, <1>5 DEF Challenged
  <1> QED
    BY <1>3, <1>5, <1>6 DEF CommandAt

\* Only a client that has decrypted the challenge is accepted.
LEMMA AcceptedOwner ==
  ASSUME UseInv, Lockstep, NEW c \in Threads, Aligned(c), h[c].pc = "answer",
         NEW in \in SrvRecv(c), AnswerAccepted(AsMessage(in.buf), h[c].rand)
  PROVE  h[c].key = OwnKey(c)
  <1>1. AsMessage(in.buf) # Noise /\ AsMessage(in.buf) # Zero
    BY DEF AnswerAccepted, Noise, Zero, SChar, SIGNAL_CHECK_DELIVERY
  <1>2. in.buf # Nothing
    <2>1. AsMessage(Nothing) = Zero
      BY DEF AsMessage, Nothing
    <2> QED
      BY <1>1, <2>1
  <1>3. in.buf = Plain(Decrypt(Challenge(c), OwnKey(c)))
    BY <1>2, AnswerRead
  <1>4. AsMessage(in.buf) = Decrypt(Challenge(c), OwnKey(c))
    BY <1>3 DEF AsMessage, Plain
  <1> QED
    BY <1>1, <1>4 DEF Decrypt, Challenge, Cipher

VerifiedOf(c) == h[c].pc \in Past => h[c].key \in issued[c] \/ c \in lost \cup disturbed

\* A field of a registration changes what the handler knows of the fields, and no more.
LEMMA FieldGoes ==
  ASSUME NEW c \in Threads, NEW f \in Fields, RecvField(c, f)
  PROVE  \E b, d : Goes(c, [h[c] EXCEPT !.pc = NextField[f], !.fits = b, !.blank = d])
  <1>1. PICK in : Goes(c, [h[c] EXCEPT !.pc = NextField[f],
                                       !.fits = @ /\ Fits(f, AsText(in.buf)),
                                       !.blank = @ \/ AsText(in.buf) = ""])
    BY DEF RecvField
  <1> DEFINE b == h[c].fits /\ Fits(f, AsText(in.buf))
             d == h[c].blank \/ AsText(in.buf) = ""
  <1>2. Goes(c, [h[c] EXCEPT !.pc = NextField[f], !.fits = b, !.blank = d])
    BY <1>1
  <1> HIDE DEF b, d
  <1> QED
    BY <1>2

\* The handler's key, from the challenge on.
LEMMA KeyFixed ==
  ASSUME UseInv, NEW c \in Threads, HandlerStep(c), h'[c].pc \in Past
  PROVE  /\ h'[c].key = h[c].key
         /\ h[c].pc \in Past \/ RecvAnswer(c)
  <1>1. h[c] \in Handlers /\ h \in [Threads -> Handlers]
    BY DEF UseInv, SessionTypes
  <1>2. \A new : Goes(c, new) => h'[c] = new
    BY <1>1 DEF Goes
  <1>3. CASE RecvCommand(c)
    <2>1. h[c].pc = "cmd"
      BY <1>3 DEF RecvCommand, Reads
    <2>2. \/ Goes(c, [h[c] EXCEPT !.pc = "ended"])
          \/ Goes(c, h[c])
          \/ \E pc \in {"name", "idx"} : \E k : Goes(c, [Handler0 EXCEPT !.pc = pc, !.kind = k])
      BY <1>3 DEF RecvCommand
    <2>3. h'[c].pc \in {"ended", "cmd", "name", "idx"}
      BY <1>1, <1>2, <2>1, <2>2 DEF Handlers, Handler0
    <2> QED
      BY <2>3 DEF Past
  <1>4. ASSUME NEW f \in Fields, RecvField(c, f) PROVE FALSE
    <2>1. h'[c].pc = NextField[f]
      <3>1. \E b, d : Goes(c, [h[c] EXCEPT !.pc = NextField[f], !.fits = b, !.blank = d])
        BY <1>4, FieldGoes
      <3> QED
        BY <1>1, <1>2, <3>1 DEF Handlers
    <2> QED
      BY <2>1 DEF NextField, Fields, Past
  <1>5. CASE CallCreate(c) \/ SendKey(c) \/ PrintPackage(c) \/ PrintTaken(c)
    BY <1>1, <1>5 DEF CallCreate, SendKey, PrintPackage, PrintTaken, Goes, Handlers, Past
  <1>6. CASE CallCreatePackage(c) \/ CallTake(c)
    BY <1>1, <1>6 DEF CallCreatePackage, CallTake, Reads, Goes, Handlers, Past
  <1>12. CASE RecvPackName(c)
    <2>1. PICK b \in BOOLEAN : Goes(c, [h[c] EXCEPT !.pc = "createPack", !.blank = b])
      BY <1>12, PackNameRead
    <2>2. h[c].pc = "packName"
      BY <1>12 DEF RecvPackName, Reads
    <2> QED
      BY <1>1, <2>1, <2>2 DEF Goes, Handlers, Past
  <1>7. CASE RecvIdx(c)
    <2>1. h[c].pc = "idx"
      BY <1>7 DEF RecvIdx, Reads
    <2>2. UNCHANGED h \/ \E i, r, k : Goes(c, [h[c] EXCEPT !.pc = "answer", !.idx = i, !.rand = r,
                                                           !.key = k])
      BY <1>7 DEF RecvIdx
    <2>3. h'[c] = h[c] \/ h'[c].pc = "answer"
      BY <1>1, <1>2, <2>2 DEF Handlers
    <2> QED
      BY <2>1, <2>3 DEF Past
  <1>8. CASE RecvAnswer(c)
    <2>1. UNCHANGED h \/ \E pc, no : Goes(c, [h[c] EXCEPT !.pc = pc, !.refused = no])
      BY <1>8 DEF RecvAnswer
    <2> QED
      BY <1>1, <1>2, <1>8, <2>1 DEF Handlers
  <1>9. CASE RecvReceiver(c)
    <2>1. h[c].pc = "receiver"
      BY <1>9 DEF RecvReceiver, Reads
    <2>2. UNCHANGED h \/ \E r : Goes(c, [h[c] EXCEPT !.pc = "packName", !.arg = r])
      BY <1>9 DEF RecvReceiver
    <2> QED
      BY <1>1, <1>2, <2>1, <2>2 DEF Handlers, Past
  <1>10. CASE RecvPackage(c)
    <2>1. h[c].pc = "package"
      BY <1>10 DEF RecvPackage, Reads
    <2>2. \/ Goes(c, [h[c] EXCEPT !.pc = "ended"])
          \/ \E i : Goes(c, [h[c] EXCEPT !.pc = "take", !.arg = i])
      BY <1>10 DEF RecvPackage
    <2> QED
      BY <1>1, <1>2, <2>1, <2>2 DEF Handlers, Past
  <1>11. CASE InDatabase(c)
    BY <1>11 DEF InDatabase, netVars
  <1> QED
    BY <1>3, <1>4, <1>5, <1>6, <1>7, <1>8, <1>9, <1>10, <1>11, <1>12 DEF HandlerStep

\* A handler that goes on past an undisturbed verification goes on for the client's own key.
LEMMA AnswerPassed ==
  ASSUME UseInv, Lockstep, NEW c \in Threads, Aligned(c), RecvAnswer(c), h'[c].pc \in Past
  PROVE  h[c].key = OwnKey(c) /\ h[c].key \in Ptr
  <1>1. h[c] \in Handlers /\ h \in [Threads -> Handlers] /\ h[c].pc = "answer"
    BY DEF UseInv, SessionTypes, RecvAnswer, Reads
  <1>2. h[c].key \in Ptr
    BY <1>1 DEF UseInv, HandlerInv, HandlerOf, FoundOf
  <1>3. PICK in \in SrvRecv(c) :
          LET ok == AnswerAccepted(AsMessage(in.buf), h[c].rand) /\ h[c].idx # INVALID_VALUE
          IN  UNCHANGED h \/ \E pc, no : /\ Goes(c, [h[c] EXCEPT !.pc = pc, !.refused = no])
                                         /\ ~ok => pc = "ended"
    BY DEF RecvAnswer
  <1>4. \A pc, no : Goes(c, [h[c] EXCEPT !.pc = pc, !.refused = no]) => h'[c].pc = pc
    BY <1>1 DEF Goes, Handlers
  <1>5. h[c].pc \notin Past /\ "ended" \notin Past
    BY <1>1 DEF Past
  <1>6. AnswerAccepted(AsMessage(in.buf), h[c].rand)
    BY <1>3, <1>4, <1>5
  <1> QED
    BY <1>1, <1>2, <1>6, AcceptedOwner

VerifiedInv == \A c \in Threads : VerifiedOf(c)

LEMMA VerifiedStep ==
  ASSUME UseInv, KeysInv, Lockstep, VerifiedInv, [SessionNext]_vars
  PROVE  VerifiedInv'
  <1> SUFFICES ASSUME NEW c \in Threads, h'[c].pc \in Past, c \notin lost' \cup disturbed'
               PROVE  h'[c].key \in issued'[c]
    BY DEF VerifiedInv, VerifiedOf
  <1>1. /\ c \notin lost \cup disturbed /\ VerifiedOf(c) /\ KeysOf(c)
    BY ClosedStep DEF VerifiedInv, KeysInv
  <1>2. ASSUME h'[c] = h[c], issued'[c] = issued[c] PROVE h'[c].key \in issued'[c]
    BY <1>1, <1>2 DEF VerifiedOf
  <1>3. CASE HandlerStep(c)
    <2>1. issued[c] \subseteq issued'[c]
      BY <1>1, <1>3, HandlerKeys DEF KeysOf, KeysIn
    <2>2. h'[c].key = h[c].key /\ (h[c].pc \in Past \/ RecvAnswer(c))
      BY <1>3, KeyFixed
    <2>3. CASE RecvAnswer(c)
      <3>1. Aligned(c)
        BY <1>1, <2>3 DEF Aligned, RecvAnswer, Reads
      <3>2. h[c].key = OwnKey(c) /\ h[c].key \in Ptr
        BY <2>3, <3>1, AnswerPassed
      <3>3. OwnKey(c) \in issued[c] \cup {NoPtr, "damaged"}
        BY <1>1 DEF KeysOf, OwnKey
      <3> QED
        BY <2>1, <2>2, <3>2, <3>3, PtrAssumption, KeyAssumption
    <2> QED
      BY <1>1, <2>1, <2>2, <2>3 DEF VerifiedOf
  <1>4. CASE ClientMove(c)
    BY <1>2, <1>4, ClientLeaves
  <1>5. CASE Broadcast
    BY <1>2, <1>5 DEF Broadcast
  <1>6. CASE Untouched(c)
    BY <1>2, <1>6 DEF Untouched
  <1> QED
    BY <1>3, <1>4, <1>5, <1>6, StepAt

\* A handler goes on past the verification only for an index whose secret key has been sent
\* to its own connection (main.cpp:289, 334), on an undisturbed connection.
THEOREM VerificationsIssued == SessionSpec => []VerifiedWasIssued
  <1>1. SessionInit => VerifiedInv
    BY DEF SessionInit, Handler0, VerifiedInv, VerifiedOf, Past
  <1>2. UseInv /\ KeysInv /\ Lockstep /\ VerifiedInv /\ [SessionNext]_vars => VerifiedInv'
    BY VerifiedStep
  <1>3. VerifiedInv => VerifiedWasIssued
    BY DEF VerifiedInv, VerifiedOf, VerifiedWasIssued, Past
  <1> QED
    BY <1>1, <1>2, <1>3, UseAlways, KeysAlways, LockstepAlways, PTL DEF SessionSpec

----------------------------------------------------------------------------
(* Why a verification fails.                                                *)

\* A handler that waits for an answer has looked up the person whose key it asks about.
AnswerOf(c) == h[c].pc = "answer" => PersonAt(h[c].key, h[c].kind, h[c].idx)

AnswerInv == \A c \in Threads : AnswerOf(c)

LEMMA AnswerOutcome ==
  ASSUME UseInv, NEW c \in Threads, RecvAnswer(c)
  PROVE  \/ h'[c] = h[c]
         \/ \E in \in SrvRecv(c) :
              /\ h'[c].pc \in {"ended", "receiver", "package"}
              /\ h'[c].refused =>
                   ~(AnswerAccepted(AsMessage(in.buf), h[c].rand) /\ h[c].idx # INVALID_VALUE)
  <1>1. h[c] \in Handlers /\ h \in [Threads -> Handlers]
    BY DEF UseInv, SessionTypes
  <1>2. \A pc, no : Goes(c, [h[c] EXCEPT !.pc = pc, !.refused = no]) =>
                      h'[c].pc = pc /\ h'[c].refused = no
    BY <1>1 DEF Goes, Handlers
  <1>3. PICK in \in SrvRecv(c) :
          LET k == h[c].kind
              ok == AnswerAccepted(AsMessage(in.buf), h[c].rand) /\ h[c].idx # INVALID_VALUE
              dies == ok /\ ~Readable(k, h[c].idx)
          IN  IF dies THEN UNCHANGED h
              ELSE Goes(c, [h[c] EXCEPT !.pc = CASE ~ok -> "ended"
                                                 [] ok /\ k = "User" -> "receiver"
                                                 [] OTHER -> "package",
                                        !.refused = ~ok])
    BY DEF RecvAnswer
  <1> DEFINE ok == AnswerAccepted(AsMessage(in.buf), h[c].rand) /\ h[c].idx # INVALID_VALUE
             pc == CASE ~ok -> "ended" [] ok /\ h[c].kind = "User" -> "receiver"
                     [] OTHER -> "package"
             no == ~ok
  <1>4. pc \in {"ended", "receiver", "package"}
    <2> HIDE DEF ok
    <2> QED
      BY DEF pc
  <1>5. \/ UNCHANGED h
        \/ Goes(c, [h[c] EXCEPT !.pc = pc, !.refused = no])
    BY <1>3
  <1>6. CASE UNCHANGED h
    BY <1>6
  <1>7. CASE Goes(c, [h[c] EXCEPT !.pc = pc, !.refused = no])
    <2>1. h'[c].pc \in {"ended", "receiver", "package"} /\ h'[c].refused = no
      <3> HIDE DEF ok, pc, no
      <3> QED
        BY <1>2, <1>4, <1>7
    <2>2. h'[c].refused => ~ok
      BY <2>1, Zenon DEF no
    <2> QED
      BY <2>1, <2>2
  <1> QED
    BY <1>5, <1>6, <1>7

\* Handlers come to wait for an answer, and are said to have refused one, in two steps only.
LEMMA AnswerSteps ==
  ASSUME UseInv, NEW c \in Threads, HandlerStep(c)
  PROVE  /\ h'[c].pc = "answer" => h'[c] = h[c] \/ RecvIdx(c)
         /\ h'[c].refused => h[c].refused \/ RecvAnswer(c)
  <1>1. h[c] \in Handlers /\ h \in [Threads -> Handlers]
    BY DEF UseInv, SessionTypes
  <1>2. \A new : Goes(c, new) => h'[c] = new
    BY <1>1 DEF Goes
  <1>3. CASE RecvCommand(c)
    <2>1. \/ Goes(c, [h[c] EXCEPT !.pc = "ended"])
          \/ Goes(c, h[c])
          \/ \E pc \in {"name", "idx"} : \E k : Goes(c, [Handler0 EXCEPT !.pc = pc, !.kind = k])
      BY <1>3 DEF RecvCommand
    <2> QED
      BY <1>1, <1>2, <2>1 DEF Handlers, Handler0
  <1>4. ASSUME NEW f \in Fields, RecvField(c, f)
        PROVE  h'[c].pc # "answer" /\ (h'[c].refused => h[c].refused)
    <2>1. \E b, d : Goes(c, [h[c] EXCEPT !.pc = NextField[f], !.fits = b, !.blank = d])
      BY <1>4, FieldGoes
    <2>2. NextField[f] # "answer"
      BY DEF NextField, Fields
    <2> QED
      BY <1>1, <1>2, <2>1, <2>2 DEF Handlers
  <1>5. CASE CallCreate(c) \/ SendKey(c) \/ PrintPackage(c) \/ PrintTaken(c)
    BY <1>1, <1>5 DEF CallCreate, SendKey, PrintPackage, PrintTaken, Goes, Handlers
  <1>6. CASE CallCreatePackage(c) \/ CallTake(c)
    BY <1>1, <1>6 DEF CallCreatePackage, CallTake, Goes, Handlers
  <1>12. CASE RecvPackName(c)
    <2>1. PICK b \in BOOLEAN : Goes(c, [h[c] EXCEPT !.pc = "createPack", !.blank = b])
      BY <1>12, PackNameRead
    <2> QED
      BY <1>1, <2>1 DEF Goes, Handlers
  <1>7. CASE RecvIdx(c)
    <2>1. UNCHANGED h \/ \E i, r, k : Goes(c, [h[c] EXCEPT !.pc = "answer", !.idx = i, !.rand = r,
                                                           !.key = k])
      BY <1>7 DEF RecvIdx
    <2> QED
      BY <1>1, <1>2, <1>7, <2>1 DEF Handlers
  <1>8. CASE RecvAnswer(c)
    BY <1>8, AnswerOutcome
  <1>9. CASE RecvReceiver(c)
    <2>1. UNCHANGED h \/ \E r : Goes(c, [h[c] EXCEPT !.pc = "packName", !.arg = r])
      BY <1>9 DEF RecvReceiver
    <2> QED
      BY <1>1, <1>2, <2>1 DEF Handlers
  <1>10. CASE RecvPackage(c)
    <2>1. \/ Goes(c, [h[c] EXCEPT !.pc = "ended"])
          \/ \E i : Goes(c, [h[c] EXCEPT !.pc = "take", !.arg = i])
      BY <1>10 DEF RecvPackage
    <2> QED
      BY <1>1, <1>2, <2>1 DEF Handlers
  <1>11. CASE InDatabase(c)
    BY <1>11 DEF InDatabase, netVars
  <1> QED
    BY <1>3, <1>4, <1>5, <1>6, <1>7, <1>8, <1>9, <1>10, <1>11, <1>12 DEF HandlerStep

LEMMA AnswerInvStep ==
  ASSUME UseInv, AnswerInv, [SessionNext]_vars
  PROVE  AnswerInv'
  <1> SUFFICES ASSUME NEW c \in Threads, h'[c].pc = "answer"
               PROVE  PersonAt(h[c].key, h[c].kind, h[c].idx)'
    BY DEF AnswerInv, AnswerOf
  <1>1. Kept /\ TypeOK /\ SlotsInv
    BY UseStep DEF UseInv, ContentsInv
  <1>2. \A p \in Ptr, k \in Kinds, i \in Int : PersonAt(p, k, i) => PersonAt(p, k, i)'
    BY <1>1, PersonKept
  <1>3. h[c] \in Handlers /\ h \in [Threads -> Handlers] /\ Persons \subseteq Kinds
    BY DEF UseInv, SessionTypes, Persons, Kinds
  <1>4. CASE h'[c] = h[c]
    <2>1. PICK p \in Ptr, k \in Kinds, i \in Int : p = h[c].key /\ k = h[c].kind /\ i = h[c].idx
      BY <1>3, <1>4 DEF Handlers, AnswerInv, AnswerOf, PersonAt
    <2>2. PersonAt(p, k, i)'
      BY <1>2, <1>4, <2>1 DEF AnswerInv, AnswerOf
    <2>3. p = h'[c].key /\ k = h'[c].kind /\ i = h'[c].idx
      BY <1>4, <2>1
    <2> QED
      BY <2>2, <2>3
  <1>5. CASE RecvIdx(c)
    <2>1. \A in \in SrvRecv(c) : GetIdxFromReceiveMessage[AsText(in.buf)] \in Int
      <3>1. toSrv[c] \in Seq(Packet) /\ CliOpen(c) \in BOOLEAN
        BY DEF UseInv, SessionTypes, CliOpen
      <3>2. \A in \in SrvRecv(c) : in.buf \in Buffer
        BY <3>1, RecvRead DEF SrvRecv
      <3> QED
        BY <3>2, BufferRead
    <2>2. PICK i \in Int, rand \in RandNums :
            \/ /\ Readable(h[c].kind, i)
               /\ Goes(c, [h[c] EXCEPT !.pc = "answer", !.idx = i, !.rand = rand,
                                       !.key = Get(h[c].kind, i)])
            \/ UNCHANGED h
      BY <1>5, <2>1 DEF RecvIdx
    <2>3. CASE UNCHANGED h
      BY <1>4, <2>3
    <2>4. CASE /\ Readable(h[c].kind, i)
               /\ Goes(c, [h[c] EXCEPT !.pc = "answer", !.idx = i, !.rand = rand,
                                       !.key = Get(h[c].kind, i)])
      <3>1. PICK p \in Ptr, k \in Persons : p = Get(h[c].kind, i) /\ k = h[c].kind
        BY <1>3, <2>4 DEF Handlers, Readable
      <3>2. PersonAt(p, k, i)
        BY <1>1, <2>4, <3>1, FoundPerson
      <3>3. PersonAt(p, k, i)'
        BY <1>2, <1>3, <3>2
      <3>4. p = h'[c].key /\ k = h'[c].kind /\ i = h'[c].idx
        BY <1>3, <2>4, <3>1 DEF Goes, Handlers
      <3> QED
        BY <3>3, <3>4
    <2> QED
      BY <2>2, <2>3, <2>4
  <1>6. CASE HandlerStep(c)
    BY <1>4, <1>5, <1>6, AnswerSteps
  <1>7. CASE ClientMove(c)
    BY <1>4, <1>7, ClientLeaves
  <1>8. CASE Broadcast
    BY <1>4, <1>8 DEF Broadcast
  <1>9. CASE Untouched(c)
    BY <1>4, <1>9 DEF Untouched
  <1> QED
    BY <1>6, <1>7, <1>8, <1>9, StepAt

\* The answer of the holder of the key, undisturbed, is refused only for a number that does
\* not fit: the index under which the key was found is then no -1.
LEMMA RefusedStep ==
  ASSUME UseInv, Lockstep, AnswerInv, [SessionNext]_vars, NEW c \in Threads,
         h'[c].refused, ~h[c].refused, c \notin lost \cup disturbed, CliOpen(c),
         h[c].key = OwnKey(c)
  PROVE  h[c].rand > 127
  <1>1. RecvAnswer(c)
    BY StepAt, AnswerSteps, ClientLeaves DEF Broadcast, Untouched
  <1>2. PICK in \in SrvRecv(c) :
          ~(AnswerAccepted(AsMessage(in.buf), h[c].rand) /\ h[c].idx # INVALID_VALUE)
    BY <1>1, AnswerOutcome
  <1>3. Aligned(c) /\ h[c].pc = "answer" /\ h[c] \in Handlers
    BY <1>1 DEF Aligned, RecvAnswer, Reads, UseInv, SessionTypes
  <1>4. /\ in.buf = Plain(Decrypt(Challenge(c), OwnKey(c)))
        /\ h[c].kind = ClassOf(cl[c].cmd) /\ cl[c].cmd \in {3, 4}
    BY <1>3, AnswerRead
  <1>5. AsMessage(in.buf) = IdxToMessage(h[c].rand)
    BY <1>4 DEF AsMessage, Plain, Decrypt, Challenge, Cipher
  <1>6. PICK p \in Ptr : /\ p = h[c].key /\ Published(p) /\ obj[p].kind \in Persons
                         /\ Cell(obj[p].kind, given[p]) = Cell(h[c].kind, h[c].idx)
    BY <1>3 DEF AnswerInv, AnswerOf, PersonAt
  <1>7. obj[p].kind = h[c].kind
    BY <1>3, <1>4, <1>6, Classes DEF Lockstep, LockstepOf, KeyClasses, OwnKey
  <1>8. h[c].idx # INVALID_VALUE
    <2>1. given[p] \in Nat
      BY <1>6, PublishedKind DEF UseInv
    <2>2. Base[h[c].kind] \in Int /\ h[c].idx \in Int
      BY <1>3, CapacityAssumption DEF Base, Kinds, Persons, Handlers
    <2> QED
      BY <1>6, <1>7, <2>1, <2>2 DEF Cell, INVALID_VALUE
  <1>9. ~AnswerAccepted(IdxToMessage(h[c].rand), h[c].rand)
    BY <1>2, <1>5, <1>8
  <1>10. h[c].rand \in 0 .. 254
    BY <1>3 DEF Handlers
  <1> QED
    BY <1>9, <1>10 DEF AnswerAccepted, IdxToMessage, SChar, U8, SIGNAL_CHECK_DELIVERY

\* A client that holds the key is refused (main.cpp:424, 446) only when the random number
\* does not fit a signed char or the connection was disturbed, whoever else is served.
THEOREM RefusalsExplained == SessionSpec => RefusalExplained
  <1>1. SessionInit => AnswerInv
    BY DEF SessionInit, Handler0, AnswerInv, AnswerOf
  <1>2. UseInv /\ AnswerInv /\ [SessionNext]_vars => AnswerInv'
    BY AnswerInvStep
  <1>3. UseInv /\ Lockstep /\ AnswerInv /\ [SessionNext]_vars =>
          [\A c \in Threads : h'[c].refused /\ ~h[c].refused =>
             \/ h[c].rand > 127
             \/ h[c].key # OwnKey(c)
             \/ c \in lost \cup disturbed \/ ~CliOpen(c)]_vars
    BY RefusedStep
  <1> QED
    BY <1>1, <1>2, <1>3, UseAlways, LockstepAlways, PTL DEF SessionSpec, RefusalExplained

=============================================================================
