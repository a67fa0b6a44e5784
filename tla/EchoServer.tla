----------------------------- MODULE EchoServer -----------------------------
(***************************************************************************)
(* Connection/Server.cpp: the server that returns to each client what it   *)
(* receives from it.  It starts as the other one does (Startup); the       *)
(* clients send bytes over their connections.  The accept thread and the   *)
(* handlers take their steps on the pool without a lock.  The vector's own *)
(* operations are taken as atomic, as in ClientPool.                       *)
(***************************************************************************)
EXTENDS Startup, SequencesExt

CONSTANTS
  BufferSize,     \* sizeof(buffer), 1024 in the code
  MaxSent,        \* bound on what the clients send together
  Failed,         \* accepts that fail, a bound on their number
  Sockets,        \* socket handles the system hands out, again once closed
  INVALID_SOCKET, \* what a failed accept returns
  NoConn          \* the accept thread has no connection at hand

ASSUME EchoAssumption ==
  Failed \cap Clients = {} /\ NoConn \notin Clients \cup Failed /\ INVALID_SOCKET \notin Sockets

Conns == Clients \cup Failed

VARIABLES
  sent,          \* what each client has sent
  unread,        \* the part of it that has not been received
  returned,      \* what was sent back
  accepting,     \* the accept thread: its next step and the connection at hand
  handler,       \* per connection the handler's step and the place it found
  socketOf,      \* per connection the socket it was given
  clientThreads, \* number of thread handles kept
  clientPool     \* the sockets in the pool, in order

bytes == <<sent, unread, returned>>
pool == <<accepting, handler, socketOf, clientThreads, clientPool>>
echoVars == <<bytes, pool>>
vars == <<startupVars, echoVars>>

NoneAccepted == [pc |-> "accept", conn |-> NoConn]
NoHandlers == [n \in Conns |-> [pc |-> "none", i |-> 0]]
NoSockets == [n \in Conns |-> INVALID_SOCKET]

Init ==
  /\ StartupInit
  /\ sent = [c \in Clients |-> <<>>]
  /\ unread = [c \in Clients |-> <<>>]
  /\ returned = [c \in Clients |-> <<>>]
  /\ accepting = NoneAccepted
  /\ handler = NoHandlers
  /\ socketOf = NoSockets
  /\ clientThreads = 0
  /\ clientPool = <<>>

\* Connection/Server.cpp has its own RunServer and CloseServer, of the same calls.
EchoRunServer == RunServer /\ UNCHANGED echoVars

EchoCloseServer == CloseServer /\ UNCHANGED echoVars

\* The threads and the pool go with the process.
EchoStopServer ==
  /\ StopServer
  /\ accepting' = NoneAccepted /\ handler' = NoHandlers /\ socketOf' = NoSockets
  /\ clientThreads' = 0 /\ clientPool' = <<>>
  /\ UNCHANGED bytes

\* What clients send waits on the connection.  Bytes are told apart by their number.
Send(c) ==
  /\ client[c].pc = "command" /\ server.pc = "running"
  /\ MapThenSumSet(LAMBDA d : Len(sent[d]), Clients) < MaxSent
  /\ sent' = [sent EXCEPT ![c] = Append(@, Len(@) + 1)]
  /\ unread' = [unread EXCEPT ![c] = Append(@, Len(sent[c]) + 1)]
  /\ UNCHANGED <<startupVars, returned, pool>>

----------------------------------------------------------------------------
(* ClientAccept.                                                            *)

\* A socket is in use until its handler has closed it.
InUse == {socketOf[n] : n \in {m \in Conns : handler[m].pc # "ended"}}

\* accept returns the connection of a client ...
Accept(c) ==
  /\ server.pc = "running" /\ accepting.pc = "accept" /\ handler[c].pc = "none"
  /\ client[c].socket \in {"connected", "left"}
  /\ \E s \in Sockets \ InUse : socketOf' = [socketOf EXCEPT ![c] = s]
  /\ accepting' = [pc |-> "begin", conn |-> c]
  /\ UNCHANGED <<startupVars, bytes, handler, clientThreads, clientPool>>

\* ... or fails; the loop goes on all the same, with INVALID_SOCKET.
AcceptFails(n) ==
  /\ server.pc = "running" /\ accepting.pc = "accept" /\ handler[n].pc = "none"
  /\ accepting' = [pc |-> "begin", conn |-> n]
  /\ UNCHANGED <<startupVars, bytes, handler, socketOf, clientThreads, clientPool>>

\* _beginthreadex: from here on the handler runs by itself.
BeginThread ==
  /\ server.pc = "running" /\ accepting.pc = "begin"
  /\ handler' = [handler EXCEPT ![accepting.conn].pc = "echo"]
  /\ accepting' = [accepting EXCEPT !.pc = "pushThread"]
  /\ UNCHANGED <<startupVars, bytes, socketOf, clientThreads, clientPool>>

PushThread ==
  /\ server.pc = "running" /\ accepting.pc = "pushThread"
  /\ clientThreads' = clientThreads + 1
  /\ accepting' = [accepting EXCEPT !.pc = "pushPool"]
  /\ UNCHANGED <<startupVars, bytes, handler, socketOf, clientPool>>

\* The entry is pushed, also when its handler has looked for it already.
PushPool ==
  /\ server.pc = "running" /\ accepting.pc = "pushPool"
  /\ clientPool' = Append(clientPool, socketOf[accepting.conn])
  /\ accepting' = NoneAccepted
  /\ UNCHANGED <<startupVars, bytes, handler, socketOf, clientThreads>>

----------------------------------------------------------------------------
(* HandleClient.                                                            *)

\* Mutant: one byte less goes back, as for a string with its end.
EchoedShort(received) == SubSeq(received, 1, Len(received) - 1)

\* send(clientSocket, buffer, recvSize, 0)
Echoed(received) == received

\* recv returns a part of what waits, at most a buffer full.
HandleClient(c) ==
  /\ server.pc = "running" /\ handler[c].pc = "echo"
  /\ \E n \in 1 .. Len(unread[c]) :
       /\ n <= BufferSize
       /\ unread' = [unread EXCEPT ![c] = SubSeq(@, n + 1, Len(@))]
       /\ returned' = [returned EXCEPT ![c] = @ \o Echoed(SubSeq(unread[c], 1, n))]
  /\ UNCHANGED <<startupVars, sent, pool>>

\* The first place of a socket in the pool, if there is one.
Matches(s) == {i \in DOMAIN clientPool :
  clientPool[i] = s /\ \A j \in DOMAIN clientPool : clientPool[j] = s => i <= j}

\* recv returns 0, or an error, which may come before all is read; it fails at once
\* for a handler without a socket.  The handler looks for its entry.
Leave(n) ==
  /\ server.pc = "running" /\ handler[n].pc = "echo"
  /\ n \in Clients => client[n].socket = "left"
  /\ LET found == Matches(socketOf[n])
     IN  \/ \E i \in found : handler' = [handler EXCEPT ![n] = [pc |-> "erase", i |-> i]]
         \/ found = {} /\ handler' = [handler EXCEPT ![n].pc = "close"]
  /\ UNCHANGED <<startupVars, bytes, accepting, socketOf, clientThreads, clientPool>>

\* The entry now at the place found is removed ...
Erase(n) ==
  /\ server.pc = "running" /\ handler[n].pc = "erase" /\ handler[n].i \in DOMAIN clientPool
  /\ clientPool' = RemoveAt(clientPool, handler[n].i)
  /\ handler' = [handler EXCEPT ![n] = [pc |-> "close", i |-> 0]]
  /\ UNCHANGED <<startupVars, bytes, accepting, socketOf, clientThreads>>

\* ... but past the end the iterator checks of the debug build stop the process.
EraseStops(n) ==
  /\ handler[n].pc = "erase" /\ handler[n].i \notin DOMAIN clientPool
  /\ EchoStopServer

\* closesocket and _endthreadex: the handle is free again.
CloseSocket(n) ==
  /\ server.pc = "running" /\ handler[n].pc = "close"
  /\ handler' = [handler EXCEPT ![n].pc = "ended"]
  /\ UNCHANGED <<startupVars, bytes, accepting, socketOf, clientThreads, clientPool>>

----------------------------------------------------------------------------

PoolStep ==
  \/ \E c \in Clients : Accept(c)
  \/ \E n \in Failed : AcceptFails(n)
  \/ BeginThread
  \/ PushThread
  \/ PushPool
  \/ \E n \in Conns : Leave(n) \/ Erase(n) \/ CloseSocket(n)

Next ==
  \/ EchoRunServer
  \/ EchoCloseServer
  \/ EchoStopServer
  \/ \E c \in Clients : (ClientStep(c) \/ Command(c)) /\ UNCHANGED echoVars
  \/ \E c \in Clients : Send(c) \/ HandleClient(c)
  \/ PoolStep
  \/ \E n \in Conns : EraseStops(n)

\* The client programs run on; nobody need give a command.
Spec ==
  /\ Init /\ [][Next]_vars
  /\ \A c \in Clients : WF_vars(ClientStep(c) /\ UNCHANGED echoVars)

----------------------------------------------------------------------------

\* What is sent back to a client is a part from the beginning of what it sent, in order
\* and each byte once, and the rest is still unread, however recv cuts the stream and
\* whatever becomes of the pool meanwhile.
EchoExact == \A c \in Clients : returned[c] \o unread[c] = sent[c]
=============================================================================
