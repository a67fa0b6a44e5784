------------------------------ MODULE Startup ------------------------------
(***************************************************************************)
(* How the programs come up and go down: RunServer and CloseServer of the  *)
(* server, SocketSetting, Terminate and the loop condition of the client.  *)
(* WinSock is external: a call may fail, the last error of a thread stays  *)
(* set when a later call succeeds, and WSACleanup takes back one WSAStartup*)
(* of the process.                                                         *)
(***************************************************************************)
EXTENDS Naturals, Sequences, FiniteSets

CONSTANTS
  Clients   \* processes of the client program

VARIABLES
  server,    \* the server's process: its step, its socket, its uses of WinSock
  client,    \* each client's: its step, its socket, its uses of WinSock
  attempts,  \* how often each client has called connect
  lastError  \* WSAGetLastError() # 0, of each client

startupVars == <<server, client, attempts, lastError>>

StartupInit ==
  /\ server = [pc |-> "main", socket |-> "none", wsa |-> 0]
  /\ client = [c \in Clients |-> [pc |-> "main", socket |-> "none", wsa |-> 0]]
  /\ attempts = [c \in Clients |-> 0]
  /\ lastError = [c \in Clients |-> FALSE]

----------------------------------------------------------------------------
(* The server.                                                              *)

\* The calls of RunServer, each of which may be the one that fails.
RunServer ==
  /\ server.pc = "main"
  /\ \/ server' = [server EXCEPT !.pc = "failed"]
     \/ server' = [server EXCEPT !.pc = "failed", !.wsa = 1]
     \/ server' = [server EXCEPT !.pc = "failed", !.wsa = 1, !.socket = "open"]
     \/ server' = [server EXCEPT !.pc = "running", !.wsa = 1, !.socket = "listening"]
  /\ UNCHANGED <<client, attempts, lastError>>

\* What closesocket leaves of a socket; a peer finds out that a connection was left.
Closed(socket) ==
  CASE socket = "none" -> "none" [] socket \in {"connected", "left"} -> "left" [] OTHER -> "closed"

\* Mutant: WSACleanup is forgotten.
ReleasedSocket(p) == [p EXCEPT !.socket = Closed(@)]

\* closesocket and WSACleanup; without an open socket or a use they only fail.
Released(p) == [p EXCEPT !.socket = Closed(@), !.wsa = IF @ = 0 THEN 0 ELSE @ - 1]

CloseServer ==
  /\ server.pc = "failed"
  /\ server' = [Released(server) EXCEPT !.pc = "exited"]
  /\ UNCHANGED <<client, attempts, lastError>>

\* The process is stopped from outside; its socket goes with it.
StopServer ==
  /\ server.pc = "running"
  /\ server' = [server EXCEPT !.pc = "exited", !.socket = "closed", !.wsa = 0]
  /\ UNCHANGED <<client, attempts, lastError>>

----------------------------------------------------------------------------
(* A client.                                                                *)

\* WSAStartup and socket; WSAStartup returns its error and sets none.
SocketSetting(c) ==
  /\ client[c].pc = "main"
  /\ \/ client' = [client EXCEPT ![c].pc = "failed"] /\ UNCHANGED lastError
     \/ /\ client' = [client EXCEPT ![c].pc = "failed", ![c].wsa = 1]
        /\ lastError' = [lastError EXCEPT ![c] = TRUE]
     \/ /\ client' = [client EXCEPT ![c].pc = "connect", ![c].wsa = 1, ![c].socket = "open"]
        /\ UNCHANGED lastError
  /\ UNCHANGED <<server, attempts>>

\* Mutant: the error of an earlier attempt is forgotten.
LastErrorAfterConnectReset(c, failed) == failed

\* A call that succeeds does not reset the last error.
LastErrorAfterConnect(c, failed) == lastError[c] \/ failed

\* connect succeeds at the first call or at one of three retries.
Connect(c) ==
  /\ client[c].pc = "connect" /\ attempts[c] <= 3
  /\ server.socket = "listening"
  /\ client' = [client EXCEPT ![c].pc = "while", ![c].socket = "connected"]
  /\ attempts' = [attempts EXCEPT ![c] = @ + 1]
  /\ lastError' = [lastError EXCEPT ![c] = LastErrorAfterConnect(c, FALSE)]
  /\ UNCHANGED server

ConnectFails(c) ==
  /\ client[c].pc = "connect" /\ attempts[c] <= 3
  /\ attempts' = [attempts EXCEPT ![c] = @ + 1]
  /\ lastError' = [lastError EXCEPT ![c] = LastErrorAfterConnect(c, TRUE)]
  /\ UNCHANGED <<server, client>>

\* SocketSetting calls Terminate itself, and main will call it again.
GiveUp(p) == [Released(p) EXCEPT !.pc = "failed"]

\* connResult == SOCKET_ERROR after the last retry
NoConnection(c) ==
  /\ client[c].pc = "connect" /\ attempts[c] = 4
  /\ client' = [client EXCEPT ![c] = GiveUp(@)]
  /\ UNCHANGED <<server, attempts, lastError>>

\* while (!WSAGetLastError()): another command, or the end of the program
LoopCondition(c) ==
  /\ client[c].pc = "while"
  /\ client' = [client EXCEPT ![c] = IF lastError[c] THEN [Released(@) EXCEPT !.pc = "ended"]
                                     ELSE [@ EXCEPT !.pc = "command"]]
  /\ UNCHANGED <<server, attempts, lastError>>

\* A command ends; its calls may have met an error.
Command(c) ==
  /\ client[c].pc = "command"
  /\ client' = [client EXCEPT ![c].pc = "while"]
  /\ \/ server.pc = "running" /\ UNCHANGED lastError
     \/ lastError' = [lastError EXCEPT ![c] = TRUE]
  /\ UNCHANGED <<server, attempts>>

\* "Can't Create Socket..": main calls Terminate and returns.
Terminate(c) ==
  /\ client[c].pc = "failed"
  /\ client' = [client EXCEPT ![c] = [Released(@) EXCEPT !.pc = "ended"]]
  /\ UNCHANGED <<server, attempts, lastError>>

ClientStep(c) ==
  \/ SocketSetting(c) \/ Connect(c) \/ ConnectFails(c) \/ NoConnection(c)
  \/ LoopCondition(c) \/ Terminate(c)

----------------------------------------------------------------------------

\* The retries of SocketSetting never help.  A client takes commands only when it is
\* connected by its first call of connect: the error of a failed call is still the
\* last one when a retry has succeeded, and main's loop ends before it begins.
CommandsNeedFirstConnect ==
  \A c \in Clients : client[c].pc = "command" =>
    /\ attempts[c] = 1
    /\ client[c].socket = "connected"

\* A client that is started comes to its loop or to an end that leaves neither a
\* socket nor a use of WinSock behind, whichever call fails, although Terminate runs
\* twice on one of these ways.
StartsOrEnds ==
  \A c \in Clients :
    client[c].pc = "main" ~>
      \/ client[c].pc = "command"
      \/ client[c].pc = "ended" /\ client[c].wsa = 0 /\ client[c].socket \notin {"open", "connected"}
=============================================================================
