-------------------------- MODULE EchoServerProofs --------------------------
(* Proofs about EchoServer and Startup, for any set of clients, any buffer, *)
(* any sockets and any number of failed accepts.                            *)
EXTENDS EchoServer, TLAPS

----------------------------------------------------------------------------
(* How a client starts.                                                     *)

ClientTypes ==
  /\ client \in [Clients -> [pc : {"main", "failed", "connect", "while", "command", "ended"},
                             socket : {"none", "open", "connected", "left", "closed"}, wsa : Nat]]
  /\ attempts \in [Clients -> Nat]
  /\ lastError \in [Clients -> BOOLEAN]

\* No client has called connect before its socket is there; the error of a call that
\* failed stays; a client that is past connect has a connection.
Attempting ==
  \A c \in Clients :
    /\ client[c].pc = "main" => attempts[c] = 0
    /\ client[c].pc = "connect" /\ ~lastError[c] => attempts[c] = 0
    /\ client[c].pc \in {"while", "command"} =>
         client[c].socket = "connected" /\ (lastError[c] \/ attempts[c] = 1)
    /\ client[c].pc = "command" => attempts[c] = 1

StartupInv == ClientTypes /\ Attempting

----------------------------------------------------------------------------
(* The bytes.                                                               *)

EchoTypes ==
  sent \in [Clients -> Seq(Nat)] /\ unread \in [Clients -> Seq(Nat)] /\ returned \in [Clients -> Seq(Nat)]

EchoInv == EchoTypes /\ EchoExact

----------------------------------------------------------------------------
(* Sequences.                                                               *)

LEMMA Joined ==
  \A S : \A a, b \in Seq(S) :
    \A j \in 1 .. Len(a) + Len(b) : (a \o b)[j] = IF j <= Len(a) THEN a[j] ELSE b[j - Len(a)]
  OBVIOUS

LEMMA Equal ==
  \A S : \A a, b \in Seq(S) : Len(a) = Len(b) /\ (\A j \in 1 .. Len(a) : a[j] = b[j]) => a = b
  OBVIOUS

\* Bytes in two parts, of which some go from the second to the first.
LEMMA Parts ==
  ASSUME NEW r \in Seq(Nat), NEW u \in Seq(Nat), NEW n \in 1 .. Len(u)
  PROVE  /\ SubSeq(u, 1, n) \in Seq(Nat) /\ SubSeq(u, n + 1, Len(u)) \in Seq(Nat)
         /\ r \o SubSeq(u, 1, n) \in Seq(Nat)
         /\ (r \o SubSeq(u, 1, n)) \o SubSeq(u, n + 1, Len(u)) = r \o u
  <1>1. /\ SubSeq(u, 1, n) \in Seq(Nat) /\ Len(SubSeq(u, 1, n)) = n
        /\ \A j \in 1 .. n : SubSeq(u, 1, n)[j] = u[j]
    OBVIOUS
  <1>2. SubSeq(u, n + 1, Len(u)) \in Seq(Nat) /\ Len(SubSeq(u, n + 1, Len(u))) = Len(u) - n
    OBVIOUS
  <1>3. \A j \in 1 .. Len(u) - n : SubSeq(u, n + 1, Len(u))[j] = u[n + j]
    OBVIOUS
  <1> DEFINE a == SubSeq(u, 1, n)
             b == SubSeq(u, n + 1, Len(u))
  <1>4. /\ a \in Seq(Nat) /\ Len(a) = n /\ \A j \in 1 .. n : a[j] = u[j]
        /\ b \in Seq(Nat) /\ Len(b) = Len(u) - n /\ \A j \in 1 .. Len(u) - n : b[j] = u[n + j]
    BY <1>1, <1>2, <1>3
  <1> HIDE DEF a, b
  <1>5. r \o a \in Seq(Nat) /\ Len(r \o a) = Len(r) + n
    BY <1>4
  <1>6. (r \o a) \o b \in Seq(Nat) /\ Len((r \o a) \o b) = Len(r) + Len(u)
    <2>1. (r \o a) \o b \in Seq(Nat) /\ Len((r \o a) \o b) = Len(r \o a) + Len(b)
      <3> DEFINE q == r \o a
      <3>1. q \in Seq(Nat) /\ b \in Seq(Nat)
        BY <1>4, <1>5
      <3>2. q \o b \in Seq(Nat) /\ Len(q \o b) = Len(q) + Len(b)
        <4> HIDE DEF q
        <4> QED
          BY <3>1
      <3> QED
        BY <3>2
    <2>2. Len(r) \in Nat /\ Len(u) \in Nat /\ n \in Nat
      OBVIOUS
    <2> QED
      BY <1>4, <1>5, <2>1, <2>2
  <1>7. r \o u \in Seq(Nat) /\ Len(r \o u) = Len(r) + Len(u)
    OBVIOUS
  <1>8. ASSUME NEW j \in 1 .. Len(r) + Len(u)
        PROVE  ((r \o a) \o b)[j] = (r \o u)[j]
    <2>1. CASE j <= Len(r)
      <3>1. j \in 1 .. Len(r) /\ j \in 1 .. Len(r) + n
        BY <2>1
      <3>2. ((r \o a) \o b)[j] = (r \o a)[j]
        BY <1>4, <1>5, <3>1
      <3>3. (r \o a)[j] = r[j] /\ (r \o u)[j] = r[j]
        BY <1>4, <3>1
      <3> QED
        BY <3>2, <3>3
    <2>2. CASE j > Len(r) /\ j <= Len(r) + n
      <3>1. j \in 1 .. Len(r) + n /\ j - Len(r) \in 1 .. n
        BY <2>2
      <3>2. ((r \o a) \o b)[j] = (r \o a)[j]
        BY <1>4, <1>5, <3>1
      <3>3. (r \o a)[j] = a[j - Len(r)] /\ (r \o u)[j] = u[j - Len(r)]
        BY <1>4, <2>2, <3>1
      <3> QED
        BY <1>4, <3>1, <3>2, <3>3
    <2>3. CASE j > Len(r) + n
      <3>1. j - (Len(r) + n) \in 1 .. Len(u) - n
        BY <2>3
      <3>2. ((r \o a) \o b)[j] = b[j - (Len(r) + n)]
        <4> DEFINE T == Nat
                   q == r \o a
                   k == Len(r) + n
        <4>1. /\ q \in Seq(T) /\ b \in Seq(T) /\ Len(q) = k /\ k \in Nat /\ j > k
              /\ j \in 1 .. k + Len(b)
          BY <1>4, <1>5, <2>3
        <4>2. (q \o b)[j] = b[j - k]
          <5> HIDE DEF q, k, T
          <5>1. (q \o b)[j] = IF j <= k THEN q[j] ELSE b[j - k]
            BY <4>1, Joined
          <5> QED
            BY <4>1, <5>1
        <4> QED
          BY <4>2
      <3>3. (r \o u)[j] = u[j - Len(r)]
        <4>1. ~(j <= Len(r)) /\ r \in Seq(Nat) /\ u \in Seq(Nat)
          BY <2>3
        <4> QED
          BY <4>1, Joined, Zenon
      <3>4. n + (j - (Len(r) + n)) = j - Len(r)
        OBVIOUS
      <3> QED
        BY <1>4, <3>1, <3>2, <3>3, <3>4
    <2>4. j <= Len(r) \/ (j > Len(r) /\ j <= Len(r) + n) \/ j > Len(r) + n
      <3>1. Len(r) \in Nat /\ n \in Nat /\ j \in Nat
        OBVIOUS
      <3> QED
        BY <3>1
    <2> QED
      BY <2>1, <2>2, <2>3, <2>4, Zenon
  <1> DEFINE v == (r \o a) \o b
             w == r \o u
  <1>9. v \in Seq(Nat) /\ w \in Seq(Nat) /\ Len(v) = Len(w) /\ \A j \in 1 .. Len(v) : v[j] = w[j]
    BY <1>6, <1>7, <1>8
  <1>10. v = w
    <2> HIDE DEF v, w
    <2> QED
      BY <1>9, Equal, Zenon
  <1> QED
    BY <1>4, <1>5, <1>10 DEF a, b

----------------------------------------------------------------------------
(* CommandsNeedFirstConnect.                                                *)

Processes == [pc : {"main", "failed", "connect", "while", "command", "ended"},
              socket : {"none", "open", "connected", "left", "closed"}, wsa : Nat]

LEMMA ReleasedIs ==
  ASSUME NEW p \in Processes, NEW x \in {"main", "failed", "connect", "while", "command", "ended"}
  PROVE  [Released(p) EXCEPT !.pc = x] \in Processes /\ [Released(p) EXCEPT !.pc = x].pc = x
  <1>1. Closed(p.socket) \in {"none", "left", "closed"}
    BY DEF Closed
  <1>2. (IF p.wsa = 0 THEN 0 ELSE p.wsa - 1) \in Nat
    BY DEF Processes
  <1> DEFINE s == Closed(p.socket)
             w == IF p.wsa = 0 THEN 0 ELSE p.wsa - 1
  <1>3. Released(p) = [p EXCEPT !.socket = s, !.wsa = w]
    BY DEF Released
  <1>4. s \in {"none", "left", "closed"} /\ w \in Nat
    BY <1>1, <1>2
  <1> HIDE DEF s, w
  <1>5. Released(p) \in Processes
    BY <1>3, <1>4 DEF Processes
  <1> QED
    BY <1>5 DEF Processes

\* One client's step: what Attempting says of it and that the others stay.
LEMMA OneClient ==
  ASSUME StartupInv, NEW c \in Clients, NEW p \in Processes, client' = [client EXCEPT ![c] = p],
         attempts' \in [Clients -> Nat], lastError' \in [Clients -> BOOLEAN],
         \A d \in Clients \ {c} : attempts'[d] = attempts[d] /\ lastError'[d] = lastError[d],
         p.pc = "main" => attempts'[c] = 0,
         p.pc = "connect" /\ ~lastError'[c] => attempts'[c] = 0,
         p.pc \in {"while", "command"} =>
           p.socket = "connected" /\ (lastError'[c] \/ attempts'[c] = 1),
         p.pc = "command" => attempts'[c] = 1
  PROVE  StartupInv'
  <1>1. client \in [Clients -> Processes]
    BY DEF StartupInv, ClientTypes, Processes
  <1>2. client' \in [Clients -> Processes]
    BY <1>1
  <1>3. client'[c] = p /\ \A d \in Clients \ {c} : client'[d] = client[d]
    BY <1>1
  <1>4. ClientTypes'
    BY <1>2 DEF ClientTypes, Processes
  <1>5. ASSUME NEW d \in Clients
        PROVE  /\ client'[d].pc = "main" => attempts'[d] = 0
               /\ client'[d].pc = "connect" /\ ~lastError'[d] => attempts'[d] = 0
               /\ client'[d].pc \in {"while", "command"} =>
                    client'[d].socket = "connected" /\ (lastError'[d] \/ attempts'[d] = 1)
               /\ client'[d].pc = "command" => attempts'[d] = 1
    <2>1. CASE d = c
      BY <1>3, <2>1
    <2>2. CASE d # c
      BY <1>3, <2>2 DEF StartupInv, Attempting
    <2> QED
      BY <2>1, <2>2
  <1>6. Attempting'
    BY <1>5, Zenon DEF Attempting
  <1> QED
    BY <1>4, <1>6 DEF StartupInv

LEMMA StartupKept ==
  ASSUME StartupInv, [Next]_vars
  PROVE  StartupInv'
  <1>1. CASE client' = client /\ attempts' = attempts /\ lastError' = lastError
    BY <1>1 DEF StartupInv, ClientTypes, Attempting
  <1>2. ASSUME NEW c \in Clients, ClientStep(c) \/ Command(c)
        PROVE  StartupInv'
    <2>1. PICK p \in Processes : p = client[c]
      BY DEF StartupInv, ClientTypes, Processes
    <2>2. attempts \in [Clients -> Nat] /\ lastError \in [Clients -> BOOLEAN]
      BY DEF StartupInv, ClientTypes
    <2>3. /\ p.pc = "main" => attempts[c] = 0
          /\ p.pc = "connect" /\ ~lastError[c] => attempts[c] = 0
          /\ p.pc \in {"while", "command"} =>
               p.socket = "connected" /\ (lastError[c] \/ attempts[c] = 1)
          /\ p.pc = "command" => attempts[c] = 1
      BY <2>1 DEF StartupInv, Attempting
    <2>4. CASE SocketSetting(c)
      <3>1. p.pc = "main" /\ attempts' = attempts
        BY <2>1, <2>4 DEF SocketSetting
      <3>2. PICK q \in Processes : /\ client' = [client EXCEPT ![c] = q]
                                   /\ q.pc \in {"failed", "connect"}
        <4>1. CASE client' = [client EXCEPT ![c].pc = "failed"]
          <5> DEFINE q == [p EXCEPT !.pc = "failed"]
          <5>1. client' = [client EXCEPT ![c] = q]
            BY <2>1, <4>1
          <5>2. q \in Processes /\ q.pc = "failed"
            BY DEF Processes
          <5> HIDE DEF q
          <5> QED
            BY <5>1, <5>2
        <4>2. CASE client' = [client EXCEPT ![c].pc = "failed", ![c].wsa = 1]
          <5> DEFINE q == [p EXCEPT !.pc = "failed", !.wsa = 1]
          <5>1. client' = [client EXCEPT ![c] = q]
            BY <2>1, <4>2 DEF StartupInv, ClientTypes
          <5>2. q \in Processes /\ q.pc = "failed"
            BY DEF Processes
          <5> HIDE DEF q
          <5> QED
            BY <5>1, <5>2
        <4>3. CASE client' = [client EXCEPT ![c].pc = "connect", ![c].wsa = 1, ![c].socket = "open"]
          <5> DEFINE q == [p EXCEPT !.pc = "connect", !.wsa = 1, !.socket = "open"]
          <5>1. client' = [client EXCEPT ![c] = q]
            BY <2>1, <4>3 DEF StartupInv, ClientTypes
          <5>2. q \in Processes /\ q.pc = "connect"
            BY DEF Processes
          <5> HIDE DEF q
          <5> QED
            BY <5>1, <5>2
        <4> QED
          BY <2>4, <4>1, <4>2, <4>3 DEF SocketSetting
      <3>3. /\ lastError' \in [Clients -> BOOLEAN]
            /\ \A d \in Clients \ {c} : lastError'[d] = lastError[d]
        BY <2>2, <2>4 DEF SocketSetting
      <3> QED
        BY <2>2, <2>3, <3>1, <3>2, <3>3, OneClient
    <2>5. CASE Connect(c)
      <3> DEFINE q == [p EXCEPT !.pc = "while", !.socket = "connected"]
      <3>1. p.pc = "connect" /\ attempts' = [attempts EXCEPT ![c] = attempts[c] + 1]
        BY <2>1, <2>5 DEF Connect
      <3>2. q \in Processes /\ q.pc = "while" /\ q.socket = "connected"
        BY DEF Processes
      <3>3. client' = [client EXCEPT ![c] = q]
        BY <2>1, <2>5 DEF Connect, StartupInv, ClientTypes
      <3>4. lastError' = lastError
        <4> DEFINE b == lastError[c]
        <4>1. b \in BOOLEAN
          BY <2>2
        <4>2. lastError' = [lastError EXCEPT ![c] = b \/ FALSE]
          BY <2>5 DEF Connect, LastErrorAfterConnect
        <4>3. (b \/ FALSE) = b
          <5> HIDE DEF b
          <5> QED
            BY <4>1, Zenon
        <4>4. lastError' = [lastError EXCEPT ![c] = b]
          BY <4>2, <4>3, Zenon
        <4> QED
          BY <2>2, <4>4, Zenon
      <3>5. /\ attempts' \in [Clients -> Nat] /\ attempts'[c] = attempts[c] + 1
            /\ \A d \in Clients \ {c} : attempts'[d] = attempts[d]
        BY <2>2, <3>1
      <3>6. lastError[c] \/ attempts'[c] = 1
        BY <2>3, <3>1, <3>5
      <3>7. lastError'[c] \/ attempts'[c] = 1
        BY <3>4, <3>6, Zenon
      <3>8. /\ lastError' \in [Clients -> BOOLEAN]
            /\ \A d \in Clients \ {c} : lastError'[d] = lastError[d]
        BY <2>2, <3>4, Zenon
      <3> HIDE DEF q
      <3> QED
        BY <3>2, <3>3, <3>5, <3>7, <3>8, OneClient
    <2>6. CASE ConnectFails(c)
      <3>1. p.pc = "connect" /\ client' = [client EXCEPT ![c] = p]
        BY <2>1, <2>6 DEF ConnectFails, StartupInv, ClientTypes
      <3>2. /\ attempts' \in [Clients -> Nat]
            /\ \A d \in Clients \ {c} : attempts'[d] = attempts[d]
        BY <2>2, <2>6 DEF ConnectFails
      <3>3. lastError' = [lastError EXCEPT ![c] = TRUE]
        BY <2>6, Zenon DEF ConnectFails, LastErrorAfterConnect
      <3>4. /\ lastError' \in [Clients -> BOOLEAN] /\ lastError'[c]
            /\ \A d \in Clients \ {c} : lastError'[d] = lastError[d]
        BY <2>2, <3>3, Zenon
      <3> QED
        BY <3>1, <3>2, <3>4, OneClient
    <2>7. CASE NoConnection(c) \/ Terminate(c)
      <3>1. PICK q \in Processes : client' = [client EXCEPT ![c] = q] /\ q.pc \in {"failed", "ended"}
        BY <2>1, <2>7, ReleasedIs, ZenonT(60) DEF NoConnection, GiveUp, Terminate
      <3>2. attempts' = attempts /\ lastError' = lastError
        BY <2>7 DEF NoConnection, Terminate
      <3> QED
        BY <2>2, <3>1, <3>2, OneClient
    <2>8. CASE LoopCondition(c)
      <3>1. p.pc = "while" /\ attempts' = attempts /\ lastError' = lastError
        BY <2>1, <2>8 DEF LoopCondition
      <3>2. PICK q \in Processes :
              /\ client' = [client EXCEPT ![c] = q]
              /\ q.pc = "ended" \/ (~lastError[c] /\ q.pc = "command" /\ q.socket = p.socket)
        <4>1. CASE lastError[c]
          BY <2>1, <2>8, <4>1, ReleasedIs DEF LoopCondition
        <4>2. CASE ~lastError[c]
          <5> DEFINE q == [p EXCEPT !.pc = "command"]
          <5>1. client' = [client EXCEPT ![c] = q]
            BY <2>1, <2>8, <4>2 DEF LoopCondition
          <5>2. q \in Processes /\ q.pc = "command" /\ q.socket = p.socket
            BY DEF Processes
          <5> HIDE DEF q
          <5> QED
            BY <4>2, <5>1, <5>2
        <4> QED
          BY <4>1, <4>2
      <3> QED
        BY <2>2, <2>3, <3>1, <3>2, OneClient
    <2>9. CASE Command(c)
      <3> DEFINE q == [p EXCEPT !.pc = "while"]
      <3>1. p.pc = "command" /\ attempts' = attempts /\ client' = [client EXCEPT ![c] = q]
        BY <2>1, <2>9 DEF Command
      <3>2. q \in Processes /\ q.pc = "while" /\ q.socket = p.socket
        BY DEF Processes
      <3>3. /\ lastError' \in [Clients -> BOOLEAN]
            /\ \A d \in Clients \ {c} : lastError'[d] = lastError[d]
        BY <2>2, <2>9 DEF Command
      <3> HIDE DEF q
      <3> QED
        BY <2>2, <2>3, <3>1, <3>2, <3>3, OneClient
    <2> QED
      BY <1>2, <2>4, <2>5, <2>6, <2>7, <2>8, <2>9 DEF ClientStep
  <1>3. \/ client' = client /\ attempts' = attempts /\ lastError' = lastError
        \/ \E c \in Clients : ClientStep(c) \/ Command(c)
    <2>1. CASE UNCHANGED vars
      BY <2>1 DEF vars, startupVars
    <2>2. CASE Next
      BY <2>2 DEF Next, EchoRunServer, EchoCloseServer, RunServer, CloseServer, StopServer, Send,
                  HandleClient, EchoStopServer, EraseStops, PoolStep, Accept, AcceptFails,
                  BeginThread, PushThread, PushPool, Leave, Erase, CloseSocket, startupVars
    <2> QED
      BY <2>1, <2>2
  <1> QED
    BY <1>1, <1>2, <1>3

----------------------------------------------------------------------------
(* EchoExact.                                                               *)

\* A sequence in two parts grows at its end.
LEMMA GrownParts ==
  ASSUME NEW S, NEW r \in Seq(S), NEW u \in Seq(S), NEW x \in S
  PROVE  r \o Append(u, x) = Append(r \o u, x)
  <1> DEFINE v == r \o Append(u, x)
             q == r \o u
             w == Append(q, x)
             a == Append(u, x)
  <1>1. Len(r) \in Nat /\ Len(u) \in Nat
    OBVIOUS
  <1>2. a \in Seq(S) /\ Len(a) = Len(u) + 1 /\ a[Len(u) + 1] = x /\ \A j \in 1 .. Len(u) : a[j] = u[j]
    OBVIOUS
  <1>3. q \in Seq(S) /\ Len(q) = Len(r) + Len(u)
        /\ \A j \in 1 .. Len(r) + Len(u) : q[j] = IF j <= Len(r) THEN r[j] ELSE u[j - Len(r)]
    OBVIOUS
  <1>4. v \in Seq(S) /\ Len(v) = Len(r) + Len(u) + 1
        /\ \A j \in 1 .. Len(r) + Len(u) + 1 : v[j] = IF j <= Len(r) THEN r[j] ELSE a[j - Len(r)]
    <2>1. v = r \o a
      OBVIOUS
    <2> HIDE DEF v, a
    <2> QED
      BY <1>1, <1>2, <2>1
  <1>5. w \in Seq(S) /\ Len(w) = Len(r) + Len(u) + 1 /\ w[Len(r) + Len(u) + 1] = x
        /\ \A j \in 1 .. Len(r) + Len(u) : w[j] = q[j]
    <2> HIDE DEF q
    <2> QED
      BY <1>1, <1>3
  <1> HIDE DEF v, w, q, a
  <1>6. ASSUME NEW j \in 1 .. Len(r) + Len(u) + 1
        PROVE  v[j] = w[j]
    <2>1. CASE j = Len(r) + Len(u) + 1
      <3>1. ~(j <= Len(r)) /\ j - Len(r) = Len(u) + 1
        BY <1>1, <2>1
      <3>2. v[j] = a[j - Len(r)]
        BY <1>4, <3>1
      <3> QED
        BY <1>2, <1>5, <2>1, <3>1, <3>2
    <2>2. CASE j # Len(r) + Len(u) + 1
      <3>1. j \in 1 .. Len(r) + Len(u)
        BY <1>1, <2>2
      <3>2. w[j] = IF j <= Len(r) THEN r[j] ELSE u[j - Len(r)]
        BY <1>3, <1>5, <3>1
      <3>3. v[j] = IF j <= Len(r) THEN r[j] ELSE a[j - Len(r)]
        BY <1>4
      <3>4. j > Len(r) => j - Len(r) \in 1 .. Len(u)
        BY <1>1, <3>1
      <3>5. j > Len(r) \/ j <= Len(r)
        BY <1>1, <3>1
      <3> QED
        BY <1>1, <1>2, <3>2, <3>3, <3>4, <3>5
    <2> QED
      BY <2>1, <2>2
  <1>7. v = w
    BY <1>4, <1>5, <1>6
  <1> QED
    BY <1>7 DEF v, w, q

LEMMA EchoKept ==
  ASSUME EchoInv, [Next]_vars
  PROVE  EchoInv'
  <1>1. CASE sent' = sent /\ unread' = unread /\ returned' = returned
    BY <1>1 DEF EchoInv, EchoTypes, EchoExact
  <1>2. ASSUME NEW c \in Clients, Send(c)
        PROVE  EchoInv'
    <2> DEFINE r == returned[c]
               u == unread[c]
               x == Len(sent[c]) + 1
    <2>1. r \in Seq(Nat) /\ u \in Seq(Nat) /\ sent[c] \in Seq(Nat) /\ r \o u = sent[c]
      BY DEF EchoInv, EchoTypes, EchoExact
    <2>2. x \in Nat
      BY <2>1
    <2>3. /\ sent' = [sent EXCEPT ![c] = Append(sent[c], x)]
          /\ unread' = [unread EXCEPT ![c] = Append(u, x)] /\ returned' = returned
      BY <1>2 DEF Send
    <2> HIDE DEF x, r, u
    <2>4. Append(sent[c], x) \in Seq(Nat) /\ Append(u, x) \in Seq(Nat)
      BY <2>1, <2>2
    <2>5. r \o Append(u, x) = Append(sent[c], x)
      <3>1. \A a, b \in Seq(Nat) : \A y \in Nat : a \o Append(b, y) = Append(a \o b, y)
        <4> TAKE a, b \in Seq(Nat)
        <4> TAKE y \in Nat
        <4> QED
          BY GrownParts
      <3>2. r \o Append(u, x) = Append(r \o u, x)
        BY <2>1, <2>2, <3>1, Zenon
      <3> QED
        BY <2>1, <3>2, Zenon
    <2>6. /\ sent' \in [Clients -> Seq(Nat)] /\ unread' \in [Clients -> Seq(Nat)]
          /\ returned' \in [Clients -> Seq(Nat)]
      BY <2>3, <2>4 DEF EchoInv, EchoTypes
    <2>7. ASSUME NEW d \in Clients
          PROVE  returned'[d] \o unread'[d] = sent'[d]
      <3>1. CASE d = c
        BY <2>3, <2>5, <3>1 DEF EchoInv, EchoTypes, r
      <3>2. CASE d # c
        BY <2>3, <3>2 DEF EchoInv, EchoTypes, EchoExact
      <3> QED
        BY <3>1, <3>2
    <2> QED
      BY <2>6, <2>7 DEF EchoInv, EchoTypes, EchoExact
  <1>3. ASSUME NEW c \in Clients, HandleClient(c)
        PROVE  EchoInv'
    <2> DEFINE r == returned[c]
               u == unread[c]
    <2>1. r \in Seq(Nat) /\ u \in Seq(Nat) /\ r \o u = sent[c]
      BY DEF EchoInv, EchoTypes, EchoExact
    <2>2. PICK n \in 1 .. Len(unread[c]) :
            /\ unread' = [unread EXCEPT ![c] = SubSeq(unread[c], n + 1, Len(unread[c]))]
            /\ returned' = [returned EXCEPT ![c] = returned[c] \o SubSeq(unread[c], 1, n)]
      BY <1>3 DEF HandleClient, Echoed
    <2> DEFINE rest == SubSeq(u, n + 1, Len(u))
               more == r \o SubSeq(u, 1, n)
    <2>3. rest \in Seq(Nat) /\ more \in Seq(Nat) /\ more \o rest = sent[c]
      <3> HIDE DEF r, u
      <3>1. n \in 1 .. Len(u)
        BY DEF u
      <3>2. \A a, b \in Seq(Nat) : \A k \in 1 .. Len(b) :
              /\ SubSeq(b, k + 1, Len(b)) \in Seq(Nat) /\ a \o SubSeq(b, 1, k) \in Seq(Nat)
              /\ (a \o SubSeq(b, 1, k)) \o SubSeq(b, k + 1, Len(b)) = a \o b
        <4> TAKE a, b \in Seq(Nat)
        <4> TAKE k \in 1 .. Len(b)
        <4>1. SubSeq(b, k + 1, Len(b)) \in Seq(Nat)
          OBVIOUS
        <4>2. SubSeq(b, 1, k) \in Seq(Nat)
          OBVIOUS
        <4>3. a \o SubSeq(b, 1, k) \in Seq(Nat)
          BY <4>2
        <4>4. (a \o SubSeq(b, 1, k)) \o SubSeq(b, k + 1, Len(b)) = a \o b
          BY Parts
        <4> QED
          BY <4>1, <4>3, <4>4
      <3>3. rest \in Seq(Nat) /\ more \in Seq(Nat) /\ more \o rest = r \o u
        BY <2>1, <3>1, <3>2, Zenon
      <3> QED
        BY <2>1, <3>3, Zenon
    <2>4. /\ unread' = [unread EXCEPT ![c] = rest] /\ returned' = [returned EXCEPT ![c] = more]
          /\ sent' = sent
      BY <1>3, <2>2 DEF HandleClient
    <2> HIDE DEF rest, more
    <2>5. /\ sent' \in [Clients -> Seq(Nat)] /\ unread' \in [Clients -> Seq(Nat)]
          /\ returned' \in [Clients -> Seq(Nat)]
      BY <2>3, <2>4 DEF EchoInv, EchoTypes
    <2>6. ASSUME NEW d \in Clients
          PROVE  returned'[d] \o unread'[d] = sent'[d]
      <3>1. CASE d = c
        BY <2>3, <2>4, <3>1 DEF EchoInv, EchoTypes
      <3>2. CASE d # c
        BY <2>4, <3>2 DEF EchoInv, EchoTypes, EchoExact
      <3> QED
        BY <3>1, <3>2
    <2> QED
      BY <2>5, <2>6 DEF EchoInv, EchoTypes, EchoExact
  <1>4. \/ sent' = sent /\ unread' = unread /\ returned' = returned
        \/ \E c \in Clients : Send(c) \/ HandleClient(c)
    <2>1. CASE UNCHANGED vars
      BY <2>1 DEF vars, echoVars, bytes
    <2>2. CASE Next
      BY <2>2 DEF Next, EchoRunServer, EchoCloseServer, EchoStopServer, EraseStops, PoolStep, Accept,
                  AcceptFails, BeginThread, PushThread, PushPool, Leave, Erase, CloseSocket, echoVars, bytes
    <2> QED
      BY <2>1, <2>2
  <1> QED
    BY <1>1, <1>2, <1>3, <1>4

LEMMA InvariantsInit ==
  ASSUME Init
  PROVE  StartupInv /\ EchoInv
  <1>1. \A T : <<>> \in Seq(T)
    OBVIOUS
  <1>2. StartupInv
    BY DEF Init, StartupInit, StartupInv, ClientTypes, Attempting
  <1>3. EchoTypes
    BY <1>1 DEF Init, EchoTypes
  <1>4. <<>> \o <<>> = <<>>
    OBVIOUS
  <1>5. EchoExact
    BY <1>4 DEF Init, EchoExact
  <1> QED
    BY <1>2, <1>3, <1>5 DEF EchoInv

LEMMA EchoInvariant == Spec => [](StartupInv /\ EchoInv)
  <1>1. StartupInv /\ EchoInv /\ [Next]_vars => (StartupInv /\ EchoInv)'
    BY StartupKept, EchoKept
  <1>2. Init => StartupInv /\ EchoInv
    BY InvariantsInit
  <1> QED
    BY <1>1, <1>2, PTL DEF Spec

\* The retries of SocketSetting never help: a client takes commands only when its first call
\* of connect succeeded, whatever fails and however often it is retried (Client/main.cpp:292-300,
\* 108).
THEOREM RetriesNeverHelp == Spec => []CommandsNeedFirstConnect
  <1>1. StartupInv => CommandsNeedFirstConnect
    BY DEF StartupInv, Attempting, CommandsNeedFirstConnect
  <1> QED
    BY <1>1, EchoInvariant, PTL

\* What is sent back to a client is a beginning of what it sent and the rest is still unread,
\* however recv cuts the stream, whenever the connection ends and whatever the races on the pool
\* do, a removal that stops the server included: for any number of clients and failed accepts,
\* any sockets, any lengths and any size of the buffer (Connection/Server.cpp:89-107).
THEOREM EchoesExactly == Spec => []EchoExact
  <1>1. EchoInv => EchoExact
    BY DEF EchoInv
  <1> QED
    BY <1>1, EchoInvariant, PTL

=============================================================================
