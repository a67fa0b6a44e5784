-------------------------- MODULE ClientPoolProofs --------------------------
(* Proofs about ClientPool, for any number of connections and sockets.      *)
EXTENDS ClientPool, FiniteSetTheorems, TLAPS

----------------------------------------------------------------------------
(* The invariant.                                                           *)

Handles == Sockets \cup {INVALID_SOCKET}

ClientInfos == [socket : Handles, addr : Conns]

ConsoleTypes ==
  /\ console.pc \in {"cin", "compare", "body"}
  /\ console.it \in Nat /\ console.end \in Nat
  /\ console.start \in Seq(ClientInfos)
  /\ console.reached \in Seq(Conns \cup {NoConn})
  /\ console.disturbed \in BOOLEAN
  /\ console.pc = "body" => console.c \in ClientInfos

TypeOK ==
  /\ clientPool \in Seq(ClientInfos)
  /\ accepting \in [pc : {"accept", "begin", "pushThread", "pushPool"}, conn : Conns \cup {NoConn}]
  /\ accepting.pc = "accept" <=> accepting.conn = NoConn
  /\ handler \in [Conns -> [pc : {"none", "serve", "erase", "close", "ended"}, i : Nat]]
  /\ socketOf \in [Conns -> Handles]
  /\ DOMAIN console = DOMAIN ConsoleIdle /\ ConsoleTypes
  /\ early \subseteq Conns

\* The accept thread starts the handler of its connection.
Starting == accepting.pc = "begin" => handler[accepting.conn].pc = "none"

\* No two connections whose handlers have not ended have the same socket.
SocketsApart ==
  \A m, n \in Conns : /\ m # n /\ handler[m].pc # "ended" /\ handler[n].pc # "ended"
                      /\ socketOf[m] = socketOf[n]
                      => socketOf[m] = INVALID_SOCKET

\* Handlers that have an entry, or will have it when the accept thread has pushed it.
Holds(n) == handler[n].pc \in {"serve", "erase"}

\* Every entry is that of a connection of its own whose handler has still to remove it.
Entries ==
  /\ \A i \in DOMAIN clientPool :
       LET n == clientPool[i].addr
       IN  clientPool[i] = Entry(n) /\ Holds(n) /\ n # accepting.conn
  /\ \A i, j \in DOMAIN clientPool : clientPool[i].addr = clientPool[j].addr => i = j

\* Such a connection has its entry, once the accept thread is done with it.
Listed ==
  \A n \in Conns : Holds(n) =>
    n = accepting.conn \/ \E i \in DOMAIN clientPool : clientPool[i].addr = n

\* The handler of the connection at hand is serving when the entry is pushed.
Pushing == accepting.pc \in {"pushThread", "pushPool"} => handler[accepting.conn].pc = "serve"

\* The place that a handler has found is that of its entry.
Found ==
  \A n \in Conns : handler[n].pc = "erase" =>
    handler[n].i \in DOMAIN clientPool /\ clientPool[handler[n].i].addr = n

\* The loop of the console, as long as the pool is as it was when the loop began: where it
\* is, and what it has reached.
Walking ==
  console.pc # "cin" /\ ~console.disturbed =>
    /\ console.command \in {"list", "send"}
    /\ console.start = clientPool /\ console.end = Len(clientPool)
    /\ console.it \in 1 .. Len(clientPool) + 1
    /\ Len(console.reached) = console.it - 1
    /\ console.pc = "body" => /\ console.it <= Len(clientPool)
                              /\ console.c = clientPool[console.it]

Reaching ==
  console.pc # "cin" /\ ~console.disturbed =>
    \A j \in 1 .. console.it - 1 : console.reached[j] = MeantFor[j]

Settled == Entries /\ Listed /\ Pushing /\ Found

PoolInv ==
  /\ TypeOK /\ Walking /\ Starting /\ SocketsApart
  /\ Raced \/ (Settled /\ Reaching)

----------------------------------------------------------------------------
(* Types.                                                                   *)

\* What is left of a sequence without its i-th element.
LEMMA Removed ==
  ASSUME NEW S, NEW s \in Seq(S), NEW i \in 1 .. Len(s)
  PROVE  /\ RemoveAt(s, i) \in Seq(S) /\ Len(RemoveAt(s, i)) = Len(s) - 1
         /\ \A j \in 1 .. Len(s) - 1 : /\ j < i => RemoveAt(s, i)[j] = s[j]
                                       /\ j >= i => RemoveAt(s, i)[j] = s[j + 1]
  <1>1. /\ SubSeq(s, 1, i - 1) \in Seq(S) /\ Len(SubSeq(s, 1, i - 1)) = i - 1
        /\ \A j \in 1 .. i - 1 : SubSeq(s, 1, i - 1)[j] = s[j]
    OBVIOUS
  <1>2. SubSeq(s, i + 1, Len(s)) \in Seq(S)
    OBVIOUS
  <1>3. Len(SubSeq(s, i + 1, Len(s))) = Len(s) - i
    OBVIOUS
  <1>4. \A j \in 1 .. Len(s) - i : SubSeq(s, i + 1, Len(s))[j] = s[i + j]
    OBVIOUS
  <1> DEFINE a == SubSeq(s, 1, i - 1)
             b == SubSeq(s, i + 1, Len(s))
  <1>5. RemoveAt(s, i) = a \o b
    BY DEF RemoveAt
  <1>6. /\ a \in Seq(S) /\ Len(a) = i - 1 /\ \A j \in 1 .. i - 1 : a[j] = s[j]
        /\ b \in Seq(S) /\ Len(b) = Len(s) - i /\ \A j \in 1 .. Len(s) - i : b[j] = s[i + j]
    BY <1>1, <1>2, <1>3, <1>4
  <1> HIDE DEF a, b
  <1>7. a \o b \in Seq(S) /\ Len(a \o b) = Len(s) - 1
    BY <1>6
  <1>8. ASSUME NEW j \in 1 .. Len(s) - 1
        PROVE  /\ j < i => (a \o b)[j] = s[j]
               /\ j >= i => (a \o b)[j] = s[j + 1]
    <2>1. CASE j < i
      <3>1. j \in 1 .. i - 1 /\ (a \o b)[j] = a[j]
        BY <1>6, <2>1
      <3> QED
        BY <1>6, <2>1, <3>1
    <2>2. CASE j >= i
      <3>1. j - (i - 1) \in 1 .. Len(s) - i
        BY <2>2
      <3>2. (a \o b)[j] = b[j - (i - 1)]
        BY <1>6, <2>2
      <3>3. i + (j - (i - 1)) = j + 1
        OBVIOUS
      <3> QED
        BY <1>6, <2>2, <3>1, <3>2, <3>3
    <2> QED
      BY <2>1, <2>2
  <1> QED
    BY <1>5, <1>7, <1>8

LEMMA EmptyLists ==
  <<>> \in Seq(ClientInfos) /\ <<>> \in Seq(Conns \cup {NoConn})
  <1>1. \A T : <<>> \in Seq(T)
    OBVIOUS
  <1> QED
    BY <1>1

LEMMA Disturbance ==
  ASSUME TypeOK, Disturbs
  PROVE  /\ DOMAIN console' = DOMAIN ConsoleIdle /\ ConsoleTypes'
         /\ console'.pc = console.pc
         /\ console'.pc # "cin" => console'.disturbed
  <1>1. CASE console.pc = "cin"
    BY <1>1 DEF Disturbs, TypeOK, ConsoleTypes
  <1>2. CASE console.pc # "cin"
    <2>1. /\ DOMAIN console' = DOMAIN ConsoleIdle
          /\ console'.pc = console.pc /\ console'.c = console.c /\ console'.it = 1
          /\ console'.end = 0 /\ console'.start = <<>> /\ console'.reached = <<>>
          /\ console'.disturbed = TRUE
      BY <1>2 DEF Disturbs, ConsoleIdle
    <2>2. console.pc \in {"cin", "compare", "body"} /\ (console.pc = "body" => console.c \in ClientInfos)
      BY DEF TypeOK, ConsoleTypes
    <2>3. console'.start \in Seq(ClientInfos) /\ console'.reached \in Seq(Conns \cup {NoConn})
      BY <2>1, EmptyLists, Zenon
    <2>4. console'.it \in Nat /\ console'.end \in Nat
      BY <2>1
    <2>5. console'.disturbed \in BOOLEAN
      BY <2>1, Zenon
    <2>6. ConsoleTypes'
      BY <2>1, <2>2, <2>3, <2>4, <2>5, Zenon DEF ConsoleTypes
    <2> QED
      BY <1>2, <2>1, <2>6, Zenon
  <1> QED
    BY <1>1, <1>2

LEMMA EntryTypes ==
  ASSUME TypeOK, NEW n \in Conns
  PROVE  Entry(n) \in ClientInfos /\ Entry(n).socket = socketOf[n] /\ Entry(n).addr = n
  BY DEF TypeOK, Entry, ClientInfos

\* The steps of the console's loop.
LEMMA ConsoleStepTypes ==
  ASSUME TypeOK, Walking, TypeLine \/ CompareAndCopy \/ LoopBody
  PROVE  DOMAIN console' = DOMAIN ConsoleIdle /\ ConsoleTypes'
  <1> DEFINE P == ClientInfos
  <1>1. /\ DOMAIN console = DOMAIN ConsoleIdle /\ ConsoleTypes
        /\ clientPool \in Seq(P) /\ Len(clientPool) \in Nat
    BY DEF TypeOK
  <1>2. CASE TypeLine
    <2>1. /\ DOMAIN console' = DOMAIN ConsoleIdle
          /\ console'.pc = "compare" /\ console'.it = 1 /\ console'.end = Len(clientPool)
          /\ console'.start = clientPool /\ console'.reached = <<>> /\ console'.disturbed = FALSE
      BY <1>2 DEF TypeLine, ConsoleIdle
    <2>2. console'.start \in Seq(ClientInfos) /\ console'.reached \in Seq(Conns \cup {NoConn})
      BY <1>1, <2>1, EmptyLists, Zenon
    <2>3. /\ console'.it \in Nat /\ console'.end \in Nat
          /\ console'.pc \in {"cin", "compare", "body"} /\ console'.pc # "body"
      BY <1>1, <2>1
    <2>4. console'.disturbed \in BOOLEAN
      BY <2>1, Zenon
    <2> QED
      BY <2>1, <2>2, <2>3, <2>4, Zenon DEF ConsoleTypes
  <1>3. CASE CompareAndCopy
    <2>1. CASE console.disturbed
      BY <1>1, <1>3, <2>1 DEF CompareAndCopy, ConsoleTypes
    <2>2. CASE console' = ConsoleIdle
      BY <2>2, EmptyLists DEF ConsoleIdle, ConsoleTypes
    <2>3. CASE /\ ~console.disturbed /\ ~AtEnd(console.it, console.end)
               /\ console' = [console EXCEPT !.pc = "body", !.c = clientPool[console.it]]
      <3>1. console.it \in 1 .. Len(clientPool)
        BY <1>1, <1>3, <2>3 DEF CompareAndCopy, Walking, AtEnd
      <3>2. clientPool[console.it] \in P
        BY <1>1, <3>1
      <3>3. /\ DOMAIN console' = DOMAIN console /\ console'.pc = "body"
            /\ console'.c = clientPool[console.it] /\ console'.it = console.it
            /\ console'.end = console.end /\ console'.start = console.start
            /\ console'.reached = console.reached /\ console'.disturbed = console.disturbed
        BY <1>1, <2>3 DEF ConsoleIdle
      <3> QED
        BY <1>1, <3>2, <3>3 DEF ConsoleTypes
    <2> QED
      BY <1>3, <2>1, <2>2, <2>3 DEF CompareAndCopy
  <1>4. CASE LoopBody
    <2> DEFINE x == IF console.command = "list" THEN console.c.addr ELSE Peer(console.c.socket)
    <2>1. x \in Conns \cup {NoConn}
      <3>1. console.c.addr \in Conns
        BY <1>1, <1>4 DEF LoopBody, ConsoleTypes, ClientInfos
      <3>2. Peer(console.c.socket) \in Conns \cup {NoConn}
        BY DEF Peer
      <3> QED
        BY <3>1, <3>2
    <2>2. console' = [console EXCEPT !.pc = "compare", !.it = console.it + 1, !.c = NoConn,
                                     !.reached = Append(console.reached, x)]
      BY <1>4 DEF LoopBody
    <2> HIDE DEF x
    <2>3. Append(console.reached, x) \in Seq(Conns \cup {NoConn})
      BY <1>1, <2>1 DEF ConsoleTypes
    <2>4. /\ DOMAIN console' = DOMAIN console /\ console'.pc = "compare"
          /\ console'.it = console.it + 1
          /\ console'.end = console.end /\ console'.start = console.start
          /\ console'.reached = Append(console.reached, x)
          /\ console'.disturbed = console.disturbed
      BY <1>1, <2>2 DEF ConsoleIdle
    <2> QED
      BY <1>1, <2>3, <2>4 DEF ConsoleTypes
  <1> QED
    BY <1>2, <1>3, <1>4

\* What one step of a handler is: its own record changes and no other.
Steps(n, pc, i) ==
  /\ handler'[n].pc = pc /\ handler'[n].i = i
  /\ \A m \in Conns \ {n} : handler'[m] = handler[m]

HandlerTypes == [Conns -> [pc : {"none", "serve", "erase", "close", "ended"}, i : Nat]]

LEMMA HandlerStep ==
  ASSUME handler \in HandlerTypes, NEW n \in Conns,
         NEW pc \in {"none", "serve", "erase", "close", "ended"}, NEW i \in Nat,
         \/ handler' = [handler EXCEPT ![n] = [pc |-> pc, i |-> i]]
         \/ i = handler[n].i /\ handler' = [handler EXCEPT ![n].pc = pc]
  PROVE  handler' \in HandlerTypes /\ Steps(n, pc, i)
  BY DEF HandlerTypes, Steps

LEMMA AtHand ==
  ASSUME TypeOK, accepting.pc # "accept"
  PROVE  accepting.conn \in Conns
  BY DEF TypeOK

\* What each handler's step does, and each step of the accept thread.
LEMMA BeginThreadIs ==
  ASSUME TypeOK, BeginThread
  PROVE  /\ accepting.conn \in Conns /\ Steps(accepting.conn, "serve", handler[accepting.conn].i)
         /\ handler' \in HandlerTypes
         /\ accepting'.pc = "pushThread" /\ accepting'.conn = accepting.conn
  <1>1. accepting.conn \in Conns
    BY AtHand DEF BeginThread
  <1>2. handler \in HandlerTypes /\ handler[accepting.conn].i \in Nat
    BY <1>1 DEF TypeOK, HandlerTypes
  <1>3. handler' = [handler EXCEPT ![accepting.conn].pc = "serve"]
    BY DEF BeginThread
  <1> DEFINE n == accepting.conn
             i == handler[n].i
  <1>4. PICK c \in Conns : c = n
    BY <1>1
  <1>5. PICK k \in Nat : k = handler[c].i
    BY <1>2, <1>4
  <1>6. handler' \in HandlerTypes /\ Steps(c, "serve", k)
    BY <1>2, <1>3, <1>4, <1>5, HandlerStep
  <1>7. accepting'.pc = "pushThread" /\ accepting'.conn = accepting.conn
    BY DEF BeginThread, TypeOK
  <1> QED
    BY <1>1, <1>4, <1>5, <1>6, <1>7

LEMMA LeaveIs ==
  ASSUME TypeOK, NEW n \in Conns, Leave(n)
  PROVE  /\ handler[n].pc = "serve" /\ handler' \in HandlerTypes
         /\ \/ \E i \in Matches(socketOf[n]) : Steps(n, "erase", i)
            \/ Matches(socketOf[n]) = {} /\ Steps(n, "close", handler[n].i)
  <1>1. handler \in HandlerTypes /\ handler[n].i \in Nat
    BY DEF TypeOK, HandlerTypes
  <1>2. handler[n].pc = "serve"
    BY DEF Leave
  <1>3. ASSUME NEW i \in Matches(socketOf[n]), handler' = [handler EXCEPT ![n] = [pc |-> "erase", i |-> i]]
        PROVE  handler' \in HandlerTypes /\ Steps(n, "erase", i)
    <2>1. i \in Nat
      BY DEF Matches, TypeOK
    <2> QED
      BY <1>1, <1>3, <2>1, HandlerStep
  <1>4. ASSUME handler' = [handler EXCEPT ![n].pc = "close"]
        PROVE  handler' \in HandlerTypes /\ Steps(n, "close", handler[n].i)
    <2>1. PICK k \in Nat : k = handler[n].i
      BY <1>1
    <2> QED
      BY <1>1, <1>4, <2>1, HandlerStep
  <1> QED
    BY <1>2, <1>3, <1>4 DEF Leave

LEMMA EraseIs ==
  ASSUME TypeOK, NEW n \in Conns, Erase(n) \/ CloseSocket(n)
  PROVE  /\ handler' \in HandlerTypes
         /\ Erase(n) => Steps(n, "close", handler[n].i)
         /\ CloseSocket(n) => Steps(n, "ended", handler[n].i)
  <1>1. handler \in HandlerTypes /\ handler[n].i \in Nat
    BY DEF TypeOK, HandlerTypes
  <1>2. PICK k \in Nat : k = handler[n].i
    BY <1>1
  <1>3. CASE Erase(n)
    <2>1. handler[n].pc = "erase" /\ handler' = [handler EXCEPT ![n].pc = "close"]
      BY <1>3 DEF Erase
    <2> QED
      BY <1>1, <1>2, <2>1, HandlerStep DEF CloseSocket
  <1>4. CASE CloseSocket(n)
    <2>1. handler[n].pc = "close" /\ handler' = [handler EXCEPT ![n].pc = "ended"]
      BY <1>4 DEF CloseSocket
    <2> QED
      BY <1>1, <1>2, <2>1, HandlerStep DEF Erase
  <1> QED
    BY <1>3, <1>4

LEMMA ErasesAtPlace ==
  ASSUME TypeOK, NEW n \in Conns, Erase(n)
  PROVE  \/ clientPool' = clientPool /\ handler[n].i \notin 1 .. Len(clientPool)
         \/ /\ handler[n].i \in 1 .. Len(clientPool)
            /\ clientPool' = RemoveAt(clientPool, handler[n].i)
  <1>1. DOMAIN clientPool = 1 .. Len(clientPool)
    BY DEF TypeOK
  <1>2. CASE handler[n].i \in DOMAIN clientPool
    BY <1>1, <1>2, Zenon DEF Erase, Without
  <1>3. CASE handler[n].i \notin DOMAIN clientPool
    BY <1>1, <1>3, Zenon DEF Erase
  <1> QED
    BY <1>2, <1>3

LEMMA Typing ==
  ASSUME TypeOK, Walking, [Next]_vars
  PROVE  TypeOK'
  <1> DEFINE PoolType == clientPool \in Seq(ClientInfos)
             AcceptType == /\ accepting \in [pc : {"accept", "begin", "pushThread", "pushPool"},
                                             conn : Conns \cup {NoConn}]
                           /\ accepting.pc = "accept" <=> accepting.conn = NoConn
             HandlerType == handler \in HandlerTypes
             SocketType == socketOf \in [Conns -> Handles]
             ConsoleType == DOMAIN console = DOMAIN ConsoleIdle /\ ConsoleTypes
             EarlyType == early \subseteq Conns
  <1>0. TypeOK <=> PoolType /\ AcceptType /\ HandlerType /\ SocketType /\ ConsoleType /\ EarlyType
    BY DEF TypeOK, HandlerTypes
  <1>1. TypeOK' <=> PoolType' /\ AcceptType' /\ HandlerType' /\ SocketType' /\ ConsoleType' /\ EarlyType'
    BY DEF TypeOK, HandlerTypes
  <1>2. clientPool' = clientPool => PoolType'
    BY <1>0
  <1>3. accepting' = accepting => AcceptType'
    BY <1>0
  <1>4. handler' = handler => HandlerType'
    BY <1>0
  <1>5. socketOf' = socketOf => SocketType'
    BY <1>0
  <1>6. console' = console => ConsoleType'
    BY <1>0 DEF ConsoleTypes
  <1>7. early' = early => EarlyType'
    BY <1>0
  <1>8. ASSUME NEW n \in Conns, Accept(n) \/ AcceptFails(n) PROVE TypeOK'
    <2>1. accepting' = [pc |-> "begin", conn |-> n]
      BY <1>8 DEF Accept, AcceptFails
    <2>2. AcceptType'
      BY <2>1, ConnAssumption
    <2>3. CASE Accept(n)
      <3>1. PICK s \in Sockets \ InUse : socketOf' = [socketOf EXCEPT ![n] = s]
        BY <2>3 DEF Accept
      <3>2. SocketType'
        BY <1>0, <3>1 DEF Handles
      <3>3. /\ clientPool' = clientPool /\ handler' = handler
            /\ console' = console /\ early' = early
        BY <2>3 DEF Accept
      <3> HIDE DEF PoolType, AcceptType, HandlerType, SocketType, ConsoleType, EarlyType
      <3> QED
        BY <1>1, <1>2, <1>4, <1>6, <1>7, <2>2, <3>2, <3>3
    <2>4. CASE AcceptFails(n)
      <3>1. /\ clientPool' = clientPool /\ handler' = handler /\ socketOf' = socketOf
            /\ console' = console /\ early' = early
        BY <2>4 DEF AcceptFails
      <3> HIDE DEF PoolType, AcceptType, HandlerType, SocketType, ConsoleType, EarlyType
      <3> QED
        BY <1>1, <1>2, <1>4, <1>5, <1>6, <1>7, <2>2, <3>1
    <2> QED
      BY <1>8, <2>3, <2>4
  <1>9. ASSUME BeginThread PROVE TypeOK'
    <2>1. HandlerType'
      BY <1>0, <1>9, BeginThreadIs
    <2>2. AcceptType'
      BY <1>0, <1>9, BeginThreadIs, ConnAssumption DEF BeginThread
    <2>3. clientPool' = clientPool /\ socketOf' = socketOf /\ console' = console /\ early' = early
      BY <1>9 DEF BeginThread
    <2> HIDE DEF PoolType, AcceptType, HandlerType, SocketType, ConsoleType, EarlyType
    <2> QED
      BY <1>1, <1>2, <1>5, <1>6, <1>7, <2>1, <2>2, <2>3
  <1>10. ASSUME PushThread PROVE TypeOK'
    <2>1. accepting.pc = "pushThread" /\ accepting' = [accepting EXCEPT !.pc = "pushPool"]
      BY <1>10 DEF PushThread
    <2>2. AcceptType'
      BY <1>0, <2>1
    <2>3. /\ clientPool' = clientPool /\ handler' = handler /\ socketOf' = socketOf
          /\ console' = console /\ early' = early
      BY <1>10 DEF PushThread
    <2> HIDE DEF PoolType, AcceptType, HandlerType, SocketType, ConsoleType, EarlyType
    <2> QED
      BY <1>1, <1>2, <1>4, <1>5, <1>6, <1>7, <2>2, <2>3
  <1>11. ASSUME PushPool PROVE TypeOK'
    <2>1. accepting.conn \in Conns /\ Entry(accepting.conn) \in ClientInfos
      BY <1>0, <1>11, AtHand, EntryTypes DEF PushPool
    <2>2. PoolType'
      BY <1>0, <1>11, <2>1 DEF PushPool
    <2>3. accepting' = [pc |-> "accept", conn |-> NoConn]
      BY <1>11 DEF PushPool
    <2>4. AcceptType'
      BY <2>3
    <2>5. ConsoleType'
      BY <1>0, <1>11, Disturbance DEF PushPool
    <2>6. handler' = handler /\ socketOf' = socketOf /\ early' = early
      BY <1>11 DEF PushPool
    <2> HIDE DEF PoolType, AcceptType, HandlerType, SocketType, ConsoleType, EarlyType
    <2> QED
      BY <1>1, <1>4, <1>5, <1>7, <2>2, <2>4, <2>5, <2>6
  <1>12. ASSUME NEW n \in Conns, Hangup(n) PROVE TypeOK'
    <2>1. /\ clientPool' = clientPool /\ handler' = handler /\ socketOf' = socketOf
          /\ accepting' = accepting /\ console' = console /\ early' = early
      BY <1>12 DEF Hangup
    <2> HIDE DEF PoolType, AcceptType, HandlerType, SocketType, ConsoleType, EarlyType
    <2> QED
      BY <1>1, <1>2, <1>3, <1>4, <1>5, <1>6, <1>7, <2>1
  <1>13. ASSUME NEW n \in Conns, Leave(n) PROVE TypeOK'
    <2>1. HandlerType'
      BY <1>0, <1>13, LeaveIs
    <2>2. EarlyType'
      BY <1>0, <1>13 DEF Leave
    <2>3. /\ clientPool' = clientPool /\ socketOf' = socketOf
          /\ accepting' = accepting /\ console' = console
      BY <1>13 DEF Leave
    <2> HIDE DEF PoolType, AcceptType, HandlerType, SocketType, ConsoleType, EarlyType
    <2> QED
      BY <1>1, <1>2, <1>3, <1>5, <1>6, <2>1, <2>2, <2>3
  <1>14. ASSUME NEW n \in Conns, Erase(n) PROVE TypeOK'
    <2>1. HandlerType'
      BY <1>0, <1>14, EraseIs
    <2>2. PoolType'
      <3> QED
        BY <1>0, <1>14, ErasesAtPlace, Removed
    <2>3. ConsoleType'
      BY <1>0, <1>14, Disturbance DEF Erase
    <2>4. accepting' = accepting /\ socketOf' = socketOf /\ early' = early
      BY <1>14 DEF Erase
    <2> HIDE DEF PoolType, AcceptType, HandlerType, SocketType, ConsoleType, EarlyType
    <2> QED
      BY <1>1, <1>3, <1>5, <1>7, <2>1, <2>2, <2>3, <2>4
  <1>15. ASSUME NEW n \in Conns, CloseSocket(n) PROVE TypeOK'
    <2>1. HandlerType'
      BY <1>0, <1>15, EraseIs
    <2>2. /\ clientPool' = clientPool /\ accepting' = accepting /\ socketOf' = socketOf
          /\ console' = console /\ early' = early
      BY <1>15 DEF CloseSocket
    <2> HIDE DEF PoolType, AcceptType, HandlerType, SocketType, ConsoleType, EarlyType
    <2> QED
      BY <1>1, <1>2, <1>3, <1>5, <1>6, <1>7, <2>1, <2>2
  <1>16. ASSUME TypeLine \/ CompareAndCopy \/ LoopBody PROVE TypeOK'
    <2>1. ConsoleType'
      BY <1>0, <1>16, ConsoleStepTypes
    <2>2. /\ clientPool' = clientPool /\ accepting' = accepting /\ handler' = handler
          /\ socketOf' = socketOf /\ early' = early
      BY <1>16 DEF TypeLine, CompareAndCopy, LoopBody, poolVars
    <2> HIDE DEF PoolType, AcceptType, HandlerType, SocketType, ConsoleType, EarlyType
    <2> QED
      BY <1>1, <1>2, <1>3, <1>4, <1>5, <1>7, <2>1, <2>2
  <1>17. CASE UNCHANGED vars
    <2>1. /\ clientPool' = clientPool /\ accepting' = accepting /\ handler' = handler
          /\ socketOf' = socketOf /\ console' = console /\ early' = early
      BY <1>17 DEF vars
    <2> HIDE DEF PoolType, AcceptType, HandlerType, SocketType, ConsoleType, EarlyType
    <2> QED
      BY <1>1, <1>2, <1>3, <1>4, <1>5, <1>6, <1>7, <2>1
  <1> HIDE DEF PoolType, AcceptType, HandlerType, SocketType, ConsoleType, EarlyType
  <1> QED
    BY <1>8, <1>9, <1>10, <1>11, <1>12, <1>13, <1>14, <1>15, <1>16, <1>17 DEF Next

----------------------------------------------------------------------------
(* The connections and the accept thread.                                   *)

\* Every step, seen from one connection: its handler moves along its life, or not at all.
LEMMA HandlerMoves ==
  ASSUME TypeOK, Starting, [Next]_vars, NEW n \in Conns
  PROVE  \/ handler'[n] = handler[n]
         \/ BeginThread /\ n = accepting.conn /\ handler[n].pc = "none" /\ handler'[n].pc = "serve"
         \/ Leave(n) /\ handler[n].pc = "serve" /\ handler'[n].pc \in {"erase", "close"}
         \/ Erase(n) /\ handler[n].pc = "erase" /\ handler'[n].pc = "close"
         \/ CloseSocket(n) /\ handler[n].pc = "close" /\ handler'[n].pc = "ended"
  <1>1. CASE handler' = handler
    BY <1>1
  <1>2. CASE BeginThread
    <2>1. handler[accepting.conn].pc = "none"
      BY <1>2 DEF BeginThread, Starting
    <2> QED
      BY <1>2, <2>1, BeginThreadIs DEF Steps
  <1>3. ASSUME NEW m \in Conns, Leave(m)
        PROVE  \/ handler'[n] = handler[n]
               \/ Leave(n) /\ handler[n].pc = "serve" /\ handler'[n].pc \in {"erase", "close"}
    BY <1>3, LeaveIs DEF Steps
  <1>4. ASSUME NEW m \in Conns, Erase(m)
        PROVE  \/ handler'[n] = handler[n]
               \/ Erase(n) /\ handler[n].pc = "erase" /\ handler'[n].pc = "close"
    <2>1. handler[m].pc = "erase" /\ Steps(m, "close", handler[m].i)
      BY <1>4, EraseIs DEF Erase
    <2> QED
      BY <1>4, <2>1 DEF Steps
  <1>5. ASSUME NEW m \in Conns, CloseSocket(m)
        PROVE  \/ handler'[n] = handler[n]
               \/ CloseSocket(n) /\ handler[n].pc = "close" /\ handler'[n].pc = "ended"
    <2>1. handler[m].pc = "close" /\ Steps(m, "ended", handler[m].i)
      BY <1>5, EraseIs DEF CloseSocket
    <2> QED
      BY <1>5, <2>1 DEF Steps
  <1>6. \/ handler' = handler \/ BeginThread
        \/ \E m \in Conns : Leave(m) \/ Erase(m) \/ CloseSocket(m)
    <2>1. CASE UNCHANGED vars
      BY <2>1 DEF vars
    <2>2. CASE Next
      BY <2>2 DEF Next, Accept, AcceptFails, PushThread, PushPool, Hangup, TypeLine,
                  CompareAndCopy, LoopBody, poolVars
    <2> QED
      BY <2>1, <2>2
  <1> QED
    BY <1>1, <1>2, <1>3, <1>4, <1>5, <1>6

\* A connection is given its socket before its handler begins, and it is a free one.
LEMMA SocketGiven ==
  ASSUME TypeOK, [Next]_vars, NEW n \in Conns
  PROVE  \/ socketOf'[n] = socketOf[n]
         \/ /\ handler[n].pc = "none" /\ socketOf'[n] \in Sockets \ InUse /\ handler' = handler
            /\ \A m \in Conns \ {n} : socketOf'[m] = socketOf[m]
  <1>1. ASSUME NEW k \in Conns, Accept(k)
        PROVE  \/ socketOf'[n] = socketOf[n]
               \/ /\ handler[n].pc = "none" /\ socketOf'[n] \in Sockets \ InUse /\ handler' = handler
                  /\ \A m \in Conns \ {n} : socketOf'[m] = socketOf[m]
    <2>1. PICK s \in Sockets \ InUse : socketOf' = [socketOf EXCEPT ![k] = s]
      BY <1>1 DEF Accept
    <2>2. handler[k].pc = "none" /\ handler' = handler
      BY <1>1 DEF Accept
    <2> QED
      BY <2>1, <2>2 DEF TypeOK
  <1>2. socketOf' = socketOf \/ \E k \in Conns : Accept(k)
    <2>1. CASE UNCHANGED vars
      BY <2>1 DEF vars
    <2>2. CASE Next
      BY <2>2 DEF Next, AcceptFails, BeginThread, PushThread, PushPool, Hangup, Leave, Erase,
                  CloseSocket, TypeLine, CompareAndCopy, LoopBody, poolVars
    <2> QED
      BY <2>1, <2>2
  <1> QED
    BY <1>1, <1>2

LEMMA StartingKept ==
  ASSUME TypeOK, Starting, [Next]_vars
  PROVE  Starting'
  <1> SUFFICES ASSUME accepting'.pc = "begin"
               PROVE  handler'[accepting'.conn].pc = "none"
    BY DEF Starting
  <1>1. ASSUME NEW n \in Conns, Accept(n) \/ AcceptFails(n)
        PROVE  handler'[accepting'.conn].pc = "none"
    BY <1>1 DEF Accept, AcceptFails
  <1>2. CASE accepting' = accepting
    <2>1. accepting.conn \in Conns /\ handler[accepting.conn].pc = "none" /\ accepting.pc = "begin"
      BY <1>2, AtHand DEF Starting
    <2>2. ~BeginThread
      BY <1>2, <2>1 DEF BeginThread, TypeOK
    <2>3. handler'[accepting.conn] = handler[accepting.conn]
      BY <2>1, <2>2, HandlerMoves
    <2> QED
      BY <1>2, <2>1, <2>3
  <1>3. \/ \E n \in Conns : Accept(n) \/ AcceptFails(n)
        \/ accepting' = accepting
        \/ accepting'.pc # "begin"
    <2>1. CASE UNCHANGED vars
      BY <2>1 DEF vars
    <2>2. CASE BeginThread \/ PushThread \/ PushPool
      BY <2>2 DEF TypeOK, BeginThread, PushThread, PushPool
    <2>3. CASE Next /\ ~(BeginThread \/ PushThread \/ PushPool)
      BY <2>3 DEF Next, Hangup, Leave, Erase, CloseSocket, TypeLine, CompareAndCopy, LoopBody,
                  poolVars
    <2> QED
      BY <2>1, <2>2, <2>3
  <1> QED
    BY <1>1, <1>2, <1>3

LEMMA SocketsKeptApart ==
  ASSUME TypeOK, Starting, SocketsApart, [Next]_vars
  PROVE  SocketsApart'
  <1> SUFFICES ASSUME NEW m \in Conns, NEW n \in Conns, m # n, handler'[m].pc # "ended",
                      handler'[n].pc # "ended", socketOf'[m] = socketOf'[n]
               PROVE  socketOf'[m] = INVALID_SOCKET
    BY DEF SocketsApart
  <1>1. handler[m].pc # "ended" /\ handler[n].pc # "ended"
    BY HandlerMoves
  <1>2. socketOf[m] \in InUse /\ socketOf[n] \in InUse
    BY <1>1 DEF InUse
  <1>3. socketOf'[m] = socketOf[m] /\ socketOf'[n] = socketOf[n]
    BY <1>2, SocketGiven
  <1> QED
    BY <1>1, <1>3 DEF SocketsApart

LEMMA RacedStays ==
  ASSUME TypeOK, Starting, Raced, [Next]_vars
  PROVE  Raced'
  <1>1. CASE early # {}
    <2>1. early \subseteq early'
      <3>1. CASE UNCHANGED vars
        BY <3>1 DEF vars
      <3>2. CASE Next
        BY <3>2 DEF Next, Accept, AcceptFails, BeginThread, PushThread, PushPool, Hangup, Leave,
                    Erase, CloseSocket, TypeLine, CompareAndCopy, LoopBody, poolVars
      <3> QED
        BY <3>1, <3>2
    <2> QED
      BY <1>1, <2>1 DEF Raced
  <1>2. CASE shifted
    <2>1. shifted'
      <3>1. CASE UNCHANGED vars
        BY <1>2, <3>1 DEF vars
      <3>2. ASSUME NEW n \in Conns, Erase(n) PROVE shifted'
        BY <1>2, <3>2, Zenon DEF Erase
      <3>3. CASE Next /\ ~(\E n \in Conns : Erase(n))
        <4>1. shifted' = shifted
          BY <3>3 DEF Next, Accept, AcceptFails, BeginThread, PushThread, PushPool, Hangup, Leave,
                      CloseSocket, TypeLine, CompareAndCopy, LoopBody, poolVars
        <4> QED
          BY <1>2, <4>1
      <3> QED
        BY <3>1, <3>2, <3>3
    <2> QED
      BY <2>1 DEF Raced
  <1>3. ASSUME NEW m \in Conns, NEW n \in Conns, m # n,
               handler[m].pc # "none", handler[n].pc # "none",
               socketOf[m] = INVALID_SOCKET, socketOf[n] = INVALID_SOCKET
        PROVE  Raced'
    <2>1. handler'[m].pc # "none" /\ handler'[n].pc # "none"
      BY <1>3, HandlerMoves
    <2>2. socketOf'[m] = socketOf[m] /\ socketOf'[n] = socketOf[n]
      BY <1>3, SocketGiven
    <2> QED
      BY <1>3, <2>1, <2>2 DEF Raced
  <1> QED
    BY <1>1, <1>2, <1>3 DEF Raced

----------------------------------------------------------------------------
(* The pool, as long as nothing has raced.                                  *)

LEMMA Places ==
  ASSUME TypeOK
  PROVE  /\ Len(clientPool) \in Nat /\ DOMAIN clientPool = 1 .. Len(clientPool)
         /\ \A i \in DOMAIN clientPool : clientPool[i].addr \in Conns
  <1>1. clientPool \in Seq(ClientInfos)
    BY DEF TypeOK
  <1>2. Len(clientPool) \in Nat /\ DOMAIN clientPool = 1 .. Len(clientPool)
    BY <1>1
  <1>3. \A i \in DOMAIN clientPool : clientPool[i] \in ClientInfos
    BY <1>1, <1>2
  <1> QED
    BY <1>2, <1>3 DEF ClientInfos

\* An entry with the socket of a connection that is being served is its own.
LEMMA Matching ==
  ASSUME TypeOK, SocketsApart, Entries, ~Raced, NEW n \in Conns, Holds(n),
         NEW i \in DOMAIN clientPool, clientPool[i].socket = socketOf[n]
  PROVE  clientPool[i].addr = n
  <1>1. PICK m \in Conns : m = clientPool[i].addr
    BY Places
  <1>2. clientPool[i] = Entry(m) /\ Holds(m)
    BY <1>1 DEF Entries
  <1>3. socketOf[m] = socketOf[n]
    BY <1>2 DEF Entry
  <1>4. CASE m # n
    BY <1>2, <1>3, <1>4 DEF SocketsApart, Holds, Raced
  <1> QED
    BY <1>1, <1>4

LEMMA SettledByAccept ==
  ASSUME TypeOK, Settled, NEW n \in Conns, Accept(n) \/ AcceptFails(n)
  PROVE  Settled'
  <1>1. /\ clientPool' = clientPool /\ handler' = handler
        /\ accepting'.pc = "begin" /\ accepting'.conn = n
        /\ handler[n].pc = "none" /\ accepting.conn = NoConn
    BY DEF Accept, AcceptFails, TypeOK
  <1>2. \A m \in Conns \ {n} : socketOf'[m] = socketOf[m]
    BY DEF Accept, AcceptFails, TypeOK
  <1>3. ~Holds(n)
    BY <1>1 DEF Holds
  <1>4. Entries'
    <2>1. ASSUME NEW i \in DOMAIN clientPool
          PROVE  LET m == clientPool[i].addr
                 IN  /\ clientPool[i] = [socket |-> socketOf'[m], addr |-> m]
                     /\ handler'[m].pc \in {"serve", "erase"} /\ m # n
      <3>1. PICK m \in Conns : m = clientPool[i].addr
        BY Places
      <3>2. clientPool[i] = Entry(m) /\ Holds(m)
        BY <3>1 DEF Settled, Entries
      <3> QED
        BY <1>1, <1>2, <1>3, <3>1, <3>2 DEF Entry, Holds
    <2> QED
      BY <1>1, <2>1 DEF Settled, Entries, Entry, Holds
  <1>5. Listed'
    BY <1>1, ConnAssumption DEF Settled, Listed, Holds
  <1>6. Pushing'
    BY <1>1 DEF Pushing
  <1>7. Found'
    BY <1>1 DEF Settled, Found
  <1> QED
    BY <1>4, <1>5, <1>6, <1>7 DEF Settled

LEMMA SettledByBegin ==
  ASSUME TypeOK, Starting, Settled, BeginThread
  PROVE  Settled'
  <1>1. PICK n \in Conns : n = accepting.conn
    BY BeginThreadIs
  <1>2. /\ clientPool' = clientPool /\ socketOf' = socketOf
        /\ accepting'.pc = "pushThread" /\ accepting'.conn = n
        /\ handler[n].pc = "none" /\ handler'[n].pc = "serve"
        /\ \A m \in Conns \ {n} : handler'[m] = handler[m]
    BY <1>1, BeginThreadIs DEF BeginThread, Starting, Steps
  <1>3. Entries'
    <2>1. ASSUME NEW i \in DOMAIN clientPool
          PROVE  LET m == clientPool[i].addr
                 IN  /\ clientPool[i] = Entry(m)
                     /\ handler'[m].pc \in {"serve", "erase"} /\ m # n
      <3>1. PICK m \in Conns : m = clientPool[i].addr
        BY Places
      <3>2. clientPool[i] = Entry(m) /\ Holds(m) /\ m # n
        BY <1>1, <3>1 DEF Settled, Entries
      <3> QED
        BY <1>2, <3>1, <3>2 DEF Holds
    <2> QED
      BY <1>2, <2>1 DEF Settled, Entries, Entry, Holds
  <1>4. Listed'
    BY <1>1, <1>2 DEF Settled, Listed, Holds
  <1>5. Pushing'
    BY <1>2 DEF Pushing
  <1>6. Found'
    BY <1>2 DEF Settled, Found
  <1> QED
    BY <1>3, <1>4, <1>5, <1>6 DEF Settled

LEMMA SettledByPush ==
  ASSUME TypeOK, Settled, PushPool
  PROVE  Settled'
  <1>1. PICK n \in Conns : n = accepting.conn
    BY AtHand DEF PushPool
  <1>2. /\ clientPool' = Append(clientPool, Entry(n)) /\ socketOf' = socketOf
        /\ handler' = handler /\ accepting'.pc = "accept" /\ accepting'.conn = NoConn
    BY <1>1 DEF PushPool
  <1>3. Holds(n)
    BY <1>1 DEF Settled, Pushing, Holds, PushPool
  <1>4. Entry(n) \in ClientInfos /\ Entry(n).addr = n
    BY EntryTypes
  <1> DEFINE new == Entry(n)
             l == Len(clientPool)
  <1>5. /\ l \in Nat /\ DOMAIN clientPool = 1 .. l /\ DOMAIN clientPool' = 1 .. l + 1
        /\ clientPool'[l + 1] = new
        /\ \A i \in 1 .. l : clientPool'[i] = clientPool[i]
    <2>1. new \in ClientInfos /\ clientPool \in Seq(ClientInfos) /\ clientPool' = Append(clientPool, new)
      BY <1>2, <1>4 DEF TypeOK
    <2> HIDE DEF new
    <2> QED
      BY <2>1
  <1>6. new.addr = n /\ \A i \in 1 .. l : clientPool[i].addr # n
    BY <1>1, <1>4, <1>5 DEF Settled, Entries
  <1>7. Entries'
    <2>1. ASSUME NEW i \in 1 .. l + 1
          PROVE  LET m == clientPool'[i].addr
                 IN  /\ clientPool'[i] = Entry(m)
                     /\ handler[m].pc \in {"serve", "erase"} /\ m # NoConn
      <3>1. CASE i = l + 1
        BY <1>3, <1>4, <1>5, <3>1, ConnAssumption DEF Holds
      <3>2. CASE i \in 1 .. l
        <4>1. PICK m \in Conns : m = clientPool[i].addr
          BY <1>5, <3>2, Places
        <4>2. clientPool[i] = Entry(m) /\ Holds(m)
          BY <1>5, <3>2, <4>1 DEF Settled, Entries
        <4> QED
          BY <1>5, <3>2, <4>1, <4>2, ConnAssumption DEF Holds
      <3> QED
        BY <1>5, <3>1, <3>2
    <2>2. ASSUME NEW i \in 1 .. l + 1, NEW j \in 1 .. l + 1, clientPool'[i].addr = clientPool'[j].addr
          PROVE  i = j
      <3> HIDE DEF new, l
      <3>1. CASE i \in 1 .. l /\ j \in 1 .. l
        BY <1>5, <2>2, <3>1 DEF Settled, Entries
      <3>2. CASE i = l + 1 /\ j \in 1 .. l
        BY <1>5, <1>6, <2>2, <3>2
      <3>3. CASE i \in 1 .. l /\ j = l + 1
        BY <1>5, <1>6, <2>2, <3>3
      <3> QED
        BY <1>5, <3>1, <3>2, <3>3
    <2> HIDE DEF l
    <2> QED
      BY <1>2, <1>5, <2>1, <2>2 DEF Entries, Entry, Holds
  <1>8. Listed'
    <2>1. ASSUME NEW m \in Conns, Holds(m)
          PROVE  \E i \in 1 .. l + 1 : clientPool'[i].addr = m
      <3>1. CASE m = n
        BY <1>5, <1>6, <3>1
      <3>2. CASE m # n
        <4>1. PICK i \in 1 .. l : clientPool[i].addr = m
          BY <1>1, <1>5, <2>1, <3>2 DEF Settled, Listed
        <4> QED
          BY <1>5, <4>1
      <3> QED
        BY <3>1, <3>2
    <2> HIDE DEF l
    <2> QED
      BY <1>2, <1>5, <2>1 DEF Listed, Holds
  <1>9. Pushing'
    BY <1>2 DEF Pushing
  <1>10. Found'
    <2>1. ASSUME NEW m \in Conns, handler[m].pc = "erase"
          PROVE  handler[m].i \in 1 .. l + 1 /\ clientPool'[handler[m].i].addr = m
      <3>1. handler[m].i \in 1 .. l /\ clientPool[handler[m].i].addr = m
        BY <1>5, <2>1 DEF Settled, Found
      <3> HIDE DEF new, l
      <3> QED
        BY <1>5, <3>1
    <2> HIDE DEF l
    <2> QED
      BY <1>2, <1>5, <2>1 DEF Found
  <1> QED
    BY <1>7, <1>8, <1>9, <1>10 DEF Settled

LEMMA SettledByLeave ==
  ASSUME TypeOK, SocketsApart, Settled, ~Raced, ~Raced', NEW n \in Conns, Leave(n)
  PROVE  Settled'
  <1>1. handler[n].pc = "serve" /\ Holds(n)
    BY DEF Leave, Holds
  <1>2. PICK i \in DOMAIN clientPool : clientPool[i].addr = n
    <2>1. early' = {}
      BY DEF Raced
    <2> QED
      BY <2>1 DEF Leave
  <1>3. clientPool[i].socket = socketOf[n]
    BY <1>2 DEF Settled, Entries, Entry
  <1>4. \A j \in DOMAIN clientPool : clientPool[j].socket = socketOf[n] => j = i
    BY <1>1, <1>2, Matching DEF Settled, Entries
  <1>5. i \in Nat
    BY DEF TypeOK
  <1>6. Matches(socketOf[n]) = {i}
    BY <1>3, <1>4, <1>5 DEF Matches
  <1>7. Steps(n, "erase", i)
    BY <1>6, LeaveIs
  <1>8. clientPool' = clientPool /\ socketOf' = socketOf /\ accepting' = accepting
    BY DEF Leave
  <1>9. \A m \in Conns : handler'[m].pc \in {"serve", "erase"} <=> Holds(m)
    BY <1>1, <1>7 DEF Steps, Holds
  <1>10. Entries'
    <2>1. \A k \in DOMAIN clientPool : clientPool[k].addr \in Conns
      BY Places
    <2> QED
      BY <1>8, <1>9, <2>1 DEF Settled, Entries, Entry, Holds
  <1>11. Listed'
    BY <1>8, <1>9 DEF Settled, Listed, Holds
  <1>12. Pushing'
    <2> SUFFICES ASSUME accepting.pc \in {"pushThread", "pushPool"}
                 PROVE  handler'[accepting.conn].pc = "serve"
      BY <1>8 DEF Pushing
    <2>1. accepting.conn \in Conns
      BY AtHand
    <2>2. accepting.conn # n
      BY <1>2 DEF Settled, Entries
    <2> QED
      BY <1>7, <2>1, <2>2 DEF Steps, Settled, Pushing
  <1>13. Found'
    BY <1>2, <1>7, <1>8 DEF Steps, Settled, Found
  <1> QED
    BY <1>10, <1>11, <1>12, <1>13 DEF Settled

LEMMA SettledByErase ==
  ASSUME TypeOK, Settled, ~Raced', NEW n \in Conns, Erase(n)
  PROVE  Settled'
  <1> DEFINE l == Len(clientPool)
             p == handler[n].i
             At(j) == IF j < p THEN j ELSE j + 1
  <1>1. /\ handler[n].pc = "erase" /\ socketOf' = socketOf /\ accepting' = accepting
        /\ Steps(n, "close", p)
    BY EraseIs DEF Erase
  <1>2. l \in Nat /\ DOMAIN clientPool = 1 .. l /\ \A i \in 1 .. l : clientPool[i].addr \in Conns
    BY Places
  <1>3. p \in 1 .. l /\ clientPool[p].addr = n
    BY <1>1, <1>2 DEF Settled, Found
  <1>4. \A m \in Conns \ {n} : handler[m].pc # "erase"
    <2>1. ~shifted'
      BY DEF Raced
    <2> QED
      BY <2>1, Zenon DEF Erase
  <1>5. \A m \in Conns : handler'[m].pc # "erase"
    BY <1>1, <1>4 DEF Steps
  <1>6. \A m \in Conns \ {n} : handler'[m] = handler[m]
    BY <1>1 DEF Steps
  <1>7. handler'[n].pc = "close"
    BY <1>1 DEF Steps
  <1>8. clientPool' = RemoveAt(clientPool, p)
    BY <1>3, ErasesAtPlace
  <1>9. /\ DOMAIN clientPool' = 1 .. l - 1
        /\ \A j \in 1 .. l - 1 : /\ At(j) \in 1 .. l /\ At(j) # p
                                 /\ clientPool'[j] = clientPool[At(j)]
    <2>1. clientPool \in Seq(ClientInfos)
      BY DEF TypeOK
    <2>2. /\ clientPool' \in Seq(ClientInfos) /\ Len(clientPool') = l - 1
          /\ \A j \in 1 .. l - 1 : /\ j < p => clientPool'[j] = clientPool[j]
                                   /\ j >= p => clientPool'[j] = clientPool[j + 1]
      BY <1>3, <1>8, <2>1, Removed
    <2> HIDE DEF l, p
    <2>3. DOMAIN clientPool' = 1 .. l - 1
      BY <2>2
    <2>4. ASSUME NEW j \in 1 .. l - 1
          PROVE  At(j) \in 1 .. l /\ At(j) # p /\ clientPool'[j] = clientPool[At(j)]
      <3>1. l \in Nat /\ p \in 1 .. l
        BY <1>2, <1>3
      <3>2. CASE j < p
        BY <2>2, <3>1, <3>2
      <3>3. CASE ~(j < p)
        BY <2>2, <3>1, <3>3
      <3> QED
        BY <3>2, <3>3
    <2> QED
      BY <2>3, <2>4
  <1>10. \A i, j \in 1 .. l - 1 : At(i) = At(j) => i = j
    <2> HIDE DEF l, p
    <2> QED
      BY <1>2, <1>3
  <1>11. \A i \in 1 .. l : i # p => \E j \in 1 .. l - 1 : At(j) = i
    <2> SUFFICES ASSUME NEW i \in 1 .. l, i # p
                 PROVE  \E j \in 1 .. l - 1 : At(j) = i
      OBVIOUS
    <2> HIDE DEF l, p
    <2>1. CASE i < p
      BY <1>2, <1>3, <2>1
    <2>2. CASE i > p
      BY <1>2, <1>3, <2>2
    <2> QED
      BY <1>2, <1>3, <2>1, <2>2
  <1>12. \A i \in 1 .. l : i # p => clientPool[i].addr # n
    BY <1>2, <1>3 DEF Settled, Entries
  <1> HIDE DEF At
  <1>13. Entries'
    <2>1. ASSUME NEW j \in 1 .. l - 1
          PROVE  LET m == clientPool'[j].addr
                 IN  /\ clientPool'[j] = Entry(m)
                     /\ handler'[m].pc \in {"serve", "erase"} /\ m # accepting.conn
      <3>1. PICK i \in 1 .. l : i = At(j) /\ i # p /\ clientPool'[j] = clientPool[i]
        BY <1>9
      <3>2. PICK m \in Conns : m = clientPool[i].addr
        BY <1>2, <3>1
      <3>3. clientPool[i] = Entry(m) /\ Holds(m) /\ m # accepting.conn
        BY <1>2, <3>1, <3>2 DEF Settled, Entries
      <3>4. handler'[m] = handler[m]
        BY <1>6, <1>12, <3>1, <3>2
      <3> QED
        BY <3>1, <3>2, <3>3, <3>4 DEF Holds
    <2>2. ASSUME NEW i \in 1 .. l - 1, NEW j \in 1 .. l - 1, clientPool'[i].addr = clientPool'[j].addr
          PROVE  i = j
      <3>1. At(i) = At(j)
        BY <1>2, <1>9, <2>2 DEF Settled, Entries
      <3> QED
        BY <1>10, <3>1
    <2> HIDE DEF l, p
    <2> QED
      BY <1>1, <1>9, <2>1, <2>2 DEF Entries, Entry, Holds
  <1>14. Listed'
    <2>1. ASSUME NEW m \in Conns, handler'[m].pc \in {"serve", "erase"}, m # accepting.conn
          PROVE  \E j \in 1 .. l - 1 : clientPool'[j].addr = m
      <3>1. m # n /\ Holds(m)
        BY <1>6, <1>7, <2>1 DEF Holds
      <3>2. PICK i \in 1 .. l : clientPool[i].addr = m
        BY <1>2, <2>1, <3>1 DEF Settled, Listed
      <3>3. i # p
        BY <1>3, <3>1, <3>2
      <3>4. PICK j \in 1 .. l - 1 : At(j) = i
        BY <1>11, <3>3
      <3> QED
        BY <1>9, <3>2, <3>4
    <2> HIDE DEF l, p
    <2> QED
      BY <1>1, <1>9, <2>1 DEF Listed, Holds
  <1>15. Pushing'
    <2> SUFFICES ASSUME accepting.pc \in {"pushThread", "pushPool"}
                 PROVE  handler'[accepting.conn].pc = "serve"
      BY <1>1 DEF Pushing
    <2>1. accepting.conn \in Conns /\ handler[accepting.conn].pc = "serve"
      BY AtHand DEF Settled, Pushing
    <2> QED
      BY <1>1, <1>6, <2>1
  <1>16. Found'
    BY <1>5 DEF Found
  <1> QED
    BY <1>13, <1>14, <1>15, <1>16 DEF Settled

\* The steps that leave the pool, the accept thread and the handlers' part in it alone.
LEMMA SettledByOthers ==
  ASSUME TypeOK, Settled, clientPool' = clientPool, socketOf' = socketOf,
         accepting' = accepting \/ PushThread,
         \A m \in Conns : \/ handler'[m] = handler[m]
                          \/ handler[m].pc = "close" /\ handler'[m].pc = "ended"
  PROVE  Settled'
  <1>1. accepting'.conn = accepting.conn
    BY DEF TypeOK, PushThread
  <1>2. accepting'.pc \in {"pushThread", "pushPool"} => accepting.pc \in {"pushThread", "pushPool"}
    BY DEF PushThread
  <1>3. \A m \in Conns : handler'[m].pc \in {"serve", "erase"} <=> Holds(m)
    BY DEF Holds
  <1>4. \A m \in Conns : Holds(m) => handler'[m] = handler[m]
    BY DEF Holds
  <1>5. Entries'
    <2>1. \A k \in DOMAIN clientPool : clientPool[k].addr \in Conns
      BY Places
    <2> QED
      BY <1>1, <1>3, <2>1 DEF Settled, Entries, Entry, Holds
  <1>6. Listed'
    BY <1>1, <1>3 DEF Settled, Listed, Holds
  <1>7. Pushing'
    <2> SUFFICES ASSUME accepting.pc \in {"pushThread", "pushPool"}
                 PROVE  handler'[accepting.conn].pc = "serve"
      BY <1>1, <1>2 DEF Pushing
    <2>1. accepting.conn \in Conns /\ handler[accepting.conn].pc = "serve"
      BY AtHand DEF Settled, Pushing
    <2> QED
      BY <1>4, <2>1 DEF Holds
  <1>8. Found'
    BY <1>3, <1>4 DEF Settled, Found, Holds
  <1> QED
    BY <1>5, <1>6, <1>7, <1>8 DEF Settled

LEMMA SettledKept ==
  ASSUME TypeOK, Starting, SocketsApart, Settled, ~Raced', [Next]_vars
  PROVE  Settled'
  <1>1. ~Raced
    BY RacedStays
  <1>2. CASE UNCHANGED vars
    BY <1>2, SettledByOthers DEF vars
  <1>3. ASSUME NEW n \in Conns, CloseSocket(n)
        PROVE  Settled'
    <2>1. /\ clientPool' = clientPool /\ socketOf' = socketOf /\ accepting' = accepting
          /\ handler[n].pc = "close" /\ Steps(n, "ended", handler[n].i)
      BY <1>3, EraseIs DEF CloseSocket
    <2> QED
      BY <2>1, SettledByOthers DEF Steps
  <1>4. CASE PushThread
    <2>1. clientPool' = clientPool /\ socketOf' = socketOf /\ handler' = handler
      BY <1>4 DEF PushThread
    <2> QED
      BY <1>4, <2>1, SettledByOthers
  <1>5. CASE (\E n \in Conns : Hangup(n)) \/ TypeLine \/ CompareAndCopy \/ LoopBody
    <2>1. /\ clientPool' = clientPool /\ socketOf' = socketOf /\ accepting' = accepting
          /\ handler' = handler
      BY <1>5 DEF Hangup, TypeLine, CompareAndCopy, LoopBody, poolVars
    <2> QED
      BY <2>1, SettledByOthers
  <1> QED
    BY <1>1, <1>2, <1>3, <1>4, <1>5, SettledByAccept, SettledByBegin, SettledByPush, SettledByLeave,
       SettledByErase DEF Next

----------------------------------------------------------------------------
(* The console.                                                             *)

\* A step either is one of the console's, or leaves the console and the pool alone, or
\* changes the pool and disturbs the console.
LEMMA ConsoleMoves ==
  ASSUME [Next]_vars
  PROVE  \/ TypeLine \/ CompareAndCopy \/ LoopBody
         \/ console' = console /\ clientPool' = clientPool
         \/ Disturbs
  <1>1. CASE UNCHANGED vars
    BY <1>1 DEF vars
  <1>2. CASE Next
    BY <1>2 DEF Next, Accept, AcceptFails, BeginThread, PushThread, PushPool, Hangup, Leave, Erase,
                CloseSocket
  <1> QED
    BY <1>1, <1>2

LEMMA TypeLineIs ==
  ASSUME TypeLine
  PROVE  /\ console'.pc = "compare" /\ console'.command \in {"list", "send"}
         /\ console'.it = 1 /\ console'.end = Len(clientPool) /\ console'.start = clientPool
         /\ console'.reached = <<>> /\ clientPool' = clientPool
  BY DEF TypeLine, ConsoleIdle, poolVars

LEMMA CompareIs ==
  ASSUME TypeOK, Walking, CompareAndCopy, ~console.disturbed
  PROVE  /\ clientPool' = clientPool
         /\ \/ console.it = Len(clientPool) + 1 /\ console'.pc = "cin"
            \/ /\ console.it \in 1 .. Len(clientPool) /\ console'.pc = "body"
               /\ console'.c = clientPool[console.it]
               /\ console'.command = console.command /\ console'.it = console.it
               /\ console'.end = console.end /\ console'.start = console.start
               /\ console'.reached = console.reached /\ console'.disturbed = console.disturbed
  <1>1. /\ console.pc = "compare" /\ clientPool' = clientPool
        /\ console' = IF AtEnd(console.it, console.end) THEN ConsoleIdle
                      ELSE [console EXCEPT !.pc = "body", !.c = clientPool[console.it]]
    BY DEF CompareAndCopy, poolVars
  <1>2. Len(clientPool) \in Nat
    BY DEF TypeOK
  <1>3. console.end = Len(clientPool) /\ console.it \in 1 .. Len(clientPool) + 1
    BY <1>1 DEF Walking
  <1>4. CASE AtEnd(console.it, console.end)
    <2>1. console.it = Len(clientPool) + 1
      BY <1>2, <1>3, <1>4 DEF AtEnd
    <2>2. console'.pc = "cin"
      BY <1>1, <1>4 DEF ConsoleIdle
    <2> QED
      BY <1>1, <2>1, <2>2
  <1>5. CASE ~AtEnd(console.it, console.end)
    <2>1. console.it \in 1 .. Len(clientPool)
      BY <1>2, <1>3, <1>5 DEF AtEnd
    <2>2. DOMAIN console = DOMAIN ConsoleIdle
      BY DEF TypeOK
    <2>3. console' = [console EXCEPT !.pc = "body", !.c = clientPool[console.it]]
      BY <1>1, <1>5
    <2>4. /\ console'.pc = "body" /\ console'.c = clientPool[console.it]
          /\ console'.command = console.command /\ console'.it = console.it
          /\ console'.end = console.end /\ console'.start = console.start
          /\ console'.reached = console.reached /\ console'.disturbed = console.disturbed
      BY <2>2, <2>3 DEF ConsoleIdle
    <2> QED
      BY <1>1, <2>1, <2>4
  <1> QED
    BY <1>4, <1>5

\* What the body of the loop reaches.
Reached == IF console.command = "list" THEN console.c.addr ELSE Peer(console.c.socket)

LEMMA LoopBodyIs ==
  ASSUME TypeOK, LoopBody
  PROVE  /\ clientPool' = clientPool /\ console.pc = "body" /\ console'.pc = "compare"
         /\ console'.command = console.command /\ console'.it = console.it + 1
         /\ console'.end = console.end /\ console'.start = console.start
         /\ console'.disturbed = console.disturbed
         /\ console'.reached = Append(console.reached, Reached)
  <1>1. DOMAIN console = DOMAIN ConsoleIdle
    BY DEF TypeOK
  <1> DEFINE x == Reached
  <1>2. /\ console.pc = "body" /\ clientPool' = clientPool
        /\ console' = [console EXCEPT !.pc = "compare", !.it = console.it + 1, !.c = NoConn,
                                      !.reached = Append(console.reached, x)]
    BY DEF LoopBody, poolVars, Reached
  <1> HIDE DEF x
  <1>3. /\ console'.pc = "compare" /\ console'.command = console.command
        /\ console'.it = console.it + 1 /\ console'.end = console.end
        /\ console'.start = console.start /\ console'.disturbed = console.disturbed
        /\ console'.reached = Append(console.reached, x)
    BY <1>1, <1>2 DEF ConsoleIdle
  <1> QED
    BY <1>2, <1>3 DEF x

LEMMA WalkingKept ==
  ASSUME TypeOK, Walking, [Next]_vars
  PROVE  Walking'
  <1>0. Len(clientPool) \in Nat
    BY DEF TypeOK
  <1>1. CASE console' = console /\ clientPool' = clientPool
    BY <1>1 DEF Walking
  <1>2. CASE Disturbs
    BY <1>2, Disturbance DEF Walking
  <1>3. CASE TypeLine
    BY <1>0, <1>3, TypeLineIs DEF Walking
  <1>4. CASE CompareAndCopy
    <2>1. CASE console.disturbed
      <3>1. console' = console /\ clientPool' = clientPool
        BY <1>4, <2>1 DEF CompareAndCopy, poolVars
      <3> QED
        BY <3>1 DEF Walking
    <2>2. CASE ~console.disturbed
      <3>1. console.pc = "compare"
        BY <1>4 DEF CompareAndCopy
      <3>2. CASE console'.pc = "cin"
        BY <3>2 DEF Walking
      <3>3. CASE console'.pc # "cin"
        <4>1. /\ clientPool' = clientPool
              /\ console.it \in 1 .. Len(clientPool) /\ console'.pc = "body"
              /\ console'.c = clientPool[console.it]
              /\ console'.command = console.command /\ console'.it = console.it
              /\ console'.end = console.end /\ console'.start = console.start
              /\ console'.reached = console.reached
          BY <1>4, <2>2, <3>3, CompareIs
        <4>2. /\ console.command \in {"list", "send"}
              /\ console.start = clientPool /\ console.end = Len(clientPool)
              /\ Len(console.reached) = console.it - 1
          BY <2>2, <3>1 DEF Walking
        <4> QED
          BY <1>0, <4>1, <4>2 DEF Walking
      <3> QED
        BY <3>2, <3>3
    <2> QED
      BY <2>1, <2>2
  <1>5. CASE LoopBody
    <2>1. CASE console.disturbed
      <3>1. console'.disturbed
        BY <1>5, <2>1, LoopBodyIs
      <3> QED
        BY <3>1 DEF Walking
    <2>2. CASE ~console.disturbed
      <3> DEFINE x == Reached
                 r == console.reached
                 it == console.it
      <3>1. /\ clientPool' = clientPool /\ console.pc = "body" /\ console'.pc = "compare"
            /\ console'.command = console.command /\ console'.it = it + 1
            /\ console'.end = console.end /\ console'.start = console.start
            /\ console'.reached = Append(r, x)
        BY <1>5, LoopBodyIs
      <3>2. /\ console.command \in {"list", "send"}
            /\ console.start = clientPool /\ console.end = Len(clientPool)
            /\ it \in 1 .. Len(clientPool) /\ Len(r) = it - 1
        BY <1>0, <2>2, <3>1 DEF Walking
      <3>3. r \in Seq(Conns \cup {NoConn})
        BY DEF TypeOK, ConsoleTypes
      <3>4. \A y : Len(Append(r, y)) = Len(r) + 1
        BY <3>3
      <3>5. Len(console'.reached) = it
        <4> HIDE DEF x, r
        <4> QED
          BY <3>1, <3>2, <3>4
      <3>6. console'.it \in 1 .. Len(clientPool) + 1 /\ console'.it - 1 = it
        BY <1>0, <3>1, <3>2
      <3> HIDE DEF x, r, it
      <3> QED
        BY <3>1, <3>2, <3>5, <3>6, Zenon DEF Walking
    <2> QED
      BY <2>1, <2>2
  <1> QED
    BY <1>1, <1>2, <1>3, <1>4, <1>5, ConsoleMoves

\* The socket of an entry is that of its connection and of no other.
LEMMA OwnPeer ==
  ASSUME TypeOK, SocketsApart, NEW n \in Conns, Holds(n)
  PROVE  Peer(socketOf[n]) = IF socketOf[n] = INVALID_SOCKET THEN NoConn ELSE n
  <1>1. CASE socketOf[n] = INVALID_SOCKET
    BY <1>1 DEF Peer
  <1>2. CASE socketOf[n] # INVALID_SOCKET
    <2> DEFINE s == socketOf[n]
               P(m) == socketOf[m] = s /\ handler[m].pc # "ended"
    <2>1. P(n)
      BY DEF Holds
    <2>2. \A m \in Conns : P(m) => m = n
      BY <1>2, <2>1 DEF SocketsApart
    <2>3. (CHOOSE m \in Conns : P(m)) = n
      <3> HIDE DEF P
      <3> QED
        BY <2>1, <2>2
    <2> QED
      BY <1>2, <2>1, <2>3 DEF Peer
  <1> QED
    BY <1>1, <1>2

\* The body of an undisturbed loop reaches the connection its entry is meant for.
LEMMA ReachesMeant ==
  ASSUME TypeOK, Walking, SocketsApart, Settled, LoopBody, ~console.disturbed
  PROVE  Reached = MeantFor[console.it]
  <1>1. console.pc = "body"
    BY DEF LoopBody
  <1>2. /\ console.command \in {"list", "send"} /\ console.start = clientPool
        /\ console.it \in 1 .. Len(clientPool) + 1 /\ console.it <= Len(clientPool)
        /\ console.c = clientPool[console.it]
    BY <1>1 DEF Walking
  <1>3. PICK i \in DOMAIN clientPool : i = console.it
    BY <1>2, Places
  <1>4. PICK m \in Conns : m = clientPool[i].addr
    BY Places
  <1>5. clientPool[i] = Entry(m) /\ Holds(m)
    BY <1>4 DEF Settled, Entries
  <1>6. console.c.addr = m /\ console.c.socket = socketOf[m]
    BY <1>2, <1>3, <1>5 DEF Entry
  <1>7. MeantFor[i] = IF console.command = "send" /\ socketOf[m] = INVALID_SOCKET THEN NoConn ELSE m
    BY <1>2, <1>5 DEF MeantFor, Entry
  <1>8. Reached = IF console.command = "list" THEN m ELSE Peer(socketOf[m])
    BY <1>6 DEF Reached
  <1> QED
    BY <1>2, <1>3, <1>5, <1>7, <1>8, OwnPeer

LEMMA ReachingKept ==
  ASSUME TypeOK, Walking, SocketsApart, Settled, Reaching, [Next]_vars
  PROVE  Reaching'
  <1>1. CASE console' = console
    BY <1>1 DEF Reaching, MeantFor
  <1>2. CASE Disturbs
    BY <1>2, Disturbance DEF Reaching
  <1>3. CASE TypeLine
    BY <1>3, TypeLineIs DEF Reaching
  <1>4. CASE CompareAndCopy
    <2>1. CASE console.disturbed
      BY <1>1, <1>4, <2>1 DEF CompareAndCopy
    <2>2. CASE ~console.disturbed
      <3>1. console.pc = "compare"
        BY <1>4 DEF CompareAndCopy
      <3>2. CASE console'.pc = "cin"
        BY <3>2 DEF Reaching
      <3>3. CASE console'.pc # "cin"
        <4>1. /\ console'.command = console.command /\ console'.it = console.it
              /\ console'.start = console.start /\ console'.reached = console.reached
          BY <1>4, <2>2, <3>3, CompareIs
        <4>2. MeantFor' = MeantFor
          BY <4>1 DEF MeantFor
        <4>3. \A j \in 1 .. console.it - 1 : console.reached[j] = MeantFor[j]
          BY <2>2, <3>1 DEF Reaching
        <4> QED
          BY <4>1, <4>2, <4>3 DEF Reaching
      <3> QED
        BY <3>2, <3>3
    <2> QED
      BY <2>1, <2>2
  <1>5. CASE LoopBody
    <2>1. CASE console.disturbed
      <3>1. console'.disturbed
        BY <1>5, <2>1, LoopBodyIs
      <3> QED
        BY <3>1 DEF Reaching
    <2>2. CASE ~console.disturbed
      <3> DEFINE x == Reached
                 r == console.reached
                 it == console.it
      <3>1. /\ console.pc = "body" /\ console'.pc = "compare"
            /\ console'.command = console.command /\ console'.it = it + 1
            /\ console'.start = console.start
            /\ console'.reached = Append(r, x)
        BY <1>5, LoopBodyIs
      <3>2. MeantFor' = MeantFor
        BY <3>1 DEF MeantFor
      <3>3. \A j \in 1 .. it - 1 : r[j] = MeantFor[j]
        BY <2>2, <3>1 DEF Reaching
      <3>4. x = MeantFor[it]
        BY <1>5, <2>2, ReachesMeant
      <3>5. r \in Seq(Conns \cup {NoConn}) /\ it \in Nat /\ Len(r) = it - 1
        BY <2>2, <3>1 DEF TypeOK, ConsoleTypes, Walking
      <3>6. ASSUME NEW j \in 1 .. it
            PROVE  Append(r, x)[j] = MeantFor[j]
        <4> HIDE DEF x, r, it
        <4>1. CASE j = it
          BY <3>4, <3>5, <4>1
        <4>2. CASE j # it
          <5>1. j \in 1 .. it - 1
            BY <3>5, <4>2
          <5>2. Append(r, x)[j] = r[j]
            BY <3>5, <5>1
          <5> QED
            BY <3>3, <5>1, <5>2
        <4> QED
          BY <4>1, <4>2
      <3>7. console'.it - 1 = it
        BY <3>1, <3>5
      <3> HIDE DEF x, r, it
      <3> QED
        BY <3>1, <3>2, <3>6, <3>7, Zenon DEF Reaching
    <2> QED
      BY <2>1, <2>2
  <1> QED
    BY <1>1, <1>2, <1>3, <1>4, <1>5, ConsoleMoves

----------------------------------------------------------------------------
(* The theorems.                                                            *)

LEMMA PoolInvInit ==
  ASSUME Init
  PROVE  PoolInv
  <1>1. console = ConsoleIdle /\ console.pc = "cin"
    BY DEF Init, ConsoleIdle
  <1>2. ConsoleTypes
    <2>1. /\ console.it = 1 /\ console.end = 0 /\ console.start = <<>> /\ console.reached = <<>>
          /\ console.disturbed = FALSE
      BY <1>1 DEF ConsoleIdle
    <2>2. console.start \in Seq(ClientInfos) /\ console.reached \in Seq(Conns \cup {NoConn})
      BY <2>1, EmptyLists, Zenon
    <2>3. console.it \in Nat /\ console.end \in Nat
      BY <2>1
    <2>4. console.disturbed \in BOOLEAN
      BY <2>1, Zenon
    <2> QED
      BY <1>1, <2>2, <2>3, <2>4 DEF ConsoleTypes
  <1>3. clientPool = <<>> /\ clientPool \in Seq(ClientInfos) /\ DOMAIN clientPool = {}
    BY EmptyLists DEF Init
  <1>4. TypeOK
    BY <1>1, <1>2, <1>3 DEF Init, TypeOK, Handles
  <1>5. Walking /\ Reaching
    BY <1>1 DEF Walking, Reaching
  <1>6. Starting /\ SocketsApart
    BY DEF Init, Starting, SocketsApart
  <1>7. Settled
    BY <1>3 DEF Init, Settled, Entries, Listed, Pushing, Found, Holds
  <1> QED
    BY <1>4, <1>5, <1>6, <1>7 DEF PoolInv

LEMMA PoolInvKept ==
  ASSUME PoolInv, [Next]_vars
  PROVE  PoolInv'
  <1>1. TypeOK' /\ Walking' /\ Starting' /\ SocketsApart'
    BY Typing, WalkingKept, StartingKept, SocketsKeptApart DEF PoolInv
  <1>2. Raced' \/ (Settled' /\ Reaching')
    BY RacedStays, SettledKept, ReachingKept DEF PoolInv
  <1> QED
    BY <1>1, <1>2, Zenon DEF PoolInv

LEMMA PoolInvariant == Spec => []PoolInv
  <1>1. Init => PoolInv
    BY PoolInvInit
  <1>2. PoolInv /\ [Next]_vars => PoolInv'
    BY PoolInvKept
  <1> QED
    BY <1>1, <1>2, PTL DEF Spec

\* Between changes "list" shows the connections that are being served, each once, unless a
\* handler missed its entry, two removals overlapped or two accepts failed: whatever the
\* number of connections and of sockets, and however often these are given out again
\* (main.cpp:65-69, 162-170, 383-390).
THEOREM ListsTheServed == Spec => []ListExactUnlessRaced
  <1>1. PoolInv => ListExactUnlessRaced
    <2> SUFFICES ASSUME PoolInv, Quiet, ~Raced
                 PROVE  ListsServing
      BY DEF ListExactUnlessRaced
    <2> DEFINE l == Len(clientPool)
               f == [i \in 1 .. l |-> clientPool[i].addr]
    <2>1. TypeOK /\ Settled
      BY DEF PoolInv
    <2>2. l \in Nat /\ DOMAIN clientPool = 1 .. l /\ \A i \in 1 .. l : clientPool[i].addr \in Conns
      BY <2>1, Places
    <2>3. accepting.conn = NoConn /\ \A n \in Conns : Holds(n) <=> n \in Serving
      BY <2>1 DEF Quiet, TypeOK, Holds, Serving
    <2>4. \A i \in 1 .. l : clientPool[i].addr \in Serving
      BY <2>1, <2>2, <2>3 DEF Settled, Entries
    <2>5. \A n \in Serving : \E i \in 1 .. l : clientPool[i].addr = n
      BY <2>1, <2>2, <2>3, ConnAssumption DEF Settled, Listed, Serving
    <2>6. f \in Bijection(1 .. l, Serving)
      <3>1. f \in [1 .. l -> Serving]
        BY <2>4
      <3>2. \A i, j \in 1 .. l : f[i] = f[j] => i = j
        BY <2>1, <2>2 DEF Settled, Entries
      <3>3. \A n \in Serving : \E i \in 1 .. l : f[i] = n
        BY <2>5
      <3> QED
        BY <3>1, <3>2, <3>3 DEF Bijection, Injection, Surjection, IsInjective
    <2>7. Cardinality(Serving) = l
      <3>1. IsFiniteSet(1 .. l) /\ Cardinality(1 .. l) = l
        BY <2>2, FS_Interval
      <3>2. ExistsBijection(1 .. l, Serving)
        BY <2>6 DEF ExistsBijection
      <3> QED
        BY <3>1, <3>2, FS_Bijection
    <2>8. {clientPool[i].addr : i \in DOMAIN clientPool} = Serving
      BY <2>2, <2>4, <2>5
    <2> QED
      BY <2>7, <2>8 DEF ListsServing
  <1> QED
    BY <1>1, PoolInvariant, PTL

\* A removal takes away the entry of the connection that ended and no other, under the same
\* conditions: the place a handler found stays that of its entry until it removes it
\* (main.cpp:383-390).
THEOREM RemovesOwnEntry == Spec => ErasesOwnEntry
  <1> DEFINE OwnEntry == \A n \in Conns : handler[n].pc = "erase" /\ handler'[n].pc = "close"
                           => Raced \/ clientPool[handler[n].i].addr = n
  <1>1. PoolInv => [OwnEntry]_vars
    BY DEF PoolInv, Settled, Found
  <1>2. []PoolInv => [][OwnEntry]_vars
    <2> HIDE DEF OwnEntry
    <2> QED
      BY <1>1, PTL
  <1> QED
    BY <1>2, PoolInvariant DEF ErasesOwnEntry

\* A command of the console that comes to its end has reached every connection of the pool in
\* turn and no other, unless a race has happened; a line goes astray, and the server stops, only
\* when the pool has changed under the loop or a race has happened, for any pool and any reuse
\* of sockets (main.cpp:67, 72-73).
THEOREM CommandsReachPool == Spec => ConsoleReachesPool
  <1> DEFINE Reaches == /\ console.pc = "compare" /\ console'.pc = "cin" => console.reached = MeantFor \/ Raced
                        /\ console.pc = "body" /\ console'.pc = "compare" =>
                             \/ console.disturbed \/ Raced
                             \/ console'.reached = Append(console.reached, MeantFor[console.it])
                        /\ ~alive' => console.disturbed \/ Raced
  <1>1. ASSUME PoolInv, Next, console.pc = "compare", console'.pc = "cin", ~Raced
        PROVE  console.reached = MeantFor
    <2>1. TypeOK /\ Walking /\ Settled /\ Reaching
      BY <1>1 DEF PoolInv
    <2>2. CompareAndCopy
      BY <1>1, <2>1, ConsoleMoves, Disturbance DEF TypeLine, LoopBody
    <2>3. ~console.disturbed
      BY <1>1, <2>2 DEF CompareAndCopy
    <2>4. console.it = Len(clientPool) + 1
      BY <1>1, <2>1, <2>2, <2>3, CompareIs
    <2>5. console.start = clientPool /\ Len(console.reached) = console.it - 1
      BY <1>1, <2>1, <2>3 DEF Walking
    <2>6. \A j \in 1 .. console.it - 1 : console.reached[j] = MeantFor[j]
      BY <1>1, <2>1, <2>3 DEF Reaching
    <2> DEFINE l == Len(clientPool)
               r == console.reached
    <2>7. l \in Nat /\ DOMAIN clientPool = 1 .. l
      BY <2>1, Places
    <2>8. r \in Seq(Conns \cup {NoConn}) /\ Len(r) = l
      BY <2>1, <2>4, <2>5, <2>7 DEF TypeOK, ConsoleTypes
    <2>9. r = [j \in 1 .. l |-> r[j]]
      <3> HIDE DEF r, l
      <3> QED
        BY <2>8
    <2>10. DOMAIN MeantFor = 1 .. l /\ MeantFor = [j \in 1 .. l |-> MeantFor[j]]
      BY <2>5, <2>7 DEF MeantFor
    <2>11. \A j \in 1 .. l : r[j] = MeantFor[j]
      BY <2>4, <2>6, <2>7
    <2> HIDE DEF l
    <2> QED
      BY <2>9, <2>10, <2>11
  <1>2. ASSUME PoolInv, Next, ~alive', ~Raced
        PROVE  console.disturbed
    <2>1. alive
      BY <1>2 DEF Next
    <2>2. CASE CompareAndCopy
      BY <1>2, <2>2, Zenon DEF CompareAndCopy
    <2>3. ASSUME NEW n \in Conns, Erase(n) PROVE FALSE
      <3>1. handler[n].i \in DOMAIN clientPool
        BY <1>2, <2>3 DEF PoolInv, Settled, Found, Erase
      <3> QED
        BY <1>2, <2>3, <3>1, Zenon DEF Erase
    <2>4. CASE ~CompareAndCopy /\ ~(\E n \in Conns : Erase(n))
      <3>1. alive' = alive
        BY <1>2, <2>4 DEF Next, Accept, AcceptFails, BeginThread, PushThread, PushPool, Hangup,
                          Leave, CloseSocket, TypeLine, LoopBody
      <3> QED
        BY <1>2, <2>1, <3>1
    <2> QED
      BY <2>2, <2>3, <2>4
  <1>6. ASSUME PoolInv, Next, console.pc = "body", console'.pc = "compare", ~console.disturbed, ~Raced
        PROVE  console'.reached = Append(console.reached, MeantFor[console.it])
    <2>1. TypeOK /\ Walking /\ SocketsApart /\ Settled /\ Reaching
      BY <1>6 DEF PoolInv
    <2>2. LoopBody
      BY <1>6, <2>1, ConsoleMoves, Disturbance DEF TypeLine, CompareAndCopy
    <2>3. Reached = MeantFor[console.it]
      BY <1>6, <2>1, <2>2, ReachesMeant
    <2>4. console'.reached = Append(console.reached, Reached)
      BY <2>1, <2>2, LoopBodyIs
    <2> QED
      BY <2>3, <2>4
  <1>3. PoolInv /\ [Next]_vars => [Reaches]_vars
    BY <1>1, <1>2, <1>6
  <1>4. []PoolInv /\ [][Next]_vars => [][Reaches]_vars
    <2> HIDE DEF Reaches
    <2> QED
      BY <1>3, PTL
  <1>5. Spec => [][Reaches]_vars
    <2> HIDE DEF Reaches
    <2> QED
      BY <1>4, PoolInvariant, PTL DEF Spec
  <1> QED
    BY <1>5 DEF ConsoleReachesPool

=============================================================================
