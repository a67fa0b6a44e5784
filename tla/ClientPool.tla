----------------------------- MODULE ClientPool -----------------------------
(***************************************************************************)
(* The lists of the server's connections: clientPool, which the accept     *)
(* thread extends, every handler thread shortens when it ends, and the     *)
(* console reads; and clientThreads, which only grows.  No lock is taken.  *)
(* The vector's own operations are taken as atomic: the search for an      *)
(* entry and its removal are two of them.                                  *)
(***************************************************************************)
EXTENDS Naturals, Sequences, FiniteSets, SequencesExt

CONSTANTS
  Conns,          \* connections, each with its own peer address; bounds accept
  Sockets,        \* socket handles the system hands out, again once closed
  INVALID_SOCKET, \* what a failed accept returns
  NoConn,         \* the accept thread has no connection at hand
  MaxAtConsole    \* bound on the connections there have been when a line is typed

ASSUME SocketAssumption == INVALID_SOCKET \notin Sockets
ASSUME ConnAssumption == NoConn \notin Conns

VARIABLES
  clientPool,     \* sequence of [socket, addr]
  clientThreads,  \* number of thread handles kept
  accepting,      \* the accept thread: its next step and the connection at hand
  handler,        \* per connection, the handler thread
  socketOf,       \* per connection, the socket it was given
  up,             \* connections whose client is still there
  console,        \* the main thread: its loop over the pool, see ConsoleIdle
  alive,          \* the server process runs
  early,          \* history: handlers that looked for their entry before it was there
  shifted         \* history: an entry was removed while another handler was
                  \* between its search and its removal

vars == <<clientPool, clientThreads, accepting, handler, socketOf, up, console, alive, early, shifted>>

\* it and end are the places of the loop's iterators, c is the copy of an entry.
\* History: the pool when the loop began, the connections its body reached, whether
\* the pool has changed since it began.
ConsoleIdle == [pc |-> "cin", command |-> "none", it |-> 1, end |-> 0, c |-> NoConn,
                start |-> <<>>, reached |-> <<>>, disturbed |-> FALSE]

\* push_back and erase invalidate the iterator to the end, if not both; what the loop
\* has done does not matter any more.
Disturbs ==
  console' = IF console.pc = "cin" THEN console
             ELSE [ConsoleIdle EXCEPT !.pc = console.pc, !.command = console.command,
                                      !.c = console.c, !.disturbed = TRUE]

Init ==
  /\ clientPool = <<>>
  /\ clientThreads = 0
  /\ accepting = [pc |-> "accept", conn |-> NoConn]
  /\ handler = [n \in Conns |-> [pc |-> "none", i |-> 0]]
  /\ socketOf = [n \in Conns |-> INVALID_SOCKET]
  /\ up = {}
  /\ console = ConsoleIdle
  /\ alive = TRUE
  /\ early = {}
  /\ shifted = FALSE

\* Mutant: the socket is closed before the pool is searched.
InUseClosedFirst == {socketOf[n] : n \in {m \in Conns : handler[m].pc \in {"none", "serve"}}}

\* A socket is in use until its handler has closed it.
InUse == {socketOf[n] : n \in {m \in Conns : handler[m].pc # "ended"}}

----------------------------------------------------------------------------
(* ClientAccept.                                                            *)

Begun == {n \in Conns : n = accepting.conn \/ handler[n].pc # "none"}

\* The bound on the connections under a running command.
MayAccept == console.pc = "cin" \/ Cardinality(Begun) < MaxAtConsole

\* accept returns the socket of a new client ...
Accept(n) ==
  /\ MayAccept
  /\ accepting.pc = "accept" /\ handler[n].pc = "none" /\ socketOf[n] = INVALID_SOCKET
  /\ \E s \in Sockets \ InUse : socketOf' = [socketOf EXCEPT ![n] = s]
  /\ up' = up \cup {n}
  /\ accepting' = [pc |-> "begin", conn |-> n]
  /\ UNCHANGED <<clientPool, clientThreads, handler, early, shifted, alive, console>>

\* ... or fails; the loop goes on all the same.
AcceptFails(n) ==
  /\ MayAccept
  /\ accepting.pc = "accept" /\ handler[n].pc = "none" /\ socketOf[n] = INVALID_SOCKET
  /\ accepting' = [pc |-> "begin", conn |-> n]
  /\ UNCHANGED <<clientPool, clientThreads, handler, socketOf, up, early, shifted, alive, console>>

\* _beginthreadex: from here on the handler runs by itself.
BeginThread ==
  /\ accepting.pc = "begin"
  /\ handler' = [handler EXCEPT ![accepting.conn].pc = "serve"]
  /\ accepting' = [accepting EXCEPT !.pc = "pushThread"]
  /\ UNCHANGED <<clientPool, clientThreads, socketOf, up, early, shifted, alive, console>>

PushThread ==
  /\ accepting.pc = "pushThread"
  /\ clientThreads' = clientThreads + 1
  /\ accepting' = [accepting EXCEPT !.pc = "pushPool"]
  /\ UNCHANGED <<clientPool, handler, socketOf, up, early, shifted, alive, console>>

Entry(n) == [socket |-> socketOf[n], addr |-> n]

\* newClient takes the values accept returned, not the handler's.
PushPool ==
  /\ accepting.pc = "pushPool"
  /\ clientPool' = Append(clientPool, Entry(accepting.conn))
  /\ accepting' = [pc |-> "accept", conn |-> NoConn]
  /\ Disturbs
  /\ UNCHANGED <<clientThreads, handler, socketOf, up, early, shifted, alive>>

----------------------------------------------------------------------------
(* The end of HandleClient.                                                 *)

\* The client goes away.
Hangup(n) ==
  /\ n \in up
  /\ up' = up \ {n}
  /\ UNCHANGED <<clientPool, clientThreads, accepting, handler, socketOf, early, shifted, alive, console>>

\* Mutant: the scan starts at the second entry.
MatchesOffByOne(s) == {i \in DOMAIN clientPool \ {1} :
  /\ clientPool[i].socket = s
  /\ \A j \in DOMAIN clientPool \ {1} : clientPool[j].socket = s => i <= j}

\* The first entry with the socket s, if there is one.
Matches(s) == {i \in DOMAIN clientPool :
  /\ clientPool[i].socket = s
  /\ \A j \in DOMAIN clientPool : clientPool[j].socket = s => i <= j}

\* recv returns no more data, or a refusal leaves the loop: the handler looks
\* for its entry in the pool.
Leave(n) ==
  /\ handler[n].pc = "serve"
  /\ LET found == Matches(socketOf[n])
     IN  \/ \E i \in found : handler' = [handler EXCEPT ![n] = [pc |-> "erase", i |-> i]]
         \/ found = {} /\ handler' = [handler EXCEPT ![n].pc = "close"]
  /\ early' = IF \A i \in DOMAIN clientPool : clientPool[i].addr # n
              THEN early \cup {n} ELSE early
  /\ UNCHANGED <<clientPool, clientThreads, accepting, socketOf, up, shifted, alive, console>>

\* Mutant: nothing is removed.
WithoutNothing(i) == clientPool

Without(i) == RemoveAt(clientPool, i)

\* The entry now at the place found is removed; past the end the iterator
\* checks of the debug build stop the process.
Erase(n) ==
  /\ handler[n].pc = "erase"
  /\ alive' = (handler[n].i \in DOMAIN clientPool)
  /\ clientPool' = IF alive' THEN Without(handler[n].i) ELSE clientPool
  /\ handler' = [handler EXCEPT ![n].pc = "close"]
  /\ shifted' = (shifted \/ \E m \in Conns \ {n} : handler[m].pc = "erase")
  /\ Disturbs
  /\ UNCHANGED <<clientThreads, accepting, socketOf, up, early>>

\* closesocket and _endthreadex: the handle is free again.
CloseSocket(n) ==
  /\ handler[n].pc = "close"
  /\ handler' = [handler EXCEPT ![n].pc = "ended"]
  /\ up' = up \ {n}
  /\ UNCHANGED <<clientPool, clientThreads, accepting, socketOf, early, shifted, alive, console>>

----------------------------------------------------------------------------
(* The console of main: for (ClientInfo c : clientPool), in the debug build.*)

poolVars == <<clientPool, clientThreads, accepting, handler, socketOf, up, early, shifted>>

\* A line is typed: "list", or anything else, which is sent to every client.
TypeLine ==
  /\ console.pc = "cin" /\ Cardinality(Begun) <= MaxAtConsole
  /\ \E command \in {"list", "send"} :
       console' = [ConsoleIdle EXCEPT !.pc = "compare", !.command = command,
                     !.end = Len(clientPool), !.start = clientPool]
  /\ UNCHANGED <<poolVars, alive>>

\* Mutant: the last entry is taken for the end.
AtEndEarly(it, end) == it >= end

AtEnd(it, end) == it > end

\* The loop compares its iterator with the end, which the debug build refuses to do
\* once the end is no longer valid, and copies the entry.
CompareAndCopy ==
  /\ console.pc = "compare"
  /\ alive' = ~console.disturbed
  /\ console' = IF console.disturbed THEN console
                ELSE IF AtEnd(console.it, console.end) THEN ConsoleIdle
                ELSE [console EXCEPT !.pc = "body", !.c = clientPool[console.it]]
  /\ UNCHANGED poolVars

\* Whose socket this is at the moment.
Peer(s) == IF \E n \in Conns : socketOf[n] = s /\ s # INVALID_SOCKET /\ handler[n].pc # "ended"
           THEN CHOOSE n \in Conns : socketOf[n] = s /\ handler[n].pc # "ended"
           ELSE NoConn

\* The address is printed, or the line is sent to the socket of the copy.
LoopBody ==
  /\ console.pc = "body"
  /\ console' = [console EXCEPT
       !.pc = "compare", !.it = @ + 1, !.c = NoConn,
       !.reached = Append(@, IF console.command = "list" THEN console.c.addr
                             ELSE Peer(console.c.socket))]
  /\ UNCHANGED <<poolVars, alive>>

Next ==
  /\ alive
  /\ \/ \E n \in Conns : Accept(n)
     \/ \E n \in Conns : AcceptFails(n)
     \/ BeginThread
     \/ PushThread
     \/ PushPool
     \/ \E n \in Conns : Hangup(n)
     \/ \E n \in Conns : Leave(n)
     \/ \E n \in Conns : Erase(n)
     \/ \E n \in Conns : CloseSocket(n)
     \/ TypeLine
     \/ CompareAndCopy
     \/ LoopBody

Spec == Init /\ [][Next]_vars

\* Threads run on, and a handler whose client is gone or whose accept failed
\* gets no data from recv; a client need never hang up.
FairSpec ==
  /\ Spec
  /\ WF_vars(alive /\ (BeginThread \/ PushThread \/ PushPool))
  /\ \A n \in Conns :
       WF_vars(alive /\ ((n \notin up /\ Leave(n)) \/ Erase(n) \/ CloseSocket(n)))

----------------------------------------------------------------------------
(* Properties.                                                              *)

\* No thread is changing the pool.
Quiet ==
  /\ accepting.pc = "accept"
  /\ \A n \in Conns : handler[n].pc \in {"none", "serve", "ended"}

Serving == {n \in Conns : handler[n].pc = "serve"}

ListsServing ==
  /\ {clientPool[i].addr : i \in DOMAIN clientPool} = Serving
  /\ Len(clientPool) = Cardinality(Serving)

\* Between changes "list" shows the connections that are being served, each
\* once (main.cpp:65-69).
ListExact == Quiet => ListsServing

\* What can make an entry and its connection part: a handler that ended before
\* its entry was there (main.cpp:162-170), two removals that overlapped
\* (main.cpp:383-390), two failed accepts, which share a socket (main.cpp:145).
Raced ==
  \/ early # {}
  \/ shifted
  \/ \E m, n \in Conns : /\ m # n /\ handler[m].pc # "none" /\ handler[n].pc # "none"
                         /\ socketOf[m] = INVALID_SOCKET /\ socketOf[n] = INVALID_SOCKET

\* Between changes "list" shows the connections being served, each once, unless
\* one of these three things has happened; reuse of sockets is no fourth.
ListExactUnlessRaced == Quiet => ListsServing \/ Raced

\* A removal takes away the entry of the connection that ended and no other,
\* under the same conditions.
ErasesOwnEntry ==
  [][\A n \in Conns : handler[n].pc = "erase" /\ handler'[n].pc = "close"
       => Raced \/ clientPool[handler[n].i].addr = n]_vars

\* The connections that a command is meant for: those listed when it began; a line
\* cannot be sent to an entry of a failed accept.
MeantFor ==
  [i \in DOMAIN console.start |->
     IF console.command = "send" /\ console.start[i].socket = INVALID_SOCKET
     THEN NoConn ELSE console.start[i].addr]

\* A command that comes to its end has reached every connection of the pool in turn
\* and no other, although sockets are closed and given away under its loop.  A line
\* sent to the copy of an entry whose socket another client has by now goes astray
\* only if the pool has changed under the loop; and a change that overtakes the loop
\* is the end of the server, which otherwise only the races above bring about
\* (main.cpp:67, 72-73).
ConsoleReachesPool ==
  [][/\ console.pc = "compare" /\ console'.pc = "cin" => console.reached = MeantFor \/ Raced
     /\ console.pc = "body" /\ console'.pc = "compare" =>
          \/ console.disturbed \/ Raced
          \/ console'.reached = Append(console.reached, MeantFor[console.it])
     /\ ~alive' => console.disturbed \/ Raced]_vars

\* When a client has hung up its handler ends and its entry goes, unless a race has
\* parted them or the server has stopped.
EntryRemoved ==
  \A n \in Conns :
    (handler[n].pc = "serve" /\ n \notin up) ~>
      \/ ~alive
      \/ /\ handler[n].pc = "ended"
         /\ Raced \/ \A i \in DOMAIN clientPool : clientPool[i].addr # n
=============================================================================
