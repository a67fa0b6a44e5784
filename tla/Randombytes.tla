---------------------------- MODULE Randombytes ----------------------------
(***************************************************************************)
(* randombytes.c: handler threads fill the coins of key pairs and of       *)
(* encryptions from the operating system.  The file has a variant for      *)
(* Windows, which is the one the two programs are built with, one for the  *)
(* system call of Linux, one for getrandom of NetBSD and one for           *)
(* /dev/urandom, whose descriptor is a static variable of all threads.     *)
(***************************************************************************)
EXTENDS Integers, FiniteSets

CONSTANTS
  Threads,        \* those that call randombytes at the same time
  Need,           \* outlen of the calls
  MaxChunk,       \* 1048576 in the code: what one CryptGenRandom is asked for
  MaxInterrupts   \* how often a thread's system calls are interrupted

VARIABLES
  variant,   \* the code that was compiled: "windows", "linux", "netbsd" or "urandom"
  pc,        \* where each thread is
  outlen,    \* how many bytes it still wants
  next,      \* out in the code: where the next byte goes
  writes,    \* how often each byte of its buffer was written
  fd,        \* the static descriptor, -1 before it is open
  errno,     \* of each thread: "none", "eintr" or "error"
  interrupts, \* how often each thread was interrupted
  aborted,   \* abort() was called
  failed,    \* history: a system call failed for good
  raced      \* history: an interrupted open overwrote the descriptor of another

randomVars == <<variant, pc, outlen, next, writes, fd, errno, interrupts, aborted, failed, raced>>

RandomInit ==
  /\ variant \in {"windows", "linux", "netbsd", "urandom"}
  /\ pc = [t \in Threads |-> "called"]
  /\ outlen = [t \in Threads |-> Need]
  /\ next = [t \in Threads |-> 0]
  /\ writes = [t \in Threads |-> [i \in 0 .. Need - 1 |-> 0]]
  /\ fd = 0 - 1
  /\ errno = [t \in Threads |-> "none"]
  /\ interrupts = [t \in Threads |-> 0]
  /\ aborted = FALSE /\ failed = FALSE /\ raced = FALSE

Goto(t, label) == pc' = [pc EXCEPT ![t] = label]

At(t, which, label) == ~aborted /\ variant = which /\ pc[t] = label

\* A call that cannot succeed.
abort ==
  /\ aborted' = TRUE /\ failed' = TRUE
  /\ UNCHANGED <<variant, pc, outlen, next, writes, fd, errno, interrupts, raced>>

\* EINTR: the call is made again.
Interrupted(t) ==
  /\ interrupts[t] < MaxInterrupts
  /\ interrupts' = [interrupts EXCEPT ![t] = @ + 1]
  /\ UNCHANGED <<variant, pc, outlen, next, writes, fd, errno, aborted, failed, raced>>

\* Mutant: the pointer stays where it is.
AdvanceNot(t, ret) == next' = next /\ outlen' = [outlen EXCEPT ![t] = @ - ret]

\* out += ret; outlen -= ret
Advance(t, ret) ==
  /\ next' = [next EXCEPT ![t] = @ + ret]
  /\ outlen' = [outlen EXCEPT ![t] = @ - ret]

\* ret bytes arrive at the pointer.
Filled(t, ret) ==
  /\ writes' = [writes EXCEPT ![t] = [i \in 0 .. Need - 1 |->
                  IF i \in next[t] .. next[t] + ret - 1 THEN @[i] + 1 ELSE @[i]]]
  /\ Advance(t, ret)
  /\ UNCHANGED <<variant, pc, fd, errno, interrupts, aborted, failed, raced>>

\* The loop is left.
Return(t) ==
  /\ outlen[t] = 0
  /\ Goto(t, "done")
  /\ UNCHANGED <<variant, outlen, next, writes, fd, errno, interrupts, aborted, failed, raced>>

----------------------------------------------------------------------------

CryptAcquireContext(t) ==
  /\ At(t, "windows", "called")
  /\ \/ abort
     \/ /\ Goto(t, "fill")
        /\ UNCHANGED <<variant, outlen, next, writes, fd, errno, interrupts, aborted, failed, raced>>

CryptGenRandom(t) ==
  /\ At(t, "windows", "fill") /\ outlen[t] > 0
  /\ \/ abort
     \/ Filled(t, IF outlen[t] > MaxChunk THEN MaxChunk ELSE outlen[t])

CryptReleaseContext(t) ==
  /\ At(t, "windows", "fill")
  /\ (outlen[t] = 0 /\ abort) \/ Return(t)

\* A system call that fills a part of what it is asked for.
FillsPart(t) ==
  outlen[t] > 0 /\ (abort \/ Interrupted(t) \/ \E ret \in 1 .. outlen[t] : Filled(t, ret))

SYS_getrandom(t) == At(t, "linux", "called") /\ (FillsPart(t) \/ Return(t))

getrandom(t) == At(t, "netbsd", "called") /\ (FillsPart(t) \/ Return(t))

\* while(fd == -1) and the call of open; what it returns is stored at once.
open(t) ==
  /\ At(t, "urandom", "called")
  /\ fd = 0 - 1
  /\ Goto(t, "opening")
  /\ UNCHANGED <<variant, outlen, next, writes, fd, errno, interrupts, aborted, failed, raced>>

\* The descriptors of two threads that both open it are told apart by nothing.
StoreDescriptor(t) ==
  /\ At(t, "urandom", "opening")
  /\ \/ fd' = 3 /\ UNCHANGED <<errno, interrupts, failed, raced>>
     \/ /\ interrupts[t] < MaxInterrupts
        /\ interrupts' = [interrupts EXCEPT ![t] = @ + 1]
        /\ fd' = 0 - 1
        /\ errno' = [errno EXCEPT ![t] = "eintr"]
        /\ raced' = (raced \/ fd # 0 - 1)
        /\ UNCHANGED failed
     \/ /\ fd' = 0 - 1
        /\ errno' = [errno EXCEPT ![t] = "error"]
        /\ failed' = TRUE
        /\ raced' = (raced \/ fd # 0 - 1)
        /\ UNCHANGED interrupts
  /\ Goto(t, "opened")
  /\ UNCHANGED <<variant, outlen, next, writes, aborted>>

\* Reads the descriptor again, which another thread may have changed.
AfterOpen(t) ==
  /\ At(t, "urandom", "opened")
  /\ IF fd = 0 - 1 /\ errno[t] # "eintr"
     THEN aborted' = TRUE /\ UNCHANGED pc
     ELSE Goto(t, "called") /\ UNCHANGED aborted
  /\ UNCHANGED <<variant, outlen, next, writes, fd, errno, interrupts, failed, raced>>

\* The descriptor has been found open.
FoundOpen(t) ==
  /\ At(t, "urandom", "called")
  /\ fd # 0 - 1
  /\ Goto(t, "reading")
  /\ UNCHANGED <<variant, outlen, next, writes, fd, errno, interrupts, aborted, failed, raced>>

\* EBADF where the descriptor is gone
BadDescriptor(t) ==
  /\ fd = 0 - 1
  /\ outlen[t] > 0
  /\ aborted' = TRUE
  /\ UNCHANGED <<variant, pc, outlen, next, writes, fd, errno, interrupts, failed, raced>>

read(t) ==
  /\ At(t, "urandom", "reading")
  /\ \/ fd # 0 - 1 /\ FillsPart(t)
     \/ BadDescriptor(t)
     \/ Return(t)

RandomNext ==
  \E t \in Threads :
    \/ CryptAcquireContext(t) \/ CryptGenRandom(t) \/ CryptReleaseContext(t)
    \/ SYS_getrandom(t) \/ getrandom(t)
    \/ open(t) \/ StoreDescriptor(t) \/ AfterOpen(t) \/ FoundOpen(t) \/ read(t)

RandomSpec == RandomInit /\ [][RandomNext]_randomVars

----------------------------------------------------------------------------

\* Coins are random bytes or there are none: a call that returns has filled every
\* byte of the buffer once, over chunks, partial results and interruptions, and the
\* program is aborted only where the system failed - or, with /dev/urandom, where an
\* interrupted open took away the descriptor that another thread was using.
CoinsFilled ==
  /\ \A t \in Threads : pc[t] = "done" => \A i \in 0 .. Need - 1 : writes[t][i] = 1
  /\ aborted => failed \/ raced
=============================================================================
