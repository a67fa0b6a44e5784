---------------------------- MODULE CryptoProofs ----------------------------
(* Proofs about the source of coins, the sponge, its permutation and the    *)
(* noise: for any number of threads and bytes, for any permutation, rates   *)
(* and pieces, for all states of 25 lanes and all bytes that noise is made  *)
(* of.                                                                      *)
EXTENDS Crypto, FiniteSetTheorems, WellFoundedInduction, TLAPS

----------------------------------------------------------------------------
(* Coins.                                                                   *)

CoinTypes ==
  /\ variant \in {"windows", "linux", "netbsd", "urandom"}
  /\ pc \in [Threads -> {"called", "fill", "opening", "opened", "reading", "done"}]
  /\ outlen \in [Threads -> Nat] /\ next \in [Threads -> Nat]
  /\ writes \in [Threads -> [0 .. Need - 1 -> Nat]]
  /\ fd \in {0 - 1, 3}
  /\ errno \in [Threads -> {"none", "eintr", "error"}]
  /\ interrupts \in [Threads -> Nat]

\* The bytes before the pointer were written once, the others never.
FilledSoFar ==
  \A t \in Threads :
    /\ next[t] + outlen[t] = Need
    /\ \A i \in 0 .. Need - 1 : writes[t][i] = IF i < next[t] THEN 1 ELSE 0

ReturnedFull == \A t \in Threads : pc[t] = "done" => outlen[t] = 0

\* A thread that relies on the descriptor, or on errno to say why it has none.
Relies(t) == pc[t] = "reading" \/ (pc[t] = "opened" /\ errno[t] # "eintr")

Explained == failed \/ raced

LostExplained == \A t \in Threads : fd = 0 - 1 /\ Relies(t) => Explained

AbortExplained == aborted => Explained

CoinsInv == CoinTypes /\ FilledSoFar /\ ReturnedFull /\ LostExplained /\ AbortExplained

\* Bytes that arrive at the pointer leave the invariant true.
LEMMA FilledKeeps ==
  ASSUME Need \in Nat, CoinsInv, NEW t \in Threads, pc[t] # "done",
         NEW ret \in 1 .. outlen[t], Filled(t, ret)
  PROVE  CoinsInv'
  <1>1. /\ next' = [next EXCEPT ![t] = @ + ret] /\ outlen' = [outlen EXCEPT ![t] = @ - ret]
        /\ writes' = [writes EXCEPT ![t] = [i \in 0 .. Need - 1 |->
                        IF i \in next[t] .. next[t] + ret - 1 THEN @[i] + 1 ELSE @[i]]]
        /\ UNCHANGED <<variant, pc, fd, errno, interrupts, aborted, failed, raced>>
    BY DEF Filled, Advance
  <1>2. CoinTypes'
    BY <1>1 DEF CoinsInv, CoinTypes
  <1>3. FilledSoFar'
    <2> SUFFICES ASSUME NEW u \in Threads
                 PROVE  /\ next'[u] + outlen'[u] = Need
                        /\ \A i \in 0 .. Need - 1 : writes'[u][i] = IF i < next'[u] THEN 1 ELSE 0
      BY DEF FilledSoFar
    <2>1. CASE u # t
      BY <1>1, <2>1 DEF CoinsInv, CoinTypes, FilledSoFar
    <2>2. CASE u = t
      <3>1. next'[t] = next[t] + ret /\ outlen'[t] = outlen[t] - ret
        BY <1>1 DEF CoinsInv, CoinTypes
      <3>2. \A i \in 0 .. Need - 1 : writes'[t][i] =
              IF i \in next[t] .. next[t] + ret - 1 THEN writes[t][i] + 1 ELSE writes[t][i]
        BY <1>1 DEF CoinsInv, CoinTypes
      <3>3. /\ next[t] + outlen[t] = Need /\ next[t] \in Nat /\ outlen[t] \in Nat
            /\ \A i \in 0 .. Need - 1 : writes[t][i] = IF i < next[t] THEN 1 ELSE 0
        BY DEF CoinsInv, CoinTypes, FilledSoFar
      <3> QED
        BY <2>2, <3>1, <3>2, <3>3
    <2> QED
      BY <2>1, <2>2
  <1>4. ReturnedFull' /\ LostExplained' /\ AbortExplained'
    BY <1>1 DEF CoinsInv, CoinTypes, ReturnedFull, LostExplained, AbortExplained, Relies, Explained
  <1> QED
    BY <1>2, <1>3, <1>4 DEF CoinsInv

\* So do a failure, an interruption and the end of a loop.
LEMMA AbortKeeps ==
  ASSUME CoinsInv, abort
  PROVE  CoinsInv'
  BY DEF abort, CoinsInv, CoinTypes, FilledSoFar, ReturnedFull, LostExplained, AbortExplained,
         Relies, Explained

LEMMA InterruptedKeeps ==
  ASSUME CoinsInv, NEW t \in Threads, Interrupted(t)
  PROVE  CoinsInv'
  BY DEF Interrupted, CoinsInv, CoinTypes, FilledSoFar, ReturnedFull, LostExplained,
         AbortExplained, Relies, Explained

LEMMA ReturnKeeps ==
  ASSUME CoinsInv, NEW t \in Threads, Return(t)
  PROVE  CoinsInv'
  BY DEF Return, Goto, CoinsInv, CoinTypes, FilledSoFar, ReturnedFull, LostExplained,
         AbortExplained, Relies, Explained

LEMMA FillsPartKeeps ==
  ASSUME Need \in Nat, CoinsInv, NEW t \in Threads, pc[t] # "done", FillsPart(t)
  PROVE  CoinsInv'
  BY FilledKeeps, AbortKeeps, InterruptedKeeps DEF FillsPart

\* The descriptor of all threads: what open returns is stored, found open or missed.
LEMMA DescriptorKeeps ==
  ASSUME CoinsInv, NEW t \in Threads,
         open(t) \/ StoreDescriptor(t) \/ AfterOpen(t) \/ FoundOpen(t)
  PROVE  CoinsInv'
  <1>1. CASE open(t)
    BY <1>1 DEF open, At, Goto, CoinsInv, CoinTypes, FilledSoFar, ReturnedFull, LostExplained,
           AbortExplained, Relies, Explained
  <1>2. CASE StoreDescriptor(t)
    <2>1. /\ pc[t] = "opening" /\ pc' = [pc EXCEPT ![t] = "opened"]
          /\ UNCHANGED <<variant, outlen, next, writes, aborted>>
          /\ \/ fd' = 3 /\ UNCHANGED <<errno, interrupts, failed, raced>>
             \/ /\ interrupts' = [interrupts EXCEPT ![t] = @ + 1]
                /\ fd' = 0 - 1
                /\ errno' = [errno EXCEPT ![t] = "eintr"]
                /\ raced' = (raced \/ fd # 0 - 1)
                /\ UNCHANGED failed
             \/ /\ fd' = 0 - 1
                /\ errno' = [errno EXCEPT ![t] = "error"]
                /\ failed' = TRUE
                /\ raced' = (raced \/ fd # 0 - 1)
                /\ UNCHANGED interrupts
      BY <1>2 DEF StoreDescriptor, At, Goto
    <2>2. CASE fd' = 3 /\ UNCHANGED <<errno, interrupts, failed, raced>>
      BY <2>1, <2>2 DEF CoinsInv, CoinTypes, FilledSoFar, ReturnedFull, LostExplained,
             AbortExplained, Explained
    <2>3. CASE /\ interrupts' = [interrupts EXCEPT ![t] = @ + 1]
               /\ fd' = 0 - 1
               /\ errno' = [errno EXCEPT ![t] = "eintr"]
               /\ raced' = (raced \/ fd # 0 - 1)
               /\ UNCHANGED failed
      <3>1. CoinTypes' /\ FilledSoFar' /\ ReturnedFull'
        <4>1. interrupts' \in [Threads -> Nat] /\ errno' \in [Threads -> {"none", "eintr", "error"}]
          BY <2>3 DEF CoinsInv, CoinTypes
        <4> QED
          BY <2>1, <2>3, <4>1 DEF CoinsInv, CoinTypes, FilledSoFar, ReturnedFull
      <3>2. (Explained \/ fd # 0 - 1) => Explained'
        BY <2>3 DEF Explained
      <3>3. \A u \in Threads : Relies(u)' => Relies(u)
        BY <2>1, <2>3 DEF CoinsInv, CoinTypes, Relies
      <3>4. LostExplained'
        BY <2>3, <3>2, <3>3 DEF CoinsInv, LostExplained
      <3>5. AbortExplained'
        BY <2>1, <3>2 DEF CoinsInv, AbortExplained
      <3> QED
        BY <3>1, <3>4, <3>5 DEF CoinsInv
    <2>4. CASE /\ fd' = 0 - 1
               /\ errno' = [errno EXCEPT ![t] = "error"]
               /\ failed' = TRUE
               /\ raced' = (raced \/ fd # 0 - 1)
               /\ UNCHANGED interrupts
      <3>1. CoinTypes' /\ FilledSoFar' /\ ReturnedFull'
        BY <2>1, <2>4 DEF CoinsInv, CoinTypes, FilledSoFar, ReturnedFull
      <3>2. Explained'
        BY <2>4 DEF Explained
      <3> QED
        BY <3>1, <3>2 DEF CoinsInv, LostExplained, AbortExplained
    <2> QED
      BY <2>1, <2>2, <2>3, <2>4
  <1>3. CASE AfterOpen(t)
    <2>1. /\ pc[t] = "opened"
          /\ UNCHANGED <<variant, outlen, next, writes, fd, errno, interrupts, failed, raced>>
          /\ IF fd = 0 - 1 /\ errno[t] # "eintr"
             THEN aborted' = TRUE /\ UNCHANGED pc
             ELSE pc' = [pc EXCEPT ![t] = "called"] /\ UNCHANGED aborted
      BY <1>3 DEF AfterOpen, At, Goto
    <2>2. CASE fd = 0 - 1 /\ errno[t] # "eintr"
      <3>1. Explained
        BY <2>1, <2>2 DEF CoinsInv, LostExplained, Relies
      <3> QED
        BY <2>1, <2>2, <3>1 DEF CoinsInv, CoinTypes, FilledSoFar, ReturnedFull, LostExplained,
               AbortExplained, Relies, Explained
    <2>3. CASE ~(fd = 0 - 1 /\ errno[t] # "eintr")
      <3>1. pc' = [pc EXCEPT ![t] = "called"] /\ UNCHANGED aborted
        BY <2>1, <2>3
      <3> QED
        BY <2>1, <3>1 DEF CoinsInv, CoinTypes, FilledSoFar, ReturnedFull, LostExplained,
               AbortExplained, Relies, Explained
    <2> QED
      BY <2>2, <2>3
  <1>4. CASE FoundOpen(t)
    <2>1. /\ pc[t] = "called" /\ fd # 0 - 1 /\ pc' = [pc EXCEPT ![t] = "reading"]
          /\ UNCHANGED <<variant, outlen, next, writes, fd, errno, interrupts, aborted, failed, raced>>
      BY <1>4 DEF FoundOpen, At, Goto
    <2> QED
      BY <2>1 DEF CoinsInv, CoinTypes, FilledSoFar, ReturnedFull, LostExplained, AbortExplained,
             Relies, Explained
  <1> QED
    BY <1>1, <1>2, <1>3, <1>4

\* A step of a thread in any of the four variants leaves the invariant true.
LEMMA CoinsStep ==
  ASSUME Need \in Nat, MaxChunk \in Nat \ {0}, CoinsInv, RandomNext
  PROVE  CoinsInv'
  <1>1. PICK t \in Threads :
          \/ CryptAcquireContext(t) \/ CryptGenRandom(t) \/ CryptReleaseContext(t)
          \/ SYS_getrandom(t) \/ getrandom(t)
          \/ open(t) \/ StoreDescriptor(t) \/ AfterOpen(t) \/ FoundOpen(t) \/ read(t)
    BY DEF RandomNext
  <1>2. CASE CryptAcquireContext(t)
    <2>1. CASE abort
      BY <2>1, AbortKeeps
    <2>2. CASE /\ Goto(t, "fill")
               /\ UNCHANGED <<variant, outlen, next, writes, fd, errno, interrupts, aborted, failed, raced>>
      BY <2>2, <1>2 DEF Goto, CoinsInv, CoinTypes, FilledSoFar, ReturnedFull, LostExplained,
             AbortExplained, Relies, Explained
    <2> QED
      BY <1>2, <2>1, <2>2 DEF CryptAcquireContext
  <1>3. CASE CryptGenRandom(t)
    <2>1. pc[t] # "done" /\ outlen[t] > 0
      BY <1>3 DEF CryptGenRandom, At
    <2>2. (IF outlen[t] > MaxChunk THEN MaxChunk ELSE outlen[t]) \in 1 .. outlen[t]
      BY <2>1 DEF CoinsInv, CoinTypes
    <2> QED
      BY <1>3, <2>1, <2>2, AbortKeeps, FilledKeeps DEF CryptGenRandom
  <1>4. CASE CryptReleaseContext(t)
    BY <1>4, AbortKeeps, ReturnKeeps DEF CryptReleaseContext
  <1>5. CASE SYS_getrandom(t)
    BY <1>5, FillsPartKeeps, ReturnKeeps DEF SYS_getrandom, At
  <1>6. CASE getrandom(t)
    BY <1>6, FillsPartKeeps, ReturnKeeps DEF getrandom, At
  <1>7. CASE open(t) \/ StoreDescriptor(t) \/ AfterOpen(t) \/ FoundOpen(t)
    BY <1>7, DescriptorKeeps
  <1>8. CASE read(t)
    <2>1. pc[t] = "reading"
      BY <1>8 DEF read, At
    <2>2. CASE BadDescriptor(t)
      <3>1. Explained
        BY <2>1, <2>2 DEF BadDescriptor, CoinsInv, LostExplained, Relies
      <3> QED
        BY <2>2, <3>1 DEF BadDescriptor, CoinsInv, CoinTypes, FilledSoFar, ReturnedFull,
               LostExplained, AbortExplained, Relies, Explained
    <2> QED
      BY <1>8, <2>1, <2>2, FillsPartKeeps, ReturnKeeps DEF read
  <1> QED
    BY <1>1, <1>2, <1>3, <1>4, <1>5, <1>6, <1>7, <1>8

LEMMA CoinsInvariant ==
  ASSUME Need \in Nat, MaxChunk \in Nat \ {0}
  PROVE  RandomSpec => []CoinsInv
  <1>1. RandomInit => CoinsInv
    BY DEF RandomInit, CoinsInv, CoinTypes, FilledSoFar, ReturnedFull, LostExplained, AbortExplained,
           Relies, Explained
  <1>2. CoinsInv /\ [RandomNext]_(randomVars) => CoinsInv'
    <2>1. ASSUME CoinsInv, UNCHANGED randomVars
          PROVE  CoinsInv'
      BY <2>1 DEF randomVars, CoinsInv, CoinTypes, FilledSoFar, ReturnedFull, LostExplained,
             AbortExplained, Relies, Explained
    <2> QED
      BY <2>1, CoinsStep
  <1> QED
    BY <1>1, <1>2, PTL DEF RandomSpec

\* A call of randombytes that returns has filled every byte of the buffer exactly once,
\* in each of the four variants and however many threads call, whatever part a system
\* call delivers or interrupts; and the program is aborted only where a call failed or
\* the static descriptor was overwritten.
THEOREM CoinsAreFilled ==
  ASSUME Need \in Nat, MaxChunk \in Nat \ {0}
  PROVE  RandomSpec => []CoinsFilled
  <1>1. CoinsInv => CoinsFilled
    BY DEF CoinsInv, CoinTypes, FilledSoFar, ReturnedFull, AbortExplained, Explained, CoinsFilled
  <1> QED
    BY <1>1, CoinsInvariant, PTL

----------------------------------------------------------------------------
(* Numbers, induction and loops.                                            *)

LEMMA Products ==
  /\ \A a, b \in Nat : a * b \in Nat
  /\ \A a, b \in Int : (a + 1) * b = a * b + b
  OBVIOUS

LEMMA ProductGrows ==
  ASSUME NEW a \in Nat, NEW b \in Nat, NEW r \in Nat, a <= b
  PROVE  a * r <= b * r
  <1> DEFINE c == b - a
  <1>1. c \in Nat /\ b = a + c
    OBVIOUS
  <1>2. c * r \in Nat /\ a * r \in Nat
    BY <1>1, Products
  <1>3. b * r = a * r + c * r
    BY <1>1
  <1> QED
    BY <1>2, <1>3

\* The quotient and the remainder are the only ones.
LEMMA DivMod ==
  ASSUME NEW q \in Nat, NEW r \in Nat \ {0}, NEW i \in 0 .. r - 1
  PROVE  (q * r + i) \div r = q /\ (q * r + i) % r = i
  <1> DEFINE n == q * r + i
             d == n \div r
             e == n % r
  <1>1. q * r \in Nat /\ n \in Nat
    BY Products
  <1>2. d \in Nat /\ e \in 0 .. r - 1 /\ n = d * r + e
    BY <1>1
  <1>3. d * r \in Nat
    BY <1>2, Products
  <1>4. n = q * r + i
    OBVIOUS
  <1> HIDE DEF n, d, e
  <1>5. ~(d < q)
    <2> SUFFICES ASSUME d < q PROVE FALSE
      OBVIOUS
    <2>1. (d + 1) * r <= q * r
      BY <1>2, ProductGrows
    <2>2. (d + 1) * r = d * r + r
      BY <1>2, Products
    <2> QED
      BY <1>1, <1>2, <1>3, <1>4, <2>1, <2>2
  <1>6. ~(q < d)
    <2> SUFFICES ASSUME q < d PROVE FALSE
      OBVIOUS
    <2>1. (q + 1) * r <= d * r
      BY <1>2, ProductGrows
    <2>2. (q + 1) * r = q * r + r
      BY <1>2, Products
    <2> QED
      BY <1>1, <1>2, <1>3, <1>4, <2>1, <2>2
  <1>7. d = q
    BY <1>2, <1>5, <1>6
  <1>8. e = i
    BY <1>1, <1>2, <1>4, <1>7
  <1> QED
    BY <1>7, <1>8 DEF n, d, e

LEMMA Divided ==
  ASSUME NEW n \in Nat, NEW r \in Nat \ {0}
  PROVE  n \div r \in Nat /\ n % r \in 0 .. r - 1 /\ n = (n \div r) * r + (n % r)
  OBVIOUS

\* A set of numbers with 0 and every successor holds them all.
LEMMA Induction ==
  ASSUME NEW X \in SUBSET Nat, 0 \in X, \A n \in X : n + 1 \in X
  PROVE  \A n \in Nat : n \in X
  <1> SUFFICES ASSUME Nat \ X # {} PROVE FALSE
    OBVIOUS
  <1> DEFINE C == Nat \ X
             Below == OpToRel(<, Nat)
  <1>1. \A x, y \in Nat : x < y => <<x, y>> \in Below
    BY DEF OpToRel
  <1>2. IsWellFoundedOn(Below, Nat)
    BY NatLessThanWellFounded
  <1>3. C \in SUBSET Nat /\ C # {}
    OBVIOUS
  <1>4. \A n \in C : n \in Nat /\ n # 0 /\ n - 1 \in C
    OBVIOUS
  <1> HIDE DEF C, Below
  <1>5. PICK m \in C : \A i \in C : ~(<<i, m>> \in Below)
    BY <1>2, <1>3, WFMin
  <1>6. m \in Nat /\ m - 1 \in Nat /\ m - 1 \in C /\ m - 1 < m
    BY <1>3, <1>4
  <1> QED
    BY <1>1, <1>5, <1>6

\* A loop of N turns from A whose turns lead from each of the sets I into the next one:
\* there is a record of its values, and every record of them is within the sets.
Leads(N, S, A, I, G) ==
  /\ N \in Nat
  /\ \A k \in 0 .. N : I[k] \in SUBSET S
  /\ A \in I[0]
  /\ \A k \in 0 .. N - 1 : \A t \in I[k] : G[t] \in I[k + 1]

LEMMA Loop ==
  ASSUME NEW N, NEW S, NEW A, NEW I, NEW G, Leads(N, S, A, I, G)
  PROVE  /\ \E f \in [0 .. N -> S] : f[0] = A /\ \A k \in 0 .. N - 1 : f[k + 1] = G[f[k]]
         /\ \A f : (f[0] = A /\ \A k \in 0 .. N - 1 : f[k] \in S => f[k + 1] = G[f[k]])
                   => \A k \in 0 .. N : f[k] \in I[k]
  <1> USE DEF Leads
  <1> DEFINE Record(k, f) == /\ f \in [0 .. k -> S] /\ f[0] = A
                             /\ \A j \in 0 .. k : f[j] \in I[j]
                             /\ \A j \in Nat : j < k => f[j + 1] = G[f[j]]
             X == {k \in Nat : k <= N => \E f : Record(k, f)}
  <1>1. 0 \in X
    <2>1. Record(0, [j \in 0 .. 0 |-> A])
      OBVIOUS
    <2> QED
      BY <2>1
  <1>2. ASSUME NEW k \in X PROVE k + 1 \in X
    <2> SUFFICES ASSUME k + 1 <= N PROVE \E f : Record(k + 1, f)
      <3> HIDE DEF Record
      <3> QED
        OBVIOUS
    <2>1. PICK f : Record(k, f)
      OBVIOUS
    <2> DEFINE g == [j \in 0 .. k + 1 |-> IF j = k + 1 THEN G[f[k]] ELSE f[j]]
    <2>2. f[k] \in I[k] /\ G[f[k]] \in I[k + 1]
      BY <2>1
    <2>3. \A j \in 0 .. k + 1 : g[j] \in I[j]
      BY <2>1, <2>2
    <2>4. g \in [0 .. k + 1 -> S]
      BY <2>3
    <2>5. g[0] = A
      BY <2>1
    <2>6. \A j \in Nat : j < k + 1 => g[j + 1] = G[g[j]]
      BY <2>1
    <2>7. Record(k + 1, g)
      BY <2>3, <2>4, <2>5, <2>6
    <2> QED
      BY <2>7
  <1>3. N \in X
    <2>1. X \in SUBSET Nat
      OBVIOUS
    <2> HIDE DEF X
    <2> QED
      BY <1>1, <1>2, <2>1, Induction
  <1>4. \E f \in [0 .. N -> S] : f[0] = A /\ \A k \in 0 .. N - 1 : f[k + 1] = G[f[k]]
    BY <1>3
  <1>5. ASSUME NEW f, f[0] = A, \A k \in 0 .. N - 1 : f[k] \in S => f[k + 1] = G[f[k]]
        PROVE  \A k \in 0 .. N : f[k] \in I[k]
    <2> DEFINE Y == {k \in Nat : k <= N => f[k] \in I[k]}
    <2>1. Y \in SUBSET Nat /\ 0 \in Y
      BY <1>5
    <2>2. \A k \in Y : k + 1 \in Y
      BY <1>5
    <2>3. \A k \in Nat : k \in Y
      <3> HIDE DEF Y
      <3> QED
        BY <2>1, <2>2, Induction
    <2> QED
      BY <2>3
  <1> QED
    BY <1>4, <1>5

\* A sequence without an end that is defined by its first value and by its turns.
LEMMA Recursion ==
  \A S : \A A \in S : \A G \in [Nat -> [S -> S]] :
    \E f \in [Nat -> S] : f[0] = A /\ \A j \in Nat : f[j + 1] = G[j][f[j]]
  <1> SUFFICES ASSUME NEW S, NEW A \in S, NEW G \in [Nat -> [S -> S]]
               PROVE  \E f \in [Nat -> S] : f[0] = A /\ \A j \in Nat : f[j + 1] = G[j][f[j]]
    OBVIOUS
  <1> DEFINE Record(k, f) == /\ f \in [0 .. k -> S] /\ f[0] = A
                             /\ \A j \in Nat : j < k => f[j + 1] = G[j][f[j]]
             X == {k \in Nat : \E f : Record(k, f)}
  <1>1. 0 \in X
    <2>1. Record(0, [j \in 0 .. 0 |-> A])
      OBVIOUS
    <2> QED
      BY <2>1
  <1>2. ASSUME NEW k \in X PROVE k + 1 \in X
    <2>1. PICK f : Record(k, f)
      OBVIOUS
    <2> DEFINE g == [j \in 0 .. k + 1 |-> IF j = k + 1 THEN G[k][f[k]] ELSE f[j]]
    <2>2. G[k][f[k]] \in S
      BY <2>1
    <2>3. g \in [0 .. k + 1 -> S] /\ g[0] = A
      BY <2>1, <2>2
    <2>4. ASSUME NEW j \in Nat, j < k + 1 PROVE g[j + 1] = G[j][g[j]]
      <3>1. j + 1 \in 0 .. k + 1 /\ j \in 0 .. k + 1 /\ j # k + 1
        BY <2>4
      <3>2. g[j] = f[j]
        BY <3>1
      <3>3. CASE j = k
        <4>1. j + 1 = k + 1
          BY <3>3
        <4>2. g[j + 1] = G[k][f[k]]
          BY <3>1, <4>1
        <4> QED
          BY <3>2, <3>3, <4>2
      <3>4. CASE j < k
        <4>1. g[j + 1] = f[j + 1]
          BY <3>1, <3>4
        <4> QED
          BY <2>1, <3>2, <3>4, <4>1
      <3> QED
        BY <2>4, <3>3, <3>4
    <2>5. Record(k + 1, g)
      <3> HIDE DEF g
      <3> QED
        BY <2>3, <2>4
    <2>6. \E h : Record(k + 1, h)
      <3> HIDE DEF Record
      <3> QED
        BY <2>5
    <2> QED
      <3> HIDE DEF Record
      <3> QED
        BY <2>6
  <1>3. \A k \in Nat : \E f : Record(k, f)
    <2>1. X \in SUBSET Nat
      OBVIOUS
    <2>2. \A k \in Nat : k \in X
      <3> HIDE DEF X
      <3> QED
        BY <1>1, <1>2, <2>1, Induction
    <2> QED
      BY <2>2
  <1>4. ASSUME NEW k \in Nat, NEW l \in Nat, NEW f, NEW g, Record(k, f), Record(l, g)
        PROVE  \A j \in Nat : j <= k /\ j <= l => f[j] = g[j]
    <2> DEFINE Y == {j \in Nat : j <= k /\ j <= l => f[j] = g[j]}
    <2>1. Y \in SUBSET Nat /\ 0 \in Y
      BY <1>4
    <2>2. ASSUME NEW j \in Y PROVE j + 1 \in Y
      <3> SUFFICES ASSUME j + 1 <= k, j + 1 <= l PROVE f[j + 1] = g[j + 1]
        BY <2>1
      <3>1. j \in Nat /\ j < k /\ j < l /\ f[j] = g[j]
        BY <2>1
      <3>2. f[j + 1] = G[j][f[j]] /\ g[j + 1] = G[j][g[j]]
        BY <1>4, <3>1
      <3> QED
        BY <3>1, <3>2
    <2>3. \A j \in Nat : j \in Y
      <3> HIDE DEF Y
      <3> QED
        BY <2>1, <2>2, Induction
    <2> QED
      BY <2>3
  <1> DEFINE To(k) == CHOOSE f : Record(k, f)
             F == [k \in Nat |-> To(k)[k]]
  <1>5. \A k \in Nat : Record(k, To(k))
    <2> HIDE DEF Record
    <2> QED
      BY <1>3
  <1> HIDE DEF To
  <1>6. F \in [Nat -> S] /\ F[0] = A
    BY <1>5
  <1>7. ASSUME NEW j \in Nat PROVE F[j + 1] = G[j][F[j]]
    <2>1. To(j + 1)[j + 1] = G[j][To(j + 1)[j]]
      BY <1>5
    <2>2. To(j + 1)[j] = To(j)[j]
      <3> HIDE DEF Record
      <3> QED
        BY <1>4, <1>5
    <2> QED
      BY <2>1, <2>2
  <1> QED
    BY <1>6, <1>7

----------------------------------------------------------------------------
(* The states after the blocks of a message.                                *)

Octet == SUBSET (0 .. 7)
State == [0 .. Width - 1 -> Octet]

\* KeccakF1600_StatePermute writes an array of Width bytes.
PermutesStates == Width \in Nat /\ \A x \in State : Permute(x) \in State

LEMMA ValueIs == \A x : Value({x}) = x
  BY DEF Value

LEMMA ComputedIs == \A x : Computed(x) = x
  BY DEF Computed

LEMMA XorIs ==
  /\ \A a, b \in Octet : XorBits(a, b) \in Octet
  /\ \A a, b, c \in Octet : XorBits(XorBits(a, b), c) = XorBits(a, XorBits(b, c))
  /\ \A a \in Octet : XorBits(a, {}) = a /\ XorBits({}, a) = a
  BY DEF XorBits, Octet

\* The state x with the bytes of m from place from to place upto, r of them at most.
Sum(x, m, r, from, upto) ==
  [i \in 0 .. Width - 1 |-> IF i < r /\ from + i < upto THEN XorBits(x[i], m[from + i + 1]) ELSE x[i]]

\* The states from x on, the one of number j + 1 by the j-th of the functions G.
Iterates(x, G) == CHOOSE f \in [Nat -> State] : f[0] = x /\ \A j \in Nat : f[j + 1] = G[j][f[j]]

\* The states after the whole blocks of m.
Chain(m, r) ==
  Iterates(keccak_init, [j \in Nat |-> [x \in State |-> Permute(Sum(x, m, r, j * r, Len(m)))]])

LEMMA IteratesAre ==
  \A x \in State : \A G \in [Nat -> [State -> State]] :
    /\ Iterates(x, G) \in [Nat -> State]
    /\ Iterates(x, G)[0] = x
    /\ \A j \in Nat : Iterates(x, G)[j + 1] = G[j][Iterates(x, G)[j]]
  <1>1. \A x \in State : \A G \in [Nat -> [State -> State]] :
          \E f \in [Nat -> State] : f[0] = x /\ \A j \in Nat : f[j + 1] = G[j][f[j]]
    BY Recursion
  <1> SUFFICES ASSUME NEW x \in State, NEW G \in [Nat -> [State -> State]]
               PROVE  /\ Iterates(x, G) \in [Nat -> State]
                      /\ Iterates(x, G)[0] = x
                      /\ \A j \in Nat : Iterates(x, G)[j + 1] = G[j][Iterates(x, G)[j]]
    OBVIOUS
  <1>2. \E f \in [Nat -> State] : f[0] = x /\ \A j \in Nat : f[j + 1] = G[j][f[j]]
    BY <1>1
  <1> QED
    BY <1>2 DEF Iterates

LEMMA SumType ==
  ASSUME PermutesStates, NEW x \in State, NEW m \in Seq(Octet), NEW r \in Nat,
         NEW from \in Nat, NEW upto \in Nat, upto <= Len(m)
  PROVE  Sum(x, m, r, from, upto) \in State
  <1> SUFFICES ASSUME NEW i \in 0 .. Width - 1
               PROVE  (IF i < r /\ from + i < upto THEN XorBits(x[i], m[from + i + 1]) ELSE x[i]) \in Octet
    BY DEF Sum, State
  <1>1. x[i] \in Octet
    BY DEF State
  <1>2. CASE i < r /\ from + i < upto
    <2>1. m[from + i + 1] \in Octet
      BY <1>2
    <2> QED
      BY <1>1, <1>2, <2>1, XorIs
  <1> QED
    BY <1>1, <1>2

LEMMA InitType ==
  ASSUME PermutesStates
  PROVE  keccak_init \in State
  BY DEF keccak_init, State, Octet

LEMMA ChainIs ==
  ASSUME PermutesStates, NEW m \in Seq(Octet), NEW r \in Nat
  PROVE  /\ Chain(m, r) \in [Nat -> State]
         /\ Chain(m, r)[0] = keccak_init
         /\ \A j \in Nat : Chain(m, r)[j + 1] = Permute(Sum(Chain(m, r)[j], m, r, j * r, Len(m)))
  <1> DEFINE G == [j \in Nat |-> [x \in State |-> Permute(Sum(x, m, r, j * r, Len(m)))]]
  <1>1. G \in [Nat -> [State -> State]]
    <2> SUFFICES ASSUME NEW j \in Nat, NEW x \in State
                 PROVE  Permute(Sum(x, m, r, j * r, Len(m))) \in State
      OBVIOUS
    <2>1. j * r \in Nat
      BY Products
    <2> QED
      BY <2>1, SumType DEF PermutesStates
  <1>2. \A j \in Nat : \A x \in State : G[j][x] = Permute(Sum(x, m, r, j * r, Len(m)))
    OBVIOUS
  <1>3. Chain(m, r) = Iterates(keccak_init, G)
    BY DEF Chain
  <1>4. keccak_init \in State
    BY InitType
  <1> HIDE DEF G
  <1>5. /\ Chain(m, r) \in [Nat -> State] /\ Chain(m, r)[0] = keccak_init
        /\ \A j \in Nat : Chain(m, r)[j + 1] = G[j][Chain(m, r)[j]]
    <2>1. /\ Iterates(keccak_init, G) \in [Nat -> State] /\ Iterates(keccak_init, G)[0] = keccak_init
          /\ \A j \in Nat : Iterates(keccak_init, G)[j + 1] = G[j][Iterates(keccak_init, G)[j]]
      BY <1>1, <1>4, IteratesAre
    <2> QED
      BY <1>3, <2>1
  <1> QED
    BY <1>2, <1>5

\* Two messages begin with the same n bytes.
Shared(m, p, n) == n <= Len(m) /\ n <= Len(p) /\ \A i \in 1 .. n : m[i] = p[i]

\* Blocks that two messages share lead to the same states.
LEMMA ChainShared ==
  ASSUME PermutesStates, NEW m \in Seq(Octet), NEW p \in Seq(Octet), NEW r \in Nat, NEW q \in Nat,
         NEW b, b = q * r, Shared(m, p, b)
  PROVE  Chain(m, r)[q] = Chain(p, r)[q]
  <1> DEFINE X == {j \in Nat : j <= q => Chain(m, r)[j] = Chain(p, r)[j]}
  <1>1. X \in SUBSET Nat /\ 0 \in X
    BY ChainIs
  <1>2. ASSUME NEW j \in X PROVE j + 1 \in X
    <2> SUFFICES ASSUME j + 1 <= q PROVE Chain(m, r)[j + 1] = Chain(p, r)[j + 1]
      BY <1>1
    <2> DEFINE x == Chain(m, r)[j]
    <2>1. j \in Nat /\ j <= q /\ x = Chain(p, r)[j] /\ x \in State
      <3>1. j \in Nat
        BY <1>1
      <3>2. Chain(m, r) \in [Nat -> State]
        BY ChainIs
      <3> QED
        BY <3>1, <3>2
    <2>2. /\ j * r \in Nat /\ q * r \in Nat
          /\ (j + 1) * r = j * r + r /\ (j + 1) * r <= q * r
      BY <2>1, Products, ProductGrows
    <2>3. Sum(x, m, r, j * r, Len(m)) = Sum(x, p, r, j * r, Len(p))
      <3> HIDE DEF x
      <3>1. ASSUME NEW i \in 0 .. Width - 1, i < r
            PROVE  j * r + i < Len(m) /\ j * r + i < Len(p) /\ m[j * r + i + 1] = p[j * r + i + 1]
        <4> DEFINE e == j * r
        <4>1. e \in Nat /\ e + r <= b /\ b \in Nat /\ i \in Nat /\ Len(m) \in Nat /\ Len(p) \in Nat
          BY <2>2 DEF PermutesStates
        <4> HIDE DEF e
        <4>2. e + i + 1 \in 1 .. b /\ e + i < b
          BY <3>1, <4>1
        <4>3. e + i < Len(m) /\ e + i < Len(p) /\ m[e + i + 1] = p[e + i + 1]
          BY <4>1, <4>2 DEF Shared
        <4> QED
          BY <4>3 DEF e
      <3> QED
        BY <3>1 DEF Sum
    <2> QED
      BY <2>1, <2>3, ChainIs
  <1> HIDE DEF X
  <1>3. \A j \in Nat : j \in X
    BY <1>1, <1>2, Induction
  <1> QED
    BY <1>3 DEF X

----------------------------------------------------------------------------
(* Absorbing.                                                               *)

\* The state x1 and the place p have taken up the first len bytes of m.
Absorbed(m, len, x1, p, r) ==
  /\ p \in 0 .. r - 1 /\ len \in 0 .. Len(m)
  /\ \E q \in Nat : len = q * r + p /\ x1 = Sum(Chain(m, r)[q], m, r, q * r, len)

LEMMA MixIs ==
  \A x, p, in :
    Mix(x, p, in) = [i \in 0 .. Width - 1 |->
                       IF i >= p /\ i < p + Len(in) THEN XorBits(x[i], in[i - p + 1]) ELSE x[i]]
  BY ComputedIs DEF Mix

\* Bytes that follow those of the sum in one block.
LEMMA MixAdds ==
  ASSUME PermutesStates, NEW x \in State, NEW m \in Seq(Octet), NEW r \in Nat, NEW from \in Nat,
         NEW p \in Nat, NEW in \in Seq(Octet), p + Len(in) <= r, from + p + Len(in) <= Len(m),
         \A i \in 1 .. Len(in) : in[i] = m[from + p + i]
  PROVE  Mix(Sum(x, m, r, from, from + p), p, in) = Sum(x, m, r, from, from + p + Len(in))
  <1> DEFINE y == Sum(x, m, r, from, from + p)
             z == Sum(x, m, r, from, from + p + Len(in))
  <1>1. ASSUME NEW i \in 0 .. Width - 1
        PROVE  (IF i >= p /\ i < p + Len(in) THEN XorBits(y[i], in[i - p + 1]) ELSE y[i]) = z[i]
    <2>1. i \in Nat /\ Len(in) \in Nat
      BY DEF PermutesStates
    <2>2. /\ y[i] = IF i < r /\ from + i < from + p THEN XorBits(x[i], m[from + i + 1]) ELSE x[i]
          /\ z[i] = IF i < r /\ from + i < from + p + Len(in) THEN XorBits(x[i], m[from + i + 1]) ELSE x[i]
      BY DEF Sum
    <2> HIDE DEF y, z
    <2>3. CASE i < p
      BY <2>1, <2>2, <2>3
    <2>4. CASE i >= p /\ i < p + Len(in)
      <3>1. i - p + 1 \in 1 .. Len(in) /\ from + p + (i - p + 1) = from + i + 1
        BY <2>1, <2>4
      <3>2. in[i - p + 1] = m[from + i + 1]
        BY <3>1
      <3> QED
        BY <2>1, <2>2, <2>4, <3>2
    <2>5. CASE i >= p + Len(in)
      BY <2>1, <2>2, <2>5
    <2> QED
      BY <2>1, <2>3, <2>4, <2>5
  <1>2. z = [i \in 0 .. Width - 1 |-> z[i]]
    BY DEF Sum
  <1> QED
    <2> HIDE DEF y, z
    <2>1. Mix(y, p, in) = [i \in 0 .. Width - 1 |-> z[i]]
      BY <1>1, MixIs
    <2>2. Mix(y, p, in) = z
      BY <1>2, <2>1
    <2> QED
      BY <2>2 DEF y, z

LEMMA SumNone ==
  ASSUME PermutesStates, NEW x \in State, NEW m, NEW r \in Nat, NEW from \in Nat
  PROVE  Sum(x, m, r, from, from) = x
  <1>1. \A i \in 0 .. Width - 1 : ~(from + i < from)
    BY DEF PermutesStates
  <1> QED
    BY <1>1 DEF Sum, State

\* A part of a block.
LEMMA PartMixed ==
  ASSUME PermutesStates, NEW m \in Seq(Octet), NEW r \in 1 .. Width, NEW len, NEW x1, NEW p,
         Absorbed(m, len, x1, p, r), NEW in \in Seq(Octet), p + Len(in) <= r,
         len + Len(in) <= Len(m), \A i \in 1 .. Len(in) : in[i] = m[len + i]
  PROVE  \E q \in Nat : /\ len = q * r + p
                        /\ Mix(x1, p, in) = Sum(Chain(m, r)[q], m, r, q * r, len + Len(in))
  <1>1. PICK q \in Nat : len = q * r + p /\ x1 = Sum(Chain(m, r)[q], m, r, q * r, len)
    BY DEF Absorbed
  <1>2. p \in 0 .. r - 1 /\ len \in 0 .. Len(m) /\ r \in Nat /\ Len(m) \in Nat
    BY DEF Absorbed, PermutesStates
  <1>3. q * r \in Nat
    BY <1>2, Products
  <1> DEFINE b == q * r
             c == Chain(m, r)[q]
  <1>4. c \in State
    BY <1>2, ChainIs
  <1>5. b \in Nat /\ len = b + p /\ x1 = Sum(c, m, r, b, b + p)
    BY <1>1, <1>3
  <1> HIDE DEF b, c
  <1>6. len + Len(in) = b + p + Len(in) /\ len + Len(in) = b + (p + Len(in))
    BY <1>2, <1>5
  <1>7. Mix(x1, p, in) = Sum(c, m, r, b, b + p + Len(in))
    <2>1. p \in Nat /\ p + Len(in) <= r /\ b + p + Len(in) <= Len(m)
      BY <1>2, <1>5, <1>6
    <2>2. \A i \in 1 .. Len(in) : in[i] = m[b + p + i]
      BY <1>5
    <2>3. Mix(Sum(c, m, r, b, b + p), p, in) = Sum(c, m, r, b, b + p + Len(in))
      BY <1>2, <1>4, <1>5, <2>1, <2>2, MixAdds
    <2> QED
      BY <1>5, <2>3
  <1> QED
    <2>1. Mix(x1, p, in) = Sum(Chain(m, r)[q], m, r, q * r, len + Len(in))
      BY <1>6, <1>7 DEF b, c
    <2> QED
      BY <1>1, <2>1

\* A block is full: the permutation follows.
LEMMA BlockAbsorbed ==
  ASSUME PermutesStates, NEW m \in Seq(Octet), NEW r \in 1 .. Width, NEW len, NEW x1, NEW p,
         Absorbed(m, len, x1, p, r), NEW in \in Seq(Octet), Len(in) = r - p,
         len + Len(in) <= Len(m), \A i \in 1 .. Len(in) : in[i] = m[len + i]
  PROVE  Absorbed(m, len + Len(in), Permute(Mix(x1, p, in)), 0, r)
  <1>1. p \in 0 .. r - 1 /\ len \in 0 .. Len(m) /\ r \in Nat /\ Len(m) \in Nat /\ Len(in) \in Nat
    BY DEF Absorbed, PermutesStates
  <1>2. p + Len(in) = r /\ p + Len(in) <= r
    BY <1>1
  <1>3. PICK q \in Nat : /\ len = q * r + p
                        /\ Mix(x1, p, in) = Sum(Chain(m, r)[q], m, r, q * r, len + Len(in))
    <2> HIDE DEF Absorbed
    <2> QED
      BY <1>2, PartMixed, SMTT(60)
  <1> DEFINE b == q * r
             c == Chain(m, r)[q]
             d == Chain(m, r)[q + 1]
  <1>4. b \in Nat /\ (q + 1) * r = b + r /\ q + 1 \in Nat
    BY <1>1, Products
  <1>5. c \in State /\ d \in State /\ d = Permute(Sum(c, m, r, b, Len(m)))
    BY <1>1, <1>4, ChainIs
  <1>6. len = b + p /\ Mix(x1, p, in) = Sum(c, m, r, b, len + Len(in))
    BY <1>3
  <1> HIDE DEF b, c, d
  <1>7. len + Len(in) = b + r
    BY <1>1, <1>2, <1>4, <1>6
  <1>8. Sum(c, m, r, b, len + Len(in)) = Sum(c, m, r, b, Len(m))
    <2>1. \A i \in 0 .. Width - 1 :
            (i < r /\ b + i < len + Len(in)) <=> (i < r /\ b + i < Len(m))
      BY <1>1, <1>4, <1>7 DEF PermutesStates
    <2> QED
      BY <2>1 DEF Sum
  <1>9. Permute(Mix(x1, p, in)) = Sum(d, m, r, b + r, b + r)
    <2>1. b + r \in Nat
      BY <1>1, <1>4
    <2> QED
      BY <1>1, <1>5, <1>6, <1>8, <2>1, SumNone
  <1> QED
    <2>1. /\ len + Len(in) = (q + 1) * r + 0 /\ len + Len(in) = (q + 1) * r
          /\ 0 \in 0 .. r - 1 /\ len + Len(in) \in 0 .. Len(m)
      BY <1>1, <1>4, <1>7
    <2>2. Permute(Mix(x1, p, in)) = Sum(Chain(m, r)[q + 1], m, r, (q + 1) * r, len + Len(in))
      BY <1>4, <1>7, <1>9 DEF d
    <2> QED
      BY <1>4, <2>1, <2>2 DEF Absorbed

\* A block is not full.
LEMMA RestAbsorbed ==
  ASSUME PermutesStates, NEW m \in Seq(Octet), NEW r \in 1 .. Width, NEW len, NEW x1, NEW p,
         Absorbed(m, len, x1, p, r), NEW in \in Seq(Octet), p + Len(in) < r,
         len + Len(in) <= Len(m), \A i \in 1 .. Len(in) : in[i] = m[len + i]
  PROVE  Absorbed(m, len + Len(in), Mix(x1, p, in), p + Len(in), r)
  <1>1. PICK q \in Nat : /\ len = q * r + p
                        /\ Mix(x1, p, in) = Sum(Chain(m, r)[q], m, r, q * r, len + Len(in))
    <2>1. p + Len(in) <= r
      BY DEF Absorbed, PermutesStates
    <2> QED
      BY <2>1, PartMixed
  <1>2. p \in 0 .. r - 1 /\ len \in 0 .. Len(m) /\ r \in Nat /\ Len(m) \in Nat /\ Len(in) \in Nat
    BY DEF Absorbed, PermutesStates
  <1>3. q * r \in Nat
    BY <1>2, Products
  <1>4. p + Len(in) \in 0 .. r - 1 /\ len + Len(in) \in 0 .. Len(m)
    BY <1>2
  <1>5. len + Len(in) = q * r + (p + Len(in))
    BY <1>1, <1>2, <1>3
  <1> QED
    BY <1>1, <1>4, <1>5 DEF Absorbed

\* Bytes to come do not change what the first ones lead to.
LEMMA AbsorbedLonger ==
  ASSUME PermutesStates, NEW m \in Seq(Octet), NEW r \in 1 .. Width, NEW x1, NEW p,
         Absorbed(m, Len(m), x1, p, r), NEW in \in Seq(Octet)
  PROVE  Absorbed(m \o in, Len(m), x1, p, r)
  <1> DEFINE n == m \o in
  <1>1. PICK q \in Nat : Len(m) = q * r + p /\ x1 = Sum(Chain(m, r)[q], m, r, q * r, Len(m))
    BY DEF Absorbed
  <1>2. p \in 0 .. r - 1 /\ r \in Nat /\ Len(m) \in Nat
    BY DEF Absorbed, PermutesStates
  <1>3. q * r \in Nat /\ q * r <= Len(m)
    BY <1>1, <1>2, Products
  <1>4. /\ n \in Seq(Octet) /\ Len(n) = Len(m) + Len(in) /\ Len(in) \in Nat
        /\ \A i \in 1 .. Len(m) : m[i] = n[i]
    OBVIOUS
  <1> HIDE DEF n
  <1>5. Chain(m, r)[q] = Chain(n, r)[q]
    <2> DEFINE b == q * r
    <2>1. b = q * r /\ Shared(m, n, b)
      BY <1>2, <1>3, <1>4 DEF Shared
    <2> HIDE DEF b
    <2> QED
      BY <1>2, <1>4, <2>1, ChainShared
  <1> DEFINE b == q * r
             c == Chain(n, r)[q]
  <1>6. Sum(c, m, r, b, Len(m)) = Sum(c, n, r, b, Len(m))
    <2> HIDE DEF c
    <2>1. ASSUME NEW i \in 0 .. Width - 1, b + i < Len(m) PROVE m[b + i + 1] = n[b + i + 1]
      <3>1. b \in Nat /\ i \in Nat
        BY <1>3 DEF PermutesStates
      <3> HIDE DEF b
      <3>2. b + i + 1 \in 1 .. Len(m)
        BY <1>2, <2>1, <3>1
      <3> QED
        BY <1>4, <3>2
    <2> HIDE DEF b
    <2> QED
      BY <2>1 DEF Sum
  <1>7. Absorbed(n, Len(m), x1, p, r)
    <2>1. Len(m) \in 0 .. Len(n)
      BY <1>2, <1>4
    <2> QED
      BY <1>1, <1>2, <1>5, <1>6, <2>1 DEF Absorbed
  <1> QED
    BY <1>7 DEF n

\* What a loop of keccak_absorb works with, and one turn of it.
Absorbing == [s : State, pos : Nat, in : Seq(Octet)]

AbsorbTurn(t, r) ==
  [s |-> Permute(Mix(t.s, t.pos, SubSeq(t.in, 1, r - t.pos))),
   pos |-> 0,
   in |-> SubSeq(t.in, r - t.pos + 1, Len(t.in))]

\* The bytes that t has left are the last ones of m, the others are absorbed.
Rest(m, t, r) ==
  /\ Len(t.in) <= Len(m)
  /\ Absorbed(m, Len(m) - Len(t.in), t.s, t.pos, r)
  /\ \A i \in 1 .. Len(t.in) : t.in[i] = m[Len(m) - Len(t.in) + i]

LEMMA AbsorbedType ==
  ASSUME PermutesStates, NEW m \in Seq(Octet), NEW r \in 1 .. Width, NEW len, NEW x1, NEW p,
         Absorbed(m, len, x1, p, r)
  PROVE  x1 \in State /\ p \in Nat /\ p < r
  <1>1. PICK q \in Nat : x1 = Sum(Chain(m, r)[q], m, r, q * r, len)
    BY DEF Absorbed
  <1>2. p \in 0 .. r - 1 /\ len \in 0 .. Len(m) /\ r \in Nat /\ Len(m) \in Nat
    BY DEF Absorbed, PermutesStates
  <1>3. q * r \in Nat /\ Chain(m, r)[q] \in State
    BY <1>2, Products, ChainIs
  <1>4. len \in Nat /\ len <= Len(m)
    BY <1>2
  <1>5. Sum(Chain(m, r)[q], m, r, q * r, len) \in State
    BY <1>2, <1>3, <1>4, SumType
  <1> QED
    BY <1>1, <1>2, <1>5

LEMMA TurnAbsorbs ==
  ASSUME PermutesStates, NEW m \in Seq(Octet), NEW r \in 1 .. Width, NEW t \in Absorbing,
         Rest(m, t, r), t.pos + Len(t.in) >= r
  PROVE  /\ AbsorbTurn(t, r) \in Absorbing
         /\ Rest(m, AbsorbTurn(t, r), r)
         /\ AbsorbTurn(t, r).pos + Len(AbsorbTurn(t, r).in) = t.pos + Len(t.in) - r
  <1> DEFINE n == r - t.pos
             part == SubSeq(t.in, 1, n)
             rest == SubSeq(t.in, n + 1, Len(t.in))
             u == Permute(Mix(t.s, t.pos, part))
             len == Len(m) - Len(t.in)
  <1>1. /\ t.in \in Seq(Octet) /\ Len(t.in) \in Nat /\ Len(m) \in Nat /\ r \in Nat
        /\ Absorbed(m, len, t.s, t.pos, r) /\ len \in Nat
        /\ \A i \in 1 .. Len(t.in) : t.in[i] = m[len + i]
    BY DEF Absorbing, PermutesStates, Rest
  <1>2. t.pos \in Nat /\ t.pos < r
    <2> HIDE DEF len
    <2> QED
      BY <1>1, AbsorbedType
  <1>3. n \in 1 .. Len(t.in)
    BY <1>1, <1>2
  <1>4. /\ part \in Seq(Octet) /\ Len(part) = n /\ \A i \in 1 .. n : part[i] = t.in[i]
        /\ rest \in Seq(Octet) /\ Len(rest) = Len(t.in) - n
        /\ \A i \in 1 .. Len(rest) : rest[i] = t.in[n + i]
    <2> HIDE DEF n
    <2> QED
      BY <1>1, <1>3
  <1>5. Absorbed(m, len + n, u, 0, r)
    <2>1. Len(part) = r - t.pos
      BY <1>4
    <2>2. len + Len(part) <= Len(m) /\ \A i \in 1 .. Len(part) : part[i] = m[len + i]
      <3>1. len = Len(m) - Len(t.in)
        OBVIOUS
      <3> HIDE DEF part, rest, n, len
      <3>2. len + n <= Len(m) /\ Len(part) = n /\ n <= Len(t.in) /\ n \in Nat
        <4>1. Len(m) \in Nat /\ Len(t.in) \in Nat /\ n \in 1 .. Len(t.in) /\ Len(part) = n
          BY <1>1, <1>3, <1>4
        <4> QED
          BY <3>1, <4>1
      <3>3. ASSUME NEW i \in 1 .. n PROVE part[i] = m[len + i]
        <4>1. i \in 1 .. Len(t.in)
          BY <1>1, <3>2
        <4> QED
          BY <1>1, <1>4, <4>1
      <3> QED
        BY <3>2, <3>3
    <2> HIDE DEF part, len
    <2>3. Absorbed(m, len + Len(part), Permute(Mix(t.s, t.pos, part)), 0, r)
      BY <1>1, <1>4, <2>1, <2>2, BlockAbsorbed
    <2> QED
      BY <1>4, <2>3
  <1>6. u \in State
    <2> HIDE DEF u, len, n
    <2> QED
      BY <1>5, AbsorbedType
  <1>7. Len(m) - Len(rest) = len + n /\ Len(rest) <= Len(m)
    <2>1. len = Len(m) - Len(t.in)
      OBVIOUS
    <2> HIDE DEF part, rest, n, len
    <2> QED
      BY <1>1, <1>3, <1>4, <2>1
  <1>8. \A i \in 1 .. Len(rest) : rest[i] = m[Len(m) - Len(rest) + i]
    <2> SUFFICES ASSUME NEW i \in 1 .. Len(rest)
                 PROVE  rest[i] = m[Len(m) - Len(rest) + i]
      OBVIOUS
    <2>1. n + i \in 1 .. Len(t.in) /\ rest[i] = t.in[n + i] /\ len + (n + i) = Len(m) - Len(rest) + i
      <3> HIDE DEF part, rest, n, len
      <3>1. i \in Nat /\ i >= 1 /\ i <= Len(t.in) - n /\ Len(rest) \in Nat
        BY <1>1, <1>3, <1>4
      <3>2. n + i \in 1 .. Len(t.in)
        BY <1>1, <1>3, <3>1
      <3>3. len + (n + i) = Len(m) - Len(rest) + i
        <4>1. len \in Nat /\ n \in Nat /\ Len(m) \in Nat
          BY <1>1, <1>3
        <4> QED
          BY <1>7, <3>1, <4>1
      <3> QED
        BY <1>4, <3>2, <3>3
    <2> HIDE DEF part, rest, n, len
    <2> QED
      BY <1>1, <2>1
  <1>9. AbsorbTurn(t, r) = [s |-> u, pos |-> 0, in |-> rest]
    BY DEF AbsorbTurn
  <1> HIDE DEF u, rest, len, n, part
  <1>10. AbsorbTurn(t, r) \in Absorbing
    BY <1>4, <1>6, <1>9 DEF Absorbing
  <1>11. Rest(m, AbsorbTurn(t, r), r)
    BY <1>5, <1>7, <1>8, <1>9 DEF Rest
  <1>12. 0 + Len(rest) = t.pos + Len(t.in) - r
    BY <1>1, <1>2, <1>4 DEF n
  <1> QED
    BY <1>9, <1>10, <1>11, <1>12

\* The loop leaves less than a block.
LEMMA BlocksAbsorb ==
  ASSUME PermutesStates, NEW m \in Seq(Octet), NEW r \in 1 .. Width, NEW x1, NEW p, NEW in,
         [s |-> x1, pos |-> p, in |-> in] \in Absorbing, Rest(m, [s |-> x1, pos |-> p, in |-> in], r)
  PROVE  /\ AbsorbBlocks(x1, p, r, in) \in Absorbing
         /\ Rest(m, AbsorbBlocks(x1, p, r, in), r)
         /\ AbsorbBlocks(x1, p, r, in).pos + Len(AbsorbBlocks(x1, p, r, in).in) < r
  <1> DEFINE A == [s |-> x1, pos |-> p, in |-> in]
             N == Turns(p, Len(in), r)
             F(f) == [k \in 0 .. N |->
                       IF k = 0 THEN [s |-> x1, pos |-> p, in |-> in]
                       ELSE Value({[s |-> Permute(Mix(t.s, t.pos, SubSeq(t.in, 1, r - t.pos))),
                                    pos |-> 0,
                                    in |-> SubSeq(t.in, r - t.pos + 1, Len(t.in))] : t \in {f[k - 1]}})]
             turn == CHOOSE f : f = F(f)
             G == [t \in Absorbing |-> AbsorbTurn(t, r)]
             I == [k \in 0 .. N |-> {t \in Absorbing : /\ Rest(m, t, r)
                                                       /\ t.pos + Len(t.in) = p + Len(in) - k * r}]
  <1>1. AbsorbBlocks(x1, p, r, in) = turn[N]
    BY DEF AbsorbBlocks
  <1>2. /\ x1 \in State /\ p \in Nat /\ in \in Seq(Octet) /\ Len(in) \in Nat /\ r \in Nat \ {0}
        /\ p + Len(in) \in Nat
    BY DEF Absorbing, PermutesStates
  <1>3. N \in Nat /\ N * r <= p + Len(in) /\ p + Len(in) - N * r < r /\ N * r \in Nat
    <2>1. N = (p + Len(in)) \div r
      BY DEF Turns
    <2> DEFINE T == p + Len(in)
    <2>2. T \in Nat
      BY <1>2
    <2> HIDE DEF T
    <2>3. T \div r \in Nat /\ T % r \in 0 .. r - 1 /\ T = (T \div r) * r + (T % r)
      BY <1>2, <2>2, Divided
    <2>4. (T \div r) * r \in Nat
      BY <1>2, <2>3, Products
    <2>5. T \div r \in Nat /\ (T \div r) * r <= T /\ T - (T \div r) * r < r
      BY <1>2, <2>2, <2>3, <2>4
    <2>6. N = T \div r
      BY <2>1 DEF T
    <2> HIDE DEF N
    <2> DEFINE e == N * r
    <2>7. N \in Nat /\ e <= T /\ T - e < r /\ e \in Nat
      BY <2>4, <2>5, <2>6
    <2> HIDE DEF e
    <2>8. e <= p + Len(in) /\ p + Len(in) - e < r
      BY <1>2, <2>7 DEF T
    <2> QED
      BY <2>7, <2>8 DEF e
  <1>4. \A t : Value({[s |-> Permute(Mix(y.s, y.pos, SubSeq(y.in, 1, r - y.pos))),
                       pos |-> 0,
                       in |-> SubSeq(y.in, r - y.pos + 1, Len(y.in))] : y \in {t}}) = AbsorbTurn(t, r)
    BY DEF Value, AbsorbTurn
  <1>5. \A f : F(f) = [k \in 0 .. N |-> IF k = 0 THEN A ELSE AbsorbTurn(f[k - 1], r)]
    <2> HIDE DEF N
    <2> QED
      BY <1>4
  <1> HIDE DEF N, F, A
  <1>6. A \in I[0]
    <2>1. A.pos + Len(A.in) = p + Len(in) - 0 * r
      BY <1>2 DEF A
    <2>2. 0 \in 0 .. N
      BY <1>3
    <2> QED
      BY <2>1, <2>2 DEF A
  <1>7. \A k \in 0 .. N : I[k] \in SUBSET Absorbing
    OBVIOUS
  <1>8. ASSUME NEW k \in 0 .. N - 1, NEW t \in I[k] PROVE G[t] \in I[k + 1]
    <2>1. k \in Nat /\ k \in 0 .. N /\ k + 1 \in 0 .. N /\ k + 1 <= N /\ k + 1 \in Nat
      BY <1>3
    <2>2. t \in Absorbing /\ Rest(m, t, r) /\ t.pos + Len(t.in) = p + Len(in) - k * r
      BY <2>1
    <2>3. k * r \in Nat /\ (k + 1) * r = k * r + r /\ (k + 1) * r <= N * r /\ N * r \in Nat
      BY <1>2, <1>3, <2>1, Products, ProductGrows
    <2> DEFINE b == k * r
               c == (k + 1) * r
               e == N * r
    <2>4. b \in Nat /\ c = b + r /\ c <= e /\ e \in Nat /\ e <= p + Len(in)
          /\ t.pos + Len(t.in) = p + Len(in) - b
      BY <1>3, <2>2, <2>3
    <2> HIDE DEF b, c, e
    <2>5. t.pos + Len(t.in) >= r /\ t.pos + Len(t.in) - r = p + Len(in) - c
      <3> DEFINE x == t.pos + Len(t.in)
                 y == p + Len(in)
      <3>1. /\ x = p + (Len(in) - b) /\ x \in Nat /\ y \in Nat
            /\ t.pos + (Len(t.in) - r) = x - r
        <4>1. t.pos \in Nat /\ t.in \in Seq(Octet)
          BY <2>2 DEF Absorbing
        <4>2. Len(t.in) \in Nat
          BY <4>1
        <4> QED
          BY <1>2, <2>4, <4>1, <4>2
      <3>2. x = y - b /\ p + (Len(in) - c) = y - c
        BY <1>2, <2>4, <3>1
      <3> HIDE DEF x, y
      <3>3. e <= y
        BY <2>4 DEF y
      <3>4. x >= r /\ x - r = y - c
        BY <1>2, <2>4, <3>1, <3>2, <3>3
      <3>5. p + (Len(in) - c) = x - r
        BY <3>2, <3>4
      <3> QED
        BY <3>1, <3>4, <3>5 DEF x
    <2>6. /\ AbsorbTurn(t, r) \in Absorbing
          /\ Rest(m, AbsorbTurn(t, r), r)
          /\ AbsorbTurn(t, r).pos + Len(AbsorbTurn(t, r).in) = p + Len(in) - c
      BY <2>2, <2>5, TurnAbsorbs
    <2>7. AbsorbTurn(t, r) \in I[k + 1]
      BY <2>1, <2>6 DEF c
    <2> QED
      BY <2>2, <2>7
  <1>9. \A t \in Absorbing : G[t] = AbsorbTurn(t, r)
    OBVIOUS
  <1> HIDE DEF G
  <1>10. /\ \E f \in [0 .. N -> Absorbing] : f[0] = A /\ \A k \in 0 .. N - 1 : f[k + 1] = G[f[k]]
         /\ \A f : (f[0] = A /\ \A k \in 0 .. N - 1 : f[k] \in Absorbing => f[k + 1] = G[f[k]])
                   => \A k \in 0 .. N : f[k] \in I[k]
    <2> HIDE DEF I
    <2>1. Leads(N, Absorbing, A, I, G)
      BY <1>3, <1>6, <1>7, <1>8 DEF Leads
    <2> QED
      BY <2>1, Loop
  <1>11. \E f : f = F(f)
    <2>1. PICK f \in [0 .. N -> Absorbing] : f[0] = A /\ \A k \in 0 .. N - 1 : f[k + 1] = G[f[k]]
      BY <1>10
    <2>2. ASSUME NEW k \in 0 .. N PROVE f[k] = IF k = 0 THEN A ELSE AbsorbTurn(f[k - 1], r)
      <3>1. CASE k = 0
        BY <2>1, <3>1
      <3>2. CASE k # 0
        <4>1. k - 1 \in 0 .. N - 1 /\ k - 1 \in 0 .. N /\ (k - 1) + 1 = k
          BY <1>3, <3>2
        <4>2. f[(k - 1) + 1] = G[f[k - 1]] /\ f[k - 1] \in Absorbing
          BY <2>1, <4>1
        <4> QED
          BY <1>9, <3>2, <4>1, <4>2
      <3> QED
        BY <3>1, <3>2
    <2>3. f = [k \in 0 .. N |-> IF k = 0 THEN A ELSE AbsorbTurn(f[k - 1], r)]
      BY <2>1, <2>2
    <2> QED
      BY <1>5, <2>3
  <1>12. turn = F(turn)
    <2>1. turn = CHOOSE f : f = F(f)
      OBVIOUS
    <2> HIDE DEF turn
    <2> QED
      BY <1>11, <2>1
  <1> HIDE DEF turn
  <1>13. turn = [k \in 0 .. N |-> IF k = 0 THEN A ELSE AbsorbTurn(turn[k - 1], r)]
    BY <1>5, <1>12
  <1>14. turn[0] = A
    <2>1. 0 \in 0 .. N
      BY <1>3
    <2> QED
      BY <1>13, <2>1
  <1>15. ASSUME NEW k \in 0 .. N - 1, turn[k] \in Absorbing PROVE turn[k + 1] = G[turn[k]]
    <2>1. k + 1 \in 0 .. N /\ k + 1 # 0 /\ (k + 1) - 1 = k
      BY <1>3
    <2>2. turn[k + 1] = AbsorbTurn(turn[k], r)
      BY <1>13, <2>1
    <2> QED
      BY <1>9, <1>15, <2>2
  <1>16. turn[N] \in I[N]
    <2>1. N \in 0 .. N
      BY <1>3
    <2> HIDE DEF I
    <2> QED
      BY <1>10, <1>14, <1>15, <2>1
  <1> QED
    <2>1. N \in 0 .. N
      BY <1>3
    <2>2. turn[N] \in Absorbing /\ Rest(m, turn[N], r) /\ turn[N].pos + Len(turn[N].in) = p + Len(in) - N * r
      BY <1>16, <2>1
    <2> QED
      BY <1>1, <1>3, <2>2

\* What a call of keccak_absorb leaves has taken up the bytes before and those of the call.
LEMMA CallAbsorbs ==
  ASSUME PermutesStates, NEW m \in Seq(Octet), NEW r \in 1 .. Width, NEW x1, NEW p,
         Absorbed(m, Len(m), x1, p, r), NEW in \in Seq(Octet)
  PROVE  /\ m \o in \in Seq(Octet)
         /\ Absorbed(m \o in, Len(m \o in), keccak_absorb(x1, p, r, in).s,
                     keccak_absorb(x1, p, r, in).pos, r)
  <1> DEFINE n == m \o in
             A == [s |-> x1, pos |-> p, in |-> in]
             T == AbsorbBlocks(x1, p, r, in)
             k == keccak_absorb(x1, p, r, in)
  <1>1. k = [s |-> Mix(T.s, T.pos, T.in), pos |-> T.pos + Len(T.in)]
    BY DEF keccak_absorb, Value
  <1>2. /\ n \in Seq(Octet) /\ Len(n) = Len(m) + Len(in) /\ Len(in) \in Nat /\ Len(m) \in Nat
        /\ \A i \in 1 .. Len(in) : in[i] = n[Len(m) + i]
    OBVIOUS
  <1>3. Absorbed(n, Len(m), x1, p, r)
    BY AbsorbedLonger
  <1> HIDE DEF n, T, k
  <1>4. x1 \in State /\ p \in Nat /\ p < r
    BY <1>2, <1>3, AbsorbedType
  <1>5. A \in Absorbing /\ A.in = in /\ A.s = x1 /\ A.pos = p
    BY <1>4 DEF Absorbing
  <1>6. Rest(n, A, r)
    <2>1. Len(n) - Len(in) = Len(m) /\ Len(in) <= Len(n)
      BY <1>2
    <2> HIDE DEF A
    <2> QED
      BY <1>2, <1>3, <1>5, <2>1 DEF Rest
  <1>7. T \in Absorbing /\ Rest(n, T, r) /\ T.pos + Len(T.in) < r
    BY <1>2, <1>5, <1>6, BlocksAbsorb DEF T
  <1> HIDE DEF A
  <1> DEFINE len == Len(n) - Len(T.in)
  <1>8. /\ T.in \in Seq(Octet) /\ Len(T.in) \in Nat /\ Len(n) \in Nat
        /\ Absorbed(n, len, T.s, T.pos, r) /\ len + Len(T.in) = Len(n)
        /\ \A i \in 1 .. Len(T.in) : T.in[i] = n[len + i]
    BY <1>2, <1>7 DEF Absorbing, Rest
  <1> HIDE DEF len
  <1>9. Absorbed(n, len + Len(T.in), Mix(T.s, T.pos, T.in), T.pos + Len(T.in), r)
    <2>1. len + Len(T.in) <= Len(n)
      BY <1>8
    <2> QED
      BY <1>2, <1>7, <1>8, <2>1, RestAbsorbed
  <1>10. k.s = Mix(T.s, T.pos, T.in) /\ k.pos = T.pos + Len(T.in)
    BY <1>1
  <1>11. Absorbed(n, Len(n), k.s, k.pos, r)
    BY <1>8, <1>9, <1>10
  <1> QED
    BY <1>2, <1>11 DEF n, k

LEMMA NothingAbsorbed ==
  ASSUME PermutesStates, NEW r \in 1 .. Width
  PROVE  <<>> \in Seq(Octet) /\ Absorbed(<<>>, Len(<<>>), keccak_init, 0, r)
  <1> DEFINE m == <<>>
  <1>1. m \in Seq(Octet) /\ Len(m) = 0 /\ r \in Nat
    BY DEF PermutesStates
  <1> HIDE DEF m
  <1>2. Chain(m, r)[0] = keccak_init
    BY <1>1, ChainIs
  <1>3. Sum(keccak_init, m, r, 0, 0) = keccak_init
    BY <1>1, InitType, SumNone
  <1>4. 0 * r = 0 /\ 0 = 0 * r + 0 /\ 0 \in 0 .. r - 1 /\ 0 \in 0 .. Len(m)
    BY <1>1 DEF PermutesStates
  <1>5. keccak_init = Sum(Chain(m, r)[0], m, r, 0 * r, 0)
    BY <1>2, <1>3, <1>4
  <1>6. Absorbed(m, 0, keccak_init, 0, r)
    BY <1>4, <1>5 DEF Absorbed
  <1>7. m \in Seq(Octet) /\ Absorbed(m, Len(m), keccak_init, 0, r)
    BY <1>1, <1>6
  <1> QED
    BY <1>7 DEF m

----------------------------------------------------------------------------
(* The end of the message.                                                  *)

\* The constants of fips202.h fit together.
XofAssumption == PermutesStates /\ Sizes

Algorithms == Shake \cup Sha3

LEMMA RateIs ==
  ASSUME XofAssumption, NEW a \in Algorithms
  PROVE  Rate[a] \in 1 .. Width /\ Rate[a] \in Nat \ {0} /\ Suffix[a] \in Octet /\ {7} \in Octet
  <1>1. Rate[a] \in 1 .. Width /\ Width \in Nat
    BY DEF XofAssumption, Sizes, Algorithms
  <1>2. Suffix[a] \in {{0, 1, 2, 3, 4}, {1, 2}}
    BY DEF Suffix, Algorithms
  <1> QED
    BY <1>1, <1>2 DEF Octet

LEMMA SymmetricDifferenceIs == \A a, b : H!SymmetricDifference(a, b) = XorBits(a, b)
  BY DEF H!SymmetricDifference, XorBits

\* The number of the block that pads the message.
First(a, m) == (Len(m) \div Rate[a]) + 1

LEMMA PaddedIs ==
  ASSUME XofAssumption, NEW a \in Algorithms, NEW m \in Seq(Octet)
  PROVE  /\ First(a, m) \in Nat \ {0}
         /\ H!Padded(a, m) \in Seq(Octet)
         /\ Len(H!Padded(a, m)) = First(a, m) * Rate[a]
         /\ Len(m) < First(a, m) * Rate[a]
         /\ \A i \in 1 .. First(a, m) * Rate[a] :
              H!Padded(a, m)[i] =
                XorBits(IF i <= Len(m) THEN m[i] ELSE IF i = Len(m) + 1 THEN Suffix[a] ELSE {},
                    IF i = First(a, m) * Rate[a] THEN {7} ELSE {})
  <1> DEFINE r == Rate[a]
             q == Len(m) \div r
             n == r * (q + 1)
             u(i) == IF i <= Len(m) THEN m[i] ELSE IF i = Len(m) + 1 THEN Suffix[a] ELSE {}
             v(i) == IF i = n THEN {7} ELSE {}
  <1>1. r \in Nat \ {0} /\ Len(m) \in Nat /\ Suffix[a] \in Octet /\ {7} \in Octet /\ {} \in Octet
    BY RateIs DEF Octet
  <1>2. q \in Nat /\ Len(m) = q * r + (Len(m) % r) /\ Len(m) % r \in 0 .. r - 1
    <2> HIDE DEF r
    <2> QED
      BY <1>1, Divided
  <1>3. n = (q + 1) * r /\ n = q * r + r /\ n \in Nat /\ Len(m) < n
    <2> HIDE DEF r, q
    <2>1. q * r \in Nat /\ (q + 1) * r = q * r + r
      BY <1>1, <1>2, Products
    <2>2. r * (q + 1) = (q + 1) * r
      BY <1>1, <1>2
    <2> QED
      BY <1>1, <1>2, <2>1, <2>2
  <1>4. H!Padded(a, m) = [i \in 1 .. n |-> XorBits(u(i), v(i))]
    BY SymmetricDifferenceIs DEF H!Padded
  <1>5. ASSUME NEW i \in 1 .. n PROVE XorBits(u(i), v(i)) \in Octet
    <2>1. u(i) \in Octet
      <3> HIDE DEF n
      <3>1. CASE i <= Len(m)
        <4>1. i \in 1 .. Len(m)
          BY <1>1, <1>3, <3>1
        <4> QED
          BY <3>1, <4>1
      <3> QED
        BY <1>1, <3>1
    <2>2. v(i) \in Octet
      BY <1>1
    <2> HIDE DEF u, v
    <2> QED
      BY <2>1, <2>2, XorIs
  <1> HIDE DEF n
  <1>6. H!Padded(a, m) \in Seq(Octet) /\ Len(H!Padded(a, m)) = n
    <2> HIDE DEF u, v
    <2> QED
      BY <1>3, <1>4, <1>5
  <1>7. \A i \in 1 .. n : H!Padded(a, m)[i] = XorBits(u(i), v(i))
    BY <1>4
  <1>8. First(a, m) = q + 1 /\ First(a, m) * r = n
    BY <1>3 DEF First
  <1>9. First(a, m) \in Nat \ {0}
    BY <1>2, <1>8
  <1> QED
    BY <1>3, <1>6, <1>7, <1>8, <1>9

\* The states of the whole message, padding and what follows it included.
Blocks(a, m) == Chain(H!Padded(a, m), Rate[a])

LEMMA BlocksAre ==
  ASSUME XofAssumption, NEW a \in Algorithms, NEW m \in Seq(Octet)
  PROVE  /\ Blocks(a, m) \in [Nat -> State] /\ Blocks(a, m)[0] = keccak_init
         /\ \A j \in Nat : Blocks(a, m)[j + 1] =
              Permute(Sum(Blocks(a, m)[j], H!Padded(a, m), Rate[a], j * Rate[a], Len(H!Padded(a, m))))
  <1>1. H!Padded(a, m) \in Seq(Octet) /\ Rate[a] \in Nat /\ PermutesStates
    BY PaddedIs, RateIs DEF XofAssumption
  <1> QED
    BY <1>1, ChainIs DEF Blocks

\* Behind the last block nothing but the permutation happens.
LEMMA BlocksAfter ==
  ASSUME XofAssumption, NEW a \in Algorithms, NEW m \in Seq(Octet), NEW j \in Nat, First(a, m) <= j
  PROVE  Blocks(a, m)[j + 1] = Permute(Blocks(a, m)[j])
  <1> DEFINE P == H!Padded(a, m)
             x == Blocks(a, m)[j]
             r == Rate[a]
             b == j * r
             e == First(a, m) * r
  <1>1. /\ P \in Seq(Octet) /\ Len(P) = e /\ r \in Nat /\ First(a, m) \in Nat
        /\ Width \in Nat
    BY PaddedIs, RateIs DEF XofAssumption, PermutesStates
  <1>2. b \in Nat /\ e \in Nat /\ e <= b
    <2> HIDE DEF r
    <2> QED
      BY <1>1, Products, ProductGrows
  <1>3. x \in State /\ Blocks(a, m)[j + 1] = Permute(Sum(x, P, r, b, Len(P)))
    BY BlocksAre
  <1> HIDE DEF P, x, r, b, e
  <1>4. \A i \in 0 .. Width - 1 : ~(b + i < Len(P))
    BY <1>1, <1>2
  <1>5. Sum(x, P, r, b, Len(P)) = x
    BY <1>3, <1>4 DEF Sum, State
  <1> QED
    BY <1>3, <1>5 DEF x

\* keccak_finalize leaves the state from which the next permutation completes the

\* padded message.
LEMMA Finalized ==
  ASSUME XofAssumption, NEW a \in Algorithms, NEW m \in Seq(Octet), NEW x1, NEW p,
         Absorbed(m, Len(m), x1, p, Rate[a])
  PROVE  /\ keccak_finalize(x1, p, Rate[a], Suffix[a]) \in State
         /\ Permute(keccak_finalize(x1, p, Rate[a], Suffix[a])) = Blocks(a, m)[First(a, m)]
  <1> DEFINE r == Rate[a]
             P == H!Padded(a, m)
             S == Suffix[a]
             f == keccak_finalize(x1, p, r, S)
  <1>1. /\ r \in 1 .. Width /\ r \in Nat \ {0} /\ S \in Octet /\ {7} \in Octet /\ {} \in Octet
        /\ PermutesStates /\ Width \in Nat /\ Len(m) \in Nat
    BY RateIs DEF XofAssumption, PermutesStates, Octet
  <1>2. p \in 0 .. r - 1
    BY DEF Absorbed
  <1>3. PICK q \in Nat : Len(m) = q * r + p /\ x1 = Sum(Chain(m, r)[q], m, r, q * r, Len(m))
    BY DEF Absorbed
  <1>4. First(a, m) = q + 1
    <2> HIDE DEF r
    <2>1. (q * r + p) \div r = q
      BY <1>1, <1>2, DivMod
    <2> QED
      BY <1>3, <2>1 DEF First, r
  <1> DEFINE b == q * r
             n == (q + 1) * r
             c == Chain(m, r)[q]
  <1>5. b \in Nat /\ n = b + r /\ n \in Nat
    <2> HIDE DEF r
    <2> QED
      BY <1>1, Products
  <1>6. /\ P \in Seq(Octet) /\ Len(P) = n
        /\ \A i \in 1 .. n : P[i] = XorBits(IF i <= Len(m) THEN m[i] ELSE IF i = Len(m) + 1 THEN S ELSE {},
                                        IF i = n THEN {7} ELSE {})
    BY <1>4, PaddedIs, ZenonT(60)
  <1>7. Len(m) = b + p /\ x1 = Sum(c, m, r, b, b + p) /\ c \in State
    BY <1>1, <1>3, ChainIs
  <1>8. c = Chain(P, r)[q]
    <2> DEFINE e == b
    <2>1. Shared(m, P, e)
      <3> HIDE DEF r, P, S, b, n
      <3>1. ASSUME NEW i \in 1 .. b PROVE m[i] = P[i]
        <4>1. i \in 1 .. n /\ i <= Len(m) /\ i # n /\ i \in 1 .. Len(m)
          BY <1>1, <1>2, <1>5, <1>7
        <4>2. P[i] = XorBits(m[i], {})
          BY <1>6, <4>1
        <4>3. m[i] \in Octet
          BY <4>1
        <4>4. XorBits(m[i], {}) = m[i]
          BY <4>3, XorIs
        <4> QED
          BY <4>2, <4>4
      <3> QED
        BY <1>1, <1>2, <1>5, <1>6, <1>7, <3>1 DEF Shared
    <2>2. e = q * r /\ r \in Nat
      BY <1>1
    <2> HIDE DEF e, r, P
    <2> QED
      BY <1>1, <1>6, <2>1, <2>2, ChainShared
  <1>9. c = Blocks(a, m)[q] /\ Blocks(a, m)[q + 1] = Permute(Sum(c, P, r, b, n))
    <2>1. c = Blocks(a, m)[q]
      BY <1>8 DEF Blocks
    <2>2. Blocks(a, m)[q + 1] = Permute(Sum(Blocks(a, m)[q], P, r, q * r, Len(P)))
      BY BlocksAre
    <2> QED
      BY <1>6, <2>1, <2>2
  <1> DEFINE y == Mix(x1, p, <<S>>)
             z == Sum(c, P, r, b, n)
  <1>10. \A i \in 0 .. Width - 1 :
           /\ x1[i] = IF i < r /\ b + i < b + p THEN XorBits(c[i], m[b + i + 1]) ELSE c[i]
           /\ z[i] = IF i < r /\ b + i < n THEN XorBits(c[i], P[b + i + 1]) ELSE c[i]
    BY <1>7 DEF Sum
  <1>11. \A i \in 0 .. Width - 1 : y[i] = IF i = p THEN XorBits(x1[i], S) ELSE x1[i]
    <2>1. \A i \in 0 .. Width - 1 : y[i] = IF i >= p /\ i < p + 1 THEN XorBits(x1[i], <<S>>[i - p + 1]) ELSE x1[i]
      BY MixIs
    <2>2. ASSUME NEW i \in 0 .. Width - 1 PROVE (i >= p /\ i < p + 1) <=> i = p
      BY <1>1, <1>2
    <2>3. ASSUME NEW i \in 0 .. Width - 1, i = p PROVE <<S>>[i - p + 1] = S
      <3>1. i - p + 1 = 1
        BY <1>1, <2>3
      <3> QED
        BY <3>1
    <2> QED
      BY <2>1, <2>2, <2>3
  <1>12. \A i \in 0 .. Width - 1 : f[i] = IF i = r - 1 THEN XorBits(y[i], {7}) ELSE y[i]
    <2>1. f = Mix(y, r - 1, <<{7}>>)
      BY DEF keccak_finalize
    <2> HIDE DEF y, f
    <2>2. \A i \in 0 .. Width - 1 :
            f[i] = IF i >= r - 1 /\ i < r - 1 + 1 THEN XorBits(y[i], <<{7}>>[i - (r - 1) + 1]) ELSE y[i]
      BY <2>1, MixIs
    <2>3. ASSUME NEW i \in 0 .. Width - 1 PROVE (i >= r - 1 /\ i < r - 1 + 1) <=> i = r - 1
      BY <1>1
    <2>4. ASSUME NEW i \in 0 .. Width - 1, i = r - 1 PROVE <<{7}>>[i - (r - 1) + 1] = {7}
      <3>1. i - (r - 1) + 1 = 1
        BY <1>1, <2>4
      <3> QED
        BY <3>1
    <2> QED
      BY <2>2, <2>3, <2>4
  <1> HIDE DEF r, P, S, f, b, n, c, y, z
  <1>13. ASSUME NEW i \in 0 .. Width - 1 PROVE f[i] = z[i]
    <2>1. i \in Nat /\ c[i] \in Octet
      BY <1>1, <1>7 DEF State
    <2>2. CASE i >= r
      BY <1>1, <1>2, <1>10, <1>11, <1>12, <2>1, <2>2
    <2>3. CASE i < r
      <3> DEFINE u == IF i < p THEN m[b + i + 1] ELSE IF i = p THEN S ELSE {}
                 v == IF i = r - 1 THEN {7} ELSE {}
      <3>1. u \in Octet /\ v \in Octet
        <4>1. i < p => b + i + 1 \in 1 .. Len(m)
          BY <1>2, <1>5, <1>7, <2>1
        <4>2. i < p => m[b + i + 1] \in Octet
          BY <4>1
        <4> QED
          BY <1>1, <4>2
      <3>2. y[i] = XorBits(c[i], u)
        <4>1. b + i < b + p <=> i < p
          BY <1>2, <1>5, <2>1
        <4>2. CASE i < p
          BY <1>10, <1>11, <2>1, <2>3, <4>1, <4>2
        <4>3. CASE i = p
          BY <1>2, <1>10, <1>11, <2>1, <4>1, <4>3
        <4>4. CASE i > p
          <5>1. y[i] = c[i] /\ u = {}
            BY <1>2, <1>10, <1>11, <2>1, <4>1, <4>4
          <5> QED
            BY <2>1, <5>1, XorIs
        <4> QED
          BY <1>2, <2>1, <4>2, <4>3, <4>4
      <3>3. f[i] = XorBits(y[i], v)
        <4>1. y[i] \in Octet
          <5> HIDE DEF u, v
          <5> QED
            BY <2>1, <3>1, <3>2, XorIs, ZenonT(60)
        <4> QED
          BY <1>12, <4>1, XorIs
      <3>4. P[b + i + 1] = XorBits(u, v)
        <4> DEFINE k == b + i + 1
        <4>1. /\ k \in 1 .. n /\ (k <= Len(m) <=> i < p) /\ (k = Len(m) + 1 <=> i = p)
              /\ (k = n <=> i = r - 1)
          BY <1>1, <1>2, <1>5, <1>7, <2>1, <2>3
        <4> HIDE DEF k
        <4>2. P[k] = XorBits(IF k <= Len(m) THEN m[k] ELSE IF k = Len(m) + 1 THEN S ELSE {},
                         IF k = n THEN {7} ELSE {})
          BY <1>6, <4>1
        <4>3. u = IF i < p THEN m[k] ELSE IF i = p THEN S ELSE {}
          BY DEF k
        <4>4. u = IF k <= Len(m) THEN m[k] ELSE IF k = Len(m) + 1 THEN S ELSE {}
          BY <4>1, <4>3
        <4>5. v = IF k = n THEN {7} ELSE {}
          BY <4>1
        <4> HIDE DEF u, v
        <4>6. P[k] = XorBits(u, v)
          BY <4>2, <4>4, <4>5
        <4> QED
          BY <4>6 DEF k
      <3>5. z[i] = XorBits(c[i], XorBits(u, v))
        <4>1. b + i < n
          BY <1>1, <1>5, <2>1, <2>3
        <4> HIDE DEF u, v
        <4> QED
          BY <1>10, <2>3, <3>4, <4>1
      <3> HIDE DEF u, v
      <3>6. XorBits(XorBits(c[i], u), v) = XorBits(c[i], XorBits(u, v))
        BY <2>1, <3>1, XorIs
      <3> QED
        BY <3>2, <3>3, <3>5, <3>6
    <2> QED
      BY <1>1, <2>1, <2>2, <2>3
  <1>14. f = z
    <2>1. f = [i \in 0 .. Width - 1 |-> f[i]]
      <3>1. f = Mix(y, r - 1, <<{7}>>)
        BY DEF keccak_finalize, f, y
      <3> QED
        BY <3>1, MixIs
    <2>2. z = [i \in 0 .. Width - 1 |-> z[i]]
      BY DEF Sum, z
    <2> QED
      BY <1>13, <2>1, <2>2
  <1>15. z \in State
    <2>1. n <= Len(P) /\ r \in Nat
      BY <1>1, <1>5, <1>6
    <2> QED
      BY <1>1, <1>5, <1>6, <1>7, <2>1, SumType DEF z
  <1> QED
    BY <1>4, <1>9, <1>14, <1>15 DEF f, r, S, z

----------------------------------------------------------------------------
(* Squeezing.                                                               *)

\* Octet number i of the output, from 0 on.
ByteAt(a, m, i) == Blocks(a, m)[First(a, m) + (i \div Rate[a])][i % Rate[a]]

\* The state x1 and the place p have given the first n bytes of the output.
Squeezing(a, m, x1, p, n) ==
  /\ p \in 1 .. Rate[a] /\ x1 \in State /\ n \in Nat
  /\ \E c \in Nat : /\ n + Rate[a] = c * Rate[a] + p
                    /\ Permute(x1) = Blocks(a, m)[First(a, m) + c]
                    /\ c > 0 => x1 = Blocks(a, m)[First(a, m) + (c - 1)]

\* Bytes n to n + k - 1 of the output are those of x from the place p on.
Gives(a, m, x, p, k, n) == \A i \in 1 .. k : x[p + i - 1] = ByteAt(a, m, n + i - 1)

\* After n bytes the output is at the place p of its block x, where k bytes more are left.
InBlock(a, m, x, p, k, n) ==
  /\ n \in Nat /\ p \in Nat /\ k \in Nat \ {0} /\ p + k <= Rate[a]
  /\ \E c \in Nat : n = c * Rate[a] + p /\ x = Blocks(a, m)[First(a, m) + c]

LEMMA BytesOfBlock ==
  ASSUME XofAssumption, NEW a \in Algorithms, NEW m \in Seq(Octet), NEW x, NEW n, NEW p, NEW k,
         InBlock(a, m, x, p, k, n)
  PROVE  Gives(a, m, x, p, k, n) /\ Squeezing(a, m, x, p + k, n + k)
  <1> DEFINE r == Rate[a]
             f == First(a, m)
  <1>0. PICK c \in Nat : n = c * Rate[a] + p /\ x = Blocks(a, m)[First(a, m) + c]
    BY DEF InBlock
  <1> DEFINE b == c * r
  <1>1. /\ r \in Nat \ {0} /\ f \in Nat
        /\ n \in Nat /\ p \in Nat /\ k \in Nat \ {0} /\ n = b + p /\ p + k <= r
    BY <1>0, RateIs, PaddedIs DEF InBlock
  <1>2. b \in Nat /\ (c + 1) * r = b + r
    <2> HIDE DEF r
    <2> QED
      BY <1>1, Products
  <1>3. ASSUME NEW i \in 1 .. k
        PROVE  Blocks(a, m)[f + c][p + i - 1] = ByteAt(a, m, n + i - 1)
    <2> DEFINE e == p + i - 1
    <2>1. e \in 0 .. r - 1 /\ n + i - 1 = b + e
      <3> HIDE DEF r, b
      <3> QED
        BY <1>1, <1>2
    <2>2. (b + e) \div r = c /\ (b + e) % r = e
      <3> HIDE DEF r, e
      <3> QED
        BY <1>1, <2>1, DivMod
    <2> HIDE DEF b, e
    <2>3. ByteAt(a, m, b + e) = Blocks(a, m)[f + c][e]
      BY <2>2 DEF ByteAt
    <2> QED
      BY <2>1, <2>3 DEF e
  <1>4. Squeezing(a, m, Blocks(a, m)[f + c], p + k, n + k)
    <2>1. f + c \in Nat /\ f <= f + c /\ f + (c + 1) = f + c + 1 /\ (c + 1) - 1 = c /\ c + 1 \in Nat
      BY <1>1, SMTT(60)
    <2>2. Blocks(a, m)[f + c] \in State
      <3> HIDE DEF f
      <3> QED
        BY <2>1, BlocksAre
    <2>3. Permute(Blocks(a, m)[f + c]) = Blocks(a, m)[f + (c + 1)]
      BY <2>1, BlocksAfter
    <2>4. p + k \in 1 .. r /\ n + k \in Nat
      BY <1>1
    <2>5. n + k + r = (c + 1) * r + (p + k)
      <3> DEFINE g == (c + 1) * r
      <3>1. n = b + p /\ g = b + r
        BY <1>1, <1>2
      <3> HIDE DEF b, g, r
      <3>2. n + k + r = g + (p + k)
        BY <1>1, <1>2, <3>1
      <3> QED
        BY <3>2 DEF g
    <2>6. Blocks(a, m)[f + c] = Blocks(a, m)[f + ((c + 1) - 1)]
      BY <2>1
    <2> QED
      BY <2>1, <2>2, <2>3, <2>4, <2>5, <2>6 DEF Squeezing
  <1> QED
    BY <1>0, <1>3, <1>4 DEF Gives

\* A turn of the loop of keccak_squeeze that takes k bytes.
LEMMA PartSqueezed ==
  ASSUME XofAssumption, NEW a \in Algorithms, NEW m \in Seq(Octet), NEW x1, NEW p, NEW n,
         Squeezing(a, m, x1, p, n), NEW x, NEW from, NEW k \in Nat,
         x = IF p = Rate[a] THEN Permute(x1) ELSE x1,
         from = IF p = Rate[a] THEN 0 ELSE p,
         k > 0, from + k <= Rate[a]
  PROVE  /\ Squeezing(a, m, x, from + k, n + k)
         /\ Gives(a, m, x, from, k, n)
  <1> DEFINE r == Rate[a]
             f == First(a, m)
  <1>1. r \in Nat \ {0} /\ f \in Nat /\ p \in 1 .. r /\ n \in Nat
    BY RateIs, PaddedIs DEF Squeezing
  <1>2. PICK c \in Nat : /\ n + r = c * r + p
                         /\ Permute(x1) = Blocks(a, m)[f + c]
                         /\ c > 0 => x1 = Blocks(a, m)[f + (c - 1)]
    BY DEF Squeezing
  <1>3. c * r \in Nat
    <2> HIDE DEF r
    <2> QED
      BY <1>1, Products
  <1>4. \E d \in Nat : n = d * r + from /\ x = Blocks(a, m)[f + d]
    <2>1. CASE p = r
      <3>1. n = c * r + 0
        <4> DEFINE b == c * r
        <4>1. n + r = b + r /\ b \in Nat
          BY <1>2, <1>3, <2>1
        <4> HIDE DEF b, r
        <4>2. n = b + 0
          BY <1>1, <4>1
        <4> QED
          BY <4>2 DEF b
      <3> QED
        BY <1>2, <2>1, <3>1
    <2>2. CASE p # r
      <3>1. c # 0
        <4> SUFFICES ASSUME c = 0 PROVE FALSE
          OBVIOUS
        <4>1. c * r = 0
          BY <1>1
        <4> HIDE DEF r
        <4> QED
          BY <1>1, <1>2, <2>2, <4>1
      <3>2. c - 1 \in Nat /\ (c - 1) + 1 = c /\ c > 0
        BY <3>1
      <3> DEFINE b == c * r
                 g == (c - 1) * r
      <3>3. b = g + r /\ g \in Nat
        <4> HIDE DEF r
        <4> QED
          BY <1>1, <3>2, Products
      <3>4. n + r = b + p /\ b \in Nat
        BY <1>2, <1>3
      <3> HIDE DEF b, g, r
      <3>5. n = g + p
        BY <1>1, <3>3, <3>4
      <3>6. from = p /\ x = x1
        BY <2>2 DEF r
      <3> QED
        BY <1>2, <3>2, <3>5, <3>6 DEF g
    <2> QED
      BY <2>1, <2>2
  <1>5. InBlock(a, m, x, from, k, n)
    <2>1. from \in Nat /\ from + k <= r
      BY <1>1
    <2> QED
      BY <1>1, <1>4, <2>1 DEF InBlock
  <1> HIDE DEF r, f
  <1> QED
    BY <1>5, BytesOfBlock

\* The states, places and bytes of a call that squeezes.
Squeezed == [s : State, pos : Nat, out : Seq(Octet)]

\* out is the output from byte n on.
Answers(a, m, out1, n) == \A i \in 1 .. Len(out1) : out1[i] = ByteAt(a, m, n + i - 1)

\* The bytes of t are the output from byte n on, and the state can give the next ones.
Got(a, m, n, t) == /\ Squeezing(a, m, t.s, t.pos, n + Len(t.out))
                   /\ Answers(a, m, t.out, n)

LEMMA BytesAre ==
  ASSUME Width \in Nat, NEW x \in State, NEW p \in Nat, NEW k \in Nat, p + k <= Width
  PROVE  /\ Bytes(x, p, k) \in Seq(Octet) /\ Len(Bytes(x, p, k)) = k
         /\ \A i \in 1 .. k : Bytes(x, p, k)[i] = x[p + i - 1]
  <1> DEFINE b == [i \in 1 .. k |-> x[p + i - 1]]
  <1>1. Bytes(x, p, k) = b
    BY DEF Bytes, Computed
  <1>2. ASSUME NEW i \in 1 .. k PROVE x[p + i - 1] \in Octet
    <2>1. p + i - 1 \in 0 .. Width - 1
      OBVIOUS
    <2> QED
      BY <2>1 DEF State
  <1>3. b \in Seq(Octet) /\ Len(b) = k
    BY <1>2
  <1>4. \A i \in 1 .. k : b[i] = x[p + i - 1]
    OBVIOUS
  <1> HIDE DEF b
  <1> QED
    BY <1>1, <1>3, <1>4

\* Two parts of the output behind each other.
LEMMA AnswersMore ==
  ASSUME NEW a, NEW m, NEW n \in Nat, NEW y \in Seq(Octet), NEW z \in Seq(Octet),
         Answers(a, m, y, n), Answers(a, m, z, n + Len(y))
  PROVE  y \o z \in Seq(Octet) /\ Len(y \o z) = Len(y) + Len(z) /\ Answers(a, m, y \o z, n)
  <1>1. Len(y) \in Nat /\ Len(z) \in Nat /\ y \o z \in Seq(Octet) /\ Len(y \o z) = Len(y) + Len(z)
    OBVIOUS
  <1>2. ASSUME NEW i \in 1 .. Len(y) + Len(z) PROVE (y \o z)[i] = ByteAt(a, m, n + i - 1)
    <2>1. CASE i <= Len(y)
      <3>1. i \in 1 .. Len(y) /\ (y \o z)[i] = y[i]
        BY <1>1, <2>1
      <3> QED
        BY <3>1 DEF Answers
    <2>2. CASE i > Len(y)
      <3> DEFINE j == i - Len(y)
      <3>1. j \in 1 .. Len(z) /\ (y \o z)[i] = z[j] /\ n + Len(y) + j - 1 = n + i - 1
        BY <1>1, <2>2
      <3> HIDE DEF j
      <3>2. z[j] = ByteAt(a, m, n + Len(y) + j - 1)
        BY <3>1 DEF Answers
      <3> QED
        BY <3>1, <3>2
    <2> QED
      BY <1>1, <2>1, <2>2
  <1> QED
    BY <1>1, <1>2 DEF Answers

\* A turn of the loop of keccak_squeeze: some bytes more, to the end of the block when

\* it is not the last one.
LEMMA PartTaken ==
  ASSUME XofAssumption, NEW a \in Algorithms, NEW m \in Seq(Octet), NEW n \in Nat, NEW n0 \in Nat,
         NEW t \in Squeezed, Got(a, m, n0, t), Len(t.out) < n,
         NEW u, u = SqueezePart(n, t, Rate[a])
  PROVE  /\ u \in Squeezed /\ Got(a, m, n0, u)
         /\ Len(t.out) < Len(u.out) /\ Len(u.out) <= n
         /\ Len(u.out) < n => u.pos = Rate[a]
         /\ Len(u.out) < n /\ t.pos = Rate[a] => Len(u.out) = Len(t.out) + Rate[a]
  <1> DEFINE r == Rate[a]
             l == Len(t.out)
             from == IF t.pos = r THEN 0 ELSE t.pos
             x == IF t.pos = r THEN Permute(t.s) ELSE t.s
             k == IF n - Len(t.out) < r - from THEN n - Len(t.out) ELSE r - from
             b == Bytes(x, from, k)
  <1>1. u = [s |-> x, pos |-> from + k, out |-> t.out \o b]
    <2>1. u = Value({[s |-> y, pos |-> from + k, out |-> t.out \o Bytes(y, from, k)] : y \in {x}})
      BY DEF SqueezePart, Refill
    <2> HIDE DEF x, from, k
    <2> QED
      BY <2>1 DEF Value
  <1>2. /\ r \in Nat \ {0} /\ Width \in Nat /\ r <= Width /\ t.pos \in 1 .. r
        /\ t.out \in Seq(Octet) /\ t.s \in State /\ l \in Nat
        /\ Squeezing(a, m, t.s, t.pos, n0 + l) /\ Answers(a, m, t.out, n0)
    BY RateIs DEF XofAssumption, PermutesStates, Got, Squeezing, Squeezed
  <1>3. /\ from \in Nat /\ from < r /\ k \in Nat /\ k > 0 /\ from + k <= r /\ l + k <= n
        /\ l + k < n => k = r - from
    <2> DEFINE v == n - Len(t.out)
    <2>1. v \in Nat /\ v > 0 /\ l + v = n
      BY <1>2
    <2>2. from \in Nat /\ from < r
      BY <1>2
    <2> HIDE DEF v, from, r, l
    <2>3. k = IF v < r - from THEN v ELSE r - from
      BY DEF v
    <2> HIDE DEF k
    <2> QED
      BY <1>2, <2>1, <2>2, <2>3
  <1>4. Squeezing(a, m, x, from + k, n0 + l + k) /\ Gives(a, m, x, from, k, n0 + l)
    <2>1. k \in Nat /\ k > 0 /\ from + k <= Rate[a] /\ Squeezing(a, m, t.s, t.pos, n0 + l)
      BY <1>2, <1>3
    <2>2. x = IF t.pos = Rate[a] THEN Permute(t.s) ELSE t.s
      OBVIOUS
    <2>3. from = IF t.pos = Rate[a] THEN 0 ELSE t.pos
      OBVIOUS
    <2> HIDE DEF k, x, from, l, r
    <2> QED
      BY <2>1, <2>2, <2>3, PartSqueezed
  <1>5. t.pos = r => from = 0
    OBVIOUS
  <1> HIDE DEF x, from, k, l, r
  <1>6. x \in State
    BY <1>4 DEF Squeezing
  <1>7. b \in Seq(Octet) /\ Len(b) = k /\ \A i \in 1 .. k : b[i] = x[from + i - 1]
    <2>1. from + k <= Width
      BY <1>2, <1>3
    <2> QED
      BY <1>2, <1>3, <1>6, <2>1, BytesAre, ZenonT(60)
  <1> HIDE DEF b
  <1>8. Answers(a, m, b, n0 + l)
    BY <1>4, <1>7 DEF Gives, Answers
  <1>9. t.out \o b \in Seq(Octet) /\ Len(t.out \o b) = l + k /\ Answers(a, m, t.out \o b, n0)
    <2>1. Answers(a, m, b, n0 + Len(t.out))
      BY <1>8 DEF l
    <2>2. /\ t.out \o b \in Seq(Octet) /\ Len(t.out \o b) = Len(t.out) + Len(b)
          /\ Answers(a, m, t.out \o b, n0)
      BY <1>2, <1>7, <2>1, AnswersMore
    <2> QED
      BY <1>7, <2>2 DEF l
  <1>10. u.s = x /\ u.pos = from + k /\ u.out = t.out \o b
    BY <1>1
  <1>11. n0 + l + k = n0 + (l + k)
    BY <1>2, <1>3
  <1>12. u \in Squeezed /\ Got(a, m, n0, u)
    <2>1. u \in Squeezed
      BY <1>1, <1>3, <1>6, <1>9 DEF Squeezed
    <2>2. Squeezing(a, m, u.s, u.pos, n0 + Len(u.out))
      BY <1>4, <1>9, <1>10, <1>11
    <2> QED
      BY <1>9, <1>10, <2>1, <2>2 DEF Got
  <1>13. Len(u.out) = l + k
    BY <1>9, <1>10
  <1>14. l + k < n => u.pos = r
    BY <1>2, <1>3, <1>10
  <1>15. l + k < n /\ t.pos = r => l + k = l + r
    BY <1>2, <1>3, <1>5
  <1>16. l < l + k
    BY <1>2, <1>3
  <1> QED
    BY <1>3, <1>12, <1>13, <1>14, <1>15, <1>16 DEF l, r

SqueezeTurn(n, t, r) == IF Len(t.out) < n THEN SqueezePart(n, t, r) ELSE t

\* What is behind after k turns, when n bytes are asked for.
Far(k, n, t, r) ==
  /\ Len(t.out) <= n
  /\ k > 0 /\ Len(t.out) < n => t.pos = r /\ (k - 1) * r < Len(t.out)

LEMMA TurnReaches ==
  ASSUME XofAssumption, NEW a \in Algorithms, NEW m \in Seq(Octet), NEW n \in Nat, NEW n0 \in Nat,
         NEW t \in Squeezed, Got(a, m, n0, t), NEW k \in Nat, Far(k, n, t, Rate[a]),
         NEW u, u = SqueezeTurn(n, t, Rate[a])
  PROVE  u \in Squeezed /\ Got(a, m, n0, u) /\ Far(k + 1, n, u, Rate[a])
  <1> DEFINE r == Rate[a]
             c == k * r
  <1>1. /\ r \in Nat \ {0} /\ c \in Nat /\ 0 * r = 0
        /\ k > 0 => (k - 1) * r \in Nat /\ c = (k - 1) * r + r
        /\ (k + 1) - 1 = k /\ k + 1 > 0
    <2>1. r \in Nat \ {0}
      BY RateIs
    <2> HIDE DEF r
    <2>2. k > 0 => k - 1 \in Nat /\ (k - 1) + 1 = k
      OBVIOUS
    <2> QED
      BY <2>1, <2>2, Products
  <1>2. t.out \in Seq(Octet) /\ Len(t.out) \in Nat
    <2>1. t.out \in Seq(Octet)
      BY DEF Squeezed
    <2> QED
      BY <2>1
  <1>3. CASE Len(t.out) < n
    <2>1. u = SqueezePart(n, t, Rate[a])
      BY <1>3 DEF SqueezeTurn
    <2>2. /\ u \in Squeezed /\ Got(a, m, n0, u)
          /\ Len(t.out) < Len(u.out) /\ Len(u.out) <= n
          /\ Len(u.out) < n => u.pos = r
          /\ Len(u.out) < n /\ t.pos = r => Len(u.out) = Len(t.out) + r
      BY <1>3, <2>1, PartTaken
    <2>3. u.out \in Seq(Octet) /\ Len(u.out) \in Nat
      <3>1. u.out \in Seq(Octet)
        BY <2>2 DEF Squeezed
      <3> QED
        BY <3>1
    <2>4. ASSUME Len(u.out) < n PROVE c < Len(u.out)
      <3>1. CASE k = 0
        <4>1. c = 0
          BY <1>1, <3>1
        <4> HIDE DEF c, r
        <4> QED
          BY <1>2, <2>2, <2>3, <4>1
      <3>2. CASE k > 0
        <4> DEFINE d == (k - 1) * r
        <4>1. t.pos = r /\ d < Len(t.out)
          BY <1>3, <3>2 DEF Far
        <4>2. c = d + r /\ d \in Nat
          BY <1>1, <3>2
        <4> HIDE DEF c, d, r
        <4> QED
          BY <1>1, <1>2, <2>2, <2>3, <2>4, <4>1, <4>2
      <3> QED
        BY <3>1, <3>2
    <2>5. Far(k + 1, n, u, r)
      BY <1>1, <2>2, <2>4 DEF Far
    <2> QED
      BY <2>2, <2>5
  <1>4. CASE ~(Len(t.out) < n)
    <2>1. u = t
      BY <1>4 DEF SqueezeTurn
    <2>2. Far(k + 1, n, u, r)
      BY <1>4, <2>1 DEF Far
    <2> QED
      BY <2>1, <2>2
  <1> QED
    BY <1>3, <1>4

\* The turns of keccak_squeeze are enough.
LEMMA FarEnough ==
  ASSUME NEW r \in Nat \ {0}, NEW n \in Nat, NEW t, Len(t.out) \in Nat, Far((n \div r) + 2, n, t, r)
  PROVE  Len(t.out) = n
  <1> DEFINE q == n \div r
             c == (q + 1) * r
             d == q * r
  <1>1. q \in Nat /\ n < d + r /\ d \in Nat /\ c = d + r
    <2>1. q \in Nat /\ n % r \in 0 .. r - 1 /\ n = q * r + (n % r)
      BY Divided
    <2> HIDE DEF q
    <2>2. c = d + r /\ d \in Nat
      BY <2>1, Products
    <2> HIDE DEF c
    <2> QED
      BY <2>1, <2>2
  <1> SUFFICES ASSUME Len(t.out) < n PROVE FALSE
    BY DEF Far
  <1>2. q + 2 > 0 /\ (q + 2) - 1 = q + 1
    BY <1>1
  <1>3. c < Len(t.out)
    <2> HIDE DEF q
    <2>1. Far(q + 2, n, t, r)
      BY DEF q
    <2>2. ((q + 2) - 1) * r < Len(t.out)
      BY <1>2, <2>1 DEF Far
    <2> QED
      BY <1>2, <2>2
  <1> HIDE DEF q, c, d
  <1> QED
    BY <1>1, <1>3

\* A call of keccak_squeeze returns the next n bytes of the output.
LEMMA CallSqueezes ==
  ASSUME XofAssumption, NEW a \in Algorithms, NEW m \in Seq(Octet), NEW n \in Nat, NEW n0 \in Nat,
         NEW x1, NEW p, Squeezing(a, m, x1, p, n0),
         NEW u, u = keccak_squeeze(n, x1, p, Rate[a])
  PROVE  u \in Squeezed /\ Got(a, m, n0, u) /\ Len(u.out) = n
  <1> DEFINE r == Rate[a]
             A == [s |-> x1, pos |-> p, out |-> <<>>]
             N == (n \div r) + 2
             F(f) == [k \in 0 .. N |->
                       IF k = 0 THEN [s |-> x1, pos |-> p, out |-> <<>>]
                       ELSE Value({IF Len(t.out) < n THEN SqueezePart(n, t, r) ELSE t : t \in {f[k - 1]}})]
             turn == CHOOSE f : f = F(f)
             G == [t \in Squeezed |-> SqueezeTurn(n, t, r)]
             I == [k \in 0 .. N |-> {t \in Squeezed : Got(a, m, n0, t) /\ Far(k, n, t, r)}]
  <1>1. u = turn[N]
    BY DEF keccak_squeeze
  <1>2. r \in Nat \ {0}
    BY RateIs
  <1>3. N \in Nat
    <2>1. n \div r \in Nat
      BY <1>2, Divided
    <2> QED
      BY <2>1
  <1>4. \A t : Value({IF Len(y.out) < n THEN SqueezePart(n, y, r) ELSE y : y \in {t}}) = SqueezeTurn(n, t, r)
    BY DEF Value, SqueezeTurn
  <1>5. \A f : F(f) = [k \in 0 .. N |-> IF k = 0 THEN A ELSE SqueezeTurn(n, f[k - 1], r)]
    <2> HIDE DEF N
    <2> QED
      BY <1>4
  <1> HIDE DEF F
  <1>6. A \in I[0]
    <2>1. p \in Nat /\ x1 \in State /\ <<>> \in Seq(Octet) /\ Len(<<>>) = 0
      BY <1>2 DEF Squeezing
    <2>2. A \in Squeezed
      BY <2>1 DEF Squeezed
    <2>3. A.s = x1 /\ A.pos = p /\ A.out = <<>>
      OBVIOUS
    <2> HIDE DEF A
    <2>4. n0 + Len(A.out) = n0
      BY <2>1, <2>3
    <2>5. Got(a, m, n0, A)
      BY <2>1, <2>3, <2>4 DEF Got, Answers
    <2>6. Far(0, n, A, r)
      BY <2>1, <2>3 DEF Far
    <2>7. 0 \in 0 .. N
      BY <1>3
    <2> QED
      BY <2>2, <2>5, <2>6, <2>7
  <1> HIDE DEF N, A
  <1>7. \A k \in 0 .. N : I[k] \in SUBSET Squeezed
    OBVIOUS
  <1>8. ASSUME NEW k \in 0 .. N - 1, NEW t \in I[k] PROVE G[t] \in I[k + 1]
    <2>1. k \in Nat /\ k \in 0 .. N /\ k + 1 \in 0 .. N
      BY <1>3
    <2>2. t \in Squeezed /\ Got(a, m, n0, t) /\ Far(k, n, t, Rate[a])
      BY <2>1
    <2> DEFINE v == SqueezeTurn(n, t, Rate[a])
    <2>3. v \in Squeezed /\ Got(a, m, n0, v) /\ Far(k + 1, n, v, Rate[a])
      <3>1. v = SqueezeTurn(n, t, Rate[a])
        OBVIOUS
      <3> HIDE DEF v
      <3> QED
        BY <2>1, <2>2, <3>1, TurnReaches
    <2>4. G[t] = v
      BY <2>2
    <2> HIDE DEF v, G
    <2> QED
      BY <2>1, <2>3, <2>4
  <1>9. \A t \in Squeezed : G[t] = SqueezeTurn(n, t, r)
    OBVIOUS
  <1> HIDE DEF G
  <1>10. /\ \E f \in [0 .. N -> Squeezed] : f[0] = A /\ \A k \in 0 .. N - 1 : f[k + 1] = G[f[k]]
         /\ \A f : (f[0] = A /\ \A k \in 0 .. N - 1 : f[k] \in Squeezed => f[k + 1] = G[f[k]])
                   => \A k \in 0 .. N : f[k] \in I[k]
    <2> HIDE DEF I
    <2>1. Leads(N, Squeezed, A, I, G)
      BY <1>3, <1>6, <1>7, <1>8 DEF Leads
    <2> QED
      BY <2>1, Loop
  <1>11. \E f : f = F(f)
    <2>1. PICK f \in [0 .. N -> Squeezed] : f[0] = A /\ \A k \in 0 .. N - 1 : f[k + 1] = G[f[k]]
      BY <1>10
    <2>2. ASSUME NEW k \in 0 .. N PROVE f[k] = IF k = 0 THEN A ELSE SqueezeTurn(n, f[k - 1], r)
      <3>1. CASE k = 0
        BY <2>1, <3>1
      <3>2. CASE k # 0
        <4>1. k - 1 \in 0 .. N - 1 /\ k - 1 \in 0 .. N /\ (k - 1) + 1 = k
          BY <1>3, <3>2
        <4>2. f[(k - 1) + 1] = G[f[k - 1]] /\ f[k - 1] \in Squeezed
          BY <2>1, <4>1
        <4> QED
          BY <1>9, <3>2, <4>1, <4>2
      <3> QED
        BY <3>1, <3>2
    <2>3. f = [k \in 0 .. N |-> IF k = 0 THEN A ELSE SqueezeTurn(n, f[k - 1], r)]
      BY <2>1, <2>2
    <2> QED
      BY <1>5, <2>3
  <1>12. turn = F(turn)
    <2>1. turn = CHOOSE f : f = F(f)
      OBVIOUS
    <2> HIDE DEF turn
    <2> QED
      BY <1>11, <2>1
  <1> HIDE DEF turn
  <1>13. turn = [k \in 0 .. N |-> IF k = 0 THEN A ELSE SqueezeTurn(n, turn[k - 1], r)]
    BY <1>5, <1>12
  <1>14. turn[0] = A
    <2>1. 0 \in 0 .. N
      BY <1>3
    <2> QED
      BY <1>13, <2>1
  <1>15. ASSUME NEW k \in 0 .. N - 1, turn[k] \in Squeezed PROVE turn[k + 1] = G[turn[k]]
    <2>1. k + 1 \in 0 .. N /\ k + 1 # 0 /\ (k + 1) - 1 = k
      BY <1>3
    <2>2. turn[k + 1] = SqueezeTurn(n, turn[k], r)
      BY <1>13, <2>1
    <2> QED
      BY <1>9, <1>15, <2>2
  <1>16. turn[N] \in I[N]
    <2>1. N \in 0 .. N
      BY <1>3
    <2> HIDE DEF I
    <2> QED
      BY <1>10, <1>14, <1>15, <2>1
  <1>17. u \in Squeezed /\ Got(a, m, n0, u) /\ Far(N, n, u, r)
    <2>1. N \in 0 .. N
      BY <1>3
    <2> QED
      BY <1>1, <1>16, <2>1
  <1>18. Len(u.out) \in Nat
    <2>1. u.out \in Seq(Octet)
      BY <1>17 DEF Squeezed
    <2> QED
      BY <2>1
  <1>19. Len(u.out) = n
    <2>1. Far((n \div r) + 2, n, u, r)
      BY <1>17 DEF N
    <2> HIDE DEF r
    <2> QED
      BY <1>2, <1>18, <2>1, FarEnough
  <1> QED
    BY <1>17, <1>19

\* Whole blocks: the state has given its block.
Given == [s : State, out : Seq(Octet)]

GotBlocks(a, m, n, t) == /\ Squeezing(a, m, t.s, Rate[a], n + Len(t.out))
                         /\ Answers(a, m, t.out, n)

BlockTurn(t, r) == [s |-> Permute(t.s), out |-> t.out \o Bytes(Permute(t.s), 0, r)]

LEMMA BlockTaken ==
  ASSUME XofAssumption, NEW a \in Algorithms, NEW m \in Seq(Octet), NEW n \in Nat,
         NEW t \in Given, GotBlocks(a, m, n, t), NEW u, u = BlockTurn(t, Rate[a])
  PROVE  u \in Given /\ GotBlocks(a, m, n, u) /\ Len(u.out) = Len(t.out) + Rate[a]
  <1> DEFINE r == Rate[a]
             l == Len(t.out)
             x == Permute(t.s)
             b == Bytes(x, 0, r)
  <1>1. /\ r \in Nat \ {0} /\ Width \in Nat /\ r <= Width
        /\ t.out \in Seq(Octet) /\ t.s \in State /\ l \in Nat /\ x \in State
        /\ Squeezing(a, m, t.s, r, n + l) /\ Answers(a, m, t.out, n)
    BY RateIs DEF XofAssumption, PermutesStates, GotBlocks, Given
  <1>2. u.s = x /\ u.out = t.out \o b /\ u = [s |-> x, out |-> t.out \o b]
    BY DEF BlockTurn
  <1>3. Squeezing(a, m, x, r, n + l + r) /\ Gives(a, m, x, 0, r, n + l)
    <2> DEFINE from == 0
    <2>1. /\ r > 0 /\ from + r <= Rate[a] /\ r \in Nat /\ from = IF r = Rate[a] THEN 0 ELSE r
          /\ x = IF r = Rate[a] THEN Permute(t.s) ELSE t.s
      BY <1>1
    <2>2. from + r = r
      BY <1>1
    <2>3. Squeezing(a, m, x, from + r, n + l + r) /\ Gives(a, m, x, from, r, n + l)
      <3> HIDE DEF from, x, l, r
      <3> QED
        BY <1>1, <2>1, PartSqueezed
    <2> QED
      BY <2>2, <2>3
  <1> HIDE DEF x, l, r
  <1>4. b \in Seq(Octet) /\ Len(b) = r /\ \A i \in 1 .. r : b[i] = x[0 + i - 1]
    <2>1. 0 \in Nat /\ r \in Nat /\ 0 + r <= Width
      BY <1>1
    <2> QED
      BY <1>1, <2>1, BytesAre
  <1> HIDE DEF b
  <1>5. Answers(a, m, b, n + l)
    BY <1>3, <1>4 DEF Gives, Answers
  <1>6. t.out \o b \in Seq(Octet) /\ Len(t.out \o b) = l + r /\ Answers(a, m, t.out \o b, n)
    <2>1. Answers(a, m, b, n + Len(t.out))
      BY <1>5 DEF l
    <2>2. /\ t.out \o b \in Seq(Octet) /\ Len(t.out \o b) = Len(t.out) + Len(b)
          /\ Answers(a, m, t.out \o b, n)
      BY <1>1, <1>4, <2>1, AnswersMore
    <2> QED
      BY <1>4, <2>2 DEF l
  <1>7. n + l + r = n + (l + r) /\ Len(u.out) = l + r
    BY <1>1, <1>2, <1>6
  <1>8. Squeezing(a, m, u.s, r, n + Len(u.out))
    BY <1>2, <1>3, <1>7
  <1>9. u \in Given
    BY <1>1, <1>2, <1>6 DEF Given
  <1> QED
    BY <1>2, <1>6, <1>7, <1>8, <1>9 DEF GotBlocks, l, r

\* A call of keccak_squeezeblocks returns the next n blocks of the output.
LEMMA CallSqueezesBlocks ==
  ASSUME XofAssumption, NEW a \in Algorithms, NEW m \in Seq(Octet), NEW n \in Nat, NEW n0 \in Nat,
         NEW x1, Squeezing(a, m, x1, Rate[a], n0),
         NEW u, u = keccak_squeezeblocks(n, x1, Rate[a])
  PROVE  u \in Given /\ GotBlocks(a, m, n0, u) /\ Len(u.out) = n * Rate[a]
  <1> DEFINE r == Rate[a]
             N == n
             A == [s |-> x1, out |-> <<>>]
             B(x, y) == [s |-> x, out |-> y \o Bytes(x, 0, r)]
             F(f) == [k \in 0 .. N |->
                       IF k = 0 THEN [s |-> x1, out |-> <<>>]
                       ELSE Value({Value({B(x, t.out) : x \in {Permute(t.s)}}) : t \in {f[k - 1]}})]
             turn == CHOOSE f : f = F(f)
             G == [t \in Given |-> BlockTurn(t, r)]
             I == [k \in 0 .. N |-> {t \in Given : GotBlocks(a, m, n0, t) /\ Len(t.out) = k * r}]
  <1>1. u = turn[N]
    BY DEF keccak_squeezeblocks
  <1>2. r \in Nat \ {0}
    BY RateIs
  <1>3. N \in Nat /\ N = n
    OBVIOUS
  <1>4. \A t : Value({Value({B(x, y.out) : x \in {Permute(y.s)}}) : y \in {t}}) = BlockTurn(t, r)
    <2>1. \A y : Value({B(x, y.out) : x \in {Permute(y.s)}}) = BlockTurn(y, r)
      BY DEF Value, BlockTurn
    <2> HIDE DEF B
    <2> QED
      BY <2>1 DEF Value
  <1>5. \A f : F(f) = [k \in 0 .. N |-> IF k = 0 THEN A ELSE BlockTurn(f[k - 1], r)]
    <2> HIDE DEF B, N
    <2> QED
      BY <1>4
  <1> HIDE DEF F
  <1>6. A \in I[0]
    <2>1. x1 \in State /\ <<>> \in Seq(Octet) /\ Len(<<>>) = 0 /\ 0 * r = 0
      BY <1>2 DEF Squeezing
    <2>2. A \in Given
      BY <2>1 DEF Given
    <2>3. A.s = x1 /\ A.out = <<>>
      OBVIOUS
    <2> HIDE DEF A
    <2>4. n0 + Len(A.out) = n0 /\ Len(A.out) = 0 * r
      BY <2>1, <2>3
    <2>5. GotBlocks(a, m, n0, A)
      BY <2>1, <2>3, <2>4 DEF GotBlocks, Answers
    <2>6. 0 \in 0 .. N
      BY <1>3
    <2> QED
      BY <2>2, <2>4, <2>5, <2>6
  <1> HIDE DEF A, N
  <1>7. \A k \in 0 .. N : I[k] \in SUBSET Given
    OBVIOUS
  <1>8. ASSUME NEW k \in 0 .. N - 1, NEW t \in I[k] PROVE G[t] \in I[k + 1]
    <2>1. k \in Nat /\ k \in 0 .. N /\ k + 1 \in 0 .. N
      BY <1>3
    <2>2. t \in Given /\ GotBlocks(a, m, n0, t) /\ Len(t.out) = k * r
      BY <2>1
    <2> DEFINE v == BlockTurn(t, Rate[a])
    <2>3. v \in Given /\ GotBlocks(a, m, n0, v) /\ Len(v.out) = Len(t.out) + Rate[a]
      <3>1. v = BlockTurn(t, Rate[a])
        OBVIOUS
      <3> HIDE DEF v
      <3> QED
        BY <2>1, <2>2, <3>1, BlockTaken
    <2>4. Len(v.out) = (k + 1) * r
      <3>1. Len(v.out) = k * r + r
        BY <2>2, <2>3
      <3> HIDE DEF v, r
      <3> QED
        BY <1>2, <2>1, <3>1, Products
    <2>5. G[t] = v
      BY <2>2
    <2> HIDE DEF v, G
    <2> QED
      BY <2>1, <2>3, <2>4, <2>5
  <1>9. \A t \in Given : G[t] = BlockTurn(t, r)
    OBVIOUS
  <1> HIDE DEF G
  <1>10. /\ \E f \in [0 .. N -> Given] : f[0] = A /\ \A k \in 0 .. N - 1 : f[k + 1] = G[f[k]]
         /\ \A f : (f[0] = A /\ \A k \in 0 .. N - 1 : f[k] \in Given => f[k + 1] = G[f[k]])
                   => \A k \in 0 .. N : f[k] \in I[k]
    <2> HIDE DEF I
    <2>1. Leads(N, Given, A, I, G)
      BY <1>3, <1>6, <1>7, <1>8 DEF Leads
    <2> QED
      BY <2>1, Loop
  <1>11. \E f : f = F(f)
    <2>1. PICK f \in [0 .. N -> Given] : f[0] = A /\ \A k \in 0 .. N - 1 : f[k + 1] = G[f[k]]
      BY <1>10
    <2>2. ASSUME NEW k \in 0 .. N PROVE f[k] = IF k = 0 THEN A ELSE BlockTurn(f[k - 1], r)
      <3>1. CASE k = 0
        BY <2>1, <3>1
      <3>2. CASE k # 0
        <4>1. k - 1 \in 0 .. N - 1 /\ k - 1 \in 0 .. N /\ (k - 1) + 1 = k
          BY <1>3, <3>2
        <4>2. f[(k - 1) + 1] = G[f[k - 1]] /\ f[k - 1] \in Given
          BY <2>1, <4>1
        <4> QED
          BY <1>9, <3>2, <4>1, <4>2
      <3> QED
        BY <3>1, <3>2
    <2>3. f = [k \in 0 .. N |-> IF k = 0 THEN A ELSE BlockTurn(f[k - 1], r)]
      BY <2>1, <2>2
    <2> QED
      BY <1>5, <2>3
  <1>12. turn = F(turn)
    <2>1. turn = CHOOSE f : f = F(f)
      OBVIOUS
    <2> HIDE DEF turn
    <2> QED
      BY <1>11, <2>1
  <1> HIDE DEF turn
  <1>13. turn = [k \in 0 .. N |-> IF k = 0 THEN A ELSE BlockTurn(turn[k - 1], r)]
    BY <1>5, <1>12
  <1>14. turn[0] = A
    BY <1>3, <1>13
  <1>15. ASSUME NEW k \in 0 .. N - 1, turn[k] \in Given PROVE turn[k + 1] = G[turn[k]]
    <2>1. k + 1 \in 0 .. N /\ k + 1 # 0 /\ (k + 1) - 1 = k
      BY <1>3
    <2>2. turn[k + 1] = BlockTurn(turn[k], r)
      BY <1>13, <2>1
    <2> QED
      BY <1>9, <1>15, <2>2
  <1>16. turn[N] \in I[N]
    <2>1. N \in 0 .. N
      BY <1>3
    <2> HIDE DEF I
    <2> QED
      BY <1>10, <1>14, <1>15, <2>1
  <1> QED
    <2>1. N \in 0 .. N
      BY <1>3
    <2> QED
      BY <1>1, <1>3, <1>16, <2>1

\* After the end of the message, or after a message in one piece, no byte has been given.
LEMMA FinalizedGives ==
  ASSUME XofAssumption, NEW a \in Algorithms, NEW m \in Seq(Octet), NEW x1, NEW p,
         Absorbed(m, Len(m), x1, p, Rate[a])
  PROVE  Squeezing(a, m, keccak_finalize(x1, p, Rate[a], Suffix[a]), Rate[a], 0)
  <1> DEFINE f == keccak_finalize(x1, p, Rate[a], Suffix[a])
             r == Rate[a]
  <1>1. f \in State /\ Permute(f) = Blocks(a, m)[First(a, m)]
    BY Finalized
  <1>2. r \in Nat \ {0} /\ First(a, m) \in Nat /\ First(a, m) + 0 = First(a, m)
    BY RateIs, PaddedIs
  <1>3. 0 + r = 0 * r + r /\ r \in 1 .. r /\ ~(0 > 0)
    <2> HIDE DEF r
    <2> QED
      BY <1>2
  <1> HIDE DEF f
  <1>4. Squeezing(a, m, f, r, 0)
    <2> DEFINE c == 0
    <2>1. /\ c \in Nat /\ 0 + Rate[a] = c * Rate[a] + r
          /\ Permute(f) = Blocks(a, m)[First(a, m) + c]
          /\ c > 0 => f = Blocks(a, m)[First(a, m) + (c - 1)]
      BY <1>1, <1>2, <1>3
    <2> HIDE DEF c
    <2> QED
      BY <1>1, <1>3, <2>1 DEF Squeezing
  <1> QED
    BY <1>4 DEF f

LEMMA OnceGives ==
  ASSUME XofAssumption, NEW a \in Algorithms, NEW in \in Seq(Octet)
  PROVE  Squeezing(a, in, keccak_absorb_once(Rate[a], in, Suffix[a]), Rate[a], 0)
  <1> DEFINE k == keccak_absorb(keccak_init, 0, Rate[a], in)
  <1>1. keccak_absorb_once(Rate[a], in, Suffix[a]) = keccak_finalize(k.s, k.pos, Rate[a], Suffix[a])
    BY DEF keccak_absorb_once, Value
  <1>2. <<>> \in Seq(Octet) /\ Len(<<>>) = 0 /\ <<>> \o in = in
    OBVIOUS
  <1>3. PermutesStates /\ Rate[a] \in 1 .. Width
    BY RateIs DEF XofAssumption
  <1>4. Absorbed(<<>>, Len(<<>>), keccak_init, 0, Rate[a])
    BY <1>2, <1>3, NothingAbsorbed
  <1>5. Absorbed(<<>> \o in, Len(<<>> \o in), k.s, k.pos, Rate[a])
    BY <1>2, <1>3, <1>4, CallAbsorbs
  <1>6. Absorbed(in, Len(in), k.s, k.pos, Rate[a])
    BY <1>2, <1>5
  <1> HIDE DEF k
  <1>7. Squeezing(a, in, keccak_finalize(k.s, k.pos, Rate[a], Suffix[a]), Rate[a], 0)
    BY <1>6, FinalizedGives
  <1> QED
    BY <1>1, <1>7

\* The functions that hash at once return the first bytes of the output.
LEMMA ShakeGives ==
  ASSUME XofAssumption, NEW a \in Shake, NEW in \in Seq(Octet), NEW n \in Nat,
         NEW u, u = shake(n, Rate[a], in)
  PROVE  u \in Seq(Octet) /\ Len(u) = n /\ Answers(a, in, u, 0)
  <1> DEFINE r == Rate[a]
             x == keccak_absorb_once(r, in, Suffix[a])
             b == keccak_squeezeblocks(n \div r, x, r)
             c == keccak_squeeze(n % r, b.s, r, r)
  <1>1. a \in Algorithms /\ Suffix[a] = {0, 1, 2, 3, 4}
    BY DEF Algorithms, Suffix
  <1>2. u = b.out \o c.out
    <2>1. keccak_absorb_once(r, in, {0, 1, 2, 3, 4}) = x
      BY <1>1
    <2>2. u = Value({y.out \o keccak_squeeze(n % r, y.s, r, r).out :
                       y \in {keccak_squeezeblocks(n \div r, z, r) : z \in {x}}})
      BY <2>1 DEF shake
    <2> HIDE DEF x
    <2>3. {keccak_squeezeblocks(n \div r, z, r) : z \in {x}} = {b}
      OBVIOUS
    <2> HIDE DEF b
    <2> QED
      BY <2>2, <2>3 DEF Value
  <1>3. r \in Nat \ {0}
    BY <1>1, RateIs
  <1>4. n \div r \in Nat /\ n % r \in Nat /\ n = (n \div r) * r + (n % r)
    <2> HIDE DEF r
    <2>1. n \div r \in Nat /\ n % r \in 0 .. r - 1 /\ n = (n \div r) * r + (n % r)
      BY <1>3, Divided
    <2>2. n % r \in Nat
      BY <1>3, <2>1
    <2> QED
      BY <2>1, <2>2
  <1>5. Squeezing(a, in, x, Rate[a], 0)
    BY <1>1, OnceGives
  <1> HIDE DEF x
  <1>6. b \in Given /\ GotBlocks(a, in, 0, b) /\ Len(b.out) = (n \div r) * Rate[a]
    <2> DEFINE q == n \div r
    <2>1. b = keccak_squeezeblocks(q, x, Rate[a]) /\ q \in Nat /\ 0 \in Nat
      BY <1>4
    <2>2. b \in Given /\ GotBlocks(a, in, 0, b) /\ Len(b.out) = q * Rate[a]
      <3> HIDE DEF q, b, r
      <3> QED
        BY <1>1, <1>5, <2>1, CallSqueezesBlocks
    <2> QED
      BY <2>2
  <1> HIDE DEF b
  <1> DEFINE l == Len(b.out)
  <1>7. b.out \in Seq(Octet) /\ l \in Nat /\ Squeezing(a, in, b.s, r, l) /\ Answers(a, in, b.out, 0)
    <2>1. b.out \in Seq(Octet)
      BY <1>6 DEF Given
    <2>2. l \in Nat
      BY <2>1
    <2>3. 0 + Len(b.out) = l
      BY <2>2
    <2> QED
      BY <1>6, <2>1, <2>2, <2>3 DEF GotBlocks
  <1>8. c \in Squeezed /\ Got(a, in, l, c) /\ Len(c.out) = n % r
    <2> DEFINE e == n % r
    <2>1. c = keccak_squeeze(e, b.s, r, Rate[a]) /\ e \in Nat
      BY <1>4
    <2>2. c \in Squeezed /\ Got(a, in, l, c) /\ Len(c.out) = e
      <3> HIDE DEF e, c, l, r
      <3> QED
        BY <1>1, <1>7, <2>1, CallSqueezes
    <2> QED
      BY <2>2
  <1> HIDE DEF c
  <1>9. c.out \in Seq(Octet) /\ Answers(a, in, c.out, 0 + Len(b.out))
    <2>1. 0 + Len(b.out) = l
      BY <1>7
    <2> QED
      BY <1>8, <2>1 DEF Got, Squeezed
  <1>10. /\ b.out \o c.out \in Seq(Octet) /\ Len(b.out \o c.out) = Len(b.out) + Len(c.out)
         /\ Answers(a, in, b.out \o c.out, 0)
    <2>1. 0 \in Nat
      OBVIOUS
    <2> QED
      BY <1>7, <1>9, <2>1, AnswersMore
  <1>11. Len(b.out) + Len(c.out) = n
    <2>1. Len(b.out) = (n \div r) * r /\ Len(c.out) = n % r
      BY <1>6, <1>8
    <2> QED
      BY <1>4, <2>1
  <1> QED
    BY <1>2, <1>10, <1>11

LEMMA Sha3Gives ==
  ASSUME XofAssumption, NEW a \in Sha3, NEW in \in Seq(Octet),
         NEW u, u = sha3(Digest[a], Rate[a], in)
  PROVE  u \in Seq(Octet) /\ Len(u) = Digest[a] /\ Answers(a, in, u, 0)
  <1> DEFINE r == Rate[a]
             n == Digest[a]
             y == keccak_absorb_once(r, in, Suffix[a])
             x == Permute(y)
  <1>1. a \in Algorithms /\ Suffix[a] = {1, 2}
    BY DEF Algorithms, Suffix, Shake, Sha3
  <1>2. u = Bytes(x, 0, n)
    <2>1. keccak_absorb_once(r, in, {1, 2}) = y
      BY <1>1
    <2>2. u = Value({Bytes(t, 0, n) : t \in {Permute(z) : z \in {y}}})
      BY <2>1 DEF sha3
    <2>3. {Permute(z) : z \in {y}} = {x}
      OBVIOUS
    <2> HIDE DEF x
    <2> QED
      BY <2>2, <2>3 DEF Value
  <1>3. r \in Nat \ {0} /\ r <= Width /\ Width \in Nat /\ n \in Nat /\ n <= r
    BY <1>1, RateIs DEF XofAssumption, Sizes
  <1>4. Squeezing(a, in, y, Rate[a], 0)
    BY <1>1, OnceGives
  <1>5. x \in State
    BY <1>4 DEF Squeezing, XofAssumption, PermutesStates
  <1> HIDE DEF x, y
  <1>6. Bytes(x, 0, n) \in Seq(Octet) /\ Len(Bytes(x, 0, n)) = n
        /\ \A i \in 1 .. n : Bytes(x, 0, n)[i] = x[0 + i - 1]
    <2>1. 0 \in Nat /\ 0 + n <= Width
      BY <1>3
    <2> HIDE DEF n
    <2> QED
      BY <1>3, <1>5, <2>1, BytesAre
  <1>7. n > 0 => Gives(a, in, x, 0, n, 0)
    <2> SUFFICES ASSUME n > 0 PROVE Gives(a, in, x, 0, n, 0)
      OBVIOUS
    <2> DEFINE from == 0
               n0 == 0
    <2>1. /\ from + n <= Rate[a] /\ from = IF r = Rate[a] THEN 0 ELSE r
          /\ x = IF r = Rate[a] THEN Permute(y) ELSE y
          /\ Squeezing(a, in, y, r, n0)
      BY <1>3, <1>4 DEF x
    <2>2. Gives(a, in, x, from, n, n0)
      <3> HIDE DEF from, n0, n, r
      <3> QED
        BY <1>1, <1>3, <2>1, PartSqueezed
    <2> QED
      BY <2>2
  <1>8. Answers(a, in, Bytes(x, 0, n), 0)
    <2> HIDE DEF n
    <2> QED
      BY <1>3, <1>6, <1>7 DEF Answers, Gives
  <1> QED
    BY <1>2, <1>6, <1>8

----------------------------------------------------------------------------
(* The promise of module Hash.                                              *)

\* What the states of module Hash do with block number j.
HashBlock(a, m, j) ==
  [i \in 0 .. Width - 1 |-> IF i < Rate[a] /\ j * Rate[a] <= Len(H!Padded(a, m))
                            THEN H!Padded(a, m)[(j - 1) * Rate[a] + i + 1] ELSE {}]

HashTurn(a, m, j, x) ==
  Permute([i \in 0 .. Width - 1 |-> H!SymmetricDifference(x[i], HashBlock(a, m, j)[i])])

LEMMA HashTurnIs ==
  ASSUME XofAssumption, NEW a \in Algorithms, NEW m \in Seq(Octet), NEW k \in Nat
  PROVE  HashTurn(a, m, k + 1, Blocks(a, m)[k]) = Blocks(a, m)[k + 1]
  <1> DEFINE r == Rate[a]
             P == H!Padded(a, m)
             x == Blocks(a, m)[k]
             b == k * r
             c == (k + 1) * r
             e == First(a, m) * r
             y == [i \in 0 .. Width - 1 |-> H!SymmetricDifference(x[i], HashBlock(a, m, k + 1)[i])]
             z == Sum(x, P, r, b, Len(P))
  <1>1. r \in Nat \ {0} /\ First(a, m) \in Nat /\ Len(P) = e /\ (k + 1) - 1 = k
    BY RateIs, PaddedIs
  <1>2. x \in State /\ Blocks(a, m)[k + 1] = Permute(z)
    BY BlocksAre
  <1>3. b \in Nat /\ e \in Nat /\ c = b + r
    <2> HIDE DEF r
    <2> QED
      BY <1>1, Products
  <1>4. c <= e \/ e <= b
    <2>1. k + 1 <= First(a, m) \/ First(a, m) <= k
      BY <1>1
    <2> DEFINE f == First(a, m)
    <2>2. f \in Nat /\ r \in Nat /\ k + 1 \in Nat /\ (k + 1 <= f \/ f <= k)
      BY <1>1, <2>1
    <2> HIDE DEF r, f
    <2>3. (k + 1) * r <= f * r \/ f * r <= k * r
      BY <2>2, ProductGrows
    <2> QED
      BY <2>3 DEF f
  <1>5. \A i \in 0 .. Width - 1 : HashBlock(a, m, k + 1)[i] = IF i < r /\ c <= Len(P) THEN P[b + i + 1] ELSE {}
    BY <1>1 DEF HashBlock
  <1> HIDE DEF r, P, b, c, e
  <1>6. ASSUME NEW i \in 0 .. Width - 1
        PROVE  y[i] = IF i < r /\ b + i < Len(P) THEN XorBits(x[i], P[b + i + 1]) ELSE x[i]
    <2>1. y[i] = XorBits(x[i], HashBlock(a, m, k + 1)[i])
      BY SymmetricDifferenceIs
    <2>2. i \in Nat /\ x[i] \in Octet
      <3>1. i \in Nat
        BY DEF XofAssumption, PermutesStates
      <3> HIDE DEF x
      <3> QED
        BY <1>2, <3>1 DEF State
    <2>3. i < r => (c <= Len(P) <=> b + i < Len(P))
      BY <1>1, <1>3, <1>4, <2>2
    <2> HIDE DEF x, y
    <2>4. CASE i < r /\ b + i < Len(P)
      BY <1>5, <2>1, <2>3, <2>4
    <2>5. CASE ~(i < r /\ b + i < Len(P))
      <3>1. HashBlock(a, m, k + 1)[i] = {}
        BY <1>5, <2>3, <2>5
      <3> QED
        BY <2>1, <2>2, <2>5, <3>1, XorIs
    <2> QED
      BY <2>4, <2>5
  <1>7. y = z
    <2>1. y = [i \in 0 .. Width - 1 |-> y[i]]
      OBVIOUS
    <2> HIDE DEF x, y
    <2> QED
      BY <1>6, <2>1 DEF Sum
  <1>8. HashTurn(a, m, k + 1, x) = Permute(y)
    BY DEF HashTurn
  <1> QED
    BY <1>2, <1>7, <1>8

\* The states of module Hash are those after the blocks.
LEMMA StatesAre ==
  ASSUME XofAssumption, NEW a \in Algorithms, NEW m \in Seq(Octet), NEW n \in Nat
  PROVE  \A j \in 0 .. n : H!States(a, m, n)[j] = Blocks(a, m)[j]
  <1> DEFINE N == n
             P == H!Padded(a, m)
             B(j) == [i \in 0 .. Width - 1 |->
                        IF i < Rate[a] /\ j * Rate[a] <= Len(P) THEN P[(j - 1) * Rate[a] + i + 1] ELSE {}]
             F(f) == [j \in 0 .. N |->
                       IF j = 0 THEN [i \in 0 .. Width - 1 |-> {}]
                       ELSE Permute([i \in 0 .. Width - 1 |-> H!SymmetricDifference(f[j - 1][i], B(j)[i])])]
             after == CHOOSE f : f = F(f)
             w == [j \in 0 .. N |-> Blocks(a, m)[j]]
  <1>1. H!States(a, m, n) = after
    BY DEF H!States, H!Computed
  <1>2. \A f : F(f) = [j \in 0 .. N |-> IF j = 0 THEN keccak_init ELSE HashTurn(a, m, j, f[j - 1])]
    <2>1. \A j : B(j) = HashBlock(a, m, j)
      BY DEF HashBlock
    <2> HIDE DEF B, N
    <2> QED
      BY <2>1 DEF HashTurn, keccak_init
  <1>3. N \in Nat /\ N = n
    OBVIOUS
  <1> HIDE DEF F, N
  <1>4. \A j \in 0 .. N : j # 0 => j - 1 \in Nat /\ j - 1 \in 0 .. N /\ (j - 1) + 1 = j
    BY <1>3
  <1>5. w = F(w)
    <2>1. ASSUME NEW j \in 0 .. N
          PROVE  w[j] = IF j = 0 THEN keccak_init ELSE HashTurn(a, m, j, w[j - 1])
      <3>1. CASE j = 0
        BY <3>1, BlocksAre
      <3>2. CASE j # 0
        <4> DEFINE k == j - 1
        <4>1. k \in Nat /\ k \in 0 .. N /\ k + 1 = j
          BY <1>4, <3>2
        <4>2. w[k] = Blocks(a, m)[k] /\ w[j] = Blocks(a, m)[j]
          BY <4>1
        <4> HIDE DEF k, w
        <4>3. HashTurn(a, m, k + 1, Blocks(a, m)[k]) = Blocks(a, m)[k + 1]
          BY <4>1, HashTurnIs
        <4>4. w[j] = HashTurn(a, m, j, w[k])
          BY <4>1, <4>2, <4>3
        <4> QED
          BY <3>2, <4>4 DEF k
      <3> QED
        BY <3>1, <3>2
    <2>2. w = [j \in 0 .. N |-> w[j]]
      OBVIOUS
    <2> HIDE DEF w
    <2>3. w = [j \in 0 .. N |-> IF j = 0 THEN keccak_init ELSE HashTurn(a, m, j, w[j - 1])]
      BY <2>1, <2>2
    <2> QED
      BY <1>2, <2>3
  <1>6. after = F(after)
    <2>1. after = CHOOSE f : f = F(f)
      OBVIOUS
    <2> HIDE DEF after, w
    <2> QED
      BY <1>5, <2>1
  <1> HIDE DEF after, w
  <1>7. after = [j \in 0 .. N |-> IF j = 0 THEN keccak_init ELSE HashTurn(a, m, j, after[j - 1])]
    BY <1>2, <1>6
  <1> DEFINE X == {j \in Nat : j <= N => after[j] = Blocks(a, m)[j]}
  <1>8. X \in SUBSET Nat /\ 0 \in X
    <2>1. 0 \in 0 .. N
      BY <1>3
    <2>2. after[0] = keccak_init
      BY <1>7, <2>1
    <2> QED
      BY <2>2, BlocksAre
  <1>9. ASSUME NEW j \in X PROVE j + 1 \in X
    <2> SUFFICES ASSUME j + 1 <= N PROVE after[j + 1] = Blocks(a, m)[j + 1]
      BY <1>8
    <2>1. /\ j \in Nat /\ j <= N /\ j + 1 \in 0 .. N /\ j + 1 # 0 /\ (j + 1) - 1 = j
          /\ after[j] = Blocks(a, m)[j]
      BY <1>3
    <2>2. after[j + 1] = HashTurn(a, m, j + 1, after[j])
      BY <1>7, <2>1
    <2> QED
      BY <2>1, <2>2, HashTurnIs
  <1>10. \A j \in Nat : j \in X
    <2> HIDE DEF X
    <2> QED
      BY <1>8, <1>9, Induction
  <1> QED
    BY <1>1, <1>3, <1>10

LEMMA OutputIs ==
  ASSUME XofAssumption, NEW a \in Algorithms, NEW m \in Seq(Octet), NEW n \in Nat
  PROVE  H!Output(a, m, n) = [i \in 1 .. n |-> ByteAt(a, m, i - 1)]
  <1> DEFINE r == Rate[a]
             f == First(a, m)
             k == f + (n \div r)
             t == H!States(a, m, k)
  <1>1. H!Output(a, m, n) = [i \in 1 .. n |-> t[f + ((i - 1) \div r)][(i - 1) % r]]
    <2>1. H!Output(a, m, n) =
            H!Value({[i \in 1 .. n |-> x[f + ((i - 1) \div r)][(i - 1) % r]] : x \in {t}})
      BY DEF H!Output, First
    <2> HIDE DEF t
    <2> QED
      BY <2>1 DEF H!Value
  <1>2. r \in Nat \ {0} /\ f \in Nat
    BY RateIs, PaddedIs
  <1>3. k \in Nat
    <2> HIDE DEF r, f
    <2>1. n \div r \in Nat
      BY <1>2, Divided
    <2> QED
      BY <1>2, <2>1
  <1>4. ASSUME NEW i \in 1 .. n PROVE t[f + ((i - 1) \div r)] = Blocks(a, m)[f + ((i - 1) \div r)]
    <2> DEFINE d == (i - 1) \div r
               e == n \div r
    <2>1. d \in Nat /\ e \in Nat /\ d <= e
      <3> HIDE DEF r
      <3>1. i - 1 \in Nat
        OBVIOUS
      <3>2. d \in Nat /\ (i - 1) % r \in 0 .. r - 1 /\ i - 1 = d * r + ((i - 1) % r)
        BY <1>2, <3>1, Divided
      <3>3. e \in Nat /\ n % r \in 0 .. r - 1 /\ n = e * r + (n % r)
        BY <1>2, Divided
      <3> HIDE DEF d, e
      <3>4. d * r \in Nat /\ e * r \in Nat /\ (e + 1) * r = e * r + r
        BY <1>2, <3>2, <3>3, Products
      <3>5. ~(e + 1 <= d)
        <4> SUFFICES ASSUME e + 1 <= d PROVE FALSE
          OBVIOUS
        <4>1. (e + 1) * r <= d * r
          BY <1>2, <3>2, <3>3, ProductGrows
        <4> DEFINE b == d * r
                   c == e * r
                   g == n % r
                   h == (i - 1) % r
        <4>2. /\ c + r <= b /\ n = c + g /\ i - 1 = b + h /\ g < r /\ g \in Nat /\ h \in Nat
              /\ b \in Nat /\ c \in Nat
          BY <1>2, <3>2, <3>3, <3>4, <4>1
        <4> HIDE DEF b, c, g, h
        <4> QED
          BY <1>2, <4>2
      <3> QED
        BY <3>2, <3>3, <3>5
    <2> HIDE DEF d, e, f
    <2>2. f + d \in 0 .. f + e
      BY <1>2, <2>1
    <2>3. k = f + e
      BY DEF e
    <2>4. t[f + d] = Blocks(a, m)[f + d]
      <3>1. \A j \in 0 .. k : H!States(a, m, k)[j] = Blocks(a, m)[j]
        <4> HIDE DEF k
        <4> QED
          BY <1>3, StatesAre
      <3>2. f + d \in 0 .. k
        BY <2>2, <2>3
      <3> HIDE DEF k
      <3> QED
        BY <3>1, <3>2
    <2> QED
      BY <2>4 DEF d
  <1> HIDE DEF t
  <1>5. \A i \in 1 .. n : t[f + ((i - 1) \div r)][(i - 1) % r] = ByteAt(a, m, i - 1)
    BY <1>4 DEF ByteAt
  <1> HIDE DEF f, r
  <1> QED
    BY <1>1, <1>5

\* All the output from its first byte on is what module Hash says.
LEMMA AnswersWhole ==
  ASSUME XofAssumption, NEW a \in Algorithms, NEW m \in Seq(Octet), NEW u \in Seq(Octet), NEW n,
         n = Len(u), Answers(a, m, u, 0)
  PROVE  u = H!Output(a, m, n)
  <1>1. n \in Nat /\ u = [i \in 1 .. n |-> u[i]]
    OBVIOUS
  <1>2. \A i \in 1 .. n : u[i] = ByteAt(a, m, i - 1)
    <2>1. ASSUME NEW i \in 1 .. n PROVE u[i] = ByteAt(a, m, i - 1)
      <3>1. 0 + i - 1 = i - 1
        BY <1>1
      <3> QED
        BY <3>1 DEF Answers
    <2> QED
      BY <2>1
  <1>3. H!Output(a, m, n) = [i \in 1 .. n |-> ByteAt(a, m, i - 1)]
    BY <1>1, OutputIs
  <1> QED
    BY <1>1, <1>2, <1>3

----------------------------------------------------------------------------
(* The refinement.                                                          *)

\* The state has taken up the message, or is ready to give the rest of the output of
\* which the bytes so far are the beginning.
XofInv ==
  /\ phase = "absorb" => /\ alg \in Shake /\ msg \in Seq(Octet) /\ out = <<>>
                         /\ Absorbed(msg, Len(msg), s, pos, Rate[alg])
  /\ phase = "squeeze" => /\ alg \in Shake /\ msg \in Seq(Octet) /\ out \in Seq(Octet)
                          /\ Squeezing(alg, msg, s, pos, Len(out))
                          /\ Answers(alg, msg, out, 0)

LEMMA InterfaceIs ==
  ASSUME XofAssumption
  PROVE  /\ Pieces \subseteq Seq(Octet) /\ DOMAIN Rate = Algorithms /\ MaxOut \in Nat
         /\ PermutesStates /\ Shake \subseteq Algorithms
         /\ \A a \in Algorithms : Rate[a] \in 1 .. Width /\ Rate[a] \in Nat
         /\ \A a \in Sha3 : Digest[a] \in 0 .. MaxOut
  <1>1. \A a \in Algorithms : Rate[a] \in 1 .. Width /\ Rate[a] \in Nat
    BY RateIs
  <1>2. \A a \in Sha3 : Digest[a] \in 0 .. MaxOut
    BY DEF XofAssumption, Sizes
  <1> QED
    BY <1>1, <1>2 DEF XofAssumption, Sizes, Algorithms, Octet

LEMMA InitMatches ==
  ASSUME XofInit
  PROVE  H!Init /\ XofInv
  BY DEF XofInit, H!Init, XofInv

LEMMA InitStep ==
  ASSUME XofAssumption, NEW a \in Shake, shake_init(a)
  PROVE  H!Next /\ XofInv'
  <1>1. a \in DOMAIN Rate /\ H!Start(a)
    BY InterfaceIs DEF shake_init, H!Start
  <1>2. <<>> \in Seq(Octet) /\ Absorbed(<<>>, Len(<<>>), keccak_init, 0, Rate[a])
    BY InterfaceIs, NothingAbsorbed
  <1>3. XofInv'
    BY <1>2 DEF shake_init, XofInv
  <1> QED
    BY <1>1, <1>3 DEF H!Next

LEMMA AbsorbStep ==
  ASSUME XofAssumption, XofInv, NEW in \in Pieces, shake_absorb(in)
  PROVE  H!Next /\ XofInv'
  <1>1. H!Absorb(in)
    BY DEF shake_absorb, H!Absorb
  <1>2. /\ phase = "absorb" /\ alg \in Shake /\ msg \in Seq(Octet) /\ out = <<>>
        /\ Absorbed(msg, Len(msg), s, pos, Rate[alg])
    BY DEF XofInv, shake_absorb
  <1> DEFINE r == Rate[alg]
             k == keccak_absorb(s, pos, r, in)
  <1>3. in \in Seq(Octet) /\ r \in 1 .. Width /\ PermutesStates
    BY <1>2, InterfaceIs
  <1>4. msg \o in \in Seq(Octet) /\ Absorbed(msg \o in, Len(msg \o in), k.s, k.pos, r)
    <2>1. Absorbed(msg, Len(msg), s, pos, r)
      BY <1>2
    <2> HIDE DEF r
    <2> QED
      BY <1>2, <1>3, <2>1, CallAbsorbs
  <1>5. s' = k.s /\ pos' = k.pos /\ msg' = msg \o in /\ UNCHANGED <<alg, phase, out>>
    BY DEF shake_absorb
  <1> HIDE DEF k
  <1>6. XofInv'
    BY <1>2, <1>4, <1>5 DEF XofInv
  <1> QED
    BY <1>1, <1>6 DEF H!Next

LEMMA FinalizeStep ==
  ASSUME XofAssumption, XofInv, shake_finalize
  PROVE  H!Next /\ XofInv'
  <1>1. H!Finish
    BY DEF shake_finalize, H!Finish
  <1>2. /\ alg \in Shake /\ alg \in Algorithms /\ msg \in Seq(Octet) /\ out = <<>>
        /\ Absorbed(msg, Len(msg), s, pos, Rate[alg])
    BY InterfaceIs DEF XofInv, shake_finalize
  <1> DEFINE f == keccak_finalize(s, pos, Rate[alg], Suffix[alg])
  <1>3. Squeezing(alg, msg, f, Rate[alg], 0)
    BY <1>2, FinalizedGives
  <1>4. s' = f /\ pos' = Rate[alg] /\ phase' = "squeeze" /\ UNCHANGED <<alg, msg, out>>
    BY DEF shake_finalize
  <1> HIDE DEF f
  <1>5. <<>> \in Seq(Octet) /\ Len(<<>>) = 0 /\ Answers(alg, msg, <<>>, 0)
    BY DEF Answers
  <1>6. XofInv'
    BY <1>2, <1>3, <1>4, <1>5 DEF XofInv
  <1> QED
    BY <1>1, <1>6 DEF H!Next

\* A call that squeezes n bytes behind those that are there.
LEMMA MoreGiven ==
  ASSUME XofAssumption, XofInv, phase = "squeeze", UNCHANGED <<alg, phase, msg>>,
         NEW z \in Seq(Octet), Answers(alg, msg, z, Len(out)), out' = out \o z,
         NEW n \in 0 .. MaxOut, Len(z) = n,
         Squeezing(alg, msg, s', pos', Len(out) + n)
  PROVE  H!Next /\ XofInv'
  <1>1. /\ alg \in Shake /\ alg \in Algorithms /\ msg \in Seq(Octet) /\ out \in Seq(Octet)
        /\ Len(out) \in Nat /\ Answers(alg, msg, out, 0)
    BY InterfaceIs DEF XofInv
  <1>2. out \o z \in Seq(Octet) /\ Len(out \o z) = Len(out) + Len(z) /\ Answers(alg, msg, out \o z, 0)
    <2>1. 0 \in Nat /\ 0 + Len(out) = Len(out)
      BY <1>1
    <2>2. Answers(alg, msg, z, 0 + Len(out))
      BY <2>1
    <2> QED
      BY <1>1, <2>1, <2>2, AnswersMore
  <1>3. out \o z = H!Output(alg, msg, Len(out) + n)
    <2>1. Len(out) + n = Len(out \o z)
      BY <1>2
    <2> QED
      BY <1>1, <1>2, <2>1, AnswersWhole
  <1>4. H!Squeeze(n)
    BY <1>2, <1>3 DEF H!Squeeze
  <1>5. XofInv'
    BY <1>1, <1>2 DEF XofInv
  <1> QED
    BY <1>4, <1>5 DEF H!Next

LEMMA SqueezeStep ==
  ASSUME XofAssumption, XofInv, NEW n \in 0 .. MaxOut, shake_squeeze(n)
  PROVE  H!Next /\ XofInv'
  <1> DEFINE r == Rate[alg]
             k == keccak_squeeze(n, s, pos, r)
             l == Len(out)
  <1>1. /\ phase = "squeeze" /\ UNCHANGED <<alg, phase, msg>>
        /\ s' = k.s /\ pos' = k.pos /\ out' = out \o k.out
    BY DEF shake_squeeze
  <1>2. /\ alg \in Shake /\ alg \in Algorithms /\ msg \in Seq(Octet) /\ out \in Seq(Octet)
        /\ l \in Nat /\ n \in Nat /\ Squeezing(alg, msg, s, pos, l)
    BY <1>1, InterfaceIs DEF XofInv
  <1>3. k \in Squeezed /\ Got(alg, msg, l, k) /\ Len(k.out) = n
    <2>1. k = keccak_squeeze(n, s, pos, Rate[alg])
      OBVIOUS
    <2> HIDE DEF k, l, r
    <2> QED
      BY <1>2, <2>1, CallSqueezes
  <1> HIDE DEF k
  <1>4. /\ k.out \in Seq(Octet) /\ Answers(alg, msg, k.out, Len(out))
        /\ Squeezing(alg, msg, s', pos', Len(out) + n)
    BY <1>1, <1>3 DEF Squeezed, Got
  <1> QED
    BY <1>1, <1>3, <1>4, MoreGiven

LEMMA OnceStep ==
  ASSUME XofAssumption, NEW a \in Shake, NEW in \in Pieces, shake_absorb_once(a, in)
  PROVE  H!Next /\ XofInv'
  <1>1. a \in DOMAIN Rate /\ a \in Algorithms /\ in \in Seq(Octet) /\ H!Given(a, in)
    BY InterfaceIs DEF shake_absorb_once, H!Given
  <1>2. Squeezing(a, in, keccak_absorb_once(Rate[a], in, Suffix[a]), Rate[a], 0)
    BY <1>1, OnceGives
  <1>3. <<>> \in Seq(Octet) /\ Len(<<>>) = 0 /\ Answers(a, in, <<>>, 0)
    BY DEF Answers
  <1>4. XofInv'
    BY <1>1, <1>2, <1>3 DEF XofInv, shake_absorb_once
  <1> QED
    BY <1>1, <1>4 DEF H!Next

LEMMA SqueezeBlocksStep ==
  ASSUME XofAssumption, XofInv, NEW n \in 0 .. MaxOut, shake_squeezeblocks(n)
  PROVE  H!Next /\ XofInv'
  <1> DEFINE r == Rate[alg]
             k == keccak_squeezeblocks(n, s, r)
             l == Len(out)
             e == n * r
  <1>1. /\ phase = "squeeze" /\ pos = r /\ l + e <= MaxOut /\ UNCHANGED <<alg, phase, pos, msg>>
        /\ s' = k.s /\ out' = out \o k.out
    BY DEF shake_squeezeblocks
  <1>2. /\ alg \in Shake /\ alg \in Algorithms /\ msg \in Seq(Octet) /\ out \in Seq(Octet)
        /\ l \in Nat /\ n \in Nat /\ r \in Nat /\ MaxOut \in Nat
        /\ Squeezing(alg, msg, s, Rate[alg], l)
    BY <1>1, InterfaceIs DEF XofInv
  <1>3. k \in Given /\ GotBlocks(alg, msg, l, k) /\ Len(k.out) = e
    <2>1. k = keccak_squeezeblocks(n, s, Rate[alg])
      OBVIOUS
    <2>2. k \in Given /\ GotBlocks(alg, msg, l, k) /\ Len(k.out) = n * Rate[alg]
      <3> HIDE DEF k, l, r
      <3> QED
        BY <1>2, <2>1, CallSqueezesBlocks
    <2> QED
      BY <2>2
  <1>4. e \in Nat
    <2> HIDE DEF r
    <2> QED
      BY <1>2, Products
  <1> HIDE DEF k, e
  <1>5. e \in 0 .. MaxOut
    <2> HIDE DEF l
    <2> QED
      BY <1>1, <1>2, <1>4
  <1>6. /\ k.out \in Seq(Octet) /\ Answers(alg, msg, k.out, Len(out))
        /\ Squeezing(alg, msg, s', pos', Len(out) + e)
    BY <1>1, <1>3 DEF Given, GotBlocks
  <1> QED
    BY <1>1, <1>3, <1>5, <1>6, MoreGiven

LEMMA AtOnceStep ==
  ASSUME XofAssumption, NEW a \in Algorithms, NEW in \in Pieces, NEW n \in 0 .. MaxOut,
         a \in Sha3 => n = Digest[a], AtOnce(a, in, n)
  PROVE  H!Next /\ XofInv'
  <1>1. in \in Seq(Octet) /\ a \in DOMAIN Rate /\ MaxOut \in Nat /\ n \in Nat
    BY InterfaceIs
  <1>2. /\ alg' = a /\ phase' = "done" /\ msg' = in
        /\ out' = IF a \in Shake THEN shake(n, Rate[a], in) ELSE sha3(Digest[a], Rate[a], in)
    BY DEF AtOnce
  <1>3. out' \in Seq(Octet) /\ Len(out') = n /\ Answers(a, in, out', 0)
    <2>1. CASE a \in Shake
      BY <1>1, <1>2, <2>1, ShakeGives
    <2>2. CASE a \notin Shake
      <3>1. a \in Sha3 /\ n = Digest[a]
        BY <2>2 DEF Algorithms
      <3> QED
        BY <1>1, <1>2, <2>2, <3>1, Sha3Gives
    <2> QED
      BY <2>1, <2>2
  <1>4. out' = H!Output(a, in, n)
    BY <1>1, <1>3, AnswersWhole
  <1>5. H!Whole(a, in, n)
    BY <1>2, <1>3, <1>4 DEF H!Whole
  <1>6. XofInv'
    BY <1>2 DEF XofInv
  <1> QED
    BY <1>1, <1>5, <1>6 DEF H!Next

LEMMA XofStep ==
  ASSUME XofAssumption, XofInv, [XofNext]_xofVars
  PROVE  [H!Next]_(H!vars) /\ XofInv'
  <1>1. ASSUME NEW a \in Shake, shake_init(a) PROVE H!Next /\ XofInv'
    BY <1>1, InitStep
  <1>2. ASSUME NEW in \in Pieces, shake_absorb(in) PROVE H!Next /\ XofInv'
    BY <1>2, AbsorbStep
  <1>3. CASE shake_finalize
    BY <1>3, FinalizeStep
  <1>4. ASSUME NEW n \in 0 .. MaxOut, shake_squeeze(n) PROVE H!Next /\ XofInv'
    BY <1>4, SqueezeStep
  <1>5. ASSUME NEW a \in Shake, NEW in \in Pieces, shake_absorb_once(a, in) PROVE H!Next /\ XofInv'
    BY <1>5, OnceStep
  <1>6. ASSUME NEW n \in 0 .. MaxOut, shake_squeezeblocks(n) PROVE H!Next /\ XofInv'
    BY <1>6, SqueezeBlocksStep
  <1>7. ASSUME NEW a \in Shake, NEW in \in Pieces, NEW n \in 0 .. MaxOut, AtOnce(a, in, n)
        PROVE  H!Next /\ XofInv'
    <2>1. a \in Algorithms /\ ~(a \in Sha3)
      BY DEF Algorithms, Shake, Sha3
    <2> QED
      BY <1>7, <2>1, AtOnceStep
  <1>8. ASSUME NEW a \in Sha3, NEW in \in Pieces, AtOnce(a, in, Digest[a])
        PROVE  H!Next /\ XofInv'
    <2> DEFINE n == Digest[a]
    <2>1. a \in Algorithms /\ n \in 0 .. MaxOut /\ (a \in Sha3 => n = Digest[a]) /\ AtOnce(a, in, n)
      BY <1>8, InterfaceIs DEF Algorithms
    <2> HIDE DEF n
    <2> QED
      BY <2>1, AtOnceStep
  <1>9. CASE UNCHANGED xofVars
    <2>1. XofInv'
      BY <1>9 DEF XofInv, xofVars
    <2> QED
      BY <1>9, <2>1 DEF xofVars, H!vars
  <1> QED
    BY <1>1, <1>2, <1>3, <1>4, <1>5, <1>6, <1>7, <1>8, <1>9 DEF XofNext

\* However a message is cut into calls that absorb, and its output into calls that
\* squeeze bytes or blocks, the functions of fips202.c return the bytes that FIPS 202
\* assigns to the whole message (keccak_absorb, keccak_finalize, keccak_squeeze and the
\* functions built of them): for every permutation of arrays of Width bytes, for all
\* rates, pieces and lengths.
THEOREM XofImplementsHash ==
  ASSUME XofAssumption
  PROVE  XofSpec => ImplementsHash
  <1>1. XofInit => H!Init /\ XofInv
    BY InitMatches
  <1>2. XofInv /\ [XofNext]_xofVars => [H!Next]_(H!vars) /\ XofInv'
    BY XofStep
  <1> QED
    BY <1>1, <1>2, PTL DEF XofSpec, ImplementsHash, H!Spec

----------------------------------------------------------------------------
(* The permutation and the constants of fips202.c.                          *)

\* KeccakF1600_StatePermute writes 25 lanes of 8 bytes, whatever it has computed.
LEMMA KeccakMakesBytes ==
  \A x : KeccakF1600_StatePermute(x) \in [0 .. 199 -> Octet]
  <1>1. ASSUME NEW a PROVE copyToState(a) \in [0 .. 199 -> Octet]
    <2> DEFINE b == [n \in 0 .. 24 |-> store64(a[n])]
    <2>1. copyToState(a) = [i \in 0 .. 199 |-> b[i \div 8][i % 8]]
      <3>1. copyToState(a) =
              Value({Computed([i \in 0 .. 199 |-> y[i \div 8][i % 8]]) : y \in {Computed(b)}})
        BY DEF copyToState
      <3> HIDE DEF b
      <3>2. Computed(b) = b
        BY DEF Computed
      <3>3. copyToState(a) = Value({Computed([i \in 0 .. 199 |-> b[i \div 8][i % 8]])})
        BY <3>1, <3>2
      <3> QED
        BY <3>3 DEF Value, Computed
    <2>2. ASSUME NEW i \in 0 .. 199 PROVE b[i \div 8][i % 8] \in Octet
      <3>1. i \div 8 \in 0 .. 24 /\ i % 8 \in 0 .. 7
        OBVIOUS
      <3>2. b[i \div 8] = store64(a[i \div 8])
        BY <3>1
      <3> HIDE DEF b
      <3>3. \A u : \A j \in 0 .. 7 : store64(u)[j] \in Octet
        BY DEF store64, Octet
      <3> QED
        BY <3>1, <3>2, <3>3, SMTT(30)
    <2> HIDE DEF b
    <2> QED
      BY <2>1, <2>2
  <1>2. ASSUME NEW x PROVE KeccakF1600_StatePermute(x) = copyToState(Rounds(copyFromState(x)))
    BY DEF KeccakF1600_StatePermute, Value
  <1> QED
    BY <1>1, <1>2

\* The same for the constants of fips202.h and for the permutation of fips202.c, for
\* messages in bytes that are cut in any way.
THEOREM Fips202ImplementsHash ==
  ASSUME Width = 200, \A x : Permute(x) = KeccakF1600_StatePermute(x),
         Rate = [shake128 |-> SHAKE128_RATE, shake256 |-> SHAKE256_RATE,
                 sha3_256 |-> SHA3_256_RATE, sha3_512 |-> SHA3_512_RATE],
         Digest = [sha3_256 |-> 32, sha3_512 |-> 64],
         Pieces \subseteq Seq(SUBSET (0 .. 7)), MaxOut \in Nat, 64 <= MaxOut
  PROVE  XofSpec => ImplementsHash
  <1>1. PermutesStates
    <2>1. State = [0 .. 199 -> Octet]
      BY DEF State
    <2> QED
      BY <2>1, KeccakMakesBytes, ZenonT(60) DEF PermutesStates
  <1>2. /\ DOMAIN Rate = Shake \cup Sha3
        /\ Rate["shake128"] = 168 /\ Rate["shake256"] = 136
        /\ Rate["sha3_256"] = 136 /\ Rate["sha3_512"] = 72
    BY DEF Shake, Sha3, SHAKE128_RATE, SHAKE256_RATE, SHA3_256_RATE, SHA3_512_RATE
  <1>3. Rate \in [Shake \cup Sha3 -> 1 .. Width]
    <2>1. Rate = [a \in Shake \cup Sha3 |-> Rate[a]]
      BY <1>2
    <2>2. \A a \in Shake \cup Sha3 : Rate[a] \in 1 .. Width
      <3> SUFFICES ASSUME NEW a \in Shake \cup Sha3 PROVE Rate[a] \in 1 .. Width
        OBVIOUS
      <3>1. a = "shake128" \/ a = "shake256" \/ a = "sha3_256" \/ a = "sha3_512"
        BY DEF Shake, Sha3
      <3>2. Rate[a] = 168 \/ Rate[a] = 136 \/ Rate[a] = 72
        BY <1>2, <3>1
      <3> QED
        BY <3>2
    <2> QED
      BY <2>1, <2>2
  <1>4. \A a \in Sha3 : Digest[a] \in 0 .. Rate[a] /\ Digest[a] <= MaxOut
    BY <1>2 DEF Sha3
  <1>5. XofAssumption
    BY <1>1, <1>3, <1>4, ZenonT(60) DEF XofAssumption, Sizes
  <1> QED
    BY <1>5, XofImplementsHash

----------------------------------------------------------------------------
(* The unrolled permutation.                                                *)

Lane == SUBSET (0 .. 63)
Lanes == [0 .. 24 -> Lane]

\* A bit of a rotated lane is the one that many places before.
LEMMA RotatedBit ==
  ASSUME NEW u \in Lane, NEW o \in 0 .. 63
  PROVE  /\ ROL(u, o) \in Lane
         /\ \A z \in 0 .. 63 : z \in ROL(u, o) <=> (z + 64 - o) % 64 \in u
  <1>1. ASSUME NEW i \in 0 .. 63
        PROVE  (i + o) % 64 \in 0 .. 63 /\ (((i + o) % 64) + 64 - o) % 64 = i
    OBVIOUS
  <1>2. ASSUME NEW z \in 0 .. 63
        PROVE  (z + 64 - o) % 64 \in 0 .. 63 /\ (((z + 64 - o) % 64) + o) % 64 = z
    OBVIOUS
  <1>3. ROL(u, o) \in Lane
    BY <1>1 DEF ROL, Lane
  <1>4. ASSUME NEW z \in 0 .. 63, z \in ROL(u, o) PROVE (z + 64 - o) % 64 \in u
    <2>1. PICK i \in u : z = (i + o) % 64
      BY <1>4 DEF ROL
    <2> QED
      BY <1>1, <2>1 DEF Lane
  <1>5. ASSUME NEW z \in 0 .. 63, (z + 64 - o) % 64 \in u PROVE z \in ROL(u, o)
    BY <1>2, <1>5 DEF ROL
  <1> QED
    BY <1>3, <1>4, <1>5

\* Exclusive or of two lanes.
LEMMA XorBit ==
  /\ \A a, b, z : z \in Xor64(a, b) <=> Differ(z \in a, z \in b)
  /\ \A a, b \in Lane : Xor64(a, b) \in Lane /\ a \ b \in Lane
  BY DEF Xor64, Differ, Lane

\* The parity of five bits.
LEMMA ParityIs ==
  ASSUME NEW S \in SUBSET Columns
  PROVE  (Cardinality(S) % 2 = 1)
         <=> Differ(Differ(Differ(0 \in S, 1 \in S), Differ(2 \in S, 3 \in S)), 4 \in S)
  <1> DEFINE P(k) == {y \in S : y < k}
             One(k) == IF k \in S THEN 1 ELSE 0
  <1>0. \A y \in S : y \in Nat /\ ~(y < 0) /\ y < 5
    BY DEF Columns
  <1>1. P(0) = {} /\ P(5) = S
    BY <1>0
  <1>2. ASSUME NEW k \in Columns, IsFiniteSet(P(k))
        PROVE  IsFiniteSet(P(k + 1)) /\ Cardinality(P(k + 1)) = Cardinality(P(k)) + One(k)
    <2>0. (\A y \in S : y < k + 1 <=> y < k \/ y = k) /\ ~(k < k)
      BY <1>0 DEF Columns
    <2>1. CASE k \in S
      <3>1. P(k + 1) = P(k) \cup {k} /\ k \notin P(k)
        BY <2>0, <2>1
      <3> HIDE DEF P
      <3> QED
        BY <1>2, <2>1, <3>1, FS_AddElement
    <2>2. CASE k \notin S
      <3>1. P(k + 1) = P(k)
        BY <2>0, <2>2
      <3>2. Cardinality(P(k)) \in Nat
        BY <1>2, FS_CardinalityType
      <3> HIDE DEF P
      <3> QED
        BY <1>2, <2>2, <3>1, <3>2
    <2> QED
      BY <2>1, <2>2
  <1>3. IsFiniteSet(P(0)) /\ Cardinality(P(0)) = 0
    BY <1>1, FS_EmptySet
  <1> HIDE DEF P
  <1>4. /\ \A k \in Columns : IsFiniteSet(P(k)) => /\ IsFiniteSet(P(k + 1))
                                                  /\ Cardinality(P(k + 1)) = Cardinality(P(k)) + One(k)
        /\ 0 \in Columns /\ 1 \in Columns /\ 2 \in Columns /\ 3 \in Columns /\ 4 \in Columns
    BY <1>2 DEF Columns
  <1>5. IsFiniteSet(P(1)) /\ Cardinality(P(1)) = One(0)
    BY <1>3, <1>4
  <1>6. IsFiniteSet(P(2)) /\ Cardinality(P(2)) = One(0) + One(1)
    BY <1>4, <1>5
  <1>7. IsFiniteSet(P(3)) /\ Cardinality(P(3)) = One(0) + One(1) + One(2)
    BY <1>4, <1>6
  <1>8. IsFiniteSet(P(4)) /\ Cardinality(P(4)) = One(0) + One(1) + One(2) + One(3)
    BY <1>4, <1>7
  <1>9. Cardinality(S) = One(0) + One(1) + One(2) + One(3) + One(4)
    BY <1>1, <1>4, <1>8
  <1> QED
    BY <1>9 DEF Differ

----------------------------------------------------------------------------
(* The constants of the rounds.                                             *)

\* Where the walk of rho is after t steps, at t + 1,
Path == <<
    <<1, 0>>, <<0, 2>>, <<2, 1>>, <<1, 2>>, <<2, 3>>, <<3, 3>>, <<3, 0>>, <<0, 1>>,
    <<1, 3>>, <<3, 1>>, <<1, 4>>, <<4, 4>>, <<4, 0>>, <<0, 3>>, <<3, 4>>, <<4, 3>>,
    <<3, 2>>, <<2, 2>>, <<2, 0>>, <<0, 4>>, <<4, 2>>, <<2, 4>>, <<4, 1>>, <<1, 1>> >>

\* and after how many steps it reaches lane number n, at n + 1.
StepTo == << 0, 0, 18, 6, 12, 7, 23, 2, 9, 22, 1, 3, 17, 16, 20, 13, 8, 4, 5, 15, 19, 10, 21, 14, 11 >>

\* The table follows the recursion of the walk, inside the lanes.
LEMMA PathIs ==
  /\ Path[1] = <<1, 0>>
  /\ \A t \in 1 .. 23 : Path[t + 1] = <<Path[t][2], (2 * Path[t][1] + 3 * Path[t][2]) % 5>>
  /\ \A t \in 1 .. 24 : Path[t][1] \in Columns /\ Path[t][2] \in Columns /\ Path[t] = <<Path[t][1], Path[t][2]>>
  BY SMTT(60) DEF Path, Columns

\* The step at which the walk is where the table has it.
LEMMA StepToIs ==
  \A t \in 0 .. 23 : StepTo[5 * Path[t + 1][2] + Path[t + 1][1] + 1] = t
  BY SMTT(60) DEF Path, StepTo

\* The walk is the table.
LEMMA WalkIs == \A t \in 0 .. 23 : Walk[t] = Path[t + 1]
  <1> DEFINE Next0(p) == <<p[2], (2 * p[1] + 3 * p[2]) % 5>>
             B(v) == [t \in 0 .. 23 |-> IF t = 0 THEN <<1, 0>> ELSE Next0(v[t - 1])]
             W == [t \in 0 .. 23 |-> Path[t + 1]]
             P == CHOOSE v : v = B(v)
  <1>1. W = B(W)
    <2>1. ASSUME NEW t \in 0 .. 23
          PROVE  Path[t + 1] = IF t = 0 THEN <<1, 0>> ELSE Next0(W[t - 1])
      <3>1. CASE t = 0
        BY <3>1, PathIs
      <3>2. CASE t # 0
        <4>1. t \in 1 .. 23 /\ W[t - 1] = Path[t]
          BY <3>2
        <4> QED
          BY <3>2, <4>1, PathIs
      <3> QED
        BY <3>1, <3>2
    <2> HIDE DEF Next0
    <2> QED
      BY <2>1
  <1>2. P = B(P)
    <2> HIDE DEF B, W
    <2> QED
      BY <1>1
  <1>3. Walk = P
    BY DEF Walk
  <1> HIDE DEF P
  <1>4. P[0] = <<1, 0>> /\ \A t \in 1 .. 23 : P[t] = Next0(P[t - 1])
    <2> HIDE DEF Next0, W
    <2>1. 0 \in 0 .. 23 /\ \A t \in 1 .. 23 : t \in 0 .. 23 /\ t # 0
      OBVIOUS
    <2>2. \A t \in 0 .. 23 : P[t] = IF t = 0 THEN <<1, 0>> ELSE Next0(P[t - 1])
      BY <1>2, ZenonT(60)
    <2> HIDE DEF B
    <2> QED
      BY <2>1, <2>2, ZenonT(60)
  <1> HIDE DEF B, W
  <1> DEFINE X == {t \in Nat : t <= 23 => P[t] = Path[t + 1]}
  <1>5. X \in SUBSET Nat /\ 0 \in X
    <2>1. P[0] = Path[0 + 1]
      <3>1. 0 + 1 = 1
        OBVIOUS
      <3> QED
        BY <1>4, <3>1, PathIs, ZenonT(60)
    <2> QED
      BY <2>1
  <1>6. ASSUME NEW t \in X PROVE t + 1 \in X
    <2> SUFFICES ASSUME t + 1 <= 23 PROVE P[t + 1] = Path[(t + 1) + 1]
      OBVIOUS
    <2>1. t + 1 \in 1 .. 23 /\ (t + 1) - 1 = t /\ P[t] = Path[t + 1]
      OBVIOUS
    <2>2. P[t + 1] = Next0(Path[t + 1])
      BY <1>4, <2>1
    <2> QED
      BY <2>1, <2>2, PathIs
  <1> HIDE DEF X
  <1>7. \A t \in Nat : t \in X
    BY <1>5, <1>6, Induction
  <1> QED
    BY <1>3, <1>7 DEF X

\* So is the offset of each lane.
Offset(x, y) ==
  LET t == StepTo[5 * y + x + 1] IN IF x = 0 /\ y = 0 THEN 0 ELSE (((t + 1) * (t + 2)) \div 2) % 64

\* Every lane but the first is reached.
LEMMA StepReaches ==
  \A x, y \in Columns : <<x, y>> = <<0, 0>> \/ (/\ StepTo[5 * y + x + 1] \in 0 .. 23
                                             /\ Path[StepTo[5 * y + x + 1] + 1] = <<x, y>>)
  BY SMTT(60) DEF Path, StepTo, Columns

\* By how much rho rotates a lane.
LEMMA OffsetIs == \A x, y \in Columns : RhoOffset[<<x, y>>] = Offset(x, y)
  <1> SUFFICES ASSUME NEW x \in Columns, NEW y \in Columns PROVE RhoOffset[<<x, y>>] = Offset(x, y)
    OBVIOUS
  <1> DEFINE p == <<x, y>>
             t == CHOOSE t \in 0 .. 23 : Walk[t] = p
             e == StepTo[5 * y + x + 1]
  <1>1. RhoOffset[p] = IF p = <<0, 0>> THEN 0 ELSE (((t + 1) * (t + 2)) \div 2) % 64
    <2> DEFINE F == [q \in Sheets |->
                       IF q = <<0, 0>> THEN 0
                       ELSE LET u == CHOOSE u \in 0 .. 23 : Walk[u] = q
                            IN  (((u + 1) * (u + 2)) \div 2) % 64]
    <2>1. RhoOffset = Computed(F)
      BY DEF RhoOffset
    <2>2. Computed(F) = F
      BY ComputedIs
    <2>3. p \in Sheets
      BY DEF Sheets
    <2>4. F[p] = IF p = <<0, 0>> THEN 0 ELSE (((t + 1) * (t + 2)) \div 2) % 64
      BY <2>3
    <2> HIDE DEF F, t
    <2> QED
      BY <2>1, <2>2, <2>4
  <1>2. CASE p = <<0, 0>>
    BY <1>1, <1>2 DEF Offset
  <1>3. CASE p # <<0, 0>>
    <2>1. e \in 0 .. 23 /\ Path[e + 1] = p
      BY <1>3, StepReaches
    <2>2. Walk[e] = p
      BY <2>1, WalkIs
    <2>3. t \in 0 .. 23 /\ Walk[t] = p
      BY <2>1, <2>2
    <2> HIDE DEF t
    <2>4. Path[t + 1] = p
      BY <2>3, WalkIs
    <2>5. t = e
      BY <2>3, <2>4, StepToIs
    <2> QED
      BY <1>1, <1>3, <2>5 DEF Offset
  <1> QED
    BY <1>2, <1>3

\* The tables of the code: which lane comes to a place, and how far it is rotated.
LEMMA RowsAre ==
  /\ RowsEA = RowsAE
  /\ \A x, y \in Columns :
       /\ RowsAE[y + 1][x + 1][1] = 5 * x + ((x + 3 * y) % 5)
       /\ RowsAE[y + 1][x + 1][2] = Offset((x + 3 * y) % 5, x)
       /\ RowsAE[y + 1][x + 1][2] \in 0 .. 63
  <1>1. RowsEA = RowsAE
    BY DEF RowsEA, RowsAE
  <1>2. \A x, y \in Columns : RowsAE[y + 1][x + 1][1] = 5 * x + ((x + 3 * y) % 5)
    BY SMTT(60) DEF RowsAE, Columns
  <1>3. \A x, y \in Columns :
          RowsAE[y + 1][x + 1][2] = Offset((x + 3 * y) % 5, x) /\ RowsAE[y + 1][x + 1][2] \in 0 .. 63
    BY SMTT(60) DEF RowsAE, Columns, Offset, StepTo
  <1> QED
    BY <1>1, <1>2, <1>3
\* The bits that leave the register, seven for each round and eight more.
Sent == <<
    1, 0, 0, 0, 0, 0, 0, 0, 1, 0, 1, 1, 0, 0, 0, 1, 1, 1, 1, 0, 1, 0, 0, 0, 0, 1, 1, 1,
    1, 1, 1, 1, 1, 0, 0, 1, 0, 0, 0, 0, 1, 0, 1, 0, 0, 1, 1, 1, 1, 1, 0, 1, 0, 1, 0, 1,
    0, 1, 1, 1, 0, 0, 0, 0, 0, 1, 1, 0, 0, 0, 1, 0, 1, 0, 1, 1, 0, 0, 1, 1, 0, 0, 1, 0,
    1, 1, 1, 1, 1, 1, 0, 1, 1, 1, 1, 0, 0, 1, 1, 0, 1, 1, 1, 0, 1, 1, 1, 0, 0, 1, 0, 1,
    0, 1, 0, 0, 1, 0, 1, 0, 0, 0, 1, 0, 0, 1, 0, 1, 1, 0, 1, 0, 0, 0, 1, 1, 0, 0, 1, 1,
    1, 0, 0, 1, 1, 1, 1, 0, 0, 0, 1, 1, 0, 1, 1, 0, 0, 0, 0, 1, 0, 0, 0, 1, 0, 1, 1, 1,
    0, 1, 0, 1, 1, 1, 1, 0 >>

Bit(t) == Sent[t + 1] = 1

\* They determine what is in it,
Content(t) ==
  {k \in 0 .. 7 :
     \/ k = 0 /\ Bit(t)
     \/ k = 1 /\ Differ(Differ(Bit(t + 7), Bit(t + 5)), Differ(Bit(t + 4), Bit(t + 3)))
     \/ k = 2 /\ Differ(Differ(Bit(t + 6), Bit(t + 4)), Differ(Bit(t + 3), Bit(t + 2)))
     \/ k = 3 /\ Differ(Differ(Bit(t + 5), Bit(t + 3)), Differ(Bit(t + 2), Bit(t + 1)))
     \/ k = 4 /\ Differ(Differ(Bit(t + 4), Bit(t + 2)), Bit(t + 1))
     \/ k = 5 /\ Differ(Bit(t + 3), Bit(t + 1))
     \/ k = 6 /\ Bit(t + 2)
     \/ k = 7 /\ Bit(t + 1)}

\* because each of them is the sum of four later ones.
LEMMA SentAgain ==
  \A t \in 0 .. 167 :
    Bit(t) <=> Differ(Differ(Bit(t + 8), Bit(t + 6)), Differ(Bit(t + 5), Bit(t + 4)))
  <1>1. \A t \in 1 .. 168 : Sent[t] = (Sent[t + 8] + Sent[t + 6] + Sent[t + 5] + Sent[t + 4]) % 2
    BY SMTT(60) DEF Sent
  <1>2. \A t \in 1 .. 176 : Sent[t] = 0 \/ Sent[t] = 1
    BY SMTT(60) DEF Sent
  <1> SUFFICES ASSUME NEW t \in 0 .. 167
               PROVE  Bit(t) <=> Differ(Differ(Bit(t + 8), Bit(t + 6)), Differ(Bit(t + 5), Bit(t + 4)))
    OBVIOUS
  <1> DEFINE n == t + 1
  <1>3. n \in 1 .. 168 /\ n + 8 \in 1 .. 176 /\ n + 6 \in 1 .. 176 /\ n + 5 \in 1 .. 176 /\ n + 4 \in 1 .. 176
    OBVIOUS
  <1>4. n + 8 = (t + 8) + 1 /\ n + 6 = (t + 6) + 1 /\ n + 5 = (t + 5) + 1 /\ n + 4 = (t + 4) + 1
    OBVIOUS
  <1> HIDE DEF n
  <1>5. Sent[n] = (Sent[n + 8] + Sent[n + 6] + Sent[n + 5] + Sent[n + 4]) % 2
    BY <1>1, <1>3
  <1> DEFINE a == Sent[n + 8]
             b == Sent[n + 6]
             c == Sent[n + 5]
             d == Sent[n + 4]
             e == Sent[n]
  <1>6. /\ a = 0 \/ a = 1
        /\ b = 0 \/ b = 1
        /\ c = 0 \/ c = 1
        /\ d = 0 \/ d = 1
        /\ e = (a + b + c + d) % 2
    BY <1>2, <1>3, <1>5
  <1>7. Bit(t + 8) = (a = 1) /\ Bit(t + 6) = (b = 1) /\ Bit(t + 5) = (c = 1) /\ Bit(t + 4) = (d = 1)
        /\ Bit(t) = (e = 1)
    BY <1>4 DEF Bit, n
  <1> HIDE DEF a, b, c, d, e
  <1>8. (e = 1) <=> Differ(Differ(a = 1, b = 1), Differ(c = 1, d = 1))
    BY <1>6 DEF Differ
  <1> QED
    BY <1>7, <1>8

\* One step of the register, bit by bit.
LEMMA ShiftedBit ==
  ASSUME NEW R \in SUBSET (0 .. 7)
  PROVE  /\ Shifted(R) \in SUBSET (0 .. 7)
         /\ 0 \in Shifted(R) <=> 7 \in R
         /\ \A k \in {1, 2, 3, 7} : k \in Shifted(R) <=> k - 1 \in R
         /\ \A k \in {4, 5, 6} : k \in Shifted(R) <=> Differ(k - 1 \in R, 7 \in R)
  <1> DEFINE up == {i + 1 : i \in R}
  <1>1. \A k \in 0 .. 8 : k \in up <=> k - 1 \in R
    OBVIOUS
  <1>2. up \in SUBSET (0 .. 8)
    OBVIOUS
  <1>3. 0 \notin up
    BY <1>1
  <1>4. 8 \in up <=> 7 \in R
    BY <1>1
  <1>5. Shifted(R) = IF 8 \in up THEN Xor64(up \ {8}, {0, 4, 5, 6}) ELSE up
    BY DEF Shifted
  <1> HIDE DEF up
  <1>6. CASE 7 \in R
    <2>1. Shifted(R) = Xor64(up \ {8}, {0, 4, 5, 6})
      BY <1>4, <1>5, <1>6
    <2>2. \A k : k \in Shifted(R) <=> Differ(k \in up /\ k # 8, k \in {0, 4, 5, 6})
      BY <2>1, XorBit
    <2>3. ASSUME NEW k \in Shifted(R) PROVE k \in 0 .. 7
      <3>1. (k \in up /\ k # 8) \/ k \in {0, 4, 5, 6}
        BY <2>2 DEF Differ
      <3>2. \A i \in up : i \in 0 .. 8
        BY <1>2
      <3> QED
        BY <3>1, <3>2
    <2>4. 0 \in Shifted(R)
      BY <1>3, <2>2 DEF Differ
    <2>5. ASSUME NEW k \in {1, 2, 3, 7} PROVE k \in Shifted(R) <=> k - 1 \in R
      <3>1. k \in Shifted(R) <=> k \in up
        BY <2>2 DEF Differ
      <3> QED
        BY <1>1, <3>1
    <2>6. ASSUME NEW k \in {4, 5, 6} PROVE k \in Shifted(R) <=> Differ(k - 1 \in R, 7 \in R)
      <3>1. k \in Shifted(R) <=> ~(k \in up)
        BY <2>2 DEF Differ
      <3> QED
        BY <1>1, <1>6, <3>1 DEF Differ
    <2> QED
      BY <1>6, <2>3, <2>4, <2>5, <2>6
  <1>7. CASE 7 \notin R
    <2>1. Shifted(R) = up
      BY <1>4, <1>5, <1>7
    <2>2. up \in SUBSET (0 .. 7)
      BY <1>2, <1>4, <1>7
    <2> QED
      BY <1>1, <1>3, <1>7, <2>1, <2>2 DEF Differ
  <1> QED
    BY <1>6, <1>7

\* What is in the register moves on as the bits do.
LEMMA ContentMoves ==
  ASSUME NEW t \in 0 .. 166
  PROVE  Shifted(Content(t)) = Content(t + 1)
  <1> DEFINE R == Content(t)
             Q == Content(t + 1)
  <1>1. R \in SUBSET (0 .. 7) /\ Q \in SUBSET (0 .. 7)
    BY DEF Content
  <1>2. /\ 0 \in R <=> Bit(t)
        /\ 1 \in R <=> Differ(Differ(Bit(t + 7), Bit(t + 5)), Differ(Bit(t + 4), Bit(t + 3)))
        /\ 2 \in R <=> Differ(Differ(Bit(t + 6), Bit(t + 4)), Differ(Bit(t + 3), Bit(t + 2)))
        /\ 3 \in R <=> Differ(Differ(Bit(t + 5), Bit(t + 3)), Differ(Bit(t + 2), Bit(t + 1)))
        /\ 4 \in R <=> Differ(Differ(Bit(t + 4), Bit(t + 2)), Bit(t + 1))
        /\ 5 \in R <=> Differ(Bit(t + 3), Bit(t + 1))
        /\ 6 \in R <=> Bit(t + 2)
        /\ 7 \in R <=> Bit(t + 1)
    BY DEF Content
  <1>3. /\ 0 \in Q <=> Bit(t + 1)
        /\ 1 \in Q <=> Differ(Differ(Bit(t + 8), Bit(t + 6)), Differ(Bit(t + 5), Bit(t + 4)))
        /\ 2 \in Q <=> Differ(Differ(Bit(t + 7), Bit(t + 5)), Differ(Bit(t + 4), Bit(t + 3)))
        /\ 3 \in Q <=> Differ(Differ(Bit(t + 6), Bit(t + 4)), Differ(Bit(t + 3), Bit(t + 2)))
        /\ 4 \in Q <=> Differ(Differ(Bit(t + 5), Bit(t + 3)), Bit(t + 2))
        /\ 5 \in Q <=> Differ(Bit(t + 4), Bit(t + 2))
        /\ 6 \in Q <=> Bit(t + 3)
        /\ 7 \in Q <=> Bit(t + 2)
    <2>1. /\ (t + 1) + 1 = t + 2 /\ (t + 1) + 2 = t + 3 /\ (t + 1) + 3 = t + 4 /\ (t + 1) + 4 = t + 5
          /\ (t + 1) + 5 = t + 6 /\ (t + 1) + 6 = t + 7 /\ (t + 1) + 7 = t + 8
      OBVIOUS
    <2> QED
      BY <2>1 DEF Content
  <1>4. Bit(t) <=> Differ(Differ(Bit(t + 8), Bit(t + 6)), Differ(Bit(t + 5), Bit(t + 4)))
    BY SentAgain
  <1> HIDE DEF R, Q
  <1>5. ASSUME NEW k \in 0 .. 7 PROVE k \in Shifted(R) <=> k \in Q
    <2>1. k = 0 \/ k = 1 \/ k = 2 \/ k = 3 \/ k = 4 \/ k = 5 \/ k = 6 \/ k = 7
      OBVIOUS
    <2>2. /\ 0 \in Shifted(R) <=> 7 \in R
          /\ 1 \in Shifted(R) <=> 0 \in R
          /\ 2 \in Shifted(R) <=> 1 \in R
          /\ 3 \in Shifted(R) <=> 2 \in R
          /\ 4 \in Shifted(R) <=> Differ(3 \in R, 7 \in R)
          /\ 5 \in Shifted(R) <=> Differ(4 \in R, 7 \in R)
          /\ 6 \in Shifted(R) <=> Differ(5 \in R, 7 \in R)
          /\ 7 \in Shifted(R) <=> 6 \in R
      BY <1>1, ShiftedBit
    <2> QED
      BY <1>2, <1>3, <1>4, <2>1, <2>2 DEF Differ
  <1>6. Shifted(R) \in SUBSET (0 .. 7)
    BY <1>1, ShiftedBit
  <1>7. Shifted(R) = Q
    BY <1>1, <1>5, <1>6
  <1> QED
    BY <1>7 DEF R, Q

\* Seven of them.
LEMMA SevenStepsAre ==
  ASSUME NEW t \in 0 .. 161
  PROVE  /\ \A j \in 0 .. 6 : SevenSteps(Content(t))[j + 1] = Content(t + j)
         /\ t <= 160 => SevenSteps(Content(t))[8] = Content(t + 7)
  <1> DEFINE r1 == Shifted(Content(t))
             r2 == Shifted(r1)
             r3 == Shifted(r2)
             r4 == Shifted(r3)
             r5 == Shifted(r4)
             r6 == Shifted(r5)
             r7 == Shifted(r6)
  <1>1. SevenSteps(Content(t)) = <<Content(t), r1, r2, r3, r4, r5, r6, r7>>
    BY DEF SevenSteps
  <1>2. /\ t \in 0 .. 166 /\ t + 1 \in 0 .. 166 /\ t + 2 \in 0 .. 166 /\ t + 3 \in 0 .. 166
        /\ t + 4 \in 0 .. 166 /\ t + 5 \in 0 .. 166 /\ (t <= 160 => t + 6 \in 0 .. 166)
        /\ (t + 1) + 1 = t + 2 /\ (t + 2) + 1 = t + 3 /\ (t + 3) + 1 = t + 4
        /\ (t + 4) + 1 = t + 5 /\ (t + 5) + 1 = t + 6 /\ (t + 6) + 1 = t + 7 /\ t + 0 = t
    OBVIOUS
  <1>3. r1 = Content(t + 1)
    BY <1>2, ContentMoves
  <1> HIDE DEF r1
  <1>4. r2 = Content(t + 2)
    BY <1>2, <1>3, ContentMoves
  <1> HIDE DEF r2
  <1>5. r3 = Content(t + 3)
    BY <1>2, <1>4, ContentMoves
  <1> HIDE DEF r3
  <1>6. r4 = Content(t + 4)
    BY <1>2, <1>5, ContentMoves
  <1> HIDE DEF r4
  <1>7. r5 = Content(t + 5)
    BY <1>2, <1>6, ContentMoves
  <1> HIDE DEF r5
  <1>8. r6 = Content(t + 6)
    BY <1>2, <1>7, ContentMoves
  <1> HIDE DEF r6
  <1>9. t <= 160 => r7 = Content(t + 7)
    BY <1>2, <1>8, ContentMoves
  <1> HIDE DEF r7
  <1>10. \A j \in 0 .. 6 : j = 0 \/ j = 1 \/ j = 2 \/ j = 3 \/ j = 4 \/ j = 5 \/ j = 6
    OBVIOUS
  <1>11. Content(t + 0) = Content(t)
    BY <1>2
  <1> QED
    BY <1>1, <1>3, <1>4, <1>5, <1>6, <1>7, <1>8, <1>9, <1>10, <1>11

\* The register is what its recursion says.
LEMMA RegisterIs == \A n \in 0 .. 23 : Register[n] = Content(7 * n)
  <1> DEFINE Up(r) == SevenSteps(r)[8]
             F(v) == [n \in 0 .. NROUNDS - 1 |-> IF n = 0 THEN {0} ELSE Value({SevenSteps(r)[8] : r \in {v[n - 1]}})]
             B(v) == [n \in 0 .. 23 |-> IF n = 0 THEN {0} ELSE Up(v[n - 1])]
             W == [n \in 0 .. 23 |-> Content(7 * n)]
             P == CHOOSE v : v = F(v)
  <1>0. \A v : F(v) = B(v)
    <2>1. 0 .. NROUNDS - 1 = 0 .. 23
      BY DEF NROUNDS
    <2>2. \A r : Value({SevenSteps(x)[8] : x \in {r}}) = Up(r)
      BY DEF Value
    <2> HIDE DEF Up
    <2> QED
      BY <2>1, <2>2
  <1>1. Content(7 * 0) = {0}
    <2>1. /\ Bit(0) /\ ~Bit(0 + 1) /\ ~Bit(0 + 2) /\ ~Bit(0 + 3) /\ ~Bit(0 + 4)
          /\ ~Bit(0 + 5) /\ ~Bit(0 + 6) /\ ~Bit(0 + 7)
      BY DEF Bit, Sent
    <2> QED
      BY <2>1 DEF Content, Differ
  <1>2. \A n \in 0 .. 22 : Content(7 * (n + 1)) = Up(Content(7 * n))
    <2> SUFFICES ASSUME NEW n \in 0 .. 22 PROVE Content(7 * (n + 1)) = Up(Content(7 * n))
      OBVIOUS
    <2>1. 7 * n \in 0 .. 161 /\ 7 * n <= 160 /\ 7 * n + 7 = 7 * (n + 1)
      OBVIOUS
    <2> DEFINE t == 7 * n
    <2> HIDE DEF t
    <2>2. t \in 0 .. 161 /\ t <= 160
      BY <2>1 DEF t
    <2>3. Up(Content(t)) = Content(t + 7)
      BY <2>2, SevenStepsAre
    <2> QED
      BY <2>1, <2>3 DEF t
  <1> HIDE DEF Up
  <1>3. W = B(W)
    <2>1. ASSUME NEW n \in 0 .. 23
          PROVE  Content(7 * n) = IF n = 0 THEN {0} ELSE Up(W[n - 1])
      <3>1. CASE n = 0
        BY <1>1, <3>1
      <3>2. CASE n # 0
        <4>1. n - 1 \in 0 .. 22 /\ (n - 1) + 1 = n
          BY <3>2
        <4>2. W[n - 1] = Content(7 * (n - 1))
          BY <4>1
        <4>3. Content(7 * ((n - 1) + 1)) = Up(Content(7 * (n - 1)))
          BY <1>2, <4>1
        <4> HIDE DEF W
        <4> QED
          BY <3>2, <4>1, <4>2, <4>3
      <3> QED
        BY <3>1, <3>2
    <2> QED
      BY <2>1
  <1> HIDE DEF F
  <1>4. P = B(P)
    <2> HIDE DEF B, W
    <2>1. W = F(W)
      BY <1>0, <1>3
    <2>2. P = F(P)
      BY <2>1
    <2> QED
      BY <1>0, <2>2
  <1>5. Register = P
    BY DEF Register, F
  <1> HIDE DEF P, W
  <1>6. P[0] = {0} /\ \A n \in 1 .. 23 : P[n] = Up(P[n - 1])
    BY <1>4
  <1> HIDE DEF B
  <1> DEFINE X == {n \in Nat : n <= 23 => P[n] = Content(7 * n)}
  <1>7. X \in SUBSET Nat /\ 0 \in X
    BY <1>1, <1>6
  <1>8. ASSUME NEW n \in X PROVE n + 1 \in X
    <2> SUFFICES ASSUME n + 1 <= 23 PROVE P[n + 1] = Content(7 * (n + 1))
      OBVIOUS
    <2>1. n + 1 \in 1 .. 23 /\ n \in 0 .. 22 /\ (n + 1) - 1 = n /\ P[n] = Content(7 * n)
      OBVIOUS
    <2>2. P[n + 1] = Up(Content(7 * n))
      BY <1>6, <2>1
    <2> QED
      BY <1>2, <2>1, <2>2
  <1> HIDE DEF X
  <1>9. \A n \in Nat : n \in X
    BY <1>7, <1>8, Induction
  <1> QED
    BY <1>5, <1>9 DEF X

\* The constants of the rounds are those that the code lists.
LEMMA ConstantsAre == \A n \in 0 .. 23 : RoundConstant[n] = KeccakF_RoundConstants[n + 1]
  <1> SUFFICES ASSUME NEW n \in 0 .. 23 PROVE RoundConstant[n] = KeccakF_RoundConstants[n + 1]
    OBVIOUS
  <1> DEFINE C == [m \in 0 .. NROUNDS - 1 |-> {2 ^ j - 1 : j \in {j \in 0 .. 6 : 0 \in SevenSteps(Register[m])[j + 1]}}]
  <1>1. RoundConstant[n] = {2 ^ j - 1 : j \in {j \in 0 .. 6 : 0 \in SevenSteps(Register[n])[j + 1]}}
    <2>1. RoundConstant = Computed(C) /\ Computed(C) = C
      BY ComputedIs DEF RoundConstant
    <2>2. C[n] = {2 ^ j - 1 : j \in {j \in 0 .. 6 : 0 \in SevenSteps(Register[n])[j + 1]}}
      BY DEF NROUNDS
    <2> HIDE DEF C
    <2> QED
      BY <2>1, <2>2
  <1>2. ASSUME NEW j \in 0 .. 6 PROVE 0 \in SevenSteps(Register[n])[j + 1] <=> Bit(7 * n + j)
    <2> DEFINE t == 7 * n
    <2>1. t \in 0 .. 161 /\ t + j \in Nat
      OBVIOUS
    <2>2. Register[n] = Content(t)
      BY RegisterIs
    <2> HIDE DEF t
    <2>3. SevenSteps(Content(t))[j + 1] = Content(t + j)
      BY <2>1, SevenStepsAre
    <2>4. 0 \in Content(t + j) <=> Bit(t + j)
      BY <2>1 DEF Content
    <2> QED
      BY <2>2, <2>3, <2>4 DEF t
  <1>3. \A z : z \in RoundConstant[n] <=> \/ z = 0 /\ Bit(7 * n)
                                          \/ z = 1 /\ Bit(7 * n + 1)
                                          \/ z = 3 /\ Bit(7 * n + 2)
                                          \/ z = 7 /\ Bit(7 * n + 3)
                                          \/ z = 15 /\ Bit(7 * n + 4)
                                          \/ z = 31 /\ Bit(7 * n + 5)
                                          \/ z = 63 /\ Bit(7 * n + 6)
    <2>1. 2 ^ 0 - 1 = 0 /\ 2 ^ 1 - 1 = 1 /\ 2 ^ 2 - 1 = 3 /\ 2 ^ 3 - 1 = 7 /\ 2 ^ 4 - 1 = 15
          /\ 2 ^ 5 - 1 = 31 /\ 2 ^ 6 - 1 = 63
      OBVIOUS
    <2>2. \A z : z \in RoundConstant[n] <=> \E j \in 0 .. 6 : z = 2 ^ j - 1 /\ Bit(7 * n + j)
      BY <1>1, <1>2
    <2>3. \A j \in 0 .. 6 : j = 0 \/ j = 1 \/ j = 2 \/ j = 3 \/ j = 4 \/ j = 5 \/ j = 6
      OBVIOUS
    <2>4. 7 * n + 0 = 7 * n
      OBVIOUS
    <2> QED
      BY <2>1, <2>2, <2>3, <2>4
  <1>4. \A m \in 1 .. 24 : KeccakF_RoundConstants[m] \in SUBSET {0, 1, 3, 7, 15, 31, 63}
    BY SMTT(60) DEF KeccakF_RoundConstants
  <1>5. 0 \in KeccakF_RoundConstants[n + 1] <=> Bit(7 * n)
    BY SMTT(60) DEF KeccakF_RoundConstants, Bit, Sent
  <1>6. 1 \in KeccakF_RoundConstants[n + 1] <=> Bit(7 * n + 1)
    BY SMTT(60) DEF KeccakF_RoundConstants, Bit, Sent
  <1>7. 3 \in KeccakF_RoundConstants[n + 1] <=> Bit(7 * n + 2)
    BY SMTT(60) DEF KeccakF_RoundConstants, Bit, Sent
  <1>8. 7 \in KeccakF_RoundConstants[n + 1] <=> Bit(7 * n + 3)
    BY SMTT(60) DEF KeccakF_RoundConstants, Bit, Sent
  <1>9. 15 \in KeccakF_RoundConstants[n + 1] <=> Bit(7 * n + 4)
    BY SMTT(60) DEF KeccakF_RoundConstants, Bit, Sent
  <1>10. 31 \in KeccakF_RoundConstants[n + 1] <=> Bit(7 * n + 5)
    BY SMTT(60) DEF KeccakF_RoundConstants, Bit, Sent
  <1>11. 63 \in KeccakF_RoundConstants[n + 1] <=> Bit(7 * n + 6)
    BY SMTT(60) DEF KeccakF_RoundConstants, Bit, Sent
  <1>12. \A z : z \in RoundConstant[n] <=> z \in KeccakF_RoundConstants[n + 1]
    BY <1>3, <1>4, <1>5, <1>6, <1>7, <1>8, <1>9, <1>10, <1>11
  <1> QED
    BY <1>12

----------------------------------------------------------------------------
(* A round.                                                                 *)

\* The lanes of the code at the coordinates of the standard.
Laid(a) == [p \in Sheets |-> a[5 * p[2] + p[1]]]

\* Numbers and coordinates of lanes.
LEMMA LaidIs ==
  /\ \A x, y \in Columns : /\ <<x, y>> \in Sheets /\ 5 * y + x \in 0 .. 24
                           /\ (5 * y + x) \div 5 = y /\ (5 * y + x) % 5 = x
  /\ \A p \in Sheets : p[1] \in Columns /\ p[2] \in Columns /\ p = <<p[1], p[2]>>
  /\ \A a : \A x, y \in Columns : Laid(a)[<<x, y>>] = a[5 * y + x]
  /\ \A a, b : (\A x, y \in Columns : a[<<x, y>>] = b[<<x, y>>])
              => [p \in Sheets |-> a[p]] = [p \in Sheets |-> b[p]]
  <1>1. \A x, y \in Columns : /\ 5 * y + x \in 0 .. 24
                             /\ (5 * y + x) \div 5 = y /\ (5 * y + x) % 5 = x
    BY DEF Columns
  <1>2. \A p \in Sheets : p[1] \in Columns /\ p[2] \in Columns /\ p = <<p[1], p[2]>>
    BY DEF Sheets
  <1>3. \A x, y \in Columns : <<x, y>> \in Sheets /\ <<x, y>>[1] = x /\ <<x, y>>[2] = y
    BY DEF Sheets
  <1>4. \A a : \A x, y \in Columns : Laid(a)[<<x, y>>] = a[5 * y + x]
    BY <1>3 DEF Laid
  <1>5. ASSUME NEW a, NEW b, \A x, y \in Columns : a[<<x, y>>] = b[<<x, y>>]
        PROVE  [p \in Sheets |-> a[p]] = [p \in Sheets |-> b[p]]
    <2>1. \A p \in Sheets : a[p] = b[p]
      BY <1>2, <1>5
    <2> QED
      BY <2>1
  <1> QED
    BY <1>1, <1>2, <1>3, <1>4, <1>5

\* prepareTheta takes the parity of the columns.
LEMMA ColumnsAre ==
  ASSUME NEW a \in Lanes
  PROVE  /\ prepareTheta(a) \in [0 .. 4 -> Lane]
         /\ \A x \in Columns : \A z :
              z \in prepareTheta(a)[x]
              <=> Differ(Differ(Differ(z \in a[x], z \in a[x + 5]), Differ(z \in a[x + 10], z \in a[x + 15])),
                         z \in a[x + 20])
  <1> DEFINE V(x) == Xor64(Xor64(Xor64(a[x], a[x + 5]), Xor64(a[x + 10], a[x + 15])), a[x + 20])
             C == [x \in 0 .. 4 |-> V(x)]
  <1>1. prepareTheta(a) = C
    <2>1. prepareTheta(a) = Computed(C)
      BY DEF prepareTheta
    <2> HIDE DEF C
    <2> QED
      BY <2>1, ComputedIs
  <1>2. ASSUME NEW x \in 0 .. 4 PROVE V(x) \in Lane
    <2>1. a[x] \in Lane /\ a[x + 5] \in Lane /\ a[x + 10] \in Lane /\ a[x + 15] \in Lane /\ a[x + 20] \in Lane
      <3>1. x \in 0 .. 24 /\ x + 5 \in 0 .. 24 /\ x + 10 \in 0 .. 24 /\ x + 15 \in 0 .. 24 /\ x + 20 \in 0 .. 24
        OBVIOUS
      <3> QED
        BY <3>1 DEF Lanes
    <2>2. Xor64(a[x], a[x + 5]) \in Lane /\ Xor64(a[x + 10], a[x + 15]) \in Lane
      BY <2>1, XorBit
    <2>3. Xor64(Xor64(a[x], a[x + 5]), Xor64(a[x + 10], a[x + 15])) \in Lane
      BY <2>2, XorBit
    <2> QED
      BY <2>1, <2>3, XorBit
  <1>3. ASSUME NEW x \in Columns, NEW z
        PROVE  z \in V(x)
               <=> Differ(Differ(Differ(z \in a[x], z \in a[x + 5]), Differ(z \in a[x + 10], z \in a[x + 15])),
                          z \in a[x + 20])
    BY XorBit DEF Differ
  <1> HIDE DEF V
  <1> QED
    BY <1>1, <1>2, <1>3 DEF Columns

\* ThetaEffect adds two neighbours, one of them rotated.
LEMMA EffectIs ==
  ASSUME NEW c \in [0 .. 4 -> Lane]
  PROVE  /\ ThetaEffect(c) \in [0 .. 4 -> Lane]
         /\ \A x \in Columns : \A z \in 0 .. 63 :
              z \in ThetaEffect(c)[x] <=> Differ(z \in c[(x + 4) % 5], (z + 63) % 64 \in c[(x + 1) % 5])
  <1> DEFINE V(x) == Xor64(c[(x + 4) % 5], ROL(c[(x + 1) % 5], 1))
             E == [x \in 0 .. 4 |-> V(x)]
  <1>1. ThetaEffect(c) = E
    <2>1. ThetaEffect(c) = Computed(E)
      BY DEF ThetaEffect
    <2> HIDE DEF E
    <2> QED
      BY <2>1, ComputedIs
  <1>2. ASSUME NEW x \in Columns
        PROVE  /\ V(x) \in Lane
               /\ \A z \in 0 .. 63 : z \in V(x) <=> Differ(z \in c[(x + 4) % 5], (z + 63) % 64 \in c[(x + 1) % 5])
    <2>1. (x + 4) % 5 \in 0 .. 4 /\ (x + 1) % 5 \in 0 .. 4
      BY DEF Columns
    <2>2. c[(x + 4) % 5] \in Lane /\ c[(x + 1) % 5] \in Lane
      BY <2>1
    <2> DEFINE u == c[(x + 1) % 5]
    <2>3. ROL(u, 1) \in Lane /\ \A z \in 0 .. 63 : z \in ROL(u, 1) <=> (z + 63) % 64 \in u
      <3> HIDE DEF u
      <3>1. u \in Lane /\ 1 \in 0 .. 63 /\ \A z \in 0 .. 63 : z + 64 - 1 = z + 63
        BY <2>2 DEF u
      <3> QED
        BY <3>1, RotatedBit
    <2> DEFINE w == c[(x + 4) % 5]
               v == ROL(u, 1)
    <2>4. V(x) = Xor64(w, v) /\ w \in Lane
      BY <2>2
    <2> HIDE DEF V, w, v, u
    <2>5. V(x) \in Lane
      BY <2>3, <2>4, XorBit DEF v
    <2>6. \A z : z \in V(x) <=> Differ(z \in w, z \in v)
      BY <2>4, XorBit
    <2>7. \A z \in 0 .. 63 : z \in V(x) <=> Differ(z \in w, (z + 63) % 64 \in u)
      BY <2>3, <2>6 DEF Differ, v
    <2> QED
      BY <2>5, <2>7 DEF w, u
  <1> HIDE DEF V
  <1> QED
    BY <1>1, <1>2 DEF Columns

\* The five rows take each lane of the state after theta, rotated, to its place.
LEMMA RotatedIs ==
  ASSUME NEW a \in Lanes, NEW d \in [0 .. 4 -> Lane]
  PROVE  /\ RotatedRows(a, d, RowsAE) \in Lanes
         /\ \A x, y \in Columns :
              RotatedRows(a, d, RowsAE)[5 * y + x]
              = ROL(Xor64(a[5 * x + ((x + 3 * y) % 5)], d[(x + 3 * y) % 5]), RhoOffset[<<(x + 3 * y) % 5, x>>])
  <1> DEFINE from(n) == RowsAE[(n \div 5) + 1][(n % 5) + 1]
             V(n) == ROL(Xor64(a[from(n)[1]], d[from(n)[1] % 5]), from(n)[2])
             M == [n \in 0 .. 24 |-> V(n)]
  <1>1. RotatedRows(a, d, RowsAE) = M
    <2>1. RotatedRows(a, d, RowsAE) = Computed(M)
      BY DEF RotatedRows
    <2> HIDE DEF M
    <2> QED
      BY <2>1, ComputedIs
  <1>2. ASSUME NEW x \in Columns, NEW y \in Columns
        PROVE  /\ V(5 * y + x) = ROL(Xor64(a[5 * x + ((x + 3 * y) % 5)], d[(x + 3 * y) % 5]),
                                    RhoOffset[<<(x + 3 * y) % 5, x>>])
               /\ V(5 * y + x) \in Lane
    <2> DEFINE k == (x + 3 * y) % 5
               f == from(5 * y + x)
    <2>1. f = RowsAE[y + 1][x + 1]
      BY LaidIs
    <2>2. k \in Columns /\ k \in 0 .. 4
      BY DEF Columns
    <2>3. f[1] = 5 * x + k /\ f[2] = Offset(k, x) /\ f[2] \in 0 .. 63
      BY <2>1, RowsAre
    <2>4. V(5 * y + x) = ROL(Xor64(a[f[1]], d[f[1] % 5]), f[2])
      OBVIOUS
    <2> HIDE DEF f, k, V
    <2>5. f[1] \in 0 .. 24 /\ f[1] % 5 = k /\ 5 * x + k = f[1]
      BY <2>2, <2>3, LaidIs
    <2>6. f[2] = RhoOffset[<<k, x>>]
      BY <2>2, <2>3, OffsetIs
    <2>7. Xor64(a[f[1]], d[k]) \in Lane
      <3>1. a[f[1]] \in Lane /\ d[k] \in Lane
        BY <2>2, <2>5 DEF Lanes
      <3> QED
        BY <3>1, XorBit
    <2>8. ROL(Xor64(a[f[1]], d[k]), f[2]) \in Lane
      BY <2>3, <2>7, RotatedBit
    <2>9. V(5 * y + x) = ROL(Xor64(a[5 * x + k], d[k]), RhoOffset[<<k, x>>])
      BY <2>4, <2>5, <2>6
    <2> QED
      BY <2>4, <2>5, <2>8, <2>9 DEF k
  <1> HIDE DEF V
  <1>3. ASSUME NEW n \in 0 .. 24 PROVE V(n) \in Lane
    <2>1. n % 5 \in Columns /\ n \div 5 \in Columns /\ n = 5 * (n \div 5) + (n % 5)
      BY DEF Columns
    <2> QED
      BY <1>2, <2>1
  <1>4. M \in Lanes
    BY <1>3 DEF Lanes
  <1>5. \A x, y \in Columns : M[5 * y + x] = V(5 * y + x)
    BY LaidIs
  <1> HIDE DEF M
  <1> QED
    BY <1>1, <1>2, <1>4, <1>5

\* Each lane is combined with the two after it in its row, the first with the constant.
LEMMA CombinedIs ==
  ASSUME NEW b \in Lanes, NEW r \in Lane
  PROVE  /\ Combined(b, r) \in Lanes
         /\ \A x, y \in Columns : \A z :
              z \in Combined(b, r)[5 * y + x]
              <=> Differ(Differ(z \in b[5 * y + x], /\ z \notin b[5 * y + ((x + 1) % 5)]
                                                  /\ z \in b[5 * y + ((x + 2) % 5)]),
                         x = 0 /\ y = 0 /\ z \in r)
  <1> DEFINE C(n) == Xor64(b[n], b[5 * (n \div 5) + ((n + 2) % 5)] \ b[5 * (n \div 5) + ((n + 1) % 5)])
             V(n) == IF n = 0 THEN Xor64(C(0), r) ELSE C(n)
             M == [n \in 0 .. 24 |-> V(n)]
  <1>1. Combined(b, r) = M
    <2>1. Combined(b, r) = Computed(M)
      BY DEF Combined
    <2> HIDE DEF M
    <2> QED
      BY <2>1, ComputedIs
  <1>2. ASSUME NEW x \in Columns, NEW y \in Columns
        PROVE  /\ C(5 * y + x) \in Lane
               /\ \A z : z \in C(5 * y + x) <=> Differ(z \in b[5 * y + x], /\ z \notin b[5 * y + ((x + 1) % 5)]
                                                                       /\ z \in b[5 * y + ((x + 2) % 5)])
    <2> DEFINE n == 5 * y + x
               e == 5 * y + ((x + 1) % 5)
               f == 5 * y + ((x + 2) % 5)
    <2>1. n \in 0 .. 24 /\ e \in 0 .. 24 /\ f \in 0 .. 24
      BY DEF Columns
    <2>2. 5 * (n \div 5) + ((n + 2) % 5) = f /\ 5 * (n \div 5) + ((n + 1) % 5) = e
      BY DEF Columns
    <2>3. C(n) = Xor64(b[n], b[f] \ b[e])
      BY <2>2
    <2> HIDE DEF n, e, f, C
    <2>4. b[n] \in Lane /\ b[e] \in Lane /\ b[f] \in Lane
      BY <2>1 DEF Lanes
    <2>5. b[f] \ b[e] \in Lane
      BY <2>4, XorBit
    <2>6. C(n) \in Lane
      BY <2>3, <2>4, <2>5, XorBit
    <2>7. \A z : z \in C(n) <=> Differ(z \in b[n], z \notin b[e] /\ z \in b[f])
      BY <2>3, XorBit DEF Differ
    <2> QED
      BY <2>6, <2>7 DEF n, e, f
  <1> HIDE DEF C
  <1>3. ASSUME NEW x \in Columns, NEW y \in Columns
        PROVE  /\ V(5 * y + x) \in Lane
               /\ \A z : z \in V(5 * y + x) <=> Differ(z \in C(5 * y + x), x = 0 /\ y = 0 /\ z \in r)
    <2>1. CASE x = 0 /\ y = 0
      <3>1. 5 * y + x = 0
        BY <2>1
      <3>2. V(5 * y + x) = Xor64(C(5 * y + x), r)
        BY <3>1
      <3> HIDE DEF V
      <3>3. \A z : z \in V(5 * y + x) <=> Differ(z \in C(5 * y + x), z \in r)
        BY <3>2, XorBit
      <3>4. \A z : x = 0 /\ y = 0 /\ z \in r <=> z \in r
        BY <2>1
      <3>5. V(5 * y + x) \in Lane
        <4> DEFINE u == C(5 * y + x)
        <4>1. u \in Lane
          BY <1>2
        <4> HIDE DEF u
        <4>2. Xor64(u, r) \in Lane
          BY <4>1, XorBit
        <4> QED
          BY <3>2, <4>2 DEF u
      <3> QED
        BY <3>3, <3>4, <3>5 DEF Differ
    <2>2. CASE ~(x = 0 /\ y = 0)
      <3>1. 5 * y + x # 0
        BY <2>2 DEF Columns
      <3>2. V(5 * y + x) = C(5 * y + x)
        BY <3>1
      <3> HIDE DEF V
      <3> QED
        BY <1>2, <2>2, <3>2 DEF Differ
    <2> QED
      BY <2>1, <2>2
  <1> HIDE DEF V
  <1>4. ASSUME NEW n \in 0 .. 24 PROVE V(n) \in Lane
    <2>1. n % 5 \in Columns /\ n \div 5 \in Columns /\ n = 5 * (n \div 5) + (n % 5)
      BY DEF Columns
    <2> QED
      BY <1>3, <2>1
  <1>5. M \in Lanes
    BY <1>4 DEF Lanes
  <1>6. \A x, y \in Columns : M[5 * y + x] = V(5 * y + x)
    BY LaidIs
  <1> HIDE DEF M
  <1> QED
    BY <1>1, <1>2, <1>3, <1>5, <1>6 DEF Differ

\* theta, at the coordinates of the standard.
LEMMA ThetaIs ==
  ASSUME NEW a \in Lanes
  PROVE  \A x, y \in Columns :
           Theta(Laid(a))[<<x, y>>] = Xor64(a[5 * y + x], ThetaEffect(prepareTheta(a))[x])
  <1> DEFINE A == Laid(a)
             c == prepareTheta(a)
             d == ThetaEffect(c)
             Odd(x) == {z \in 0 .. 63 : Cardinality({y \in Columns : z \in A[<<x, y>>]}) % 2 = 1}
             f == [x \in Columns |-> Odd(x)]
             T(g) == [p \in Sheets |-> {z \in 0 .. 63 :
                        Differ(z \in A[p], Differ(z \in g[(p[1] + 4) % 5], (z + 63) % 64 \in g[(p[1] + 1) % 5]))}]
  <1>1. Theta(A) = T(f)
    <2>1. Theta(A) = Computed(T(Computed(f)))
      BY DEF Theta, LaneOf
    <2> HIDE DEF T, f
    <2> QED
      BY <2>1, ComputedIs
  <1>2. ASSUME NEW x \in Columns PROVE Odd(x) = c[x]
    <2>1. c[x] \in Lane
      BY ColumnsAre DEF Columns
    <2>2. ASSUME NEW z \in 0 .. 63
          PROVE  Cardinality({y \in Columns : z \in A[<<x, y>>]}) % 2 = 1 <=> z \in c[x]
      <3> DEFINE S == {y \in Columns : z \in A[<<x, y>>]}
      <3>1. \A y \in Columns : y \in S <=> z \in a[5 * y + x]
        BY LaidIs
      <3>2. S \in SUBSET Columns
        OBVIOUS
      <3> HIDE DEF S
      <3>3. /\ 0 \in S <=> z \in a[x]
            /\ 1 \in S <=> z \in a[x + 5]
            /\ 2 \in S <=> z \in a[x + 10]
            /\ 3 \in S <=> z \in a[x + 15]
            /\ 4 \in S <=> z \in a[x + 20]
        <4>1. /\ 5 * 0 + x = x /\ 5 * 1 + x = x + 5 /\ 5 * 2 + x = x + 10
              /\ 5 * 3 + x = x + 15 /\ 5 * 4 + x = x + 20
              /\ 0 \in Columns /\ 1 \in Columns /\ 2 \in Columns /\ 3 \in Columns /\ 4 \in Columns
          BY DEF Columns
        <4> QED
          BY <3>1, <4>1
      <3>4. (Cardinality(S) % 2 = 1)
            <=> Differ(Differ(Differ(0 \in S, 1 \in S), Differ(2 \in S, 3 \in S)), 4 \in S)
        BY <3>2, ParityIs
      <3>5. z \in c[x] <=> Differ(Differ(Differ(z \in a[x], z \in a[x + 5]),
                                       Differ(z \in a[x + 10], z \in a[x + 15])), z \in a[x + 20])
        BY ColumnsAre
      <3>6. (Cardinality(S) % 2 = 1) <=> z \in c[x]
        BY <3>3, <3>4, <3>5 DEF Differ
      <3> QED
        BY <3>6 DEF S
    <2> QED
      BY <2>1, <2>2 DEF Lane
  <1>3. ASSUME NEW x \in Columns, NEW y \in Columns PROVE T(f)[<<x, y>>] = Xor64(a[5 * y + x], d[x])
    <2> DEFINE v == 5 * y + x
    <2>1. f[(x + 4) % 5] = c[(x + 4) % 5] /\ f[(x + 1) % 5] = c[(x + 1) % 5]
      <3>1. (x + 4) % 5 \in Columns /\ (x + 1) % 5 \in Columns
        BY DEF Columns
      <3> HIDE DEF Odd, c
      <3> QED
        BY <1>2, <3>1
    <2>2. A[<<x, y>>] = a[v] /\ v \in 0 .. 24 /\ <<x, y>> \in Sheets
      BY LaidIs
    <2>3. c \in [0 .. 4 -> Lane]
      BY ColumnsAre
    <2> HIDE DEF f, c, A, v
    <2>4. \A z : z \in T(f)[<<x, y>>]
              <=> z \in 0 .. 63 /\ Differ(z \in a[v], Differ(z \in c[(x + 4) % 5], (z + 63) % 64 \in c[(x + 1) % 5]))
      BY <2>1, <2>2
    <2>5. \A z \in 0 .. 63 : z \in d[x] <=> Differ(z \in c[(x + 4) % 5], (z + 63) % 64 \in c[(x + 1) % 5])
      BY <2>3, EffectIs
    <2>6. a[v] \in Lane /\ d[x] \in Lane
      <3>1. d \in [0 .. 4 -> Lane]
        BY <2>3, EffectIs
      <3> HIDE DEF d
      <3> QED
        BY <2>2, <3>1 DEF Lanes, Columns
    <2> HIDE DEF d, T
    <2>7. \A z : z \in Xor64(a[v], d[x]) <=> Differ(z \in a[v], z \in d[x])
      BY XorBit
    <2>8. Xor64(a[v], d[x]) \in Lane
      BY <2>6, XorBit
    <2>9. \A z : z \in T(f)[<<x, y>>] <=> z \in Xor64(a[v], d[x])
      <3> SUFFICES ASSUME NEW z PROVE z \in T(f)[<<x, y>>] <=> z \in Xor64(a[v], d[x])
        OBVIOUS
      <3>1. CASE z \in 0 .. 63
        BY <2>4, <2>5, <2>7, <3>1 DEF Differ
      <3>2. CASE z \notin 0 .. 63
        BY <2>4, <2>8, <3>2 DEF Lane
      <3> QED
        BY <3>1, <3>2
    <2>10. T(f)[<<x, y>>] = Xor64(a[v], d[x])
      <3>1. T(f)[<<x, y>>] = {z \in 0 .. 63 : z \in T(f)[<<x, y>>]}
        BY <2>2, <2>4 DEF T
      <3> QED
        BY <2>9, <3>1, <2>8 DEF Lane
    <2> QED
      BY <2>10 DEF v
  <1> HIDE DEF T, f, d, A
  <1> QED
    BY <1>1, <1>3 DEF A, d

\* rho and pi of a state are one rotation to another place.
LEMMA RhoPiIs ==
  ASSUME NEW t, NEW x \in Columns, NEW y \in Columns, t[<<(x + 3 * y) % 5, x>>] \in Lane
  PROVE  Pi(Rho(t))[<<x, y>>] = ROL(t[<<(x + 3 * y) % 5, x>>], RhoOffset[<<(x + 3 * y) % 5, x>>])
  <1> DEFINE Rt(p) == {z \in 0 .. 63 : (z + 64 - RhoOffset[p]) % 64 \in t[p]}
             R == [p \in Sheets |-> Rt(p)]
             P(b) == [p \in Sheets |-> b[<<(p[1] + 3 * p[2]) % 5, p[1]>>]]
             k == (x + 3 * y) % 5
             q == <<k, x>>
             o == RhoOffset[q]
  <1>1. Rho(t) = R
    <2>1. Rho(t) = Computed(R)
      BY DEF Rho, LaneOf
    <2> HIDE DEF R
    <2> QED
      BY <2>1, ComputedIs
  <1>2. Pi(R) = P(R)
    <2> HIDE DEF R
    <2>1. Pi(R) = Computed(P(R))
      BY DEF Pi
    <2> HIDE DEF P
    <2> QED
      BY <2>1, ComputedIs
  <1>3. k \in Columns
    BY DEF Columns
  <1>4. P(R)[<<x, y>>] = R[q]
    <2>1. <<x, y>> \in Sheets
      BY LaidIs
    <2> HIDE DEF R
    <2> QED
      BY <2>1
  <1>5. R[q] = Rt(q)
    <2>1. q \in Sheets
      BY <1>3, LaidIs
    <2> HIDE DEF Rt, q
    <2> QED
      BY <2>1
  <1>6. o \in 0 .. 63
    <2>1. o = Offset(k, x)
      BY <1>3, OffsetIs
    <2>2. RowsAE[y + 1][x + 1][2] = Offset(k, x) /\ RowsAE[y + 1][x + 1][2] \in 0 .. 63
      BY RowsAre
    <2> HIDE DEF o, k
    <2> QED
      BY <2>1, <2>2
  <1>7. Rt(q) = ROL(t[q], o)
    <2>1. t[q] \in Lane
      OBVIOUS
    <2>2. Rt(q) = {z \in 0 .. 63 : (z + 64 - o) % 64 \in t[q]}
      OBVIOUS
    <2> HIDE DEF q, o, Rt
    <2>3. ROL(t[q], o) \in Lane /\ \A z \in 0 .. 63 : z \in ROL(t[q], o) <=> (z + 64 - o) % 64 \in t[q]
      BY <1>6, <2>1, RotatedBit
    <2> QED
      BY <2>2, <2>3 DEF Lane
  <1> HIDE DEF R, P, Rt
  <1> QED
    BY <1>1, <1>2, <1>4, <1>5, <1>7

\* One unrolled round is a round of the standard.
LEMMA RoundIs ==
  ASSUME NEW a \in Lanes, NEW n \in 0 .. 23
  PROVE  /\ thetaRhoPiChiIota(a, RowsAE, KeccakF_RoundConstants[n + 1]) \in Lanes
         /\ Laid(thetaRhoPiChiIota(a, RowsAE, KeccakF_RoundConstants[n + 1])) = ReferenceRound(Laid(a), n)
  <1> DEFINE r == KeccakF_RoundConstants[n + 1]
             d == ThetaEffect(prepareTheta(a))
             b == RotatedRows(a, d, RowsAE)
             e == Combined(b, r)
             t == Theta(Laid(a))
             p == Pi(Rho(t))
  <1>1. thetaRhoPiChiIota(a, RowsAE, r) = e /\ ReferenceRound(Laid(a), n) = Iota(Chi(p), n)
    BY DEF thetaRhoPiChiIota, ReferenceRound
  <1>2. r \in Lane /\ RoundConstant[n] = r
    <2>1. RoundConstant[n] = r
      BY ConstantsAre
    <2>2. r \in Lane
      <3>1. \A m \in 1 .. 24 : KeccakF_RoundConstants[m] \in Lane
        BY SMTT(60) DEF KeccakF_RoundConstants, Lane
      <3> QED
        BY <3>1
    <2> QED
      BY <2>1, <2>2
  <1>3. d \in [0 .. 4 -> Lane]
    BY ColumnsAre, EffectIs
  <1>4. \A x, y \in Columns : t[<<x, y>>] = Xor64(a[5 * y + x], d[x]) /\ t[<<x, y>>] \in Lane
    <2>1. ASSUME NEW x \in Columns, NEW y \in Columns PROVE Xor64(a[5 * y + x], d[x]) \in Lane
      <3> HIDE DEF d
      <3>1. a[5 * y + x] \in Lane /\ d[x] \in Lane
        BY <1>3, LaidIs DEF Lanes, Columns
      <3> QED
        BY <3>1, XorBit
    <2> QED
      BY <2>1, ThetaIs
  <1> HIDE DEF d, t, r
  <1>5. b \in Lanes /\ \A x, y \in Columns : p[<<x, y>>] = b[5 * y + x]
    <2>1. ASSUME NEW x \in Columns, NEW y \in Columns PROVE p[<<x, y>>] = b[5 * y + x]
      <3> DEFINE k == (x + 3 * y) % 5
                 q == <<k, x>>
      <3>1. k \in Columns
        BY DEF Columns
      <3>2. t[q] = Xor64(a[5 * x + k], d[k]) /\ t[q] \in Lane
        BY <1>4, <3>1
      <3>3. p[<<x, y>>] = ROL(t[q], RhoOffset[q])
        BY <3>2, RhoPiIs
      <3>4. b[5 * y + x] = ROL(Xor64(a[5 * x + k], d[k]), RhoOffset[q])
        BY <1>3, RotatedIs
      <3> QED
        BY <3>2, <3>3, <3>4
    <2>2. b \in Lanes
      BY <1>3, RotatedIs
    <2> QED
      BY <2>1, <2>2
  <1> HIDE DEF b, p
  <1>6. e \in Lanes
    BY <1>2, <1>5, CombinedIs
  <1> DEFINE Ch(g) == [u \in Sheets |-> {z \in 0 .. 63 :
                        Differ(z \in g[u], /\ z \notin g[<<(u[1] + 1) % 5, u[2]>>]
                                          /\ z \in g[<<(u[1] + 2) % 5, u[2]>>])}]
             c == Ch(p)
  <1>7. Chi(p) = c
    <2>1. Chi(p) = Computed(Ch(p))
      BY DEF Chi, LaneOf
    <2> HIDE DEF Ch
    <2> QED
      BY <2>1, ComputedIs
  <1>8. ASSUME NEW x \in Columns, NEW y \in Columns
        PROVE  \A z : z \in c[<<x, y>>]
                      <=> z \in 0 .. 63 /\ Differ(z \in b[5 * y + x], /\ z \notin b[5 * y + ((x + 1) % 5)]
                                                                    /\ z \in b[5 * y + ((x + 2) % 5)])
    <2>0. (x + 1) % 5 \in Columns /\ (x + 2) % 5 \in Columns
      BY DEF Columns
    <2>1. (x + 1) % 5 \in Columns /\ (x + 2) % 5 \in Columns /\ <<x, y>> \in Sheets
      BY <2>0, LaidIs
    <2>2. /\ p[<<x, y>>] = b[5 * y + x]
          /\ p[<<(x + 1) % 5, y>>] = b[5 * y + ((x + 1) % 5)]
          /\ p[<<(x + 2) % 5, y>>] = b[5 * y + ((x + 2) % 5)]
      BY <1>5, <2>1
    <2> QED
      BY <2>1, <2>2
  <1> HIDE DEF c, e
  <1>9. Iota(c, n) = [c EXCEPT ![<<0, 0>>] = Xor64(c[<<0, 0>>], r)]
    BY <1>2, ComputedIs DEF Iota
  <1>10. ASSUME NEW x \in Columns, NEW y \in Columns PROVE Iota(c, n)[<<x, y>>] = e[5 * y + x]
    <2> DEFINE v == 5 * y + x
               w == Iota(c, n)[<<x, y>>]
    <2>1. e[v] \in Lane /\ v \in 0 .. 24
      BY <1>6, LaidIs DEF Lanes
    <2>2. c = [u \in Sheets |-> c[u]] /\ <<x, y>> \in Sheets
      BY LaidIs DEF c
    <2>3. \A z : z \in w <=> Differ(z \in c[<<x, y>>], x = 0 /\ y = 0 /\ z \in r)
      <3>1. CASE x = 0 /\ y = 0
        <4>1. w = Xor64(c[<<x, y>>], r)
          BY <1>9, <2>2, <3>1
        <4> HIDE DEF w
        <4>2. \A z : z \in w <=> Differ(z \in c[<<x, y>>], z \in r)
          BY <4>1, XorBit
        <4> QED
          BY <3>1, <4>2 DEF Differ
      <3>2. CASE ~(x = 0 /\ y = 0)
        <4>1. w = c[<<x, y>>]
          BY <1>9, <2>2, <3>2
        <4> HIDE DEF w
        <4> QED
          BY <3>2, <4>1 DEF Differ
      <3> QED
        BY <3>1, <3>2
    <2>4. \A z : z \in e[v] <=> Differ(Differ(z \in b[v], /\ z \notin b[5 * y + ((x + 1) % 5)]
                                                       /\ z \in b[5 * y + ((x + 2) % 5)]),
                                     x = 0 /\ y = 0 /\ z \in r)
      BY <1>2, <1>5, CombinedIs DEF e
    <2> HIDE DEF w
    <2>5. \A z : z \in w <=> z \in e[v]
      <3> SUFFICES ASSUME NEW z PROVE z \in w <=> z \in e[v]
        OBVIOUS
      <3>1. CASE z \in 0 .. 63
        BY <1>8, <2>3, <2>4, <3>1 DEF Differ
      <3>2. CASE z \notin 0 .. 63
        BY <1>2, <1>8, <2>1, <2>3, <3>2 DEF Differ, Lane
      <3> QED
        BY <3>1, <3>2
    <2> QED
      BY <2>5 DEF v, w
  <1>11. Iota(c, n) = [v \in Sheets |-> Iota(c, n)[v]]
    <2>1. c = [u \in Sheets |-> c[u]]
      BY DEF c
    <2> QED
      BY <1>9, <2>1
  <1>12. Laid(e) = Iota(c, n)
    <2>1. \A x, y \in Columns : Laid(e)[<<x, y>>] = Iota(c, n)[<<x, y>>]
      <3>1. \A x, y \in Columns : Laid(e)[<<x, y>>] = e[5 * y + x]
        BY LaidIs
      <3> QED
        BY <1>10, <3>1
    <2>2. Laid(e) = [v \in Sheets |-> Laid(e)[v]]
      BY DEF Laid
    <2>3. [v \in Sheets |-> Laid(e)[v]] = [v \in Sheets |-> Iota(c, n)[v]]
      BY <2>1, LaidIs
    <2> QED
      BY <1>11, <2>2, <2>3
  <1> QED
    BY <1>1, <1>6, <1>7, <1>12 DEF r

\* The rounds of the loop, two by two, are those of the standard.
LEMMA TwoRoundsAre ==
  ASSUME NEW a \in Lanes, NEW k \in 0 .. 11
  PROVE  /\ TwoRounds(a, 2 * k) \in Lanes
         /\ Laid(TwoRounds(a, 2 * k)) = ReferenceRound(ReferenceRound(Laid(a), 2 * k), 2 * k + 1)
  <1> DEFINE e == thetaRhoPiChiIota(a, RowsAE, KeccakF_RoundConstants[2 * k + 1])
             f == thetaRhoPiChiIota(e, RowsAE, KeccakF_RoundConstants[2 * k + 2])
  <1>1. RowsEA = RowsAE
    BY RowsAre
  <1>2. TwoRounds(a, 2 * k) = f
    BY <1>1, ValueIs DEF TwoRounds
  <1>3. 2 * k \in 0 .. 23 /\ 2 * k + 1 \in 0 .. 23 /\ (2 * k + 1) + 1 = 2 * k + 2
    OBVIOUS
  <1>4. e \in Lanes /\ Laid(e) = ReferenceRound(Laid(a), 2 * k)
    BY <1>3, RoundIs
  <1> HIDE DEF e
  <1>5. f \in Lanes /\ Laid(f) = ReferenceRound(Laid(e), 2 * k + 1)
    BY <1>3, <1>4, RoundIs
  <1> QED
    BY <1>2, <1>4, <1>5

\* Two functions that begin alike and keep alike are alike.
LEMMA Alike ==
  ASSUME NEW f, NEW g, f[0] = g[0], \A k \in 0 .. 11 : f[k] = g[k] => f[k + 1] = g[k + 1]
  PROVE  f[12] = g[12]
  <1> DEFINE X == {k \in Nat : k <= 12 => f[k] = g[k]}
  <1>1. 0 \in X
    OBVIOUS
  <1>2. ASSUME NEW k \in X PROVE k + 1 \in X
    <2>1. CASE k < 12
      <3>1. k \in 0 .. 11 /\ k <= 12
        BY <2>1
      <3> QED
        BY <3>1
    <2>2. CASE ~(k < 12)
      BY <2>2
    <2> QED
      BY <2>1, <2>2
  <1>3. X \in SUBSET Nat
    OBVIOUS
  <1> HIDE DEF X
  <1>4. \A k \in Nat : k \in X
    BY <1>1, <1>2, <1>3, Induction
  <1> QED
    BY <1>4 DEF X

\* After twelve turns of the loop the lanes are those of the standard after 24 rounds.
LEMMA RoundsAre == \A a \in Lanes : Rounds(a) = ReferencePermutation(a)
  <1> SUFFICES ASSUME NEW a \in Lanes PROVE Rounds(a) = ReferencePermutation(a)
    OBVIOUS
  <1> DEFINE G == [k \in Nat |-> [x \in Lanes |-> IF k < 12 THEN TwoRounds(x, 2 * k) ELSE x]]
  <1>1. G \in [Nat -> [Lanes -> Lanes]]
    <2>1. ASSUME NEW k \in Nat, NEW x \in Lanes
          PROVE  (IF k < 12 THEN TwoRounds(x, 2 * k) ELSE x) \in Lanes
      <3>1. CASE k < 12
        <4>1. k \in 0 .. 11
          BY <3>1
        <4> QED
          BY <3>1, <4>1, TwoRoundsAre
      <3>2. CASE ~(k < 12)
        BY <3>2
      <3> QED
        BY <3>1, <3>2
    <2> QED
      BY <2>1
  <1>2. PICK g \in [Nat -> Lanes] : g[0] = a /\ \A k \in Nat : g[k + 1] = G[k][g[k]]
    <2> HIDE DEF G
    <2> DEFINE S == Lanes
    <2>1. a \in S /\ G \in [Nat -> [S -> S]]
      BY <1>1
    <2> HIDE DEF S
    <2>2. \E f \in [Nat -> S] : f[0] = a /\ \A j \in Nat : f[j + 1] = G[j][f[j]]
      BY <2>1, Recursion
    <2> QED
      BY <2>2 DEF S
  <1>3. \A k \in 0 .. 11 : g[k] \in Lanes /\ g[k + 1] \in Lanes /\ g[k + 1] = TwoRounds(g[k], 2 * k)
    <2> SUFFICES ASSUME NEW k \in 0 .. 11
                 PROVE  g[k] \in Lanes /\ g[k + 1] \in Lanes /\ g[k + 1] = TwoRounds(g[k], 2 * k)
      OBVIOUS
    <2>1. k \in Nat /\ k + 1 \in Nat /\ k < 12
      OBVIOUS
    <2>2. g[k] \in Lanes /\ g[k + 1] \in Lanes
      BY <2>1
    <2>3. G[k][g[k]] = TwoRounds(g[k], 2 * k)
      BY <2>1, <2>2
    <2> HIDE DEF G
    <2> QED
      BY <1>2, <2>1, <2>2, <2>3
  <1> HIDE DEF G
  <1>4. Rounds(a) = g[12]
    <2> DEFINE F(f) == [n \in 0 .. 12 |-> IF n = 0 THEN a
                                         ELSE Value({TwoRounds(x, 2 * (n - 1)) : x \in {f[n - 1]}})]
               after == CHOOSE f : f = F(f)
               f0 == [n \in 0 .. 12 |-> g[n]]
    <2>1. Rounds(a) = after[12]
      <3>1. NROUNDS \div 2 = 12
        BY DEF NROUNDS
      <3> QED
        BY <3>1 DEF Rounds
    <2>2. \A f : F(f) = [n \in 0 .. 12 |-> IF n = 0 THEN a ELSE TwoRounds(f[n - 1], 2 * (n - 1))]
      <3>1. \A f : \A n \in 0 .. 12 : Value({TwoRounds(x, 2 * (n - 1)) : x \in {f[n - 1]}})
                                     = TwoRounds(f[n - 1], 2 * (n - 1))
        BY DEF Value
      <3> QED
        BY <3>1
    <2> HIDE DEF F
    <2>3. f0 = F(f0)
      <3>1. ASSUME NEW n \in 0 .. 12
            PROVE  g[n] = IF n = 0 THEN a ELSE TwoRounds(f0[n - 1], 2 * (n - 1))
        <4>1. CASE n = 0
          BY <1>2, <4>1
        <4>2. CASE n # 0
          <5>1. n - 1 \in 0 .. 11 /\ n - 1 \in 0 .. 12 /\ (n - 1) + 1 = n
            BY <4>2
          <5>2. g[(n - 1) + 1] = TwoRounds(g[n - 1], 2 * (n - 1))
            BY <1>3, <5>1
          <5> QED
            BY <4>2, <5>1, <5>2
        <4> QED
          BY <4>1, <4>2
      <3>2. F(f0) = [n \in 0 .. 12 |-> IF n = 0 THEN a ELSE TwoRounds(f0[n - 1], 2 * (n - 1))]
        BY <2>2
      <3> QED
        BY <3>1, <3>2
    <2>4. after = F(after)
      <3> HIDE DEF f0
      <3> QED
        BY <2>3
    <2> HIDE DEF after, f0
    <2>5. after = [n \in 0 .. 12 |-> IF n = 0 THEN a ELSE TwoRounds(after[n - 1], 2 * (n - 1))]
      BY <2>2, <2>4
    <2>6. after[0] = g[0]
      BY <1>2, <2>5
    <2>7. ASSUME NEW k \in 0 .. 11, after[k] = g[k] PROVE after[k + 1] = g[k + 1]
      <3>1. k + 1 \in 0 .. 12 /\ k + 1 # 0 /\ (k + 1) - 1 = k
        OBVIOUS
      <3>2. after[k + 1] = TwoRounds(after[k], 2 * k)
        BY <2>5, <3>1
      <3> QED
        BY <1>3, <2>7, <3>2
    <2>8. after[12] = g[12]
      BY <2>6, <2>7, Alike
    <2> QED
      BY <2>1, <2>8
  <1>5. ReferencePermutation(a) = [n \in 0 .. 24 |-> Laid(g[12])[<<n % 5, n \div 5>>]]
    <2> DEFINE Two(x, n) == ReferenceRound(ReferenceRound(x, 2 * n - 2), 2 * n - 1)
               F(f) == [n \in 0 .. 12 |->
                          IF n = 0 THEN [p \in Sheets |-> a[5 * p[2] + p[1]]]
                          ELSE Value({ReferenceRound(y, 2 * n - 1) :
                                        y \in {ReferenceRound(x, 2 * n - 2) : x \in {f[n - 1]}}})]
               after == CHOOSE f : f = F(f)
               f0 == [n \in 0 .. 12 |-> Laid(g[n])]
    <2>1. ReferencePermutation(a) = [n \in 0 .. 24 |-> after[12][<<n % 5, n \div 5>>]]
      <3> DEFINE Back(x) == [n \in 0 .. 24 |-> x[<<n % 5, n \div 5>>]]
      <3>1. NROUNDS \div 2 = 12
        BY DEF NROUNDS
      <3>2. ReferencePermutation(a) = Value({Back(x) : x \in {after[12]}})
        BY <3>1 DEF ReferencePermutation
      <3> HIDE DEF after
      <3>3. {Back(x) : x \in {after[12]}} = {Back(after[12])}
        OBVIOUS
      <3> HIDE DEF Back
      <3>4. ReferencePermutation(a) = Back(after[12])
        BY <3>2, <3>3, ValueIs
      <3> QED
        BY <3>4 DEF Back
    <2>2. \A f : F(f) = [n \in 0 .. 12 |-> IF n = 0 THEN Laid(a) ELSE Two(f[n - 1], n)]
      <3>1. \A f : \A n \in 0 .. 12 :
              Value({ReferenceRound(y, 2 * n - 1) : y \in {ReferenceRound(x, 2 * n - 2) : x \in {f[n - 1]}}})
              = Two(f[n - 1], n)
        BY DEF Value
      <3> HIDE DEF Two
      <3> QED
        BY <3>1 DEF Laid
    <2> HIDE DEF F
    <2>3. \A k \in 0 .. 11 : Laid(g[k + 1]) = Two(Laid(g[k]), k + 1)
      <3> SUFFICES ASSUME NEW k \in 0 .. 11 PROVE Laid(g[k + 1]) = Two(Laid(g[k]), k + 1)
        OBVIOUS
      <3>1. 2 * (k + 1) - 2 = 2 * k /\ 2 * (k + 1) - 1 = 2 * k + 1
        OBVIOUS
      <3> QED
        BY <1>3, <3>1, TwoRoundsAre
    <2> HIDE DEF Two
    <2>4. f0 = F(f0)
      <3>1. ASSUME NEW n \in 0 .. 12
            PROVE  Laid(g[n]) = IF n = 0 THEN Laid(a) ELSE Two(f0[n - 1], n)
        <4>1. CASE n = 0
          BY <1>2, <4>1
        <4>2. CASE n # 0
          <5>1. n - 1 \in 0 .. 11 /\ n - 1 \in 0 .. 12 /\ (n - 1) + 1 = n
            BY <4>2
          <5>2. Laid(g[(n - 1) + 1]) = Two(Laid(g[n - 1]), (n - 1) + 1)
            BY <2>3, <5>1
          <5>3. f0[n - 1] = Laid(g[n - 1])
            BY <5>1
          <5> HIDE DEF f0
          <5> QED
            BY <4>2, <5>1, <5>2, <5>3
        <4> QED
          BY <4>1, <4>2
      <3>2. F(f0) = [n \in 0 .. 12 |-> IF n = 0 THEN Laid(a) ELSE Two(f0[n - 1], n)]
        BY <2>2
      <3> QED
        BY <3>1, <3>2
    <2>5. after = F(after)
      <3> HIDE DEF f0
      <3> QED
        BY <2>4
    <2> HIDE DEF after
    <2>6. after = [n \in 0 .. 12 |-> IF n = 0 THEN Laid(a) ELSE Two(after[n - 1], n)]
      BY <2>2, <2>5
    <2>7. after[0] = f0[0]
      BY <1>2, <2>6
    <2>8. ASSUME NEW k \in 0 .. 11, after[k] = f0[k] PROVE after[k + 1] = f0[k + 1]
      <3>1. k \in 0 .. 12 /\ k + 1 \in 0 .. 12 /\ k + 1 # 0 /\ (k + 1) - 1 = k
        OBVIOUS
      <3>2. f0[k] = Laid(g[k]) /\ f0[k + 1] = Laid(g[k + 1])
        BY <3>1
      <3> HIDE DEF f0
      <3>3. after[k + 1] = Two(after[k], k + 1)
        BY <2>6, <3>1
      <3> QED
        BY <2>3, <2>8, <3>2, <3>3
    <2>9. after[12] = Laid(g[12])
      <3>1. f0[12] = Laid(g[12])
        OBVIOUS
      <3> HIDE DEF f0
      <3>2. after[12] = f0[12]
        BY <2>7, <2>8, Alike
      <3> QED
        BY <3>1, <3>2
    <2> QED
      BY <2>1, <2>9
  <1>6. \A n \in 0 .. 24 : Laid(g[12])[<<n % 5, n \div 5>>] = g[12][n]
    <2> SUFFICES ASSUME NEW n \in 0 .. 24 PROVE Laid(g[12])[<<n % 5, n \div 5>>] = g[12][n]
      OBVIOUS
    <2>1. n % 5 \in Columns /\ n \div 5 \in Columns /\ 5 * (n \div 5) + (n % 5) = n
      BY DEF Columns
    <2> QED
      BY <2>1, LaidIs
  <1>7. g[12] = [n \in 0 .. 24 |-> g[12][n]]
    BY DEF Lanes
  <1> QED
    BY <1>4, <1>5, <1>6, <1>7

\* The permutation that the hash functions of Kyber are built on, two rounds unrolled and the
\* rotations, the order of the lanes and the constants in tables, is Keccak-f[1600] of FIPS
\* 202, whatever the 25 lanes hold.
THEOREM UnrolledIsKeccak == \A a \in [0 .. 24 -> SUBSET (0 .. 63)] : Rounds(a) = ReferencePermutation(a)
  BY RoundsAre DEF Lanes, Lane

\* In every state of the library's runs the permutation of the lanes that the bytes of a
\* ciphertext make is the one of the standard: the invariant PermutationIsKeccak.
THEOREM PermutationIsStandard == CryptoSpec => []PermutationIsKeccak
  <1>1. PermutationIsKeccak
    <2> DEFINE L(n) == UNION {{8 * i + b : b \in ByteBits(ct[8 * n + i])} : i \in 0 .. 7}
               lanes == [n \in 0 .. 24 |-> L(n)]
    <2>1. Computed(lanes) = lanes
      BY ComputedIs
    <2>2. ASSUME NEW n \in 0 .. 24 PROVE L(n) \in SUBSET (0 .. 63)
      <3>1. \A c : ByteBits(c) \in SUBSET (0 .. 7)
        BY DEF ByteBits
      <3>2. \A i, b \in 0 .. 7 : 8 * i + b \in 0 .. 63
        OBVIOUS
      <3> QED
        BY <3>1, <3>2
    <2> HIDE DEF L
    <2>3. lanes \in [0 .. 24 -> SUBSET (0 .. 63)]
      BY <2>2
    <2> HIDE DEF lanes
    <2>4. Rounds(lanes) = ReferencePermutation(lanes)
      BY <2>3, UnrolledIsKeccak
    <2>5. Computed([n \in 0 .. 24 |-> L(n)]) = lanes
      BY <2>1 DEF lanes
    <2> QED
      BY <2>4, <2>5 DEF PermutationIsKeccak, L
  <1> QED
    BY <1>1, PTL

----------------------------------------------------------------------------
(* The noise.                                                               *)

\* Bit number k of an array of bytes.
BitOf(buf, k) == (buf[k \div 8] \div 2 ^ (k % 8)) % 2

\* The ones of one bit more.
LEMMA OneMore ==
  ASSUME NEW buf, NEW i \in Nat, NEW n \in Nat, IsFiniteSet({k \in i .. i + n - 1 : BitOf(buf, k) = 1}),
         BitOf(buf, i + n) \in 0 .. 1
  PROVE  /\ IsFiniteSet({k \in i .. i + (n + 1) - 1 : BitOf(buf, k) = 1})
         /\ Ones(buf, i, n + 1) = Ones(buf, i, n) + BitOf(buf, i + n)
  <1> DEFINE S(m) == {k \in i .. i + m - 1 : BitOf(buf, k) = 1}
  <1>1. \A m : Ones(buf, i, m) = Cardinality(S(m))
    BY DEF Ones, BitOf
  <1>2. \A k : k \in i .. i + (n + 1) - 1 <=> k \in i .. i + n - 1 \/ k = i + n
    OBVIOUS
  <1>3. CASE BitOf(buf, i + n) = 1
    <2>1. S(n + 1) = S(n) \cup {i + n} /\ i + n \notin S(n)
      BY <1>2, <1>3
    <2> HIDE DEF S
    <2>2. IsFiniteSet(S(n))
      BY DEF S
    <2>3. IsFiniteSet(S(n + 1)) /\ Cardinality(S(n + 1)) = Cardinality(S(n)) + 1
      BY <2>1, <2>2, FS_AddElement
    <2>4. Ones(buf, i, n + 1) = Ones(buf, i, n) + BitOf(buf, i + n)
      BY <1>1, <1>3, <2>3
    <2> QED
      BY <2>3, <2>4 DEF S
  <1>4. CASE BitOf(buf, i + n) # 1
    <2>1. S(n + 1) = S(n)
      BY <1>2, <1>4
    <2>2. BitOf(buf, i + n) = 0
      BY <1>4
    <2> HIDE DEF S
    <2>3. IsFiniteSet(S(n)) /\ Cardinality(S(n)) \in Nat
      <3>1. IsFiniteSet(S(n))
        BY DEF S
      <3> QED
        BY <3>1, FS_CardinalityType
    <2>4. Ones(buf, i, n + 1) = Ones(buf, i, n) + BitOf(buf, i + n)
      BY <1>1, <2>1, <2>2, <2>3
    <2>5. IsFiniteSet(S(n + 1))
      BY <2>1, <2>3
    <2> QED
      BY <2>4, <2>5 DEF S
  <1> QED
    BY <1>3, <1>4

\* The ones among two bits,
LEMMA TwoOnes ==
  ASSUME NEW buf, NEW i \in Nat, BitOf(buf, i) \in 0 .. 1, BitOf(buf, i + 1) \in 0 .. 1
  PROVE  /\ IsFiniteSet({k \in i .. i + 2 - 1 : BitOf(buf, k) = 1})
         /\ Ones(buf, i, 2) = BitOf(buf, i) + BitOf(buf, i + 1)
  <1> DEFINE S(m) == {k \in i .. i + m - 1 : BitOf(buf, k) = 1}
  <1>0. ASSUME NEW n \in 0 .. 1, IsFiniteSet(S(n))
        PROVE  IsFiniteSet(S(n + 1)) /\ Ones(buf, i, n + 1) = Ones(buf, i, n) + BitOf(buf, i + n)
    <2>1. BitOf(buf, i + n) \in 0 .. 1
      <3>1. (n = 0 /\ i + n = i) \/ (n = 1 /\ i + n = i + 1)
        OBVIOUS
      <3> QED
        BY <3>1
    <2>2. n \in Nat /\ IsFiniteSet({k \in i .. i + n - 1 : BitOf(buf, k) = 1})
      BY <1>0
    <2> QED
      BY <2>1, <2>2, OneMore
  <1>1. IsFiniteSet(S(0)) /\ Ones(buf, i, 0) = 0
    <2>1. S(0) = {}
      OBVIOUS
    <2>2. Ones(buf, i, 0) = Cardinality(S(0))
      BY DEF Ones, BitOf
    <2> QED
      BY <2>1, <2>2, FS_EmptySet
  <1> HIDE DEF S
  <1>2. IsFiniteSet(S(1)) /\ Ones(buf, i, 1) = BitOf(buf, i)
    <2>1. IsFiniteSet(S(0 + 1)) /\ Ones(buf, i, 0 + 1) = Ones(buf, i, 0) + BitOf(buf, i + 0)
      BY <1>0, <1>1
    <2> QED
      BY <1>1, <2>1
  <1>3. IsFiniteSet(S(2)) /\ Ones(buf, i, 2) = BitOf(buf, i) + BitOf(buf, i + 1)
    <2>1. IsFiniteSet(S(1 + 1)) /\ Ones(buf, i, 1 + 1) = Ones(buf, i, 1) + BitOf(buf, i + 1)
      BY <1>0, <1>2
    <2> QED
      BY <1>2, <2>1
  <1> QED
    BY <1>3 DEF S

\* and among three.
LEMMA ThreeOnes ==
  ASSUME NEW buf, NEW i \in Nat, \A n \in 0 .. 2 : BitOf(buf, i + n) \in 0 .. 1
  PROVE  Ones(buf, i, 3) = BitOf(buf, i) + BitOf(buf, i + 1) + BitOf(buf, i + 2)
  <1>1. BitOf(buf, i) \in 0 .. 1 /\ BitOf(buf, i + 1) \in 0 .. 1 /\ BitOf(buf, i + 2) \in 0 .. 1
    <2>1. BitOf(buf, i + 0) \in 0 .. 1 /\ i + 0 = i
      OBVIOUS
    <2> QED
      BY <2>1
  <1>2. /\ IsFiniteSet({k \in i .. i + 2 - 1 : BitOf(buf, k) = 1})
        /\ Ones(buf, i, 2) = BitOf(buf, i) + BitOf(buf, i + 1)
    BY <1>1, TwoOnes
  <1>3. Ones(buf, i, 2 + 1) = Ones(buf, i, 2) + BitOf(buf, i + 2)
    <2>1. 2 \in Nat
      OBVIOUS
    <2> QED
      BY <1>1, <1>2, <2>1, OneMore
  <1> QED
    BY <1>2, <1>3

\* The bits of a byte.
LEMMA EightBits ==
  ASSUME NEW c \in 0 .. 255
  PROVE  /\ \A k \in 0 .. 7 : (c \div 2 ^ k) % 2 \in 0 .. 1
         /\ c = ((c \div 1) % 2) + 2 * ((c \div 2) % 2) + 4 * ((c \div 4) % 2) + 8 * ((c \div 8) % 2)
                + 16 * ((c \div 16) % 2) + 32 * ((c \div 32) % 2) + 64 * ((c \div 64) % 2)
                + 128 * ((c \div 128) % 2)
  <1>1. \A k \in 0 .. 7 : (c \div 2 ^ k) % 2 \in 0 .. 1
    <2> SUFFICES ASSUME NEW k \in 0 .. 7 PROVE (c \div 2 ^ k) % 2 \in 0 .. 1
      OBVIOUS
    <2>1. k = 0 \/ k = 1 \/ k = 2 \/ k = 3 \/ k = 4 \/ k = 5 \/ k = 6 \/ k = 7
      OBVIOUS
    <2> QED
      BY <2>1
  <1> QED
    BY <1>1

\* & 0x55 and the shift add pairs of bits,
LEMMA Pairs ==
  ASSUME NEW y0 \in 0 .. 1, NEW y1 \in 0 .. 1, NEW y2 \in 0 .. 1, NEW y3 \in 0 .. 1,
         NEW y4 \in 0 .. 1, NEW y5 \in 0 .. 1, NEW y6 \in 0 .. 1, NEW y7 \in 0 .. 1
  PROVE  LET c == y0 + 2 * y1 + 4 * y2 + 8 * y3 + 16 * y4 + 32 * y5 + 64 * y6 + 128 * y7
         IN  /\ EverySecond(c) = y0 + 4 * y2 + 16 * y4 + 64 * y6
             /\ EverySecond(c \div 2) = y1 + 4 * y3 + 16 * y5 + 64 * y7
  <1> DEFINE c == y0 + 2 * y1 + 4 * y2 + 8 * y3 + 16 * y4 + 32 * y5 + 64 * y6 + 128 * y7
  <1>1. /\ (c \div 1) % 2 = y0 /\ (c \div 4) % 2 = y2 /\ (c \div 16) % 2 = y4 /\ (c \div 64) % 2 = y6
    OBVIOUS
  <1>2. /\ ((c \div 2) \div 1) % 2 = y1 /\ ((c \div 2) \div 4) % 2 = y3
        /\ ((c \div 2) \div 16) % 2 = y5 /\ ((c \div 2) \div 64) % 2 = y7
    OBVIOUS
  <1> HIDE DEF c
  <1>3. EverySecond(c) = y0 + 4 * y2 + 16 * y4 + 64 * y6
    BY <1>1 DEF EverySecond
  <1>4. EverySecond(c \div 2) = y1 + 4 * y3 + 16 * y5 + 64 * y7
    BY <1>2 DEF EverySecond
  <1> QED
    BY <1>3, <1>4 DEF c

\* Bit number k of a byte.
BitIn(c, k) == (c \div 2 ^ k) % 2

\* the two sums that are each coefficient's own.
LEMMA PairsOf ==
  ASSUME NEW c \in 0 .. 255, NEW i \in 0 .. 1
  PROVE  LET d == Sums2(c) \div (16 ^ i)
         IN  /\ d % 4 = BitIn(c, 4 * i) + BitIn(c, 4 * i + 1)
             /\ (d \div 4) % 4 = BitIn(c, 4 * i + 2) + BitIn(c, 4 * i + 3)
  <1>1. \A k \in 0 .. 7 : BitIn(c, k) \in 0 .. 1
    BY EightBits DEF BitIn
  <1>2. c = BitIn(c, 0) + 2 * BitIn(c, 1) + 4 * BitIn(c, 2) + 8 * BitIn(c, 3) + 16 * BitIn(c, 4) + 32 * BitIn(c, 5) + 64 * BitIn(c, 6) + 128 * BitIn(c, 7)
    <2>1. /\ BitIn(c, 0) = (c \div 1) % 2 /\ BitIn(c, 1) = (c \div 2) % 2
          /\ BitIn(c, 2) = (c \div 4) % 2 /\ BitIn(c, 3) = (c \div 8) % 2
          /\ BitIn(c, 4) = (c \div 16) % 2 /\ BitIn(c, 5) = (c \div 32) % 2
          /\ BitIn(c, 6) = (c \div 64) % 2 /\ BitIn(c, 7) = (c \div 128) % 2
      BY DEF BitIn
    <2>2. c = ((c \div 1) % 2) + 2 * ((c \div 2) % 2) + 4 * ((c \div 4) % 2) + 8 * ((c \div 8) % 2)
              + 16 * ((c \div 16) % 2) + 32 * ((c \div 32) % 2) + 64 * ((c \div 64) % 2)
              + 128 * ((c \div 128) % 2)
      BY EightBits
    <2> QED
      BY <2>1, <2>2
  <1> DEFINE z0 == BitIn(c, 0)
             z1 == BitIn(c, 1)
             z2 == BitIn(c, 2)
             z3 == BitIn(c, 3)
             z4 == BitIn(c, 4)
             z5 == BitIn(c, 5)
             z6 == BitIn(c, 6)
             z7 == BitIn(c, 7)
  <1>3. z0 \in 0 .. 1 /\ z1 \in 0 .. 1 /\ z2 \in 0 .. 1 /\ z3 \in 0 .. 1 /\ z4 \in 0 .. 1 /\ z5 \in 0 .. 1 /\ z6 \in 0 .. 1 /\ z7 \in 0 .. 1
    BY <1>1
  <1>4. c = z0 + 2 * z1 + 4 * z2 + 8 * z3 + 16 * z4 + 32 * z5 + 64 * z6 + 128 * z7
    BY <1>2
  <1> HIDE DEF z0, z1, z2, z3, z4, z5, z6, z7
  <1>5. Sums2(c) = (z0 + 4 * z2 + 16 * z4 + 64 * z6) + (z1 + 4 * z3 + 16 * z5 + 64 * z7)
    <2>1. LET e == z0 + 2 * z1 + 4 * z2 + 8 * z3 + 16 * z4 + 32 * z5 + 64 * z6 + 128 * z7
          IN  /\ EverySecond(e) = z0 + 4 * z2 + 16 * z4 + 64 * z6
              /\ EverySecond(e \div 2) = z1 + 4 * z3 + 16 * z5 + 64 * z7
      BY <1>3, Pairs
    <2> QED
      BY <1>4, <2>1 DEF Sums2
  <1> DEFINE w == (z0 + 4 * z2 + 16 * z4 + 64 * z6) + (z1 + 4 * z3 + 16 * z5 + 64 * z7)
  <1>6. CASE i = 0
    <2>1. (w \div 1) % 4 = z0 + z1 /\ ((w \div 1) \div 4) % 4 = z2 + z3
      BY <1>3
    <2>2. 16 ^ i = 1 /\ 4 * i = 0 /\ 4 * i + 1 = 1 /\ 4 * i + 2 = 2 /\ 4 * i + 3 = 3
      BY <1>6
    <2> QED
      BY <1>5, <2>1, <2>2 DEF z0, z1, z2, z3
  <1>7. CASE i = 1
    <2>1. (w \div 16) % 4 = z4 + z5 /\ ((w \div 16) \div 4) % 4 = z6 + z7
      BY <1>3
    <2>2. 16 ^ i = 16 /\ 4 * i = 4 /\ 4 * i + 1 = 5 /\ 4 * i + 2 = 6 /\ 4 * i + 3 = 7
      BY <1>7
    <2> QED
      BY <1>5, <2>1, <2>2 DEF z4, z5, z6, z7
  <1> QED
    BY <1>6, <1>7

\* Where a bit of a byte is in an array.
LEMMA BitAt ==
  ASSUME NEW buf, NEW g \in Nat, NEW l \in 0 .. 7
  PROVE  BitOf(buf, 8 * g + l) = BitIn(buf[g], l)
  <1>1. (8 * g + l) \div 8 = g /\ (8 * g + l) % 8 = l
    OBVIOUS
  <1> QED
    BY <1>1 DEF BitOf, BitIn

\* The coefficients of cbd2, two in every byte.
LEMMA Cbd2At ==
  ASSUME NEW buf, NEW g \in 0 .. 127, buf[g] \in 0 .. 255, NEW i \in 0 .. 1,
         NEW j \in Index, j = 2 * g + i
  PROVE  cbd2(buf)[j] = (BitOf(buf, 4 * j) + BitOf(buf, 4 * j + 1)) - (BitOf(buf, 4 * j + 2) + BitOf(buf, 4 * j + 3))
  <1> DEFINE c == buf[g]
             D(k) == Sums2(buf[k \div 2]) \div (16 ^ (k % 2))
             d == Sums2(c) \div (16 ^ i)
  <1>1. j \in Index /\ j \div 2 = g /\ j % 2 = i
    BY DEF Index
  <1>2. D(j) = d
    BY <1>1, Zenon
  <1>3. cbd2(buf) = [k \in Index |-> (D(k) % 4) - ((D(k) \div 4) % 4)]
    BY Zenon DEF cbd2
  <1> HIDE DEF D
  <1>4. cbd2(buf)[j] = (d % 4) - ((d \div 4) % 4)
    BY <1>1, <1>2, <1>3, Zenon
  <1>5. c \in 0 .. 255
    OBVIOUS
  <1> HIDE DEF c
  <1>6. /\ d % 4 = BitIn(c, 4 * i) + BitIn(c, 4 * i + 1)
        /\ (d \div 4) % 4 = BitIn(c, 4 * i + 2) + BitIn(c, 4 * i + 3)
    BY <1>5, PairsOf
  <1> HIDE DEF d
  <1>7. ASSUME NEW l \in 0 .. 3 PROVE BitOf(buf, 4 * j + l) = BitIn(c, 4 * i + l)
    <2>1. g \in Nat /\ 4 * i + l \in 0 .. 7 /\ 4 * j + l = 8 * g + (4 * i + l)
      BY <1>7
    <2> DEFINE e == 4 * i + l
    <2> HIDE DEF e
    <2>2. g \in Nat /\ e \in 0 .. 7 /\ 4 * j + l = 8 * g + e
      BY <2>1 DEF e
    <2>3. BitOf(buf, 8 * g + e) = BitIn(c, e)
      BY <2>2, BitAt DEF c
    <2> QED
      BY <2>2, <2>3, Zenon DEF e
  <1>8. BitOf(buf, 4 * j) = BitIn(c, 4 * i)
    <2>1. BitOf(buf, 4 * j + 0) = BitIn(c, 4 * i + 0)
      BY <1>7
    <2>2. 4 * j + 0 = 4 * j /\ 4 * i + 0 = 4 * i
      OBVIOUS
    <2> QED
      BY <2>1, <2>2, Zenon
  <1>9. /\ BitOf(buf, 4 * j + 1) = BitIn(c, 4 * i + 1)
        /\ BitOf(buf, 4 * j + 2) = BitIn(c, 4 * i + 2)
        /\ BitOf(buf, 4 * j + 3) = BitIn(c, 4 * i + 3)
    <2>1. 1 \in 0 .. 3 /\ 2 \in 0 .. 3 /\ 3 \in 0 .. 3
      OBVIOUS
    <2> QED
      BY <1>7, <2>1, Zenon
  <1> QED
    BY <1>4, <1>6, <1>8, <1>9, Zenon

\* A coefficient is one of two in its group.
LEMMA Halves == \A j \in Index : \E g \in 0 .. 127 : \E i \in 0 .. 1 : j = 2 * g + i
  <1>1. ASSUME NEW j \in Index PROVE \E g \in 0 .. 127 : \E i \in 0 .. 1 : j = 2 * g + i
    <2>1. j \div 2 \in 0 .. 127 /\ j % 2 \in 0 .. 1
      BY DEF Index
    <2>2. j = 2 * (j \div 2) + (j % 2)
      BY DEF Index
    <2> QED
      BY <2>1, <2>2, Zenon
  <1> QED
    BY <1>1

\* All coefficients of cbd2.
LEMMA Cbd2Is ==
  ASSUME NEW buf, \A g \in 0 .. 127 : buf[g] \in 0 .. 255, NEW j \in Index
  PROVE  cbd2(buf)[j] = (BitOf(buf, 4 * j) + BitOf(buf, 4 * j + 1)) - (BitOf(buf, 4 * j + 2) + BitOf(buf, 4 * j + 3))
  <1>2. PICK g \in 0 .. 127, i \in 0 .. 1 : j = 2 * g + i
    BY Halves, Zenon
  <1> QED
    BY <1>2, Cbd2At, Zenon

\* & 0x249249 and the two shifts take the bits of a word by threes.
LEMMA Threes ==
  ASSUME NEW t \in Nat
  PROVE  /\ EveryThird(t) = BitIn(t, 0) + 8 * BitIn(t, 3) + 64 * BitIn(t, 6)
                              + 512 * BitIn(t, 9) + 4096 * BitIn(t, 12)
                              + 32768 * BitIn(t, 15) + 262144 * BitIn(t, 18)
                              + 2097152 * BitIn(t, 21)
         /\ EveryThird(t \div 2) = BitIn(t, 1) + 8 * BitIn(t, 4) + 64 * BitIn(t, 7)
                              + 512 * BitIn(t, 10) + 4096 * BitIn(t, 13)
                              + 32768 * BitIn(t, 16) + 262144 * BitIn(t, 19)
                              + 2097152 * BitIn(t, 22)
         /\ EveryThird(t \div 4) = BitIn(t, 2) + 8 * BitIn(t, 5) + 64 * BitIn(t, 8)
                              + 512 * BitIn(t, 11) + 4096 * BitIn(t, 14)
                              + 32768 * BitIn(t, 17) + 262144 * BitIn(t, 20)
                              + 2097152 * BitIn(t, 23)
  <1>1. (t \div 1) % 2 = BitIn(t, 0)
    BY DEF BitIn
  <1>2. ((t \div 2) \div 1) % 2 = BitIn(t, 1)
    BY DEF BitIn
  <1>3. ((t \div 4) \div 1) % 2 = BitIn(t, 2)
    BY DEF BitIn
  <1>4. (t \div 8) % 2 = BitIn(t, 3)
    BY DEF BitIn
  <1>5. ((t \div 2) \div 8) % 2 = BitIn(t, 4)
    BY DEF BitIn
  <1>6. ((t \div 4) \div 8) % 2 = BitIn(t, 5)
    BY DEF BitIn
  <1>7. (t \div 64) % 2 = BitIn(t, 6)
    BY DEF BitIn
  <1>8. ((t \div 2) \div 64) % 2 = BitIn(t, 7)
    BY DEF BitIn
  <1>9. ((t \div 4) \div 64) % 2 = BitIn(t, 8)
    BY DEF BitIn
  <1>10. (t \div 512) % 2 = BitIn(t, 9)
    BY DEF BitIn
  <1>11. ((t \div 2) \div 512) % 2 = BitIn(t, 10)
    BY DEF BitIn
  <1>12. ((t \div 4) \div 512) % 2 = BitIn(t, 11)
    BY DEF BitIn
  <1>13. (t \div 4096) % 2 = BitIn(t, 12)
    BY DEF BitIn
  <1>14. ((t \div 2) \div 4096) % 2 = BitIn(t, 13)
    BY DEF BitIn
  <1>15. ((t \div 4) \div 4096) % 2 = BitIn(t, 14)
    BY DEF BitIn
  <1>16. (t \div 32768) % 2 = BitIn(t, 15)
    BY DEF BitIn
  <1>17. ((t \div 2) \div 32768) % 2 = BitIn(t, 16)
    BY DEF BitIn
  <1>18. ((t \div 4) \div 32768) % 2 = BitIn(t, 17)
    BY DEF BitIn
  <1>19. (t \div 262144) % 2 = BitIn(t, 18)
    BY DEF BitIn
  <1>20. ((t \div 2) \div 262144) % 2 = BitIn(t, 19)
    BY DEF BitIn
  <1>21. ((t \div 4) \div 262144) % 2 = BitIn(t, 20)
    BY DEF BitIn
  <1>22. (t \div 2097152) % 2 = BitIn(t, 21)
    BY DEF BitIn
  <1>23. ((t \div 2) \div 2097152) % 2 = BitIn(t, 22)
    BY DEF BitIn
  <1>24. ((t \div 4) \div 2097152) % 2 = BitIn(t, 23)
    BY DEF BitIn
  <1>25. EveryThird(t) = BitIn(t, 0) + 8 * BitIn(t, 3) + 64 * BitIn(t, 6)
                            + 512 * BitIn(t, 9) + 4096 * BitIn(t, 12) + 32768 * BitIn(t, 15)
                            + 262144 * BitIn(t, 18) + 2097152 * BitIn(t, 21)
    BY <1>1, <1>4, <1>7, <1>10, <1>13, <1>16, <1>19, <1>22 DEF EveryThird
  <1>26. EveryThird(t \div 2) = BitIn(t, 1) + 8 * BitIn(t, 4) + 64 * BitIn(t, 7)
                            + 512 * BitIn(t, 10) + 4096 * BitIn(t, 13)
                            + 32768 * BitIn(t, 16) + 262144 * BitIn(t, 19)
                            + 2097152 * BitIn(t, 22)
    BY <1>2, <1>5, <1>8, <1>11, <1>14, <1>17, <1>20, <1>23 DEF EveryThird
  <1>27. EveryThird(t \div 4) = BitIn(t, 2) + 8 * BitIn(t, 5) + 64 * BitIn(t, 8)
                            + 512 * BitIn(t, 11) + 4096 * BitIn(t, 14)
                            + 32768 * BitIn(t, 17) + 262144 * BitIn(t, 20)
                            + 2097152 * BitIn(t, 23)
    BY <1>3, <1>6, <1>9, <1>12, <1>15, <1>18, <1>21, <1>24 DEF EveryThird
  <1> QED
    BY <1>25, <1>26, <1>27

\* The word that load24_littleendian makes of three bytes.
Word(u, v, w) == u + 256 * v + 65536 * w

\* The bits of t are those of u, then those of v, then those of w.
HoldsBits(t, u, v, w) ==
  /\ t \in Nat
  /\ \A l \in 0 .. 7 : /\ BitIn(t, l) = BitIn(u, l)
                       /\ BitIn(t, 8 + l) = BitIn(v, l)
                       /\ BitIn(t, 16 + l) = BitIn(w, l)

\* The bits of a word are those of its bytes.
LEMMA WordBits ==
  ASSUME NEW u \in 0 .. 255, NEW v \in 0 .. 255, NEW w \in 0 .. 255
  PROVE  HoldsBits(Word(u, v, w), u, v, w)
  <1> DEFINE t == Word(u, v, w)
  <1>0. t = u + 256 * v + 65536 * w
    BY DEF Word
  <1> HIDE DEF t
  <1>1. t \in Nat /\ t \div 256 = v + 256 * w /\ t \div 65536 = w
    BY <1>0
  <1>2. \A l \in 0 .. 7 : l = 0 \/ l = 1 \/ l = 2 \/ l = 3 \/ l = 4 \/ l = 5 \/ l = 6 \/ l = 7
    OBVIOUS
  <1>3. BitIn(t, 0) = BitIn(u, 0) /\ BitIn(t, 8 + 0) = BitIn(v, 0) /\ BitIn(t, 16 + 0) = BitIn(w, 0)
    <2>1. (t \div 1) % 2 = (u \div 1) % 2
      BY <1>0
    <2>2. (t \div 256) % 2 = (v \div 1) % 2
      <3>1. t \div 256 = (t \div 256) \div 1
        BY <1>1
      <3>2. ((v + 256 * w) \div 1) % 2 = (v \div 1) % 2
        OBVIOUS
      <3> QED
        BY <1>1, <3>1, <3>2
    <2>3. (t \div 65536) % 2 = (w \div 1) % 2
      <3>1. t \div 65536 = (t \div 65536) \div 1
        BY <1>1
      <3> QED
        BY <1>1, <3>1
    <2> QED
      BY <2>1, <2>2, <2>3 DEF BitIn
  <1>4. BitIn(t, 1) = BitIn(u, 1) /\ BitIn(t, 8 + 1) = BitIn(v, 1) /\ BitIn(t, 16 + 1) = BitIn(w, 1)
    <2>1. (t \div 2) % 2 = (u \div 2) % 2
      BY <1>0
    <2>2. (t \div 512) % 2 = (v \div 2) % 2
      <3>1. t \div 512 = (t \div 256) \div 2
        BY <1>1
      <3>2. ((v + 256 * w) \div 2) % 2 = (v \div 2) % 2
        OBVIOUS
      <3> QED
        BY <1>1, <3>1, <3>2
    <2>3. (t \div 131072) % 2 = (w \div 2) % 2
      <3>1. t \div 131072 = (t \div 65536) \div 2
        BY <1>1
      <3> QED
        BY <1>1, <3>1
    <2> QED
      BY <2>1, <2>2, <2>3 DEF BitIn
  <1>5. BitIn(t, 2) = BitIn(u, 2) /\ BitIn(t, 8 + 2) = BitIn(v, 2) /\ BitIn(t, 16 + 2) = BitIn(w, 2)
    <2>1. (t \div 4) % 2 = (u \div 4) % 2
      BY <1>0
    <2>2. (t \div 1024) % 2 = (v \div 4) % 2
      <3>1. t \div 1024 = (t \div 256) \div 4
        BY <1>1
      <3>2. ((v + 256 * w) \div 4) % 2 = (v \div 4) % 2
        OBVIOUS
      <3> QED
        BY <1>1, <3>1, <3>2
    <2>3. (t \div 262144) % 2 = (w \div 4) % 2
      <3>1. t \div 262144 = (t \div 65536) \div 4
        BY <1>1
      <3> QED
        BY <1>1, <3>1
    <2> QED
      BY <2>1, <2>2, <2>3 DEF BitIn
  <1>6. BitIn(t, 3) = BitIn(u, 3) /\ BitIn(t, 8 + 3) = BitIn(v, 3) /\ BitIn(t, 16 + 3) = BitIn(w, 3)
    <2>1. (t \div 8) % 2 = (u \div 8) % 2
      BY <1>0
    <2>2. (t \div 2048) % 2 = (v \div 8) % 2
      <3>1. t \div 2048 = (t \div 256) \div 8
        BY <1>1
      <3>2. ((v + 256 * w) \div 8) % 2 = (v \div 8) % 2
        OBVIOUS
      <3> QED
        BY <1>1, <3>1, <3>2
    <2>3. (t \div 524288) % 2 = (w \div 8) % 2
      <3>1. t \div 524288 = (t \div 65536) \div 8
        BY <1>1
      <3> QED
        BY <1>1, <3>1
    <2> QED
      BY <2>1, <2>2, <2>3 DEF BitIn
  <1>7. BitIn(t, 4) = BitIn(u, 4) /\ BitIn(t, 8 + 4) = BitIn(v, 4) /\ BitIn(t, 16 + 4) = BitIn(w, 4)
    <2>1. (t \div 16) % 2 = (u \div 16) % 2
      BY <1>0
    <2>2. (t \div 4096) % 2 = (v \div 16) % 2
      <3>1. t \div 4096 = (t \div 256) \div 16
        BY <1>1
      <3>2. ((v + 256 * w) \div 16) % 2 = (v \div 16) % 2
        OBVIOUS
      <3> QED
        BY <1>1, <3>1, <3>2
    <2>3. (t \div 1048576) % 2 = (w \div 16) % 2
      <3>1. t \div 1048576 = (t \div 65536) \div 16
        BY <1>1
      <3> QED
        BY <1>1, <3>1
    <2> QED
      BY <2>1, <2>2, <2>3 DEF BitIn
  <1>8. BitIn(t, 5) = BitIn(u, 5) /\ BitIn(t, 8 + 5) = BitIn(v, 5) /\ BitIn(t, 16 + 5) = BitIn(w, 5)
    <2>1. (t \div 32) % 2 = (u \div 32) % 2
      BY <1>0
    <2>2. (t \div 8192) % 2 = (v \div 32) % 2
      <3>1. t \div 8192 = (t \div 256) \div 32
        BY <1>1
      <3>2. ((v + 256 * w) \div 32) % 2 = (v \div 32) % 2
        OBVIOUS
      <3> QED
        BY <1>1, <3>1, <3>2
    <2>3. (t \div 2097152) % 2 = (w \div 32) % 2
      <3>1. t \div 2097152 = (t \div 65536) \div 32
        BY <1>1
      <3> QED
        BY <1>1, <3>1
    <2> QED
      BY <2>1, <2>2, <2>3 DEF BitIn
  <1>9. BitIn(t, 6) = BitIn(u, 6) /\ BitIn(t, 8 + 6) = BitIn(v, 6) /\ BitIn(t, 16 + 6) = BitIn(w, 6)
    <2>1. (t \div 64) % 2 = (u \div 64) % 2
      BY <1>0
    <2>2. (t \div 16384) % 2 = (v \div 64) % 2
      <3>1. t \div 16384 = (t \div 256) \div 64
        BY <1>1
      <3>2. ((v + 256 * w) \div 64) % 2 = (v \div 64) % 2
        OBVIOUS
      <3> QED
        BY <1>1, <3>1, <3>2
    <2>3. (t \div 4194304) % 2 = (w \div 64) % 2
      <3>1. t \div 4194304 = (t \div 65536) \div 64
        BY <1>1
      <3> QED
        BY <1>1, <3>1
    <2> QED
      BY <2>1, <2>2, <2>3 DEF BitIn
  <1>10. BitIn(t, 7) = BitIn(u, 7) /\ BitIn(t, 8 + 7) = BitIn(v, 7) /\ BitIn(t, 16 + 7) = BitIn(w, 7)
    <2>1. (t \div 128) % 2 = (u \div 128) % 2
      BY <1>0
    <2>2. (t \div 32768) % 2 = (v \div 128) % 2
      <3>1. t \div 32768 = (t \div 256) \div 128
        BY <1>1
      <3>2. ((v + 256 * w) \div 128) % 2 = (v \div 128) % 2
        OBVIOUS
      <3> QED
        BY <1>1, <3>1, <3>2
    <2>3. (t \div 8388608) % 2 = (w \div 128) % 2
      <3>1. t \div 8388608 = (t \div 65536) \div 128
        BY <1>1
      <3> QED
        BY <1>1, <3>1
    <2> QED
      BY <2>1, <2>2, <2>3 DEF BitIn
  <1>11. \A l \in 0 .. 7 : /\ BitIn(t, l) = BitIn(u, l)
                            /\ BitIn(t, 8 + l) = BitIn(v, l)
                            /\ BitIn(t, 16 + l) = BitIn(w, l)
    BY <1>2, <1>3, <1>4, <1>5, <1>6, <1>7, <1>8, <1>9, <1>10
  <1> QED
    BY <1>1, <1>11 DEF t, HoldsBits

\* Two digits and what is above them.
Digits(a, b, h) == a + 8 * b + 64 * h

\* The low one and what is above are found again,
LEMMA LowDigit ==
  \A a, b \in 0 .. 3 : \A h \in Nat :
    Digits(a, b, h) \in Nat /\ Digits(a, b, h) \div 64 = h /\ Digits(a, b, h) % 8 = a
  <1> SUFFICES ASSUME NEW a \in 0 .. 3, NEW b \in 0 .. 3, NEW h \in Nat
               PROVE  Digits(a, b, h) \in Nat /\ Digits(a, b, h) \div 64 = h /\ Digits(a, b, h) % 8 = a
    OBVIOUS
  <1> DEFINE x == b + 8 * h
             e == Digits(a, b, h)
  <1>1. e = a + 8 * x /\ x \in Nat /\ x \div 8 = h
    BY DEF Digits
  <1> HIDE DEF x, e
  <1>2. e \in Nat /\ e % 8 = a /\ e \div 8 = x /\ e \div 64 = x \div 8
    BY <1>1
  <1> QED
    BY <1>1, <1>2 DEF e

\* and so is the high one.
LEMMA HighDigit ==
  \A a, b \in 0 .. 3 : \A h \in Nat : (Digits(a, b, h) \div 8) % 8 = b
  <1> SUFFICES ASSUME NEW a \in 0 .. 3, NEW b \in 0 .. 3, NEW h \in Nat
               PROVE  (Digits(a, b, h) \div 8) % 8 = b
    OBVIOUS
  <1> DEFINE x == b + 8 * h
             e == Digits(a, b, h)
  <1>1. e = a + 8 * x /\ x \in Nat /\ x % 8 = b
    BY DEF Digits
  <1> HIDE DEF x, e
  <1>2. e \div 8 = x
    BY <1>1
  <1> QED
    BY <1>1, <1>2 DEF e

\* The two sums of each coefficient.
LEMMA ThreesOf ==
  ASSUME NEW t \in Nat, \A k \in 0 .. 23 : BitIn(t, k) \in 0 .. 1, NEW i \in 0 .. 3
  PROVE  LET d == Sums3(t) \div (64 ^ i)
         IN  /\ d % 8 = BitIn(t, 6 * i) + BitIn(t, 6 * i + 1) + BitIn(t, 6 * i + 2)
             /\ (d \div 8) % 8 = BitIn(t, 6 * i + 3) + BitIn(t, 6 * i + 4) + BitIn(t, 6 * i + 5)
  <1> DEFINE Z(k) == BitIn(t, k) + BitIn(t, k + 1) + BitIn(t, k + 2)
             z0 == Z(0)
             z1 == Z(3)
             z2 == Z(6)
             z3 == Z(9)
             z4 == Z(12)
             z5 == Z(15)
             z6 == Z(18)
             z7 == Z(21)
             d == Sums3(t) \div (64 ^ i)
  <1>1. /\ z0 = BitIn(t, 0) + BitIn(t, 1) + BitIn(t, 2) /\ z1 = BitIn(t, 3) + BitIn(t, 4) + BitIn(t, 5)
        /\ z2 = BitIn(t, 6) + BitIn(t, 7) + BitIn(t, 8) /\ z3 = BitIn(t, 9) + BitIn(t, 10) + BitIn(t, 11)
        /\ z4 = BitIn(t, 12) + BitIn(t, 13) + BitIn(t, 14) /\ z5 = BitIn(t, 15) + BitIn(t, 16) + BitIn(t, 17)
        /\ z6 = BitIn(t, 18) + BitIn(t, 19) + BitIn(t, 20) /\ z7 = BitIn(t, 21) + BitIn(t, 22) + BitIn(t, 23)
    OBVIOUS
  <1> HIDE DEF Z
  <1>2. /\ BitIn(t, 0) \in 0 .. 1 /\ BitIn(t, 1) \in 0 .. 1 /\ BitIn(t, 2) \in 0 .. 1 /\ BitIn(t, 3) \in 0 .. 1
        /\ BitIn(t, 4) \in 0 .. 1 /\ BitIn(t, 5) \in 0 .. 1 /\ BitIn(t, 6) \in 0 .. 1 /\ BitIn(t, 7) \in 0 .. 1
        /\ BitIn(t, 8) \in 0 .. 1 /\ BitIn(t, 9) \in 0 .. 1 /\ BitIn(t, 10) \in 0 .. 1 /\ BitIn(t, 11) \in 0 .. 1
        /\ BitIn(t, 12) \in 0 .. 1 /\ BitIn(t, 13) \in 0 .. 1 /\ BitIn(t, 14) \in 0 .. 1 /\ BitIn(t, 15) \in 0 .. 1
        /\ BitIn(t, 16) \in 0 .. 1 /\ BitIn(t, 17) \in 0 .. 1 /\ BitIn(t, 18) \in 0 .. 1 /\ BitIn(t, 19) \in 0 .. 1
        /\ BitIn(t, 20) \in 0 .. 1 /\ BitIn(t, 21) \in 0 .. 1 /\ BitIn(t, 22) \in 0 .. 1 /\ BitIn(t, 23) \in 0 .. 1
    OBVIOUS
  <1>3. /\ z0 \in 0 .. 3 /\ z1 \in 0 .. 3 /\ z2 \in 0 .. 3 /\ z3 \in 0 .. 3
        /\ z4 \in 0 .. 3 /\ z5 \in 0 .. 3 /\ z6 \in 0 .. 3 /\ z7 \in 0 .. 3
    BY <1>1, <1>2
  <1> HIDE DEF z0, z1, z2, z3, z4, z5, z6, z7
  <1>4. Sums3(t) = z0 + 8 * z1 + 64 * z2 + 512 * z3 + 4096 * z4 + 32768 * z5 + 262144 * z6 + 2097152 * z7
    <2>1. Sums3(t) = EveryThird(t) + EveryThird(t \div 2) + EveryThird(t \div 4)
      BY DEF Sums3
    <2> DEFINE c0 == BitIn(t, 0) c1 == BitIn(t, 1) c2 == BitIn(t, 2) c3 == BitIn(t, 3)
               c4 == BitIn(t, 4) c5 == BitIn(t, 5) c6 == BitIn(t, 6) c7 == BitIn(t, 7)
               c8 == BitIn(t, 8) c9 == BitIn(t, 9) c10 == BitIn(t, 10) c11 == BitIn(t, 11)
               c12 == BitIn(t, 12) c13 == BitIn(t, 13) c14 == BitIn(t, 14) c15 == BitIn(t, 15)
               c16 == BitIn(t, 16) c17 == BitIn(t, 17) c18 == BitIn(t, 18) c19 == BitIn(t, 19)
               c20 == BitIn(t, 20) c21 == BitIn(t, 21) c22 == BitIn(t, 22) c23 == BitIn(t, 23)
    <2>2. /\ EveryThird(t) = c0 + 8 * c3 + 64 * c6 + 512 * c9 + 4096 * c12 + 32768 * c15 + 262144 * c18 + 2097152 * c21
          /\ EveryThird(t \div 2) = c1 + 8 * c4 + 64 * c7 + 512 * c10 + 4096 * c13 + 32768 * c16 + 262144 * c19 + 2097152 * c22
          /\ EveryThird(t \div 4) = c2 + 8 * c5 + 64 * c8 + 512 * c11 + 4096 * c14 + 32768 * c17 + 262144 * c20 + 2097152 * c23
      BY Threes
    <2>3. /\ c0 \in 0 .. 1 /\ c1 \in 0 .. 1 /\ c2 \in 0 .. 1 /\ c3 \in 0 .. 1 /\ c4 \in 0 .. 1 /\ c5 \in 0 .. 1
          /\ c6 \in 0 .. 1 /\ c7 \in 0 .. 1 /\ c8 \in 0 .. 1 /\ c9 \in 0 .. 1 /\ c10 \in 0 .. 1 /\ c11 \in 0 .. 1
          /\ c12 \in 0 .. 1 /\ c13 \in 0 .. 1 /\ c14 \in 0 .. 1 /\ c15 \in 0 .. 1 /\ c16 \in 0 .. 1 /\ c17 \in 0 .. 1
          /\ c18 \in 0 .. 1 /\ c19 \in 0 .. 1 /\ c20 \in 0 .. 1 /\ c21 \in 0 .. 1 /\ c22 \in 0 .. 1 /\ c23 \in 0 .. 1
      BY <1>2
    <2>4. /\ z0 = c0 + c1 + c2 /\ z1 = c3 + c4 + c5 /\ z2 = c6 + c7 + c8
          /\ z3 = c9 + c10 + c11 /\ z4 = c12 + c13 + c14 /\ z5 = c15 + c16 + c17
          /\ z6 = c18 + c19 + c20 /\ z7 = c21 + c22 + c23
      BY <1>1
    <2> HIDE DEF c0, c1, c2, c3, c4, c5, c6, c7, c8, c9, c10, c11,
                c12, c13, c14, c15, c16, c17, c18, c19, c20, c21, c22, c23
    <2> QED
      BY <2>1, <2>2, <2>3, <2>4
  <1> DEFINE w == Sums3(t)
  <1> HIDE DEF w
  <1>5. /\ (w \div 1) % 8 = z0 /\ ((w \div 1) \div 8) % 8 = z1
        /\ (w \div 64) % 8 = z2 /\ ((w \div 64) \div 8) % 8 = z3
        /\ (w \div 4096) % 8 = z4 /\ ((w \div 4096) \div 8) % 8 = z5
        /\ (w \div 262144) % 8 = z6 /\ ((w \div 262144) \div 8) % 8 = z7
    <2> DEFINE h6 == Digits(z6, z7, 0)
               h4 == Digits(z4, z5, h6)
               h2 == Digits(z2, z3, h4)
    <2>0. w = z0 + 8 * z1 + 64 * z2 + 512 * z3 + 4096 * z4 + 32768 * z5 + 262144 * z6 + 2097152 * z7
      BY <1>4 DEF w
    <2>1. w = Digits(z0, z1, h2)
      BY <1>3, <2>0 DEF Digits
    <2>2. h6 \in Nat /\ h6 % 8 = z6 /\ (h6 \div 8) % 8 = z7
      <3>1. 0 \in Nat
        OBVIOUS
      <3>2. h6 \in Nat /\ h6 % 8 = z6
        BY <1>3, <3>1, LowDigit
      <3>3. (h6 \div 8) % 8 = z7
        BY <1>3, <3>1, HighDigit
      <3> QED
        BY <3>2, <3>3
    <2> HIDE DEF h6
    <2>3. h4 \in Nat /\ h4 \div 64 = h6 /\ h4 % 8 = z4 /\ (h4 \div 8) % 8 = z5
      <3>1. h4 \in Nat /\ h4 \div 64 = h6 /\ h4 % 8 = z4
        BY <1>3, <2>2, LowDigit
      <3>2. (h4 \div 8) % 8 = z5
        BY <1>3, <2>2, HighDigit
      <3> QED
        BY <3>1, <3>2
    <2> HIDE DEF h4
    <2>4. h2 \in Nat /\ h2 \div 64 = h4 /\ h2 % 8 = z2 /\ (h2 \div 8) % 8 = z3
      <3>1. h2 \in Nat /\ h2 \div 64 = h4 /\ h2 % 8 = z2
        BY <1>3, <2>3, LowDigit
      <3>2. (h2 \div 8) % 8 = z3
        BY <1>3, <2>3, HighDigit
      <3> QED
        BY <3>1, <3>2
    <2> HIDE DEF h2
    <2>5. w \in Nat /\ w \div 64 = h2 /\ w % 8 = z0 /\ (w \div 8) % 8 = z1
      <3>1. w \in Nat /\ w \div 64 = h2 /\ w % 8 = z0
        BY <1>3, <2>1, <2>4, LowDigit, ZenonT(60)
      <3>2. (w \div 8) % 8 = z1
        BY <1>3, <2>1, <2>4, HighDigit
      <3> QED
        BY <3>1, <3>2
    <2>6. w \div 1 = w /\ w \div 4096 = (w \div 64) \div 64 /\ w \div 262144 = ((w \div 64) \div 64) \div 64
      BY <2>5
    <2> QED
      BY <2>2, <2>3, <2>4, <2>5, <2>6
  <1>6. CASE i = 0
    <2>1. 64 ^ i = 1 /\ 6 * i = 0 /\ 6 * i + 1 = 1 /\ 6 * i + 2 = 2 /\ 6 * i + 3 = 3 /\ 6 * i + 4 = 4 /\ 6 * i + 5 = 5
      BY <1>6
    <2>2. d = w \div 1
      BY <2>1 DEF w
    <2> HIDE DEF d
    <2>3. d % 8 = z0 /\ (d \div 8) % 8 = z1
      BY <1>5, <2>2
    <2>4. /\ d % 8 = BitIn(t, 6 * i) + BitIn(t, 6 * i + 1) + BitIn(t, 6 * i + 2)
          /\ (d \div 8) % 8 = BitIn(t, 6 * i + 3) + BitIn(t, 6 * i + 4) + BitIn(t, 6 * i + 5)
      BY <1>1, <2>1, <2>3
    <2> QED
      BY <2>4 DEF d
  <1>7. CASE i = 1
    <2>1. 64 ^ i = 64 /\ 6 * i = 6 /\ 6 * i + 1 = 7 /\ 6 * i + 2 = 8 /\ 6 * i + 3 = 9 /\ 6 * i + 4 = 10 /\ 6 * i + 5 = 11
      BY <1>7
    <2>2. d = w \div 64
      BY <2>1 DEF w
    <2> HIDE DEF d
    <2>3. d % 8 = z2 /\ (d \div 8) % 8 = z3
      BY <1>5, <2>2
    <2>4. /\ d % 8 = BitIn(t, 6 * i) + BitIn(t, 6 * i + 1) + BitIn(t, 6 * i + 2)
          /\ (d \div 8) % 8 = BitIn(t, 6 * i + 3) + BitIn(t, 6 * i + 4) + BitIn(t, 6 * i + 5)
      BY <1>1, <2>1, <2>3
    <2> QED
      BY <2>4 DEF d
  <1>8. CASE i = 2
    <2>1. 64 ^ i = 4096 /\ 6 * i = 12 /\ 6 * i + 1 = 13 /\ 6 * i + 2 = 14 /\ 6 * i + 3 = 15 /\ 6 * i + 4 = 16 /\ 6 * i + 5 = 17
      BY <1>8
    <2>2. d = w \div 4096
      BY <2>1 DEF w
    <2> HIDE DEF d
    <2>3. d % 8 = z4 /\ (d \div 8) % 8 = z5
      BY <1>5, <2>2
    <2>4. /\ d % 8 = BitIn(t, 6 * i) + BitIn(t, 6 * i + 1) + BitIn(t, 6 * i + 2)
          /\ (d \div 8) % 8 = BitIn(t, 6 * i + 3) + BitIn(t, 6 * i + 4) + BitIn(t, 6 * i + 5)
      BY <1>1, <2>1, <2>3
    <2> QED
      BY <2>4 DEF d
  <1>9. CASE i = 3
    <2>1. 64 ^ i = 262144 /\ 6 * i = 18 /\ 6 * i + 1 = 19 /\ 6 * i + 2 = 20 /\ 6 * i + 3 = 21 /\ 6 * i + 4 = 22 /\ 6 * i + 5 = 23
      BY <1>9
    <2>2. d = w \div 262144
      BY <2>1 DEF w
    <2> HIDE DEF d
    <2>3. d % 8 = z6 /\ (d \div 8) % 8 = z7
      BY <1>5, <2>2
    <2>4. /\ d % 8 = BitIn(t, 6 * i) + BitIn(t, 6 * i + 1) + BitIn(t, 6 * i + 2)
          /\ (d \div 8) % 8 = BitIn(t, 6 * i + 3) + BitIn(t, 6 * i + 4) + BitIn(t, 6 * i + 5)
      BY <1>1, <2>1, <2>3
    <2> QED
      BY <2>4 DEF d
  <1> QED
    BY <1>6, <1>7, <1>8, <1>9

\* The coefficients of cbd3, four in every three bytes.
LEMMA Cbd3At ==
  ASSUME NEW buf, NEW g \in 0 .. 63, NEW i \in 0 .. 3, NEW j \in Index, j = 4 * g + i,
         buf[3 * g] \in 0 .. 255, buf[3 * g + 1] \in 0 .. 255, buf[3 * g + 2] \in 0 .. 255
  PROVE  cbd3(buf)[j] = (BitOf(buf, 6 * j) + BitOf(buf, 6 * j + 1) + BitOf(buf, 6 * j + 2))
                        - (BitOf(buf, 6 * j + 3) + BitOf(buf, 6 * j + 4) + BitOf(buf, 6 * j + 5))
  <1> DEFINE u == buf[3 * g]
             v == buf[3 * g + 1]
             w == buf[3 * g + 2]
             t == Word(u, v, w)
             D(k) == Sums3(load24_littleendian(buf, 3 * (k \div 4))) \div (64 ^ (k % 4))
             d == Sums3(t) \div (64 ^ i)
  <1>1. j \in Index /\ j \div 4 = g /\ j % 4 = i
    BY DEF Index
  <1>2. D(j) = d
    <2>1. D(j) = Sums3(load24_littleendian(buf, 3 * g)) \div (64 ^ i)
      BY <1>1, Zenon
    <2>2. load24_littleendian(buf, 3 * g) = t
      BY DEF load24_littleendian, Word
    <2> QED
      BY <2>1, <2>2, Zenon
  <1>3. cbd3(buf) = [k \in Index |-> (D(k) % 8) - ((D(k) \div 8) % 8)]
    BY Zenon DEF cbd3
  <1> HIDE DEF D
  <1>4. cbd3(buf)[j] = (d % 8) - ((d \div 8) % 8)
    BY <1>1, <1>2, <1>3, Zenon
  <1>5. u \in 0 .. 255 /\ v \in 0 .. 255 /\ w \in 0 .. 255
    OBVIOUS
  <1>6. ASSUME NEW l \in 0 .. 7
        PROVE  /\ BitOf(buf, 24 * g + l) = BitIn(u, l)
               /\ BitOf(buf, 24 * g + (8 + l)) = BitIn(v, l)
               /\ BitOf(buf, 24 * g + (16 + l)) = BitIn(w, l)
    <2>1. /\ BitOf(buf, 8 * (3 * g) + l) = BitIn(buf[3 * g], l)
          /\ BitOf(buf, 8 * (3 * g + 1) + l) = BitIn(buf[3 * g + 1], l)
          /\ BitOf(buf, 8 * (3 * g + 2) + l) = BitIn(buf[3 * g + 2], l)
      <3>1. 3 * g \in Nat /\ 3 * g + 1 \in Nat /\ 3 * g + 2 \in Nat
        OBVIOUS
      <3> QED
        BY <1>6, <3>1, BitAt, Zenon
    <2>2. /\ 8 * (3 * g) + l = 24 * g + l
          /\ 8 * (3 * g + 1) + l = 24 * g + (8 + l)
          /\ 8 * (3 * g + 2) + l = 24 * g + (16 + l)
      OBVIOUS
    <2> QED
      BY <2>1, <2>2, Zenon
  <1> HIDE DEF u, v, w
  <1>7. HoldsBits(t, u, v, w)
    BY <1>5, WordBits, Zenon
  <1> HIDE DEF t
  <1>8. \A l \in 0 .. 7 : BitIn(u, l) \in 0 .. 1 /\ BitIn(v, l) \in 0 .. 1 /\ BitIn(w, l) \in 0 .. 1
    BY <1>5, EightBits, Zenon DEF BitIn
  <1>9. ASSUME NEW e \in 0 .. 23 PROVE BitOf(buf, 24 * g + e) = BitIn(t, e) /\ BitIn(t, e) \in 0 .. 1
    <2>1. e \in 0 .. 7 \/ e - 8 \in 0 .. 7 \/ e - 16 \in 0 .. 7
      OBVIOUS
    <2>2. 8 + (e - 8) = e /\ 16 + (e - 16) = e
      OBVIOUS
    <2>3. CASE e \in 0 .. 7
      BY <1>6, <1>7, <1>8, <2>3, Zenon DEF HoldsBits
    <2>4. CASE e - 8 \in 0 .. 7
      <3>1. /\ BitOf(buf, 24 * g + (8 + (e - 8))) = BitIn(v, e - 8)
            /\ BitIn(t, 8 + (e - 8)) = BitIn(v, e - 8) /\ BitIn(v, e - 8) \in 0 .. 1
        BY <1>6, <1>7, <1>8, <2>4, Zenon DEF HoldsBits
      <3> QED
        BY <2>2, <3>1, Zenon
    <2>5. CASE e - 16 \in 0 .. 7
      <3>1. /\ BitOf(buf, 24 * g + (16 + (e - 16))) = BitIn(w, e - 16)
            /\ BitIn(t, 16 + (e - 16)) = BitIn(w, e - 16) /\ BitIn(w, e - 16) \in 0 .. 1
        BY <1>6, <1>7, <1>8, <2>5, Zenon DEF HoldsBits
      <3> QED
        BY <2>2, <3>1, Zenon
    <2> QED
      BY <2>1, <2>3, <2>4, <2>5, Zenon
  <1>10. /\ d % 8 = BitIn(t, 6 * i) + BitIn(t, 6 * i + 1) + BitIn(t, 6 * i + 2)
         /\ (d \div 8) % 8 = BitIn(t, 6 * i + 3) + BitIn(t, 6 * i + 4) + BitIn(t, 6 * i + 5)
    <2>1. t \in Nat /\ \A k \in 0 .. 23 : BitIn(t, k) \in 0 .. 1
      BY <1>7, <1>9, Zenon DEF HoldsBits
    <2> QED
      BY <2>1, ThreesOf, Zenon
  <1> HIDE DEF d
  <1>11. ASSUME NEW r \in 0 .. 5 PROVE BitOf(buf, 6 * j + r) = BitIn(t, 6 * i + r)
    <2>1. 6 * i + r \in 0 .. 23 /\ 6 * j + r = 24 * g + (6 * i + r)
      OBVIOUS
    <2> QED
      BY <1>9, <2>1, Zenon
  <1>12. BitOf(buf, 6 * j) = BitIn(t, 6 * i)
    <2>1. 6 * j + 0 = 6 * j /\ 6 * i + 0 = 6 * i /\ 0 \in 0 .. 5
      BY DEF Index
    <2>2. BitOf(buf, 6 * j + 0) = BitIn(t, 6 * i + 0)
      BY <1>11, <2>1, Zenon
    <2> QED
      BY <2>1, <2>2, Zenon
  <1>13. /\ BitOf(buf, 6 * j + 1) = BitIn(t, 6 * i + 1)
         /\ BitOf(buf, 6 * j + 2) = BitIn(t, 6 * i + 2)
         /\ BitOf(buf, 6 * j + 3) = BitIn(t, 6 * i + 3)
         /\ BitOf(buf, 6 * j + 4) = BitIn(t, 6 * i + 4)
         /\ BitOf(buf, 6 * j + 5) = BitIn(t, 6 * i + 5)
    <2>1. 1 \in 0 .. 5 /\ 2 \in 0 .. 5 /\ 3 \in 0 .. 5 /\ 4 \in 0 .. 5 /\ 5 \in 0 .. 5
      OBVIOUS
    <2> QED
      BY <1>11, <2>1, Zenon
  <1> QED
    BY <1>4, <1>10, <1>12, <1>13, Zenon

\* A coefficient is one of four in its group.
LEMMA Quarters == \A j \in Index : \E g \in 0 .. 63 : \E i \in 0 .. 3 : j = 4 * g + i
  <1>1. ASSUME NEW j \in Index PROVE \E g \in 0 .. 63 : \E i \in 0 .. 3 : j = 4 * g + i
    <2>1. j \div 4 \in 0 .. 63 /\ j % 4 \in 0 .. 3
      BY DEF Index
    <2>2. j = 4 * (j \div 4) + (j % 4)
      BY DEF Index
    <2> QED
      BY <2>1, <2>2, Zenon
  <1> QED
    BY <1>1

\* The three bytes of a group.
LEMMA Triples == \A g \in 0 .. 63 : 3 * g \in 0 .. 191 /\ 3 * g + 1 \in 0 .. 191 /\ 3 * g + 2 \in 0 .. 191
  OBVIOUS

\* All coefficients of cbd3.
LEMMA Cbd3Is ==
  ASSUME NEW buf, \A g \in 0 .. 191 : buf[g] \in 0 .. 255, NEW j \in Index
  PROVE  cbd3(buf)[j] = (BitOf(buf, 6 * j) + BitOf(buf, 6 * j + 1) + BitOf(buf, 6 * j + 2))
                        - (BitOf(buf, 6 * j + 3) + BitOf(buf, 6 * j + 4) + BitOf(buf, 6 * j + 5))
  <1>2. PICK g \in 0 .. 63, i \in 0 .. 3 : j = 4 * g + i
    BY Quarters, Zenon
  <1>3. 3 * g \in 0 .. 191 /\ 3 * g + 1 \in 0 .. 191 /\ 3 * g + 2 \in 0 .. 191
    BY Triples, Zenon
  <1>4. buf[3 * g] \in 0 .. 255 /\ buf[3 * g + 1] \in 0 .. 255 /\ buf[3 * g + 2] \in 0 .. 255
    BY <1>3, Zenon
  <1> QED
    BY <1>2, <1>4, Cbd3At, Zenon

\* What a bit of an array of bytes can be.
LEMMA BitsAre ==
  ASSUME NEW buf, NEW k \in Nat, buf[k \div 8] \in 0 .. 255
  PROVE  BitOf(buf, k) \in 0 .. 1
  <1>1. k % 8 \in 0 .. 7
    OBVIOUS
  <1> QED
    BY <1>1, EightBits, Zenon DEF BitOf

\* The bits of a coefficient are inside the array.
LEMMA SixInside == \A j \in Index : \A n \in 0 .. 5 : 6 * j + n \in Nat /\ (6 * j + n) \div 8 \in 0 .. 191
  BY DEF Index

LEMMA FourInside == \A j \in Index : \A n \in 0 .. 3 : 4 * j + n \in Nat /\ (4 * j + n) \div 8 \in 0 .. 127
  BY DEF Index

\* The ones of a coefficient of cbd3 and of one of cbd2.
LEMMA SixBits ==
  ASSUME NEW buf, NEW j \in Index, \A n \in 0 .. 5 : BitOf(buf, 6 * j + n) \in 0 .. 1
  PROVE  /\ Ones(buf, 6 * j, 3) = BitOf(buf, 6 * j) + BitOf(buf, 6 * j + 1) + BitOf(buf, 6 * j + 2)
         /\ Ones(buf, 6 * j + 3, 3) = BitOf(buf, 6 * j + 3) + BitOf(buf, 6 * j + 4) + BitOf(buf, 6 * j + 5)
  <1>1. 6 * j \in Nat /\ 6 * j + 3 \in Nat /\ (6 * j + 3) + 1 = 6 * j + 4 /\ (6 * j + 3) + 2 = 6 * j + 5
    BY DEF Index
  <1>2. \A n \in 0 .. 2 : BitOf(buf, 6 * j + n) \in 0 .. 1
    <2>1. \A n \in 0 .. 2 : n \in 0 .. 5
      OBVIOUS
    <2> QED
      BY <2>1, Zenon
  <1>3. \A n \in 0 .. 2 : BitOf(buf, (6 * j + 3) + n) \in 0 .. 1
    <2>1. \A n \in 0 .. 2 : 3 + n \in 0 .. 5 /\ (6 * j + 3) + n = 6 * j + (3 + n)
      BY DEF Index
    <2> QED
      BY <2>1, Zenon
  <1>4. Ones(buf, 6 * j, 3) = BitOf(buf, 6 * j) + BitOf(buf, 6 * j + 1) + BitOf(buf, 6 * j + 2)
    BY <1>1, <1>2, ThreeOnes, Zenon
  <1>5. Ones(buf, 6 * j + 3, 3) = BitOf(buf, 6 * j + 3) + BitOf(buf, (6 * j + 3) + 1) + BitOf(buf, (6 * j + 3) + 2)
    BY <1>1, <1>3, ThreeOnes, Zenon
  <1> QED
    BY <1>1, <1>4, <1>5, Zenon

LEMMA FourBits ==
  ASSUME NEW buf, NEW j \in Index, \A n \in 0 .. 3 : BitOf(buf, 4 * j + n) \in 0 .. 1
  PROVE  /\ Ones(buf, 4 * j, 2) = BitOf(buf, 4 * j) + BitOf(buf, 4 * j + 1)
         /\ Ones(buf, 4 * j + 2, 2) = BitOf(buf, 4 * j + 2) + BitOf(buf, 4 * j + 3)
  <1>1. 4 * j \in Nat /\ 4 * j + 2 \in Nat /\ 4 * j + 0 = 4 * j /\ (4 * j + 2) + 1 = 4 * j + 3
    BY DEF Index
  <1>2. /\ BitOf(buf, 4 * j + 0) \in 0 .. 1 /\ BitOf(buf, 4 * j + 1) \in 0 .. 1
        /\ BitOf(buf, 4 * j + 2) \in 0 .. 1 /\ BitOf(buf, 4 * j + 3) \in 0 .. 1
    <2>1. 0 \in 0 .. 3 /\ 1 \in 0 .. 3 /\ 2 \in 0 .. 3 /\ 3 \in 0 .. 3
      OBVIOUS
    <2> QED
      BY <2>1, Zenon
  <1>3. Ones(buf, 4 * j, 2) = BitOf(buf, 4 * j) + BitOf(buf, 4 * j + 1)
    <2>1. BitOf(buf, 4 * j) \in 0 .. 1
      BY <1>1, <1>2, Zenon
    <2> QED
      BY <1>1, <1>2, <2>1, TwoOnes, Zenon
  <1>4. Ones(buf, 4 * j + 2, 2) = BitOf(buf, 4 * j + 2) + BitOf(buf, (4 * j + 2) + 1)
    <2>1. BitOf(buf, (4 * j + 2) + 1) \in 0 .. 1
      BY <1>1, <1>2, Zenon
    <2> QED
      BY <1>1, <1>2, <2>1, TwoOnes, Zenon
  <1> QED
    BY <1>1, <1>3, <1>4, Zenon

\* Whatever bytes the hash function returns, cbd3 and cbd2, which add the bits of masked words
\* many at a time, make noise of them that is centred binomial: each coefficient is the number
\* of ones among 3 (2) bits of its own less the number among the next 3 (2).
THEOREM NoiseIsBinomial ==
  /\ \A buf \in [0 .. 191 -> 0 .. 255] : \A j \in Index :
       cbd3(buf)[j] = Ones(buf, 6 * j, 3) - Ones(buf, 6 * j + 3, 3)
  /\ \A buf \in [0 .. 127 -> 0 .. 255] : \A j \in Index :
       cbd2(buf)[j] = Ones(buf, 4 * j, 2) - Ones(buf, 4 * j + 2, 2)
  <1>1. ASSUME NEW buf \in [0 .. 191 -> 0 .. 255], NEW j \in Index
        PROVE  cbd3(buf)[j] = Ones(buf, 6 * j, 3) - Ones(buf, 6 * j + 3, 3)
    <2>1. \A g \in 0 .. 191 : buf[g] \in 0 .. 255
      BY <1>1, Zenon
    <2>2. \A n \in 0 .. 5 : BitOf(buf, 6 * j + n) \in 0 .. 1
      BY <2>1, SixInside, BitsAre, Zenon
    <2>3. cbd3(buf)[j] = (BitOf(buf, 6 * j) + BitOf(buf, 6 * j + 1) + BitOf(buf, 6 * j + 2))
                         - (BitOf(buf, 6 * j + 3) + BitOf(buf, 6 * j + 4) + BitOf(buf, 6 * j + 5))
      BY <2>1, Cbd3Is, Zenon
    <2>4. /\ Ones(buf, 6 * j, 3) = BitOf(buf, 6 * j) + BitOf(buf, 6 * j + 1) + BitOf(buf, 6 * j + 2)
          /\ Ones(buf, 6 * j + 3, 3) = BitOf(buf, 6 * j + 3) + BitOf(buf, 6 * j + 4) + BitOf(buf, 6 * j + 5)
      BY <2>2, SixBits, Zenon
    <2> QED
      BY <2>3, <2>4, Zenon
  <1>2. ASSUME NEW buf \in [0 .. 127 -> 0 .. 255], NEW j \in Index
        PROVE  cbd2(buf)[j] = Ones(buf, 4 * j, 2) - Ones(buf, 4 * j + 2, 2)
    <2>1. \A g \in 0 .. 127 : buf[g] \in 0 .. 255
      BY <1>2, Zenon
    <2>2. \A n \in 0 .. 3 : BitOf(buf, 4 * j + n) \in 0 .. 1
      BY <2>1, FourInside, BitsAre, Zenon
    <2>3. cbd2(buf)[j] = (BitOf(buf, 4 * j) + BitOf(buf, 4 * j + 1)) - (BitOf(buf, 4 * j + 2) + BitOf(buf, 4 * j + 3))
      BY <2>1, Cbd2Is, Zenon
    <2>4. /\ Ones(buf, 4 * j, 2) = BitOf(buf, 4 * j) + BitOf(buf, 4 * j + 1)
          /\ Ones(buf, 4 * j + 2, 2) = BitOf(buf, 4 * j + 2) + BitOf(buf, 4 * j + 3)
      BY <2>2, FourBits, Zenon
    <2> QED
      BY <2>3, <2>4, Zenon
  <1> QED
    BY <1>1, <1>2
=============================================================================
