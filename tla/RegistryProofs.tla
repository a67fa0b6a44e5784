--------------------------- MODULE RegistryProofs ---------------------------
(* Proofs about Registry, for any number of threads, objects and cells.     *)
EXTENDS Registry, TLAPS

USE DEF INVALID_VALUE, NextNumber, Reach, FirstWrite, Addressee

\* The numbers a package code can hold, and handlers that ask for any of them.
Chars == -128 .. 127
AnyNext == NextFor(Chars)
AnySpec == Init /\ [][AnyNext]_dbVars

\* What holds whatever is asked for holds of the specification.
LEMMA SpecIsAny == Spec => AnySpec
  <1>1. Next => AnyNext
    BY PackIdxsAssumption DEF Next, AnyNext, NextFor, Chars
  <1> QED
    BY <1>1, PTL DEF Spec, AnySpec

\* The initial state of the database satisfies the inductive invariant.
LEMMA InitInv == Init => TypeOK /\ NumberingInv
  BY PtrAssumption, CapacityAssumption
     DEF Init, TypeOK, NumberingInv, CallInv, AloneInWindow, AboveFinished, InWindow,
         Numbered, InIncrement, Kinds, Object, Free, PackageState, Call, NoCall, Begin, New, PCs,
         CreatePCs, TakePCs

\* Assigning to a local of a call keeps its type.
LEMMA CallFields ==
  ASSUME NEW c \in Call
  PROVE  /\ \A x \in PCs : [c EXCEPT !.pc = x] \in Call
         /\ \A n \in Int : [c EXCEPT !.idx = n] \in Call /\ [c EXCEPT !.tmp = n] \in Call
         /\ \A p \in Ptr \cup {NoPtr} : /\ [c EXCEPT !.pack = p] \in Call
                                       /\ [c EXCEPT !.rkey = p] \in Call
                                       /\ [c EXCEPT !.dkey = p] \in Call
  BY DEF Call

\* A new object has a fresh address, so no other thread is creating it.
LEMMA AllocateInv ==
  ASSUME TypeOK, NumberingInv, NEW t \in Threads, NEW k \in Kinds,
         NEW s \in Int, NEW r \in Int, Idle(t), Allocate(t, k, s, r)
  PROVE  TypeOK' /\ NumberingInv'
  <1>1. PICK p \in Ptr :
          /\ obj[p].kind = "free"
          /\ obj' = [obj EXCEPT ![p] = New(k, s, r)]
          /\ call' = [call EXCEPT ![t] = Begin("constructed", k, p, -1, -1)]
          /\ UNCHANGED <<UniqueNumber, slots, status, given, raced>>
    BY DEF Allocate
  <1>2. TypeOK'
    <2>1. Begin("constructed", k, p, -1, -1) \in Call
      BY DEF Call, PCs, CreatePCs, Begin
    <2>2. New(k, s, r) \in Object
      BY DEF New, Object, PackageState
    <2> QED
      BY <1>1, <2>1, <2>2 DEF TypeOK
  <1>3. /\ call'[t].pc = "constructed" /\ call'[t].obj = p /\ call'[t].kind = k
        /\ \A u \in Threads \ {t} : call'[u] = call[u]
        /\ \A q \in Ptr \ {p} : obj'[q] = obj[q]
        /\ obj'[p].kind = k
    BY <1>1 DEF TypeOK, Begin, New
  <1>4. CallInv'
    <2>1. \A u \in Threads \ {t} : call[u].pc \in CreatePCs => call[u].obj # p
      BY <1>1 DEF NumberingInv, CallInv, TypeOK, Call, Kinds
    <2>2. ~Numbered(p)
      BY <1>1 DEF NumberingInv, CallInv
    <2> QED
      BY <1>1, <1>3, <2>1, <2>2 DEF NumberingInv, CallInv, Numbered, CreatePCs, Kinds
  <1>5. AloneInWindow'
    BY <1>1, <1>3 DEF NumberingInv, AloneInWindow, InWindow
  <1>6. AboveFinished'
    <2> SUFFICES ASSUME NEW q \in Ptr \ raced, Numbered(q)', ~InIncrement(q)'
                 PROVE  /\ UniqueNumber[obj'[q].kind] > given[q]
                        /\ \A u \in Threads : InWindow(u, obj[q].kind)' =>
                             /\ call'[u].idx > given[q]
                             /\ call'[u].pc = "loaded" => call'[u].tmp > given[q]
      BY <1>1 DEF AboveFinished, NumberingInv, CallInv, Numbered
    <2>1. q # p /\ Numbered(q)
      BY <1>1 DEF NumberingInv, CallInv, Numbered
    <2>2. ~InIncrement(q)
      BY <1>3, Idle(t) DEF InIncrement, Idle
    <2> QED
      BY <1>1, <1>3, <2>1, <2>2 DEF NumberingInv, AboveFinished, InWindow
  <1> QED
    BY <1>2, <1>4, <1>5, <1>6 DEF NumberingInv

\* First load of GetUniqueNumber: every increment in progress becomes raced.
LEMMA FetchInv ==
  ASSUME TypeOK, NumberingInv, NEW t \in Threads, FetchUnique(t)
  PROVE  TypeOK' /\ NumberingInv'
  <1> DEFINE p == call[t].obj
             k == call[t].kind
             n == UniqueNumber[k]
  <1>1. p \in Ptr /\ k \in Kinds /\ n \in Nat /\ obj[p].kind = k /\ ~Numbered(p)
    BY DEF FetchUnique, At, NumberingInv, CallInv, CreatePCs, TypeOK, Call
  <1>2. /\ call'[t].pc = "fetched" /\ call'[t].idx = n /\ call'[t].obj = p
        /\ call'[t].kind = k
        /\ \A u \in Threads \ {t} : call'[u] = call[u]
        /\ call[t].pc = "constructed"
    BY DEF FetchUnique, At, TypeOK, Call
  <1>3. /\ given' = [given EXCEPT ![p] = n]
        /\ UNCHANGED <<UniqueNumber, slots, obj, status>>
        /\ given'[p] = n /\ \A q \in Ptr \ {p} : given'[q] = given[q]
    BY <1>1 DEF FetchUnique, TypeOK
  <1>4. /\ raced \subseteq raced' /\ raced' \subseteq Ptr
        /\ \A u \in Threads \ {t} : InWindow(u, k) => call[u].obj \in raced' /\ p \in raced'
    <2>1. \A u \in Overlapping(t) \cup {t} : call[u].obj \in Ptr
      BY <1>1 DEF Overlapping, InWindow, NumberingInv, CallInv, CreatePCs
    <2> QED
      BY <2>1 DEF FetchUnique, Overlapping, TypeOK
  <1>5. TypeOK'
    <2>1. call' \in [Threads -> Call]
      <3> DEFINE c == [call[t] EXCEPT !.pc = "fetched"]
      <3>1. c \in Call
        BY CallFields DEF TypeOK, PCs, CreatePCs
      <3>2. call' = [call EXCEPT ![t] = [c EXCEPT !.idx = n]]
        BY DEF FetchUnique, TypeOK
      <3>3. [c EXCEPT !.idx = n] \in Call
        <4> HIDE DEF c, n
        <4> QED BY <1>1, <3>1, CallFields, n \in Int
      <3> QED
        BY <3>2, <3>3 DEF TypeOK
    <2> QED
      BY <1>1, <1>3, <1>4, <2>1 DEF TypeOK
  <1>6. CallInv'
    BY <1>1, <1>2, <1>3 DEF NumberingInv, CallInv, Numbered, CreatePCs, Kinds
  <1>7. AloneInWindow'
    <2> SUFFICES ASSUME NEW u \in Threads, NEW j \in Kinds, InWindow(u, j)',
                        call'[u].obj \notin raced'
                 PROVE  /\ \A v \in Threads \ {u} : ~InWindow(v, j)'
                        /\ UniqueNumber'[j] = call'[u].idx
                        /\ call'[u].pc = "loaded" => call'[u].tmp = call'[u].idx
      BY DEF AloneInWindow
    <2>1. CASE u = t
      BY <1>2, <1>3, <1>4, <2>1 DEF InWindow
    <2>2. CASE u # t
      <3>1. InWindow(u, j) /\ call[u].obj \notin raced /\ j # k
        BY <1>2, <1>4, <2>2 DEF InWindow
      <3> QED
        BY <1>2, <1>3, <2>2, <3>1 DEF NumberingInv, AloneInWindow, InWindow
    <2> QED
      BY <2>1, <2>2
  <1>8. AboveFinished'
    <2> SUFFICES ASSUME NEW q \in Ptr \ raced', Numbered(q)', ~InIncrement(q)'
                 PROVE  /\ UniqueNumber'[obj'[q].kind] > given'[q]
                        /\ \A u \in Threads : InWindow(u, obj[q].kind)' =>
                             /\ call'[u].idx > given'[q]
                             /\ call'[u].pc = "loaded" => call'[u].tmp > given'[q]
      BY DEF AboveFinished
    <2>1. q # p
      BY <1>2 DEF InIncrement
    <2>2. q \in Ptr \ raced /\ Numbered(q) /\ ~InIncrement(q)
      BY <1>2, <1>3, <1>4, <2>1 DEF Numbered, InIncrement
    <2> QED
      BY <1>1, <1>2, <1>3, <2>1, <2>2 DEF NumberingInv, AboveFinished, InWindow
  <1> QED
    BY <1>5, <1>6, <1>7, <1>8 DEF NumberingInv

\* Second load of GetUniqueNumber.
LEMMA LoadInv ==
  ASSUME TypeOK, NumberingInv, NEW t \in Threads, LoadUnique(t)
  PROVE  TypeOK' /\ NumberingInv'
  <1> DEFINE k == call[t].kind
             n == UniqueNumber[k]
  <1>1. k \in Kinds /\ n \in Nat
    BY DEF TypeOK, Call
  <1>2. /\ call'[t].pc = "loaded" /\ call'[t].idx = call[t].idx
        /\ call'[t].obj = call[t].obj /\ call'[t].kind = k /\ call'[t].tmp = n
        /\ \A u \in Threads \ {t} : call'[u] = call[u]
        /\ call[t].pc = "fetched"
        /\ UNCHANGED <<UniqueNumber, slots, obj, status, given, raced>>
    BY DEF LoadUnique, At, TypeOK, Call
  <1>3. TypeOK'
    <2>1. call' \in [Threads -> Call]
      <3> DEFINE c == [call[t] EXCEPT !.pc = "loaded"]
      <3>1. c \in Call
        BY CallFields DEF TypeOK, PCs, CreatePCs
      <3>2. call' = [call EXCEPT ![t] = [c EXCEPT !.tmp = n]]
        BY DEF LoadUnique, TypeOK
      <3>3. [c EXCEPT !.tmp = n] \in Call
        <4> HIDE DEF c, n
        <4> QED BY <1>1, <3>1, CallFields, n \in Int
      <3> QED
        BY <3>2, <3>3 DEF TypeOK
    <2> QED
      BY <1>2, <2>1 DEF TypeOK
  <1>4. CallInv'
    BY <1>1, <1>2 DEF NumberingInv, CallInv, Numbered, CreatePCs
  <1>5. AloneInWindow'
    BY <1>2 DEF NumberingInv, AloneInWindow, InWindow
  <1>6. AboveFinished'
    <2>1. \A q \in Ptr : InIncrement(q)' <=> InIncrement(q)
      BY <1>2 DEF InIncrement
    <2> QED
      BY <1>1, <1>2, <2>1 DEF NumberingInv, AboveFinished, InWindow, Numbered
  <1> QED
    BY <1>3, <1>4, <1>5, <1>6 DEF NumberingInv

\* The store of GetUniqueNumber: an increment that was alone moves the counter
\* from its number to the next one.
LEMMA StoreUniqueInv ==
  ASSUME TypeOK, NumberingInv, NEW t \in Threads, StoreUnique(t)
  PROVE  TypeOK' /\ NumberingInv'
  <1> DEFINE p == call[t].obj
             k == call[t].kind
             m == call[t].tmp
  <1>1. k \in Kinds /\ m \in Nat /\ p \in Ptr /\ obj[p].kind = k /\ given[p] = call[t].idx
        /\ given[p] \in Int /\ InWindow(t, k)
    BY DEF TypeOK, Call, StoreUnique, At, NumberingInv, CallInv, CreatePCs, InWindow
  <1>2. /\ call'[t].pc = "stored" /\ call'[t].idx = call[t].idx
        /\ call'[t].obj = p /\ call'[t].kind = k
        /\ \A u \in Threads \ {t} : call'[u] = call[u]
        /\ call[t].pc = "loaded"
        /\ UNCHANGED <<slots, obj, status, given, raced>>
    BY DEF StoreUnique, At, TypeOK, Call
  <1>3. UniqueNumber'[k] = m + 1 /\ \A j \in Kinds \ {k} : UniqueNumber'[j] = UniqueNumber[j]
    BY <1>1 DEF StoreUnique, TypeOK
  <1>4. TypeOK'
    <2>1. call' \in [Threads -> Call]
      BY <1>1 DEF StoreUnique, TypeOK, Call, PCs, CreatePCs
    <2>2. UniqueNumber' \in [Kinds -> Nat]
      BY <1>1 DEF StoreUnique, TypeOK
    <2> QED
      BY <1>2, <2>1, <2>2 DEF TypeOK
  <1>5. CallInv'
    BY <1>1, <1>2 DEF NumberingInv, CallInv, Numbered, CreatePCs
  <1>6. AloneInWindow'
    <2> SUFFICES ASSUME NEW u \in Threads, NEW j \in Kinds, InWindow(u, j)',
                        call'[u].obj \notin raced'
                 PROVE  /\ \A v \in Threads \ {u} : ~InWindow(v, j)'
                        /\ UniqueNumber'[j] = call'[u].idx
                        /\ call'[u].pc = "loaded" => call'[u].tmp = call'[u].idx
      BY DEF AloneInWindow
    <2>1. u # t /\ InWindow(u, j) /\ call[u].obj \notin raced
      BY <1>2 DEF InWindow
    <2>2. j # k
      BY <1>1, <2>1 DEF NumberingInv, AloneInWindow
    <2> QED
      BY <1>2, <1>3, <2>1, <2>2 DEF NumberingInv, AloneInWindow, InWindow
  <1>7. AboveFinished'
    <2> SUFFICES ASSUME NEW q \in Ptr \ raced, Numbered(q), ~InIncrement(q)'
                 PROVE  /\ UniqueNumber'[obj[q].kind] > given[q]
                        /\ \A u \in Threads : InWindow(u, obj[q].kind)' =>
                             /\ call'[u].idx > given[q]
                             /\ call'[u].pc = "loaded" => call'[u].tmp > given[q]
      BY <1>2 DEF AboveFinished, Numbered
    <2>1. CASE q = p
      BY <1>1, <1>2, <1>3, <2>1 DEF NumberingInv, AloneInWindow, InWindow
    <2>2. CASE q # p
      <3>1. ~InIncrement(q)
        BY <1>2, <2>2 DEF InIncrement
      <3>2. obj[q].kind \in Kinds /\ given[q] \in Int
        <4>1. obj[q].kind # "free"
          BY DEF NumberingInv, CallInv
        <4> QED
          BY <4>1 DEF TypeOK, Object
      <3> QED
        BY <1>1, <1>2, <1>3, <2>2, <3>1, <3>2 DEF NumberingInv, AboveFinished, InWindow
    <2> QED
      BY <2>1, <2>2
  <1> QED
    BY <1>4, <1>5, <1>6, <1>7 DEF NumberingInv

\* Steps outside GetUniqueNumber leave the numbering alone.
LEMMA FrameInv ==
  ASSUME TypeOK, NumberingInv, NEW t \in Threads,
         UNCHANGED <<UniqueNumber, given, raced>>,
         \A p \in Ptr : obj'[p].kind = obj[p].kind,
         \A u \in Threads \ {t} : call'[u] = call[u],
         call[t].pc \notin {"fetched", "loaded"},
         call'[t].pc \notin CreatePCs \/ call'[t] = call[t]
  PROVE  NumberingInv'
  <1>1. CallInv'
    BY DEF NumberingInv, CallInv, Numbered, CreatePCs
  <1>2. AloneInWindow'
    BY DEF NumberingInv, AloneInWindow, InWindow, CreatePCs
  <1>3. AboveFinished'
    <2>1. \A q \in Ptr : InIncrement(q)' <=> InIncrement(q)
      BY DEF InIncrement, CreatePCs
    <2> QED
      BY <2>1 DEF NumberingInv, AboveFinished, InWindow, Numbered, CreatePCs
  <1> QED
    BY <1>1, <1>2, <1>3 DEF NumberingInv

\* The remaining steps do not touch a counter.
LEMMA StoreSlotInv ==
  ASSUME TypeOK, NumberingInv, NEW t \in Threads, StoreSlot(t)
  PROVE  TypeOK' /\ NumberingInv'
  <1>1. call[t].obj \in Ptr /\ call[t].pc = "stored"
    BY DEF StoreSlot, At, NumberingInv, CallInv, CreatePCs
  <1>2. TypeOK'
    <2>1. [call[t] EXCEPT !.pc = "done"] \in Call
      BY CallFields DEF TypeOK, PCs
    <2>2. call' \in [Threads -> Call]
      BY <2>1 DEF StoreSlot, TypeOK
    <2>3. slots' \in [Cells -> Ptr \cup {NoPtr}]
      BY <1>1 DEF StoreSlot, TypeOK
    <2> QED
      BY <2>2, <2>3 DEF StoreSlot, TypeOK
  <1>3. call'[t].pc = "done" \/ call'[t] = call[t]
    BY DEF StoreSlot, TypeOK, Call
  <1>4. \A u \in Threads \ {t} : call'[u] = call[u]
    BY DEF StoreSlot, TypeOK
  <1>5. UNCHANGED <<UniqueNumber, given, raced, obj>>
    BY DEF StoreSlot
  <1>6. NumberingInv'
    BY <1>1, <1>3, <1>4, <1>5, FrameInv DEF CreatePCs
  <1> QED
    BY <1>2, <1>6

LEMMA TakeLookupInv ==
  ASSUME TypeOK, NumberingInv, NEW t \in Threads, NEW p \in Int, NEW d \in Int,
         TakeLookup(t, p, d)
  PROVE  TypeOK' /\ NumberingInv'
  <1>1. Get("Package", p) \in Ptr \cup {NoPtr}
    BY DEF Get, TypeOK
  <1>2. Begin("looked", "Package", Get("Package", p), p, d) \in Call
    BY <1>1 DEF Begin, Call, PCs, TakePCs, Kinds
  <1>3. /\ \/ call' = [call EXCEPT ![t] = Begin("looked", "Package", Get("Package", p), p, d)]
           \/ call' = call
        /\ status' \in {"running", "aborted", "undefined"}
        /\ UNCHANGED <<UniqueNumber, slots, obj, given, raced>>
        /\ call[t].pc = "idle"
    BY DEF TakeLookup, TypeOK, Fault, Idle
  <1>4. TypeOK'
    BY <1>2, <1>3 DEF TypeOK
  <1>5. call'[t].pc \in {"idle", "looked"} /\ \A u \in Threads \ {t} : call'[u] = call[u]
    BY <1>3 DEF TypeOK, Begin
  <1>6. NumberingInv'
    BY <1>3, <1>5, FrameInv DEF CreatePCs
  <1> QED
    BY <1>4, <1>6

LEMMA TakeAssignInv ==
  ASSUME TypeOK, NumberingInv, NEW t \in Threads, TakeAssign(t)
  PROVE  TypeOK' /\ NumberingInv'
  <1>1. CASE Readable("Package", call[t].idx)
    <2> DEFINE p == Get("Package", call[t].idx)
               c == [call[t] EXCEPT !.pc = "assigned"]
    <2>1. /\ p \in Ptr /\ call[t].pc = "looked" /\ call[t].man \in Int
          /\ obj' = [obj EXCEPT ![p].DeliveryManIdx = call[t].man]
          /\ UNCHANGED <<UniqueNumber, slots, status, given, raced>>
      BY <1>1 DEF TakeAssign, Readable, At, TypeOK, Call
    <2>2. obj' \in [Ptr -> Object] /\ \A q \in Ptr : obj'[q].kind = obj[q].kind
      BY <2>1 DEF TypeOK, Object
    <2>3. c \in Call
      BY CallFields DEF TypeOK, PCs, TakePCs
    <2>4. [c EXCEPT !.pack = p] \in Call
      <3> HIDE DEF c, p
      <3> QED BY <2>1, <2>3, CallFields
    <2>5. call' = [call EXCEPT ![t] = [c EXCEPT !.pack = p]]
      BY <1>1 DEF TakeAssign, TypeOK
    <2>6. TypeOK'
      BY <2>1, <2>2, <2>4, <2>5 DEF TypeOK
    <2>7. call'[t].pc = "assigned" /\ \A u \in Threads \ {t} : call'[u] = call[u]
      BY <2>5 DEF TypeOK, Call
    <2>8. NumberingInv'
      BY <2>1, <2>2, <2>7, FrameInv DEF CreatePCs
    <2> QED
      BY <2>6, <2>8
  <1>2. CASE ~Readable("Package", call[t].idx)
    <2>1. /\ UNCHANGED <<UniqueNumber, slots, obj, call, given, raced>>
          /\ status' \in {"aborted", "undefined"} /\ call[t].pc = "looked"
      BY <1>2 DEF TakeAssign, Fault, At
    <2>2. TypeOK'
      BY <2>1 DEF TypeOK
    <2>3. NumberingInv'
      BY <2>1, FrameInv
    <2> QED
      BY <2>2, <2>3
  <1> QED
    BY <1>1, <1>2

LEMMA TakeStateInv ==
  ASSUME TypeOK, NumberingInv, NEW t \in Threads, TakeState(t)
  PROVE  TypeOK' /\ NumberingInv'
  <1>1. /\ call[t].pc = "assigned"
        /\ UNCHANGED <<UniqueNumber, slots, status, given, raced>>
        /\ obj' = [obj EXCEPT ![call[t].pack].State = "OnDelivery"]
        /\ call' = [call EXCEPT ![t] = [call[t] EXCEPT !.pc = "onDelivery"]]
    BY DEF TakeState, At, TypeOK
  <1>2. obj' \in [Ptr -> Object] /\ \A q \in Ptr : obj'[q].kind = obj[q].kind
    BY <1>1, ZenonT(60) DEF TypeOK, Object, PackageState
  <1>3. [call[t] EXCEPT !.pc = "onDelivery"] \in Call
    BY CallFields DEF TypeOK, PCs, TakePCs
  <1>4. TypeOK'
    BY <1>1, <1>2, <1>3 DEF TypeOK
  <1>5. call'[t].pc = "onDelivery" /\ \A u \in Threads \ {t} : call'[u] = call[u]
    BY <1>1 DEF TypeOK, Call
  <1>6. NumberingInv'
    BY <1>1, <1>2, <1>5, FrameInv DEF CreatePCs
  <1> QED
    BY <1>4, <1>6

LEMMA TakeEncryptInv ==
  ASSUME TypeOK, NumberingInv, NEW t \in Threads, TakeEncrypt(t)
  PROVE  TypeOK' /\ NumberingInv'
  <1> DEFINE r == Get("User", obj[call[t].pack].ReceiverIdx)
             d == Get("DeliveryMan", call[t].man)
             c == [call[t] EXCEPT !.pc = "done"]
             e == [c EXCEPT !.rkey = r]
  <1>1. r \in Ptr \cup {NoPtr} /\ d \in Ptr \cup {NoPtr}
    BY DEF Get, TypeOK
  <1>2. /\ \/ call' = [call EXCEPT ![t] = [e EXCEPT !.dkey = d]]
           \/ call' = call
        /\ status' \in {"running", "aborted", "undefined"}
        /\ UNCHANGED <<UniqueNumber, slots, obj, given, raced>>
        /\ call[t].pc = "onDelivery"
    BY DEF TakeEncrypt, TypeOK, Fault, At
  <1>3. c \in Call
    BY CallFields DEF TypeOK, PCs
  <1>4. e \in Call
    <2> HIDE DEF c, r
    <2> QED BY <1>1, <1>3, CallFields
  <1>5. [e EXCEPT !.dkey = d] \in Call
    <2> HIDE DEF e, d
    <2> QED BY <1>1, <1>4, CallFields
  <1>6. [e EXCEPT !.dkey = d].pc = "done"
    BY DEF TypeOK, Call
  <1> HIDE DEF e, d
  <1>7. TypeOK'
    BY <1>2, <1>5 DEF TypeOK
  <1>8. /\ call'[t].pc \in {"onDelivery", "done"}
        /\ \A u \in Threads \ {t} : call'[u] = call[u]
    BY <1>2, <1>6 DEF TypeOK
  <1>9. NumberingInv'
    BY <1>2, <1>8, FrameInv DEF CreatePCs
  <1> QED
    BY <1>7, <1>9

LEMMA ReturnInv ==
  ASSUME TypeOK, NumberingInv, NEW t \in Threads, Return(t)
  PROVE  TypeOK' /\ NumberingInv'
  <1>1. NoCall \in Call /\ NoCall.pc = "idle"
    BY DEF NoCall, Begin, Call, PCs, Kinds
  <1>2. TypeOK'
    BY <1>1 DEF Return, At, Fault, TypeOK
  <1>3. /\ call'[t].pc = "idle" /\ call[t].pc = "done"
        /\ \A u \in Threads \ {t} : call'[u] = call[u]
    BY <1>1 DEF Return, At, TypeOK
  <1>4. NumberingInv'
    BY <1>3, FrameInv DEF Return, CreatePCs
  <1> QED
    BY <1>2, <1>4

\* Every step of the database preserves types and the numbering invariant.
LEMMA NextInv == TypeOK /\ NumberingInv /\ [AnyNext]_dbVars => TypeOK' /\ NumberingInv'
  <1> SUFFICES ASSUME TypeOK, NumberingInv, [AnyNext]_dbVars
               PROVE  TypeOK' /\ NumberingInv'
    OBVIOUS
  <1>1. ASSUME NEW t \in Threads, NEW k \in Persons, NEW fits \in BOOLEAN, NewPerson(t, k, fits)
        PROVE  TypeOK' /\ NumberingInv'
    <2>1. CASE Allocate(t, k, -1, -1)
      BY <1>1, <2>1, AllocateInv DEF NewPerson, Kinds, Persons
    <2>2. CASE status' = "aborted" /\ UNCHANGED <<UniqueNumber, slots, obj, call, given, raced>>
      <3>1. TypeOK'
        BY <2>2 DEF TypeOK
      <3>2. NumberingInv'
        BY <1>1, <2>2, FrameInv DEF NewPerson, Idle
      <3> QED
        BY <3>1, <3>2
    <2> QED
      BY <1>1, <2>1, <2>2 DEF NewPerson
  <1>2. ASSUME NEW t \in Threads, NEW i \in NamePrinted("User"), NEW r \in NamePrinted("User"),
               NewPackage(t, i, r)
        PROVE  TypeOK' /\ NumberingInv'
    <2>1. i \in Int /\ r \in Int
      BY CapacityAssumption DEF NamePrinted, Base, Kinds
    <2> QED
      BY <1>2, <2>1, AllocateInv DEF NewPackage, Kinds
  <1>3. ASSUME NEW t \in Threads, NEW p \in Chars, NEW d \in NamePrinted("DeliveryMan"),
               TakeLookup(t, p, d)
        PROVE  TypeOK' /\ NumberingInv'
    <2>1. p \in Int /\ d \in Int
      BY CapacityAssumption DEF Chars, NamePrinted, Base, Kinds
    <2> QED
      BY <1>3, <2>1, TakeLookupInv
  <1>4. ASSUME NEW t \in Threads, CallStep(t)
        PROVE  TypeOK' /\ NumberingInv'
    BY <1>4, FetchInv, LoadInv, StoreUniqueInv, StoreSlotInv, TakeAssignInv, TakeStateInv,
       TakeEncryptInv DEF CallStep
  <1>5. ASSUME NEW t \in Threads, Return(t)
        PROVE  TypeOK' /\ NumberingInv'
    BY <1>5, ReturnInv
  <1>6. ASSUME NEW t \in Threads, LookupFails(t) PROVE TypeOK' /\ NumberingInv'
    <2>1. TypeOK'
      BY <1>6 DEF LookupFails, Fault, TypeOK
    <2> QED
      BY <1>6, <2>1, FrameInv DEF LookupFails, Idle
  <1>7. CASE UNCHANGED dbVars
    BY <1>7 DEF dbVars, TypeOK, NumberingInv, CallInv, AloneInWindow, AboveFinished, InWindow,
                Numbered, InIncrement
  <1> QED
    BY <1>1, <1>2, <1>3, <1>4, <1>5, <1>6, <1>7 DEF AnyNext, NextFor

\* The database keeps its types, and numbering its invariant, in every behaviour.
THEOREM RegistryInv == Spec => [](TypeOK /\ NumberingInv)
  BY InitInv, NextInv, SpecIsAny, PTL DEF AnySpec

\* Type correctness of the database for any number of threads and objects.
THEOREM RegistryTypes == Spec => []TypeOK
  BY RegistryInv, PTL

\* A number already given to an unraced object is not given again: the only
\* step that numbers an object is the first load, and the counter is above it.
LEMMA UniqueStep ==
  TypeOK /\ NumberingInv /\ UniqueUnlessRaced /\ [AnyNext]_dbVars => UniqueUnlessRaced'
  <1> SUFFICES ASSUME TypeOK, NumberingInv, UniqueUnlessRaced, [AnyNext]_dbVars
               PROVE  UniqueUnlessRaced'
    OBVIOUS
  <1>1. ASSUME NEW t \in Threads, FetchUnique(t)
        PROVE  UniqueUnlessRaced'
    <2> DEFINE o == call[t].obj
               n == UniqueNumber[call[t].kind]
    <2>1. o \in Ptr /\ obj[o].kind = call[t].kind /\ call[t].kind \in Kinds /\ n \in Nat
      BY <1>1 DEF FetchUnique, At, NumberingInv, CallInv, CreatePCs, TypeOK, Call
    <2>2. /\ given'[o] = n /\ \A q \in Ptr \ {o} : given'[q] = given[q]
          /\ obj' = obj /\ raced \subseteq raced'
      BY <1>1, <2>1 DEF FetchUnique, TypeOK
    <2>3. \A u \in Threads \ {t} : InWindow(u, call[t].kind) => call[u].obj \in raced'
      BY <1>1 DEF FetchUnique, Overlapping
    <2>4. ASSUME NEW q \in Ptr \ {o}, Numbered(q), obj[q].kind = call[t].kind, q \notin raced'
          PROVE  given[q] # n
      <3>1. ~InIncrement(q)
        <4> SUFFICES ASSUME NEW u \in Threads, call[u].pc \in {"fetched", "loaded"},
                            call[u].obj = q
                     PROVE  FALSE
          BY DEF InIncrement
        <4>1. call[u].kind = call[t].kind /\ u # t
          BY <1>1, <2>4 DEF NumberingInv, CallInv, CreatePCs, FetchUnique, At
        <4> QED
          BY <2>3, <2>4, <4>1 DEF InWindow
      <3> QED
        BY <2>1, <2>2, <2>4, <3>1 DEF NumberingInv, AboveFinished, TypeOK
    <2> QED
      BY <2>1, <2>2, <2>4 DEF UniqueUnlessRaced, Numbered
  <1>2. ASSUME NEW t \in Threads, NEW k \in Kinds, NEW i \in Int, NEW r \in Int,
               Allocate(t, k, i, r)
        PROVE  UniqueUnlessRaced'
    BY <1>2 DEF Allocate, UniqueUnlessRaced, Numbered, NumberingInv, CallInv, TypeOK
  <1>3. ASSUME UNCHANGED <<given, raced>>, \A p \in Ptr : obj'[p].kind = obj[p].kind
        PROVE  UniqueUnlessRaced'
    BY <1>3 DEF UniqueUnlessRaced, Numbered
  <1>4. ASSUME NEW t \in Threads, NEW k \in Persons, NEW fits \in BOOLEAN, NewPerson(t, k, fits)
        PROVE  UniqueUnlessRaced'
    BY <1>2, <1>3, <1>4 DEF NewPerson, Kinds, Persons
  <1>5. ASSUME NEW t \in Threads, NEW i \in NamePrinted("User"), NEW r \in NamePrinted("User"),
               NewPackage(t, i, r)
        PROVE  UniqueUnlessRaced'
    <2>1. i \in Int /\ r \in Int
      BY CapacityAssumption DEF NamePrinted, Base, Kinds
    <2> QED
      BY <1>2, <1>5, <2>1 DEF NewPackage, Kinds
  <1>6. ASSUME NEW t \in Threads, TakeAssign(t) \/ TakeState(t)
        PROVE  UniqueUnlessRaced'
    <2>1. \A p \in Ptr : obj'[p].kind = obj[p].kind
      BY <1>6 DEF TakeAssign, TakeState, TypeOK, Object
    <2> QED
      BY <1>3, <1>6, <2>1 DEF TakeAssign, TakeState
  <1>7. ASSUME NEW t \in Threads, CallStep(t)
        PROVE  UniqueUnlessRaced'
    BY <1>1, <1>3, <1>6, <1>7 DEF CallStep, LoadUnique, StoreUnique, StoreSlot, TakeEncrypt
  <1>8. ASSUME NEW t \in Threads, NEW p \in Chars, NEW d \in NamePrinted("DeliveryMan"),
               TakeLookup(t, p, d)
        PROVE  UniqueUnlessRaced'
    BY <1>3, <1>8 DEF TakeLookup
  <1>9. ASSUME NEW t \in Threads, Return(t)
        PROVE  UniqueUnlessRaced'
    BY <1>3, <1>9 DEF Return
  <1>10. ASSUME NEW t \in Threads, LookupFails(t)
         PROVE  UniqueUnlessRaced'
    BY <1>3, <1>10 DEF LookupFails
  <1>11. CASE UNCHANGED dbVars
    BY <1>3, <1>11 DEF dbVars
  <1> QED
    BY <1>4, <1>5, <1>7, <1>8, <1>9, <1>10, <1>11 DEF AnyNext, NextFor

\* Two objects share a number only if one of their increments overlapped
\* another: however many threads register however many objects.
THEOREM UniqueNumbers == Spec => []UniqueUnlessRaced
  <1>1. Init => UniqueUnlessRaced
    BY DEF Init, UniqueUnlessRaced, Numbered
  <1> QED
    BY <1>1, RegistryInv, UniqueStep, SpecIsAny, PTL DEF AnySpec

\* A store of `UniqueNumber++' moves the counter back only if it was raced.
THEOREM CounterBack == Spec => CounterBackOnlyIfRaced
  <1>1. ASSUME TypeOK, NumberingInv, [AnyNext]_dbVars, NEW k \in Kinds,
               UniqueNumber'[k] < UniqueNumber[k]
        PROVE  \E t \in Threads : /\ call[t].pc = "loaded" /\ call[t].kind = k
                                  /\ call[t].obj \in raced
    <2>1. UniqueNumber' # UniqueNumber
      BY <1>1 DEF TypeOK
    <2>2. PICK t \in Threads : StoreUnique(t)
      BY <1>1, <2>1 DEF AnyNext, NextFor, CallStep, dbVars, NewPerson, NewPackage, Allocate, TakeLookup,
                        FetchUnique, LoadUnique, StoreSlot, TakeAssign, TakeState, TakeEncrypt,
                        LookupFails, Return
    <2>3. call[t].pc = "loaded" /\ call[t].kind = k /\ call[t].tmp + 1 < UniqueNumber[k]
      BY <1>1, <2>2 DEF StoreUnique, At, TypeOK, Call
    <2>4. call[t].obj \in raced
      BY <1>1, <2>3 DEF NumberingInv, CallInv, AloneInWindow, InWindow, TypeOK
    <2> QED
      BY <2>3, <2>4
  <1>2. TypeOK /\ NumberingInv /\ [AnyNext]_dbVars =>
          [\A k \in Kinds : UniqueNumber'[k] < UniqueNumber[k]
             => \E t \in Threads : /\ call[t].pc = "loaded" /\ call[t].kind = k
                                   /\ call[t].obj \in raced]_dbVars
    BY <1>1
  <1> QED
    BY <1>2, RegistryInv, SpecIsAny, PTL DEF AnySpec, CounterBackOnlyIfRaced

----------------------------------------------------------------------------
(* Registry implements Parcel.                                              *)

\* What a thread in the middle of a take knows: the man has a number, and once
\* he is assigned the object is a package in the hands of somebody.
TakeInv ==
  \A t \in Threads :
    /\ call[t].pc = "looked" => call[t].man \in Reach("DeliveryMan")
    /\ call[t].pc = "assigned" =>
         /\ call[t].pack \in Ptr
         /\ obj[call[t].pack].kind = "Package"
         /\ obj[call[t].pack].DeliveryManIdx \in Reach("DeliveryMan")

\* The numbers of delivery men are natural numbers.
LEMMA ManNumbers == Reach("DeliveryMan") \subseteq Nat
  BY CapacityAssumption DEF Base, Kinds

\* Steps that leave all packages, and what takes know of them, as they were.
LEMMA TakeFrame ==
  ASSUME TakeInv, NEW t \in Threads,
         \A u \in Threads \ {t} : call'[u] = call[u],
         call'[t].pc \notin {"looked", "assigned"},
         \A q \in Ptr : obj[q].kind = "Package" => obj'[q] = obj[q]
  PROVE  TakeInv'
  BY DEF TakeInv

\* A new object takes the place of none that was a package.
LEMMA AllocateTake ==
  ASSUME TypeOK, TakeInv, NEW t \in Threads, NEW k \in Kinds, NEW s \in Int, NEW r \in Int,
         Allocate(t, k, s, r)
  PROVE  TakeInv'
  <1>1. PICK p \in Ptr :
          /\ obj[p].kind = "free"
          /\ obj' = [obj EXCEPT ![p] = New(k, s, r)]
          /\ call' = [call EXCEPT ![t] = Begin("constructed", k, p, -1, -1)]
    BY DEF Allocate
  <1>2. /\ \A u \in Threads \ {t} : call'[u] = call[u]
        /\ call'[t].pc = "constructed"
        /\ \A q \in Ptr \ {p} : obj'[q] = obj[q]
    BY <1>1 DEF TypeOK, Begin
  <1> QED
    BY <1>1, <1>2, TakeFrame

\* The first write of a take: the man, into the package found.
LEMMA AssignTake ==
  ASSUME TypeOK, TakeInv, NEW t \in Threads, TakeAssign(t)
  PROVE  TakeInv'
  <1>1. CASE Readable("Package", call[t].idx)
    <2> DEFINE p == Get("Package", call[t].idx)
    <2>1. p \in Ptr /\ obj[p].kind = "Package" /\ call[t].man \in Reach("DeliveryMan")
      BY <1>1 DEF Readable, Persons, TakeAssign, At, TakeInv
    <2>2. /\ obj' = [obj EXCEPT ![p] = [obj[p] EXCEPT !.DeliveryManIdx = call[t].man]]
          /\ call' = [call EXCEPT ![t].pc = "assigned", ![t].pack = p]
      BY <1>1 DEF TakeAssign
    <2> HIDE DEF p
    <2>3. /\ obj'[p].kind = "Package" /\ obj'[p].DeliveryManIdx = call[t].man
          /\ \A q \in Ptr \ {p} : obj'[q] = obj[q]
      BY <2>1, <2>2 DEF TypeOK, Object
    <2>4. /\ call'[t].pc = "assigned" /\ call'[t].pack = p
          /\ \A u \in Threads \ {t} : call'[u] = call[u]
      BY <2>2 DEF TypeOK, Call
    <2> QED
      BY <2>1, <2>3, <2>4 DEF TakeInv
  <1>2. CASE ~Readable("Package", call[t].idx)
    BY <1>2 DEF TakeAssign, TakeInv
  <1> QED
    BY <1>1, <1>2

\* The second write: the state.
LEMMA StateTake ==
  ASSUME TypeOK, TakeInv, NEW t \in Threads, TakeState(t)
  PROVE  TakeInv'
  <1> DEFINE p == call[t].pack
  <1>1. /\ p \in Ptr
        /\ obj' = [obj EXCEPT ![p] = [obj[p] EXCEPT !.State = "OnDelivery"]]
        /\ call' = [call EXCEPT ![t].pc = "onDelivery"]
    BY DEF TakeState, At, TakeInv, TypeOK
  <1> HIDE DEF p
  <1>2. /\ obj'[p].kind = obj[p].kind /\ obj'[p].DeliveryManIdx = obj[p].DeliveryManIdx
        /\ \A q \in Ptr \ {p} : obj'[q] = obj[q]
    BY <1>1 DEF TypeOK, Object
  <1>3. call'[t].pc = "onDelivery" /\ \A u \in Threads \ {t} : call'[u] = call[u]
    BY <1>1 DEF TypeOK, Call
  <1> QED
    BY <1>1, <1>2, <1>3 DEF TakeInv

\* What takes know is kept by every step.
LEMMA TakeStep ==
  TypeOK /\ TakeInv /\ [AnyNext]_dbVars => TakeInv'
  <1> SUFFICES ASSUME TypeOK, TakeInv, [AnyNext]_dbVars
               PROVE  TakeInv'
    OBVIOUS
  <1>1. ASSUME NEW t \in Threads, NEW k \in Persons, NEW fits \in BOOLEAN, NewPerson(t, k, fits)
        PROVE  TakeInv'
    <2>1. k \in Kinds
      BY DEF Persons, Kinds
    <2>2. ASSUME UNCHANGED <<obj, call>> PROVE TakeInv'
      BY <2>2 DEF TakeInv
    <2> QED
      BY <1>1, <2>1, <2>2, AllocateTake DEF NewPerson
  <1>2. ASSUME NEW t \in Threads, NEW i \in NamePrinted("User"), NEW r \in NamePrinted("User"),
               NewPackage(t, i, r)
        PROVE  TakeInv'
    <2>1. i \in Int /\ r \in Int
      BY CapacityAssumption DEF NamePrinted, Base, Kinds
    <2> QED
      BY <1>2, <2>1, AllocateTake DEF NewPackage, Kinds
  <1>3. ASSUME NEW t \in Threads, NEW p \in Chars, NEW d \in NamePrinted("DeliveryMan"),
               TakeLookup(t, p, d)
        PROVE  TakeInv'
    <2>1. d \in Reach("DeliveryMan")
      BY DEF NamePrinted
    <2>2. CASE UNCHANGED call
      BY <1>3, <2>2 DEF TakeLookup, TakeInv
    <2>3. CASE call' = [call EXCEPT ![t] = Begin("looked", "Package", Get("Package", p), p, d)]
      <3>1. /\ call'[t].pc = "looked" /\ call'[t].man = d
            /\ \A u \in Threads \ {t} : call'[u] = call[u]
        BY <2>3 DEF TypeOK, Begin
      <3> QED
        BY <1>3, <2>1, <3>1 DEF TakeLookup, TakeInv
    <2> QED
      BY <1>3, <2>2, <2>3 DEF TakeLookup
  <1>4. ASSUME NEW t \in Threads, CallStep(t)
        PROVE  TakeInv'
    <2>1. ASSUME UNCHANGED obj, \A u \in Threads \ {t} : call'[u] = call[u],
                 call'[t].pc \notin {"looked", "assigned"} \/ call' = call
          PROVE  TakeInv'
      BY <2>1 DEF TakeInv
    <2>2. CASE FetchUnique(t)
      BY <2>1, <2>2 DEF FetchUnique, TypeOK, Call
    <2>3. CASE LoadUnique(t) \/ StoreUnique(t)
      BY <2>1, <2>3 DEF LoadUnique, StoreUnique, TypeOK, Call
    <2>4. CASE StoreSlot(t)
      BY <2>1, <2>4 DEF StoreSlot, TypeOK, Call
    <2>5. CASE TakeEncrypt(t)
      BY <2>1, <2>5 DEF TakeEncrypt, TypeOK, Call
    <2> QED
      BY <1>4, <2>2, <2>3, <2>4, <2>5, AssignTake, StateTake DEF CallStep
  <1>5. ASSUME NEW t \in Threads, Return(t)
        PROVE  TakeInv'
    BY <1>5, TakeFrame DEF Return, NoCall, Begin, TypeOK
  <1>6. ASSUME NEW t \in Threads, LookupFails(t)
        PROVE  TakeInv'
    BY <1>6 DEF LookupFails, TakeInv
  <1>7. CASE UNCHANGED dbVars
    BY <1>7 DEF dbVars, TakeInv
  <1> QED
    BY <1>1, <1>2, <1>3, <1>4, <1>5, <1>6, <1>7 DEF AnyNext, NextFor

\* A new package is a registration, with two indices somebody was found under;
\* a new person is no step of a package.
LEMMA AllocateLife ==
  ASSUME TypeOK, NEW t \in Threads, NEW k \in Kinds, NEW s \in Int, NEW r \in Int,
         k = "Package" => s \in Reach("User") /\ r \in Reach("User"),
         Allocate(t, k, s, r)
  PROVE  [Life!Next]_(Life!vars)
  <1>1. PICK p \in Ptr :
          obj[p].kind = "free" /\ obj' = [obj EXCEPT ![p] = New(k, s, r)]
    BY DEF Allocate
  <1>2. obj \in [Ptr -> Object] /\ obj' \in [Ptr -> Object]
    BY <1>1 DEF TypeOK, New, Object, PackageState
  <1>3. CASE k = "Package"
    <2> DEFINE state == [q \in Ptr |-> PackageOr(q, obj[q].State, "none")]
               parties == [q \in Ptr |-> PackageOr(q, <<obj[q].SenderIdx, obj[q].ReceiverIdx>>,
                                                      <<INVALID_VALUE, INVALID_VALUE>>)]
               man == [q \in Ptr |-> PackageOr(q, obj[q].DeliveryManIdx, INVALID_VALUE)]
    <2>1. /\ obj'[p].kind = "Package" /\ obj'[p].State = "Idle"
          /\ obj'[p].SenderIdx = s /\ obj'[p].ReceiverIdx = r /\ obj'[p].DeliveryManIdx = -1
          /\ \A q \in Ptr \ {p} : obj'[q] = obj[q]
      BY <1>1, <1>2, <1>3 DEF New
    <2>2. state[p] = "none" /\ state' = [state EXCEPT ![p] = "Idle"]
      <3>0. state[p] = "none"
        BY <1>1, <2>1 DEF PackageOr
      <3>1. \A q \in Ptr : state'[q] = IF q = p THEN "Idle" ELSE state[q]
        BY <1>1, <2>1 DEF PackageOr
      <3>2. state = [q \in Ptr |-> state[q]] /\ state' = [q \in Ptr |-> state'[q]]
        OBVIOUS
      <3> HIDE DEF state
      <3> QED
        BY <3>0, <3>1, <3>2
    <2>3. parties' = [parties EXCEPT ![p] = <<s, r>>]
      <3>1. \A q \in Ptr : parties'[q] = IF q = p THEN <<s, r>> ELSE parties[q]
        BY <1>1, <2>1 DEF PackageOr
      <3>2. parties = [q \in Ptr |-> parties[q]] /\ parties' = [q \in Ptr |-> parties'[q]]
        OBVIOUS
      <3> HIDE DEF parties
      <3> QED
        BY <3>1, <3>2
    <2>4. man' = man
      BY <1>1, <2>1 DEF PackageOr
    <2> QED
      BY <1>3, <2>2, <2>3, <2>4 DEF Life!Next, Life!Register
  <1>4. CASE k # "Package"
    BY <1>1, <1>2, <1>4 DEF Life!vars, PackageOr, New, Object
  <1> QED
    BY <1>3, <1>4

\* The two writes of a take are the assignment and the departure.
LEMMA TakeLife ==
  ASSUME TypeOK, TakeInv, NEW t \in Threads, TakeAssign(t) \/ TakeState(t)
  PROVE  [Life!Next]_(Life!vars)
  <1>1. CASE TakeAssign(t) /\ Readable("Package", call[t].idx)
    <2> DEFINE p == Get("Package", call[t].idx)
    <2>1. /\ p \in Ptr /\ obj[p].kind = "Package" /\ call[t].man \in Reach("DeliveryMan")
          /\ obj' = [obj EXCEPT ![p] = [obj[p] EXCEPT !.DeliveryManIdx = call[t].man]]
      BY <1>1 DEF Readable, Persons, TakeAssign, At, TakeInv
    <2> HIDE DEF p
    <2>2. Life!Assign(p)
      BY <2>1 DEF Life!Assign, PackageOr, TypeOK, Object, PackageState
    <2> QED
      BY <2>1, <2>2 DEF Life!Next
  <1>2. CASE TakeAssign(t) /\ ~Readable("Package", call[t].idx)
    BY <1>2 DEF TakeAssign, Life!vars, PackageOr
  <1>3. CASE TakeState(t)
    <2> DEFINE p == call[t].pack
    <2>1. /\ p \in Ptr /\ obj[p].kind = "Package" /\ obj[p].DeliveryManIdx \in Nat
          /\ obj' = [obj EXCEPT ![p] = [obj[p] EXCEPT !.State = "OnDelivery"]]
      BY <1>3, ManNumbers DEF TakeState, At, TakeInv, TypeOK
    <2> HIDE DEF p
    <2> DEFINE state == [q \in Ptr |-> PackageOr(q, obj[q].State, "none")]
               parties == [q \in Ptr |-> PackageOr(q, <<obj[q].SenderIdx, obj[q].ReceiverIdx>>,
                                                      <<INVALID_VALUE, INVALID_VALUE>>)]
               man == [q \in Ptr |-> PackageOr(q, obj[q].DeliveryManIdx, INVALID_VALUE)]
    <2>2. /\ obj'[p].State = "OnDelivery" /\ obj'[p].kind = "Package"
          /\ obj'[p].SenderIdx = obj[p].SenderIdx /\ obj'[p].ReceiverIdx = obj[p].ReceiverIdx
          /\ obj'[p].DeliveryManIdx = obj[p].DeliveryManIdx
          /\ \A q \in Ptr \ {p} : obj'[q] = obj[q]
      BY <2>1 DEF TypeOK, Object
    <2>3. man[p] # -1
      BY <2>1 DEF PackageOr
    <2>4. state' = [state EXCEPT ![p] = "OnDelivery"]
      <3>1. \A q \in Ptr : state'[q] = IF q = p THEN "OnDelivery" ELSE state[q]
        BY <2>1, <2>2 DEF PackageOr
      <3>2. state = [q \in Ptr |-> state[q]] /\ state' = [q \in Ptr |-> state'[q]]
        OBVIOUS
      <3> HIDE DEF state
      <3> QED
        BY <3>1, <3>2
    <2>5. parties' = parties
      BY <2>1, <2>2 DEF PackageOr
    <2>6. man' = man
      BY <2>1, <2>2 DEF PackageOr
    <2> QED
      BY <2>1, <2>3, <2>4, <2>5, <2>6 DEF Life!Next, Life!Depart
  <1> QED
    BY <1>1, <1>2, <1>3

\* Every step of the database is a step of Parcel, or leaves all packages alone.
LEMMA LifeStep ==
  TypeOK /\ TakeInv /\ [AnyNext]_dbVars => [Life!Next]_(Life!vars)
  <1> SUFFICES ASSUME TypeOK, TakeInv, [AnyNext]_dbVars
               PROVE  [Life!Next]_(Life!vars)
    OBVIOUS
  <1>0. ASSUME UNCHANGED obj PROVE [Life!Next]_(Life!vars)
    BY <1>0 DEF Life!vars, PackageOr
  <1>1. ASSUME NEW t \in Threads, NEW k \in Persons, NEW fits \in BOOLEAN, NewPerson(t, k, fits)
        PROVE  [Life!Next]_(Life!vars)
    <2>1. k \in Kinds /\ k # "Package"
      BY DEF Persons, Kinds
    <2> QED
      BY <1>0, <1>1, <2>1, AllocateLife DEF NewPerson
  <1>2. ASSUME NEW t \in Threads, NEW i \in NamePrinted("User"), NEW r \in NamePrinted("User"),
               NewPackage(t, i, r)
        PROVE  [Life!Next]_(Life!vars)
    <2>1. i \in Reach("User") /\ r \in Reach("User") /\ i \in Int /\ r \in Int
      BY CapacityAssumption DEF NamePrinted, Base, Kinds
    <2> QED
      BY <1>2, <2>1, AllocateLife DEF NewPackage, Kinds
  <1>3. ASSUME NEW t \in Threads, CallStep(t)
        PROVE  [Life!Next]_(Life!vars)
    BY <1>0, <1>3, TakeLife
       DEF CallStep, FetchUnique, LoadUnique, StoreUnique, StoreSlot, TakeEncrypt
  <1>4. ASSUME NEW t \in Threads, NEW p \in Chars, NEW d \in NamePrinted("DeliveryMan"),
               TakeLookup(t, p, d)
        PROVE  UNCHANGED obj
    BY <1>4 DEF TakeLookup
  <1>5. ASSUME NEW t \in Threads, LookupFails(t) \/ Return(t)
        PROVE  UNCHANGED obj
    BY <1>5 DEF LookupFails, Return
  <1>6. CASE UNCHANGED dbVars
    BY <1>0, <1>6 DEF dbVars
  <1> QED
    BY <1>0, <1>1, <1>2, <1>3, <1>4, <1>5, <1>6 DEF AnyNext, NextFor

\* However many threads register and take packages at once, in arrays of any
\* length, every package lives as Parcel says (Package.cpp:16-20).
THEOREM PackagesLive == Spec => ImplementsParcel
  <1>1. ASSUME Init PROVE TakeInv
    <2>1. \A t \in Threads : call[t].pc = "idle"
      BY <1>1 DEF Init, NoCall, Begin
    <2> QED
      BY <2>1 DEF TakeInv
  <1>2. Init => Life!Init
    BY DEF Init, Life!Init, PackageOr, Free, New
  <1> QED
    BY <1>1, <1>2, RegistryTypes, TakeStep, LifeStep, SpecIsAny, PTL
       DEF AnySpec, ImplementsParcel, Life!Spec

----------------------------------------------------------------------------
(* The contents of the arrays, and who is found in them.                    *)

\* A cell holds an object that was put there under its number, and a cell an
\* object was put into is never emptied.
SlotsInv ==
  /\ \A c \in Cells : slots[c] # NoPtr =>
       Published(slots[c]) /\ Cell(obj[slots[c]].kind, given[slots[c]]) = c
  /\ \A p \in Ptr : Published(p) =>
       /\ Cell(obj[p].kind, given[p]) \in Cells
       /\ slots[Cell(obj[p].kind, given[p])] # NoPtr

\* Under both indices of a package a person was once found.
PartiesInv ==
  \A p \in Ptr : obj[p].kind = "Package" =>
    obj[p].SenderIdx \in NamePrinted("User") /\ obj[p].ReceiverIdx \in NamePrinted("User")

\* A registered package of number i.
PackageOf(p, i) == p \in Ptr /\ Published(p) /\ obj[p].kind = "Package" /\ given[p] = i

\* A registered person who shares a cell with index i of class k.
PersonAt(p, k, i) ==
  p \in Ptr /\ Published(p) /\ obj[p].kind \in Persons /\ Cell(obj[p].kind, given[p]) = Cell(k, i)

\* What a take knows of the packages it has looked up, the first time for the
\* parties and the second time for the writes, and of the two keys it has used.
LookupOf(t) ==
  /\ call[t].pc \in CreatePCs \cup {"idle"} => call[t].pack = NoPtr
  /\ call[t].pc \in TakePCs => call[t].man \in Reach("DeliveryMan")
  /\ call[t].pc = "looked" => PackageOf(call[t].obj, call[t].idx)
  /\ call[t].pc \in {"assigned", "onDelivery"} => call[t].pack # NoPtr
  /\ call[t].pack # NoPtr =>
       /\ PackageOf(call[t].obj, call[t].idx) /\ PackageOf(call[t].pack, call[t].idx)
       /\ call[t].man \in Reach("DeliveryMan")
       /\ call[t].pc = "done" =>
            /\ PersonAt(call[t].rkey, "User", obj[call[t].pack].ReceiverIdx)
            /\ PersonAt(call[t].dkey, "DeliveryMan", call[t].man)

LookupInv == \A t \in Threads : LookupOf(t)

ContentsInv == SlotsInv /\ PartiesInv /\ LookupInv

\* No step takes back what a registered object is, its number, or its publication.
Kept ==
  /\ \A p \in Ptr : obj[p].kind # "free" =>
       /\ obj'[p].kind = obj[p].kind
       /\ obj'[p].SenderIdx = obj[p].SenderIdx /\ obj'[p].ReceiverIdx = obj[p].ReceiverIdx
  /\ \A p \in Ptr : Published(p) => Published(p)' /\ given'[p] = given[p]

\* A published object is of a class.
LEMMA PublishedKind ==
  ASSUME TypeOK, NumberingInv, NEW p \in Ptr, Published(p)
  PROVE  obj[p].kind \in Kinds /\ obj[p].kind # "free" /\ given[p] \in Nat
  BY DEF TypeOK, Object, NumberingInv, CallInv, Published, Numbered, Kinds

\* Steps outside of GetUniqueNumber that begin no registration.
LEMMA KeptFrame ==
  ASSUME TypeOK, NEW t \in Threads,
         UNCHANGED given,
         \A p \in Ptr : /\ obj'[p].kind = obj[p].kind
                        /\ obj'[p].SenderIdx = obj[p].SenderIdx
                        /\ obj'[p].ReceiverIdx = obj[p].ReceiverIdx,
         \A u \in Threads \ {t} : call'[u] = call[u],
         call'[t].pc \in CreatePCs => call[t].pc \in CreatePCs /\ call'[t].obj = call[t].obj
  PROVE  Kept
  BY DEF Kept, Published, Numbered

LEMMA KeptAllocate ==
  ASSUME TypeOK, NumberingInv, NEW t \in Threads, NEW k \in Kinds, NEW s \in Int, NEW r \in Int,
         Allocate(t, k, s, r)
  PROVE  Kept
  <1>1. PICK p \in Ptr :
          /\ obj[p].kind = "free"
          /\ obj' = [obj EXCEPT ![p] = New(k, s, r)]
          /\ call' = [call EXCEPT ![t] = Begin("constructed", k, p, -1, -1)]
          /\ UNCHANGED given
    BY DEF Allocate
  <1>2. /\ \A u \in Threads \ {t} : call'[u] = call[u]
        /\ call'[t].obj = p
        /\ \A q \in Ptr \ {p} : obj'[q] = obj[q]
    BY <1>1 DEF TypeOK, Begin
  <1>3. \A q \in Ptr : Published(q) => q # p
    BY <1>1, PublishedKind
  <1> QED
    BY <1>1, <1>2, <1>3 DEF Kept, Published, Numbered

LEMMA KeptFetch ==
  ASSUME TypeOK, NumberingInv, NEW t \in Threads, FetchUnique(t)
  PROVE  Kept
  <1>1. call[t].pc = "constructed" /\ call[t].obj \in Ptr
    BY DEF FetchUnique, At, NumberingInv, CallInv, CreatePCs
  <1>2. /\ \A u \in Threads : call'[u].obj = call[u].obj
        /\ \A u \in Threads : call'[u].pc \in CreatePCs => call[u].pc \in CreatePCs
        /\ \A p \in Ptr \ {call[t].obj} : given'[p] = given[p]
        /\ UNCHANGED obj
    BY <1>1 DEF FetchUnique, TypeOK, Call, CreatePCs
  <1>3. ~Published(call[t].obj)
    BY <1>1 DEF Published, CreatePCs
  <1> QED
    BY <1>2, <1>3 DEF Kept, Published, Numbered

\* The same for every step.
LEMMA KeptStep ==
  ASSUME TypeOK, NumberingInv, [AnyNext]_dbVars
  PROVE  Kept
  <1>1. ASSUME NEW t \in Threads, NEW k \in Persons, NEW fits \in BOOLEAN, NewPerson(t, k, fits)
        PROVE  Kept
    <2>1. k \in Kinds
      BY DEF Persons, Kinds
    <2> QED
      BY <1>1, <2>1, KeptAllocate, KeptFrame DEF NewPerson
  <1>2. ASSUME NEW t \in Threads, NEW i \in NamePrinted("User"), NEW r \in NamePrinted("User"),
               NewPackage(t, i, r)
        PROVE  Kept
    <2>1. i \in Int /\ r \in Int
      BY CapacityAssumption DEF NamePrinted, Base, Kinds
    <2> QED
      BY <1>2, <2>1, KeptAllocate DEF NewPackage, Kinds
  <1>3. ASSUME NEW t \in Threads, NEW p \in Chars, NEW d \in NamePrinted("DeliveryMan"),
               TakeLookup(t, p, d)
        PROVE  Kept
    <2>1. /\ UNCHANGED <<obj, given>> /\ \A u \in Threads \ {t} : call'[u] = call[u]
          /\ call'[t].pc = "looked" \/ call'[t] = call[t]
      BY <1>3 DEF TakeLookup, TypeOK, Begin
    <2> QED
      BY <2>1, KeptFrame DEF CreatePCs
  <1>4. ASSUME NEW t \in Threads, CallStep(t)
        PROVE  Kept
    <2>1. CASE LoadUnique(t) \/ StoreUnique(t)
      <3>1. /\ UNCHANGED <<obj, given>> /\ \A u \in Threads \ {t} : call'[u] = call[u]
            /\ call'[t].obj = call[t].obj /\ call[t].pc \in CreatePCs
        BY <2>1 DEF LoadUnique, StoreUnique, At, TypeOK, Call, CreatePCs
      <3> QED
        BY <3>1, KeptFrame
    <2>2. CASE StoreSlot(t) \/ TakeEncrypt(t)
      <3>1. /\ UNCHANGED <<obj, given>> /\ \A u \in Threads \ {t} : call'[u] = call[u]
            /\ call'[t].pc = "done" \/ call'[t] = call[t]
        BY <2>2 DEF StoreSlot, TakeEncrypt, TypeOK, Call
      <3> QED
        BY <3>1, KeptFrame DEF CreatePCs
    <2>3. CASE TakeAssign(t) \/ TakeState(t)
      <3>1. /\ UNCHANGED given /\ \A u \in Threads \ {t} : call'[u] = call[u]
            /\ call'[t].pc \notin CreatePCs
        BY <2>3 DEF TakeAssign, TakeState, At, TypeOK, Call, CreatePCs
      <3>2. \A p \in Ptr : /\ obj'[p].kind = obj[p].kind
                           /\ obj'[p].SenderIdx = obj[p].SenderIdx
                           /\ obj'[p].ReceiverIdx = obj[p].ReceiverIdx
        BY <2>3 DEF TakeAssign, TakeState, TypeOK, Object
      <3> QED
        BY <3>1, <3>2, KeptFrame
    <2> QED
      BY <1>4, <2>1, <2>2, <2>3, KeptFetch DEF CallStep
  <1>5. ASSUME NEW t \in Threads, Return(t)
        PROVE  Kept
    <2>1. /\ UNCHANGED <<obj, given>> /\ \A u \in Threads \ {t} : call'[u] = call[u]
          /\ call'[t].pc = "idle"
      BY <1>5 DEF Return, TypeOK, NoCall, Begin
    <2> QED
      BY <2>1, KeptFrame DEF CreatePCs
  <1>6. ASSUME NEW t \in Threads, LookupFails(t)
        PROVE  Kept
    BY <1>6, KeptFrame DEF LookupFails
  <1>7. CASE UNCHANGED dbVars
    BY <1>7 DEF dbVars, Kept, Published, Numbered
  <1> QED
    BY <1>1, <1>2, <1>3, <1>4, <1>5, <1>6, <1>7 DEF AnyNext, NextFor


\* The cells that an index of a person shares with registered persons.
LEMMA NamePrintedKept ==
  ASSUME TypeOK, Kept, NEW k \in Kinds, NEW i \in NamePrinted(k)
  PROVE  i \in NamePrinted(k)'
  <1>1. PICK p \in Ptr : /\ obj[p].kind \in Persons
                         /\ Published(p)
                         /\ Cell(obj[p].kind, given[p]) = Cell(k, i)
    BY DEF NamePrinted
  <1>2. obj'[p].kind = obj[p].kind /\ given'[p] = given[p] /\ Published(p)'
    BY <1>1 DEF Kept, Persons
  <1> QED
    BY <1>1, <1>2 DEF NamePrinted

LEMMA PersonKept ==
  ASSUME TypeOK, Kept, NEW p, NEW k \in Kinds, NEW i \in Int, PersonAt(p, k, i)
  PROVE  PersonAt(p, k, i)'
  BY DEF PersonAt, Kept, Persons

LEMMA PackageKept ==
  ASSUME TypeOK, Kept, NEW p, NEW i \in Int, PackageOf(p, i)
  PROVE  PackageOf(p, i)'
  BY DEF PackageOf, Kept

\* A step that stores into no cell and publishes nothing.
LEMMA SlotsFrame ==
  ASSUME TypeOK, NumberingInv, SlotsInv, Kept, UNCHANGED slots,
         \A p \in Ptr : Published(p)' => Published(p)
  PROVE  SlotsInv'
  <1>1. \A p \in Ptr : Published(p) => /\ Published(p)'
                                       /\ obj'[p].kind = obj[p].kind /\ given'[p] = given[p]
    BY PublishedKind DEF Kept
  <1>2. \A c \in Cells : slots'[c] # NoPtr => slots[c] \in Ptr
    BY DEF TypeOK
  <1> QED
    BY <1>1, <1>2 DEF SlotsInv

\* Storing an object publishes it, and in its own cell only.
LEMMA SlotsStore ==
  ASSUME TypeOK, NumberingInv, SlotsInv, Kept, NEW t \in Threads, StoreSlot(t)
  PROVE  SlotsInv'
  <1>0. PICK p \in Ptr, c \in {Slot(t)} : p = call[t].obj
    BY DEF StoreSlot, At, NumberingInv, CallInv, CreatePCs
  <1>1. /\ p = call[t].obj /\ c = Slot(t) /\ obj[p].kind = call[t].kind /\ given[p] = call[t].idx
        /\ given[p] \in Nat /\ c = Cell(obj[p].kind, given[p])
    BY <1>0 DEF StoreSlot, At, NumberingInv, CallInv, CreatePCs, Slot
  <1>2. CASE c \in Cells
    <2>1. /\ slots'[c] = p /\ \A d \in Cells \ {c} : slots'[d] = slots[d]
          /\ call' = [call EXCEPT ![t].pc = "done"]
          /\ UNCHANGED <<obj, given>>
      BY <1>1, <1>2 DEF StoreSlot, TypeOK
    <2>2. /\ call'[t].pc = "done" /\ \A u \in Threads \ {t} : call'[u] = call[u]
      BY <2>1 DEF TypeOK, Call
    <2>3. Published(p)'
      BY <1>1, <2>1, <2>2 DEF Published, Numbered, NumberingInv, CallInv, CreatePCs, StoreSlot, At
    <2>4. \A q \in Ptr \ {p} : Published(q)' => Published(q)
      BY <1>1, <2>1, <2>2 DEF Published, Numbered
    <2>5. \A q \in Ptr : Published(q) => Published(q)'
      BY DEF Kept
    <2>6. \A d \in Cells : slots[d] \in Ptr \cup {NoPtr}
      BY DEF TypeOK
    <2>7. p # NoPtr
      BY <1>1, PtrAssumption
    <2>8. ASSUME NEW d \in Cells, slots'[d] # NoPtr
          PROVE  /\ Published(slots[d])'
                 /\ Cell(obj[slots[d]].kind, given[slots[d]])' = d
      <3>1. CASE d = c
        BY <1>1, <2>1, <2>3, <3>1
      <3>2. CASE d # c
        BY <2>1, <2>5, <2>6, <2>8, <3>2 DEF SlotsInv
      <3> QED
        BY <3>1, <3>2
    <2>9. ASSUME NEW q \in Ptr, Published(q)'
          PROVE  /\ Cell(obj[q].kind, given[q])' \in Cells
                 /\ slots'[Cell(obj[q].kind, given[q])'] # NoPtr
      <3>1. CASE q = p
        BY <1>1, <1>2, <2>1, <2>7, <3>1
      <3>2. CASE q # p
        BY <2>1, <2>4, <2>7, <2>9, <3>2 DEF SlotsInv
      <3> QED
        BY <3>1, <3>2
    <2> QED
      BY <2>8, <2>9 DEF SlotsInv
  <1>3. CASE c \notin Cells
    <2>1. UNCHANGED <<slots, call, given>>
      BY <1>1, <1>3 DEF StoreSlot
    <2> QED
      BY <2>1, SlotsFrame DEF Published, Numbered
  <1> QED
    BY <1>2, <1>3

\* A person found under an index was put into the cell it denotes.
LEMMA FoundPerson ==
  ASSUME TypeOK, SlotsInv, NEW k \in Persons, NEW i \in Int, Readable(k, i)
  PROVE  PersonAt(Get(k, i), k, i) /\ i \in NamePrinted(k)
  <1>1. /\ Cell(k, i) \in Cells /\ slots[Cell(k, i)] = Get(k, i)
        /\ Get(k, i) \in Ptr /\ obj[Get(k, i)].kind \in Persons
    BY DEF Readable, Get
  <1>2. PersonAt(Get(k, i), k, i)
    BY <1>1, PtrAssumption DEF SlotsInv, PersonAt
  <1>3. i \in Reach(k)
    <2>1. Base[k] \in Int
      BY CapacityAssumption DEF Base, Kinds, Persons
    <2> QED
      BY <1>1, <2>1, CapacityAssumption DEF Cell, Cells
  <1> QED
    BY <1>2, <1>3 DEF NamePrinted, PersonAt

\* A package found under an index has that number.
LEMMA FoundPackage ==
  ASSUME TypeOK, NumberingInv, SlotsInv, NEW i \in Int, Readable("Package", i)
  PROVE  PackageOf(Get("Package", i), i)
  <1> DEFINE p == Get("Package", i)
  <1>1. /\ Cell("Package", i) \in Cells /\ slots[Cell("Package", i)] = p
        /\ p \in Ptr /\ obj[p].kind = "Package"
    BY DEF Readable, Get, Persons
  <1>2. Published(p) /\ Cell("Package", given[p]) = Cell("Package", i)
    BY <1>1, PtrAssumption DEF SlotsInv
  <1>3. given[p] \in Int /\ Base["Package"] \in Int
    BY <1>1, CapacityAssumption DEF TypeOK, Base, Kinds
  <1>4. given[p] = i
    BY <1>2, <1>3 DEF Cell
  <1> QED
    BY <1>1, <1>2, <1>4 DEF PackageOf

\* A new package has parties somebody was found under.
LEMMA PartiesStep ==
  ASSUME TypeOK, NumberingInv, PartiesInv, Kept, [AnyNext]_dbVars
  PROVE  PartiesInv'
  <1>1. ASSUME NEW p \in Ptr, obj[p].kind = "Package"
        PROVE  obj'[p].SenderIdx \in NamePrinted("User")'
               /\ obj'[p].ReceiverIdx \in NamePrinted("User")'
    BY <1>1, NamePrintedKept DEF PartiesInv, Kept, Kinds
  <1>2. ASSUME UNCHANGED obj \/ \A p \in Ptr : obj'[p].kind = obj[p].kind
        PROVE  PartiesInv'
    BY <1>1, <1>2 DEF PartiesInv
  <1>3. ASSUME NEW t \in Threads, NEW k \in Kinds, NEW s \in Int, NEW r \in Int,
               Allocate(t, k, s, r),
               k = "Package" => s \in NamePrinted("User") /\ r \in NamePrinted("User")
        PROVE  PartiesInv'
    <2>1. PICK p \in Ptr : obj' = [obj EXCEPT ![p] = New(k, s, r)]
      BY <1>3 DEF Allocate
    <2>2. /\ obj'[p].kind = k /\ obj'[p].SenderIdx = s /\ obj'[p].ReceiverIdx = r
          /\ \A q \in Ptr \ {p} : obj'[q] = obj[q]
      BY <2>1 DEF TypeOK, New
    <2>3. k = "Package" => s \in NamePrinted("User")' /\ r \in NamePrinted("User")'
      BY <1>3, NamePrintedKept DEF Kinds
    <2> QED
      BY <1>1, <2>2, <2>3 DEF PartiesInv
  <1>4. ASSUME NEW t \in Threads, NEW k \in Persons, NEW fits \in BOOLEAN, NewPerson(t, k, fits)
        PROVE  PartiesInv'
    BY <1>2, <1>3, <1>4 DEF NewPerson, Persons, Kinds
  <1>5. ASSUME NEW t \in Threads, NEW i \in NamePrinted("User"), NEW r \in NamePrinted("User"),
               NewPackage(t, i, r)
        PROVE  PartiesInv'
    <2>1. i \in Int /\ r \in Int
      BY CapacityAssumption DEF NamePrinted, Base, Kinds
    <2> QED
      BY <1>3, <1>5, <2>1 DEF NewPackage, Kinds
  <1>6. ASSUME NEW t \in Threads, TakeAssign(t) \/ TakeState(t)
        PROVE  PartiesInv'
    <2>1. CASE TakeAssign(t)
      <3>1. UNCHANGED obj \/ \E q : obj' = [obj EXCEPT ![q] = FirstWrite(obj[q], call[t].man)]
        BY <2>1 DEF TakeAssign
      <3>2. \A q \in Ptr : FirstWrite(obj[q], call[t].man).kind = obj[q].kind
        BY DEF FirstWrite, TypeOK, Object
      <3>3. UNCHANGED obj \/ \A p \in Ptr : obj'[p].kind = obj[p].kind
        BY <3>1, <3>2 DEF TypeOK
      <3> QED
        BY <1>2, <3>3
    <2>2. CASE TakeState(t)
      <3>1. \A p \in Ptr : obj'[p].kind = obj[p].kind
        BY <2>2 DEF TakeState, TypeOK, Object
      <3> QED
        BY <1>2, <3>1
    <2> QED
      BY <1>6, <2>1, <2>2
  <1>7. ASSUME NEW t \in Threads, CallStep(t)
        PROVE  PartiesInv'
    BY <1>2, <1>6, <1>7
       DEF CallStep, FetchUnique, LoadUnique, StoreUnique, StoreSlot, TakeEncrypt
  <1>8. ASSUME NEW t \in Threads, NEW p \in Chars, NEW d \in NamePrinted("DeliveryMan"),
               TakeLookup(t, p, d)
        PROVE  PartiesInv'
    BY <1>2, <1>8 DEF TakeLookup
  <1>9. ASSUME NEW t \in Threads, Return(t) \/ LookupFails(t)
        PROVE  PartiesInv'
    BY <1>2, <1>9 DEF Return, LookupFails
  <1>10. CASE UNCHANGED dbVars
    BY <1>2, <1>10 DEF dbVars
  <1> QED
    BY <1>4, <1>5, <1>7, <1>8, <1>9, <1>10 DEF AnyNext, NextFor


\* What the arrays hold is kept by every step.
LEMMA SlotsStep ==
  ASSUME TypeOK, NumberingInv, SlotsInv, Kept, [AnyNext]_dbVars
  PROVE  SlotsInv'
  <1>1. ASSUME NEW t \in Threads, UNCHANGED slots,
               \A u \in Threads \ {t} : call'[u] = call[u],
               call[t].pc \in CreatePCs => call'[t].pc \in CreatePCs /\ call'[t].obj = call[t].obj,
               \A p \in Ptr : given'[p] = given[p] \/ (call'[t].pc \in CreatePCs /\ call'[t].obj = p)
        PROVE  SlotsInv'
    <2>1. \A p \in Ptr : Published(p)' => Published(p)
      BY <1>1 DEF Published, Numbered
    <2> QED
      BY <1>1, <2>1, SlotsFrame
  <1>2. ASSUME NEW t \in Threads, NEW k \in Kinds, NEW s \in Int, NEW r \in Int,
               Idle(t), Allocate(t, k, s, r)
        PROVE  SlotsInv'
    <2>1. /\ UNCHANGED <<slots, given>>
          /\ \A u \in Threads \ {t} : call'[u] = call[u]
          /\ call[t].pc \notin CreatePCs
      BY <1>2 DEF Allocate, Idle, TypeOK, CreatePCs
    <2> QED
      BY <1>1, <2>1
  <1>3. ASSUME NEW t \in Threads, NEW k \in Persons, NEW fits \in BOOLEAN, NewPerson(t, k, fits)
        PROVE  SlotsInv'
    <2>1. CASE Allocate(t, k, -1, -1)
      BY <1>2, <1>3, <2>1 DEF NewPerson, Persons, Kinds
    <2>2. CASE UNCHANGED <<slots, call, given>>
      BY <1>1, <2>2
    <2> QED
      BY <1>3, <2>1, <2>2 DEF NewPerson
  <1>4. ASSUME NEW t \in Threads, NEW i \in NamePrinted("User"), NEW r \in NamePrinted("User"),
               NewPackage(t, i, r)
        PROVE  SlotsInv'
    <2>1. i \in Int /\ r \in Int
      BY CapacityAssumption DEF NamePrinted, Base, Kinds
    <2> QED
      BY <1>2, <1>4, <2>1 DEF NewPackage, Kinds
  <1>5. ASSUME NEW t \in Threads, NEW p \in Chars, NEW d \in NamePrinted("DeliveryMan"),
               TakeLookup(t, p, d)
        PROVE  SlotsInv'
    <2>1. /\ UNCHANGED <<slots, given>> /\ call[t].pc \notin CreatePCs
          /\ \A u \in Threads \ {t} : call'[u] = call[u]
      BY <1>5 DEF TakeLookup, Idle, TypeOK, CreatePCs
    <2> QED
      BY <1>1, <2>1
  <1>6. ASSUME NEW t \in Threads, CallStep(t)
        PROVE  SlotsInv'
    <2>1. CASE FetchUnique(t)
      <3>1. /\ UNCHANGED slots /\ \A u \in Threads \ {t} : call'[u] = call[u]
            /\ call'[t].pc \in CreatePCs /\ call'[t].obj = call[t].obj
            /\ \A p \in Ptr \ {call[t].obj} : given'[p] = given[p]
        BY <2>1 DEF FetchUnique, TypeOK, Call, CreatePCs
      <3> QED
        BY <1>1, <3>1
    <2>2. CASE LoadUnique(t) \/ StoreUnique(t)
      <3>1. /\ UNCHANGED <<slots, given>> /\ \A u \in Threads \ {t} : call'[u] = call[u]
            /\ call'[t].pc \in CreatePCs /\ call'[t].obj = call[t].obj
        BY <2>2 DEF LoadUnique, StoreUnique, TypeOK, Call, CreatePCs
      <3> QED
        BY <1>1, <3>1
    <2>3. CASE TakeAssign(t) \/ TakeState(t) \/ TakeEncrypt(t)
      <3>1. /\ UNCHANGED <<slots, given>> /\ \A u \in Threads \ {t} : call'[u] = call[u]
            /\ call[t].pc \notin CreatePCs
        BY <2>3 DEF TakeAssign, TakeState, TakeEncrypt, At, TypeOK, Call, CreatePCs
      <3> QED
        BY <1>1, <3>1
    <2> QED
      BY <1>6, <2>1, <2>2, <2>3, SlotsStore DEF CallStep
  <1>7. ASSUME NEW t \in Threads, Return(t) \/ LookupFails(t)
        PROVE  SlotsInv'
    <2>1. /\ UNCHANGED <<slots, given>> /\ \A u \in Threads \ {t} : call'[u] = call[u]
          /\ call[t].pc \notin CreatePCs
      BY <1>7 DEF Return, LookupFails, At, Idle, TypeOK, CreatePCs
    <2> QED
      BY <1>1, <2>1
  <1>8. CASE UNCHANGED dbVars
    BY <1>8, SlotsFrame DEF dbVars, Published, Numbered
  <1> QED
    BY <1>3, <1>4, <1>5, <1>6, <1>7, <1>8 DEF AnyNext, NextFor

\* What a thread that does not step knows stays true.
LEMMA LookupOther ==
  ASSUME TypeOK, Kept, NEW u \in Threads, LookupOf(u), call'[u] = call[u]
  PROVE  LookupOf(u)'
  <1>1. PICK c \in Call : call[u] = c /\ call'[u] = c
    BY DEF TypeOK
  <1>2. c.idx \in Int /\ c.man \in Int
    BY DEF Call
  <1>3. /\ PackageOf(c.obj, c.idx) => PackageOf(c.obj, c.idx)'
        /\ PackageOf(c.pack, c.idx) => PackageOf(c.pack, c.idx)'
    BY <1>2, PackageKept
  <1>4. PersonAt(c.dkey, "DeliveryMan", c.man) => PersonAt(c.dkey, "DeliveryMan", c.man)'
    BY <1>2, PersonKept DEF Kinds
  <1>5. ASSUME PackageOf(c.pack, c.idx), PersonAt(c.rkey, "User", obj[c.pack].ReceiverIdx)
        PROVE  PersonAt(c.rkey, "User", obj[c.pack].ReceiverIdx)'
    <2>1. PICK i \in Int : obj[c.pack].ReceiverIdx = i /\ obj'[c.pack].ReceiverIdx = i
      BY <1>5 DEF PackageOf, Kept, TypeOK, Object
    <2>2. PersonAt(c.rkey, "User", i)'
      BY <1>5, <2>1, PersonKept DEF Kinds
    <2> QED
      BY <2>1, <2>2
  <1> QED
    BY <1>1, <1>3, <1>4, <1>5 DEF LookupOf


\* The three steps of a take.
LEMMA LookupTake ==
  ASSUME TypeOK, NumberingInv, SlotsInv, NEW t \in Threads, NEW p \in Chars,
         NEW d \in NamePrinted("DeliveryMan"), TakeLookup(t, p, d), LookupOf(t), Kept
  PROVE  LookupOf(t)'
  <1>1. CASE call' = [call EXCEPT ![t] = Begin("looked", "Package", Get("Package", p), p, d)]
    <2>1. Readable("Package", p) /\ UNCHANGED <<slots, obj, given>>
      <3>1. call'[t].pc # call[t].pc
        BY <1>1 DEF TakeLookup, Idle, TypeOK, Begin
      <3>2. ~UNCHANGED call
        BY <3>1
      <3> QED
        BY <3>2 DEF TakeLookup
    <2>2. p \in Int /\ d \in Reach("DeliveryMan")
      BY DEF NamePrinted, Chars
    <2>3. PICK q \in Ptr : q = Get("Package", p) /\ PackageOf(q, p)
      BY <2>1, <2>2, FoundPackage DEF PackageOf
    <2>4. PackageOf(q, p)'
      BY <2>2, <2>3, PackageKept
    <2>5. /\ call'[t].pc = "looked" /\ call'[t].obj = q /\ call'[t].idx = p
          /\ call'[t].man = d /\ call'[t].pack = NoPtr
      BY <1>1, <2>3 DEF TypeOK, Begin
    <2> QED
      BY <2>2, <2>4, <2>5 DEF LookupOf, CreatePCs
  <1>2. CASE UNCHANGED call
    BY <1>2, LookupOther
  <1> QED
    BY <1>1, <1>2 DEF TakeLookup

LEMMA LookupAssign ==
  ASSUME TypeOK, NumberingInv, SlotsInv, NEW t \in Threads, TakeAssign(t), LookupOf(t), Kept
  PROVE  LookupOf(t)'
  <1>1. CASE Readable("Package", call[t].idx)
    <2>1. PICK i \in Int, q \in Ptr : /\ i = call[t].idx /\ q = Get("Package", call[t].idx)
                                      /\ PackageOf(q, i)
      BY <1>1, FoundPackage DEF TypeOK, Call, PackageOf
    <2>2. PICK c \in Call : c = call[t]
      BY DEF TypeOK
    <2>3. /\ call'[t].pc = "assigned" /\ call'[t].pack = q
          /\ call'[t].idx = i /\ call'[t].obj = c.obj /\ call'[t].man = c.man
      BY <1>1, <2>1, <2>2 DEF TakeAssign, TypeOK, Call
    <2>4. c.pc = "looked" /\ c.man \in Reach("DeliveryMan") /\ PackageOf(c.obj, i)
      BY <2>1, <2>2 DEF TakeAssign, At, LookupOf, TakePCs
    <2>5. PackageOf(c.obj, i)' /\ PackageOf(q, i)'
      BY <2>1, <2>4, PackageKept
    <2>6. q # NoPtr
      BY PtrAssumption
    <2> QED
      BY <2>3, <2>4, <2>5, <2>6 DEF LookupOf, CreatePCs
  <1>2. CASE ~Readable("Package", call[t].idx)
    BY <1>2, LookupOther DEF TakeAssign
  <1> QED
    BY <1>1, <1>2

LEMMA LookupEncrypt ==
  ASSUME TypeOK, NumberingInv, SlotsInv, NEW t \in Threads, TakeEncrypt(t), LookupOf(t), Kept
  PROVE  LookupOf(t)'
  <1>1. CASE call' = [call EXCEPT ![t].pc = "done",
                        ![t].rkey = Get("User", Addressee(obj[call[t].pack])),
                        ![t].dkey = Get("DeliveryMan", call[t].man)]
    <2>1. PICK c \in Call, r \in Int, p \in Ptr \cup {NoPtr}, q \in Ptr \cup {NoPtr} :
            /\ c = call[t] /\ r = obj[c.pack].ReceiverIdx
            /\ p = Get("User", r) /\ q = Get("DeliveryMan", c.man)
            /\ PackageOf(c.obj, c.idx) /\ PackageOf(c.pack, c.idx)
            /\ c.man \in Reach("DeliveryMan") /\ c.man \in Int /\ c.idx \in Int
            /\ c.pack # NoPtr
      <3>1. call[t].pc = "onDelivery"
        BY DEF TakeEncrypt, At
      <3>2. call[t].pack # NoPtr /\ PackageOf(call[t].pack, call[t].idx)
        BY <3>1 DEF LookupOf
      <3>3. obj[call[t].pack].ReceiverIdx \in Int
        BY <3>2 DEF PackageOf, TypeOK, Object
      <3>4. \A k \in Kinds, i \in Int : Get(k, i) \in Ptr \cup {NoPtr}
        BY DEF Get, TypeOK
      <3>5. call[t].man \in Reach("DeliveryMan") /\ call[t].man \in Int
        BY <3>2, ManNumbers DEF LookupOf
      <3> QED
        BY <3>2, <3>3, <3>4, <3>5 DEF LookupOf, TypeOK, Call, Kinds
    <2>2. UNCHANGED <<obj, slots, given>>
      BY DEF TakeEncrypt
    <2>3. /\ call'[t].pc = "done" /\ call'[t].pack = c.pack /\ call'[t].idx = c.idx
          /\ call'[t].obj = c.obj /\ call'[t].man = c.man
          /\ call'[t].rkey = p /\ call'[t].dkey = q
      BY <1>1, <2>1 DEF TypeOK, Call
    <2>4. Readable("User", r) /\ Readable("DeliveryMan", c.man)
      <3>1. call[t].pc # call'[t].pc
        BY <2>3 DEF TakeEncrypt, At
      <3> QED
        BY <2>1, <3>1 DEF TakeEncrypt
    <2>5. PersonAt(p, "User", r) /\ PersonAt(q, "DeliveryMan", c.man)
      BY <2>1, <2>4, FoundPerson DEF Persons
    <2>6. PersonAt(p, "User", r)' /\ PersonAt(q, "DeliveryMan", c.man)'
      BY <2>1, <2>5, PersonKept DEF Kinds
    <2>7. PackageOf(c.obj, c.idx)' /\ PackageOf(c.pack, c.idx)'
      BY <2>1, PackageKept
    <2> QED
      BY <2>1, <2>2, <2>3, <2>6, <2>7 DEF LookupOf, CreatePCs, TakePCs
  <1>2. CASE UNCHANGED call
    BY <1>2, LookupOther
  <1> QED
    BY <1>1, <1>2 DEF TakeEncrypt


\* What takes know of packages and keys is kept by every step.
LEMMA LookupStep ==
  ASSUME TypeOK, NumberingInv, SlotsInv, LookupInv, Kept, [AnyNext]_dbVars
  PROVE  LookupInv'
  <1>1. ASSUME NEW t \in Threads, \A u \in Threads \ {t} : call'[u] = call[u], LookupOf(t)'
        PROVE  LookupInv'
    BY <1>1, LookupOther DEF LookupInv
  <1>2. ASSUME NEW t \in Threads, \A u \in Threads \ {t} : call'[u] = call[u],
               call'[t].pack = NoPtr, call'[t].pc \in CreatePCs \cup {"idle"}
        PROVE  LookupInv'
    BY <1>1, <1>2 DEF LookupOf, CreatePCs, TakePCs
  <1>3. ASSUME UNCHANGED call
        PROVE  LookupInv'
    BY <1>3, LookupOther DEF LookupInv
  <1>4. ASSUME NEW t \in Threads, NEW k \in Kinds, NEW s \in Int, NEW r \in Int,
               Allocate(t, k, s, r)
        PROVE  LookupInv'
    <2>1. /\ \A u \in Threads \ {t} : call'[u] = call[u]
          /\ call'[t].pc = "constructed" /\ call'[t].pack = NoPtr
      BY <1>4 DEF Allocate, TypeOK, Begin
    <2> QED
      BY <1>2, <2>1 DEF CreatePCs
  <1>5. ASSUME NEW t \in Threads, NEW k \in Persons, NEW fits \in BOOLEAN, NewPerson(t, k, fits)
        PROVE  LookupInv'
    BY <1>3, <1>4, <1>5 DEF NewPerson, Persons, Kinds
  <1>6. ASSUME NEW t \in Threads, NEW i \in NamePrinted("User"), NEW r \in NamePrinted("User"),
               NewPackage(t, i, r)
        PROVE  LookupInv'
    <2>1. i \in Int /\ r \in Int
      BY CapacityAssumption DEF NamePrinted, Base, Kinds
    <2> QED
      BY <1>4, <1>6, <2>1 DEF NewPackage, Kinds
  <1>7. ASSUME NEW t \in Threads, NEW p \in Chars, NEW d \in NamePrinted("DeliveryMan"),
               TakeLookup(t, p, d)
        PROVE  LookupInv'
    <2>1. \A u \in Threads \ {t} : call'[u] = call[u]
      BY <1>7 DEF TakeLookup, TypeOK
    <2> QED
      BY <1>1, <1>7, <2>1, LookupTake DEF LookupInv
  <1>8. ASSUME NEW t \in Threads, CallStep(t)
        PROVE  LookupInv'
    <2>1. CASE FetchUnique(t) \/ LoadUnique(t) \/ StoreUnique(t)
      <3>1. /\ call[t].pc \in CreatePCs /\ call'[t].pc \in CreatePCs
            /\ call'[t].pack = call[t].pack /\ \A u \in Threads \ {t} : call'[u] = call[u]
        BY <2>1 DEF FetchUnique, LoadUnique, StoreUnique, At, TypeOK, Call, CreatePCs
      <3> QED
        BY <1>2, <3>1 DEF LookupInv, LookupOf
    <2>2. CASE StoreSlot(t)
      <3>1. /\ call'[t].pc = "done" \/ call'[t] = call[t]
            /\ call'[t].pack = call[t].pack /\ call[t].pc \in CreatePCs
            /\ \A u \in Threads \ {t} : call'[u] = call[u]
        BY <2>2 DEF StoreSlot, At, TypeOK, Call, CreatePCs
      <3>2. call'[t].pack = NoPtr
        BY <3>1 DEF LookupInv, LookupOf
      <3>3. CASE call'[t].pc = "done"
        BY <1>1, <3>1, <3>2, <3>3 DEF LookupOf, CreatePCs, TakePCs
      <3> QED
        BY <1>2, <3>1, <3>2, <3>3
    <2>3. CASE TakeState(t)
      <3>1. PICK c \in Call : call[t] = c /\ c.pc = "assigned"
        BY <2>3 DEF TakeState, At, TypeOK
      <3>2. /\ call'[t].pc = "onDelivery" /\ call'[t].obj = c.obj /\ call'[t].idx = c.idx
            /\ call'[t].pack = c.pack /\ call'[t].man = c.man
            /\ \A u \in Threads \ {t} : call'[u] = call[u]
        BY <2>3, <3>1 DEF TakeState, TypeOK, Call
      <3>3. /\ PackageOf(c.obj, c.idx) /\ PackageOf(c.pack, c.idx) /\ c.idx \in Int
            /\ c.man \in Reach("DeliveryMan") /\ c.pack # NoPtr
        BY <3>1 DEF LookupInv, LookupOf, Call
      <3>4. PackageOf(c.obj, c.idx)' /\ PackageOf(c.pack, c.idx)'
        BY <3>3, PackageKept
      <3>5. LookupOf(t)'
        BY <3>2, <3>3, <3>4 DEF LookupOf, CreatePCs
      <3> QED
        BY <1>1, <3>2, <3>5
    <2>4. CASE TakeAssign(t)
      <3>1. \A u \in Threads \ {t} : call'[u] = call[u]
        BY <2>4 DEF TakeAssign, TypeOK
      <3> QED
        BY <1>1, <2>4, <3>1, LookupAssign DEF LookupInv
    <2>5. CASE TakeEncrypt(t)
      <3>1. \A u \in Threads \ {t} : call'[u] = call[u]
        BY <2>5 DEF TakeEncrypt, TypeOK
      <3> QED
        BY <1>1, <2>5, <3>1, LookupEncrypt DEF LookupInv
    <2> QED
      BY <1>8, <2>1, <2>2, <2>3, <2>4, <2>5 DEF CallStep
  <1>9. ASSUME NEW t \in Threads, Return(t)
        PROVE  LookupInv'
    <2>1. /\ \A u \in Threads \ {t} : call'[u] = call[u]
          /\ call'[t].pc = "idle" /\ call'[t].pack = NoPtr
      BY <1>9 DEF Return, NoCall, Begin, TypeOK
    <2> QED
      BY <1>2, <2>1
  <1>10. ASSUME NEW t \in Threads, LookupFails(t)
         PROVE  LookupInv'
    BY <1>3, <1>10 DEF LookupFails
  <1>11. CASE UNCHANGED dbVars
    BY <1>3, <1>11 DEF dbVars
  <1> QED
    BY <1>5, <1>6, <1>7, <1>8, <1>9, <1>10, <1>11 DEF AnyNext, NextFor

LEMMA ContentsInit == TypeOK /\ Init => ContentsInv
  <1> SUFFICES ASSUME TypeOK, Init PROVE ContentsInv
    OBVIOUS
  <1>1. /\ \A t \in Threads : call[t].pc = "idle" /\ call[t].pack = NoPtr
        /\ \A p \in Ptr : obj[p].kind = "free" /\ ~Published(p)
        /\ \A c \in Cells : slots[c] = NoPtr
    BY DEF Init, NoCall, Begin, Free, New, Published, Numbered
  <1> QED
    BY <1>1 DEF ContentsInv, SlotsInv, PartiesInv, LookupInv, LookupOf, CreatePCs, TakePCs

LEMMA ContentsStep == TypeOK /\ NumberingInv /\ ContentsInv /\ [AnyNext]_dbVars => ContentsInv'
  BY KeptStep, SlotsStep, PartiesStep, LookupStep DEF ContentsInv

\* The contents of the arrays, in every behaviour.
LEMMA ContentsAlways == Spec => []ContentsInv
  BY SpecIsAny, InitInv, NextInv, ContentsInit, ContentsStep, PTL DEF AnySpec

\* Within the lengths of the arrays every cell has one class and one index.
LEMMA CellUnique ==
  ASSUME NEW k \in Kinds, NEW l \in Kinds,
         NEW i \in Int, 0 <= i, i < MAX_USER_NUM, NEW j \in Int, 0 <= j, j < MAX_USER_NUM,
         Cell(k, i) = Cell(l, j)
  PROVE  k = l /\ i = j
  <1>1. /\ Base["DeliveryMan"] = 0 /\ Base["Package"] = MAX_USER_NUM
        /\ Base["User"] = 2 * MAX_USER_NUM
    BY DEF Base, Kinds
  <1>2. Base[k] + i = Base[l] + j
    BY DEF Cell
  <1>3. k \in {"DeliveryMan", "Package", "User"} /\ l \in {"DeliveryMan", "Package", "User"}
    BY DEF Kinds
  <1> QED
    BY <1>1, <1>2, <1>3, CapacityAssumption

\* Published objects within capacity share a cell only if they share class and number.
LEMMA SameCell ==
  ASSUME TypeOK, NumberingInv, WithinCapacity, NEW p \in Ptr, Published(p),
         NEW k \in Kinds, NEW i \in Int, 0 <= i, i < MAX_USER_NUM,
         Cell(obj[p].kind, given[p]) = Cell(k, i)
  PROVE  obj[p].kind = k /\ given[p] = i
  <1>1. obj[p].kind \in Kinds /\ given[p] \in Nat /\ given[p] < MAX_USER_NUM
    BY PublishedKind, CapacityAssumption DEF WithinCapacity, PastItsArray
  <1> QED
    BY <1>1, CellUnique

\* Without a race two objects of one class and one number are one.
LEMMA SameNumber ==
  ASSUME UniqueUnlessRaced, raced = {}, NEW p \in Ptr, NEW q \in Ptr, Published(p), Published(q),
         obj[p].kind = obj[q].kind, given[p] = given[q]
  PROVE  p = q
  BY DEF UniqueUnlessRaced, Published

\* However many threads register, while no increment has raced an object stays where its
\* number says until one that went past the end of its array meets another class there.
THEOREM RegistrationsKept == Spec => []RegistrationKept
  <1>1. ASSUME TypeOK, NumberingInv, ContentsInv, UniqueUnlessRaced
        PROVE  RegistrationKept
    <2> DEFINE Occupant(x) == slots[Cell(obj[x].kind, given[x])]
    <2> SUFFICES ASSUME raced = {}, NEW p \in Ptr, Published(p), Occupant(p) # p
                 PROVE  /\ Occupant(p) \in Ptr /\ obj[Occupant(p)].kind # obj[p].kind
                        /\ PastItsArray(Occupant(p)) \/ PastItsArray(p)
      BY DEF RegistrationKept
    <2> DEFINE c == Cell(obj[p].kind, given[p])
               q == slots[c]
    <2>1. c \in Cells /\ q # NoPtr
      BY <1>1 DEF ContentsInv, SlotsInv
    <2>2. q \in Ptr /\ Published(q) /\ Cell(obj[q].kind, given[q]) = c
      BY <1>1, <2>1 DEF ContentsInv, SlotsInv, TypeOK
    <2>3. /\ obj[p].kind \in Kinds /\ given[p] \in Nat
          /\ obj[q].kind \in Kinds /\ given[q] \in Nat
      BY <1>1, <2>2, PublishedKind
    <2>4. obj[q].kind # obj[p].kind
      <3>1. SUFFICES ASSUME obj[q].kind = obj[p].kind PROVE FALSE
        OBVIOUS
      <3>2. given[q] = given[p]
        <4>1. Base[obj[p].kind] \in Int
          BY <2>3, CapacityAssumption DEF Base, Kinds
        <4> QED
          BY <2>2, <2>3, <3>1, <4>1 DEF Cell
      <3> QED
        BY <1>1, <2>2, <3>1, <3>2, SameNumber
    <2>5. PastItsArray(q) \/ PastItsArray(p)
      <3>1. SUFFICES ASSUME given[q] < MAX_USER_NUM, given[p] < MAX_USER_NUM PROVE FALSE
        BY <2>3, CapacityAssumption DEF PastItsArray
      <3> QED
        BY <2>2, <2>3, <2>4, <3>1, CellUnique
    <2> QED
      BY <2>2, <2>4, <2>5
  <1> QED
    BY <1>1, RegistryInv, ContentsAlways, UniqueNumbers, PTL

\* However many threads register, whatever has raced, the parties of every package
\* stay dereferenceable while the arrays have room.
THEOREM PartiesAlwaysFound == Spec => []PartiesFound
  <1>1. ASSUME TypeOK, NumberingInv, ContentsInv, WithinCapacity, NEW i \in NamePrinted("User")
        PROVE  Readable("User", i)
    <2>1. PICK p \in Ptr : /\ obj[p].kind \in Persons /\ Published(p)
                           /\ Cell(obj[p].kind, given[p]) = Cell("User", i)
      BY DEF NamePrinted
    <2>2. Cell("User", i) \in Cells /\ slots[Cell("User", i)] # NoPtr
      BY <1>1, <2>1 DEF ContentsInv, SlotsInv
    <2>3. PICK q \in Ptr : /\ q = slots[Cell("User", i)] /\ Published(q)
                           /\ Cell(obj[q].kind, given[q]) = Cell(obj[p].kind, given[p])
      BY <1>1, <2>1, <2>2 DEF ContentsInv, SlotsInv, TypeOK
    <2>4. obj[p].kind \in Kinds /\ given[p] \in Nat /\ given[p] < MAX_USER_NUM
      BY <1>1, <2>1, PublishedKind, CapacityAssumption DEF WithinCapacity, PastItsArray
    <2>5. obj[q].kind = obj[p].kind
      BY <1>1, <2>3, <2>4, SameCell
    <2> QED
      BY <2>1, <2>2, <2>3, <2>5 DEF Readable, Get, Persons
  <1>2. ASSUME TypeOK, NumberingInv, ContentsInv
        PROVE  PartiesFound
    BY <1>1, <1>2 DEF PartiesFound, ContentsInv, PartiesInv
  <1> QED
    BY <1>2, RegistryInv, ContentsAlways, PTL

\* However many threads register and take, a take that no race has touched is about
\* one package, and its codes are under the keys of the two persons it is for.
THEOREM TakesOnePackage == Spec => []TakesWhatItRead
  <1>1. ASSUME TypeOK, NumberingInv, WithinCapacity, NEW k \in Persons, NEW i \in Int,
               0 <= i, i < MAX_USER_NUM, NEW p, PersonAt(p, k, i)
        PROVE  obj[p].kind = k /\ given[p] = i
    <2>1. k \in Kinds /\ p \in Ptr /\ Published(p) /\ Cell(obj[p].kind, given[p]) = Cell(k, i)
      BY <1>1 DEF PersonAt, Persons, Kinds
    <2> QED
      BY <1>1, <2>1, SameCell
  <1>2. ASSUME TypeOK, NumberingInv, ContentsInv, NEW p, NEW i \in Int, 0 <= i,
               PersonAt(p, "User", i)
        PROVE  i < MAX_USER_NUM
    <2>1. Cell("User", i) \in Cells
      BY <1>2 DEF PersonAt, ContentsInv, SlotsInv
    <2> QED
      BY <1>2, <2>1, CapacityAssumption DEF Cell, Cells, Base, Kinds
  <1>3. ASSUME TypeOK, NumberingInv, ContentsInv, UniqueUnlessRaced
        PROVE  TakesWhatItRead
    <2> SUFFICES ASSUME raced = {}, WithinCapacity, NEW t \in Threads, call[t].pack # NoPtr
                 PROVE  /\ call[t].pack = call[t].obj
                        /\ LET r == obj[call[t].pack].ReceiverIdx
                           IN  call[t].pc = "done" =>
                                 /\ r >= 0 => obj[call[t].rkey].kind = "User"
                                              /\ given[call[t].rkey] = r
                                 /\ call[t].man < MAX_USER_NUM =>
                                      /\ obj[call[t].dkey].kind = "DeliveryMan"
                                      /\ given[call[t].dkey] = call[t].man
      BY DEF TakesWhatItRead
    <2> DEFINE p == call[t].pack
               r == obj[p].ReceiverIdx
    <2>1. LookupOf(t)
      BY <1>3 DEF ContentsInv, LookupInv
    <2>2. PackageOf(call[t].obj, call[t].idx) /\ PackageOf(p, call[t].idx)
      BY <2>1 DEF LookupOf
    <2>3. p = call[t].obj
      BY <1>3, <2>2, SameNumber DEF PackageOf
    <2>4. r \in Int
      BY <1>3, <2>2 DEF PackageOf, TypeOK, Object
    <2>5. ASSUME call[t].pc = "done", r >= 0
          PROVE  obj[call[t].rkey].kind = "User" /\ given[call[t].rkey] = r
      <3>1. PersonAt(call[t].rkey, "User", r)
        BY <2>1, <2>5 DEF LookupOf
      <3> HIDE DEF r
      <3> QED
        BY <1>1, <1>2, <1>3, <2>4, <2>5, <3>1 DEF Persons
    <2>6. ASSUME call[t].pc = "done", call[t].man < MAX_USER_NUM
          PROVE  obj[call[t].dkey].kind = "DeliveryMan" /\ given[call[t].dkey] = call[t].man
      <3>1. PersonAt(call[t].dkey, "DeliveryMan", call[t].man)
        BY <2>1, <2>6 DEF LookupOf
      <3>2. call[t].man \in Int /\ 0 <= call[t].man
        BY <2>1, ManNumbers DEF LookupOf
      <3> QED
        BY <1>1, <1>3, <2>6, <3>1, <3>2 DEF Persons
    <2> QED
      BY <2>3, <2>5, <2>6
  <1> QED
    BY <1>3, RegistryInv, ContentsAlways, UniqueNumbers, PTL

=============================================================================
