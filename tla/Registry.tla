------------------------------ MODULE Registry ------------------------------
(***************************************************************************)
(* The in-memory database of the server (class Database and the classes    *)
(* User, DeliveryMan and Package), called by one handler thread per        *)
(* connection.  The code takes no lock.                                    *)
(*                                                                         *)
(* The three pointer arrays are members of one object, laid out in the     *)
(* order of Database.h; `slots' is that memory, so that an index outside   *)
(* its array reaches a cell of another array, or leaves the object.        *)
(* `UniqueNumber++' is compiled as a load for the returned value, a second *)
(* load, and a store: three steps.                                         *)
(***************************************************************************)
EXTENDS Integers

CONSTANTS
  Threads,       \* handler threads, one per connection
  Ptr,           \* addresses that `new' can return
  NoPtr,         \* nullptr
  MAX_USER_NUM,  \* length of each of the three arrays
  PackIdxs       \* package indices a client may ask for: values of a signed char

ASSUME PtrAssumption == NoPtr \notin Ptr
ASSUME CapacityAssumption == MAX_USER_NUM \in Nat \ {0}
ASSUME PackIdxsAssumption == PackIdxs \subseteq -128 .. 127

INVALID_VALUE == -1

Kinds == {"DeliveryMan", "Package", "User"}
Persons == {"DeliveryMan", "User"}   \* two classes with the same layout

Base == [k \in Kinds |->
           CASE k = "DeliveryMan" -> 0
             [] k = "Package"     -> MAX_USER_NUM
             [] k = "User"        -> 2 * MAX_USER_NUM]

Cells == 0 .. (3 * MAX_USER_NUM - 1)

\* The cell that <array of k>[i] denotes; no bound is checked.
Cell(k, i) == Base[k] + i

PackageState == {"Idle", "OnDelivery"}  \* Arrived and Checked are never assigned

Object == [kind : Kinds \cup {"free"}, SenderIdx : Int, ReceiverIdx : Int,
           DeliveryManIdx : Int, State : PackageState]

\* An object of class k as its constructor leaves it; persons have no parties.
New(k, s, r) == [kind |-> k, SenderIdx |-> s, ReceiverIdx |-> r,
                 DeliveryManIdx |-> INVALID_VALUE, State |-> "Idle"]

Free == New("free", INVALID_VALUE, INVALID_VALUE)

\* Where a thread is inside a call of the database.
CreatePCs == {"constructed", "fetched", "loaded", "stored"}
TakePCs == {"looked", "assigned", "onDelivery"}
PCs == CreatePCs \cup TakePCs \cup {"idle", "done"}

Call == [pc : PCs, kind : Kinds, obj : Ptr \cup {NoPtr}, idx : Int, tmp : Int,
         man : Int, pack : Ptr \cup {NoPtr}, rkey : Ptr \cup {NoPtr},
         dkey : Ptr \cup {NoPtr}]

\* The locals of a call that begins.
Begin(pc, k, o, i, d) ==
  [pc |-> pc, kind |-> k, obj |-> o, idx |-> i, tmp |-> INVALID_VALUE, man |-> d,
   pack |-> NoPtr, rkey |-> NoPtr, dkey |-> NoPtr]

NoCall == Begin("idle", "User", NoPtr, INVALID_VALUE, INVALID_VALUE)

VARIABLES
  UniqueNumber,  \* the static counter of each class
  slots,         \* the memory of the three arrays
  obj,           \* the heap: the object at each address
  call,          \* each thread's call in progress (its locals)
  status,        \* "running", "aborted" (the process died) or "undefined"
  given,         \* history: the index GetUniqueNumber returned for an object
  raced          \* history: objects whose GetUniqueNumber overlapped another

dbVars == <<UniqueNumber, slots, obj, call, status, given, raced>>

Init ==
  /\ UniqueNumber = [k \in Kinds |-> 0]
  /\ slots = [c \in Cells |-> NoPtr]
  /\ obj = [p \in Ptr |-> Free]
  /\ call = [t \in Threads |-> NoCall]
  /\ status = "running"
  /\ given = [p \in Ptr |-> INVALID_VALUE]
  /\ raced = {}

----------------------------------------------------------------------------
(* Lookups: GetUser, GetDeliveryMan, GetPackage and the dereference of what *)
(* they return.                                                             *)

Get(k, i) == IF Cell(k, i) \in Cells THEN slots[Cell(k, i)] ELSE NoPtr

\* The pointer read is one to an object laid out as the caller expects.
Readable(k, i) ==
  /\ Cell(k, i) \in Cells
  /\ Get(k, i) \in Ptr
  /\ IF k \in Persons THEN obj[Get(k, i)].kind \in Persons
                      ELSE obj[Get(k, i)].kind = k

\* What dereferencing any other pointer does: nullptr kills the process,
\* a stray cell or an object of another layout is undefined behaviour.
Fault(k, i) ==
  IF Cell(k, i) \in Cells /\ Get(k, i) = NoPtr THEN "aborted" ELSE "undefined"

----------------------------------------------------------------------------
(* CreateUser, CreateDeliveryMan, CreatePackage.                            *)

Idle(t) == status = "running" /\ call[t].pc = "idle"

At(t, pc) == status = "running" /\ call[t].pc = pc

\* `new' returns an address not in use.
Allocate(t, k, s, r) ==
  \E p \in Ptr :
    /\ obj[p].kind = "free"
    /\ obj' = [obj EXCEPT ![p] = New(k, s, r)]
    /\ call' = [call EXCEPT ![t] = Begin("constructed", k, p, INVALID_VALUE, INVALID_VALUE)]
    /\ UNCHANGED <<UniqueNumber, slots, status, given, raced>>

\* The constructor of User or DeliveryMan; strcpy_s ends the process when a
\* field does not fit.
NewPerson(t, k, fits) ==
  /\ Idle(t)
  /\ \/ fits /\ Allocate(t, k, INVALID_VALUE, INVALID_VALUE)
     \/ ~fits /\ status' = "aborted"
              /\ UNCHANGED <<UniqueNumber, slots, obj, call, given, raced>>

NewPackage(t, s, r) ==
  /\ Idle(t)
  /\ Allocate(t, "Package", s, r)

InWindow(t, k) == call[t].pc \in {"fetched", "loaded"} /\ call[t].kind = k

Overlapping(t) == {u \in Threads \ {t} : InWindow(u, call[t].kind)}

\* GetUniqueNumber, first load: the value that will be returned.
FetchUnique(t) ==
  /\ At(t, "constructed")
  /\ LET n == UniqueNumber[call[t].kind]
     IN  /\ call' = [call EXCEPT ![t].pc = "fetched", ![t].idx = n]
         /\ given' = [given EXCEPT ![call[t].obj] = n]
  /\ raced' = IF Overlapping(t) = {} THEN raced
              ELSE raced \cup {call[u].obj : u \in Overlapping(t) \cup {t}}
  /\ UNCHANGED <<UniqueNumber, slots, obj, status>>

\* GetUniqueNumber, second load: the value that will be incremented.
LoadUnique(t) ==
  /\ At(t, "fetched")
  /\ call' = [call EXCEPT ![t].pc = "loaded", ![t].tmp = UniqueNumber[call[t].kind]]
  /\ UNCHANGED <<UniqueNumber, slots, obj, status, given, raced>>

\* Mutants: the increment is forgotten; the counter is decremented.
NextNumberForgotten(n) == n
NextNumberDown(n) == n - 1

NextNumber(n) == n + 1

StoreUnique(t) ==
  /\ At(t, "loaded")
  /\ UniqueNumber' = [UniqueNumber EXCEPT ![call[t].kind] = NextNumber(call[t].tmp)]
  /\ call' = [call EXCEPT ![t].pc = "stored"]
  /\ UNCHANGED <<slots, obj, status, given, raced>>

\* Mutant: the body of CreateUser pasted into CreateDeliveryMan.
SlotPasted(t) ==
  Cell(IF call[t].kind \in Persons THEN "User" ELSE "Package", call[t].idx)

Slot(t) == Cell(call[t].kind, call[t].idx)

\* <array>[idx] = object: unchecked, and undefined once it leaves the object.
StoreSlot(t) ==
  /\ At(t, "stored")
  /\ LET c == Slot(t)
     IN  IF c \in Cells
         THEN /\ slots' = [slots EXCEPT ![c] = call[t].obj]
              /\ call' = [call EXCEPT ![t].pc = "done"]
              /\ UNCHANGED status
         ELSE status' = "undefined" /\ UNCHANGED <<slots, call>>
  /\ UNCHANGED <<UniqueNumber, obj, given, raced>>

----------------------------------------------------------------------------
(* Taking a package: the handler's own lookup, then DeliveryTakePackage.    *)

\* GetPackage and the names of its two parties, in the handler.
TakeLookup(t, p, d) ==
  /\ Idle(t)
  /\ LET o == obj[Get("Package", p)]
         bad == IF ~Readable("Package", p) THEN {<<"Package", p>>}
                ELSE IF ~Readable("User", o.SenderIdx) THEN {<<"User", o.SenderIdx>>}
                ELSE IF ~Readable("User", o.ReceiverIdx) THEN {<<"User", o.ReceiverIdx>>}
                ELSE {}
     IN  \/ /\ bad = {}
            /\ call' = [call EXCEPT ![t] =
                          Begin("looked", "Package", Get("Package", p), p, d)]
            /\ UNCHANGED status
         \/ /\ \E b \in bad : status' = Fault(b[1], b[2])
            /\ UNCHANGED call
  /\ UNCHANGED <<UniqueNumber, slots, obj, given, raced>>

\* Mutant: TakePackage writes the state before the delivery man.
FirstWriteState(o, d) == [o EXCEPT !.State = "OnDelivery"]

FirstWrite(o, d) == [o EXCEPT !.DeliveryManIdx = d]

\* DeliveryTakePackage looks the package up again; TakePackage writes the
\* delivery man first ...
TakeAssign(t) ==
  /\ At(t, "looked")
  /\ IF Readable("Package", call[t].idx)
     THEN LET p == Get("Package", call[t].idx)
          IN  /\ obj' = [obj EXCEPT ![p] = FirstWrite(obj[p], call[t].man)]
              /\ call' = [call EXCEPT ![t].pc = "assigned", ![t].pack = p]
              /\ UNCHANGED status
     ELSE status' = Fault("Package", call[t].idx) /\ UNCHANGED <<obj, call>>
  /\ UNCHANGED <<UniqueNumber, slots, given, raced>>

\* ... and then the state, whatever the state was.
TakeState(t) ==
  /\ At(t, "assigned")
  /\ obj' = [obj EXCEPT ![call[t].pack].State = "OnDelivery"]
  /\ call' = [call EXCEPT ![t].pc = "onDelivery"]
  /\ UNCHANGED <<UniqueNumber, slots, status, given, raced>>

\* Mutant: the receiver's code made for the sender.
AddresseeSender(o) == o.SenderIdx

Addressee(o) == o.ReceiverIdx

\* The two ciphertexts: one for the receiver, one for the delivery man.
TakeEncrypt(t) ==
  /\ At(t, "onDelivery")
  /\ LET r == Addressee(obj[call[t].pack])
         d == call[t].man
         bad == IF ~Readable("User", r) THEN {<<"User", r>>}
                ELSE IF ~Readable("DeliveryMan", d) THEN {<<"DeliveryMan", d>>}
                ELSE {}
     IN  \/ /\ bad = {}
            /\ call' = [call EXCEPT ![t].pc = "done", ![t].rkey = Get("User", r),
                                    ![t].dkey = Get("DeliveryMan", d)]
            /\ UNCHANGED status
         \/ /\ \E b \in bad : status' = Fault(b[1], b[2])
            /\ UNCHANGED call
  /\ UNCHANGED <<UniqueNumber, slots, obj, given, raced>>

\* The call returns to the handler, which prints the public key of the person
\* it now finds under the new index.
Return(t) ==
  /\ At(t, "done")
  /\ call' = [call EXCEPT ![t] = NoCall]
  /\ LET k == call[t].kind
         i == call[t].idx
     IN  status' = IF k \in Persons /\ ~Readable(k, i) THEN Fault(k, i) ELSE status
  /\ UNCHANGED <<UniqueNumber, slots, obj, given, raced>>

----------------------------------------------------------------------------

\* The steps a started call takes by itself.
CallStep(t) ==
  \/ FetchUnique(t)
  \/ LoadUnique(t)
  \/ StoreUnique(t)
  \/ StoreSlot(t)
  \/ TakeAssign(t)
  \/ TakeState(t)
  \/ TakeEncrypt(t)

\* Indices of k's array that stay inside the Database object.
Reach(k) == -Base[k] .. (3 * MAX_USER_NUM - 1 - Base[k])

Numbered(p) == given[p] # INVALID_VALUE

\* The object has been put into its array.
Published(p) ==
  /\ Numbered(p)
  /\ \A t \in Threads : call[t].pc \in CreatePCs => call[t].obj # p

\* Mutant: the handler does not look at the objects first.
NamePrintedNever(k) == 0 .. (MAX_USER_NUM - 1)

\* The handler calls CreatePackage only with two indices, and takes a package
\* only for an index, under which it has found a person to print the name of.
\* Meanwhile the place may have been overwritten: what is certain is that
\* somebody was once put there.
NamePrinted(k) ==
  {i \in Reach(k) : \E p \in Ptr : /\ obj[p].kind \in Persons
                                 /\ Published(p)
                                 /\ Cell(obj[p].kind, given[p]) = Cell(k, i)}

\* The handler dereferences what it finds under an index that is no person's,
\* inside the Database object or outside.
LookupFails(t) ==
  /\ Idle(t)
  /\ \/ \E k \in Persons : \E i \in Reach(k) : ~Readable(k, i) /\ status' = Fault(k, i)
     \/ status' = "undefined"
  /\ UNCHANGED <<UniqueNumber, slots, obj, call, given, raced>>

\* What the handlers do when they ask for packages with the given indices.
NextFor(idxs) ==
  \E t \in Threads :
    \/ \E k \in Persons, fits \in BOOLEAN : NewPerson(t, k, fits)
    \/ \E s, r \in NamePrinted("User") : NewPackage(t, s, r)
    \/ \E p \in idxs, d \in NamePrinted("DeliveryMan") : TakeLookup(t, p, d)
    \/ LookupFails(t)
    \/ CallStep(t)
    \/ Return(t)

Next == NextFor(PackIdxs)

Spec == Init /\ [][Next]_dbVars

----------------------------------------------------------------------------
(* Properties.                                                              *)

\* The type of every variable.
TypeOK ==
  /\ UniqueNumber \in [Kinds -> Nat]
  /\ slots \in [Cells -> Ptr \cup {NoPtr}]
  /\ obj \in [Ptr -> Object]
  /\ call \in [Threads -> Call]
  /\ status \in {"running", "aborted", "undefined"}
  /\ given \in [Ptr -> Nat \cup {INVALID_VALUE}]
  /\ raced \subseteq Ptr

\* Two objects of a class get the same number from GetUniqueNumber only when
\* the unlocked increment of one of them overlapped another increment of the
\* same counter (User.h:18, DeliveryMan.h:17, Package.h:19).
UniqueUnlessRaced ==
  \A p, q \in Ptr :
    /\ p # q /\ Numbered(p) /\ Numbered(q)
    /\ obj[p].kind = obj[q].kind
    /\ given[p] = given[q]
    => p \in raced \/ q \in raced

\* What a thread in the middle of a create call knows of its object.
CallInv ==
  /\ \A t \in Threads : call[t].pc \in CreatePCs =>
       call[t].obj \in Ptr /\ obj[call[t].obj].kind = call[t].kind
  /\ \A t \in Threads : call[t].pc = "constructed" => ~Numbered(call[t].obj)
  /\ \A t \in Threads : call[t].pc \in {"fetched", "loaded", "stored"} =>
       call[t].idx \in Nat /\ given[call[t].obj] = call[t].idx
  /\ \A t \in Threads : call[t].pc = "loaded" => call[t].tmp \in Nat
  /\ \A t, u \in Threads :
       t # u /\ call[t].pc \in CreatePCs /\ call[u].pc \in CreatePCs
         => call[t].obj # call[u].obj
  /\ \A p \in Ptr : obj[p].kind = "free" => ~Numbered(p)

\* An increment that nobody has overlapped is alone at its counter, and the
\* counter has not moved since its first load.
AloneInWindow ==
  \A t \in Threads, k \in Kinds :
    InWindow(t, k) /\ call[t].obj \notin raced =>
      /\ \A u \in Threads \ {t} : ~InWindow(u, k)
      /\ UniqueNumber[k] = call[t].idx
      /\ call[t].pc = "loaded" => call[t].tmp = call[t].idx

InIncrement(p) == \E t \in Threads : call[t].pc \in {"fetched", "loaded"} /\ call[t].obj = p

\* Once such an increment is over, the counter and every later increment are
\* above its number for good.
AboveFinished ==
  \A p \in Ptr \ raced : Numbered(p) /\ ~InIncrement(p) =>
    /\ UniqueNumber[obj[p].kind] > given[p]
    /\ \A t \in Threads : InWindow(t, obj[p].kind) =>
         /\ call[t].idx > given[p]
         /\ call[t].pc = "loaded" => call[t].tmp > given[p]

\* The inductive invariant behind UniqueUnlessRaced and CounterBackOnlyIfRaced:
\* how the non-atomic `UniqueNumber++' of concurrent threads can interleave.
NumberingInv == CallInv /\ AloneInWindow /\ AboveFinished

PastItsArray(p) == given[p] >= MAX_USER_NUM

WithinCapacity == \A p \in Ptr : ~PastItsArray(p)

\* While no increment has raced, each registered object is still found under the
\* index that was returned for it, or in its place is an object of another class,
\* and one of the two went past the end of its array, of which no check keeps it:
\* no other registration overwrites it (Database.cpp:36,46,56).
RegistrationKept ==
  raced = {} =>
    \A p \in Ptr : Published(p) =>
      LET q == slots[Cell(obj[p].kind, given[p])]
      IN  \/ q = p
          \/ /\ q \in Ptr /\ obj[q].kind # obj[p].kind
             /\ PastItsArray(q) \/ PastItsArray(p)

\* The counter of a class moves back only by a store that raced: otherwise a
\* number once given is never given again.
CounterBackOnlyIfRaced ==
  [][\A k \in Kinds : UniqueNumber'[k] < UniqueNumber[k]
       => \E t \in Threads : /\ call[t].pc = "loaded" /\ call[t].kind = k
                             /\ call[t].obj \in raced]_dbVars

\* While the arrays have room, sender and receiver of every package stay
\* dereferenceable: neither DeliveryTakePackage nor the handler dies on the
\* parties of a package that exists (main.cpp:354-357, Database.cpp:81).
PartiesFound ==
  WithinCapacity =>
    \A p \in Ptr : obj[p].kind = "Package" =>
      Readable("User", obj[p].SenderIdx) /\ Readable("User", obj[p].ReceiverIdx)

\* An object as a package; one of another class is none.
PackageOr(p, value, other) == IF obj[p].kind = "Package" THEN value ELSE other

Life == INSTANCE Parcel WITH
  Parcels <- Ptr, Nobody <- INVALID_VALUE,
  Indices <- Reach("User"), Numbers <- Reach("DeliveryMan"),
  state <- [p \in Ptr |-> PackageOr(p, obj[p].State, "none")],
  parties <- [p \in Ptr |-> PackageOr(p, <<obj[p].SenderIdx, obj[p].ReceiverIdx>>,
                                         <<INVALID_VALUE, INVALID_VALUE>>)],
  man <- [p \in Ptr |-> PackageOr(p, obj[p].DeliveryManIdx, INVALID_VALUE)]

\* However many threads register and take packages at once, every package lives as
\* Parcel says: its parties stay, it is on delivery only with a delivery man, since
\* TakePackage writes the man before the state (Package.cpp:16-20), and neither a
\* second take nor another registration sets it back.
ImplementsParcel == Life!Spec

\* A take is about one package from beginning to end: the one whose parties the
\* handler has read (main.cpp:352-357) is the one that DeliveryTakePackage, looking it
\* up again, changes (Database.cpp:69), and the ciphertexts are under the keys of the
\* receiver it names and of the man who took it (Database.cpp:73-82).
TakesWhatItRead ==
  raced = {} /\ WithinCapacity =>
    \A t \in Threads : call[t].pack # NoPtr =>
      /\ call[t].pack = call[t].obj
      /\ LET r == obj[call[t].pack].ReceiverIdx
         IN  call[t].pc = "done" =>
               /\ r >= 0 => obj[call[t].rkey].kind = "User" /\ given[call[t].rkey] = r
               /\ call[t].man < MAX_USER_NUM =>
                    /\ obj[call[t].dkey].kind = "DeliveryMan"
                    /\ given[call[t].dkey] = call[t].man
=============================================================================
