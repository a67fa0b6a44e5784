------------------------------- MODULE Parcel -------------------------------
(***************************************************************************)
(* What the server promises of every package: it is registered once, with  *)
(* a sender and a receiver that stay; it goes on delivery only in the      *)
(* hands of a delivery man, and does not come back.                        *)
(***************************************************************************)
CONSTANTS
  Parcels,  \* the packages there can be
  Nobody,   \* the number of no delivery man
  Indices,  \* the indices of users
  Numbers   \* the numbers of delivery men

VARIABLES
  state,    \* "none", "Idle" or "OnDelivery"
  parties,  \* sender and receiver
  man       \* the delivery man, or Nobody

vars == <<state, parties, man>>

Init ==
  /\ state = [p \in Parcels |-> "none"]
  /\ parties = [p \in Parcels |-> <<Nobody, Nobody>>]
  /\ man = [p \in Parcels |-> Nobody]

Register(p) ==
  /\ state[p] = "none"
  /\ state' = [state EXCEPT ![p] = "Idle"]
  /\ \E s, r \in Indices : parties' = [parties EXCEPT ![p] = <<s, r>>]
  /\ UNCHANGED man

\* Another man may take over, on the way too.
Assign(p) ==
  /\ state[p] # "none"
  /\ \E d \in Numbers : man' = [man EXCEPT ![p] = d]
  /\ UNCHANGED <<state, parties>>

Depart(p) ==
  /\ man[p] # Nobody
  /\ state' = [state EXCEPT ![p] = "OnDelivery"]
  /\ UNCHANGED <<parties, man>>

Next == \E p \in Parcels : Register(p) \/ Assign(p) \/ Depart(p)

Spec == Init /\ [][Next]_vars
=============================================================================
