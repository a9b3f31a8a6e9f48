--------------------------- MODULE DomainAuthority --------------------------
(***************************************************************************)
(* What a domain claim promises, without transactions, locks, tokens or    *)
(* time: a domain has at most one holder, holders succeed one another, and *)
(* a live contact is always the present holder's.  Taking a domain takes   *)
(* every contact of the one before it away in the same step.               *)
(***************************************************************************)
EXTENDS Naturals

CONSTANTS Claimants,   \* positive numbers, in the order of their claims
          Domains, Contacts, DomainOf

VARIABLES holder,   \* the claimant of each domain, 0 for none
          owner     \* the claimant each live contact answers for, 0 for none

authority == <<holder, owner>>

Init == /\ holder = [d \in Domains |-> 0]
        /\ owner = [k \in Contacts |-> 0]

Take(d, c) ==
    /\ \A e \in Domains : holder[e] < c
    /\ holder' = [holder EXCEPT ![d] = c]
    /\ owner' = [k \in Contacts |-> IF DomainOf[k] = d THEN 0 ELSE owner[k]]

Enrol(k) ==
    /\ holder[DomainOf[k]] # 0
    /\ owner' = [owner EXCEPT ![k] = holder[DomainOf[k]]]
    /\ UNCHANGED holder

Withdraw(k) ==
    /\ owner[k] # 0
    /\ owner' = [owner EXCEPT ![k] = 0]
    /\ UNCHANGED holder

Next == \/ \E d \in Domains, c \in Claimants : Take(d, c)
        \/ \E k \in Contacts : Enrol(k) \/ Withdraw(k)

Spec == Init /\ [][Next]_authority
=============================================================================
