----------------------------- MODULE Rendezvous -----------------------------
(***************************************************************************)
(* What the relay promises the two users: a sender's offer is reachable    *)
(* under a code no other open offer has, at most one receiver gets an      *)
(* offer, a receiver gets at most one, and a sender is told of at most one *)
(* receiver, which is the one that got its offer.                          *)
(***************************************************************************)
CONSTANTS
    Party,     \* connections to the relay, sending or receiving
    Code,      \* transfer codes
    None

VARIABLES
    offer,     \* the open offer under each code: a party or None
    offered,   \* parties that ever made an offer
    partner,   \* the sender whose offer a receiver got
    introduced \* <<sender, receiver>>: the sender was told of the receiver

vars == <<offer, offered, partner, introduced>>

Init ==
    /\ offer = [k \in Code |-> None]
    /\ offered = {}
    /\ partner = [p \in Party |-> None]
    /\ introduced = {}

Offer(s, k) ==
    /\ s \notin offered
    /\ offer[k] = None
    /\ offer' = [offer EXCEPT ![k] = s]
    /\ offered' = offered \cup {s}
    /\ UNCHANGED <<partner, introduced>>

(* Offers are withdrawn: they expire or their sender gives up. *)
Withdraw ==
    /\ \E K \in SUBSET Code :
          offer' = [k \in Code |-> IF k \in K THEN None ELSE offer[k]]
    /\ UNCHANGED <<offered, partner, introduced>>

Match(r, k) ==
    /\ offer[k] \in Party
    /\ partner[r] = None
    /\ partner' = [partner EXCEPT ![r] = offer[k]]
    /\ offer' = [offer EXCEPT ![k] = None]
    /\ UNCHANGED <<offered, introduced>>

Introduce(s, r) ==
    /\ partner[r] = s
    /\ \A p \in Party : <<s, p>> \notin introduced
    /\ introduced' = introduced \cup {<<s, r>>}
    /\ UNCHANGED <<offer, offered, partner>>

Next ==
    \/ \E p \in Party, k \in Code : Offer(p, k) \/ Match(p, k)
    \/ \E s, r \in Party : Introduce(s, r)
    \/ Withdraw

Spec == Init /\ [][Next]_vars
=============================================================================
