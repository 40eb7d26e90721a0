------------------------------ MODULE FeedMutex ------------------------------
(***************************************************************************)
(* What the locking layer promises its callers: a client enters the        *)
(* section of a feed that nobody is in, and leaves it.  A client of the    *)
(* account of somebody inside enters as well, and from then on nobody is   *)
(* kept out, other accounts included, until the section was empty again.   *)
(***************************************************************************)
CONSTANTS Clients, Feeds, AccountOf

VARIABLES
    inside,     \* inside[f]: the clients in the section of f
    shared      \* the feeds whose section clients of one account came to share

Init ==
    /\ inside = [f \in Feeds |-> {}]
    /\ shared = {}

Enter(f, c) ==
    /\ inside' = [inside EXCEPT ![f] = @ \cup {c}]
    /\ \/ /\ inside[f] = {}
          /\ shared' = shared \ {f}
       \/ /\ \E d \in inside[f] \ {c} : AccountOf[d] = AccountOf[c]
          /\ shared' = shared \cup {f}
       \/ /\ f \in shared
          /\ UNCHANGED shared

Leave(f, c) ==
    /\ c \in inside[f]
    /\ inside' = [inside EXCEPT ![f] = @ \ {c}]
    /\ UNCHANGED shared

Next == \E f \in Feeds, c \in Clients : Enter(f, c) \/ Leave(f, c)

Spec == Init /\ [][Next]_<<inside, shared>>
==============================================================================
