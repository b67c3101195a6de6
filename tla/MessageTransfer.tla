-------------------------- MODULE MessageTransfer --------------------------
(***************************************************************************)
(* What SendMessage promises between nodes: the platform takes a message   *)
(* over and either hands it, unchanged and at most once, to the node it is *)
(* addressed to, or destroys it.  Nothing is said about order or loss.     *)
(***************************************************************************)
CONSTANTS Nodes,     (* nodes of the system                              *)
          Ids,       (* identities of messages                           *)
          Messages   (* records of identity, sender, receiver and size   *)

VARIABLES spent,     (* identities of messages that were relinquished    *)
          transit,   (* messages taken over and still under way          *)
          arrived    (* messages accepted at a node and not destroyed    *)

tvars == <<spent, transit, arrived>>

Init ==
    /\ spent = {}
    /\ transit = {}
    /\ arrived = [n \in Nodes |-> {}]

(* The platform, or the application, destroys the message at once. *)
Discard(i) ==
    /\ i \notin spent
    /\ spent' = spent \cup {i}
    /\ UNCHANGED <<transit, arrived>>

Send(m) ==
    /\ m.id \notin spent
    /\ spent' = spent \cup {m.id}
    /\ transit' = transit \cup {m}
    /\ UNCHANGED arrived

(* A message to a worker of the sender's node is not under way. *)
SendAtHome(m) ==
    /\ m.id \notin spent
    /\ m.receiver = m.sender
    /\ spent' = spent \cup {m.id}
    /\ arrived' = [arrived EXCEPT ![m.sender] = @ \cup {m}]
    /\ UNCHANGED transit

Deliver(m) ==
    /\ m \in transit /\ m.receiver \in Nodes
    /\ transit' = transit \ {m}
    /\ arrived' = [arrived EXCEPT ![m.receiver] = @ \cup {m}]
    /\ UNCHANGED spent

Lose(m) ==
    /\ m \in transit
    /\ transit' = transit \ {m}
    /\ UNCHANGED <<spent, arrived>>

Consume(n, m) ==
    /\ m \in arrived[n]
    /\ arrived' = [arrived EXCEPT ![n] = @ \ {m}]
    /\ UNCHANGED <<spent, transit>>

Next ==
    \/ \E i \in Ids : Discard(i)
    \/ \E m \in Messages :
          \/ Send(m)
          \/ SendAtHome(m)
          \/ Deliver(m)
          \/ Lose(m)
          \/ \E n \in Nodes : Consume(n, m)

Spec == Init /\ [][Next]_tvars

=============================================================================
