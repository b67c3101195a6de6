------------------------------- MODULE IdQueue ------------------------------
(***************************************************************************)
(* What a table expects of its pool of identifiers: a first-in first-out   *)
(* queue of the identifiers nobody holds.  An identifier is handed out to  *)
(* one holder at a time, and one that has been put back is the last to be  *)
(* handed out again - the delay that keeps a stale identifier from naming  *)
(* a new worker or timer at once.                                          *)
(***************************************************************************)
EXTENDS Sequences, Integers

CONSTANT Ids
VARIABLES free,   (* the free identifiers, oldest first *)
          held    (* the identifiers in use             *)

Init ==
    /\ held = {}
    /\ free \in Seq(Ids)
    /\ \A id \in Ids : \E k \in DOMAIN free : free[k] = id
    /\ \A j, k \in DOMAIN free : free[j] = free[k] => j = k

Allocate ==
    /\ free # <<>>
    /\ free' = Tail(free)
    /\ held' = held \cup {Head(free)}

Release(id) ==
    /\ id \in held
    /\ free' = Append(free, id)
    /\ held' = held \ {id}

Next == Allocate \/ \E id \in Ids : Release(id)

Spec == Init /\ [][Next]_<<free, held>>
=============================================================================
