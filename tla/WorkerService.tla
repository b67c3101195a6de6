--------------------------- MODULE WorkerService ---------------------------
(***************************************************************************)
(* What the platform promises to the users of workers: a worker is a       *)
(* mailbox that opens, is served in the order of the sends, and closes     *)
(* until its ID is deployed again.  Between the call to DeployWorker and   *)
(* the end of the last local initialization the mailbox only collects; a   *)
(* worker whose termination is requested meanwhile is never served at all. *)
(***************************************************************************)
EXTENDS Subsequence

CONSTANTS Workers,   (* worker IDs                                     *)
          Messages,  (* message handles                                *)
          Capacity   (* messages kept for a worker that is not up yet  *)

VARIABLES status,    (* the phase of each worker                       *)
          doomed,    (* workers to be terminated as soon as they are up *)
          mail       (* messages accepted and not delivered yet        *)

svars == <<status, doomed, mail>>

Phases == {"Down", "Opening", "Open", "Closing"}

Init ==
    /\ status = [w \in Workers |-> "Down"]
    /\ doomed = {}
    /\ mail = [w \in Workers |-> << >>]

Deploy(w) ==
    /\ status[w] = "Down"
    /\ status' = [status EXCEPT ![w] = "Opening"]
    /\ UNCHANGED <<doomed, mail>>

(* Deployment fails; what has been collected is never delivered. *)
Fail(w) ==
    /\ status[w] = "Opening"
    /\ status' = [status EXCEPT ![w] = "Down"]
    /\ doomed' = doomed \ {w}
    /\ mail' = [mail EXCEPT ![w] = << >>]

Send(w) ==
    /\ \/ status[w] = "Opening" /\ Len(mail[w]) < Capacity
       \/ status[w] = "Open"
    /\ UNCHANGED <<status, doomed>>
    /\ \E m \in Messages : mail' = [mail EXCEPT ![w] = Append(@, m)]

(* The worker is up.  Some of the collected messages may be lost on the way *)
(* to it, but the others keep their order.                                  *)
Open(w) ==
    /\ status[w] = "Opening"
    /\ w \notin doomed
    /\ status' = [status EXCEPT ![w] = "Open"]
    /\ \E keep \in SUBSET Messages : mail' = [mail EXCEPT ![w] = Kept(@, keep)]
    /\ UNCHANGED doomed

Deliver(w) ==
    /\ status[w] = "Open"
    /\ mail[w] # << >>
    /\ mail' = [mail EXCEPT ![w] = Tail(@)]
    /\ UNCHANGED <<status, doomed>>

(* TerminateWorker: noted while the worker is not up yet ... *)
Doom(w) ==
    /\ status[w] = "Opening"
    /\ doomed' = doomed \cup {w}
    /\ UNCHANGED <<status, mail>>

(* ... and then, or at once, no message is delivered any more. *)
Close(w) ==
    /\ \/ status[w] = "Opening" /\ w \in doomed
       \/ status[w] = "Open"
    /\ status' = [status EXCEPT ![w] = "Closing"]
    /\ doomed' = doomed
    /\ mail' = [mail EXCEPT ![w] = << >>]

Remove(w) ==
    /\ status[w] = "Closing"
    /\ status' = [status EXCEPT ![w] = "Down"]
    /\ doomed' = doomed \ {w}
    /\ UNCHANGED mail

Next ==
    \E w \in Workers :
        \/ Deploy(w) \/ Fail(w) \/ Send(w) \/ Open(w) \/ Deliver(w)
        \/ Doom(w) \/ Close(w) \/ Remove(w)

Spec == Init /\ [][Next]_svars
=============================================================================
