---------------------------- MODULE TimerService ----------------------------
(***************************************************************************)
(* What menabrea/timing.h promises of a timer, seen by the owner of the    *)
(* message it was armed with.  A message accepted by ArmTimer stays with   *)
(* the timer until exactly one of two things happens: the timer is due and *)
(* the message goes to the receiver, or the timer is disarmed (or retired  *)
(* at shutdown) and the message is destroyed.  A timer that was disarmed   *)
(* is silent until it is armed again, however late its old timeout event   *)
(* arrives.                                                                *)
(***************************************************************************)
CONSTANTS Timers, Messages, NoMessage

VARIABLES status,   (* "Off", "Idle", "Armed" (running) or "Due" (expired)  *)
          held,     (* the message each timer was armed with, or NoMessage  *)
          owner     (* who owns each message: "Pool", "Timer" or "Receiver" *)

vars == <<status, held, owner>>

Init ==
    /\ status = [t \in Timers |-> "Off"]
    /\ held = [t \in Timers |-> NoMessage]
    /\ owner = [m \in Messages |-> "Pool"]

Create(t) ==
    /\ status[t] = "Off"
    /\ status' = [status EXCEPT ![t] = "Idle"]
    /\ UNCHANGED <<held, owner>>

Arm(t, m) ==
    /\ status[t] = "Idle"
    /\ owner[m] = "Pool"
    /\ status' = [status EXCEPT ![t] = "Armed"]
    /\ held' = [held EXCEPT ![t] = m]
    /\ owner' = [owner EXCEPT ![m] = "Timer"]

(* The timeout elapses. *)
Expire(t) ==
    /\ status[t] = "Armed"
    /\ status' = [status EXCEPT ![t] = "Due"]
    /\ UNCHANGED <<held, owner>>

(* The message of a one-shot timer goes to its receiver. *)
Deliver(t) ==
    /\ status[t] = "Due"
    /\ held[t] \in Messages
    /\ owner[held[t]] = "Timer"
    /\ status' = [status EXCEPT ![t] = "Idle"]
    /\ held' = [held EXCEPT ![t] = NoMessage]
    /\ owner' = [owner EXCEPT ![held[t]] = "Receiver"]

(* A periodic timer sends a copy, keeps the message and runs again. *)
DeliverCopy(t) ==
    /\ status[t] = "Due"
    /\ status' = [status EXCEPT ![t] = "Armed"]
    /\ UNCHANGED <<held, owner>>

(* The timer is disarmed (into "Idle") or retired (into "Off"). *)
Cancel(t, s) ==
    /\ status[t] \in {"Armed", "Due"}
    /\ s \in {"Idle", "Off"}
    /\ held[t] \in Messages
    /\ owner[held[t]] = "Timer"
    /\ status' = [status EXCEPT ![t] = s]
    /\ held' = [held EXCEPT ![t] = NoMessage]
    /\ owner' = [owner EXCEPT ![held[t]] = "Pool"]

(* An idle timer is destroyed or retired. *)
Destroy(t) ==
    /\ status[t] = "Idle"
    /\ status' = [status EXCEPT ![t] = "Off"]
    /\ UNCHANGED <<held, owner>>

(* The receiver is done with a message it was sent. *)
Consume(m) ==
    /\ owner[m] = "Receiver"
    /\ owner' = [owner EXCEPT ![m] = "Pool"]
    /\ UNCHANGED <<status, held>>

Next ==
    \/ \E t \in Timers :
          \/ Create(t) \/ Expire(t) \/ Deliver(t) \/ DeliverCopy(t) \/ Destroy(t)
          \/ \E m \in Messages : Arm(t, m)
          \/ \E s \in {"Idle", "Off"} : Cancel(t, s)
    \/ \E m \in Messages : Consume(m)

Spec == Init /\ [][Next]_vars
=============================================================================
