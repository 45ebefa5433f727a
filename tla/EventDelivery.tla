---------------------------- MODULE EventDelivery -----------------------------
(***************************************************************************)
(* What the event loop promises to the code that registers handlers: an     *)
(* event object goes through its life once per registration.  It waits for  *)
(* its socket, it occurs, one worker handles it, and only then may its      *)
(* memory serve another registration.  A handler is called at most once per *)
(* registration, and workers get the events in the order they occurred.     *)
(***************************************************************************)
EXTENDS Sequences, Naturals

CONSTANTS Events

VARIABLES
    phase,     \* the phase of every event object
    arrived    \* the events that occurred and are not yet handled, in order

dvars == <<phase, arrived>>

Phases == {"free", "waiting", "arrived", "handled"}

DeliveryInit ==
    /\ phase = [e \in Events |-> "free"]
    /\ arrived = <<>>

(* An event is registered, or created by the loop itself (accept).          *)
Register(e) ==
    /\ phase[e] = "free"
    /\ phase' = [phase EXCEPT ![e] = "waiting"]
    /\ UNCHANGED arrived

(* What waits is taken back: el_socket_close takes everything that waits on *)
(* a socket, the manager gives up an unfinished write.                      *)
Cancel(S) ==
    /\ \A e \in S : phase[e] = "waiting"
    /\ phase' = [e \in Events |-> IF e \in S THEN "free" ELSE phase[e]]
    /\ UNCHANGED arrived

(* The event occurs, or is created as already occurred (close).             *)
Occur(e) ==
    /\ phase[e] \in {"waiting", "free"}
    /\ phase' = [phase EXCEPT ![e] = "arrived"]
    /\ arrived' = Append(arrived, e)

(* A worker takes the event that occurred first.                            *)
Handle ==
    /\ arrived # <<>>
    /\ phase' = [phase EXCEPT ![Head(arrived)] = "handled"]
    /\ arrived' = Tail(arrived)

Finish(e) ==
    /\ phase[e] = "handled"
    /\ phase' = [phase EXCEPT ![e] = "free"]
    /\ UNCHANGED arrived

DeliveryNext ==
    \/ \E e \in Events : Register(e) \/ Occur(e) \/ Finish(e)
    \/ \E S \in SUBSET Events : Cancel(S)
    \/ Handle

DeliverySpec == DeliveryInit /\ [][DeliveryNext]_dvars
===============================================================================
