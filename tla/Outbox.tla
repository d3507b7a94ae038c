------------------------------- MODULE Outbox -------------------------------
(***************************************************************************)
(* What the send queue promises, whatever crashes, is refused or is lost:  *)
(* a queued message is delivered any number of times while it is pending,  *)
(* it is reported as sent only after a delivery, and then it is not        *)
(* delivered again.  A rejected message comes back only on request.        *)
(***************************************************************************)
EXTENDS Naturals

CONSTANT Messages
VARIABLES
    state,      \* of each message: "none", "pending", "sent" or "rejected"
    delivered   \* how often the server has accepted a message

outbox == <<state, delivered>>

Move(m, from, to) == /\ state[m] = from
                     /\ state' = [state EXCEPT ![m] = to]
                     /\ UNCHANGED delivered

Queue(m)   == Move(m, "none", "pending")
Deliver(m) == /\ state[m] = "pending"
              /\ delivered' = [delivered EXCEPT ![m] = @ + 1]
              /\ UNCHANGED state
Confirm(m) == delivered[m] > 0 /\ Move(m, "pending", "sent")
Reject(m)  == Move(m, "pending", "rejected")
Retry(m)   == Move(m, "rejected", "pending")

OutboxInit == /\ state = [m \in Messages |-> "none"]
              /\ delivered = [m \in Messages |-> 0]
OutboxNext == \E m \in Messages : \/ Queue(m) \/ Deliver(m) \/ Confirm(m)
                                  \/ Reject(m) \/ Retry(m)
OutboxSpec == OutboxInit /\ [][OutboxNext]_outbox
=============================================================================
