---------------------------- MODULE EventDelivery ----------------------------
(***************************************************************************)
(* What a client promises about the events of its subscriptions, whatever  *)
(* connections, acknowledgements and threads do: each event is given to    *)
(* its region at most once, the events of a source are begun in their      *)
(* order, none is left out while the queues survive, and the servers are   *)
(* told to release only what was begun.                                    *)
(***************************************************************************)
EXTENDS Integers

CONSTANTS Sources, MaxEvents

VARIABLES made,       \* events made so far, per source
          begun,      \* events given to a region
          delivered,  \* how often a region has applied an event
          released,   \* the last event the servers may forget, per source
          lossless    \* the queues survive their servers

vars == <<made, begun, delivered, released, lossless>>

Init ==
  /\ made = [s \in Sources |-> 0]
  /\ begun = {}
  /\ delivered = [s \in Sources |-> [n \in 0..MaxEvents |-> 0]]
  /\ released = [s \in Sources |-> 0]
  /\ lossless \in BOOLEAN

Publish(s) ==
  /\ made[s] < MaxEvents
  /\ made' = [made EXCEPT ![s] = @ + 1]
  /\ UNCHANGED <<begun, delivered, released, lossless>>

Begin(s, n) ==
  /\ n <= made[s]
  /\ \A m \in 1..MaxEvents : <<s, m>> \in begun => m < n
  /\ lossless => \A m \in 1..(n - 1) : <<s, m>> \in begun
  /\ begun' = begun \cup {<<s, n>>}
  /\ UNCHANGED <<made, delivered, released, lossless>>

Deliver(s, n) ==
  /\ <<s, n>> \in begun
  /\ delivered[s][n] = 0
  /\ delivered' = [delivered EXCEPT ![s][n] = 1]
  /\ UNCHANGED <<made, begun, released, lossless>>

Release ==
  /\ released' \in [Sources -> 0..MaxEvents]
  /\ \A s \in Sources :
       /\ released[s] <= released'[s]
       /\ \A n \in 1..released'[s] : <<s, n>> \in begun
  /\ UNCHANGED <<made, begun, delivered, lossless>>

Next ==
  \/ \E s \in Sources : Publish(s)
  \/ \E s \in Sources, n \in 1..MaxEvents : Begin(s, n) \/ Deliver(s, n)
  \/ Release

Spec == Init /\ [][Next]_vars
=============================================================================
