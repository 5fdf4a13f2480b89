------------------------------ MODULE AlertFeed ------------------------------
(***************************************************************************)
(* What the way from a monitor to the dashboard promises about alerts, and *)
(* no more: an alert that is offered is stored once or lost, not long      *)
(* after; and no alert is offered again within the suppression time.       *)
(* AlertDelivery implements it.                                            *)
(***************************************************************************)
EXTENDS Integers

CONSTANTS
  Alert,
  Suppress, \* an alert offered less than this long ago is not offered again
  Delay     \* an offered alert is stored or lost within this time

VARIABLES
  pending, \* offered, neither stored nor lost yet
  offered, \* how long ago each alert was last offered, up to Suppress
  stored   \* how long ago it was last stored, up to Suppress

feedVars == <<pending, offered, stored>>

Init ==
  /\ pending = {}
  /\ offered = [a \in Alert |-> Suppress]
  /\ stored = [a \in Alert |-> Suppress]

Offer(a) ==
  /\ offered[a] >= Suppress
  /\ offered' = [offered EXCEPT ![a] = 0]
  /\ pending' = pending \cup {[of |-> a, age |-> 0]}
  /\ UNCHANGED stored

Store(p) ==
  /\ pending' = pending \ {p}
  /\ stored' = [stored EXCEPT ![p.of] = 0]
  /\ UNCHANGED offered

\* One post or, when a program stops, several.
Lose(lost) ==
  /\ lost # {}
  /\ pending' = pending \ lost
  /\ UNCHANGED <<offered, stored>>

Pass ==
  LET later(age) == IF age < Suppress THEN age + 1 ELSE Suppress
  IN  /\ \A p \in pending : p.age < Delay
      /\ pending' = {[p EXCEPT !.age = @ + 1] : p \in pending}
      /\ offered' = [a \in Alert |-> later(offered[a])]
      /\ stored' = [a \in Alert |-> later(stored[a])]

Settle == (\E p \in pending : Store(p)) \/ (\E lost \in SUBSET pending : Lose(lost))

Next == (\E a \in Alert : Offer(a)) \/ Settle \/ Pass

\* Whatever is offered is stored or lost in the end.
Spec == Init /\ [][Next]_feedVars /\ WF_feedVars(Settle)

=============================================================================
