------------------------------ MODULE CardLife ------------------------------
(***************************************************************************)
(* What users see of a bot command: a card that appears, runs and ends in  *)
(* one terminal state, with no step of it still spinning.  The answer is   *)
(* given at most once; a notice may come before the card and the answer    *)
(* and be a first response to the same interaction.                        *)
(***************************************************************************)
EXTENDS Naturals

CONSTANT Inv

VARIABLES card           \* card[i]: the card of command i

Shown == [state : {"none", "running", "complete", "failed"}, open : 0..1,
          early : 0..1, replies : 0..1]

CardInit == card = [i \in Inv |-> [state |-> "none", open |-> 0, early |-> 0, replies |-> 0]]

\* A notice is given before the card is there and before the answer.
Noticed(c, d) == c.early = 0 /\ c.state = "none" /\ c.replies = 0 /\ d = [c EXCEPT !.early = 1]

\* A card appears once, changes its steps while it runs, and keeps the state
\* it ends in; steps are open in a running card only.
Follows(c) == CASE c.state = "none" -> {"none", "running"}
                [] c.state = "running" -> {"running", "complete", "failed"}
                [] OTHER -> {c.state}

Change(c) == {d \in Shown : \/ Noticed(c, d)
                            \/ /\ d.early = c.early
                               /\ d.state \in Follows(c)
                               /\ d.state # "running" => d.open = 0
                               /\ d.replies >= c.replies}

CardNext == \E i \in Inv : /\ card'[i] \in Change(card[i])
                           /\ card' = [card EXCEPT ![i] = card'[i]]

CardSpec == CardInit /\ [][CardNext]_card
=============================================================================
