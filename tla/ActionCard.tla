----------------------------- MODULE ActionCard -----------------------------
(***************************************************************************)
(* What the chat promises for an action card, as it is stored: a card      *)
(* confirmed once is not confirmed again in the same process, a restart    *)
(* offers again only what had not been settled, a card that waits for a    *)
(* decision is never offered again, and what has ended stays as it ended.  *)
(* A session may be deleted, and its cards with it.                        *)
(***************************************************************************)
EXTENDS Naturals

CONSTANT Actions

VARIABLES
  card,    \* the stored status of each action
  begun,   \* how often it was confirmed
  lives    \* processes started so far

cardVars == <<card, begun, lives>>

Settled == {"completed", "cancelled", "failed"}

CardInit ==
  /\ card = [a \in Actions |-> "none"]
  /\ begun = [a \in Actions |-> 0]
  /\ lives = 1

Confirm(a) ==
  /\ card[a] \notin Settled \cup {"waiting_approval"}
  /\ begun[a] < lives
  /\ begun' = [begun EXCEPT ![a] = @ + 1]
  /\ UNCHANGED <<card, lives>>

Follows(s) ==
  CASE s = "none" -> {"pending", "executing", "waiting_approval"} \cup Settled
    [] s = "pending" -> {"executing", "waiting_approval"} \cup Settled
    [] s = "executing" -> {"pending", "waiting_approval"} \cup Settled
    [] s = "waiting_approval" -> {"executing"} \cup Settled
    [] OTHER -> {}

\* A sync writes the sessions; a deletion takes cards away.
Write ==
  /\ card' \in [Actions -> {"none", "pending", "executing", "waiting_approval"} \cup Settled]
  /\ \A a \in Actions : card'[a] \in {"none", card[a]} \cup Follows(card[a])
  /\ UNCHANGED <<begun, lives>>

Restart == lives' = lives + 1 /\ UNCHANGED <<card, begun>>

CardNext == Write \/ Restart \/ \E a \in Actions : Confirm(a)

CardSpec == CardInit /\ [][CardNext]_cardVars
=============================================================================
