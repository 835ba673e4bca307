--------------------------- MODULE CapabilityGate ---------------------------
(***************************************************************************)
(* What the proposal factory promises about new capabilities: a Skill,     *)
(* Agent or knowledge document made from a proposal is published only      *)
(* after its approval, and once the caller has been told, a crash of the   *)
(* process takes neither back.  A crash may lose what nobody was told.     *)
(***************************************************************************)
CONSTANT Proposals

VARIABLES
  approved,    \* proposals whose approval request was approved
  published,   \* proposals with an entry in a catalog or the knowledge base
  confirmed    \* proposals whose registration has returned

gateVars == <<approved, published, confirmed>>

GateInit == approved = {} /\ published = {} /\ confirmed = {}

Approve(p) ==
  /\ approved' = approved \cup {p}
  /\ UNCHANGED <<published, confirmed>>

Publish(p) ==
  /\ p \in approved
  /\ published' = published \cup {p}
  /\ UNCHANGED <<approved, confirmed>>

Confirm(p) ==
  /\ p \in published
  /\ confirmed' = confirmed \cup {p}
  /\ UNCHANGED <<approved, published>>

Lose ==
  /\ approved' \in SUBSET approved
  /\ published' \in SUBSET published
  /\ confirmed \subseteq published' /\ published' \subseteq approved'
  /\ UNCHANGED confirmed

GateNext ==
  \/ \E p \in Proposals : Approve(p) \/ Publish(p) \/ Confirm(p)
  \/ Lose

GateSpec == GateInit /\ [][GateNext]_gateVars
=============================================================================
