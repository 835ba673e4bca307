------------------------------- MODULE Policy -------------------------------
(***************************************************************************)
(* The two policy engines every controlled operation asks: the risk engine *)
(* and the permission engine, and the risk of a registered tool.           *)
(***************************************************************************)
EXTENDS Integers

CONSTANTS ForbiddenActions, HighRiskActions, MediumRiskActions, RootOnlyActions

\* PermissionLevel, by PERMISSION_ORDER.
L0 == 0
L2 == 2
L3 == 3
L4 == 4
Levels == 0 .. 5

\* RiskLevel, by the order _assess_tool_request compares them in.
Low == 0
Medium == 1
High == 2
Forbidden == 3
RiskLevels == 0 .. 3

\* A forbidden action is classified first, whatever else lists it.
ASSUME RiskTablesAssumption ==
  /\ HighRiskActions \cap MediumRiskActions = {}
  /\ ForbiddenActions \cap (HighRiskActions \cup MediumRiskActions) = {}

\* RiskEngine.assess: the level decides the other two fields.
Assess(action, level) ==
  LET risk == IF action \in ForbiddenActions THEN Forbidden
              ELSE IF action \in HighRiskActions \/ level = L4 THEN High
              ELSE IF action \in MediumRiskActions \/ level = L3 THEN Medium
              ELSE Low
  IN  [level |-> risk, requires |-> risk # Low, blocked |-> risk = Forbidden]

\* PermissionEngine.evaluate.
Evaluate(agent, action, level) ==
  IF \/ ~agent.enabled
     \/ action \in RootOnlyActions
     \/ action \in agent.forbidden
     \/ \A own \in agent.permissions : level > own
  THEN "block"
  ELSE IF level \in {L3, L4} THEN "require_approval"
  ELSE "allow"

\* _assess_tool_request: the worse of the assessed and the registered risk.
AssessTool(tool) ==
  LET assessed == Assess(tool.action, tool.level)
      risk == IF assessed.level > tool.risk THEN assessed.level ELSE tool.risk
  IN  [level |-> risk,
       requires |-> assessed.requires \/ tool.requires \/ risk # Low,
       blocked |-> assessed.blocked \/ risk = Forbidden]

\* What request_tool_run and complete_tool_run both refuse.
ToolRefused(agent, tool) ==
  \/ ~tool.enabled
  \/ tool.id \notin agent.tools
  \/ AssessTool(tool).blocked
  \/ Evaluate(agent, tool.action, tool.level) = "block"

ToolNeedsApproval(agent, tool) ==
  \/ AssessTool(tool).requires
  \/ Evaluate(agent, tool.action, tool.level) = "require_approval"
  \/ tool.requires
=============================================================================
