---------------------------- MODULE MCToolRuntime ----------------------------
EXTENDS ToolRuntime, TLC

ToolSet(enabled) ==
  [read |-> [id |-> "read", action |-> "read_git_state", level |-> L0, risk |-> Low,
             requires |-> FALSE, enabled |-> TRUE],
   patch |-> [id |-> "patch", action |-> "modify_workspace", level |-> L2, risk |-> Medium,
              requires |-> TRUE, enabled |-> TRUE],
   control |-> [id |-> "control", action |-> "control_local_computer", level |-> L4,
                risk |-> High, requires |-> TRUE, enabled |-> enabled]]

AgentSet(max) ==
  [ws |-> [enabled |-> TRUE, permissions |-> 0 .. max, forbidden |-> {},
           tools |-> {"read", "patch", "control"}]]

\* Desktop control switched on or off by the environment; the agent's boundary
\* lowered by another version of its definition.
SomeCatalogs == {[tools |-> ToolSet(TRUE),  agents |-> AgentSet(4)],
                 [tools |-> ToolSet(FALSE), agents |-> AgentSet(4)],
                 [tools |-> ToolSet(TRUE),  agents |-> AgentSet(2)]}

FullCatalog == {[tools |-> ToolSet(TRUE), agents |-> AgentSet(4)]}

ForbiddenSample == {"delete_audit_log"}
HighRiskSample == {"control_local_computer", "execute_payment"}
MediumRiskSample == {"call_external_api"}
RootOnlySample == {"delete_audit_log", "execute_payment"}

Symmetries == Permutations(Threads) \cup Permutations(Runs)
=============================================================================
