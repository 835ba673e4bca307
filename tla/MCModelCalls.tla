---------------------------- MODULE MCModelCalls ----------------------------
\* A free local provider, one paid by its output with a fallback that is paid by
\* its input, a metered and a disabled policy, and a message for each way through
\* the planning.
EXTENDS ModelCalls, TLC

CONSTANTS Core, Paid

MCRates == Local :> [in |-> 0, out |-> 0] @@ Core :> [in |-> 0, out |-> 1]
             @@ Paid :> [in |-> 2, out |-> 0]
Symmetry == Permutations(Callers)

MCFallbacks == <<Paid>>

Metered == [enabled |-> TRUE, call |-> 3, total |-> 4, cost |-> 3, rate |-> 1]
Disabled == [Metered EXCEPT !.enabled = FALSE, !.call = 1]
MCPolicies == {Metered, Disabled}

Say(mode, marks, want) == [mode |-> mode, marks |-> marks, want |-> want]
MCAsks == {Say("auto", {"operate"}, Paid), Say("auto", {"act", "operate", "converse"}, Local),
           Say("chat", {"act", "operate"}, Core), Say("action", {}, Paid),
           Say("auto", {"act", "continue_goal"}, Local), Say("action", {}, Local), Say("agent", {}, Core)}
=============================================================================
