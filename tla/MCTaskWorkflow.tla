---------------------------- MODULE MCTaskWorkflow ----------------------------
EXTENDS TaskWorkflow, TLC

CONSTANTS t1, t2

AllKinds == {"document", "planning", "collaboration", "skill_missing", "agent_missing",
             "approval", "quality", "retrospective", "github", "tool_call"}
ThreadSymmetry == Permutations(Threads)
=============================================================================
