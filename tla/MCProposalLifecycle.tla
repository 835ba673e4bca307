------------------------ MODULE MCProposalLifecycle -------------------------
EXTENDS ProposalLifecycle, TLC

CONSTANTS p1, p2

Draft(kind, id, by, asks, sound) ==
  [kind |-> kind, id |-> id, by |-> by, asks |-> asks, sound |-> sound]

\* A skill for an agent that is not registered yet; a proposal of that agent,
\* an analysis with the approval of its workflow, or an improvement that the
\* actor's level forbids and the sandbox refuses.
MCDrafts ==
  p1 :> {Draft("skill", "lint", "helper", "pending", TRUE)}
  @@ p2 :> {Draft("agent", "helper", "ceo", "pending", TRUE),
            Draft("github", None, "ceo", "approved", TRUE),
            Draft("improvement", None, "ceo", "blocked", FALSE)}

\* A single skill for a registered agent.
MCSkillDraft == p1 :> {Draft("skill", "lint", "ceo", "pending", TRUE)}

Symmetry == Permutations(Threads)
=============================================================================
