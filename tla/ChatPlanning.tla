---------------------------- MODULE ChatPlanning ----------------------------
(***************************************************************************)
(* What a chat message may turn into: the rules that read its wording, the *)
(* planner model that is asked when they find nothing, the parser of its   *)
(* answer, and the proposal each plan becomes.  A message is its mode, the *)
(* kinds of markers it contains and the provider that was asked for.       *)
(***************************************************************************)
CONSTANT Local        \* the deterministic provider

Modes == {"auto", "chat", "action", "agent"}

\* CONVERSATIONAL_HINTS, OPERATIONAL_HINTS and the markers of _propose_chat_action
Marks == {"converse", "operate", "act", "create_goal", "continue_goal"}

\* Representatives of ALLOWED_INTENTS; the others become fixed workflows as
\* "task_plan" does.
Intents == {"conversation", "task_plan", "code_search", "collaboration", "agent_run", "create_goal"}

\* A JSON object of the model: an intent, a query or not, a target agent or not.
Plans == [intent : Intents \cup {"unknown"}, query : BOOLEAN, target : BOOLEAN]

Kinds == {"workflow", "goal", "agent"}

\* prefers_conversation
PrefersConversation(ask) == "converse" \in ask.marks

\* _model_chat_planner_available
Available(ask) == ask.want # Local

\* should_use_model_planner
ShouldUseModelPlanner(ask) ==
  /\ ask.mode # "chat"
  /\ ask.mode = "action" \/ (~PrefersConversation(ask) /\ "operate" \in ask.marks)

\* _build_goal_continue_proposal; without an active goal there is nothing to go on with
ContinueGoal(ask, active) ==
  IF ~active THEN "none" ELSE IF Available(ask) THEN "agent" ELSE "workflow"

\* _propose_chat_action
ProposeChatAction(ask, active) ==
  IF \/ ask.mode = "chat"
     \/ ask.mode = "auto" /\ PrefersConversation(ask)
     \/ ask.marks \cap {"act", "create_goal", "continue_goal"} = {}
  THEN "none"
  ELSE IF "create_goal" \in ask.marks THEN "goal"
  ELSE IF "continue_goal" \in ask.marks THEN ContinueGoal(ask, active)
  ELSE "workflow"

\* parse_chat_action_plan: a search needs its text and nothing else has one,
\* and only a collaboration names an agent.
Accepted(plan) ==
  /\ plan.intent \in Intents
  /\ plan.query <=> plan.intent = "code_search"
  /\ plan.target => plan.intent = "collaboration"

\* _proposal_from_chat_plan
ProposalFromPlan(intent, ask) ==
  CASE intent = "agent_run" -> IF Available(ask) THEN "agent" ELSE "none"
    [] intent = "create_goal" -> "goal"
    [] intent = "conversation" -> "none"
    [] OTHER -> "workflow"

\* respond_to_chat, once rules and planner have spoken: action mode always
\* proposes something.
FallBack(kind, ask) ==
  IF kind = "none" /\ ask.mode = "action" THEN ProposalFromPlan("task_plan", ask) ELSE kind
=============================================================================
