----------------------------- MODULE ModelCalls -----------------------------
(***************************************************************************)
(* Model calls and what they cost: requests to POST /models/generate and   *)
(* turns of the chat, each with up to two calls, and the embedding of      *)
(* knowledge documents inside a sync.  A call is checked against the       *)
(* budget, given a cap on its output, sent to a provider and its fallbacks *)
(* and charged when it returns; the calls of other threads run in between. *)
(* Refusals and failures leave an incident and an alert.  The store is     *)
(* PostgreSQL, whose sync is one transaction; the process may crash.       *)
(***************************************************************************)
EXTENDS Naturals, Sequences, FiniteSetsExt, ChatPlanning

CONSTANTS Callers,      \* request threads
          Providers,
          Fallbacks,    \* AI_COMPANY_OS_MODEL_FALLBACKS
          Rates,        \* price of an input and of an output token
          Policies,     \* the budget policies that are ever in force
          First,        \* the one at the start
          Asks,         \* the chat messages: mode, marks and wanted provider
          Docs,         \* documents that write_knowledge adds
          Prompt,       \* tokens of every prompt, document and query
          Mock,         \* tokens of the deterministic answer
          None,
          MaxCalls, MaxRestarts,  \* bounds on requests and on crashes
          MaxIncidents            \* more than these requests can report

ASSUME ProvidersAssumption ==
  Local \in Providers /\ Fallbacks \in Seq(Providers)
  /\ Rates \in [Providers -> [in : Nat, out : Nat]]
\* Finitely many providers and policies: some price, some limit is the highest.
ASSUME HighestAssumption ==
  /\ \A route \in (SUBSET Providers) \ {{}} :
       /\ \E p \in route : \A q \in route : Rates[p].in >= Rates[q].in
       /\ \E p \in route : \A q \in route : Rates[p].out >= Rates[q].out
  /\ \E p \in Policies : \A q \in Policies : p.total >= q.total
  /\ \E p \in Policies : \A q \in Policies : p.call >= q.call
ASSUME PoliciesAssumption ==
  /\ First \in Policies
  /\ Policies \subseteq [enabled : BOOLEAN, call : Nat \ {0}, total : Nat \ {0}, cost : Nat, rate : Nat]
  /\ \A p \in Policies : p.total >= p.call          \* update_policy refuses others
ASSUME AsksAssumption == Asks \subseteq [mode : Modes, marks : SUBSET Marks, want : Providers]
ASSUME BoundsAssumption ==
  IsFiniteSet(Callers) /\ Prompt \in Nat \ {0} /\ Mock \in Nat \ {0} /\ MaxCalls \in Nat
  /\ MaxRestarts \in Nat /\ MaxIncidents \in Nat

VARIABLES
  policy,     \* the BudgetPolicy in force
  spent,      \* tokens and cost of the recorded cost logs
  incidents,  \* how many have been reported
  known,      \* documents of the knowledge base
  indexed,    \* _indexed_knowledge_ids
  aside,      \* _failed_embedding_ids
  th,         \* what each request thread is doing
  db,         \* the stored policy, spending, incidents, documents and embeddings
  unmetered,  \* a call was admitted while the policy was disabled
  calls, restarts

vars == <<policy, spent, incidents, known, indexed, aside, th, db, unmetered, calls, restarts>>

Zero == [tokens |-> 0, cost |-> 0]
Idle == [pc |-> "idle"]

Init ==
  /\ policy = First
  /\ spent = Zero
  /\ incidents = 0
  /\ known = {} /\ indexed = {} /\ aside = {}
  /\ th = [t \in Callers |-> Idle]
  /\ db = [policy |-> First, spent |-> Zero, incidents |-> 0, known |-> {}, vectors |-> {}]
  /\ unmetered = FALSE
  /\ calls = 0 /\ restarts = 0

Goes(t, to) == th' = [th EXCEPT ![t] = to]

\* A sync lists the records first; cost logs, incidents and documents only ever
\* grow.  sync() looks for missing embeddings afterwards.
Listed(again, next) ==
  [pc |-> "commit", next |-> next, again |-> again,
   policy |-> policy', spent |-> spent', incidents |-> incidents', known |-> known']

Sync(t, next) == Goes(t, Listed(TRUE, next))

\* What the books say when the request is answered.
Told(req, out) ==
  [pc |-> "answer", req |-> req, out |-> out,
   books |-> [tokens |-> spent'.tokens, incidents |-> incidents']]

Answers(t, req, out) == Sync(t, Told(req, out))

-----------------------------------------------------------------------------
(* The budget guard                                                        *)

Less(a, b) == IF a > b THEN a - b ELSE 0

FallbacksOf(want) == SelectSeq(Fallbacks, LAMBDA p : p # want)
ASSUME FallbacksAssumption == \A p \in Providers : FallbacksOf(p) \in Seq(Providers)

\* _generation_attempts
Attempts(want) == <<want>> \o FallbacksOf(want)

\* Mutated: only the rates of the provider that was asked for.
RequestedRates(want) == Rates[want]

\* budget_rates: the highest of the route and its fallbacks.
BudgetRates(want) ==
  LET route == {Attempts(want)[i] : i \in DOMAIN Attempts(want)} IN
  [in |-> Max({Rates[p].in : p \in route}), out |-> Max({Rates[p].out : p \in route})]

\* check_model_call
Allowed(rates) ==
  LET tokens == Prompt + Mock
      cost == Prompt * rates.in + Mock * rates.out IN
  \/ ~policy.enabled
  \/ /\ tokens <= policy.call
     /\ spent.tokens + tokens <= policy.total
     /\ spent.cost + cost <= policy.cost

\* Mutated: the prompt is not taken off what is left.
CapPromptless(rates) ==
  LET left == Less(policy.cost, spent.cost + Prompt * rates.in)
      limits == {policy.call, Less(policy.total, spent.tokens)}
                  \cup (IF rates.out > 0 THEN {left \div rates.out} ELSE {}) IN
  IF policy.enabled THEN Max({1, Min(limits)}) ELSE Max({1, Less(policy.call, Prompt)})

\* Mutated: there may be nothing left to allow.
CapZero(rates) ==
  LET left == Less(policy.cost, spent.cost + Prompt * rates.in)
      limits == {Less(policy.call, Prompt), Less(policy.total, spent.tokens + Prompt)}
                  \cup (IF rates.out > 0 THEN {left \div rates.out} ELSE {}) IN
  IF policy.enabled THEN Min(limits) ELSE Less(policy.call, Prompt)

\* max_output_tokens
MaxOutputTokens(rates) ==
  LET left == Less(policy.cost, spent.cost + Prompt * rates.in)
      limits == {Less(policy.call, Prompt), Less(policy.total, spent.tokens + Prompt)}
                  \cup (IF rates.out > 0 THEN {left \div rates.out} ELSE {}) IN
  IF policy.enabled THEN Max({1, Min(limits)}) ELSE Max({1, Less(policy.call, Prompt)})

\* What the policy leaves to the call that is admitted now.
Room == [tokens |-> Less(policy.total, spent.tokens), cost |-> Less(policy.cost, spent.cost),
         metered |-> policy.enabled]

\* record_usage and record_cost with the result "recorded"
Charge(in, out, rates) ==
  spent' = [tokens |-> spent.tokens + in + out,
            cost |-> spent.cost + in * rates.in + out * rates.out]

\* _report_incident, and its alert, which is sent before anything is stored
Reports(t, then) ==
  /\ incidents < MaxIncidents
  /\ incidents' = incidents + 1
  /\ Goes(t, [pc |-> "alert", then |-> then])

\* search_knowledge syncs without looking for missing embeddings.
AfterEmbedding(more) == IF more.pc = "search" THEN Listed(FALSE, Idle) ELSE more

-----------------------------------------------------------------------------
(* generate_model_response                                                 *)

\* A call of a request: preflight, and the cap read in the same breath.
Check(t, req) ==
  LET rates == BudgetRates(req.want) IN
  /\ IF Allowed(rates)
     THEN /\ Goes(t, [pc |-> "provider", req |-> req, i |-> 1, heard |-> {},
                      max |-> MaxOutputTokens(rates), room |-> Room])
          /\ unmetered' = (unmetered \/ ~policy.enabled)
          /\ UNCHANGED incidents
     ELSE Reports(t, [req |-> req, out |-> "blocked"]) /\ UNCHANGED unmetered
  /\ UNCHANGED <<policy, spent, known, indexed, aside, db, restarts>>

Generate(t) ==
  /\ th[t].pc = "idle" /\ calls < MaxCalls
  /\ calls' = calls + 1
  /\ \E p \in Providers :
       Check(t, [mode |-> "generate", marks |-> {}, want |-> p, stage |-> "generate", stream |-> FALSE])

Attempt(t) == Attempts(th[t].req.want)[th[t].i]

\* A delta of the stream reaches the caller.
StreamDelta(t) ==
  /\ th[t].pc = "provider"
  /\ th[t].req.stream
  /\ Attempt(t) \notin th[t].heard
  /\ Goes(t, [th[t] EXCEPT !.heard = @ \cup {Attempt(t)}])
  /\ UNCHANGED <<policy, spent, incidents, known, indexed, aside, db, unmetered, calls, restarts>>

\* The deterministic provider answers with what the guard estimated; another
\* one keeps to the cap.
Completions(t) == IF Attempt(t) = Local THEN {Mock} ELSE 1..th[t].max

CallReturns(t) ==
  LET req == th[t].req IN
  /\ th[t].pc = "provider"
  /\ \E c \in Completions(t) : Charge(Prompt, c, Rates[Attempt(t)])
  /\ UNCHANGED <<policy, incidents, known, indexed, aside, db, unmetered, calls, restarts>>
  /\ IF req.stage = "plan"
     THEN Sync(t, [pc |-> "parse", req |-> req])
     ELSE Answers(t, req, "text")

\* Mutated: the next provider is asked even if the caller has heard this one.
NeverInterrupted(t) == FALSE

Interrupted(t) == Attempt(t) \in th[t].heard

\* ModelProviderError of one provider
ProviderFails(t) ==
  LET last == th[t].i = Len(Attempts(th[t].req.want)) IN
  /\ th[t].pc = "provider"
  /\ Attempt(t) # Local
  /\ IF Interrupted(t) \/ last
     THEN Reports(t, [req |-> th[t].req, out |-> "failed"])
     ELSE Goes(t, [th[t] EXCEPT !.i = @ + 1]) /\ UNCHANGED incidents
  /\ UNCHANGED <<policy, spent, known, indexed, aside, db, unmetered, calls, restarts>>

\* Mutated: the caller is told before the incident is stored.
ToldAtOnce(t, req, out) == Goes(t, Told(req, out))

ToldAfterSync(t, req, out) == Answers(t, req, out)

\* Mutated: a document that could not be embedded is not remembered.
Forgotten(doc) == {}

SetAside(doc) == {doc} \cap Docs

\* send_incident returns, whether the webhook took it or not; a document is set
\* aside only now.
AlertDone(t) ==
  LET then == th[t].then IN
  /\ th[t].pc = "alert"
  /\ UNCHANGED <<policy, spent, incidents, known, indexed, db, unmetered, calls, restarts>>
  /\ \/ /\ "req" \in DOMAIN then
        /\ UNCHANGED aside
        /\ ToldAfterSync(t, then.req, then.out)
     \/ /\ "doc" \in DOMAIN then
        /\ aside' = aside \cup SetAside(then.doc)
        /\ Goes(t, AfterEmbedding(then.more))

Answer(t) ==
  /\ th[t].pc = "answer"
  /\ Goes(t, Idle)
  /\ UNCHANGED <<policy, spent, incidents, known, indexed, aside, db, unmetered, calls, restarts>>

-----------------------------------------------------------------------------
(* respond_to_chat                                                         *)

\* The audit trail gets the proposal.
Proposes(t, req, kind) ==
  /\ UNCHANGED <<policy, spent, incidents, known, indexed, aside, db, unmetered, restarts>>
  /\ Answers(t, req, kind)

Converse(t, req) ==
  \E stream \in BOOLEAN : Check(t, [req EXCEPT !.stage = "converse", !.stream = stream])

Respond(t, ask) ==
  LET req == [mode |-> ask.mode, marks |-> ask.marks, want |-> ask.want,
              stage |-> "plan", stream |-> FALSE] IN
  /\ th[t].pc = "idle" /\ calls < MaxCalls
  /\ ask.mode = "agent" => Available(ask)      \* refused at once otherwise
  /\ calls' = calls + 1
  /\ \E active \in BOOLEAN :
       LET kind == IF ask.mode = "agent" THEN "agent" ELSE ProposeChatAction(ask, active) IN
       IF kind # "none" THEN Proposes(t, req, kind)
       ELSE IF ShouldUseModelPlanner(ask) /\ Available(ask) THEN Check(t, req)
       ELSE IF FallBack("none", ask) # "none" THEN Proposes(t, req, FallBack("none", ask))
       ELSE Converse(t, req)

\* Mutated: a message the planner found nothing in is only talked about.
TalkAnyway(plan, req) == IF Accepted(plan) THEN ProposalFromPlan(plan.intent, req) ELSE "none"

Planned(plan, req) ==
  FallBack(IF Accepted(plan) THEN ProposalFromPlan(plan.intent, req) ELSE "none", req)

ReadPlan(t) ==
  LET req == th[t].req IN
  /\ th[t].pc = "parse"
  /\ UNCHANGED calls
  /\ \E plan \in Plans :
       IF Planned(plan, req) # "none" THEN Proposes(t, req, Planned(plan, req)) ELSE Converse(t, req)

-----------------------------------------------------------------------------
(* update_budget_policy                                                    *)

UpdateBudgetPolicy(t, p) ==
  /\ th[t].pc = "idle" /\ calls < MaxCalls
  /\ policy # p
  /\ policy' = p
  /\ calls' = calls + 1
  /\ UNCHANGED <<spent, incidents, known, indexed, aside, db, unmetered, restarts>>
  /\ Sync(t, Idle)

\* Anyone but Human Root
PolicyUpdateBlocked(t) ==
  /\ th[t].pc = "idle" /\ calls < MaxCalls
  /\ calls' = calls + 1
  /\ Reports(t, [req |-> [mode |-> "policy"], out |-> "blocked"])
  /\ UNCHANGED <<policy, spent, known, indexed, aside, db, unmetered, restarts>>

-----------------------------------------------------------------------------
(* sync: a transaction, then the documents that have no embedding          *)

Indexing(next) == [pc |-> "index", next |-> next, todo |-> known', changed |-> FALSE]

Commit(t) ==
  LET s == th[t] IN
  /\ s.pc = "commit"
  /\ db' = [db EXCEPT !.policy = s.policy,
                      !.spent = IF s.spent.tokens > @.tokens THEN s.spent ELSE @,
                      !.incidents = Max({@, s.incidents}),
                      !.known = @ \cup s.known]
  /\ UNCHANGED <<policy, spent, incidents, known, indexed, aside, unmetered, calls, restarts>>
  /\ Goes(t, IF s.again THEN Indexing(s.next) ELSE s.next)

\* Preflight of an embedding, at the policy's own rate.
CheckEmbedding(t, doc, more) ==
  IF Allowed([in |-> policy.rate, out |-> policy.rate])
  THEN /\ Goes(t, [pc |-> "embed", doc |-> doc, more |-> more, room |-> Room])
       /\ unmetered' = (unmetered \/ ~policy.enabled)
       /\ UNCHANGED incidents
  ELSE Reports(t, [doc |-> doc, more |-> more]) /\ UNCHANGED unmetered

\* _index_missing_knowledge goes once over the documents it found.
IndexNext(t) ==
  LET s == th[t]
      missing == s.todo \ (indexed \cup aside) IN
  /\ s.pc = "index"
  /\ UNCHANGED <<policy, spent, known, indexed, aside, db, calls, restarts>>
  /\ \/ /\ missing = {}
        /\ UNCHANGED <<incidents, unmetered>>
        /\ Goes(t, IF s.changed THEN Listed(FALSE, s.next) ELSE s.next)
     \/ \E d \in missing :
          CheckEmbedding(t, d, [s EXCEPT !.todo = @ \ {d}, !.changed = TRUE])

\* embed, upsert_knowledge_embedding and _record_embedding_usage
Embedded(t) ==
  LET new == {th[t].doc} \cap Docs IN
  /\ th[t].pc = "embed"
  /\ Charge(Prompt, 0, [in |-> policy.rate, out |-> 0])
  /\ indexed' = indexed \cup new
  /\ db' = [db EXCEPT !.vectors = @ \cup new]
  /\ UNCHANGED <<policy, incidents, known, aside, unmetered, calls, restarts>>
  /\ Goes(t, AfterEmbedding(th[t].more))

EmbeddingFails(t) ==
  /\ th[t].pc = "embed"
  /\ Reports(t, [doc |-> th[t].doc, more |-> th[t].more])
  /\ UNCHANGED <<policy, spent, known, indexed, aside, db, unmetered, calls, restarts>>

WriteKnowledge(t, d) ==
  /\ th[t].pc = "idle" /\ calls < MaxCalls /\ d \notin known
  /\ calls' = calls + 1
  /\ known' = known \cup {d}
  /\ UNCHANGED <<policy, spent, incidents, indexed, aside, db, unmetered, restarts>>
  /\ Sync(t, Idle)

\* search_knowledge embeds the query.
SearchKnowledge(t) ==
  /\ th[t].pc = "idle" /\ calls < MaxCalls
  /\ calls' = calls + 1
  /\ CheckEmbedding(t, None, [pc |-> "search"])
  /\ UNCHANGED <<policy, spent, known, indexed, aside, db, restarts>>

\* reindex_knowledge forgets what has been embedded and what had failed.
ReindexKnowledge(t) ==
  /\ th[t].pc = "idle" /\ calls < MaxCalls
  /\ calls' = calls + 1
  /\ indexed' = {} /\ aside' = {}
  /\ UNCHANGED <<policy, spent, incidents, known, db, unmetered, restarts>>
  /\ Goes(t, Indexing(Idle))

\* __post_init__ and _configure_knowledge_vectors
Restart ==
  /\ restarts < MaxRestarts
  /\ restarts' = restarts + 1
  /\ policy' = db.policy
  /\ spent' = db.spent
  /\ incidents' = db.incidents
  /\ known' = db.known
  /\ indexed' = db.vectors
  /\ aside' = {}
  /\ th' = [t \in Callers |-> Idle]
  /\ UNCHANGED <<db, unmetered, calls>>

-----------------------------------------------------------------------------
Step(t) ==
  \/ StreamDelta(t) \/ CallReturns(t) \/ ProviderFails(t) \/ AlertDone(t) \/ Answer(t)
  \/ ReadPlan(t) \/ Commit(t) \/ IndexNext(t) \/ Embedded(t) \/ EmbeddingFails(t)

Request(t) ==
  \/ Generate(t) \/ PolicyUpdateBlocked(t) \/ SearchKnowledge(t) \/ ReindexKnowledge(t)
  \/ \E d \in Docs : WriteKnowledge(t, d)
  \/ \E ask \in Asks : Respond(t, ask)
  \/ \E p \in Policies : UpdateBudgetPolicy(t, p)

Next == Restart \/ \E t \in Callers : Step(t) \/ Request(t)

Spec == Init /\ [][Next]_vars
-----------------------------------------------------------------------------
InFlight(t) == th[t].pc \in {"provider", "embed"}

\* The books are numbers, the threads are at known points, and a call that was
\* admitted may always produce at least one token.
TypeOK ==
  /\ policy \in Policies /\ db.policy \in Policies
  /\ spent \in [tokens : Nat, cost : Nat] /\ db.spent \in [tokens : Nat, cost : Nat]
  /\ incidents \in 0..MaxIncidents /\ db.incidents \in 0..incidents
  /\ known \subseteq Docs /\ indexed \subseteq Docs /\ aside \subseteq Docs
  /\ \A t \in Callers :
       /\ th[t].pc \in {"idle", "provider", "alert", "parse", "answer", "commit", "index", "embed"}
       /\ th[t].pc = "provider" => /\ th[t].max \in Nat \ {0}
                                   /\ th[t].i \in DOMAIN Attempts(th[t].req.want)

\* Calls that pass the preflight together are charged together, so the total can
\* be overrun; but only by the calls of the other threads, each within the
\* limit of one call.
SpendBounded ==
  ~unmetered =>
    spent.tokens <= Max({p.total : p \in Policies})
                      + (Cardinality(Callers) - 1) * Max({p.call : p \in Policies})

\* A call is never charged more than the policy it was admitted under had left
\* when it was admitted, whichever provider of its route answered it.
AdmittedFits ==
  [][\A t \in Callers :
       (InFlight(t) /\ spent' # spent /\ th'[t] # th[t] /\ th[t].room.metered) =>
         /\ spent'.tokens - spent.tokens <= th[t].room.tokens
         /\ th[t].pc = "provider" => spent'.cost - spent.cost <= th[t].room.cost]_vars

\* A caller that streams never hears two providers: once a delta went out there
\* is no other attempt.
OneVoice ==
  \A t \in Callers : th[t].pc = "provider" => th[t].heard \subseteq {Attempt(t)}

\* Whoever has been answered can rely on the books: what the call cost, or the
\* incident that it left, is stored and outlives a crash.
AnsweredIsBooked ==
  \A t \in Callers :
    th[t].pc = "answer" =>
      /\ th[t].books.tokens <= db.spent.tokens
      /\ th[t].books.incidents <= db.incidents

\* A chat turn that is not blocked and does not fail ends as its mode asks,
\* through rules, planner and fallback: chat only talks, action always proposes,
\* agent proposes an agent run, a wish to talk is respected, and no agent run is
\* proposed for the deterministic provider.
AnswerFitsMode ==
  \A t \in Callers :
    (th[t].pc = "answer" /\ th[t].out \in Kinds \cup {"text"} /\ th[t].req.mode \in Modes) =>
      LET req == th[t].req
          out == th[t].out IN
      /\ req.mode = "chat" => out = "text"
      /\ req.mode = "action" => out \in Kinds
      /\ req.mode = "agent" => out = "agent"
      /\ (req.mode = "auto" /\ PrefersConversation(req)) => out = "text"
      /\ out = "agent" => Available(req)

\* When no request is under way every document has its embedding, which the
\* search finds in the store, or has been set aside with an incident, whatever
\* syncs, failures and rebuilds overlapped.  A crash may leave one out, until
\* the next sync.
DocsAccounted ==
  /\ indexed \subseteq db.vectors
  /\ (restarts = 0 /\ \A t \in Callers : th[t].pc = "idle") => known \subseteq indexed \cup aside
=============================================================================
