-------------------------- MODULE ModelCalls_proofs --------------------------
(***************************************************************************)
(* Proofs about ModelCalls, for every set of request threads, providers,   *)
(* prices, policies and documents.                                         *)
(***************************************************************************)
EXTENDS ModelCalls, TLAPS, FiniteSetTheorems

-----------------------------------------------------------------------------
(* Shapes                                                                  *)

\* The cost of a call
Bill(in, out, rates) == in * rates.in + out * rates.out

Sums == [tokens : Nat, cost : Nat]
Rooms == [tokens : Nat, cost : Nat, metered : BOOLEAN]

\* A chat turn asks the planner only if its mode leaves the choice to it, and
\* converses only if its mode lets it.
ModeFits(req) ==
  CASE req.stage = "plan" -> \/ req.mode = "action"
                             \/ req.mode = "auto" /\ ~PrefersConversation(req)
    [] req.stage = "converse" -> req.mode \in {"auto", "chat"}
    [] OTHER -> req.mode = "generate"

CallReqs ==
  {req \in [mode : Modes \cup {"generate"}, marks : SUBSET Marks, want : Providers,
            stage : {"generate", "plan", "converse"}, stream : BOOLEAN] : ModeFits(req)}
ChatReqs == [mode : Modes, marks : SUBSET Marks, want : Providers, stage : {"plan"},
             stream : {FALSE}]
AnyReqs == CallReqs \cup ChatReqs \cup [mode : {"policy"}]
Outs == Kinds \cup {"text", "blocked", "failed"}

\* What AnswerFitsMode says of an answer.
OutFits(req, out) ==
  (out \in Kinds \cup {"text"} /\ req.mode \in Modes) =>
    /\ req.mode = "chat" => out = "text"
    /\ req.mode = "action" => out \in Kinds
    /\ req.mode = "agent" => out = "agent"
    /\ (req.mode = "auto" /\ PrefersConversation(req)) => out = "text"
    /\ out = "agent" => Available(req)

Answering == {w \in [pc : {"answer"}, req : AnyReqs, out : Outs,
                     books : [tokens : Nat, incidents : Nat]] : OutFits(w.req, w.out)}
Parsing == {w \in [pc : {"parse"}, req : CallReqs] : w.req.stage = "plan"}
Nexts == {Idle} \cup Answering \cup Parsing

Committing == [pc : {"commit"}, next : Nexts, again : BOOLEAN, policy : Policies,
               spent : Sums, incidents : Nat, known : SUBSET Docs]
Scanning == [pc : {"index"}, next : Nexts, todo : SUBSET Docs, changed : BOOLEAN]
Searching == [pc : {"search"}]
Mores == Scanning \cup Searching

\* An admitted call has room for all its output at any price of its route, and
\* the caller has heard nobody but the provider that is asked now.
CallFits(w) ==
  /\ w.i \in DOMAIN Attempts(w.req.want)
  /\ w.heard \subseteq {Attempts(w.req.want)[w.i]}
  /\ w.room.metered =>
       /\ Mock <= w.max /\ Prompt + w.max <= w.room.tokens
       /\ Bill(Prompt, w.max, BudgetRates(w.req.want)) <= w.room.cost

Providing == {w \in [pc : {"provider"}, req : CallReqs, i : Nat, heard : SUBSET Providers,
                     max : Nat \ {0}, room : Rooms] : CallFits(w)}
Embedding == {w \in [pc : {"embed"}, doc : Docs \cup {None}, more : Mores, room : Rooms] :
                w.room.metered => Prompt <= w.room.tokens}
ThenAnswers == [req : AnyReqs, out : {"blocked", "failed"}]
ThenIndexes == [doc : Docs \cup {None}, more : Mores]
Alerting == [pc : {"alert"}, then : ThenAnswers \cup ThenIndexes]

ThreadStates == Nexts \cup Committing \cup Scanning \cup Providing \cup Embedding \cup Alerting

TypeInv ==
  /\ policy \in Policies
  /\ spent \in Sums
  /\ incidents \in 0..MaxIncidents
  /\ known \subseteq Docs /\ indexed \subseteq Docs /\ aside \subseteq Docs
  /\ th \in [Callers -> ThreadStates]
  /\ db \in [policy : Policies, spent : Sums, incidents : Nat, known : SUBSET Docs,
             vectors : SUBSET Docs]
  /\ unmetered \in BOOLEAN

-----------------------------------------------------------------------------
(* Numbers                                                                 *)

LEMMA LessOfSum ==
  ASSUME NEW a \in Nat, NEW b \in Nat, NEW c \in Nat, NEW d \in Nat, b + (c + d) <= a
  PROVE  Less(a, b) = a - b
BY DEF Less

LEMMA MaxOfTwo ==
  ASSUME NEW a \in Nat, NEW b \in Nat
  PROVE  Max({a, b}) = IF a >= b THEN a ELSE b
BY DEF Max

LEMMA MinOfTwo ==
  ASSUME NEW a \in Nat, NEW b \in Nat
  PROVE  Min({a, b}) = IF a <= b THEN a ELSE b
BY DEF Min

LEMMA MinOfThree ==
  ASSUME NEW a \in Nat, NEW b \in Nat, NEW c \in Nat
  PROVE  /\ Min({a, b, c}) \in {a, b, c}
         /\ Min({a, b, c}) <= a /\ Min({a, b, c}) <= b /\ Min({a, b, c}) <= c
<1>1. \E x \in {a, b, c} : \A y \in {a, b, c} : x =< y
  <2>1. CASE a <= b /\ a <= c
    BY <2>1
  <2>2. CASE b <= a /\ b <= c
    BY <2>2
  <2>3. CASE c <= a /\ c <= b
    BY <2>3
  <2> QED
    BY <2>1, <2>2, <2>3
<1> QED
  BY <1>1 DEF Min

LEMMA TimesMonotone ==
  ASSUME NEW a \in Nat, NEW b \in Nat, NEW c \in Nat, a <= b
  PROVE  a * c \in Nat /\ a * c <= b * c
OBVIOUS

LEMMA DivideFacts ==
  ASSUME NEW a \in Nat, NEW b \in Nat \ {0}
  PROVE  a \div b \in Nat /\ (a \div b) * b <= a
OBVIOUS

LEMMA DivideAtLeast ==
  ASSUME NEW a \in Nat, NEW b \in Nat \ {0}, NEW n \in Nat, n * b <= a
  PROVE  n <= a \div b
OBVIOUS

LEMMA AttemptsType ==
  ASSUME NEW want \in Providers
  PROVE  /\ Attempts(want) \in Seq(Providers)
         /\ 1 \in DOMAIN Attempts(want)
         /\ DOMAIN Attempts(want) = 1 .. Len(Attempts(want))
         /\ \A i \in DOMAIN Attempts(want) : Attempts(want)[i] \in Providers
<1>1. /\ Attempts(want) \in Seq(Providers) /\ Len(Attempts(want)) >= 1
      /\ DOMAIN Attempts(want) = 1 .. Len(Attempts(want))
  BY FallbacksAssumption DEF Attempts
<1> HIDE DEF Attempts
<1> QED
  BY <1>1

\* The rates that the guard uses are those of the dearest attempt.
LEMMA RouteRates ==
  ASSUME NEW want \in Providers
  PROVE  /\ BudgetRates(want) \in [in : Nat, out : Nat]
         /\ \A i \in DOMAIN Attempts(want) :
              /\ Rates[Attempts(want)[i]].in <= BudgetRates(want).in
              /\ Rates[Attempts(want)[i]].out <= BudgetRates(want).out
<1> DEFINE route == {Attempts(want)[i] : i \in DOMAIN Attempts(want)}
           ins == {Rates[p].in : p \in route}
           outs == {Rates[p].out : p \in route}
<1>1. route \in (SUBSET Providers) \ {{}}
  <2>1. Attempts(want)[1] \in route
    <3>1. 1 \in DOMAIN Attempts(want)
      BY AttemptsType
    <3> QED
      BY <3>1
  <2>2. \A p \in route : p \in Providers
    BY AttemptsType
  <2> QED
    BY <2>1, <2>2
<1>2. ins \subseteq Nat /\ outs \subseteq Nat
  BY <1>1, ProvidersAssumption
<1>3. (\E x \in ins : \A y \in ins : x >= y) /\ (\E x \in outs : \A y \in outs : x >= y)
  <2>1. /\ \E p \in route : \A q \in route : Rates[p].in >= Rates[q].in
        /\ \E p \in route : \A q \in route : Rates[p].out >= Rates[q].out
    <3> HIDE DEF route
    <3> QED
      BY <1>1, HighestAssumption
  <2> HIDE DEF route
  <2> QED
    BY <2>1
<1>4. Max(ins) \in ins /\ Max(outs) \in outs
      /\ (\A y \in ins : Max(ins) >= y) /\ (\A y \in outs : Max(outs) >= y)
  BY <1>3 DEF Max
<1>5. BudgetRates(want) = [in |-> Max(ins), out |-> Max(outs)]
  BY DEF BudgetRates
<1>6. \A i \in DOMAIN Attempts(want) :
        Rates[Attempts(want)[i]].in \in ins /\ Rates[Attempts(want)[i]].out \in outs
  OBVIOUS
<1> HIDE DEF ins, outs
<1>7. BudgetRates(want).in = Max(ins) /\ BudgetRates(want).out = Max(outs)
      /\ BudgetRates(want) \in [in : Nat, out : Nat]
  <2>1. Max(ins) \in Nat /\ Max(outs) \in Nat
    BY <1>2, <1>4
  <2> QED
    BY <1>5, <2>1
<1>8. \A x \in ins : x <= Max(ins)
  BY <1>2, <1>4
<1>9. \A x \in outs : x <= Max(outs)
  BY <1>2, <1>4
<1> QED
  BY <1>6, <1>7, <1>8, <1>9

-----------------------------------------------------------------------------
(* Admission                                                               *)

\* What the guard lets through fits what the policy has left, with all the
\* output that the call is then allowed.
LEMMA AdmittedCallFits ==
  ASSUME policy \in Policies, spent \in Sums, NEW rates \in [in : Nat, out : Nat],
         Allowed(rates)
  PROVE  /\ MaxOutputTokens(rates) \in Nat \ {0}
         /\ policy.enabled =>
              LET max == MaxOutputTokens(rates) IN
              /\ Mock <= max /\ Prompt + max <= policy.call
              /\ Prompt + max <= Room.tokens /\ spent.tokens + Prompt + max <= policy.total
              /\ Bill(Prompt, max, rates) <= Room.cost
<1> DEFINE left == Less(policy.cost, spent.cost + Prompt * rates.in)
           call == Less(policy.call, Prompt)
           total == Less(policy.total, spent.tokens + Prompt)
           limits == {call, total} \cup (IF rates.out > 0 THEN {left \div rates.out} ELSE {})
           max == MaxOutputTokens(rates)
<1>1. /\ Prompt \in Nat \ {0} /\ Mock \in Nat \ {0}
      /\ policy.call \in Nat /\ policy.total \in Nat /\ policy.cost \in Nat
      /\ policy.enabled \in BOOLEAN
      /\ spent.tokens \in Nat /\ spent.cost \in Nat /\ rates.in \in Nat /\ rates.out \in Nat
  BY BoundsAssumption, PoliciesAssumption DEF Sums
<1>2. Prompt * rates.in \in Nat /\ Mock * rates.out \in Nat
  BY <1>1, TimesMonotone
<1>3. left \in Nat /\ call \in Nat /\ total \in Nat
  BY <1>1, <1>2 DEF Less
<1>4. max = IF policy.enabled THEN Max({1, Min(limits)}) ELSE Max({1, call})
  BY DEF MaxOutputTokens
<1>5. ASSUME ~policy.enabled PROVE max \in Nat \ {0}
  BY <1>3, <1>4, <1>5, MaxOfTwo
<1>6. ASSUME policy.enabled
      PROVE  /\ max \in Nat \ {0} /\ Mock <= max /\ Prompt + max <= policy.call
             /\ Prompt + max <= Room.tokens /\ spent.tokens + Prompt + max <= policy.total
             /\ Bill(Prompt, max, rates) <= Room.cost
  <2>1. /\ Prompt + Mock <= policy.call
        /\ spent.tokens + (Prompt + Mock) <= policy.total
        /\ spent.cost + (Prompt * rates.in + Mock * rates.out) <= policy.cost
    BY <1>6 DEF Allowed
  <2>2. /\ call = policy.call - Prompt /\ total = policy.total - (spent.tokens + Prompt)
        /\ left = policy.cost - (spent.cost + Prompt * rates.in)
        /\ Mock <= call /\ Mock <= total /\ Mock * rates.out <= left
    BY <1>1, <1>2, <2>1 DEF Less
  <2>3. Room.tokens = policy.total - spent.tokens /\ Room.cost = policy.cost - spent.cost
    <3>1. Less(policy.total, spent.tokens) = policy.total - spent.tokens
      BY <1>1, <2>1, LessOfSum
    <3>2. Less(policy.cost, spent.cost) = policy.cost - spent.cost
      BY <1>1, <1>2, <2>1, LessOfSum
    <3> QED
      BY <3>1, <3>2 DEF Room
  <2> HIDE DEF call, total, left
  <2>4. /\ Min(limits) \in Nat /\ Mock <= Min(limits)
        /\ Min(limits) <= call /\ Min(limits) <= total
        /\ Min(limits) * rates.out <= left
    <3>1. CASE rates.out = 0
      <4>1. limits = {call, total}
        BY <3>1
      <4> QED
        BY <1>1, <1>3, <2>2, <3>1, <4>1, MinOfTwo
    <3>2. CASE rates.out # 0
      <4> DEFINE bought == left \div rates.out
      <4>1. limits = {call, total, bought}
        BY <1>1, <3>2
      <4>2. bought \in Nat /\ bought * rates.out <= left /\ Mock <= bought
        BY <1>1, <1>3, <2>2, <3>2, DivideFacts, DivideAtLeast
      <4> HIDE DEF bought
      <4>3. Min(limits) \in {call, total, bought} /\ Min(limits) <= call
            /\ Min(limits) <= total /\ Min(limits) <= bought
        BY <1>3, <4>1, <4>2, MinOfThree
      <4> HIDE DEF limits
      <4>4. Min(limits) \in Nat /\ Mock <= Min(limits)
        BY <1>3, <2>2, <4>2, <4>3
      <4>5. Min(limits) * rates.out <= bought * rates.out
            /\ Min(limits) * rates.out \in Nat /\ bought * rates.out \in Nat
        BY <1>1, <4>2, <4>3, <4>4, TimesMonotone
      <4> QED
        BY <1>3, <4>2, <4>3, <4>4, <4>5
    <3> QED
      BY <3>1, <3>2
  <2> HIDE DEF limits
  <2>5. max = Min(limits)
    <3>1. max = Max({1, Min(limits)})
      BY <1>4, <1>6
    <3> QED
      BY <1>1, <2>4, <3>1, MaxOfTwo
  <2> HIDE DEF max
  <2>6. max * rates.out \in Nat
    BY <1>1, <2>4, <2>5, TimesMonotone
  <2> QED
    BY <1>1, <1>2, <1>3, <2>2, <2>3, <2>4, <2>5, <2>6 DEF Bill
<1> QED
  BY <1>1, <1>5, <1>6

-----------------------------------------------------------------------------
(* Steps of a thread                                                       *)

\* The point a thread is at says what it holds.
LEMMA StateAt ==
  ASSUME NEW w \in ThreadStates
  PROVE  /\ w.pc = "provider" => w \in Providing
         /\ w.pc = "embed" => w \in Embedding
         /\ w.pc = "alert" => w \in Alerting
         /\ w.pc = "answer" => w \in Answering
         /\ w.pc = "parse" => w \in Parsing
         /\ w.pc = "commit" => w \in Committing
         /\ w.pc = "index" => w \in Scanning
         /\ w.pc \in {"idle", "provider", "alert", "parse", "answer", "commit", "index", "embed"}
BY DEF ThreadStates, Nexts, Idle, Answering, Parsing, Committing, Scanning, Providing,
       Embedding, Alerting

LEMMA GoesTo ==
  ASSUME th \in [Callers -> ThreadStates], NEW t \in Callers, NEW to \in ThreadStates,
         Goes(t, to)
  PROVE  /\ th' \in [Callers -> ThreadStates] /\ th'[t] = to
         /\ \A u \in Callers : u # t => th'[u] = th[u]
BY DEF Goes

LEMMA ListedType ==
  ASSUME policy' \in Policies, spent' \in Sums, incidents' \in Nat, known' \subseteq Docs,
         NEW again \in BOOLEAN, NEW next \in Nexts
  PROVE  Listed(again, next) \in Committing /\ Listed(again, next) \in ThreadStates
BY DEF Listed, Committing, ThreadStates

LEMMA ToldType ==
  ASSUME spent' \in Sums, incidents' \in Nat, NEW req \in AnyReqs, NEW out \in Outs,
         OutFits(req, out)
  PROVE  Told(req, out) \in Nexts
BY DEF Told, Nexts, Answering, Sums

LEMMA AnswersType ==
  ASSUME TypeInv, NEW t \in Callers, policy' \in Policies, spent' \in Sums, incidents' \in Nat,
         known' \subseteq Docs, NEW req \in AnyReqs, NEW out \in Outs, OutFits(req, out),
         Answers(t, req, out)
  PROVE  th' \in [Callers -> ThreadStates]
<1>1. Told(req, out) \in Nexts
  BY ToldType
<1>2. Listed(TRUE, Told(req, out)) \in ThreadStates
  BY <1>1, ListedType
<1> QED
  BY <1>2, GoesTo DEF Answers, Sync, TypeInv

LEMMA ReportsType ==
  ASSUME TypeInv, NEW t \in Callers, NEW then \in ThenAnswers \cup ThenIndexes, Reports(t, then)
  PROVE  th' \in [Callers -> ThreadStates] /\ incidents' \in 0..MaxIncidents
<1>1. [pc |-> "alert", then |-> then] \in ThreadStates
  BY DEF ThreadStates, Alerting
<1>2. incidents' \in 0..MaxIncidents
  BY BoundsAssumption DEF Reports, TypeInv
<1> QED
  BY <1>1, <1>2, GoesTo DEF Reports, TypeInv

\* A call that passes the preflight.
LEMMA AdmittedCall ==
  ASSUME TypeInv, NEW req \in CallReqs, Allowed(BudgetRates(req.want))
  PROVE  [pc |-> "provider", req |-> req, i |-> 1, heard |-> {},
          max |-> MaxOutputTokens(BudgetRates(req.want)), room |-> Room] \in Providing
<1> DEFINE rates == BudgetRates(req.want)
           max == MaxOutputTokens(rates)
           w == [pc |-> "provider", req |-> req, i |-> 1, heard |-> {}, max |-> max,
                 room |-> Room]
<1>1. req.want \in Providers /\ policy \in Policies /\ spent \in Sums
  BY DEF CallReqs, TypeInv
<1>2. rates \in [in : Nat, out : Nat] /\ 1 \in DOMAIN Attempts(req.want)
  BY <1>1, RouteRates, AttemptsType
<1> HIDE DEF rates
<1>3. /\ max \in Nat \ {0}
      /\ policy.enabled => /\ Mock <= max /\ Prompt + max <= Room.tokens
                           /\ Bill(Prompt, max, rates) <= Room.cost
  BY <1>1, <1>2, AdmittedCallFits DEF rates
<1> HIDE DEF max
<1>4. Room \in Rooms /\ Room.metered = policy.enabled
  BY <1>1, PoliciesAssumption DEF Room, Rooms, Less, Sums
<1>5. w \in [pc : {"provider"}, req : CallReqs, i : Nat, heard : SUBSET Providers,
             max : Nat \ {0}, room : Rooms]
  BY <1>3, <1>4
<1>6. CallFits(w)
  BY <1>2, <1>3, <1>4 DEF CallFits, rates
<1>7. w \in Providing
  BY <1>5, <1>6 DEF Providing
<1> QED
  BY <1>7 DEF max, rates

LEMMA CheckType ==
  ASSUME TypeInv, NEW t \in Callers, NEW req \in CallReqs, Check(t, req)
  PROVE  TypeInv'
<1>1. UNCHANGED <<policy, spent, known, indexed, aside, db>>
  BY DEF Check
<1>2. CASE Allowed(BudgetRates(req.want))
  <2> DEFINE w == [pc |-> "provider", req |-> req, i |-> 1, heard |-> {},
                   max |-> MaxOutputTokens(BudgetRates(req.want)), room |-> Room]
  <2>1. Goes(t, w) /\ incidents' = incidents /\ unmetered' = (unmetered \/ ~policy.enabled)
    BY <1>2 DEF Check
  <2>2. w \in ThreadStates
    BY <1>2, AdmittedCall DEF ThreadStates
  <2> HIDE DEF w
  <2>3. th' \in [Callers -> ThreadStates]
    BY <2>1, <2>2, GoesTo DEF TypeInv
  <2> QED
    BY <1>1, <2>1, <2>3 DEF TypeInv
<1>3. CASE ~Allowed(BudgetRates(req.want))
  <2>1. Reports(t, [req |-> req, out |-> "blocked"]) /\ unmetered' = unmetered
    BY <1>3 DEF Check
  <2>2. [req |-> req, out |-> "blocked"] \in ThenAnswers
    BY DEF ThenAnswers, AnyReqs
  <2>3. th' \in [Callers -> ThreadStates] /\ incidents' \in 0..MaxIncidents
    BY <2>1, <2>2, ReportsType
  <2> QED
    BY <1>1, <2>1, <2>3 DEF TypeInv
<1> QED
  BY <1>2, <1>3

LEMMA ProposesType ==
  ASSUME TypeInv, NEW t \in Callers, NEW req \in AnyReqs, NEW kind \in Kinds,
         OutFits(req, kind), Proposes(t, req, kind)
  PROVE  TypeInv'
<1>1. UNCHANGED <<policy, spent, incidents, known, indexed, aside, db, unmetered>>
      /\ Answers(t, req, kind) /\ kind \in Outs
  BY DEF Proposes, Outs
<1>2. th' \in [Callers -> ThreadStates]
  BY <1>1, AnswersType DEF TypeInv
<1> QED
  BY <1>1, <1>2 DEF TypeInv

LEMMA GenerateType ==
  ASSUME TypeInv, NEW t \in Callers, Generate(t)
  PROVE  TypeInv'
<1>1. PICK p \in Providers :
        Check(t, [mode |-> "generate", marks |-> {}, want |-> p, stage |-> "generate",
                  stream |-> FALSE])
  BY DEF Generate
<1>2. [mode |-> "generate", marks |-> {}, want |-> p, stage |-> "generate",
       stream |-> FALSE] \in CallReqs
  BY DEF CallReqs, ModeFits
<1> QED
  BY <1>1, <1>2, CheckType

\* A thread goes on in memory only.
LEMMA QuietType ==
  ASSUME TypeInv, NEW t \in Callers, NEW to \in ThreadStates, Goes(t, to),
         UNCHANGED <<policy, spent, incidents, known, indexed, aside, db, unmetered>>
  PROVE  TypeInv'
<1>1. th' \in [Callers -> ThreadStates]
  BY GoesTo DEF TypeInv
<1> QED
  BY <1>1 DEF TypeInv

LEMMA CallAt ==
  ASSUME TypeInv, NEW t \in Callers, th[t].pc = "provider"
  PROVE  /\ th[t] \in Providing /\ th[t].req \in CallReqs /\ th[t].req.want \in Providers
         /\ Attempt(t) \in Providers /\ CallFits(th[t]) /\ th[t].max \in Nat \ {0}
         /\ th[t].room \in Rooms
<1>1. th[t] \in Providing
  BY StateAt DEF TypeInv
<1>2. /\ th[t].req \in CallReqs /\ th[t].req.want \in Providers /\ CallFits(th[t])
      /\ th[t].max \in Nat \ {0} /\ th[t].room \in Rooms
  BY <1>1 DEF Providing, CallReqs
<1>3. th[t].i \in DOMAIN Attempts(th[t].req.want)
  BY <1>2 DEF CallFits
<1> QED
  BY <1>1, <1>2, <1>3, AttemptsType DEF Attempt

LEMMA StreamType ==
  ASSUME TypeInv, NEW t \in Callers, StreamDelta(t)
  PROVE  TypeInv'
<1> DEFINE w == th[t]
           heard == w.heard \cup {Attempt(t)}
           to == [w EXCEPT !.heard = heard]
<1>1. /\ w \in Providing /\ Attempt(t) \in Providers /\ CallFits(w)
      /\ Attempt(t) = Attempts(w.req.want)[w.i]
  BY CallAt DEF StreamDelta, Attempt
<1>2. /\ to \in [pc : {"provider"}, req : CallReqs, i : Nat, heard : SUBSET Providers,
                 max : Nat \ {0}, room : Rooms]
      /\ to.heard = heard /\ to.req = w.req /\ to.i = w.i /\ to.max = w.max /\ to.room = w.room
  BY <1>1 DEF Providing
<1>3. Goes(t, to)
  BY DEF StreamDelta
<1> HIDE DEF to
<1>4. CallFits(to)
  BY <1>1, <1>2 DEF CallFits
<1>5. to \in ThreadStates
  BY <1>2, <1>4 DEF Providing, ThreadStates
<1> QED
  BY <1>3, <1>5, QuietType DEF StreamDelta

\* What an answer costs is within what was left at admission.
LEMMA ChargeFits ==
  ASSUME TypeInv, NEW t \in Callers, th[t].pc = "provider", NEW n \in Completions(t)
  PROVE  /\ n \in Nat /\ Bill(Prompt, n, Rates[Attempt(t)]) \in Nat
         /\ th[t].room.metered =>
              /\ Prompt + n <= th[t].room.tokens
              /\ n <= th[t].max
              /\ Bill(Prompt, n, Rates[Attempt(t)]) <= th[t].room.cost
<1> DEFINE w == th[t]
           rates == Rates[Attempt(t)]
           top == BudgetRates(w.req.want)
<1>1. /\ CallFits(w) /\ w.max \in Nat \ {0} /\ w.room \in Rooms /\ Attempt(t) \in Providers
      /\ w.req.want \in Providers /\ Attempt(t) = Attempts(w.req.want)[w.i]
  BY CallAt DEF Attempt
<1>2. n \in Nat /\ (n = Mock \/ n <= w.max) /\ Prompt \in Nat /\ Mock \in Nat
  BY <1>1, BoundsAssumption DEF Completions
<1>3. rates \in [in : Nat, out : Nat]
  BY <1>1, ProvidersAssumption
<1>4. top \in [in : Nat, out : Nat] /\ rates.in <= top.in /\ rates.out <= top.out
  BY <1>1, RouteRates DEF CallFits
<1> HIDE DEF rates, top
<1>5. ASSUME n <= w.max
      PROVE  Bill(Prompt, n, rates) <= Bill(Prompt, w.max, top)
  <2>1. Prompt * rates.in <= Prompt * top.in /\ Prompt * rates.in \in Nat
        /\ Prompt * top.in \in Nat
    BY <1>2, <1>3, <1>4
  <2>2. n * rates.out <= n * top.out /\ n * rates.out \in Nat /\ n * top.out \in Nat
    BY <1>2, <1>3, <1>4
  <2>3. n * top.out <= w.max * top.out /\ w.max * top.out \in Nat
    BY <1>1, <1>2, <1>4, <1>5, TimesMonotone
  <2> QED
    BY <2>1, <2>2, <2>3 DEF Bill
<1>6. Bill(Prompt, n, rates) \in Nat
  BY <1>2, <1>3, TimesMonotone DEF Bill
<1>7. Bill(Prompt, w.max, top) \in Nat
  BY <1>1, <1>2, <1>4, TimesMonotone DEF Bill
<1>8. ASSUME w.room.metered
      PROVE  Prompt + n <= w.room.tokens /\ n <= w.max /\ Bill(Prompt, n, rates) <= w.room.cost
  <2>1. /\ Mock <= w.max /\ Prompt + w.max <= w.room.tokens
        /\ Bill(Prompt, w.max, top) <= w.room.cost /\ w.room.tokens \in Nat /\ w.room.cost \in Nat
    BY <1>1, <1>8 DEF CallFits, Rooms, top
  <2>2. n <= w.max
    BY <1>1, <1>2, <2>1
  <2> QED
    BY <1>1, <1>2, <1>5, <1>6, <1>7, <2>1, <2>2
<1> QED
  BY <1>2, <1>6, <1>8 DEF rates

\* The books after a charge
LEMMA Charged ==
  ASSUME spent \in Sums, NEW in \in Nat, NEW out \in Nat, NEW rates \in [in : Nat, out : Nat],
         Charge(in, out, rates)
  PROVE  /\ spent' \in Sums
         /\ spent'.tokens = spent.tokens + in + out
         /\ spent'.cost = spent.cost + Bill(in, out, rates)
<1>1. in * rates.in \in Nat /\ out * rates.out \in Nat /\ spent.cost \in Nat
      /\ spent.tokens \in Nat
  BY TimesMonotone DEF Sums
<1>2. spent' = [tokens |-> spent.tokens + in + out,
                cost |-> spent.cost + in * rates.in + out * rates.out]
  BY DEF Charge
<1>3. spent'.tokens = spent.tokens + in + out
      /\ spent'.cost = spent.cost + in * rates.in + out * rates.out
  BY <1>2
<1>4. spent.tokens + in + out \in Nat
      /\ spent.cost + in * rates.in + out * rates.out = spent.cost + Bill(in, out, rates)
      /\ spent.cost + in * rates.in + out * rates.out \in Nat
  BY <1>1 DEF Bill
<1> QED
  BY <1>2, <1>3, <1>4 DEF Sums

LEMMA CallReturnsType ==
  ASSUME TypeInv, NEW t \in Callers, CallReturns(t)
  PROVE  TypeInv' /\ spent.tokens <= spent'.tokens
<1> DEFINE w == th[t]
           req == w.req
<1>1. /\ w.pc = "provider" /\ req \in CallReqs /\ Attempt(t) \in Providers
      /\ UNCHANGED <<policy, incidents, known, indexed, aside, db, unmetered>>
  BY CallAt DEF CallReturns
<1>2. PICK n \in Completions(t) : Charge(Prompt, n, Rates[Attempt(t)])
  BY DEF CallReturns
<1>3. n \in Nat /\ Rates[Attempt(t)] \in [in : Nat, out : Nat] /\ Prompt \in Nat
      /\ spent \in Sums
  BY <1>1, ChargeFits, ProvidersAssumption, BoundsAssumption DEF TypeInv
<1>4. spent' \in Sums /\ spent'.tokens = spent.tokens + Prompt + n
  BY <1>2, <1>3, Charged
<1>5. policy' \in Policies /\ incidents' \in Nat /\ known' \subseteq Docs
  BY <1>1 DEF TypeInv
<1>6. th' \in [Callers -> ThreadStates]
  <2>1. CASE req.stage = "plan"
    <3> DEFINE next == [pc |-> "parse", req |-> req]
    <3>1. Goes(t, Listed(TRUE, next)) /\ next \in Nexts
      BY <1>1, <2>1 DEF CallReturns, Sync, Nexts, Parsing
    <3>2. Listed(TRUE, next) \in ThreadStates
      BY <1>4, <1>5, <3>1, ListedType
    <3> QED
      BY <3>1, <3>2, GoesTo DEF TypeInv
  <2>2. CASE req.stage # "plan"
    <3>1. Answers(t, req, "text")
      BY <2>2 DEF CallReturns
    <3>2. req.mode \notin {"action", "agent"}
      BY <1>1, <2>2 DEF CallReqs, ModeFits
    <3>3. OutFits(req, "text") /\ req \in AnyReqs /\ "text" \in Outs
      BY <1>1, <3>2 DEF OutFits, AnyReqs, Outs
    <3> QED
      BY <1>4, <1>5, <3>1, <3>3, AnswersType
  <2> QED
    BY <2>1, <2>2
<1>7. spent.tokens <= spent'.tokens
  BY <1>3, <1>4 DEF Sums
<1> QED
  BY <1>1, <1>4, <1>6, <1>7 DEF TypeInv

LEMMA ProviderFailsType ==
  ASSUME TypeInv, NEW t \in Callers, ProviderFails(t)
  PROVE  TypeInv'
<1> DEFINE w == th[t]
           last == w.i = Len(Attempts(w.req.want))
<1>1. /\ w.pc = "provider" /\ w \in Providing /\ w.req \in CallReqs /\ CallFits(w)
      /\ w.req.want \in Providers /\ Attempt(t) = Attempts(w.req.want)[w.i]
      /\ UNCHANGED <<policy, spent, known, indexed, aside, db, unmetered>>
  BY CallAt DEF ProviderFails, Attempt
<1>2. CASE Interrupted(t) \/ last
  <2>1. Reports(t, [req |-> w.req, out |-> "failed"])
    BY <1>2 DEF ProviderFails
  <2>2. [req |-> w.req, out |-> "failed"] \in ThenAnswers
    BY <1>1 DEF ThenAnswers, AnyReqs
  <2>3. th' \in [Callers -> ThreadStates] /\ incidents' \in 0..MaxIncidents
    BY <2>1, <2>2, ReportsType
  <2> QED
    BY <1>1, <2>3 DEF TypeInv
<1>3. CASE ~(Interrupted(t) \/ last)
  <2> DEFINE next == w.i + 1
             to == [w EXCEPT !.i = next]
  <2>1. Goes(t, to) /\ incidents' = incidents
    BY <1>3 DEF ProviderFails
  <2>2. w.heard = {}
    BY <1>1, <1>3 DEF CallFits, Interrupted
  <2>3. w.i \in DOMAIN Attempts(w.req.want) /\ w.i \in Nat
    BY <1>1 DEF CallFits, Providing
  <2>4. next \in DOMAIN Attempts(w.req.want) /\ next \in Nat
    <3>1. /\ DOMAIN Attempts(w.req.want) = 1 .. Len(Attempts(w.req.want))
          /\ Len(Attempts(w.req.want)) \in Nat
      BY <1>1, AttemptsType
    <3> QED
      BY <1>3, <2>3, <3>1
  <2> HIDE DEF next
  <2>5. /\ to \in [pc : {"provider"}, req : CallReqs, i : Nat, heard : SUBSET Providers,
                   max : Nat \ {0}, room : Rooms]
        /\ to.heard = {} /\ to.req = w.req /\ to.i = next /\ to.max = w.max
        /\ to.room = w.room
    BY <1>1, <2>2, <2>4 DEF Providing
  <2> HIDE DEF to
  <2>6. CallFits(to)
    BY <1>1, <2>4, <2>5 DEF CallFits
  <2>7. to \in ThreadStates
    BY <2>5, <2>6 DEF Providing, ThreadStates
  <2> QED
    BY <1>1, <2>1, <2>7, QuietType
<1> QED
  BY <1>2, <1>3

\* What follows an embedding: the scan goes on, or the search syncs once more.
LEMMA AfterEmbeddingType ==
  ASSUME policy' \in Policies, spent' \in Sums, incidents' \in Nat, known' \subseteq Docs,
         NEW more \in Mores
  PROVE  AfterEmbedding(more) \in ThreadStates
<1>1. CASE more.pc = "search"
  BY <1>1, ListedType DEF AfterEmbedding, Nexts
<1>2. CASE more.pc # "search"
  BY <1>2 DEF AfterEmbedding, Mores, Searching, ThreadStates
<1> QED
  BY <1>1, <1>2

LEMMA AlertDoneType ==
  ASSUME TypeInv, NEW t \in Callers, AlertDone(t)
  PROVE  TypeInv'
<1> DEFINE then == th[t].then
<1>1. UNCHANGED <<policy, spent, incidents, known, indexed, db, unmetered>>
      /\ policy' \in Policies /\ spent' \in Sums /\ incidents' \in Nat /\ known' \subseteq Docs
  BY DEF AlertDone, TypeInv
<1>2. then \in ThenAnswers \cup ThenIndexes
  BY StateAt DEF AlertDone, TypeInv, Alerting
<1>3. CASE "req" \in DOMAIN then
  <2>1. then \in ThenAnswers
    BY <1>2, <1>3 DEF ThenIndexes
  <2>2. then.req \in AnyReqs /\ then.out \in Outs /\ OutFits(then.req, then.out)
    BY <2>1 DEF ThenAnswers, Outs, OutFits, Kinds
  <2>3. Answers(t, then.req, then.out) /\ aside' = aside
    BY <1>3, <2>1 DEF AlertDone, ToldAfterSync, ThenAnswers
  <2>4. th' \in [Callers -> ThreadStates]
    BY <1>1, <2>2, <2>3, AnswersType
  <2> QED
    BY <1>1, <2>3, <2>4 DEF TypeInv
<1>4. CASE "req" \notin DOMAIN then
  <2>1. then \in ThenIndexes
    BY <1>2, <1>4 DEF ThenAnswers
  <2>2. Goes(t, AfterEmbedding(then.more)) /\ aside' = aside \cup SetAside(then.doc)
    BY <1>4 DEF AlertDone
  <2>3. AfterEmbedding(then.more) \in ThreadStates
    BY <1>1, <2>1, AfterEmbeddingType DEF ThenIndexes
  <2>4. th' \in [Callers -> ThreadStates]
    BY <2>2, <2>3, GoesTo DEF TypeInv
  <2>5. aside' \subseteq Docs
    BY <2>2 DEF SetAside, TypeInv
  <2> QED
    BY <1>1, <2>4, <2>5 DEF TypeInv
<1> QED
  BY <1>3, <1>4

\* What the rules of the chat propose fits the mode of the request.
LEMMA RulesFit ==
  ASSUME NEW req \in [mode : Modes, marks : SUBSET Marks, want : Providers, stage : {"plan"},
                      stream : {FALSE}],
         NEW active \in BOOLEAN
  PROVE  LET kind == ProposeChatAction(req, active) IN
         kind # "none" => kind \in Kinds /\ (req.mode # "agent" => OutFits(req, kind))
BY DEF ProposeChatAction, ContinueGoal, Kinds, OutFits, Modes

\* So does what its planner says, and what the mode "action" falls back to.
LEMMA PlansFit ==
  ASSUME NEW plan \in Plans, NEW req \in CallReqs, req.stage = "plan"
  PROVE  /\ Planned(plan, req) # "none" =>
              Planned(plan, req) \in Kinds /\ OutFits(req, Planned(plan, req))
         /\ Planned(plan, req) = "none" => req.mode = "auto"
<1>1. \/ req.mode = "action"
      \/ req.mode = "auto" /\ ~PrefersConversation(req)
  BY DEF CallReqs, ModeFits
<1> DEFINE kind == IF Accepted(plan) THEN ProposalFromPlan(plan.intent, req) ELSE "none"
<1>2. kind \in Kinds \cup {"none"} /\ (kind = "agent" => Available(req))
  BY DEF ProposalFromPlan, Kinds
<1>3. Planned(plan, req) = FallBack(kind, req)
  BY DEF Planned
<1> HIDE DEF kind
<1>4. CASE kind # "none"
  BY <1>1, <1>2, <1>3, <1>4 DEF FallBack, OutFits
<1>5. CASE kind = "none"
  BY <1>1, <1>3, <1>5 DEF FallBack, ProposalFromPlan, OutFits, Kinds
<1> QED
  BY <1>4, <1>5

\* A turn of the chat ends in a call or in a proposal.
Turns(t) ==
  \/ \E req \in CallReqs : Check(t, req)
  \/ \E req \in AnyReqs : \E kind \in Kinds : OutFits(req, kind) /\ Proposes(t, req, kind)

LEMMA ConverseTurns ==
  ASSUME NEW t \in Callers,
         NEW req \in [mode : {"auto", "chat"}, marks : SUBSET Marks, want : Providers,
                      stage : {"plan"}, stream : BOOLEAN],
         Converse(t, req)
  PROVE  Turns(t)
<1>1. PICK stream \in BOOLEAN :
        Check(t, [req EXCEPT !.stage = "converse", !.stream = stream])
  BY DEF Converse
<1>2. [req EXCEPT !.stage = "converse", !.stream = stream] \in CallReqs
  BY DEF CallReqs, ModeFits, Modes
<1> QED
  BY <1>1, <1>2 DEF Turns

LEMMA RespondTurns ==
  ASSUME NEW t \in Callers, NEW ask \in Asks, Respond(t, ask)
  PROVE  Turns(t)
<1> DEFINE req == [mode |-> ask.mode, marks |-> ask.marks, want |-> ask.want,
                   stage |-> "plan", stream |-> FALSE]
           kind(active) == IF ask.mode = "agent" THEN "agent" ELSE ProposeChatAction(ask, active)
<1>1. PICK active \in BOOLEAN :
        IF kind(active) # "none" THEN Proposes(t, req, kind(active))
        ELSE IF ShouldUseModelPlanner(ask) /\ Available(ask) THEN Check(t, req)
        ELSE IF FallBack("none", ask) # "none" THEN Proposes(t, req, FallBack("none", ask))
        ELSE Converse(t, req)
  BY DEF Respond
<1>2. /\ ask.mode \in Modes /\ ask.marks \subseteq Marks /\ ask.want \in Providers
      /\ ask.mode = "agent" => Available(ask)
  BY AsksAssumption DEF Respond
<1>3. req \in ChatReqs /\ req \in AnyReqs /\ req.mode = ask.mode
      /\ req.marks = ask.marks /\ req.want = ask.want /\ req.stage = "plan"
      /\ req \in [mode : Modes, marks : SUBSET Marks, want : Providers, stage : {"plan"},
                  stream : {FALSE}]
  BY <1>2 DEF ChatReqs, AnyReqs
<1>4. /\ Available(req) <=> Available(ask)
      /\ PrefersConversation(req) <=> PrefersConversation(ask)
      /\ ProposeChatAction(req, active) = ProposeChatAction(ask, active)
  BY <1>3 DEF Available, PrefersConversation, ProposeChatAction, ContinueGoal
<1> HIDE DEF req
<1>5. CASE kind(active) # "none"
  <2>1. kind(active) \in Kinds /\ OutFits(req, kind(active))
    <3>1. CASE ask.mode = "agent"
      BY <1>2, <1>3, <1>4, <3>1 DEF OutFits, Kinds
    <3>2. CASE ask.mode # "agent"
      BY <1>3, <1>4, <1>5, <3>2, RulesFit
    <3> QED
      BY <3>1, <3>2
  <2> QED
    BY <1>1, <1>3, <1>5, <2>1 DEF Turns
<1>6. CASE kind(active) = "none" /\ ShouldUseModelPlanner(ask) /\ Available(ask)
  <2>1. Check(t, req)
    BY <1>1, <1>6
  <2>2. ModeFits(req)
    BY <1>2, <1>3, <1>4, <1>6 DEF ShouldUseModelPlanner, ModeFits, Modes
  <2>3. req \in CallReqs
    BY <1>3, <2>2 DEF CallReqs
  <2> QED
    BY <2>1, <2>3 DEF Turns
<1>7. CASE kind(active) = "none" /\ ~(ShouldUseModelPlanner(ask) /\ Available(ask))
  <2>1. CASE ask.mode = "action"
    <3>1. FallBack("none", ask) = "workflow"
      BY <2>1 DEF FallBack, ProposalFromPlan
    <3>2. OutFits(req, "workflow") /\ "workflow" \in Kinds
      BY <1>3, <2>1 DEF OutFits, Kinds
    <3> QED
      BY <1>1, <1>3, <1>7, <3>1, <3>2 DEF Turns
  <2>2. CASE ask.mode # "action"
    <3>1. FallBack("none", ask) = "none"
      BY <2>2 DEF FallBack
    <3>2. Converse(t, req)
      BY <1>1, <1>7, <3>1
    <3>3. req.mode \in {"auto", "chat"}
      BY <1>2, <1>3, <1>7, <2>2 DEF Modes
    <3>4. req \in [mode : {"auto", "chat"}, marks : SUBSET Marks, want : Providers,
                   stage : {"plan"}, stream : BOOLEAN]
      BY <1>3, <3>3
    <3> QED
      BY <3>2, <3>4, ConverseTurns
  <2> QED
    BY <2>1, <2>2
<1> QED
  BY <1>5, <1>6, <1>7

LEMMA ReadPlanTurns ==
  ASSUME TypeInv, NEW t \in Callers, ReadPlan(t)
  PROVE  Turns(t)
<1> DEFINE req == th[t].req
<1>1. req \in CallReqs /\ req.stage = "plan" /\ req \in AnyReqs
  BY StateAt DEF ReadPlan, TypeInv, Parsing, AnyReqs
<1>2. PICK plan \in Plans :
        IF Planned(plan, req) # "none" THEN Proposes(t, req, Planned(plan, req))
        ELSE Converse(t, req)
  BY DEF ReadPlan
<1> HIDE DEF req
<1>3. CASE Planned(plan, req) # "none"
  <2>1. Planned(plan, req) \in Kinds /\ OutFits(req, Planned(plan, req))
    BY <1>1, <1>3, PlansFit
  <2> QED
    BY <1>1, <1>2, <1>3, <2>1 DEF Turns
<1>4. CASE Planned(plan, req) = "none"
  <2>1. req \in [mode : {"auto", "chat"}, marks : SUBSET Marks, want : Providers,
                 stage : {"plan"}, stream : BOOLEAN]
    BY <1>1, <1>4, PlansFit DEF CallReqs
  <2> QED
    BY <1>2, <1>4, <2>1, ConverseTurns
<1> QED
  BY <1>3, <1>4

LEMMA TurnsType ==
  ASSUME TypeInv, NEW t \in Callers, Turns(t)
  PROVE  TypeInv'
BY CheckType, ProposesType DEF Turns

LEMMA AnswerType ==
  ASSUME TypeInv, NEW t \in Callers, Answer(t)
  PROVE  TypeInv'
BY QuietType DEF Answer, ThreadStates, Nexts

LEMMA SyncType ==
  ASSUME TypeInv, NEW t \in Callers, policy' \in Policies, spent' \in Sums, incidents' \in Nat,
         known' \subseteq Docs, NEW next \in Nexts, Sync(t, next)
  PROVE  th' \in [Callers -> ThreadStates]
BY ListedType, GoesTo DEF Sync, TypeInv

LEMMA UpdateType ==
  ASSUME TypeInv, NEW t \in Callers, NEW p \in Policies, UpdateBudgetPolicy(t, p)
  PROVE  TypeInv'
<1>1. policy' = p /\ UNCHANGED <<spent, incidents, known, indexed, aside, db, unmetered>>
      /\ Sync(t, Idle) /\ Idle \in Nexts
  BY DEF UpdateBudgetPolicy, Nexts
<1>2. th' \in [Callers -> ThreadStates]
  BY <1>1, SyncType DEF TypeInv
<1> QED
  BY <1>1, <1>2 DEF TypeInv

LEMMA PolicyBlockedType ==
  ASSUME TypeInv, NEW t \in Callers, PolicyUpdateBlocked(t)
  PROVE  TypeInv'
<1> DEFINE then == [req |-> [mode |-> "policy"], out |-> "blocked"]
<1>1. Reports(t, then) /\ UNCHANGED <<policy, spent, known, indexed, aside, db, unmetered>>
  BY DEF PolicyUpdateBlocked
<1>2. then \in ThenAnswers
  BY DEF ThenAnswers, AnyReqs
<1>3. th' \in [Callers -> ThreadStates] /\ incidents' \in 0..MaxIncidents
  BY <1>1, <1>2, ReportsType
<1> QED
  BY <1>1, <1>3 DEF TypeInv

\* What a commit leaves in the store, field by field.
LEMMA CommitWrites ==
  ASSUME TypeInv, NEW t \in Callers, Commit(t)
  PROVE  /\ th[t] \in Committing
         /\ db'.policy = th[t].policy
         /\ db'.spent = IF th[t].spent.tokens > db.spent.tokens THEN th[t].spent ELSE db.spent
         /\ db'.incidents = IF db.incidents >= th[t].incidents THEN db.incidents
                                                                ELSE th[t].incidents
         /\ db'.known = db.known \cup th[t].known
         /\ db'.vectors = db.vectors
         /\ db' \in [policy : Policies, spent : Sums, incidents : Nat, known : SUBSET Docs,
                     vectors : SUBSET Docs]
<1> DEFINE s == th[t]
           sum == IF s.spent.tokens > db.spent.tokens THEN s.spent ELSE db.spent
           n == Max({db.incidents, s.incidents})
           docs == db.known \cup s.known
<1>1. s \in Committing /\ s.spent \in Sums /\ s.incidents \in Nat /\ s.policy \in Policies
      /\ s.known \subseteq Docs
  BY StateAt DEF Commit, TypeInv, Committing
<1>2. n = (IF db.incidents >= s.incidents THEN db.incidents ELSE s.incidents) /\ n \in Nat
  BY <1>1, MaxOfTwo DEF TypeInv
<1>3. sum \in Sums /\ docs \subseteq Docs
  BY <1>1 DEF TypeInv
<1>4. db' = [db EXCEPT !.policy = s.policy, !.spent = sum, !.incidents = n, !.known = docs]
  BY DEF Commit, TypeInv
<1> HIDE DEF n, docs, sum
<1>5. /\ db'.policy = s.policy /\ db'.spent = sum /\ db'.incidents = n /\ db'.known = docs
      /\ db'.vectors = db.vectors
      /\ db' \in [policy : Policies, spent : Sums, incidents : Nat, known : SUBSET Docs,
                  vectors : SUBSET Docs]
  BY <1>1, <1>2, <1>3, <1>4 DEF TypeInv
<1> QED
  BY <1>1, <1>2, <1>5 DEF sum, docs

LEMMA CommitType ==
  ASSUME TypeInv, NEW t \in Callers, Commit(t)
  PROVE  TypeInv'
<1> DEFINE s == th[t]
           to == IF s.again THEN Indexing(s.next) ELSE s.next
<1>1. s.next \in Nexts /\ Goes(t, to)
      /\ UNCHANGED <<policy, spent, incidents, known, indexed, aside, unmetered>>
  BY CommitWrites DEF Commit, Committing
<1>2. to \in ThreadStates
  BY <1>1 DEF ThreadStates, Scanning, Indexing, TypeInv
<1> HIDE DEF to
<1>3. th' \in [Callers -> ThreadStates]
  BY <1>1, <1>2, GoesTo DEF TypeInv
<1> QED
  BY <1>1, <1>3, CommitWrites DEF TypeInv

\* An embedding that passes the preflight has room for its prompt.
LEMMA AdmittedEmbedding ==
  ASSUME TypeInv, Allowed([in |-> policy.rate, out |-> policy.rate]),
         NEW doc \in Docs \cup {None}, NEW more \in Mores
  PROVE  /\ [pc |-> "embed", doc |-> doc, more |-> more, room |-> Room] \in Embedding
         /\ policy.enabled => /\ Prompt <= policy.call /\ spent.tokens + Prompt <= policy.total
                              /\ Prompt <= Room.tokens
<1> DEFINE rates == [in |-> policy.rate, out |-> policy.rate]
           w == [pc |-> "embed", doc |-> doc, more |-> more, room |-> Room]
<1>1. policy.rate \in Nat /\ policy.total \in Nat /\ policy.cost \in Nat /\ policy.call \in Nat
      /\ policy.enabled \in BOOLEAN /\ spent.tokens \in Nat /\ spent.cost \in Nat
      /\ Prompt \in Nat /\ Mock \in Nat /\ policy \in Policies /\ spent \in Sums
  BY PoliciesAssumption, BoundsAssumption DEF TypeInv, Sums
<1>2. Room \in Rooms /\ Room.metered = policy.enabled
      /\ Room.tokens = Less(policy.total, spent.tokens)
  BY <1>1 DEF Room, Rooms, Less
<1>3. policy.enabled => /\ Prompt <= policy.call /\ spent.tokens + Prompt <= policy.total
                        /\ Prompt <= Room.tokens
  <2>1. policy.enabled => /\ Prompt + Mock <= policy.call
                          /\ spent.tokens + (Prompt + Mock) <= policy.total
    BY DEF Allowed
  <2> QED
    BY <1>1, <1>2, <2>1 DEF Less
<1>4. w \in [pc : {"embed"}, doc : Docs \cup {None}, more : Mores, room : Rooms]
      /\ w.room = Room
  BY <1>2
<1>5. w \in Embedding
  BY <1>2, <1>3, <1>4 DEF Embedding
<1> QED
  BY <1>3, <1>5

LEMMA CheckEmbeddingType ==
  ASSUME TypeInv, NEW t \in Callers, NEW doc \in Docs \cup {None}, NEW more \in Mores,
         CheckEmbedding(t, doc, more), UNCHANGED <<policy, spent, known, indexed, aside, db>>
  PROVE  TypeInv'
<1>1. CASE Allowed([in |-> policy.rate, out |-> policy.rate])
  <2> DEFINE w == [pc |-> "embed", doc |-> doc, more |-> more, room |-> Room]
  <2>1. Goes(t, w) /\ incidents' = incidents /\ unmetered' = (unmetered \/ ~policy.enabled)
    BY <1>1 DEF CheckEmbedding
  <2>2. w \in ThreadStates
    BY <1>1, AdmittedEmbedding DEF ThreadStates
  <2> HIDE DEF w
  <2>3. th' \in [Callers -> ThreadStates]
    BY <2>1, <2>2, GoesTo DEF TypeInv
  <2> QED
    BY <2>1, <2>3 DEF TypeInv
<1>2. CASE ~Allowed([in |-> policy.rate, out |-> policy.rate])
  <2>1. Reports(t, [doc |-> doc, more |-> more]) /\ unmetered' = unmetered
    BY <1>2 DEF CheckEmbedding
  <2>2. [doc |-> doc, more |-> more] \in ThenIndexes
    BY DEF ThenIndexes
  <2>3. th' \in [Callers -> ThreadStates] /\ incidents' \in 0..MaxIncidents
    BY <2>1, <2>2, ReportsType
  <2> QED
    BY <2>1, <2>3 DEF TypeInv
<1> QED
  BY <1>1, <1>2

\* A scan that takes a document out of its list.
LEMMA ScanGoesOn ==
  ASSUME NEW s \in Scanning, NEW d
  PROVE  LET more == [s EXCEPT !.todo = @ \ {d}, !.changed = TRUE] IN
         /\ more \in Scanning /\ more.next = s.next /\ more.todo = s.todo \ {d}
         /\ more.pc = "index" /\ more.changed
BY DEF Scanning

LEMMA IndexNextType ==
  ASSUME TypeInv, NEW t \in Callers, IndexNext(t)
  PROVE  TypeInv'
<1> DEFINE s == th[t]
           missing == s.todo \ (indexed \cup aside)
<1>1. s \in Scanning /\ s.next \in Nexts /\ s.todo \subseteq Docs
      /\ UNCHANGED <<policy, spent, known, indexed, aside, db>>
  BY StateAt DEF IndexNext, TypeInv, Scanning
<1>2. CASE UNCHANGED <<incidents, unmetered>>
           /\ Goes(t, IF s.changed THEN Listed(FALSE, s.next) ELSE s.next)
  <2> DEFINE to == IF s.changed THEN Listed(FALSE, s.next) ELSE s.next
  <2>1. Listed(FALSE, s.next) \in ThreadStates
    <3>1. policy' \in Policies /\ spent' \in Sums /\ incidents' \in Nat /\ known' \subseteq Docs
      BY <1>1, <1>2 DEF TypeInv
    <3> QED
      BY <1>1, <3>1, ListedType
  <2>2. to \in ThreadStates
    BY <1>1, <2>1 DEF ThreadStates
  <2> HIDE DEF to
  <2> QED
    BY <1>1, <1>2, <2>2, QuietType DEF to
<1>3. CASE \E d \in missing : CheckEmbedding(t, d, [s EXCEPT !.todo = @ \ {d}, !.changed = TRUE])
  <2> PICK d \in missing : CheckEmbedding(t, d, [s EXCEPT !.todo = @ \ {d}, !.changed = TRUE])
    BY <1>3
  <2> DEFINE more == [s EXCEPT !.todo = @ \ {d}, !.changed = TRUE]
  <2>1. d \in Docs /\ more \in Mores
    BY <1>1, ScanGoesOn DEF Mores
  <2> HIDE DEF more
  <2> QED
    BY <1>1, <2>1, CheckEmbeddingType DEF more
<1> QED
  BY <1>2, <1>3 DEF IndexNext

LEMMA EmbeddedType ==
  ASSUME TypeInv, NEW t \in Callers, Embedded(t)
  PROVE  /\ TypeInv' /\ spent'.tokens = spent.tokens + Prompt
         /\ db'.vectors = db.vectors \cup ({th[t].doc} \cap Docs)
         /\ db'.spent = db.spent /\ db'.incidents = db.incidents /\ db'.known = db.known
<1> DEFINE new == {th[t].doc} \cap Docs
           rates == [in |-> policy.rate, out |-> 0]
           vectors == db.vectors \cup new
<1>1. th[t] \in Embedding /\ th[t].more \in Mores
      /\ UNCHANGED <<policy, incidents, known, aside, unmetered>>
  BY StateAt DEF Embedded, TypeInv, Embedding
<1>2. Charge(Prompt, 0, rates) /\ rates \in [in : Nat, out : Nat] /\ Prompt \in Nat /\ 0 \in Nat
      /\ spent \in Sums /\ spent.tokens \in Nat
  BY PoliciesAssumption, BoundsAssumption DEF Embedded, TypeInv, Sums
<1>3. spent' \in Sums /\ spent'.tokens = spent.tokens + Prompt
  <2> HIDE DEF rates
  <2>1. spent' \in Sums /\ spent'.tokens = spent.tokens + Prompt + 0
    BY <1>2, Charged
  <2> QED
    BY <1>2, <2>1
<1>4. AfterEmbedding(th[t].more) \in ThreadStates
  BY <1>1, <1>3, AfterEmbeddingType DEF TypeInv
<1>5. th' \in [Callers -> ThreadStates]
  BY <1>4, GoesTo DEF TypeInv, Embedded
<1>6. indexed' \subseteq Docs /\ db' = [db EXCEPT !.vectors = vectors] /\ vectors \subseteq Docs
  BY DEF Embedded, TypeInv
<1> HIDE DEF vectors
<1>7. /\ db' \in [policy : Policies, spent : Sums, incidents : Nat, known : SUBSET Docs,
                  vectors : SUBSET Docs]
      /\ db'.vectors = vectors
      /\ db'.spent = db.spent /\ db'.incidents = db.incidents /\ db'.known = db.known
  BY <1>6 DEF TypeInv
<1> QED
  BY <1>1, <1>3, <1>5, <1>6, <1>7 DEF TypeInv, vectors

LEMMA EmbeddingFailsType ==
  ASSUME TypeInv, NEW t \in Callers, EmbeddingFails(t)
  PROVE  TypeInv'
<1> DEFINE then == [doc |-> th[t].doc, more |-> th[t].more]
<1>1. Reports(t, then) /\ UNCHANGED <<policy, spent, known, indexed, aside, db, unmetered>>
  BY DEF EmbeddingFails
<1>2. then \in ThenIndexes
  BY StateAt DEF EmbeddingFails, TypeInv, Embedding, ThenIndexes
<1>3. th' \in [Callers -> ThreadStates] /\ incidents' \in 0..MaxIncidents
  BY <1>1, <1>2, ReportsType
<1> QED
  BY <1>1, <1>3 DEF TypeInv

LEMMA WriteType ==
  ASSUME TypeInv, NEW t \in Callers, NEW d \in Docs, WriteKnowledge(t, d)
  PROVE  TypeInv'
<1>1. known' \subseteq Docs /\ UNCHANGED <<policy, spent, incidents, indexed, aside, db, unmetered>>
      /\ Sync(t, Idle) /\ Idle \in Nexts
  BY DEF WriteKnowledge, Nexts, TypeInv
<1>2. th' \in [Callers -> ThreadStates]
  BY <1>1, SyncType DEF TypeInv
<1> QED
  BY <1>1, <1>2 DEF TypeInv

LEMMA SearchType ==
  ASSUME TypeInv, NEW t \in Callers, SearchKnowledge(t)
  PROVE  TypeInv'
<1>1. CheckEmbedding(t, None, [pc |-> "search"])
      /\ UNCHANGED <<policy, spent, known, indexed, aside, db>>
  BY DEF SearchKnowledge
<1>2. [pc |-> "search"] \in Mores
  BY DEF Mores, Searching
<1> QED
  BY <1>1, <1>2, CheckEmbeddingType

LEMMA ReindexType ==
  ASSUME TypeInv, NEW t \in Callers, ReindexKnowledge(t)
  PROVE  TypeInv'
<1>1. UNCHANGED <<policy, spent, incidents, known, db, unmetered>> /\ indexed' = {} /\ aside' = {}
      /\ Goes(t, Indexing(Idle))
  BY DEF ReindexKnowledge
<1>2. Indexing(Idle) \in ThreadStates
  BY <1>1 DEF Indexing, ThreadStates, Scanning, Nexts, TypeInv
<1>3. th' \in [Callers -> ThreadStates]
  BY <1>1, <1>2, GoesTo DEF TypeInv
<1> QED
  BY <1>1, <1>3 DEF TypeInv

-----------------------------------------------------------------------------
(* Books and documents                                                     *)

Mem == [tokens |-> spent.tokens, cost |-> spent.cost, incidents |-> incidents]
Store == [tokens |-> db.spent.tokens, cost |-> db.spent.cost, incidents |-> db.incidents]
Listing(w) == [tokens |-> w.spent.tokens, cost |-> w.spent.cost, incidents |-> w.incidents]
Totals == [tokens : Nat, cost : Nat, incidents : Nat]

Covered(books, totals) == books.tokens <= totals.tokens /\ books.incidents <= totals.incidents
Within(a, b) == Covered(a, b) /\ a.cost <= b.cost

\* The scan that a thread goes on with once its embedding is done.
Scan(w) ==
  IF w.pc = "embed" THEN w.more
  ELSE IF w.pc = "alert" /\ "more" \in DOMAIN w.then THEN w.then.more
  ELSE w

\* What an answer says is stored once its thread scans, and listed before.
Booked(w, mem, store) ==
  /\ w.pc = "answer" => Covered(w.books, store)
  /\ w.pc = "commit" => /\ Within(Listing(w), mem)
                        /\ w.next.pc = "answer" => Covered(w.next.books, Listing(w))
  /\ (Scan(w).pc = "index" /\ Scan(w).next.pc = "answer") => Covered(Scan(w).next.books, store)

\* The documents that a thread still looks at.
Pending(w) ==
  {d \in Docs : \/ w.pc = "commit" /\ w.again /\ d \in w.known
                \/ Scan(w).pc = "index" /\ d \in Scan(w).todo
                \/ w.pc = "embed" /\ d = w.doc
                \/ w.pc = "alert" /\ "doc" \in DOMAIN w.then /\ d = w.then.doc}

BooksInv ==
  /\ Within(Store, Mem)
  /\ \A t \in Callers : Booked(th[t], Mem, Store)

DocsInv ==
  /\ restarts \in Nat
  /\ indexed \subseteq db.vectors
  /\ \A t \in Callers : th[t].pc = "commit" => th[t].known \subseteq known
  /\ restarts = 0 => \A d \in known : d \in indexed \cup aside \/ \E t \in Callers : d \in Pending(th[t])

Inv == TypeInv /\ BooksInv /\ DocsInv

LEMMA TotalsType ==
  ASSUME TypeInv
  PROVE  Mem \in Totals /\ Store \in Totals
BY DEF TypeInv, Mem, Store, Totals, Sums

LEMMA TotalsTypeNext ==
  ASSUME TypeInv'
  PROVE  Mem' \in Totals /\ Store' \in Totals
BY DEF TypeInv, Mem, Store, Totals, Sums

LEMMA WithinTrans ==
  ASSUME NEW a \in Totals, NEW b \in Totals, NEW c \in Totals, Within(a, b), Within(b, c)
  PROVE  Within(a, c)
BY DEF Totals, Within, Covered

LEMMA CoveredTrans ==
  ASSUME NEW books \in [tokens : Nat, incidents : Nat], NEW a \in Totals, NEW b \in Totals,
         Covered(books, a), Covered(a, b)
  PROVE  Covered(books, b)
BY DEF Totals, Within, Covered

LEMMA NextAt ==
  ASSUME NEW next \in Nexts, next.pc = "answer"
  PROVE  next.books \in [tokens : Nat, incidents : Nat]
BY DEF Nexts, Idle, Answering, Parsing

LEMMA ScanAt ==
  ASSUME NEW w \in ThreadStates, Scan(w).pc = "index"
  PROVE  Scan(w) \in Scanning
<1>1. CASE w.pc = "embed"
  BY <1>1, StateAt DEF Scan, Embedding, Mores, Searching
<1>2. CASE w.pc = "alert"
  <2>1. w \in Alerting
    BY <1>2, StateAt
  <2>2. CASE "more" \in DOMAIN w.then
    <3>1. w.then \in ThenIndexes
      BY <2>1, <2>2 DEF Alerting, ThenAnswers
    <3>2. Scan(w) = w.then.more /\ w.then.more \in Mores
      BY <1>2, <2>2, <3>1 DEF Scan, ThenIndexes
    <3> QED
      BY <3>2 DEF Mores, Searching
  <2>3. CASE "more" \notin DOMAIN w.then
    BY <1>2, <2>3 DEF Scan
  <2> QED
    BY <2>2, <2>3
<1>3. CASE w.pc \notin {"embed", "alert"}
  BY <1>3, StateAt DEF Scan
<1> QED
  BY <1>1, <1>2, <1>3

\* Books that grow keep what they covered.
LEMMA BookedGrows ==
  ASSUME NEW w \in ThreadStates, NEW mem \in Totals, NEW store \in Totals, Booked(w, mem, store),
         NEW mem2 \in Totals, NEW store2 \in Totals, Within(mem, mem2), Covered(store, store2)
  PROVE  Booked(w, mem2, store2)
<1>1. w.pc = "answer" => Covered(w.books, store2)
  <2>1. w.pc = "answer" => w.books \in [tokens : Nat, incidents : Nat]
    BY StateAt DEF Answering
  <2> QED
    BY <2>1, CoveredTrans DEF Booked
<1>2. w.pc = "commit" => Within(Listing(w), mem2)
  <2>1. w.pc = "commit" => Listing(w) \in Totals
    BY StateAt DEF Committing, Listing, Totals, Sums
  <2> QED
    BY <2>1, WithinTrans DEF Booked
<1>3. (Scan(w).pc = "index" /\ Scan(w).next.pc = "answer") => Covered(Scan(w).next.books, store2)
  <2>1. Scan(w).pc = "index" => Scan(w).next \in Nexts
    BY ScanAt DEF Scanning
  <2> QED
    BY <2>1, NextAt, CoveredTrans DEF Booked
<1> QED
  BY <1>1, <1>2, <1>3 DEF Booked

\* A thread that is not in a sync holds no books and no documents.
LEMMA PlainState ==
  ASSUME NEW w, w.pc \in {"idle", "provider", "parse", "answer"}
  PROVE  /\ \A mem, store : w.pc # "answer" => Booked(w, mem, store)
         /\ Pending(w) = {}
BY DEF Booked, Pending, Scan

\* A list that is made now holds all the documents.
LEMMA ListedBooked ==
  ASSUME TypeInv', NEW again \in BOOLEAN, NEW next \in Nexts,
         next.pc = "answer" => Covered(next.books, Mem')
  PROVE  /\ Listed(again, next).pc = "commit" /\ Listed(again, next).known = known'
         /\ Booked(Listed(again, next), Mem', Store')
         /\ Pending(Listed(again, next)) = IF again THEN known' ELSE {}
<1> DEFINE w == Listed(again, next)
<1>1. /\ w.pc = "commit" /\ w.next = next /\ w.spent = spent' /\ w.incidents = incidents'
      /\ w.again = again /\ w.known = known'
  BY DEF Listed
<1> HIDE DEF w
<1>2. Listing(w) = Mem' /\ Mem' \in Totals
  BY <1>1, TotalsType DEF Listing, Mem, TypeInv, Sums, Totals
<1>3. Within(Listing(w), Mem')
  BY <1>2 DEF Within, Covered, Totals
<1>4. Booked(w, Mem', Store')
  BY <1>1, <1>2, <1>3 DEF Booked, Scan
<1>5. Pending(w) = {d \in Docs : again /\ d \in known'}
  BY <1>1 DEF Pending, Scan
<1>6. known' \subseteq Docs
  BY DEF TypeInv
<1> QED
  BY <1>1, <1>4, <1>5, <1>6 DEF w

\* One thread moves, the books grow and no document gets lost.
LEMMA InvKept ==
  ASSUME Inv, TypeInv', NEW t \in Callers, NEW to \in ThreadStates, Goes(t, to),
         Within(Mem, Mem'), Covered(Store, Store'), Within(Store', Mem'),
         Booked(to, Mem', Store'),
         indexed' \subseteq db'.vectors, known \subseteq known', restarts' = restarts,
         to.pc = "commit" => to.known \subseteq known',
         \A d \in known' : \/ d \in indexed' \cup aside' \/ d \in Pending(to)
                           \/ d \in known \ (indexed \cup aside \cup Pending(th[t]))
  PROVE  Inv'
<1>1. th'[t] = to /\ \A u \in Callers : u # t => th'[u] = th[u]
  BY GoesTo DEF Inv, TypeInv
<1>2. /\ Mem \in Totals /\ Mem' \in Totals /\ Store \in Totals /\ Store' \in Totals
      /\ \A u \in Callers : th[u] \in ThreadStates
  BY TotalsType, TotalsTypeNext DEF Inv, TypeInv
<1>3. \A u \in Callers : Booked(th'[u], Mem', Store')
  <2> SUFFICES ASSUME NEW u \in Callers PROVE Booked(th'[u], Mem', Store')
    OBVIOUS
  <2>1. CASE u = t
    BY <1>1, <2>1
  <2>2. CASE u # t
    <3>1. Booked(th[u], Mem, Store)
      BY DEF Inv, BooksInv
    <3> QED
      BY <1>1, <1>2, <2>2, <3>1, BookedGrows
  <2> QED
    BY <2>1, <2>2
<1>4. BooksInv'
  BY <1>3 DEF BooksInv
<1>5. \A u \in Callers : th'[u].pc = "commit" => th'[u].known \subseteq known'
  BY <1>1 DEF Inv, DocsInv
<1>6. ASSUME restarts' = 0, NEW d \in known'
      PROVE  d \in indexed' \cup aside' \/ \E u \in Callers : d \in Pending(th'[u])
  <2>1. CASE d \in known \ (indexed \cup aside \cup Pending(th[t]))
    <3>1. PICK u \in Callers : d \in Pending(th[u])
      BY <1>6, <2>1 DEF Inv, DocsInv
    <3>2. th'[u] = th[u]
      BY <1>1, <2>1, <3>1
    <3> QED
      BY <3>1, <3>2
  <2> QED
    BY <1>1, <1>6, <2>1
<1>7. restarts' \in Nat
  BY DEF Inv, DocsInv
<1>8. DocsInv'
  BY <1>5, <1>6, <1>7 DEF DocsInv
<1> QED
  BY <1>4, <1>8 DEF Inv

\* So it is when nothing but the thread, or the incidents, changes.
LEMMA InvQuiet ==
  ASSUME Inv, TypeInv', NEW t \in Callers, NEW to \in ThreadStates, Goes(t, to),
         UNCHANGED <<spent, known, indexed, aside, db, restarts>>, incidents <= incidents',
         Booked(to, Mem', Store'), to.pc = "commit" => to.known \subseteq known',
         Pending(th[t]) \subseteq Pending(to) \cup indexed \cup aside
  PROVE  Inv'
<1>1. /\ Mem \in Totals /\ Mem' \in Totals /\ Store \in Totals /\ Within(Store, Mem)
  BY TotalsType, TotalsTypeNext DEF Inv, BooksInv
<1>2. Within(Mem, Mem') /\ Store' = Store
  BY <1>1 DEF Within, Covered, Mem, Store, Totals, Inv, TypeInv, Sums
<1>3. Covered(Store, Store') /\ Within(Store', Mem')
  BY <1>1, <1>2, WithinTrans DEF Within, Covered, Totals
<1> QED
  BY <1>1, <1>2, <1>3, InvKept DEF Inv, DocsInv

LEMMA RestartType ==
  ASSUME TypeInv, BooksInv, Restart
  PROVE  TypeInv'
<1>1. th' \in [Callers -> ThreadStates]
  BY DEF Restart, ThreadStates, Nexts
<1>2. incidents' \in 0..MaxIncidents
  BY BoundsAssumption DEF Restart, TypeInv, BooksInv, Within, Covered, Mem, Store
<1> QED
  BY <1>1, <1>2 DEF Restart, TypeInv

-----------------------------------------------------------------------------
(* Each step keeps the invariant                                           *)

MoreBooked(more, store) ==
  (more.pc = "index" /\ more.next.pc = "answer") => Covered(more.next.books, store)
MorePending(doc, more) == {d \in Docs : d = doc \/ (more.pc = "index" /\ d \in more.todo)}

LEMMA EmbedState ==
  ASSUME NEW doc, NEW more, NEW room, NEW mem, NEW store
  PROVE  LET w == [pc |-> "embed", doc |-> doc, more |-> more, room |-> room] IN
         /\ Booked(w, mem, store) <=> MoreBooked(more, store)
         /\ Pending(w) = MorePending(doc, more) /\ w.pc = "embed"
<1> DEFINE w == [pc |-> "embed", doc |-> doc, more |-> more, room |-> room]
<1>1. w.pc = "embed" /\ w.doc = doc /\ w.more = more
  OBVIOUS
<1> HIDE DEF w
<1>2. Scan(w) = more
  BY <1>1 DEF Scan
<1> QED
  BY <1>1, <1>2 DEF Booked, MoreBooked, Pending, MorePending, w

LEMMA AlertState ==
  ASSUME NEW doc, NEW more, NEW mem, NEW store
  PROVE  LET w == [pc |-> "alert", then |-> [doc |-> doc, more |-> more]] IN
         /\ Booked(w, mem, store) <=> MoreBooked(more, store)
         /\ Pending(w) = MorePending(doc, more) /\ w.pc = "alert"
<1> DEFINE w == [pc |-> "alert", then |-> [doc |-> doc, more |-> more]]
<1>1. w.pc = "alert" /\ w.then.doc = doc /\ w.then.more = more /\ DOMAIN w.then = {"doc", "more"}
  OBVIOUS
<1> HIDE DEF w
<1>2. Scan(w) = more
  BY <1>1 DEF Scan
<1> QED
  BY <1>1, <1>2 DEF Booked, MoreBooked, Pending, MorePending, w

LEMMA AlertAnswerState ==
  ASSUME NEW req, NEW out, NEW mem, NEW store
  PROVE  LET w == [pc |-> "alert", then |-> [req |-> req, out |-> out]] IN
         Booked(w, mem, store) /\ Pending(w) = {} /\ w.pc = "alert"
<1> DEFINE w == [pc |-> "alert", then |-> [req |-> req, out |-> out]]
<1>1. w.pc = "alert" /\ DOMAIN w.then = {"req", "out"}
  OBVIOUS
<1> HIDE DEF w
<1>2. Scan(w) = w
  BY <1>1 DEF Scan
<1> QED
  BY <1>1, <1>2 DEF Booked, Pending, w

\* A refusal or a failure of a call of a request
LEMMA ReportsInv ==
  ASSUME Inv, TypeInv', NEW t \in Callers, NEW req \in AnyReqs, NEW out \in {"blocked", "failed"},
         Reports(t, [req |-> req, out |-> out]), Pending(th[t]) = {},
         UNCHANGED <<spent, known, indexed, aside, db, restarts>>
  PROVE  Inv'
<1> DEFINE then == [req |-> req, out |-> out]
           to == [pc |-> "alert", then |-> then]
<1>1. Goes(t, to) /\ incidents <= incidents'
  BY DEF Reports, Inv, TypeInv
<1>2. then \in ThenAnswers
  BY DEF ThenAnswers
<1>3. to \in ThreadStates
  BY <1>2 DEF ThreadStates, Alerting
<1>4. Booked(to, Mem', Store') /\ to.pc = "alert"
  BY AlertAnswerState
<1> HIDE DEF to
<1> QED
  BY <1>1, <1>3, <1>4, InvQuiet

\* A refusal or a failure of an embedding
LEMMA ReportsScanInv ==
  ASSUME Inv, TypeInv', NEW t \in Callers, NEW doc \in Docs \cup {None}, NEW more \in Mores,
         Reports(t, [doc |-> doc, more |-> more]), MoreBooked(more, Store),
         Pending(th[t]) \subseteq MorePending(doc, more) \cup indexed \cup aside,
         UNCHANGED <<spent, known, indexed, aside, db, restarts>>
  PROVE  Inv'
<1> DEFINE then == [doc |-> doc, more |-> more]
           to == [pc |-> "alert", then |-> then]
<1>1. Goes(t, to) /\ incidents <= incidents' /\ Store' = Store
  BY DEF Reports, Inv, TypeInv, Store
<1>2. then \in ThenIndexes
  BY DEF ThenIndexes
<1>3. to \in ThreadStates
  BY <1>2 DEF ThreadStates, Alerting
<1>4. Booked(to, Mem', Store') /\ to.pc = "alert" /\ Pending(to) = MorePending(doc, more)
  BY <1>1, AlertState
<1> HIDE DEF to
<1> QED
  BY <1>1, <1>3, <1>4, InvQuiet

LEMMA CheckInv ==
  ASSUME Inv, NEW t \in Callers, NEW req \in CallReqs, Check(t, req), Pending(th[t]) = {}
  PROVE  Inv'
<1>1. TypeInv'
  BY CheckType DEF Inv
<1>2. UNCHANGED <<spent, known, indexed, aside, db, restarts>>
  BY DEF Check
<1>3. CASE Allowed(BudgetRates(req.want))
  <2> DEFINE w == [pc |-> "provider", req |-> req, i |-> 1, heard |-> {},
                   max |-> MaxOutputTokens(BudgetRates(req.want)), room |-> Room]
  <2>1. Goes(t, w) /\ incidents' = incidents /\ incidents <= incidents' /\ w.pc = "provider"
    BY <1>3 DEF Check, Inv, TypeInv
  <2>2. w \in ThreadStates
    BY <1>3, AdmittedCall DEF ThreadStates, Inv
  <2> HIDE DEF w
  <2>3. Booked(w, Mem', Store')
    BY <2>1, PlainState
  <2> QED
    BY <1>1, <1>2, <2>1, <2>2, <2>3, InvQuiet
<1>4. CASE ~Allowed(BudgetRates(req.want))
  <2>1. Reports(t, [req |-> req, out |-> "blocked"])
    BY <1>4 DEF Check
  <2> QED
    BY <1>1, <1>2, <2>1, ReportsInv DEF AnyReqs
<1> QED
  BY <1>3, <1>4

\* A request whose outcome is settled syncs before it is answered.
LEMMA SyncsInv ==
  ASSUME Inv, TypeInv', NEW t \in Callers, NEW next \in Nexts, Sync(t, next),
         next.pc = "answer" => Covered(next.books, Mem'),
         spent.tokens <= spent'.tokens, spent.cost <= spent'.cost, known \subseteq known',
         UNCHANGED <<incidents, indexed, aside, db, restarts>>, Pending(th[t]) = {}
  PROVE  Inv'
<1> DEFINE to == Listed(TRUE, next)
<1>1. Goes(t, to)
  BY DEF Sync
<1>2. /\ policy' \in Policies /\ spent' \in Sums /\ incidents' \in Nat /\ known' \subseteq Docs
      /\ incidents \in Nat
  BY BoundsAssumption DEF TypeInv, Inv
<1>3. to \in ThreadStates /\ to.pc = "commit" /\ to.known = known' /\ Pending(to) = known'
      /\ Booked(to, Mem', Store')
  BY <1>2, ListedType, ListedBooked
<1> HIDE DEF to
<1>4. /\ Mem \in Totals /\ Mem' \in Totals /\ Store \in Totals /\ Within(Store, Mem)
  BY TotalsType, TotalsTypeNext DEF Inv, BooksInv
<1>5. Within(Mem, Mem') /\ Store' = Store
  BY <1>2 DEF Within, Covered, Mem, Store
<1>6. Covered(Store, Store') /\ Within(Store', Mem')
  BY <1>4, <1>5, WithinTrans DEF Within, Covered, Totals
<1> QED
  BY <1>1, <1>3, <1>5, <1>6, InvKept DEF Inv, DocsInv

LEMMA AnswersInv ==
  ASSUME Inv, TypeInv', NEW t \in Callers, NEW req \in AnyReqs, NEW out \in Outs,
         OutFits(req, out), Answers(t, req, out),
         spent.tokens <= spent'.tokens, spent.cost <= spent'.cost,
         UNCHANGED <<incidents, known, indexed, aside, db, restarts>>, Pending(th[t]) = {}
  PROVE  Inv'
<1>1. spent' \in Sums /\ incidents' \in Nat /\ spent'.tokens \in Nat
  BY DEF TypeInv, Sums
<1>2. Told(req, out) \in Nexts
  BY <1>1, ToldType
<1>3. Covered(Told(req, out).books, Mem')
  BY <1>1 DEF Covered, Told, Mem
<1> HIDE DEF Told
<1> QED
  BY <1>2, <1>3, SyncsInv DEF Answers

LEMMA ProposesInv ==
  ASSUME Inv, NEW t \in Callers, NEW req \in AnyReqs, NEW kind \in Kinds,
         OutFits(req, kind), Proposes(t, req, kind), Pending(th[t]) = {}
  PROVE  Inv'
<1>1. TypeInv'
  BY ProposesType DEF Inv
<1>2. UNCHANGED <<spent, incidents, known, indexed, aside, db, restarts>>
      /\ Answers(t, req, kind) /\ kind \in Outs
  BY DEF Proposes, Outs
<1>3. spent.tokens <= spent'.tokens /\ spent.cost <= spent'.cost
  BY <1>2 DEF Inv, TypeInv, Sums
<1> QED
  BY <1>1, <1>2, <1>3, AnswersInv

LEMMA TurnsInv ==
  ASSUME Inv, NEW t \in Callers, Turns(t), Pending(th[t]) = {}
  PROVE  Inv'
BY CheckInv, ProposesInv DEF Turns

LEMMA GenerateInv ==
  ASSUME Inv, NEW t \in Callers, Generate(t)
  PROVE  Inv'
<1>1. PICK p \in Providers :
        Check(t, [mode |-> "generate", marks |-> {}, want |-> p, stage |-> "generate",
                  stream |-> FALSE])
  BY DEF Generate
<1>2. [mode |-> "generate", marks |-> {}, want |-> p, stage |-> "generate",
       stream |-> FALSE] \in CallReqs
  BY DEF CallReqs, ModeFits
<1>3. Pending(th[t]) = {}
  BY PlainState DEF Generate
<1> QED
  BY <1>1, <1>2, <1>3, CheckInv

LEMMA StreamInv ==
  ASSUME Inv, NEW t \in Callers, StreamDelta(t)
  PROVE  Inv'
<1> DEFINE heard == th[t].heard \cup {Attempt(t)}
           to == [th[t] EXCEPT !.heard = heard]
<1>1. TypeInv' /\ Goes(t, to) /\ th[t] \in Providing
      /\ UNCHANGED <<spent, incidents, known, indexed, aside, db, restarts>>
  BY StreamType, CallAt DEF StreamDelta, Inv
<1> HIDE DEF heard
<1>2. to.pc = "provider"
  BY <1>1 DEF Providing
<1>3. th'[t] = to /\ to \in ThreadStates
  BY <1>1 DEF Goes, Inv, TypeInv
<1> HIDE DEF to
<1>4. Booked(to, Mem', Store') /\ Pending(th[t]) = {} /\ incidents <= incidents'
  BY <1>1, <1>2, PlainState DEF StreamDelta, Inv, TypeInv
<1> QED
  BY <1>1, <1>2, <1>3, <1>4, InvQuiet

\* What a call costs is a number.
LEMMA CallCharge ==
  ASSUME TypeInv, NEW t \in Callers, CallReturns(t)
  PROVE  \E n \in Completions(t) :
           /\ n \in Nat /\ spent'.tokens = spent.tokens + Prompt + n
           /\ Bill(Prompt, n, Rates[Attempt(t)]) \in Nat
           /\ spent'.cost = spent.cost + Bill(Prompt, n, Rates[Attempt(t)])
<1>1. PICK n \in Completions(t) : Charge(Prompt, n, Rates[Attempt(t)])
  BY DEF CallReturns
<1>2. th[t].pc = "provider"
  BY DEF CallReturns
<1>3. Attempt(t) \in Providers
  BY <1>2, CallAt
<1>4. n \in Nat /\ Bill(Prompt, n, Rates[Attempt(t)]) \in Nat
      /\ Rates[Attempt(t)] \in [in : Nat, out : Nat] /\ Prompt \in Nat /\ spent \in Sums
  BY <1>2, <1>3, ChargeFits, ProvidersAssumption, BoundsAssumption DEF TypeInv
<1> QED
  BY <1>1, <1>4, Charged

LEMMA CallReturnsInv ==
  ASSUME Inv, NEW t \in Callers, CallReturns(t)
  PROVE  Inv'
<1> DEFINE req == th[t].req
<1>1. /\ TypeInv' /\ th[t].pc = "provider" /\ req \in CallReqs
      /\ UNCHANGED <<incidents, known, indexed, aside, db, restarts>>
  BY CallReturnsType, CallAt DEF CallReturns, Inv
<1>2. spent.tokens <= spent'.tokens /\ spent.cost <= spent'.cost
  BY CallCharge, BoundsAssumption DEF Inv, TypeInv, Sums
<1>3. Pending(th[t]) = {}
  BY <1>1, PlainState
<1>4. CASE req.stage = "plan"
  <2> DEFINE next == [pc |-> "parse", req |-> req]
  <2>1. Sync(t, next) /\ next \in Nexts /\ next.pc = "parse"
    BY <1>1, <1>4 DEF CallReturns, Nexts, Parsing
  <2> HIDE DEF next
  <2> QED
    BY <1>1, <1>2, <1>3, <2>1, SyncsInv
<1>5. CASE req.stage # "plan"
  <2>1. Answers(t, req, "text")
    BY <1>5 DEF CallReturns
  <2>2. req.mode \notin {"action", "agent"}
    BY <1>1, <1>5 DEF CallReqs, ModeFits
  <2>3. OutFits(req, "text") /\ req \in AnyReqs /\ "text" \in Outs
    BY <1>1, <2>2 DEF OutFits, AnyReqs, Outs
  <2> QED
    BY <1>1, <1>2, <1>3, <2>1, <2>3, AnswersInv
<1> QED
  BY <1>4, <1>5

LEMMA ProviderFailsInv ==
  ASSUME Inv, NEW t \in Callers, ProviderFails(t)
  PROVE  Inv'
<1> DEFINE w == th[t]
           last == w.i = Len(Attempts(w.req.want))
           next == w.i + 1
           to == [w EXCEPT !.i = next]
<1>1. /\ TypeInv' /\ w.pc = "provider" /\ w \in Providing /\ w.req \in CallReqs
      /\ UNCHANGED <<spent, known, indexed, aside, db, restarts>>
  BY ProviderFailsType, CallAt DEF ProviderFails, Inv
<1>2. Pending(w) = {}
  BY <1>1, PlainState
<1>3. CASE Interrupted(t) \/ last
  <2>1. Reports(t, [req |-> w.req, out |-> "failed"])
    BY <1>3 DEF ProviderFails
  <2> QED
    BY <1>1, <1>2, <2>1, ReportsInv DEF AnyReqs
<1>4. CASE ~(Interrupted(t) \/ last)
  <2>1. Goes(t, to) /\ incidents' = incidents
    BY <1>4 DEF ProviderFails
  <2> HIDE DEF next
  <2>2. to.pc = "provider"
    BY <1>1 DEF Providing
  <2>3. th'[t] = to /\ to \in ThreadStates
    BY <1>1, <2>1 DEF Goes, Inv, TypeInv
  <2> HIDE DEF to
  <2>4. Booked(to, Mem', Store') /\ incidents <= incidents'
    BY <2>1, <2>2, PlainState DEF Inv, TypeInv
  <2> QED
    BY <1>1, <1>2, <2>1, <2>2, <2>3, <2>4, InvQuiet
<1> QED
  BY <1>3, <1>4

LEMMA AnswerInv ==
  ASSUME Inv, NEW t \in Callers, Answer(t)
  PROVE  Inv'
<1>1. TypeInv' /\ Goes(t, Idle) /\ Idle \in ThreadStates /\ Idle.pc = "idle"
      /\ UNCHANGED <<spent, incidents, known, indexed, aside, db, restarts>>
      /\ incidents <= incidents'
  BY AnswerType DEF Answer, Inv, ThreadStates, Nexts, Idle, TypeInv
<1>2. Booked(Idle, Mem', Store') /\ Pending(th[t]) = {}
  BY <1>1, PlainState DEF Answer
<1> QED
  BY <1>1, <1>2, InvQuiet

LEMMA UpdateInv ==
  ASSUME Inv, NEW t \in Callers, NEW p \in Policies, UpdateBudgetPolicy(t, p)
  PROVE  Inv'
<1>1. TypeInv' /\ Sync(t, Idle) /\ Idle \in Nexts /\ Idle.pc = "idle"
      /\ UNCHANGED <<spent, incidents, known, indexed, aside, db, restarts>>
  BY UpdateType DEF UpdateBudgetPolicy, Inv, Nexts, Idle
<1>2. Pending(th[t]) = {} /\ spent.tokens <= spent'.tokens /\ spent.cost <= spent'.cost
  BY <1>1, PlainState DEF UpdateBudgetPolicy, Inv, TypeInv, Sums
<1> QED
  BY <1>1, <1>2, SyncsInv

LEMMA WriteInv ==
  ASSUME Inv, NEW t \in Callers, NEW d \in Docs, WriteKnowledge(t, d)
  PROVE  Inv'
<1>1. TypeInv' /\ Sync(t, Idle) /\ Idle \in Nexts /\ Idle.pc = "idle"
      /\ UNCHANGED <<spent, incidents, indexed, aside, db, restarts>>
      /\ known \subseteq known'
  BY WriteType DEF WriteKnowledge, Inv, Nexts, Idle
<1>2. Pending(th[t]) = {} /\ spent.tokens <= spent'.tokens /\ spent.cost <= spent'.cost
  BY <1>1, PlainState DEF WriteKnowledge, Inv, TypeInv, Sums
<1> QED
  BY <1>1, <1>2, SyncsInv

LEMMA PolicyBlockedInv ==
  ASSUME Inv, NEW t \in Callers, PolicyUpdateBlocked(t)
  PROVE  Inv'
<1>1. TypeInv' /\ Reports(t, [req |-> [mode |-> "policy"], out |-> "blocked"])
      /\ UNCHANGED <<spent, known, indexed, aside, db, restarts>>
  BY PolicyBlockedType DEF PolicyUpdateBlocked, Inv
<1>2. Pending(th[t]) = {}
  BY PlainState DEF PolicyUpdateBlocked
<1> QED
  BY <1>1, <1>2, ReportsInv DEF AnyReqs

LEMMA AfterEmbeddingState ==
  ASSUME TypeInv', NEW more \in Mores, MoreBooked(more, Store')
  PROVE  LET to == AfterEmbedding(more) IN
         /\ to \in ThreadStates /\ Booked(to, Mem', Store')
         /\ to.pc = "commit" => to.known \subseteq known'
         /\ \A d \in Docs : more.pc = "index" /\ d \in more.todo => d \in Pending(to)
<1>1. policy' \in Policies /\ spent' \in Sums /\ incidents' \in Nat /\ known' \subseteq Docs
  BY DEF TypeInv
<1>2. CASE more.pc = "search"
  <2> DEFINE to == Listed(FALSE, Idle)
  <2>1. AfterEmbedding(more) = to /\ Idle \in Nexts /\ Idle.pc = "idle"
    BY <1>2 DEF AfterEmbedding, Nexts, Idle
  <2>2. to \in ThreadStates /\ Booked(to, Mem', Store') /\ to.known = known'
    BY <1>1, <2>1, ListedType, ListedBooked
  <2> HIDE DEF to
  <2> QED
    BY <1>2, <2>1, <2>2
<1>3. CASE more.pc # "search"
  <2>1. AfterEmbedding(more) = more /\ more \in Scanning /\ more.pc = "index"
    BY <1>3 DEF AfterEmbedding, Mores, Searching, Scanning
  <2>2. more \in ThreadStates /\ Scan(more) = more
    BY <2>1 DEF ThreadStates, Scan
  <2> QED
    BY <2>1, <2>2 DEF Booked, MoreBooked, Pending
<1> QED
  BY <1>2, <1>3

\* What a thread holds while one of its documents is embedded or reported.
LEMMA HoldsMore ==
  ASSUME Inv, NEW t \in Callers,
         \/ th[t].pc = "embed"
         \/ th[t].pc = "alert" /\ th[t].then \in ThenIndexes
  PROVE  LET held == IF th[t].pc = "embed" THEN th[t] ELSE th[t].then IN
         /\ held.doc \in Docs \cup {None} /\ held.more \in Mores
         /\ MoreBooked(held.more, Store)
         /\ Pending(th[t]) = MorePending(held.doc, held.more)
<1> DEFINE w == th[t]
<1>1. w \in ThreadStates /\ Booked(w, Mem, Store)
  BY DEF Inv, TypeInv, BooksInv
<1>2. CASE w.pc = "embed"
  <2>1. w.doc \in Docs \cup {None} /\ w.more \in Mores /\ Scan(w) = w.more
    BY <1>1, <1>2, StateAt DEF Embedding, Scan
  <2> QED
    BY <1>1, <1>2, <2>1 DEF Booked, MoreBooked, Pending, MorePending
<1>3. CASE w.pc = "alert"
  <2>1. w.then \in ThenIndexes
    BY <1>3
  <2>2. w.then.doc \in Docs \cup {None} /\ w.then.more \in Mores /\ Scan(w) = w.then.more
        /\ DOMAIN w.then = {"doc", "more"}
    BY <1>3, <2>1 DEF ThenIndexes, Scan
  <2> QED
    BY <1>1, <1>3, <2>2 DEF Booked, MoreBooked, Pending, MorePending
<1> QED
  BY <1>2, <1>3

LEMMA AlertDoneInv ==
  ASSUME Inv, NEW t \in Callers, AlertDone(t)
  PROVE  Inv'
<1> DEFINE then == th[t].then
<1>1. /\ TypeInv' /\ th[t].pc = "alert"
      /\ UNCHANGED <<spent, incidents, known, indexed, db, restarts>>
  BY AlertDoneType DEF AlertDone, Inv
<1>2. then \in ThenAnswers \cup ThenIndexes
  BY <1>1, StateAt DEF Inv, TypeInv, Alerting
<1>3. CASE "req" \in DOMAIN then
  <2>1. then \in ThenAnswers
    BY <1>2, <1>3 DEF ThenIndexes
  <2>2. then.req \in AnyReqs /\ then.out \in Outs /\ OutFits(then.req, then.out)
    BY <2>1 DEF ThenAnswers, Outs, OutFits, Kinds
  <2>3. Answers(t, then.req, then.out) /\ aside' = aside
    BY <1>3, <2>1 DEF AlertDone, ToldAfterSync, ThenAnswers
  <2>4. Pending(th[t]) = {}
    BY <1>1, <2>1 DEF Pending, Scan, ThenAnswers
  <2>5. spent.tokens <= spent'.tokens /\ spent.cost <= spent'.cost
    BY <1>1 DEF Inv, TypeInv, Sums
  <2> QED
    BY <1>1, <2>2, <2>3, <2>4, <2>5, AnswersInv
<1>4. CASE "req" \notin DOMAIN then
  <2> DEFINE to == AfterEmbedding(then.more)
  <2>1. then \in ThenIndexes
    BY <1>2, <1>4 DEF ThenAnswers
  <2>2. Goes(t, to) /\ aside' = aside \cup ({then.doc} \cap Docs)
    BY <1>4 DEF AlertDone, SetAside
  <2>3. then.more \in Mores /\ MoreBooked(then.more, Store) /\ Store' = Store /\ Mem' = Mem
        /\ Pending(th[t]) = MorePending(then.doc, then.more)
    BY <1>1, <2>1, HoldsMore DEF Store, Mem
  <2>4. /\ to \in ThreadStates /\ Booked(to, Mem', Store')
        /\ to.pc = "commit" => to.known \subseteq known'
        /\ \A d \in Docs : then.more.pc = "index" /\ d \in then.more.todo => d \in Pending(to)
    BY <1>1, <2>3, AfterEmbeddingState
  <2> HIDE DEF to, then
  <2>5. /\ Within(Mem, Mem') /\ Covered(Store, Store') /\ Within(Store', Mem')
    BY <2>3, TotalsType DEF Inv, BooksInv, Within, Covered, Totals
  <2>6. \A d \in known' : \/ d \in indexed' \cup aside' \/ d \in Pending(to)
                          \/ d \in known \ (indexed \cup aside \cup Pending(th[t]))
    <3> SUFFICES ASSUME NEW d \in known', d \in Pending(th[t])
                 PROVE  d \in indexed' \cup aside' \/ d \in Pending(to)
      BY <1>1, <2>2
    <3>1. d \in Docs /\ (d = then.doc \/ (then.more.pc = "index" /\ d \in then.more.todo))
      BY <2>3 DEF MorePending
    <3> QED
      BY <2>2, <2>4, <3>1
  <2> QED
    BY <1>1, <2>2, <2>4, <2>5, <2>6, InvKept DEF Inv, DocsInv
<1> QED
  BY <1>3, <1>4

LEMMA EmbeddingFailsInv ==
  ASSUME Inv, NEW t \in Callers, EmbeddingFails(t)
  PROVE  Inv'
<1>1. /\ TypeInv' /\ th[t].pc = "embed" /\ Reports(t, [doc |-> th[t].doc, more |-> th[t].more])
      /\ UNCHANGED <<spent, known, indexed, aside, db, restarts>>
  BY EmbeddingFailsType DEF EmbeddingFails, Inv
<1>2. /\ th[t].doc \in Docs \cup {None} /\ th[t].more \in Mores /\ MoreBooked(th[t].more, Store)
      /\ Pending(th[t]) = MorePending(th[t].doc, th[t].more)
  BY <1>1, HoldsMore
<1> QED
  BY <1>1, <1>2, ReportsScanInv

LEMMA EmbeddedInv ==
  ASSUME Inv, NEW t \in Callers, Embedded(t)
  PROVE  Inv'
<1> DEFINE w == th[t]
           to == AfterEmbedding(w.more)
           new == {w.doc} \cap Docs
<1>1. /\ TypeInv' /\ w.pc = "embed" /\ Goes(t, to) /\ indexed' = indexed \cup new
      /\ UNCHANGED <<incidents, known, aside, restarts>>
      /\ spent'.tokens = spent.tokens + Prompt /\ db'.vectors = db.vectors \cup new
      /\ db'.spent = db.spent /\ db'.incidents = db.incidents
  BY EmbeddedType DEF Embedded, Inv
<1>2. w.more \in Mores /\ MoreBooked(w.more, Store) /\ Store' = Store
      /\ Pending(w) = MorePending(w.doc, w.more)
  BY <1>1, HoldsMore DEF Store
<1>3. /\ to \in ThreadStates /\ Booked(to, Mem', Store')
      /\ to.pc = "commit" => to.known \subseteq known'
      /\ \A d \in Docs : w.more.pc = "index" /\ d \in w.more.todo => d \in Pending(to)
  BY <1>1, <1>2, AfterEmbeddingState
<1>4. spent.cost <= spent'.cost
  <2> DEFINE rates == [in |-> policy.rate, out |-> 0]
  <2>1. /\ Charge(Prompt, 0, rates) /\ rates \in [in : Nat, out : Nat] /\ Prompt \in Nat
        /\ 0 \in Nat /\ spent \in Sums
    BY PoliciesAssumption, BoundsAssumption DEF Embedded, Inv, TypeInv
  <2>2. Bill(Prompt, 0, rates) \in Nat
    <3>1. Prompt * policy.rate \in Nat /\ rates.in = policy.rate /\ rates.out = 0
      BY <2>1, TimesMonotone
    <3> QED
      BY <3>1 DEF Bill
  <2> HIDE DEF rates
  <2>3. spent'.cost = spent.cost + Bill(Prompt, 0, rates)
    BY <2>1, Charged
  <2> QED
    BY <2>1, <2>2, <2>3 DEF Sums
<1> HIDE DEF to, w
<1>5. Mem \in Totals /\ Mem' \in Totals /\ Store \in Totals /\ Within(Store, Mem)
  BY <1>1, TotalsType, TotalsTypeNext DEF Inv, BooksInv
<1>6. Within(Mem, Mem')
  BY <1>1, <1>4, BoundsAssumption DEF Within, Covered, Mem, Inv, TypeInv, Sums
<1>7. Covered(Store, Store') /\ Within(Store', Mem')
  BY <1>2, <1>5, <1>6, WithinTrans DEF Within, Covered, Totals
<1>8. \A d \in known' : \/ d \in indexed' \cup aside' \/ d \in Pending(to)
                        \/ d \in known \ (indexed \cup aside \cup Pending(th[t]))
  <2> SUFFICES ASSUME NEW d \in known', d \in Pending(th[t])
               PROVE  d \in indexed' \cup aside' \/ d \in Pending(to)
    BY <1>1
  <2>1. d \in Docs /\ (d = w.doc \/ (w.more.pc = "index" /\ d \in w.more.todo))
    BY <1>2 DEF MorePending, w
  <2> QED
    BY <1>1, <1>3, <2>1
<1>9. indexed' \subseteq db'.vectors
  BY <1>1 DEF Inv, DocsInv
<1> QED
  BY <1>1, <1>3, <1>6, <1>7, <1>8, <1>9, InvKept

LEMMA CommitInv ==
  ASSUME Inv, NEW t \in Callers, Commit(t)
  PROVE  Inv'
<1> DEFINE w == th[t]
           to == IF w.again THEN Indexing(w.next) ELSE w.next
<1>1. /\ TypeInv' /\ w.pc = "commit" /\ Goes(t, to) /\ w \in Committing
      /\ UNCHANGED <<spent, incidents, known, indexed, aside, restarts>>
      /\ db'.spent = IF w.spent.tokens > db.spent.tokens THEN w.spent ELSE db.spent
      /\ db'.incidents = IF db.incidents >= w.incidents THEN db.incidents ELSE w.incidents
      /\ db'.vectors = db.vectors
  BY CommitType, CommitWrites DEF Commit, Inv
<1>2. /\ w.next \in Nexts /\ w.again \in BOOLEAN /\ w.known \subseteq known
      /\ Within(Listing(w), Mem) /\ (w.next.pc = "answer" => Covered(w.next.books, Listing(w)))
      /\ Listing(w) \in Totals /\ known \subseteq Docs
  BY <1>1 DEF Committing, Inv, TypeInv, BooksInv, DocsInv, Booked, Listing, Totals, Sums
<1>3. Mem \in Totals /\ Mem' = Mem /\ Store \in Totals /\ Store' \in Totals /\ Within(Store, Mem)
  BY <1>1, TotalsType, TotalsTypeNext DEF Inv, BooksInv, Mem
<1>4. /\ Store'.tokens = IF w.spent.tokens > db.spent.tokens THEN w.spent.tokens
                                                              ELSE db.spent.tokens
      /\ Store'.cost = IF w.spent.tokens > db.spent.tokens THEN w.spent.cost ELSE db.spent.cost
      /\ Store'.incidents = IF db.incidents >= w.incidents THEN db.incidents ELSE w.incidents
  BY <1>1 DEF Store
<1>5. /\ Store.tokens = db.spent.tokens /\ Store.cost = db.spent.cost
      /\ Store.incidents = db.incidents /\ Listing(w).tokens = w.spent.tokens
      /\ Listing(w).cost = w.spent.cost /\ Listing(w).incidents = w.incidents
  BY DEF Store, Listing
<1>6. Covered(Store, Store') /\ Within(Store', Mem') /\ Covered(Listing(w), Store')
  <2> HIDE DEF w
  <2> QED
    BY <1>2, <1>3, <1>4, <1>5 DEF Within, Covered, Totals
<1>7. w.next.pc = "answer" => Covered(w.next.books, Store')
  BY <1>2, <1>3, <1>6, NextAt, CoveredTrans
<1>8. to.pc # "commit" /\ Booked(to, Mem', Store') /\ to \in ThreadStates
      /\ (w.again => to.pc = "index" /\ to.todo = known)
  <2>1. CASE w.again
    <3>1. to.pc = "index" /\ to.next = w.next /\ to.todo = known
      BY <1>1, <2>1 DEF Indexing
    <3>2. to \in ThreadStates
      BY <1>1, <1>2, <2>1 DEF Indexing, ThreadStates, Scanning
    <3> HIDE DEF to
    <3>3. Scan(to) = to
      BY <3>1 DEF Scan
    <3> QED
      BY <1>7, <3>1, <3>2, <3>3 DEF Booked
  <2>2. CASE ~w.again
    <3>1. to = w.next
      BY <2>2
    <3>2. to.pc \in {"idle", "answer", "parse"} /\ to \in ThreadStates
      BY <1>2, <3>1 DEF Nexts, Idle, Answering, Parsing, ThreadStates
    <3> QED
      BY <1>7, <2>2, <3>1, <3>2 DEF Booked, Scan
  <2> QED
    BY <2>1, <2>2
<1> HIDE DEF to
<1>9. \A d \in known' : \/ d \in indexed' \cup aside' \/ d \in Pending(to)
                        \/ d \in known \ (indexed \cup aside \cup Pending(th[t]))
  <2> SUFFICES ASSUME NEW d \in known', d \in Pending(th[t])
               PROVE  d \in Pending(to)
    BY <1>1
  <2>1. w.again /\ d \in Docs /\ d \in known
    BY <1>1, <1>2 DEF Pending, Scan
  <2> QED
    BY <1>8, <2>1 DEF Pending, Scan
<1> QED
  BY <1>1, <1>3, <1>6, <1>8, <1>9, InvKept DEF Inv, DocsInv, Within, Covered, Totals

\* The preflight of an embedding, from a scan or from a search
LEMMA CheckEmbeddingInv ==
  ASSUME Inv, NEW t \in Callers, NEW doc \in Docs \cup {None}, NEW more \in Mores,
         CheckEmbedding(t, doc, more), MoreBooked(more, Store),
         Pending(th[t]) \subseteq MorePending(doc, more) \cup indexed \cup aside,
         UNCHANGED <<policy, spent, known, indexed, aside, db, restarts>>
  PROVE  Inv'
<1>1. TypeInv'
  BY CheckEmbeddingType DEF Inv
<1>2. CASE Allowed([in |-> policy.rate, out |-> policy.rate])
  <2> DEFINE w == [pc |-> "embed", doc |-> doc, more |-> more, room |-> Room]
  <2>1. Goes(t, w) /\ incidents' = incidents /\ incidents <= incidents' /\ Store' = Store
    BY <1>2 DEF CheckEmbedding, Inv, TypeInv, Store
  <2>2. w \in ThreadStates
    BY <1>2, AdmittedEmbedding DEF ThreadStates, Inv
  <2>3. Booked(w, Mem', Store') /\ Pending(w) = MorePending(doc, more) /\ w.pc = "embed"
    BY <2>1, EmbedState
  <2> HIDE DEF w
  <2> QED
    BY <1>1, <2>1, <2>2, <2>3, InvQuiet
<1>3. CASE ~Allowed([in |-> policy.rate, out |-> policy.rate])
  <2>1. Reports(t, [doc |-> doc, more |-> more])
    BY <1>3 DEF CheckEmbedding
  <2> QED
    BY <1>1, <2>1, ReportsScanInv
<1> QED
  BY <1>2, <1>3

LEMMA IndexNextInv ==
  ASSUME Inv, NEW t \in Callers, IndexNext(t)
  PROVE  Inv'
<1> DEFINE s == th[t]
           missing == s.todo \ (indexed \cup aside)
<1>1. /\ TypeInv' /\ s.pc = "index" /\ s \in Scanning /\ s.next \in Nexts /\ s.todo \subseteq Docs
      /\ UNCHANGED <<policy, spent, known, indexed, aside, db, restarts>>
  BY IndexNextType, StateAt DEF IndexNext, Inv, TypeInv, Scanning
<1>2. /\ s.next.pc = "answer" => Covered(s.next.books, Store)
      /\ Pending(s) = s.todo
  <2>1. Scan(s) = s /\ Booked(s, Mem, Store)
    BY <1>1 DEF Scan, Inv, BooksInv
  <2> QED
    BY <1>1, <2>1 DEF Booked, Pending
<1>3. CASE /\ missing = {} /\ UNCHANGED <<incidents, unmetered>>
           /\ Goes(t, IF s.changed THEN Listed(FALSE, s.next) ELSE s.next)
  <2> DEFINE to == IF s.changed THEN Listed(FALSE, s.next) ELSE s.next
  <2>1. /\ Store' = Store /\ Mem' = Mem /\ Mem \in Totals /\ Store \in Totals
        /\ Within(Store, Mem) /\ incidents <= incidents'
    BY <1>1, <1>3, TotalsType DEF Store, Mem, Inv, BooksInv, TypeInv
  <2>2. s.next.pc = "answer" => Covered(s.next.books, Mem')
    BY <1>1, <1>2, <2>1, NextAt, CoveredTrans DEF Within
  <2>3. to \in ThreadStates /\ Booked(to, Mem', Store') /\ (to.pc = "commit" => to.known \subseteq known')
    <3>1. CASE s.changed
      <4>1. policy' \in Policies /\ spent' \in Sums /\ incidents' \in Nat /\ known' \subseteq Docs
        BY <1>1 DEF TypeInv
      <4>2. /\ Listed(FALSE, s.next) \in ThreadStates
            /\ Listed(FALSE, s.next).known = known'
            /\ Booked(Listed(FALSE, s.next), Mem', Store')
        BY <1>1, <2>2, <4>1, ListedType, ListedBooked
      <4>3. to = Listed(FALSE, s.next)
        BY <3>1
      <4> HIDE DEF to
      <4> QED
        BY <4>2, <4>3
    <3>2. CASE ~s.changed
      <4>1. to = s.next
        BY <3>2
      <4> HIDE DEF to
      <4>2. to.pc \in {"idle", "answer", "parse"} /\ to \in ThreadStates
        <5>1. to \in Nexts
          BY <1>1, <4>1
        <5> QED
          BY <5>1 DEF Nexts, Idle, Answering, Parsing, ThreadStates
      <4> QED
        BY <1>2, <2>1, <4>1, <4>2 DEF Booked, Scan
    <3> QED
      BY <3>1, <3>2
  <2> HIDE DEF to
  <2> QED
    BY <1>1, <1>2, <1>3, <2>1, <2>3, InvQuiet DEF to
<1>4. CASE \E d \in missing : CheckEmbedding(t, d, [s EXCEPT !.todo = @ \ {d}, !.changed = TRUE])
  <2> PICK d \in missing : CheckEmbedding(t, d, [s EXCEPT !.todo = @ \ {d}, !.changed = TRUE])
    BY <1>4
  <2> DEFINE more == [s EXCEPT !.todo = @ \ {d}, !.changed = TRUE]
  <2>1. /\ d \in Docs /\ more \in Mores /\ more.next = s.next /\ more.todo = s.todo \ {d}
        /\ more.pc = "index"
    BY <1>1, ScanGoesOn DEF Mores
  <2> HIDE DEF more
  <2>2. MoreBooked(more, Store) /\ Pending(s) \subseteq MorePending(d, more)
    BY <1>1, <1>2, <2>1 DEF MoreBooked, MorePending
  <2>3. CheckEmbedding(t, d, more)
    BY DEF more
  <2> QED
    BY <1>1, <2>1, <2>2, <2>3, CheckEmbeddingInv
<1> QED
  BY <1>3, <1>4 DEF IndexNext

LEMMA SearchInv ==
  ASSUME Inv, NEW t \in Callers, SearchKnowledge(t)
  PROVE  Inv'
<1>1. /\ CheckEmbedding(t, None, [pc |-> "search"])
      /\ UNCHANGED <<policy, spent, known, indexed, aside, db, restarts>>
  BY DEF SearchKnowledge
<1>2. [pc |-> "search"] \in Mores /\ MoreBooked([pc |-> "search"], Store)
  BY DEF Mores, Searching, MoreBooked
<1>3. Pending(th[t]) = {}
  BY PlainState DEF SearchKnowledge
<1> QED
  BY <1>1, <1>2, <1>3, CheckEmbeddingInv

LEMMA ReindexInv ==
  ASSUME Inv, NEW t \in Callers, ReindexKnowledge(t)
  PROVE  Inv'
<1> DEFINE to == Indexing(Idle)
<1>1. /\ TypeInv' /\ Goes(t, to) /\ indexed' = {} /\ aside' = {} /\ Store' = Store /\ Mem' = Mem
      /\ UNCHANGED <<spent, incidents, known, db, restarts>>
  BY ReindexType DEF ReindexKnowledge, Inv, Store, Mem
<1>2. to.pc = "index" /\ to.next.pc = "idle" /\ to.todo = known
  BY <1>1 DEF Indexing, Idle
<1>3. th'[t] = to /\ to \in ThreadStates
  BY <1>1 DEF Goes, Inv, TypeInv
<1> HIDE DEF to
<1>4. Scan(to) = to /\ Booked(to, Mem', Store')
  BY <1>2 DEF Scan, Booked
<1>5. \A d \in known' : d \in Pending(to)
  BY <1>1, <1>2, <1>4 DEF Pending, Inv, TypeInv
<1>6. Within(Mem, Mem') /\ Covered(Store, Store') /\ Within(Store', Mem')
  BY <1>1, TotalsType DEF Inv, BooksInv, Within, Covered, Totals
<1> QED
  BY <1>1, <1>2, <1>3, <1>4, <1>5, <1>6, InvKept

LEMMA RestartInv ==
  ASSUME Inv, Restart
  PROVE  Inv'
<1>1. /\ TypeInv' /\ Mem' = Store /\ Store' = Store /\ Store \in Totals
      /\ indexed' = db.vectors /\ db' = db
      /\ restarts' # 0 /\ restarts' \in Nat /\ \A t \in Callers : th'[t] = Idle
  <2>1. restarts' # 0 /\ restarts' \in Nat
    BY BoundsAssumption DEF Restart, Inv, DocsInv
  <2> QED
    BY <2>1, RestartType, TotalsType DEF Restart, Inv, Mem, Store
<1>2. BooksInv'
  BY <1>1, PlainState DEF BooksInv, Within, Covered, Totals, Idle
<1>3. DocsInv'
  BY <1>1 DEF DocsInv, Idle
<1> QED
  BY <1>1, <1>2, <1>3 DEF Inv

LEMMA InvInit == Init => Inv
<1> SUFFICES ASSUME Init PROVE Inv
  OBVIOUS
<1>1. Zero \in Sums /\ First \in Policies /\ 0 \in 0..MaxIncidents /\ Idle \in ThreadStates
  BY PoliciesAssumption, BoundsAssumption DEF Zero, Sums, ThreadStates, Nexts
<1>2. TypeInv
  BY <1>1 DEF Init, TypeInv
<1>3. \A t \in Callers : th[t].pc = "idle"
  BY DEF Init, Idle
<1>4. Within(Store, Mem)
  BY DEF Init, Store, Mem, Within, Covered, Zero
<1>5. BooksInv
  BY <1>3, <1>4, PlainState DEF BooksInv
<1>6. DocsInv
  BY <1>3, BoundsAssumption DEF Init, DocsInv
<1> QED
  BY <1>2, <1>5, <1>6 DEF Inv

LEMMA InvStep == Inv /\ [Next]_vars => Inv'
<1> SUFFICES ASSUME Inv, [Next]_vars PROVE Inv'
  OBVIOUS
<1>1. ASSUME NEW t \in Callers, Step(t) PROVE Inv'
  <2>1. ASSUME ReadPlan(t) PROVE Inv'
    BY <2>1, ReadPlanTurns, TurnsInv, PlainState DEF ReadPlan, Inv
  <2> QED
    BY <1>1, <2>1, StreamInv, CallReturnsInv, ProviderFailsInv, AlertDoneInv, AnswerInv,
       CommitInv, IndexNextInv, EmbeddedInv, EmbeddingFailsInv DEF Step
<1>2. ASSUME NEW t \in Callers, Request(t) PROVE Inv'
  <2>1. ASSUME NEW ask \in Asks, Respond(t, ask) PROVE Inv'
    BY <2>1, RespondTurns, TurnsInv, PlainState DEF Respond, Inv
  <2> QED
    BY <1>2, <2>1, GenerateInv, PolicyBlockedInv, SearchInv, ReindexInv, WriteInv, UpdateInv
       DEF Request
<1>3. CASE UNCHANGED vars
  BY <1>3 DEF vars, Inv, TypeInv, BooksInv, DocsInv, Mem, Store
<1> QED
  BY <1>1, <1>2, <1>3, RestartInv DEF Next

THEOREM Always == Spec => []Inv
BY InvInit, InvStep, PTL DEF Spec

\* The books stay numbers and the threads at known points, and an admitted call
\* may produce something, whatever requests, failures and crashes come together.
THEOREM TypesAlways == Spec => []TypeOK
<1>1. Inv => TypeOK
  <2> SUFFICES ASSUME Inv PROVE TypeOK
    OBVIOUS
  <2>1. db.incidents \in 0..incidents
    BY DEF Inv, TypeInv, BooksInv, Within, Covered, Mem, Store
  <2>2. ASSUME NEW t \in Callers
        PROVE  /\ th[t].pc \in {"idle", "provider", "alert", "parse", "answer", "commit",
                                "index", "embed"}
               /\ th[t].pc = "provider" => /\ th[t].max \in Nat \ {0}
                                           /\ th[t].i \in DOMAIN Attempts(th[t].req.want)
    BY StateAt, CallAt DEF Inv, TypeInv, CallFits
  <2> QED
    BY <2>1, <2>2 DEF Inv, TypeInv, TypeOK, Sums
<1> QED
  BY <1>1, Always, PTL

\* A caller that streams hears one provider only.
THEOREM OneVoiceHeard == Spec => []OneVoice
<1>1. Inv => OneVoice
  BY CallAt DEF Inv, OneVoice, CallFits, Attempt
<1> QED
  BY <1>1, Always, PTL

\* What an answer says of the books is stored when it is given.
THEOREM AnswersAreBooked == Spec => []AnsweredIsBooked
<1>1. Inv => AnsweredIsBooked
  BY DEF Inv, BooksInv, Booked, AnsweredIsBooked, Covered, Store
<1> QED
  BY <1>1, Always, PTL

\* Rules, planner and fallback together keep to the mode of the message.
THEOREM AnswersFit == Spec => []AnswerFitsMode
<1>1. Inv => AnswerFitsMode
  BY StateAt DEF Inv, TypeInv, Answering, OutFits, AnswerFitsMode
<1> QED
  BY <1>1, Always, PTL

\* Every document of the knowledge base has its embedding or has been set aside
\* when the requests are over.
THEOREM DocumentsAccounted == Spec => []DocsAccounted
<1>1. Inv => DocsAccounted
  <2> SUFFICES ASSUME Inv, restarts = 0, \A t \in Callers : th[t].pc = "idle"
               PROVE  known \subseteq indexed \cup aside
    BY DEF Inv, DocsInv, DocsAccounted
  <2>1. \A t \in Callers : Pending(th[t]) = {}
    BY PlainState
  <2> QED
    BY <2>1 DEF Inv, DocsInv
<1> QED
  BY <1>1, Always, PTL

-----------------------------------------------------------------------------
(* Calls that are under way                                                *)

Flying(w) == w.pc \in {"provider", "embed"}
Reserve(w) == IF w.pc = "provider" THEN Prompt + w.max ELSE Prompt
HighestTotal == Max({p.total : p \in Policies})
HighestCall == Max({p.call : p \in Policies})

LEMMA HighestFacts ==
  /\ HighestTotal \in Nat /\ HighestCall \in Nat /\ HighestCall <= HighestTotal
  /\ \A p \in Policies : p.total <= HighestTotal /\ p.call <= HighestCall
<1> DEFINE totals == {p.total : p \in Policies}
           limits == {p.call : p \in Policies}
<1>1. /\ totals \subseteq Nat /\ limits \subseteq Nat
      /\ \A p \in Policies : p.call <= p.total /\ p.call \in Nat /\ p.total \in Nat
  BY PoliciesAssumption
<1>2. (\E x \in totals : \A y \in totals : x >= y) /\ (\E x \in limits : \A y \in limits : x >= y)
  BY HighestAssumption
<1>3. /\ HighestTotal \in totals /\ HighestCall \in limits
      /\ (\A y \in totals : HighestTotal >= y) /\ (\A y \in limits : HighestCall >= y)
  BY <1>2 DEF HighestTotal, HighestCall, Max
<1>4. \A p \in Policies : p.total \in totals /\ p.call \in limits
  OBVIOUS
<1>5. PICK p \in Policies : HighestCall = p.call
  BY <1>3
<1>6. HighestTotal \in Nat /\ HighestCall \in Nat
  BY <1>1, <1>3
<1> HIDE DEF totals, limits
<1>7. \A p2 \in Policies : p2.total <= HighestTotal /\ p2.call <= HighestCall
  BY <1>1, <1>3, <1>4, <1>6
<1> QED
  BY <1>1, <1>5, <1>6, <1>7

\* A thread that keeps its call, or has none, or gives it up
Rests(t) ==
  /\ spent' = spent /\ unmetered' = unmetered
  /\ Flying(th'[t]) => /\ Flying(th[t]) /\ Reserve(th'[t]) = Reserve(th[t])
                       /\ th'[t].room = th[t].room

\* A call that is admitted
Admits(t) ==
  /\ spent' = spent /\ ~Flying(th[t]) /\ Flying(th'[t])
  /\ ~unmetered' => /\ ~unmetered /\ th'[t].room.metered
                    /\ Reserve(th'[t]) \in Nat /\ Reserve(th'[t]) <= HighestCall
                    /\ spent.tokens + Reserve(th'[t]) <= HighestTotal

\* A call that is charged
Charges(t) ==
  /\ Flying(th[t]) /\ ~Flying(th'[t]) /\ unmetered' = unmetered
  /\ th[t].room.metered => /\ spent'.tokens <= spent.tokens + Reserve(th[t])
                           /\ spent'.tokens <= spent.tokens + th[t].room.tokens
                           /\ th[t].pc = "provider" => spent'.cost <= spent.cost + th[t].room.cost

Moves(t) == Rests(t) \/ Admits(t) \/ Charges(t)

LEMMA CheckMoves ==
  ASSUME Inv, NEW t \in Callers, NEW req \in CallReqs, Check(t, req), ~Flying(th[t])
  PROVE  Moves(t)
<1> DEFINE rates == BudgetRates(req.want)
           max == MaxOutputTokens(rates)
           w == [pc |-> "provider", req |-> req, i |-> 1, heard |-> {}, max |-> max, room |-> Room]
<1>1. CASE Allowed(rates)
  <2>1. th'[t] = w /\ spent' = spent /\ unmetered' = (unmetered \/ ~policy.enabled)
    BY <1>1 DEF Check, Goes, Inv, TypeInv
  <2>2. req.want \in Providers /\ policy \in Policies /\ spent \in Sums
    BY DEF CallReqs, Inv, TypeInv
  <2>3. rates \in [in : Nat, out : Nat]
    BY <2>2, RouteRates
  <2>4. /\ max \in Nat
        /\ policy.enabled => /\ Prompt + max <= policy.call
                             /\ spent.tokens + Prompt + max <= policy.total
    BY <1>1, <2>2, <2>3, AdmittedCallFits
  <2>5. w.pc = "provider" /\ w.max = max /\ w.room.metered = policy.enabled
    BY DEF Room
  <2> HIDE DEF w, max, rates
  <2>6. ~unmetered' => policy.enabled /\ ~unmetered
    BY <2>1, <2>2, PoliciesAssumption DEF Inv, TypeInv
  <2>7. policy.enabled => /\ Prompt + max \in Nat /\ Prompt + max <= HighestCall
                          /\ spent.tokens + (Prompt + max) <= HighestTotal
    <3>1. /\ policy.total \in Nat /\ policy.call \in Nat /\ spent.tokens \in Nat /\ Prompt \in Nat
          /\ policy.total <= HighestTotal /\ policy.call <= HighestCall
          /\ HighestTotal \in Nat /\ HighestCall \in Nat
      BY <2>2, HighestFacts, PoliciesAssumption, BoundsAssumption DEF Sums
    <3> QED
      BY <2>4, <3>1
  <2> QED
    BY <2>1, <2>5, <2>6, <2>7 DEF Moves, Admits, Flying, Reserve
<1>2. CASE ~Allowed(rates)
  BY <1>2 DEF Check, Reports, Goes, Inv, TypeInv, Moves, Rests, Flying
<1> QED
  BY <1>1, <1>2

LEMMA CheckEmbeddingMoves ==
  ASSUME Inv, NEW t \in Callers, NEW doc \in Docs \cup {None}, NEW more \in Mores,
         CheckEmbedding(t, doc, more), spent' = spent, ~Flying(th[t])
  PROVE  Moves(t)
<1> DEFINE w == [pc |-> "embed", doc |-> doc, more |-> more, room |-> Room]
<1>1. CASE Allowed([in |-> policy.rate, out |-> policy.rate])
  <2>1. th'[t] = w /\ unmetered' = (unmetered \/ ~policy.enabled)
    BY <1>1 DEF CheckEmbedding, Goes, Inv, TypeInv
  <2>2. policy \in Policies /\ spent.tokens \in Nat /\ Prompt \in Nat
    BY BoundsAssumption DEF Inv, TypeInv, Sums
  <2>3. policy.enabled => /\ Prompt <= policy.call /\ spent.tokens + Prompt <= policy.total
    BY <1>1, AdmittedEmbedding DEF Inv
  <2>4. w.pc = "embed" /\ w.room.metered = policy.enabled
    BY DEF Room
  <2> HIDE DEF w
  <2>5. ~unmetered' => policy.enabled /\ ~unmetered
    BY <2>1, <2>2, PoliciesAssumption DEF Inv, TypeInv
  <2>6. policy.enabled => Prompt <= HighestCall /\ spent.tokens + Prompt <= HighestTotal
    <3>1. /\ policy.total \in Nat /\ policy.call \in Nat
          /\ policy.total <= HighestTotal /\ policy.call <= HighestCall
          /\ HighestTotal \in Nat /\ HighestCall \in Nat
      BY <2>2, HighestFacts, PoliciesAssumption
    <3> QED
      BY <2>2, <2>3, <3>1
  <2> QED
    BY <2>1, <2>2, <2>4, <2>5, <2>6 DEF Moves, Admits, Flying, Reserve
<1>2. CASE ~Allowed([in |-> policy.rate, out |-> policy.rate])
  BY <1>2 DEF CheckEmbedding, Reports, Goes, Inv, TypeInv, Moves, Rests, Flying
<1> QED
  BY <1>1, <1>2

\* A thread that goes on without a call
LEMMA RestsAt ==
  ASSUME Inv, NEW t \in Callers, NEW to, Goes(t, to), spent' = spent, unmetered' = unmetered,
         ~Flying(to)
  PROVE  Moves(t)
BY DEF Goes, Inv, TypeInv, Moves, Rests

LEMMA StreamMoves ==
  ASSUME Inv, NEW t \in Callers, StreamDelta(t)
  PROVE  Moves(t)
<1> DEFINE heard == th[t].heard \cup {Attempt(t)}
           to == [th[t] EXCEPT !.heard = heard]
<1>1. th[t] \in Providing /\ th[t].pc = "provider" /\ Goes(t, to) /\ spent' = spent
      /\ unmetered' = unmetered
  BY CallAt DEF StreamDelta, Inv
<1> HIDE DEF heard
<1>2. to.pc = "provider" /\ to.max = th[t].max /\ to.room = th[t].room
  BY <1>1 DEF Providing
<1> HIDE DEF to
<1>3. th'[t] = to
  BY <1>1 DEF Goes, Inv, TypeInv
<1> QED
  BY <1>1, <1>2, <1>3 DEF Moves, Rests, Flying, Reserve

LEMMA ProviderFailsMoves ==
  ASSUME Inv, NEW t \in Callers, ProviderFails(t)
  PROVE  Moves(t)
<1> DEFINE w == th[t]
           last == w.i = Len(Attempts(w.req.want))
           next == w.i + 1
           to == [w EXCEPT !.i = next]
<1>1. w \in Providing /\ w.pc = "provider" /\ spent' = spent /\ unmetered' = unmetered
  BY CallAt DEF ProviderFails, Inv
<1>2. CASE Interrupted(t) \/ last
  <2>1. Reports(t, [req |-> w.req, out |-> "failed"])
    BY <1>2 DEF ProviderFails
  <2> QED
    BY <1>1, <2>1, RestsAt DEF Reports, Flying
<1>3. CASE ~(Interrupted(t) \/ last)
  <2>1. Goes(t, to)
    BY <1>3 DEF ProviderFails
  <2> HIDE DEF next
  <2>2. to.pc = "provider" /\ to.max = w.max /\ to.room = w.room
    BY <1>1 DEF Providing
  <2> HIDE DEF to
  <2>3. th'[t] = to
    BY <2>1 DEF Goes, Inv, TypeInv
  <2> QED
    BY <1>1, <2>2, <2>3 DEF Moves, Rests, Flying, Reserve
<1> QED
  BY <1>2, <1>3

LEMMA CallReturnsMoves ==
  ASSUME Inv, NEW t \in Callers, CallReturns(t)
  PROVE  Moves(t)
<1>1. /\ th[t].pc = "provider" /\ th[t].max \in Nat \ {0} /\ th[t].room \in Rooms
      /\ unmetered' = unmetered /\ Prompt \in Nat /\ spent \in Sums
  BY CallAt, BoundsAssumption DEF CallReturns, Inv, TypeInv
<1>2. ~Flying(th'[t])
  BY DEF CallReturns, Sync, Answers, Goes, Listed, Flying, Inv, TypeInv
<1>3. PICK n \in Completions(t) :
        /\ n \in Nat /\ spent'.tokens = spent.tokens + Prompt + n
        /\ Bill(Prompt, n, Rates[Attempt(t)]) \in Nat
        /\ spent'.cost = spent.cost + Bill(Prompt, n, Rates[Attempt(t)])
  BY CallCharge DEF Inv
<1>4. th[t].room.metered =>
        /\ Prompt + n <= th[t].room.tokens /\ n <= th[t].max
        /\ Bill(Prompt, n, Rates[Attempt(t)]) <= th[t].room.cost
  BY <1>1, ChargeFits DEF Inv
<1>5. /\ th[t].max \in Nat /\ th[t].room.tokens \in Nat /\ th[t].room.cost \in Nat
      /\ spent.tokens \in Nat /\ spent.cost \in Nat
  BY <1>1 DEF Rooms, Sums
<1>6. th[t].room.metered => /\ spent'.tokens <= spent.tokens + (Prompt + th[t].max)
                            /\ spent'.tokens <= spent.tokens + th[t].room.tokens
                            /\ spent'.cost <= spent.cost + th[t].room.cost
  BY <1>1, <1>3, <1>4, <1>5
<1> QED
  BY <1>1, <1>2, <1>6 DEF Moves, Charges, Flying, Reserve

LEMMA EmbeddedMoves ==
  ASSUME Inv, NEW t \in Callers, Embedded(t)
  PROVE  Moves(t)
<1>1. /\ th[t].pc = "embed" /\ th[t] \in Embedding /\ th[t].more \in Mores
      /\ unmetered' = unmetered /\ Goes(t, AfterEmbedding(th[t].more))
      /\ spent'.tokens = spent.tokens + Prompt
      /\ Prompt \in Nat /\ spent.tokens \in Nat
  BY EmbeddedType, StateAt, BoundsAssumption DEF Embedded, Inv, TypeInv, Sums, Embedding
<1>2. AfterEmbedding(th[t].more).pc \in {"commit", "index"}
  BY <1>1 DEF AfterEmbedding, Mores, Scanning, Searching, Listed
<1>3. th'[t].pc \in {"commit", "index"}
  BY <1>1, <1>2 DEF Goes, Inv, TypeInv
<1>4. th[t].room.metered => Prompt <= th[t].room.tokens
      /\ th[t].room.tokens \in Nat
  BY <1>1 DEF Embedding, Rooms
<1>5. th[t].room.metered => spent'.tokens <= spent.tokens + th[t].room.tokens
  BY <1>1, <1>4
<1> QED
  BY <1>1, <1>3, <1>5 DEF Moves, Charges, Flying, Reserve

LEMMA SyncsMoves ==
  ASSUME Inv, NEW t \in Callers, NEW next, Sync(t, next), spent' = spent, unmetered' = unmetered
  PROVE  Moves(t)
BY RestsAt DEF Sync, Listed, Flying

LEMMA TurnsMoves ==
  ASSUME Inv, NEW t \in Callers, Turns(t), ~Flying(th[t])
  PROVE  Moves(t)
BY CheckMoves, SyncsMoves DEF Turns, Proposes, Answers

LEMMA AlertDoneMoves ==
  ASSUME Inv, NEW t \in Callers, AlertDone(t)
  PROVE  Moves(t)
<1> DEFINE then == th[t].then
<1>1. then \in ThenAnswers \cup ThenIndexes /\ spent' = spent /\ unmetered' = unmetered
  BY StateAt DEF AlertDone, Inv, TypeInv, Alerting
<1>2. CASE Answers(t, then.req, then.out)
  BY <1>1, <1>2, SyncsMoves DEF Answers
<1>3. CASE "doc" \in DOMAIN then /\ Goes(t, AfterEmbedding(then.more))
  <2>1. then \in ThenIndexes
    BY <1>1, <1>3 DEF ThenAnswers
  <2>2. AfterEmbedding(then.more).pc \in {"commit", "index"}
    BY <2>1 DEF ThenIndexes, AfterEmbedding, Mores, Scanning, Searching, Listed
  <2> QED
    BY <1>1, <1>3, <2>2, RestsAt DEF Flying
<1> QED
  BY <1>2, <1>3 DEF AlertDone, ToldAfterSync

LEMMA CommitMoves ==
  ASSUME Inv, NEW t \in Callers, Commit(t)
  PROVE  Moves(t)
<1> DEFINE to == IF th[t].again THEN Indexing(th[t].next) ELSE th[t].next
<1>1. th[t].next \in Nexts /\ Goes(t, to) /\ spent' = spent /\ unmetered' = unmetered
  BY CommitWrites DEF Commit, Committing, Inv
<1>2. ~Flying(to)
  BY <1>1 DEF Nexts, Idle, Answering, Parsing, Indexing, Flying
<1> HIDE DEF to
<1> QED
  BY <1>1, <1>2, RestsAt

LEMMA IndexNextMoves ==
  ASSUME Inv, NEW t \in Callers, IndexNext(t)
  PROVE  Moves(t)
<1> DEFINE s == th[t]
           missing == s.todo \ (indexed \cup aside)
<1>1. s.pc = "index" /\ s \in Scanning /\ s.next \in Nexts /\ s.todo \subseteq Docs /\ spent' = spent
  BY StateAt DEF IndexNext, Inv, TypeInv, Scanning
<1>2. CASE /\ UNCHANGED <<incidents, unmetered>>
           /\ Goes(t, IF s.changed THEN Listed(FALSE, s.next) ELSE s.next)
  <2> DEFINE to == IF s.changed THEN Listed(FALSE, s.next) ELSE s.next
  <2>1. s.next.pc \in {"idle", "answer", "parse"}
    BY <1>1 DEF Nexts, Idle, Answering, Parsing
  <2>2. ~Flying(to)
    BY <2>1 DEF Listed, Flying
  <2> QED
    BY <1>1, <1>2, <2>2, RestsAt
<1>3. CASE \E d \in missing : CheckEmbedding(t, d, [s EXCEPT !.todo = @ \ {d}, !.changed = TRUE])
  <2> PICK d \in missing : CheckEmbedding(t, d, [s EXCEPT !.todo = @ \ {d}, !.changed = TRUE])
    BY <1>3
  <2> DEFINE more == [s EXCEPT !.todo = @ \ {d}, !.changed = TRUE]
  <2>1. d \in Docs /\ more \in Mores
    BY <1>1, ScanGoesOn DEF Mores
  <2> HIDE DEF more
  <2>2. CheckEmbedding(t, d, more)
    BY DEF more
  <2> QED
    BY <1>1, <2>1, <2>2, CheckEmbeddingMoves DEF Flying
<1> QED
  BY <1>2, <1>3 DEF IndexNext

LEMMA GenerateMoves ==
  ASSUME Inv, NEW t \in Callers, Generate(t)
  PROVE  Moves(t)
<1>1. PICK p \in Providers :
        Check(t, [mode |-> "generate", marks |-> {}, want |-> p, stage |-> "generate",
                  stream |-> FALSE])
  BY DEF Generate
<1>2. [mode |-> "generate", marks |-> {}, want |-> p, stage |-> "generate",
       stream |-> FALSE] \in CallReqs
  BY DEF CallReqs, ModeFits
<1> QED
  BY <1>1, <1>2, CheckMoves DEF Generate, Flying

LEMMA StepMoves ==
  ASSUME Inv, NEW t \in Callers, Step(t)
  PROVE  Moves(t)
<1>1. ASSUME Answer(t) PROVE Moves(t)
  BY <1>1, RestsAt DEF Answer, Idle, Flying
<1>2. ASSUME ReadPlan(t) PROVE Moves(t)
  BY <1>2, ReadPlanTurns, TurnsMoves DEF ReadPlan, Flying, Inv
<1>3. ASSUME EmbeddingFails(t) PROVE Moves(t)
  BY <1>3, RestsAt DEF EmbeddingFails, Reports, Flying
<1> QED
  BY <1>1, <1>2, <1>3, StreamMoves, CallReturnsMoves, ProviderFailsMoves, AlertDoneMoves,
     CommitMoves, IndexNextMoves, EmbeddedMoves DEF Step

LEMMA RequestMoves ==
  ASSUME Inv, NEW t \in Callers, Request(t)
  PROVE  Moves(t)
<1>1. ASSUME PolicyUpdateBlocked(t) PROVE Moves(t)
  BY <1>1, RestsAt DEF PolicyUpdateBlocked, Reports, Flying
<1>2. ASSUME SearchKnowledge(t) PROVE Moves(t)
  BY <1>2, CheckEmbeddingMoves DEF SearchKnowledge, Flying, Mores, Searching
<1>3. ASSUME ReindexKnowledge(t) PROVE Moves(t)
  BY <1>3, RestsAt DEF ReindexKnowledge, Indexing, Flying
<1>4. ASSUME NEW d \in Docs, WriteKnowledge(t, d) PROVE Moves(t)
  BY <1>4, SyncsMoves DEF WriteKnowledge
<1>5. ASSUME NEW p \in Policies, UpdateBudgetPolicy(t, p) PROVE Moves(t)
  BY <1>5, SyncsMoves DEF UpdateBudgetPolicy
<1>6. ASSUME NEW ask \in Asks, Respond(t, ask) PROVE Moves(t)
  BY <1>6, RespondTurns, TurnsMoves DEF Respond, Flying, Inv
<1> QED
  BY <1>1, <1>2, <1>3, <1>4, <1>5, <1>6, GenerateMoves DEF Request

LEMMA OthersStay ==
  ASSUME Inv, NEW t \in Callers, Step(t) \/ Request(t)
  PROVE  \A u \in Callers : u # t => th'[u] = th[u]
<1> SUFFICES ASSUME NEW to, Goes(t, to) PROVE \A u \in Callers : u # t => th'[u] = th[u]
  BY DEF Step, Request, StreamDelta, CallReturns, ProviderFails, AlertDone, Answer, ReadPlan,
         Commit, IndexNext, Embedded, EmbeddingFails, Generate, PolicyUpdateBlocked,
         SearchKnowledge, ReindexKnowledge, WriteKnowledge, Respond, UpdateBudgetPolicy,
         Sync, Answers, Reports, Check, CheckEmbedding, Proposes, Converse, ToldAfterSync
<1> QED
  BY DEF Goes, Inv, TypeInv

\* A call is charged at most what was left when it was admitted.
THEOREM AdmittedCallsFit == Spec => AdmittedFits
<1> DEFINE Fits == \A t \in Callers :
             (InFlight(t) /\ spent' # spent /\ th'[t] # th[t] /\ th[t].room.metered) =>
               /\ spent'.tokens - spent.tokens <= th[t].room.tokens
               /\ th[t].pc = "provider" => spent'.cost - spent.cost <= th[t].room.cost
<1>1. Inv /\ Inv' /\ [Next]_vars => [Fits]_vars
  <2> SUFFICES ASSUME Inv, Inv', Next, NEW t \in Callers,
                      InFlight(t), spent' # spent, th'[t] # th[t], th[t].room.metered
               PROVE  /\ spent'.tokens - spent.tokens <= th[t].room.tokens
                      /\ th[t].pc = "provider" => spent'.cost - spent.cost <= th[t].room.cost
    OBVIOUS
  <2>1. /\ spent.tokens \in Nat /\ spent.cost \in Nat /\ spent'.tokens \in Nat /\ spent'.cost \in Nat
        /\ th[t].room.tokens \in Nat /\ th[t].room.cost \in Nat
    BY StateAt DEF Inv, TypeInv, Sums, InFlight, Providing, Embedding, Rooms
  <2>2. CASE Restart
    <3>1. spent'.tokens <= spent.tokens /\ spent'.cost <= spent.cost
      BY <2>2 DEF Restart, Inv, BooksInv, Within, Covered, Mem, Store
    <3> QED
      BY <2>1, <3>1
  <2>3. CASE \E u \in Callers : Step(u) \/ Request(u)
    <3>1. PICK u \in Callers : Step(u) \/ Request(u)
      BY <2>3
    <3>2. u = t
      BY <3>1, OthersStay
    <3>3. Charges(t)
      BY <3>1, <3>2, StepMoves, RequestMoves DEF Moves, Rests, Admits
    <3>4. /\ spent'.tokens <= spent.tokens + th[t].room.tokens
          /\ th[t].pc = "provider" => spent'.cost <= spent.cost + th[t].room.cost
      BY <3>3 DEF Charges
    <3> QED
      BY <2>1, <3>4
  <2> QED
    BY <2>2, <2>3 DEF Next
<1>2. Spec => [][Fits]_vars
  BY <1>1, Always, PTL DEF Spec
<1> QED
  BY <1>2 DEF AdmittedFits

-----------------------------------------------------------------------------
(* How far the total can be overrun                                        *)

Underway == {t \in Callers : Flying(th[t])}
SpendTop == HighestTotal + (Cardinality(Callers) - 1) * HighestCall

\* Either all calls under way fit at the highest price a call may have, or all
\* but one of them and that one at the tokens that it was admitted with.
SpendInv ==
  ~unmetered =>
    /\ \A t \in Underway : /\ th[t].room.metered
                           /\ Reserve(th[t]) \in Nat /\ Reserve(th[t]) <= HighestCall
    /\ \/ spent.tokens + Cardinality(Underway) * HighestCall <= SpendTop
       \/ \E t \in Underway :
            spent.tokens + Reserve(th[t]) + (Cardinality(Underway) - 1) * HighestCall <= SpendTop

LEMMA OneMore ==
  ASSUME NEW n \in Nat, NEW k \in Nat
  PROVE  n * k \in Nat /\ (n + 1) * k = n * k + k
OBVIOUS

LEMMA TopFacts ==
  /\ SpendTop \in Nat /\ Cardinality(Callers) \in Nat
  /\ \A n \in Nat : n < Cardinality(Callers) => HighestTotal + n * HighestCall <= SpendTop
<1> DEFINE N == Cardinality(Callers)
           K == HighestCall
<1>1. N \in Nat /\ K \in Nat /\ HighestTotal \in Nat /\ K <= HighestTotal
  BY FS_CardinalityType, BoundsAssumption, HighestFacts
<1>2. SpendTop = HighestTotal + (N - 1) * K
  BY DEF SpendTop
<1> HIDE DEF N, K
<1>3. CASE N = 0
  <2>1. (N - 1) * K = -K
    BY <1>1, <1>3
  <2> QED
    BY <1>1, <1>2, <1>3, <2>1 DEF N, K
<1>4. CASE N # 0
  <2>1. N - 1 \in Nat /\ (N - 1) * K \in Nat
    BY <1>1, <1>4, OneMore
  <2>2. \A n \in Nat : n < N => n * K <= (N - 1) * K /\ n * K \in Nat
    <3> TAKE n \in Nat
    <3> HAVE n < N
    <3>1. n <= N - 1
      BY <1>1
    <3> QED
      BY <1>1, <2>1, <3>1, TimesMonotone
  <2> QED
    BY <1>1, <1>2, <2>1, <2>2 DEF N, K
<1> QED
  BY <1>3, <1>4

LEMMA UnderwayFacts ==
  /\ IsFiniteSet(Underway) /\ Cardinality(Underway) \in Nat
  /\ Cardinality(Underway) <= Cardinality(Callers)
  /\ Underway = {} => Cardinality(Underway) = 0
  /\ Underway # {} => Cardinality(Underway) >= 1
<1>1. Underway \subseteq Callers /\ IsFiniteSet(Callers)
  BY BoundsAssumption DEF Underway
<1>2. IsFiniteSet(Underway) /\ Cardinality(Underway) <= Cardinality(Callers)
  BY <1>1, FS_Subset
<1>3. Cardinality(Underway) \in Nat
  BY <1>2, FS_CardinalityType
<1>4. Cardinality(Underway) = 0 <=> Underway = {}
  BY <1>2, FS_EmptySet
<1> QED
  BY <1>2, <1>3, <1>4

LEMMA SpendHolds ==
  ASSUME Inv, SpendInv
  PROVE  SpendBounded
<1> SUFFICES ASSUME ~unmetered
             PROVE  spent.tokens <= SpendTop
  BY DEF SpendBounded, SpendTop, HighestTotal, HighestCall
<1> DEFINE n == Cardinality(Underway)
<1>1. n \in Nat /\ HighestCall \in Nat /\ SpendTop \in Nat /\ spent.tokens \in Nat
  BY UnderwayFacts, HighestFacts, TopFacts DEF Inv, TypeInv, Sums
<1>2. CASE spent.tokens + n * HighestCall <= SpendTop
  <2>1. n * HighestCall \in Nat
    BY <1>1, OneMore
  <2> QED
    BY <1>1, <1>2, <2>1
<1>3. CASE \E t \in Underway : spent.tokens + Reserve(th[t]) + (n - 1) * HighestCall <= SpendTop
  <2> PICK t \in Underway : spent.tokens + Reserve(th[t]) + (n - 1) * HighestCall <= SpendTop
    BY <1>3
  <2>1. n - 1 \in Nat
    BY <1>1, UnderwayFacts
  <2>2. (n - 1) * HighestCall \in Nat /\ Reserve(th[t]) \in Nat
    BY <1>1, <2>1, OneMore DEF SpendInv
  <2> QED
    BY <1>1, <2>2
<1> QED
  BY <1>2, <1>3 DEF SpendInv

LEMMA UnderwayFactsNext ==
  Cardinality(Underway') \in Nat /\ Cardinality(Underway') <= Cardinality(Callers)
<1>1. Underway' \subseteq Callers /\ IsFiniteSet(Callers)
  BY BoundsAssumption DEF Underway
<1>2. IsFiniteSet(Underway') /\ Cardinality(Underway') <= Cardinality(Callers)
  BY <1>1, FS_Subset
<1> QED
  BY <1>2, FS_CardinalityType

LEMMA SpendKept ==
  ASSUME SpendInv, Underway' = Underway, spent' = spent, unmetered' = unmetered,
         \A u \in Underway : Reserve(th'[u]) = Reserve(th[u]) /\ th'[u].room = th[u].room
  PROVE  SpendInv'
<1> SUFFICES ASSUME ~unmetered'
             PROVE  /\ \A u \in Underway' : /\ th'[u].room.metered
                                            /\ Reserve(th'[u]) \in Nat
                                            /\ Reserve(th'[u]) <= HighestCall
                    /\ \/ spent'.tokens + Cardinality(Underway') * HighestCall <= SpendTop
                       \/ \E u \in Underway' :
                            spent'.tokens + Reserve(th'[u])
                              + (Cardinality(Underway') - 1) * HighestCall <= SpendTop
  BY DEF SpendInv
<1>1. Cardinality(Underway') = Cardinality(Underway) /\ spent'.tokens = spent.tokens
  OBVIOUS
<1> QED
  BY <1>1 DEF SpendInv

\* A call ends: it may have cost as much as it was admitted with.
LEMMA SpendLeft ==
  ASSUME Inv, TypeInv', SpendInv, NEW t \in Underway, Underway' = Underway \ {t},
         \A u \in Underway \ {t} : th'[u] = th[u], unmetered' = unmetered,
         ~unmetered => spent'.tokens <= spent.tokens + Reserve(th[t])
  PROVE  SpendInv'
<1> DEFINE n == Cardinality(Underway)
           K == HighestCall
           holds == \A u \in Underway' : /\ th'[u].room.metered
                                         /\ Reserve(th'[u]) \in Nat /\ Reserve(th'[u]) <= K
           bound == \/ spent'.tokens + Cardinality(Underway') * K <= SpendTop
                    \/ \E u \in Underway' :
                         spent'.tokens + Reserve(th'[u])
                           + (Cardinality(Underway') - 1) * K <= SpendTop
<1> SUFFICES ASSUME ~unmetered' PROVE holds /\ bound
  BY DEF SpendInv
<1>1. holds
  BY DEF SpendInv
<1>2. /\ n \in Nat /\ n >= 1 /\ K \in Nat /\ SpendTop \in Nat
      /\ spent.tokens \in Nat /\ spent'.tokens \in Nat
      /\ Reserve(th[t]) \in Nat /\ Reserve(th[t]) <= K
  BY UnderwayFacts, HighestFacts, TopFacts DEF Inv, TypeInv, Sums, SpendInv
<1>3. Cardinality(Underway') = n - 1
  BY UnderwayFacts, FS_RemoveElement
<1>4. n - 1 \in Nat /\ (n - 1) * K \in Nat /\ n * K = (n - 1) * K + K
  <2>1. n - 1 \in Nat /\ (n - 1) + 1 = n
    BY <1>2
  <2> HIDE DEF n, K
  <2> QED
    BY <1>2, <2>1, OneMore
<1>5. spent'.tokens <= spent.tokens + Reserve(th[t])
  OBVIOUS
<1>6. CASE spent.tokens + n * K <= SpendTop
  <2> HIDE DEF n, K
  <2>1. spent'.tokens + (n - 1) * K <= SpendTop
    BY <1>2, <1>4, <1>5, <1>6
  <2> QED
    BY <1>1, <1>3, <2>1
<1>7. CASE \E u \in Underway : spent.tokens + Reserve(th[u]) + (n - 1) * K <= SpendTop
  <2> PICK u \in Underway : spent.tokens + Reserve(th[u]) + (n - 1) * K <= SpendTop
    BY <1>7
  <2>1. CASE u = t
    <3> HIDE DEF n, K
    <3>1. spent'.tokens + (n - 1) * K <= SpendTop
      BY <1>2, <1>4, <1>5, <2>1
    <3> QED
      BY <1>1, <1>3, <3>1
  <2>2. CASE u # t
    <3>1. u \in Underway' /\ th'[u] = th[u] /\ Reserve(th[u]) \in Nat
      BY <2>2 DEF SpendInv
    <3>2. n - 2 \in Nat
      <4>1. Cardinality(Underway \ {t}) >= 1
        <5>1. IsFiniteSet(Underway \ {t}) /\ Underway \ {t} # {}
          BY <2>2, UnderwayFacts, FS_RemoveElement
        <5>2. Cardinality(Underway \ {t}) # 0 /\ Cardinality(Underway \ {t}) \in Nat
          BY <5>1, FS_EmptySet, FS_CardinalityType
        <5> QED
          BY <5>2
      <4> QED
        BY <1>2, <1>3, <4>1
    <3> HIDE DEF n, K
    <3>3. (n - 2) * K \in Nat /\ (n - 1) * K = (n - 2) * K + K
      <4>1. (n - 2) + 1 = n - 1
        BY <1>2
      <4> QED
        BY <1>2, <3>2, <4>1, OneMore
    <3>4. spent'.tokens + Reserve(th[u]) + (n - 2) * K <= SpendTop
      BY <1>2, <1>4, <1>5, <3>1, <3>3
    <3>5. (n - 1) - 1 = n - 2
      BY <1>2
    <3>6. spent'.tokens + Reserve(th'[u]) + (Cardinality(Underway') - 1) * K <= SpendTop
      BY <1>3, <3>1, <3>4, <3>5
    <3> QED
      BY <1>1, <3>1, <3>6
  <2> QED
    BY <2>1, <2>2
<1> QED
  BY <1>6, <1>7 DEF SpendInv

LEMMA SpendAdmitted ==
  ASSUME Inv, SpendInv, NEW t \in Callers, Admits(t),
         \A u \in Callers : u # t => th'[u] = th[u]
  PROVE  SpendInv'
<1> DEFINE n == Cardinality(Underway)
           K == HighestCall
           holds == \A u \in Underway' : /\ th'[u].room.metered
                                         /\ Reserve(th'[u]) \in Nat /\ Reserve(th'[u]) <= K
           bound == \/ spent'.tokens + Cardinality(Underway') * K <= SpendTop
                    \/ \E u \in Underway' :
                         spent'.tokens + Reserve(th'[u])
                           + (Cardinality(Underway') - 1) * K <= SpendTop
<1> SUFFICES ASSUME ~unmetered' PROVE holds /\ bound
  BY DEF SpendInv
<1>1. Underway' = Underway \cup {t} /\ t \notin Underway
  BY DEF Admits, Underway
<1>2. /\ spent' = spent /\ ~unmetered /\ th'[t].room.metered
      /\ Reserve(th'[t]) \in Nat /\ Reserve(th'[t]) <= K
      /\ spent.tokens + Reserve(th'[t]) <= HighestTotal
  BY DEF Admits
<1>3. holds
  BY <1>1, <1>2 DEF SpendInv, Underway
<1>4. Cardinality(Underway') = n + 1 /\ n \in Nat
  BY <1>1, UnderwayFacts, FS_AddElement
<1>5. n < Cardinality(Callers)
  BY <1>4, UnderwayFactsNext, TopFacts
<1>6. HighestTotal + n * K <= SpendTop
  BY <1>4, <1>5, TopFacts
<1>7. /\ K \in Nat /\ n * K \in Nat /\ spent.tokens \in Nat /\ HighestTotal \in Nat
      /\ SpendTop \in Nat
  BY <1>4, HighestFacts, OneMore, TopFacts DEF Inv, TypeInv, Sums
<1> HIDE DEF n, K
<1>8. spent.tokens + Reserve(th'[t]) + n * K <= SpendTop
  BY <1>2, <1>6, <1>7
<1>9. (n + 1) - 1 = n
  BY <1>4
<1>10. spent'.tokens + Reserve(th'[t]) + (Cardinality(Underway') - 1) * K <= SpendTop
  BY <1>2, <1>4, <1>8, <1>9
<1> QED
  BY <1>1, <1>3, <1>10

LEMMA SpendMoves ==
  ASSUME Inv, TypeInv', SpendInv, NEW t \in Callers, Moves(t),
         \A u \in Callers : u # t => th'[u] = th[u]
  PROVE  SpendInv'
<1>1. CASE Admits(t)
  BY <1>1, SpendAdmitted
<1>2. CASE Charges(t)
  <2>1. t \in Underway /\ Underway' = Underway \ {t} /\ unmetered' = unmetered
    BY <1>2 DEF Charges, Underway
  <2>2. ~unmetered => spent'.tokens <= spent.tokens + Reserve(th[t])
    BY <1>2, <2>1 DEF Charges, SpendInv
  <2>3. \A u \in Underway \ {t} : th'[u] = th[u]
    BY DEF Underway
  <2> QED
    BY <2>1, <2>2, <2>3, SpendLeft
<1>3. CASE Rests(t)
  <2>1. spent' = spent /\ unmetered' = unmetered
    BY <1>3 DEF Rests
  <2>2. CASE Flying(th[t]) <=> Flying(th'[t])
    <3>1. Underway' = Underway
      BY <2>2 DEF Underway
    <3>2. \A u \in Underway : Reserve(th'[u]) = Reserve(th[u]) /\ th'[u].room = th[u].room
      BY <1>3, <2>2 DEF Rests, Underway
    <3> QED
      BY <2>1, <3>1, <3>2, SpendKept
  <2>3. CASE Flying(th[t]) /\ ~Flying(th'[t])
    <3>1. t \in Underway /\ Underway' = Underway \ {t}
      BY <2>3 DEF Underway
    <3>2. ~unmetered => spent'.tokens <= spent.tokens + Reserve(th[t])
      BY <2>1, <3>1 DEF SpendInv, Inv, TypeInv, Sums
    <3>3. \A u \in Underway \ {t} : th'[u] = th[u]
      BY DEF Underway
    <3> QED
      BY <2>1, <3>1, <3>2, <3>3, SpendLeft
  <2> QED
    BY <1>3, <2>2, <2>3 DEF Rests
<1> QED
  BY <1>1, <1>2, <1>3 DEF Moves

LEMMA SpendRestart ==
  ASSUME Inv, TypeInv', SpendInv, Restart
  PROVE  SpendInv'
<1>1. Underway' = {} /\ unmetered' = unmetered /\ spent'.tokens <= spent.tokens
  BY DEF Restart, Underway, Flying, Idle, Inv, BooksInv, Within, Covered, Mem, Store
<1>2. Cardinality(Underway') = 0 /\ 0 * HighestCall = 0
  BY <1>1, FS_EmptySet, HighestFacts
<1>3. ~unmetered => spent.tokens <= SpendTop
  BY SpendHolds DEF SpendBounded, SpendTop, HighestTotal, HighestCall
<1>4. spent.tokens \in Nat /\ spent'.tokens \in Nat /\ SpendTop \in Nat
  BY TopFacts DEF Inv, TypeInv, Sums
<1>5. ~unmetered' => spent'.tokens + Cardinality(Underway') * HighestCall <= SpendTop
  BY <1>1, <1>2, <1>3, <1>4
<1> QED
  BY <1>1, <1>5 DEF SpendInv

LEMMA SpendInit == Init => SpendInv
<1> SUFFICES ASSUME Init PROVE SpendInv
  OBVIOUS
<1>1. Underway = {} /\ spent.tokens = 0
  BY DEF Init, Underway, Flying, Idle, Zero
<1>2. Cardinality(Underway) = 0 /\ 0 * HighestCall = 0
  BY <1>1, FS_EmptySet, HighestFacts
<1>3. spent.tokens + Cardinality(Underway) * HighestCall <= SpendTop
  BY <1>1, <1>2, TopFacts
<1> QED
  BY <1>1, <1>3 DEF SpendInv

LEMMA SpendStep == Inv /\ Inv' /\ SpendInv /\ [Next]_vars => SpendInv'
<1> SUFFICES ASSUME Inv, TypeInv', SpendInv, [Next]_vars PROVE SpendInv'
  BY DEF Inv
<1>1. CASE UNCHANGED vars
  BY <1>1 DEF vars, SpendInv, Underway
<1>2. ASSUME NEW t \in Callers, Step(t) \/ Request(t) PROVE SpendInv'
  BY <1>2, StepMoves, RequestMoves, OthersStay, SpendMoves
<1> QED
  BY <1>1, <1>2, SpendRestart DEF Next

\* Requests that pass the preflight together overrun the total by less than the
\* calls of the other threads, for any number of threads.
THEOREM OverrunBounded == Spec => []SpendBounded
<1>1. Inv /\ SpendInv => SpendBounded
  BY SpendHolds
<1> QED
  BY <1>1, Always, SpendInit, SpendStep, PTL DEF Spec

=============================================================================
