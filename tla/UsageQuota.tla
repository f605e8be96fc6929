------------------------------ MODULE UsageQuota ------------------------------
(***************************************************************************)
(* The monthly quota of one organization: its subscriptions, its usage     *)
(* counters, and the requests that create analyses and call                *)
(* SubscriptionsService.checkAndIncrement once for each report type before *)
(* they write the first document.  Every query of the code is scoped to    *)
(* one organization, so one organization is enough.                        *)
(***************************************************************************)
EXTENDS Integers, Sequences, FiniteSets

CONSTANTS
  Callers,       \* requests that can be in progress at once
  Types,         \* report types
  Plans,         \* plans
  FreePlan,      \* the plan a registration subscribes to
  Limit,         \* Plan.reportLimits: Limit[p][t], -1 also where there is no entry
  Ceiling,       \* at least the largest limit any plan sets for a type, and 1
  None,          \* no report type, no plan
  MaxRequests,   \* bound: create requests in a behaviour
  MaxMonths,     \* bound: calendar months in a behaviour
  MaxSubs        \* bound: subscription documents

Unlimited == -1

ASSUME QuotaAssumption ==
  /\ IsFiniteSet(Callers)
  /\ FreePlan \in Plans
  /\ Limit \in [Plans -> [Types -> Nat \cup {Unlimited}]]
  /\ Ceiling \in [Types -> Nat \ {0}]
  /\ \A p \in Plans, t \in Types : Limit[p][t] <= Ceiling[t]
  /\ None \notin Types \cup Plans
  /\ MaxRequests \in Nat /\ MaxMonths \in Nat \ {0} /\ MaxSubs \in Nat

VARIABLES
  subs,       \* the organization's subscription documents, oldest first
  month,      \* the calendar month it is now
  count,      \* Usage.reportCount of a type in a month, 0 without a document
  request,    \* the create request each caller is in
  granted,    \* history: charges whose analysis was created
  forfeited,  \* history: charges of requests that were then refused
  requests    \* how many create requests there have been

vars == <<subs, month, count, request, granted, forfeited, requests>>

Months  == 1..MaxMonths
Subs    == [plan : Plans, status : {"active", "cancelled"}]
Counter == [Types -> [Months -> Nat]]

RequestState ==
  [pc : {"idle", "check", "usage", "increment"},
   todo : SUBSET Types,              \* types not charged yet
   charged : SUBSET (Types \X Months),
   type : Types \cup {None}, limit : Nat \cup {Unlimited}, month : Months]

Idle == [pc |-> "idle", todo |-> {}, charged |-> {}, type |-> None,
         limit |-> Unlimited, month |-> 1]

Zero == [t \in Types |-> [m \in Months |-> 0]]

\* Registration subscribes the organization to the free plan.
Init ==
  /\ subs = <<[plan |-> FreePlan, status |-> "active"]>>
  /\ month = 1
  /\ count = Zero
  /\ request = [c \in Callers |-> Idle]
  /\ granted = Zero
  /\ forfeited = Zero
  /\ requests = 0

-------------------------------------------------------------------------------
\* The active subscription findOne returns is the first one.
FirstActive ==
  {i \in DOMAIN subs : /\ subs[i].status = "active"
                       /\ \A j \in 1..(i - 1) : subs[j].status # "active"}

\* The counter with each of the charges in S counted once more.
Plus(counter, S) ==
  [t \in Types |-> [m \in Months |->
     IF <<t, m>> \in S THEN counter[t][m] + 1 ELSE counter[t][m]]]

\* create has found all its report types published and enters the loop.
BeginCreate(c, types) ==
  /\ request[c].pc = "idle"
  /\ requests < MaxRequests
  /\ requests' = requests + 1
  /\ request' = [request EXCEPT ![c] = [Idle EXCEPT !.pc = "check", !.todo = types]]
  /\ UNCHANGED <<subs, month, count, granted, forfeited>>

\* The request ends with an error: what it has charged stays charged.
Refuse(c) ==
  /\ request' = [request EXCEPT ![c] = Idle]
  /\ forfeited' = Plus(forfeited, request[c].charged)
  /\ UNCHANGED <<subs, month, count, granted, requests>>

\* Mutant of FindSubscription: the month is taken one too late, as when 1 is
\* added to a month that already counts from 1.
FindSubscriptionMonthLate(c, t) ==
  /\ request[c].pc = "check"
  /\ t \in request[c].todo
  /\ \E i \in FirstActive :
       request' = [request EXCEPT
         ![c].pc = "usage", ![c].type = t, ![c].month = month + 1,
         ![c].limit = Limit[subs[i].plan][t]]
  /\ UNCHANGED <<subs, month, count, granted, forfeited, requests>>

\* checkAndIncrement for type t finds the active subscription and takes the
\* limit of its plan and the month from the clock.
FindSubscription(c, t) ==
  /\ request[c].pc = "check"
  /\ t \in request[c].todo
  /\ \E i \in FirstActive :
       request' = [request EXCEPT
         ![c].pc = "usage", ![c].type = t, ![c].month = month,
         ![c].limit = Limit[subs[i].plan][t]]
  /\ UNCHANGED <<subs, month, count, granted, forfeited, requests>>

NoSubscription(c) ==
  /\ request[c].pc = "check"
  /\ request[c].todo # {}
  /\ FirstActive = {}
  /\ Refuse(c)

\* Mutant of LimitReached: reached only once it is passed.
LimitPassed(c) ==
  LET k == request[c] IN
  /\ k.limit # Unlimited
  /\ count[k.type][k.month] > k.limit

\* A missing usage document passes whatever the limit.
LimitReached(c) ==
  LET k == request[c] IN
  /\ k.limit # Unlimited
  /\ count[k.type][k.month] > 0
  /\ count[k.type][k.month] >= k.limit

ReadUsage(c) ==
  /\ request[c].pc = "usage"
  /\ ~LimitReached(c)
  /\ request' = [request EXCEPT ![c].pc = "increment"]
  /\ UNCHANGED <<subs, month, count, granted, forfeited, requests>>

RefuseLimit(c) ==
  /\ request[c].pc = "usage"
  /\ LimitReached(c)
  /\ Refuse(c)

\* Mutant of Increment: the loop does not move on to the next type.
IncrementAgain(c) ==
  LET k == request[c] IN
  /\ k.pc = "increment"
  /\ count' = [count EXCEPT ![k.type][k.month] = @ + 1]
  /\ request' = [request EXCEPT
       ![c].pc = "check", ![c].type = None,
       ![c].charged = @ \cup {<<k.type, k.month>>}]
  /\ UNCHANGED <<subs, month, granted, forfeited, requests>>

\* The upsert that counts one more report, whatever the counter is by now.
Increment(c) ==
  LET k == request[c] IN
  /\ k.pc = "increment"
  /\ count' = [count EXCEPT ![k.type][k.month] = @ + 1]
  /\ request' = [request EXCEPT
       ![c].pc = "check", ![c].todo = @ \ {k.type}, ![c].type = None,
       ![c].charged = @ \cup {<<k.type, k.month>>}]
  /\ UNCHANGED <<subs, month, granted, forfeited, requests>>

\* The loop is over and the analysis and its reports are created.
Grant(c) ==
  /\ request[c].pc = "check"
  /\ request[c].todo = {}
  /\ granted' = Plus(granted, request[c].charged)
  /\ request' = [request EXCEPT ![c] = Idle]
  /\ UNCHANGED <<subs, month, count, forfeited, requests>>

\* The request dies between two steps: a failed call or a crash.
Die(c) ==
  /\ request[c].pc # "idle"
  /\ Refuse(c)

\* upgrade: the first subscription that is not cancelled gets the plan, or a
\* new one is inserted.
Upgrade(p) ==
  LET open == FirstActive IN
  /\ \/ \E i \in open :
          subs' = [subs EXCEPT ![i] = [plan |-> p, status |-> "active"]]
     \/ /\ open = {}
        /\ Len(subs) < MaxSubs
        /\ subs' = Append(subs, [plan |-> p, status |-> "active"])
  /\ UNCHANGED <<month, count, request, granted, forfeited, requests>>

\* cancel: the first subscription of the organization, whatever its status.
Cancel ==
  /\ subs # <<>>
  /\ subs' = [subs EXCEPT ![1].status = "cancelled"]
  /\ UNCHANGED <<month, count, request, granted, forfeited, requests>>

NextMonth ==
  /\ month < MaxMonths
  /\ month' = month + 1
  /\ UNCHANGED <<subs, count, request, granted, forfeited, requests>>

CheckStep(c) ==
  \/ \E t \in Types : FindSubscription(c, t)
  \/ NoSubscription(c)
  \/ ReadUsage(c) \/ RefuseLimit(c)
  \/ Increment(c) \/ Grant(c) \/ Die(c)

Next ==
  \/ \E c \in Callers :
       (\E types \in SUBSET Types : BeginCreate(c, types)) \/ CheckStep(c)
  \/ \E p \in Plans : Upgrade(p)
  \/ Cancel
  \/ NextMonth

Spec == Init /\ [][Next]_vars

-------------------------------------------------------------------------------
TypeOK ==
  /\ subs \in Seq(Subs)
  /\ month \in Months
  /\ count \in Counter /\ granted \in Counter /\ forfeited \in Counter
  /\ request \in [Callers -> RequestState]
  /\ requests \in Nat

\* Callers that have passed the check for type t in month m and are about to
\* count it.
Passed(t, m) ==
  {c \in Callers : /\ request[c].pc = "increment"
                   /\ request[c].type = t /\ request[c].month = m}

\* The check and the increment are two operations, so requests in progress can
\* exceed a limit together; but only by one report for each further request in
\* progress, however plans change in between.
OvershootBounded ==
  \A t \in Types, m \in Months :
    (\A p \in Plans : Limit[p][t] # Unlimited)
      => count[t][m] <= Ceiling[t] + Cardinality(Callers) - 1

\* Callers whose request, still in its loop, has charged type t in month m.
Charging(t, m) == {c \in Callers : <<t, m>> \in request[c].charged}

\* Every charge was made for one report: it belongs to an analysis that was
\* created, to a request that is still in progress, or to one that was refused
\* later in its loop. No report is created without its charge, and none is
\* charged twice.
ChargesBalance ==
  \A t \in Types, m \in Months :
    count[t][m] = granted[t][m] + forfeited[t][m] + Cardinality(Charging(t, m))

===============================================================================
