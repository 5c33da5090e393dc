-------------------------------- MODULE Billing --------------------------------
(***************************************************************************)
(* UsageTracker and BillingEngine (billing/) for one tenant: the usage of  *)
(* each day is an upsert that adds; a bill reads the clock, the plan and   *)
(* the usage of the month, and GET /admin/billing makes two bills, the     *)
(* second for the prediction.  Others record usage and change the plan in  *)
(* between, and days and months pass.  Money is in cents; a float that is  *)
(* rounded half-way between two may become either.                         *)
(***************************************************************************)
EXTENDS Naturals, Sequences, FiniteSets, Functions

CONSTANTS
  Month, Day,
  DaysInMonth,     \* calendar.monthrange of each month
  Pricing,         \* plan -> [base, calls, perCall, runs, perRun]
  Thousand,        \* the extra calls that perCall is the price of: 1000
  None,
  Charge,          \* api_calls and agent_runs of one record_usage
  MaxRecords       \* bound: calls of record_usage

VARIABLES
  today,     \* <<month, day>>
  plan,      \* tenants.plan
  usage,     \* daily_usage: <<month, day>> -> [calls, runs]
  records,   \* calls of record_usage
  metered,   \* history: what has been recorded for each month
  req,       \* the request under way
  answer     \* the last answer, until the next request

vars == <<today, plan, usage, records, metered, req, answer>>

Plan == DOMAIN Pricing
Idle == [at |-> "idle"]
Zero == [calls |-> 0, runs |-> 0]
Plus(u, c) == [calls |-> u.calls + c.calls, runs |-> u.runs + c.runs]
Date == {d \in Month \X Day : d[2] <= DaysInMonth[d[1]]}

Init ==
  /\ today \in Date /\ plan \in Plan
  /\ usage = [d \in Month \X Day |-> Zero]
  /\ records = 0 /\ metered = [m \in Month |-> Zero]
  /\ req = Idle /\ answer = None

NewDay ==
  /\ today' = IF today[2] < DaysInMonth[today[1]] THEN <<today[1], today[2] + 1>> ELSE <<today[1] + 1, 1>>
  /\ today' \in Date
  /\ UNCHANGED <<plan, usage, records, metered, req, answer>>

\* record_usage: the row of a day that has come is made, or added to; an error is logged.
RecordUsage(m, d, c) ==
  /\ m < today[1] \/ (m = today[1] /\ d <= today[2])
  /\ records < MaxRecords /\ records' = records + 1
  /\ usage' = [usage EXCEPT ![<<m, d>>] = Plus(@, c)]
  /\ metered' = [metered EXCEPT ![m] = Plus(@, c)]
  /\ UNCHANGED <<today, plan, req, answer>>

\* A request keeps, as history, the plans the tenant had since it began.
ChangePlan(p) ==
  /\ plan' = p
  /\ req' = IF req = Idle THEN req ELSE [req EXCEPT !.plans = @ \cup {p}]
  /\ UNCHANGED <<today, usage, records, metered, answer>>

\* The rows whose date begins with the month.
GetMonthlyUsage_AllTime(m) ==
  [calls |-> SumFunction([d \in DOMAIN usage |-> usage[d].calls]),
   runs  |-> SumFunction([d \in DOMAIN usage |-> usage[d].runs])]
GetMonthlyUsage(m) ==
  [calls |-> SumFunction([d \in Day |-> usage[<<m, d>>].calls]),
   runs  |-> SumFunction([d \in Day |-> usage[<<m, d>>].runs])]
Usages == [m \in Month |-> GetMonthlyUsage(m)]

\* round(n / d) of numbers that are exact up to the error of floats.
Rounded(n, d) == {q \in 0 .. n : 2 * (q * d) <= 2 * n + d /\ 2 * n <= 2 * (q * d) + d}

Extra(n, included) == IF n > included THEN n - included ELSE 0
Calls(p, u) == Extra(u.calls, Pricing[p].calls) * Pricing[p].perCall    \* in cents per Thousand
Runs(p, u)  == Extra(u.runs, Pricing[p].runs) * Pricing[p].perRun

\* calculate_current_bill rounds the overage for calls by itself and as part of the total.
Amounts(p, u) ==
  {[base |-> Pricing[p].base, calls |-> shown, runs |-> Runs(p, u), due |-> Pricing[p].base + Runs(p, u) + added] :
     shown \in Rounded(Calls(p, u), Thousand), added \in Rounded(Calls(p, u), Thousand)}

\* GET /admin/billing/{tenant_id}, for a month, or for that of today with a prediction.
GetBill(month) ==
  /\ req = Idle
  /\ req' = [at |-> "plan", month |-> IF month = None THEN today[1] ELSE month, day |-> today[2],
             predict |-> month = None, plan |-> None, bills |-> <<>>, plans |-> {plan}, low |-> Usages]
  /\ answer' = None
  /\ UNCHANGED <<today, plan, usage, records, metered>>

\* A query that fails finds no tenant: 404.
ReadPlan ==
  /\ req.at = "plan"
  /\ req' \in {[req EXCEPT !.at = "usage", !.plan = plan], Idle}
  /\ UNCHANGED <<today, plan, usage, records, metered, answer>>

\* predict_end_of_month reads the clock once more.
Predict ==
  /\ req.at = "predict"
  /\ req' = [req EXCEPT !.at = "plan", !.month = today[1], !.day = today[2], !.predict = FALSE]
  /\ UNCHANGED <<today, plan, usage, records, metered, answer>>

\* The overage as it is shown is projected, not the base fee.
Projections(b, m, d) == Rounded(b.base * d + (b.calls + b.runs) * DaysInMonth[m], d)

\* The usage of the month, or none when the query fails; then the prediction or the answer.
ReadUsage ==
  /\ req.at = "usage"
  /\ \E fails \in BOOLEAN :
     \E bill \in Amounts(req.plan, IF fails THEN Zero ELSE GetMonthlyUsage(req.month)) :
       LET bills == Append(req.bills, [bill |-> bill, month |-> req.month, failed |-> fails]) IN
       IF req.predict
       THEN req' = [req EXCEPT !.at = "predict", !.bills = bills] /\ UNCHANGED answer
       ELSE /\ \E projected \in IF req.bills = <<>> THEN {None} ELSE Projections(bill, req.month, req.day) :
                 answer' = [bills |-> bills, projected |-> projected, plans |-> req.plans,
                            low |-> req.low, high |-> Usages]
            /\ req' = Idle
  /\ UNCHANGED <<today, plan, usage, records, metered>>

Next ==
  \/ NewDay \/ ReadPlan \/ Predict \/ ReadUsage
  \/ \E p \in Plan : ChangePlan(p)
  \/ \E m \in Month, d \in Day, c \in Charge : RecordUsage(m, d, c)
  \/ \E m \in Month \cup {None} : GetBill(m)

-----------------------------------------------------------------------------
\* What plan p charges for usage u, to be divided by Thousand.
Exact(p, u) == (Pricing[p].base + Runs(p, u)) * Thousand + Calls(p, u)

\* A bill is to half a cent that of one of these plans, for a usage its month had between
\* the two, or none if the query failed.
Fits(b, plans, low, high) ==
  \E p \in plans :
    /\ 2 * (b.bill.due * Thousand) <= 2 * Exact(p, high[b.month]) + Thousand
    /\ 2 * Exact(p, IF b.failed THEN Zero ELSE low[b.month]) <= 2 * (b.bill.due * Thousand) + Thousand

\* What has been recorded for a month is its usage.  The bills of an answer are those of
\* plans and usages the tenant had meanwhile, whatever day or month begins between them.
\* A projection is at most a cent below the bill it is made from and, if that is of the
\* same month and plan and no query failed, at most a cent below the amount due.
BillsAddUp ==
  /\ \A m \in Month : GetMonthlyUsage(m) = metered[m]
  /\ answer # None =>
       /\ \A i \in DOMAIN answer.bills : Fits(answer.bills[i], answer.plans, answer.low, answer.high)
       /\ Len(answer.bills) = 2 =>
            LET current == answer.bills[1]
                own     == answer.bills[2]
            IN /\ answer.projected + 1 >= own.bill.due
               /\ Cardinality(answer.plans) = 1 /\ current.month = own.month /\ ~current.failed /\ ~own.failed
                    => answer.projected + 1 >= current.bill.due
=============================================================================
