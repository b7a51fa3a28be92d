---------------------------- MODULE CostEstimate ----------------------------
(***************************************************************************)
(* safeguards.py: what a run is estimated to cost before it is started,    *)
(* and the settings and the balance the estimate is set against.  Rates    *)
(* are whole credits, a step's success ratio is a number of Den-ths.       *)
(***************************************************************************)
EXTENDS Integers, FiniteSets, FiniteSetsExt

CONSTANTS
    Steps,       \* names of paid extra steps
    Rates,       \* credits
    Den,         \* the denominator of success ratios
    None,        \* a value that is missing
    MostRows     \* of a run that is looked at

ASSUME CostAssumption ==
    /\ IsFiniteSet(Steps) /\ Rates \subseteq Nat /\ None \notin Int
    /\ Den \in Nat \ {0} /\ MostRows \in Nat

\* {"legacy": n, "current": m}; a plain number has no legacy rate.
Price == [current : Rates \cup {None}, legacy : Rates \cup {None}]

Switch == {"on", "off", "unset"}

\* A crawler's prices; `default` and `ratio` are those of its steps.
Crawler == [perTask : Rates \cup {None}, perRow : Price, steps : SUBSET Steps,
            price : [Steps -> Price], default : [Steps -> BOOLEAN],
            ratio : [Steps -> 0..Den]]

\* Squid params, as far as they switch steps: flat or under "functions".
Settings == [flat : [Steps -> Switch], functions : [Steps -> Switch]]

-----------------------------------------------------------------------------

\* resolve_credit_rate
Rate(price) == IF price.current # None THEN price.current ELSE price.legacy

\* _effective_settings: the new settings on top of the saved ones, toggle by
\* toggle.
Effective(saved, new) ==
    [k \in {"flat", "functions"} |->
       [s \in Steps |-> IF new[k][s] # "unset" THEN new[k][s] ELSE saved[k][s]]]

\* paid_steps: the value given under "functions", else flat, else the default.
StepOn(crawler, set, s) ==
    IF set.functions[s] # "unset" THEN set.functions[s] = "on"
    ELSE IF set.flat[s] # "unset" THEN set.flat[s] = "on"
    ELSE crawler.default[s]

PaidSteps(crawler, set) ==
    {s \in crawler.steps : StepOn(crawler, set, s) /\ Rate(crawler.price[s]) # None}

\* _positive_int
Positive(cap) == cap # None /\ cap > 0

\* Mutant: the smaller of the two caps, whatever the number of tasks.
MaxRowsCollapsed(tasks, perTask, runCap) ==
    IF ~Positive(perTask) THEN runCap
    ELSE IF ~Positive(runCap) \/ perTask < runCap THEN perTask ELSE runCap

\* The rows a run can yield: the cap of the run, else of each task.
MaxRows(tasks, perTask, runCap) == IF Positive(runCap) THEN runCap ELSE perTask * tasks

\* What a run of so many rows costs, steps included.
CostOf(crawler, set, rows) ==
    rows * Rate(crawler.perRow)
      + MapThenSumSet(LAMBDA s : ((rows * crawler.ratio[s]) \div Den) * Rate(crawler.price[s]),
                      PaidSteps(crawler, set))

\* estimate_cost; None when the cost cannot be bounded.
EstimateCost(crawler, tasks, perTask, runCap, set) ==
    IF crawler.perTask # None THEN crawler.perTask * tasks
    ELSE IF Rate(crawler.perRow) = None \/ ~(Positive(perTask) \/ Positive(runCap)) THEN None
    ELSE CostOf(crawler, set, MaxRows(tasks, perTask, runCap))

\* check_credits' remaining: nothing is guessed.
Remaining(available, consumed) ==
    IF available = None \/ consumed = None THEN None ELSE available - consumed

\* _remaining_credits of run_scraper: a missing consumed counts as zero.
RemainingCredits(available, consumed) ==
    IF available = None \/ consumed = None THEN available ELSE available - consumed

\* _credit_warning
Warned(estimate, remaining) == estimate # None /\ remaining # None /\ remaining < estimate

-----------------------------------------------------------------------------

\* The steps that run, read off what is saved and what is sent: a toggle that is
\* sent counts, then one that is saved, then the default.
Runs(crawler, saved, new, s) ==
    LET said == {<<new.functions[s], 1>>, <<saved.functions[s], 2>>,
                 <<new.flat[s], 3>>, <<saved.flat[s], 4>>}
        set  == {x \in said : x[1] # "unset"}
    IN IF set = {} THEN crawler.default[s]
       ELSE \E x \in set : x[1] = "on" /\ \A y \in set : x[2] <= y[2]

\* The steps a run is billed for.
BilledFor(crawler, saved, new) ==
    {s \in crawler.steps : Runs(crawler, saved, new, s) /\ Rate(crawler.price[s]) # None}

\* What a run is billed: its tasks or its rows, and every step that runs on each row
\* where it succeeded, of which `hits` has the number.
Billed(crawler, saved, new, tasks, rows, hits) ==
    (IF crawler.perTask # None THEN crawler.perTask * tasks ELSE rows * Rate(crawler.perRow))
      + MapThenSumSet(LAMBDA s : hits[s] * Rate(crawler.price[s]),
                      BilledFor(crawler, saved, new))

\* The numbers of rows that the caps allow a run.
Allowed(tasks, perTask, runCap) ==
    {r \in 0..MostRows : /\ Positive(runCap) => r <= runCap
                         /\ Positive(perTask) => r <= perTask * tasks}

\* How often each step may succeed on so many rows; and how often, when none does
\* better than its ratio.
Hits(crawler, rows)     == [crawler.steps -> 0..rows]
Expected(crawler, rows) ==
    {hits \in Hits(crawler, rows) :
       \A s \in crawler.steps : hits[s] * Den <= rows * crawler.ratio[s]}

\* There is an estimate unless the rows are unbounded or have no price.  A run of any
\* number of rows its caps allow, whose steps succeed no more often than their
\* ratios say, is billed no more, on a crawler that is priced by the task if no
\* step is billed on top.
EstimateIsBound(crawler, tasks, perTask, runCap, saved, new) ==
    LET estimate == EstimateCost(crawler, tasks, perTask, runCap, Effective(saved, new))
    IN /\ estimate # None <=> \/ crawler.perTask # None
                              \/ /\ Rate(crawler.perRow) # None
                                 /\ Positive(perTask) \/ Positive(runCap)
       /\ estimate # None /\ (crawler.perTask # None => BilledFor(crawler, saved, new) = {}) =>
            \A r \in Allowed(tasks, perTask, runCap) : \A hits \in Expected(crawler, r) :
              Billed(crawler, saved, new, tasks, r, hits) <= estimate

\* Of one balance, run_scraper warns exactly when what check_credits calls
\* remaining is short of the estimate.
WarnedWhenShort(estimate, available, consumed) ==
    Remaining(available, consumed) # None /\ estimate # None =>
      (Warned(estimate, RemainingCredits(available, consumed))
         <=> estimate > Remaining(available, consumed))
=============================================================================
