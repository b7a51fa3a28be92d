----------------------------- MODULE Algorithms -----------------------------
(***************************************************************************)
(* The pure algorithms and what each promises, of any inputs: a behaviour  *)
(* picks one input of one of them and is done.                             *)
(***************************************************************************)
EXTENDS InputSchema, CostEstimate, AccountChoice, Listings

CONSTANTS
    Scraper,     \* the word that a short name leaves out
    \* The inputs of each.
    Schemas, Estimates, Balances, AccountLists, Searches, Slugs, Walks, Reads

VARIABLE input

Caps == Nat \cup {None}

ASSUME InputAssumption ==
    /\ Schemas \subseteq [items : Seq(Item), params : Params]
    /\ Estimates \subseteq [crawler : Crawler, tasks : Nat, perTask : Caps, runCap : Caps,
                            saved : Settings, new : Settings]
    /\ Balances \subseteq [estimate : Caps, available : Caps, consumed : Caps]
    /\ AccountLists \subseteq Seq(Account)
    /\ Searches \subseteq [catalog : Seq(Entry), query : SUBSET Words]
    /\ Slugs \subseteq [catalog : Seq(Entry), name : Seq(Words)] /\ Scraper \in Words
    /\ Walks \subseteq [squids : Seq(Nat), from : {"crawler", "envelope", "bare"}, size : Int]
    /\ \A x \in Walks : \A i, j \in DOMAIN x.squids : i < j => x.squids[i] < x.squids[j]
    /\ Reads \subseteq [all : Seq(Nat), asked : Int, full : BOOLEAN]

Given(kind, inputs) == \E x \in inputs : input' = [kind |-> kind, of |-> x]

Init == input = [kind |-> "none"]
Next ==
    /\ input.kind = "none"
    /\ \/ Given("schema", Schemas)
       \/ Given("cost", Estimates)
       \/ Given("balance", Balances)
       \/ Given("accounts", AccountLists)
       \/ Given("search", Searches)
       \/ Given("slug", Slugs)
       \/ Given("walk", Walks)
       \/ Given("read", Reads)

Spec == Init /\ [][Next]_input

-----------------------------------------------------------------------------
(* What each of the modules promises of its input.                         *)

\* No two published properties go out under one name at one level.
SchemaKeepsApart == input.kind = "schema" => EachHasItsPlace(input.of.items, input.of.params)

\* A required task input keeps its name and goes into the task row, and an input
\* that passes validate_input, with the defaults, is all the API asks for.
SchemaAsksEnough ==
    input.kind = "schema" =>
      /\ RequiredTaskKept(input.of.items, input.of.params)
      /\ ValidIsEnough(input.of.items, input.of.params)

\* A setting that a spec of /params or an entry of input[] describes and that shares
\* its name with nothing can be set, one that neither describes is sent by no
\* property, and an input declared at both levels can be set at both.
SchemaReachesAll ==
    input.kind = "schema" =>
      /\ SettingsReachable(input.of.items, input.of.params)
      /\ BothReachable(input.of.items, input.of.params)

\* estimate_cost is an upper bound of what a run within the caps is billed, with the
\* steps that the saved and the sent settings switch on, as long as they succeed no
\* more often than their ratios say; and run_scraper's warning agrees with what
\* check_credits reports as remaining.
CostIsTold ==
    LET x == input.of IN
    /\ input.kind = "cost" =>
         EstimateIsBound(x.crawler, x.tasks, x.perTask, x.runCap, x.saved, x.new)
    /\ input.kind = "balance" =>
         WarnedWhenShort(x.estimate, x.available, x.consumed)

\* An account is picked when, and only when, it is the only one that will do.
AccountIsForced ==
    input.kind = "accounts" => \A t \in Types : PickIsForced(input.of, t)

\* search_scrapers leads somewhere from any word a crawler is described by, and a
\* name stands for the crawler it spells, or for the only one it can mean.
CrawlersAreFound ==
    /\ input.kind = "search" => KnownWordsLead(input.of.catalog, input.of.query)
    /\ input.kind = "slug" => NameIsNotGuessed(input.of.catalog, input.of.name, Scraper)

\* Read page after page, list_my_scrapers shows every squid it has walked once and
\* get_results every row once.
PagesLoseNothing ==
    LET x == input.of IN
    /\ input.kind = "walk" => WalkSeesEverySquid(x.squids, x.from, x.size)
    /\ input.kind = "read" => PagesShowEveryRow(x.all, x.asked, x.full)

=============================================================================
