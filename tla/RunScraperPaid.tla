--------------------------- MODULE RunScraperPaid ---------------------------
(***************************************************************************)
(* RunScraper seen as PaidRuns: the steps on squids, the failures they may *)
(* have, the store and its clock are hidden.                               *)
(***************************************************************************)
EXTENDS RunScraper

\* Once a replacement is being undone the answer is decided.
StageOf(me) ==
    CASE me.pc = "idle"                -> "idle"
      [] me.pc \in {"squid", "key"}    -> "asking"
      [] me.pc = "record"              -> "bought"
      [] me.pc \in {"restore", "done"} ->
           IF me.resp.outcome = "raised" THEN "broken" ELSE "answered"
      [] me.pc = "dead"                -> "dead"
      [] OTHER                         -> "buying"

SoldAs(r) == [by |-> r.by, key |-> r.key]

Stage  == [c \in Calls |-> StageOf(call[c])]
Want   == [c \in Calls |-> KeyOf(call[c].req)]
Sold   == [i \in 1..Len(runs) |-> SoldAs(runs[i])]
Named  == [c \in Calls |-> call[c].resp.run]
Unsure == {c \in Calls : call[c].resp.state = "unknown"}

\* The promises that are in force, wherever the store keeps them.
Promises ==
    {[key |-> KeyOf(call[c].req), run |-> call[c].run] :
       c \in {d \in Calls : now < call[d].until}}

Paid == INSTANCE PaidRuns WITH
          Keys <- StoreKeys, Fallible <- SharedStore, stage <- Stage, want <- Want,
          sold <- Sold, named <- Named, unsure <- Unsure, owed <- Promises

\* run_scraper keeps the promises of PaidRuns (execution.py:486-720): for each of
\* its runs its purchase is licensed by the store, and its answer accounts for it,
\* unless it is the store that failed when the run was to be recorded.
KeepsPaidPromises == Paid!Spec
=============================================================================
