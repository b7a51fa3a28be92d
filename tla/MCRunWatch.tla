----------------------------- MODULE MCRunWatch -----------------------------
(***************************************************************************)
(* A small instance of RunWatch: one call waits for the run, the other     *)
(* looks at it or aborts it.                                               *)
(***************************************************************************)
EXTENDS RunWatch, TLC

CONSTANTS c1, c2

WaitFor(t) == [tool |-> "wait_for_run", full |-> FALSE, timeout |-> t]
GetFull    == [tool |-> "get_run", full |-> TRUE, timeout |-> 0]
Abort      == [tool |-> "abort_run", full |-> FALSE, timeout |-> 0]

MCRequests == c1 :> {WaitFor(0), WaitFor(9)} @@ c2 :> {GetFull, Abort}
=============================================================================
