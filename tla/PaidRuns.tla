------------------------------ MODULE PaidRuns ------------------------------
(***************************************************************************)
(* What run_scraper promises about money, without the squids, the requests *)
(* and the store that it takes: a call buys at most one run; its answer    *)
(* names the run it bought, or a run of the same key, or says that it does *)
(* not know; and while a run is owed to a key no call that asks with this  *)
(* key buys another.                                                       *)
(***************************************************************************)
EXTENDS Integers, Sequences

CONSTANTS
    Calls, Keys,
    Fallible       \* promises are kept by a service that may fail

VARIABLES
    stage,     \* how far each call is
    want,      \* the key each call asks with
    sold,      \* the runs that are paid for, in order: by whom, for which key
    named,     \* the run each call's answer names, 0 for none
    unsure,    \* the calls answered with "the fate of the request is unknown"
    owed       \* the runs that a repeat must be answered with, under their keys

vars == <<stage, want, sold, named, unsure, owed>>

Owed(k) == {d \in owed : d.key = k}

Init ==
    /\ stage = [c \in Calls |-> "idle"]
    /\ want \in [Calls -> Keys]
    /\ sold = << >>
    /\ named = [c \in Calls |-> 0]
    /\ unsure = {}
    /\ owed = {}

Answer(c, i, doubt) ==
    /\ stage' = [stage EXCEPT ![c] = "answered"]
    /\ named' = [named EXCEPT ![c] = i]
    /\ unsure' = IF doubt THEN unsure \cup {c} ELSE unsure \ {c}

Ask(c) ==
    /\ stage[c] = "idle"
    /\ stage' = [stage EXCEPT ![c] = "asking"]
    /\ \E k \in Keys : want' = [want EXCEPT ![c] = k]
    /\ UNCHANGED <<sold, named, unsure, owed>>

\* A repeat is answered with a run that was bought for its key.
Repeat(c) ==
    /\ stage[c] = "asking"
    /\ \E i \in 1..Len(sold) : sold[i].key = want[c] /\ Answer(c, i, FALSE)
    /\ UNCHANGED <<want, sold, owed>>

\* Nothing is owed to the key: the call may buy.
Consult(c) ==
    /\ stage[c] = "asking"
    /\ Owed(want[c]) = {}
    /\ stage' = [stage EXCEPT ![c] = "buying"]
    /\ UNCHANGED <<want, sold, named, unsure, owed>>

\* The call ends without a run, whatever it says about its last request.
GiveUp(c) ==
    /\ stage[c] \in {"asking", "buying"}
    /\ \E doubt \in BOOLEAN : Answer(c, 0, doubt)
    /\ UNCHANGED <<want, sold, owed>>

\* The run is paid for; when its answer is lost the call says so.
Sell(c) ==
    /\ stage[c] = "buying"
    /\ sold' = Append(sold, [by |-> c, key |-> want[c]])
    /\ \/ stage' = [stage EXCEPT ![c] = "bought"] /\ UNCHANGED <<named, unsure>>
       \/ Answer(c, 0, TRUE)
    /\ UNCHANGED <<want, owed>>

\* The caller is told of its run, which from now on is owed to the key.
Tell(c) ==
    /\ stage[c] = "bought"
    /\ \E i \in 1..Len(sold) :
         /\ sold[i] = [by |-> c, key |-> want[c]]
         /\ Answer(c, i, FALSE)
         /\ owed' = owed \cup {[key |-> want[c], run |-> i]}
    /\ UNCHANGED <<want, sold>>

\* The keeper of the promises fails under a call, which ends in an error that says
\* nothing; a run it had bought is owed to the key, or forgotten.
Break(c) ==
    /\ Fallible
    /\ stage[c] \in {"asking", "bought"}
    /\ stage' = [stage EXCEPT ![c] = "broken"]
    /\ \/ owed' = owed
       \/ \E i \in 1..Len(sold) :
            /\ stage[c] = "bought"
            /\ sold[i] = [by |-> c, key |-> want[c]]
            /\ owed' = owed \cup {[key |-> want[c], run |-> i]}
    /\ UNCHANGED <<want, sold, named, unsure>>

\* Time passes, and promises end.
Lapse ==
    /\ owed' \in SUBSET owed
    /\ UNCHANGED <<stage, want, sold, named, unsure>>

\* A process dies with its calls, and perhaps with the promises it kept.
Crash ==
    /\ \E gone \in SUBSET {c \in Calls : stage[c] # "idle"} :
         stage' = [c \in Calls |-> IF c \in gone THEN "dead" ELSE stage[c]]
    /\ owed' \in SUBSET owed
    /\ UNCHANGED <<want, sold, named, unsure>>

Next ==
    \/ \E c \in Calls : \/ Ask(c) \/ Repeat(c) \/ Consult(c) \/ GiveUp(c)
                        \/ Sell(c) \/ Tell(c) \/ Break(c)
    \/ Lapse \/ Crash

Spec == Init /\ [][Next]_vars
=============================================================================
