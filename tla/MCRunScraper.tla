---------------------------- MODULE MCRunScraper ----------------------------
(***************************************************************************)
(* Small instances of RunScraper: the sets of arguments the calls of a run *)
(* are made with.                                                          *)
(***************************************************************************)
EXTENDS RunScraperPaid, TLC

CONSTANTS sq, r1, r2, k1, k2, a1, a2, key1

Symmetry == Permutations(Calls)

Plain == [NoRequest EXCEPT !.squid = sq]

\* One squid's rows: rerun as saved, add a row, change settings, replace.
MCRowRequests ==
    {Plain,
     [Plain EXCEPT !.row = r1],
     [Plain EXCEPT !.row = r1, !.replace = TRUE],
     [Plain EXCEPT !.cfg = k2, !.replace = TRUE, !.confirm = TRUE],
     [Plain EXCEPT !.cfg = k2]}

\* The same, each also with an account to attach.
MCAloneRequests == MCRowRequests \cup {[x EXCEPT !.account = a2] : x \in MCRowRequests}

\* The same, with an account to attach and with a squid made for the call.
MCBothRequests ==
    {Plain,
     [Plain EXCEPT !.cfg = k2],
     [Plain EXCEPT !.row = r1, !.replace = TRUE],
     [Plain EXCEPT !.account = a2, !.cfg = k2],
     [NoRequest EXCEPT !.account = a2]}

\* One squid run with and without a key.
MCKeyRequests == {Plain, [Plain EXCEPT !.key = key1]}

MCFreeRows == [k \in Cfgs |-> IF k = k1 THEN 1 ELSE 2]

=============================================================================
