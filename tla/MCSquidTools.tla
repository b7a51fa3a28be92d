---------------------------- MODULE MCSquidTools ----------------------------
(***************************************************************************)
(* Small instances of SquidTools: the calls that are made.                 *)
(***************************************************************************)
EXTENDS SquidTools, TLC

CONSTANTS sq, k1, k2, alias2, on, off, t1, t2, x1, a1, a2

MCWireName == alias2 :> k2
MCDefaults == (k1 :> on) @@ (k2 :> Unset)

Plain(tool) == [NoRequest EXCEPT !.tool = tool, !.squid = sq]

MCRequests ==
    {[NoRequest EXCEPT !.name = t1],
     [NoRequest EXCEPT !.cfg[alias2] = on],
     [NoRequest EXCEPT !.conc = TRUE],
     [Plain("update") EXCEPT !.cfg[k1] = off],
     [Plain("update") EXCEPT !.cfg[alias2] = off, !.conc = TRUE],
     [Plain("update") EXCEPT !.name = t2],
     Plain("update"),
     [Plain("add") EXCEPT !.rows = {x1}],
     [Plain("attach") EXCEPT !.account = a1],
     Plain("attach"),
     Plain("empty"),
     Plain("deactivate")}

\* A squid with one setting, one row and perhaps one account.
MCAtFirst ==
    {[Absent EXCEPT !.exists = TRUE, !.name = t1, !.params[k1] = on,
                    !.rows = {x1}, !.accounts = l] : l \in {{}, {a2}}}

Symmetric == Permutations(Calls)
=============================================================================
