---------------------------- MODULE ErrorContract ----------------------------
(***************************************************************************)
(* How a request to the Lobstr API can end, and what a tool says of it:    *)
(* the error envelope of errors.py.  A request that fails is answered with *)
(* a status (rejected), never leaves the process (not_sent), or goes       *)
(* unanswered, either without effect (lost) or applied (late).             *)
(***************************************************************************)

WriteEnds == {"ok", "rejected", "not_sent", "lost", "late"}
ReadEnds  == WriteEnds \ {"late"}

Applied(o)   == o \in {"ok", "late"}
Transport(o) == o \in {"not_sent", "lost", "late"}

Envelope == [state : {"none", "not_sent", "unknown"}, retrySafe : BOOLEAN]

\* _NEVER_SENT: refused connections and exhausted pools, but no timeout and no
\* connection that is dropped while the answer is awaited.
NeverSent(o) == o = "not_sent"

\* to_error_dict makes no claim about retrying; transport_error_dict does, from
\* the kind of failure and from whether the tool writes (verify_with).
ErrorOf(o, writes) ==
    IF ~Transport(o) THEN [state |-> "none", retrySafe |-> FALSE]
    ELSE [state     |-> IF NeverSent(o) THEN "not_sent" ELSE "unknown",
          retrySafe |-> NeverSent(o) \/ ~writes]
=============================================================================
