------------------------------- MODULE RunWatch -------------------------------
(***************************************************************************)
(* The tools that watch one run while the API advances it: get_run,        *)
(* wait_for_run and abort_run, any number of calls at once.                *)
(*                                                                         *)
(* A step is the end of one API request with the local computation that    *)
(* follows.  Time is discrete: a request takes at most Slow ticks, local   *)
(* computation none.  What a call measures (to its deadline, to its        *)
(* wake-up, into its request, since its last look) is a counter of its     *)
(* own, so that no clock has to be bounded.                                *)
(***************************************************************************)
EXTENDS Integers, ErrorContract

CONSTANTS
    Calls,
    Requests,                 \* the arguments each call may be made with
    WaitMin, WaitMax, Poll,   \* the clamp on timeout_seconds, the poll interval
    Slow,                     \* the longest a request takes
    MaxFaults                 \* bound: requests that fail

Request == [tool : {"get_run", "wait_for_run", "abort_run"}, full : BOOLEAN, timeout : Int]

ASSUME TimeAssumption ==
    /\ WaitMin \in Nat \ {0} /\ WaitMax \in Nat \ {0} /\ WaitMin <= WaitMax
    /\ Poll \in Nat \ {0} /\ Slow \in Nat

ASSUME RequestAssumption == Requests \in [Calls -> SUBSET Request] /\ MaxFaults \in Nat

VARIABLES
    run,      \* what the API holds of the run
    call,     \* the local state of each call
    faults

vars == <<run, call, faults>>

Terminal   == {"done", "failed", "aborted"}
Unfinished == {"pending", "running", "uploading"}

\* `reason` is done_reason; `stopping`, that the API has yet to act on an abort.
\* A run may have no verification step and no export.
Run == [status : Terminal \cup Unfinished \cup {"paused"},
        reason : {"none", "limit", "aborted"}, stopping : BOOLEAN,
        verification : {"none", "due", "over"}, export : {"none", "due", "over"}]

\* The requests of one look of wait_for_run: stats, detail, the squid.
GetRunMax == 3 * Slow

Answer == [kind : {"none", "run", "abort", "error"}, done : BOOLEAN, timedOut : BOOLEAN,
           aborted : BOOLEAN, error : Envelope]

NoAnswer == [kind |-> "none", done |-> FALSE, timedOut |-> FALSE, aborted |-> FALSE,
             error |-> [state |-> "none", retrySafe |-> FALSE]]

\* `stats` is the is_done of the stats, `out` that of get_run.  History: `over`,
\* whether the run was over when its stats were read; `detailed`, whether its
\* detail was read; `age`, the time since they were read; `ended`, whether
\* an abort came upon a run that had ended for another reason.
CallState ==
    [pc : {"idle", "stats", "detail", "limits", "credits", "sleep", "abort", "done"},
     req : Request, left : Int, used : 0..Slow, sleep : 0..Poll,
     stats : BOOLEAN, out : BOOLEAN, resp : Answer,
     over : BOOLEAN, detailed : BOOLEAN, age : 0..WaitMax + GetRunMax, ended : BOOLEAN]

-----------------------------------------------------------------------------
(* The run, as the API has it.                                             *)

\* is_done of the stats: the scraping has ended, the upload perhaps not.
StatsDone(r) == r.status \in Terminal \cup {"uploading"}

Over(r) == r.status \in Terminal /\ r.verification # "due" /\ r.export # "due"

Moves ==
    {<<"pending", "running">>, <<"running", "uploading">>, <<"uploading", "done">>,
     <<"pending", "failed">>, <<"running", "failed">>}

\* The API's own steps: the run moves on, hits an account's limit and relaunches
\* by itself, stops, and has its verification and its export finished.
RunStep ==
    /\ \/ \E m \in Moves :
            /\ run.status = m[1] /\ ~run.stopping
            /\ run.reason = "aborted" => m # <<"uploading", "done">>
            /\ run' = [run EXCEPT !.status = m[2]]
       \/ /\ run.status = "running" /\ ~run.stopping
          /\ run' = [run EXCEPT !.status = "paused", !.reason = "limit"]
       \/ /\ run.status = "paused" /\ ~run.stopping
          /\ run' = [run EXCEPT !.status = "running", !.reason = "none"]
       \/ /\ run.stopping
          /\ run' = [run EXCEPT !.status = "uploading", !.reason = "aborted",
                                !.stopping = FALSE]
       \/ /\ run.status = "uploading" /\ run.reason = "aborted"
          /\ run' = [run EXCEPT !.status = "aborted"]
       \/ /\ StatsDone(run) /\ run.verification = "due"
          /\ run' = [run EXCEPT !.verification = "over"]
       \/ /\ run.status \in Terminal /\ run.export = "due"
          /\ run' = [run EXCEPT !.export = "over"]
    /\ UNCHANGED <<call, faults>>

\* POST /runs/{id}/abort, on the run it comes upon.
AbortsTo(r) ==
    IF StatsDone(r) THEN {r}
    ELSE {[r EXCEPT !.stopping = TRUE],
          [r EXCEPT !.status = "uploading", !.reason = "aborted", !.stopping = FALSE],
          [r EXCEPT !.status = "aborted", !.reason = "aborted", !.stopping = FALSE]}

-----------------------------------------------------------------------------

NewRun == [status |-> "pending", reason |-> "none", stopping |-> FALSE,
           verification |-> "none", export |-> "none"]

IdleCall ==
    [pc |-> "idle", req |-> [tool |-> "get_run", full |-> FALSE, timeout |-> 0],
     left |-> 0, used |-> 0, sleep |-> 0, stats |-> FALSE, out |-> FALSE,
     resp |-> NoAnswer, over |-> FALSE, detailed |-> FALSE, age |-> 0, ended |-> FALSE]

Init ==
    /\ run \in {[NewRun EXCEPT !.verification = v, !.export = x] :
                  v \in {"none", "due"}, x \in {"none", "due"}}
    /\ call = [c \in Calls |-> IdleCall]
    /\ faults = 0

Become(c, me) == call' = [call EXCEPT ![c] = me]
Spend(o) == /\ faults' = faults + (IF o = "ok" THEN 0 ELSE 1)
            /\ faults' <= MaxFaults

Ask(me, pc)        == [me EXCEPT !.pc = pc, !.used = 0]
Look(me)           == [Ask(me, "stats") EXCEPT !.over = FALSE, !.detailed = FALSE]
Finish(me, answer) ==
    [me EXCEPT !.pc = "done", !.resp = answer, !.used = 0, !.stats = FALSE, !.out = FALSE,
               !.left = IF answer.timedOut THEN @ ELSE 0,
               !.age = IF answer.timedOut THEN @ ELSE 0]
Errs(me, o) ==
    Finish(me, [NoAnswer EXCEPT !.kind = "error",
                                !.error = ErrorOf(o, me.req.tool = "abort_run")])

Clamp(t) == IF t < WaitMin THEN WaitMin ELSE IF t > WaitMax THEN WaitMax ELSE t

\* Mutant: a run without an export is waited for.
FullyDoneOnExport(stats, detailed, r) ==
    stats /\ (detailed => /\ r.status \notin Unfinished
                          /\ r.verification # "due" /\ r.export = "over")

\* Mutant: as it was before the email verification was looked at.
FullyDoneScraping(stats, detailed, r) ==
    stats /\ (detailed => r.status \notin Unfinished /\ r.export # "due")

\* _fully_done; without the detail, the stats alone answer.
FullyDone(stats, detailed, r) ==
    stats /\ (detailed => /\ r.status \notin Unfinished
                          /\ r.verification # "due" /\ r.export # "due")

\* Mutant: the deadline is worked out anew in each round.
WaitsForTheEnd(me) ==
    IF me.out THEN Finish(me, [NoAnswer EXCEPT !.kind = "run", !.done = TRUE])
    ELSE [me EXCEPT !.pc = "sleep", !.sleep = Poll, !.left = Clamp(me.req.timeout)]

\* Mutant: the last sleep is not cut to the deadline.
SleepsInFull(me) ==
    IF me.out THEN Finish(me, [NoAnswer EXCEPT !.kind = "run", !.done = TRUE])
    ELSE IF me.left <= 0 THEN Finish(me, [NoAnswer EXCEPT !.kind = "run", !.timedOut = TRUE])
    ELSE [me EXCEPT !.pc = "sleep", !.sleep = Poll]

\* The loop of wait_for_run, after a look.
Waited(me) ==
    IF me.out THEN Finish(me, [NoAnswer EXCEPT !.kind = "run", !.done = TRUE])
    ELSE IF me.left <= 0 THEN Finish(me, [NoAnswer EXCEPT !.kind = "run", !.timedOut = TRUE])
    ELSE [me EXCEPT !.pc = "sleep", !.sleep = IF me.left < Poll THEN me.left ELSE Poll]

\* What follows get_run's own requests.
Reported(me) ==
    IF me.req.tool = "wait_for_run" THEN Waited(me)
    ELSE IF me.req.full THEN Ask(me, "credits")
    ELSE Finish(me, [NoAnswer EXCEPT !.kind = "run", !.done = me.out])

-----------------------------------------------------------------------------

Invoke(c) ==
    /\ call[c].pc = "idle"
    /\ \E r \in Requests[c] :
         LET me == [IdleCall EXCEPT !.req = r]
         IN Become(c, CASE r.tool = "abort_run"    -> Ask(me, "abort")
                        [] r.tool = "get_run"      -> Look(me)
                        [] r.tool = "wait_for_run" ->
                             [Look(me) EXCEPT !.left = Clamp(r.timeout)])
    /\ UNCHANGED <<run, faults>>

GetRunStats(c) == LET me == call[c] IN
    /\ me.pc = "stats"
    /\ \E o \in ReadEnds :
         /\ Spend(o)
         /\ Become(c, IF o # "ok" THEN Errs(me, o)
                      ELSE [Ask(me, "detail") EXCEPT !.stats = StatsDone(run),
                                                     !.over = Over(run),
                                                     !.age = 0])
    /\ UNCHANGED run

\* get_run: a detail that is refused is done without, one that goes unanswered
\* fails the call; a run stopped by an account's limit has its squid read too.
GetRun(c) == LET me == call[c] IN
    /\ me.pc = "detail"
    /\ \E o \in ReadEnds :
         LET seen == [me EXCEPT !.detailed = o = "ok",
                                !.out = FullyDone(me.stats, o = "ok", run)]
         IN /\ Spend(o)
            /\ Become(c, IF Transport(o) THEN Errs(me, o)
                         ELSE IF o = "ok" /\ run.reason = "limit" THEN Ask(seen, "limits")
                         ELSE Reported(seen))
    /\ UNCHANGED run

\* _account_limit_out; every failure is done without.
AccountLimitOut(c) == LET me == call[c] IN
    /\ me.pc = "limits"
    /\ \E o \in ReadEnds : Spend(o)
    /\ Become(c, Reported(me))
    /\ UNCHANGED run

GetRunCredits(c) == LET me == call[c] IN
    /\ me.pc = "credits"
    /\ \E o \in ReadEnds :
         /\ Spend(o)
         /\ Become(c, IF Transport(o) THEN Errs(me, o)
                      ELSE Finish(me, [NoAnswer EXCEPT !.kind = "run", !.done = me.out]))
    /\ UNCHANGED run

\* Mutant: a wait that wakes at its deadline gives up without another look.
GivesUpAsleep(me) ==
    IF me.left <= 0 THEN Finish(me, [NoAnswer EXCEPT !.kind = "run", !.timedOut = TRUE])
    ELSE Look(me)

Woken(me) == Look(me)

Wake(c) == LET me == call[c] IN
    /\ me.pc = "sleep" /\ me.sleep = 0
    /\ Become(c, Woken(me))
    /\ UNCHANGED <<run, faults>>

\* Mutant: whatever the API answers, the run was aborted.
AlwaysAborted(r) == TRUE

\* What abort_run makes of the run the API answers with; its is_done, like that of
\* the stats, is of the scraping.
AbortTook(r) ==
    \/ r.reason = "aborted" \/ r.status = "uploading"
    \/ ~StatsDone(r) /\ r.status \notin Terminal

AbortRun(c) == LET me == call[c] IN
    /\ me.pc = "abort"
    /\ \E o \in WriteEnds :
         /\ Spend(o)
         /\ run' \in IF Applied(o) THEN AbortsTo(run) ELSE {run}
         /\ LET met == [me EXCEPT !.ended = run.status \in Terminal /\ run.reason # "aborted"]
            IN Become(c, IF o # "ok" THEN Errs(met, o)
                         ELSE Finish(met, [NoAnswer EXCEPT !.kind = "abort",
                                                           !.aborted = AbortTook(run')]))

Busy(me) == me.pc \notin {"idle", "done"}

\* Nobody oversleeps, and no request outlasts its timeout.
Tick ==
    /\ \A c \in Calls : LET me == call[c] IN
         Busy(me) => IF me.pc = "sleep" THEN me.sleep > 0 ELSE me.used < Slow
    /\ \E c \in Calls : Busy(call[c])
    /\ call' = [c \in Calls |-> LET me == call[c]
                                    d  == IF me.req.tool = "wait_for_run" THEN 1 ELSE 0 IN
                  IF ~Busy(me) THEN me
                  ELSE IF me.pc = "sleep"
                  THEN [me EXCEPT !.left = @ - d, !.age = @ + d, !.sleep = @ - 1]
                  ELSE [me EXCEPT !.left = @ - d, !.age = @ + d, !.used = @ + 1]]
    /\ UNCHANGED <<run, faults>>

\* What ends without anything new from outside: an answered or failed request, a
\* sleep that is over.
CallStep(c) ==
    \/ GetRunStats(c) \/ GetRun(c) \/ AccountLimitOut(c) \/ GetRunCredits(c)
    \/ Wake(c) \/ AbortRun(c)

Quiet == /\ \A c \in Calls : ~Busy(call[c])
         /\ UNCHANGED vars

Next ==
    \/ \E c \in Calls : Invoke(c) \/ CallStep(c)
    \/ RunStep \/ Tick \/ Quiet

\* Time passes and requests end, at the latest when their timeout strikes; of
\* the run nothing is assumed, it may stay where it is for ever.
Fairness == WF_vars(Tick) /\ \A c \in Calls : WF_vars(CallStep(c))

Spec == Init /\ [][Next]_vars /\ Fairness

-----------------------------------------------------------------------------

\* Every variable has its type.
TypeOK ==
    /\ run \in Run
    /\ call \in [Calls -> CallState]
    /\ faults \in 0..MaxFaults

\* A wait that reports the run still going has used its time, looked last no more
\* than two requests ago, and is right: the run was not over then.
TimedOutIsTrue ==
    \A c \in Calls :
      call[c].resp.timedOut =>
        call[c].left <= 0 /\ call[c].age <= 2 * Slow /\ ~call[c].over

\* wait_for_run overruns its deadline, which is capped, by one look at most.
WaitIsBounded ==
    \A c \in Calls :
      call[c].req.tool = "wait_for_run" => call[c].left \in -GetRunMax..WaitMax

\* is_done, unless it rests on the stats alone, is said only of a run that has
\* ended with its verification and its export.
DoneIsDone ==
    \A c \in Calls : call[c].resp.done /\ call[c].detailed => Over(run)

\* A get_run that could look at a run that was over says so.
OverIsReported ==
    \A c \in Calls :
      call[c].resp.kind = "run" /\ call[c].over => call[c].resp.done

\* abort_run denies having aborted exactly when the request came upon a run that
\* had ended for another reason.
AbortIsTold ==
    \A c \in Calls :
      call[c].resp.kind = "abort" =>
        (call[c].resp.aborted <=> ~call[c].ended)

\* Every call is answered, whatever becomes of the run and of its requests.
EveryCallAnswered ==
    \A c \in Calls : call[c].pc # "idle" ~> call[c].pc = "done"

-----------------------------------------------------------------------------
(* What the repository says of a tool and a run shows not to hold.         *)

\* "`is_done` is true only once the run, any email verification, and its export
\* are all done" (tools/execution.py:151).
DoneMeansOver == \A c \in Calls : call[c].resp.done => Over(run)
=============================================================================
