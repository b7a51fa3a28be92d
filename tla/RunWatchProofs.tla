--------------------------- MODULE RunWatchProofs ---------------------------
(***************************************************************************)
(* RunWatch for any number of calls, any clamp, any poll interval and any  *)
(* length of a request: a wait is bounded and its answer is true.          *)
(***************************************************************************)
EXTENDS RunWatch, TLAPS

-----------------------------------------------------------------------------
(* The inductive invariant, a call at a time.                              *)

\* What has ended does not resume: the API has no abort left to act on.
RunSound == run \in Run /\ (StatsDone(run) => ~run.stopping)

\* How much of its time a wait has used up to a request, and the age of its look.
Timed(me) ==
    /\ me.age + me.left <= WaitMax
    /\ me.req.tool # "wait_for_run" => me.left = 0 /\ me.age = 0
    /\ me.pc = "idle" => me.left = 0
    /\ me.pc = "stats" => 0 - me.used <= me.left
    /\ me.pc = "detail" => 0 - (Slow + me.used) <= me.left /\ me.age <= me.used
    /\ me.pc = "limits" => /\ 0 - (2 * Slow + me.used) <= me.left
                           /\ me.age <= Slow + me.used
    /\ me.pc = "sleep" => me.sleep <= me.left
    /\ me.pc = "done" => 0 - GetRunMax <= me.left
    /\ me.pc \in {"credits", "abort"} => me.req.tool # "wait_for_run"

\* What a look has seen, and still holds of the run.
Judged(me, r) ==
    /\ me.pc = "detail" => /\ me.over => Over(r) /\ me.stats
                           /\ me.stats => StatsDone(r)
    /\ me.pc \in {"limits", "credits"} => /\ me.over => me.out
                                          /\ me.out /\ me.detailed => Over(r)

\* What an answer says is true.
Told(me, r) ==
    /\ me.pc # "done" => me.resp = NoAnswer
    /\ me.resp.timedOut => me.left <= 0 /\ me.age <= 2 * Slow /\ ~me.over
    /\ me.resp.kind = "run" /\ me.over => me.resp.done
    /\ me.resp.done /\ me.detailed => Over(r)
    /\ me.resp.kind = "abort" => (me.resp.aborted <=> ~me.ended)

CallInv(me, r) == me \in CallState /\ Timed(me) /\ Judged(me, r) /\ Told(me, r)

IInv == /\ RunSound
        /\ call \in [Calls -> CallState]
        /\ \A c \in Calls : CallInv(call[c], run)
        /\ faults \in 0..MaxFaults

-----------------------------------------------------------------------------
(* Lemmas on the helpers.                                                  *)

LEMMA ClampBounds ==
    ASSUME NEW t \in Int
    PROVE  Clamp(t) \in Int /\ 0 < Clamp(t) /\ Clamp(t) <= WaitMax
  BY TimeAssumption DEF Clamp

LEMMA IdleType == IdleCall \in CallState /\ NoAnswer \in Answer
  BY TimeAssumption DEF IdleCall, CallState, NoAnswer, Answer, Request, Envelope, GetRunMax

LEMMA Zeros == 0 \in 0..Slow /\ 0 \in 0..(WaitMax + GetRunMax)
  BY TimeAssumption DEF GetRunMax

LEMMA FinishFields ==
    ASSUME NEW me \in CallState, NEW a \in Answer
    PROVE  /\ Finish(me, a) \in CallState
           /\ Finish(me, a).pc = "done" /\ Finish(me, a).resp = a
           /\ Finish(me, a).req = me.req
           /\ Finish(me, a).left = IF a.timedOut THEN me.left ELSE 0
           /\ Finish(me, a).age = IF a.timedOut THEN me.age ELSE 0
           /\ Finish(me, a).over = me.over /\ Finish(me, a).detailed = me.detailed
           /\ Finish(me, a).ended = me.ended
<1> DEFINE m == Finish(me, a)
<1>1. a.timedOut \in BOOLEAN
  BY DEF Answer
<1>2. /\ m.pc = "done" /\ m.resp = a /\ m.req = me.req
      /\ m.left = IF a.timedOut THEN me.left ELSE 0
      /\ m.age = IF a.timedOut THEN me.age ELSE 0
      /\ m.over = me.over /\ m.detailed = me.detailed /\ m.ended = me.ended
  BY DEF Finish, CallState
<1>3. m \in CallState
  <2> DEFINE l == IF a.timedOut THEN me.left ELSE 0
             g == IF a.timedOut THEN me.age ELSE 0
  <2>1. l \in Int /\ g \in 0..(WaitMax + GetRunMax)
    BY Zeros DEF CallState
  <2> HIDE DEF l, g
  <2>2. m = [me EXCEPT !.pc = "done", !.resp = a, !.used = 0, !.stats = FALSE,
                       !.out = FALSE, !.left = l, !.age = g]
    BY DEF Finish, l, g
  <2> HIDE DEF m
  <2>3. QED
    BY <2>1, <2>2, Zeros DEF CallState
<1>4. QED
  BY <1>2, <1>3

LEMMA AskFields ==
    ASSUME NEW me \in CallState,
           NEW p \in {"stats", "detail", "limits", "credits", "abort"}
    PROVE  /\ Ask(me, p) \in CallState
           /\ Ask(me, p).pc = p /\ Ask(me, p).used = 0
           /\ Ask(me, p).req = me.req /\ Ask(me, p).resp = me.resp
           /\ Ask(me, p).left = me.left /\ Ask(me, p).age = me.age
           /\ Ask(me, p).over = me.over /\ Ask(me, p).detailed = me.detailed
           /\ Ask(me, p).out = me.out /\ Ask(me, p).stats = me.stats
           /\ Ask(me, p).ended = me.ended
<1>1. Ask(me, p) \in CallState
  BY Zeros DEF Ask, CallState
<1>2. QED
  BY <1>1 DEF Ask, CallState

LEMMA LookFields ==
    ASSUME NEW me \in CallState
    PROVE  /\ Look(me) \in CallState
           /\ Look(me).pc = "stats" /\ Look(me).used = 0
           /\ Look(me).req = me.req /\ Look(me).resp = me.resp
           /\ Look(me).left = me.left /\ Look(me).age = me.age
<1> DEFINE m == Ask(me, "stats")
<1>1. /\ m \in CallState /\ m.pc = "stats" /\ m.used = 0 /\ m.req = me.req
      /\ m.resp = me.resp /\ m.left = me.left /\ m.age = me.age
  BY AskFields
<1> HIDE DEF m
<1>2. Look(me) = [m EXCEPT !.over = FALSE, !.detailed = FALSE]
  BY DEF Look, m
<1>3. QED
  BY <1>1, <1>2 DEF CallState

\* An answer that says neither of the end nor of an abort.
LEMMA FinishPlain ==
    ASSUME NEW me \in CallState, NEW r, Timed(me), NEW a \in Answer,
           ~a.timedOut,
           a.kind = "run" /\ me.over => a.done,
           a.done /\ me.detailed => Over(r),
           a.kind = "abort" => (a.aborted <=> ~me.ended)
    PROVE  CallInv(Finish(me, a), r)
<1> DEFINE m == Finish(me, a)
<1>1. /\ m \in CallState /\ m.pc = "done" /\ m.resp = a /\ m.req = me.req
      /\ m.left = 0 /\ m.age = 0 /\ m.over = me.over /\ m.detailed = me.detailed
      /\ m.ended = me.ended
  BY FinishFields
<1> HIDE DEF m
<1>2. Timed(m)
  BY <1>1, TimeAssumption DEF Timed, GetRunMax
<1>3. Judged(m, r) /\ Told(m, r)
  BY <1>1 DEF Judged, Told
<1>4. QED
  BY <1>1, <1>2, <1>3 DEF CallInv, m

LEMMA ErrsInv ==
    ASSUME NEW me \in CallState, NEW r, Timed(me), NEW o \in WriteEnds
    PROVE  CallInv(Errs(me, o), r)
<1> DEFINE a == [NoAnswer EXCEPT !.kind = "error",
                                 !.error = ErrorOf(o, me.req.tool = "abort_run")]
<1>1. ErrorOf(o, me.req.tool = "abort_run") \in Envelope
  BY DEF ErrorOf, Envelope, NeverSent, Transport
<1>2. a \in Answer /\ a.kind = "error" /\ ~a.timedOut /\ ~a.done
  BY <1>1, IdleType DEF NoAnswer, Answer
<1> HIDE DEF a
<1>3. CallInv(Finish(me, a), r)
  BY <1>2, FinishPlain
<1>4. QED
  BY <1>3 DEF Errs, a

\* What the loop of wait_for_run does after a look, and what get_run answers.
LEMMA ReportedInv ==
    ASSUME NEW me \in CallState, NEW r, Timed(me), me.resp = NoAnswer,
           0 - GetRunMax <= me.left, me.age <= 2 * Slow,
           me.over => me.out, me.out /\ me.detailed => Over(r)
    PROVE  CallInv(Reported(me), r)
<1> DEFINE over == [NoAnswer EXCEPT !.kind = "run", !.done = TRUE]
           late == [NoAnswer EXCEPT !.kind = "run", !.timedOut = TRUE]
           plain == [NoAnswer EXCEPT !.kind = "run", !.done = me.out]
           nap == [me EXCEPT !.pc = "sleep",
                             !.sleep = IF me.left < Poll THEN me.left ELSE Poll]
<1>1. /\ over \in Answer /\ over.kind = "run" /\ over.done /\ ~over.timedOut
      /\ late \in Answer /\ late.kind = "run" /\ ~late.done /\ late.timedOut
      /\ plain \in Answer /\ plain.kind = "run" /\ ~plain.timedOut /\ plain.done = me.out
  BY IdleType DEF NoAnswer, Answer, CallState
<1>2. ASSUME me.out PROVE CallInv(Finish(me, over), r)
  <2> HIDE DEF over
  <2>1. QED
    BY <1>1, <1>2, FinishPlain
<1>3. CallInv(Finish(me, plain), r)
  <2> HIDE DEF plain
  <2>1. QED
    BY <1>1, FinishPlain
<1>4. ASSUME ~me.out, me.left <= 0 PROVE CallInv(Finish(me, late), r)
  <2> DEFINE m == Finish(me, late)
  <2> HIDE DEF late
  <2>1. /\ m \in CallState /\ m.pc = "done" /\ m.resp = late /\ m.req = me.req
        /\ m.left = me.left /\ m.age = me.age /\ m.over = me.over
        /\ m.detailed = me.detailed /\ m.ended = me.ended
    BY <1>1, FinishFields
  <2> HIDE DEF m
  <2>2. Timed(m)
    BY <2>1 DEF Timed
  <2>3. Judged(m, r) /\ Told(m, r)
    BY <1>1, <1>4, <2>1 DEF Judged, Told
  <2>4. QED
    BY <2>1, <2>2, <2>3 DEF CallInv, m
<1>5. ASSUME ~(me.left <= 0) PROVE CallInv(nap, r)
  <2>1. me.left \in Int
    BY DEF CallState
  <2> DEFINE s == IF me.left < Poll THEN me.left ELSE Poll
  <2>2. s \in 0..Poll /\ s <= me.left
    BY <1>5, <2>1, TimeAssumption
  <2> HIDE DEF s
  <2>3. nap = [me EXCEPT !.pc = "sleep", !.sleep = s]
    BY DEF s
  <2>4. /\ nap \in CallState /\ nap.pc = "sleep" /\ nap.sleep <= nap.left
        /\ nap.left = me.left /\ nap.age = me.age /\ nap.req = me.req
        /\ nap.resp = me.resp
    BY <2>2, <2>3 DEF CallState
  <2> HIDE DEF nap
  <2>5. Timed(nap)
    BY <2>4 DEF Timed
  <2>6. Judged(nap, r) /\ Told(nap, r)
    BY <2>4 DEF Judged, Told, NoAnswer
  <2>7. QED
    BY <2>4, <2>5, <2>6 DEF CallInv
<1>6. CASE me.req.tool = "wait_for_run"
  <2>1. Reported(me) = Waited(me)
    BY <1>6 DEF Reported
  <2>2. Waited(me) = IF me.out THEN Finish(me, over)
                     ELSE IF me.left <= 0 THEN Finish(me, late) ELSE nap
    BY DEF Waited
  <2> HIDE DEF over, late, nap
  <2>3. QED
    BY <1>2, <1>4, <1>5, <2>1, <2>2
<1>7. CASE me.req.tool # "wait_for_run"
  <2>1. Reported(me) = IF me.req.full THEN Ask(me, "credits") ELSE Finish(me, plain)
    BY <1>7 DEF Reported
  <2>2. CallInv(Ask(me, "credits"), r)
    <3> DEFINE m == Ask(me, "credits")
    <3>1. /\ m \in CallState /\ m.pc = "credits" /\ m.req = me.req /\ m.resp = me.resp
          /\ m.left = me.left /\ m.age = me.age /\ m.over = me.over
          /\ m.detailed = me.detailed /\ m.out = me.out
      BY AskFields
    <3> HIDE DEF m
    <3>2. Timed(m)
      BY <1>7, <3>1 DEF Timed
    <3>3. Judged(m, r) /\ Told(m, r)
      BY <3>1 DEF Judged, Told, NoAnswer
    <3>4. QED
      BY <3>1, <3>2, <3>3 DEF CallInv, m
  <2>3. QED
    BY <1>3, <2>1, <2>2
<1>8. QED
  BY <1>6, <1>7

-----------------------------------------------------------------------------
(* What a step of the run, or of another call, leaves true.                *)

Persists == (Over(run) => Over(run')) /\ (StatsDone(run) => StatsDone(run'))

LEMMA CallPersists ==
    ASSUME Persists, NEW me, CallInv(me, run)
    PROVE  CallInv(me, run')
  BY DEF CallInv, Judged, Told, Persists

LEMMA OneCall ==
    ASSUME IInv, NEW c \in Calls, NEW m, Become(c, m), CallInv(m, run'),
           Persists, RunSound', faults' \in 0..MaxFaults
    PROVE  IInv'
<1>1. call'[c] = m /\ \A d \in Calls \ {c} : call'[d] = call[d]
  BY DEF IInv, Become
<1>2. \A d \in Calls : CallInv(call'[d], run')
  BY <1>1, CallPersists DEF IInv
<1>3. call' \in [Calls -> CallState]
  BY DEF IInv, Become, CallInv
<1>4. \A d \in Calls : CallInv(call[d], run)' = CallInv(call'[d], run')
  BY DEF CallInv, Timed, Judged, Told
<1>5. QED
  BY <1>2, <1>3, <1>4 DEF IInv

LEMMA SpendBounds ==
    ASSUME IInv, NEW o, Spend(o)
    PROVE  faults' \in 0..MaxFaults
  BY RequestAssumption DEF IInv, Spend

\* A step that only answers or asks.
LEMMA ReadStep ==
    ASSUME IInv, NEW c \in Calls, NEW o, NEW m,
           Become(c, m), CallInv(m, run), Spend(o), run' = run
    PROVE  IInv'
  BY OneCall, SpendBounds DEF Persists, IInv, RunSound

LEMMA CallFacts ==
    ASSUME IInv, NEW c \in Calls
    PROVE  /\ CallInv(call[c], run) /\ RunSound
           /\ call[c].left \in Int /\ call[c].age \in Nat
           /\ call[c].used \in Nat /\ call[c].used <= Slow
           /\ call[c].sleep \in Nat /\ call[c].sleep <= Poll
           /\ call[c].req.tool \in {"get_run", "wait_for_run", "abort_run"}
           /\ call[c].pc # "done" => call[c].resp = NoAnswer
<1>1. call[c] \in CallState /\ CallInv(call[c], run) /\ RunSound
  BY DEF IInv
<1>2. call[c].req \in Request
  BY <1>1 DEF CallState
<1>3. QED
  BY <1>1, <1>2, TimeAssumption DEF CallState, Request, CallInv, Told, GetRunMax

-----------------------------------------------------------------------------
(* One step per action.                                                    *)

LEMMA InvokeStep ==
    ASSUME IInv, NEW c \in Calls, Invoke(c)
    PROVE  IInv'
<1>1. PICK r \in Requests[c] :
        LET me == [IdleCall EXCEPT !.req = r]
        IN Become(c, CASE r.tool = "abort_run"    -> Ask(me, "abort")
                       [] r.tool = "get_run"      -> Look(me)
                       [] r.tool = "wait_for_run" ->
                            [Look(me) EXCEPT !.left = Clamp(r.timeout)])
  BY DEF Invoke
<1> DEFINE me == [IdleCall EXCEPT !.req = r]
<1>2. /\ r \in Request /\ r.timeout \in Int
      /\ r.tool \in {"get_run", "wait_for_run", "abort_run"}
  <2>1. r \in Request
    BY RequestAssumption
  <2>2. QED
    BY <2>1 DEF Request
<1>3. /\ me \in CallState /\ me.left = 0 /\ me.age = 0 /\ me.resp = NoAnswer
      /\ me.req = r
  <2>1. me \in CallState
    BY <1>2, IdleType DEF CallState
  <2>2. QED
    BY <2>1 DEF IdleCall
<1> HIDE DEF me
<1>4. \/ r.tool = "abort_run" /\ Become(c, Ask(me, "abort"))
      \/ r.tool = "get_run" /\ Become(c, Look(me))
      \/ r.tool = "wait_for_run" /\ Become(c, [Look(me) EXCEPT !.left = Clamp(r.timeout)])
  BY <1>1, <1>2 DEF me
<1> SUFFICES ASSUME NEW m, Become(c, m), CallInv(m, run) PROVE IInv'
  <2>1. ASSUME r.tool = "abort_run" PROVE CallInv(Ask(me, "abort"), run)
    <3> DEFINE m == Ask(me, "abort")
    <3>1. /\ m \in CallState /\ m.pc = "abort" /\ m.req = r /\ m.left = 0 /\ m.age = 0
          /\ m.resp = NoAnswer
      BY <1>3, AskFields
    <3> HIDE DEF m
    <3>2. QED
      BY <2>1, <3>1, TimeAssumption DEF CallInv, Timed, Judged, Told, NoAnswer, m
  <2>2. ASSUME r.tool = "get_run" PROVE CallInv(Look(me), run)
    <3> DEFINE m == Look(me)
    <3>1. /\ m \in CallState /\ m.pc = "stats" /\ m.req = r /\ m.left = 0 /\ m.age = 0
          /\ m.resp = NoAnswer /\ m.used = 0
      BY <1>3, LookFields
    <3> HIDE DEF m
    <3>2. QED
      BY <2>2, <3>1, TimeAssumption DEF CallInv, Timed, Judged, Told, NoAnswer, m
  <2>3. ASSUME r.tool = "wait_for_run"
        PROVE  CallInv([Look(me) EXCEPT !.left = Clamp(r.timeout)], run)
    <3> DEFINE l == Look(me)
               m == [l EXCEPT !.left = Clamp(r.timeout)]
    <3>1. /\ l \in CallState /\ l.pc = "stats" /\ l.req = r /\ l.age = 0
          /\ l.resp = NoAnswer /\ l.used = 0
      BY <1>3, LookFields
    <3>2. Clamp(r.timeout) \in Int /\ 0 < Clamp(r.timeout) /\ Clamp(r.timeout) <= WaitMax
      BY <1>2, ClampBounds
    <3> HIDE DEF l
    <3>3. /\ m \in CallState /\ m.pc = "stats" /\ m.req = r /\ m.age = 0
          /\ m.resp = NoAnswer /\ m.used = 0 /\ m.left = Clamp(r.timeout)
      BY <3>1, <3>2 DEF CallState
    <3> HIDE DEF m
    <3>4. QED
      BY <2>3, <3>2, <3>3, TimeAssumption
         DEF CallInv, Timed, Judged, Told, NoAnswer, m, l
  <2>4. QED
    BY <1>4, <2>1, <2>2, <2>3
<1>5. QED
  BY OneCall DEF Invoke, Persists, IInv, RunSound

LEMMA GetRunStatsStep ==
    ASSUME IInv, NEW c \in Calls, GetRunStats(c)
    PROVE  IInv'
<1> DEFINE me == call[c]
           a == Ask(me, "detail")
           m == [a EXCEPT !.stats = StatsDone(run), !.over = Over(run), !.age = 0]
<1>1. PICK o \in ReadEnds : /\ Spend(o)
                            /\ Become(c, IF o # "ok" THEN Errs(me, o) ELSE m)
  BY DEF GetRunStats
<1>2. run' = run /\ me.pc = "stats"
  BY DEF GetRunStats
<1>3. me \in CallState /\ Timed(me) /\ o \in WriteEnds
  BY DEF IInv, CallInv, ReadEnds
<1>4. CallInv(Errs(me, o), run)
  BY <1>3, ErrsInv
<1>5. CallInv(m, run)
  <2>1. /\ a \in CallState /\ a.pc = "detail" /\ a.used = 0 /\ a.req = me.req
        /\ a.resp = me.resp /\ a.left = me.left
    BY <1>3, AskFields
  <2> HIDE DEF a
  <2>2. StatsDone(run) \in BOOLEAN /\ Over(run) \in BOOLEAN
    BY DEF StatsDone, Over
  <2>3. m \in CallState
    BY <2>1, <2>2, Zeros DEF CallState
  <2>4. /\ m.pc = "detail" /\ m.used = 0 /\ m.req = me.req /\ m.resp = me.resp
        /\ m.left = me.left /\ m.age = 0
        /\ m.stats = StatsDone(run) /\ m.over = Over(run)
    BY <2>1 DEF CallState
  <2> HIDE DEF m
  <2>5. Timed(m)
    BY <1>2, <1>3, <2>4, CallFacts, TimeAssumption DEF Timed
  <2>6. Judged(m, run)
    BY <2>4 DEF Judged, StatsDone, Over
  <2>7. Told(m, run)
    BY <1>2, <2>4, CallFacts DEF Told, NoAnswer
  <2>8. QED
    BY <2>3, <2>5, <2>6, <2>7 DEF CallInv
<1> HIDE DEF m
<1>6. QED
  BY <1>1, <1>2, <1>4, <1>5, ReadStep

\* What _fully_done says after a look at the detail.
LEMMA FullyDoneJudges ==
    ASSUME IInv, NEW c \in Calls, call[c].pc = "detail", NEW d \in BOOLEAN
    PROVE  LET out == FullyDone(call[c].stats, d, run)
           IN /\ out \in BOOLEAN
              /\ call[c].over => out
              /\ out /\ d => Over(run)
<1>1. Judged(call[c], run) /\ run \in Run /\ call[c].stats \in BOOLEAN
  BY CallFacts DEF CallInv, RunSound, CallState
<1>2. QED
  BY <1>1 DEF FullyDone, Judged, Over, StatsDone, Terminal, Unfinished, Run

LEMMA GetRunStep ==
    ASSUME IInv, NEW c \in Calls, GetRun(c)
    PROVE  IInv'
<1> DEFINE me == call[c]
           out(o) == FullyDone(me.stats, o = "ok", run)
           seen(o) == [me EXCEPT !.detailed = o = "ok", !.out = out(o)]
<1>1. PICK o \in ReadEnds :
        /\ Spend(o)
        /\ Become(c, IF Transport(o) THEN Errs(me, o)
                     ELSE IF o = "ok" /\ run.reason = "limit" THEN Ask(seen(o), "limits")
                     ELSE Reported(seen(o)))
  BY DEF GetRun
<1>2. run' = run /\ me.pc = "detail"
  BY DEF GetRun
<1>3. me \in CallState /\ Timed(me) /\ o \in WriteEnds /\ me.resp = NoAnswer
  BY <1>2, CallFacts DEF CallInv, ReadEnds
<1>4. CallInv(Errs(me, o), run)
  BY <1>3, ErrsInv
<1> DEFINE s == seen(o)
<1>5. out(o) \in BOOLEAN /\ (me.over => out(o)) /\ (out(o) /\ o = "ok" => Over(run))
  BY <1>2, FullyDoneJudges
<1> HIDE DEF out
<1>6. /\ s \in CallState /\ s.pc = me.pc /\ s.req = me.req /\ s.resp = me.resp
      /\ s.left = me.left /\ s.age = me.age /\ s.used = me.used /\ s.over = me.over
      /\ s.out = out(o) /\ s.detailed = (o = "ok")
  BY <1>3, <1>5 DEF CallState
<1> HIDE DEF seen, s
<1>7. Timed(s)
  BY <1>2, <1>3, <1>6 DEF Timed
<1>8. CallInv(Reported(s), run)
  <2>1. 0 - GetRunMax <= s.left /\ s.age <= 2 * Slow
    BY <1>2, <1>3, <1>6, CallFacts, TimeAssumption DEF Timed, GetRunMax
  <2>2. QED
    BY <1>3, <1>5, <1>6, <1>7, <2>1, ReportedInv
<1>9. CallInv(Ask(s, "limits"), run)
  <2> DEFINE m == Ask(s, "limits")
  <2>1. /\ m \in CallState /\ m.pc = "limits" /\ m.used = 0 /\ m.req = s.req
        /\ m.resp = s.resp /\ m.left = s.left /\ m.age = s.age /\ m.over = s.over
        /\ m.detailed = s.detailed /\ m.out = s.out
    BY <1>6, AskFields
  <2> HIDE DEF m
  <2>2. Timed(m)
    <3>1. /\ 0 - 2 * Slow <= me.left /\ me.age <= Slow
          /\ me.age + me.left <= WaitMax /\ me.left \in Int /\ me.age \in Nat
          /\ me.req.tool # "wait_for_run" => me.left = 0 /\ me.age = 0
      BY <1>2, <1>3, CallFacts, TimeAssumption DEF Timed
    <3>2. /\ m.left = me.left /\ m.age = me.age /\ m.req = me.req
          /\ m.pc = "limits" /\ m.used = 0
      BY <1>6, <2>1
    <3>3. 0 - (2 * Slow + m.used) <= m.left /\ m.age <= Slow + m.used
      BY <3>1, <3>2, TimeAssumption
    <3>4. QED
      BY <3>1, <3>2, <3>3 DEF Timed
  <2>3. m.over => m.out
    BY <1>5, <1>6, <2>1
  <2>4. m.out /\ m.detailed => Over(run)
    <3>1. s.out = out(o)
      BY <1>6
    <3>2. s.detailed = (o = "ok")
      BY <1>6
    <3>3. QED
      BY <1>5, <2>1, <3>1, <3>2
  <2>5. Judged(m, run)
    BY <2>1, <2>3, <2>4 DEF Judged
  <2>6. Told(m, run)
    BY <1>3, <1>6, <2>1 DEF Told, NoAnswer
  <2>7. QED
    BY <2>1, <2>2, <2>5, <2>6 DEF CallInv, m
<1>10. QED
  BY <1>1, <1>2, <1>4, <1>8, <1>9, ReadStep DEF s

LEMMA AccountLimitOutStep ==
    ASSUME IInv, NEW c \in Calls, AccountLimitOut(c)
    PROVE  IInv'
<1> DEFINE me == call[c]
<1>1. PICK o \in ReadEnds : Spend(o)
  BY DEF AccountLimitOut
<1>2. run' = run /\ me.pc = "limits" /\ Become(c, Reported(me))
  BY DEF AccountLimitOut
<1>3. /\ me \in CallState /\ Timed(me) /\ me.resp = NoAnswer
      /\ me.over => me.out /\ (me.out /\ me.detailed => Over(run))
  BY <1>2, CallFacts DEF CallInv, Judged
<1>4. 0 - GetRunMax <= me.left /\ me.age <= 2 * Slow
  BY <1>2, <1>3, CallFacts, TimeAssumption DEF Timed, GetRunMax
<1>5. me.over => me.out
  BY <1>2, CallFacts DEF CallInv, Judged
<1>6. me.out /\ me.detailed => Over(run)
  BY <1>2, CallFacts DEF CallInv, Judged
<1>7. CallInv(Reported(me), run)
  BY <1>3, <1>4, <1>5, <1>6, ReportedInv
<1>8. QED
  BY <1>1, <1>2, <1>7, ReadStep

LEMMA GetRunCreditsStep ==
    ASSUME IInv, NEW c \in Calls, GetRunCredits(c)
    PROVE  IInv'
<1> DEFINE me == call[c]
           a == [NoAnswer EXCEPT !.kind = "run", !.done = me.out]
<1>1. PICK o \in ReadEnds :
        Spend(o) /\ Become(c, IF Transport(o) THEN Errs(me, o) ELSE Finish(me, a))
  BY DEF GetRunCredits
<1>2. run' = run /\ me.pc = "credits" /\ o \in WriteEnds
  BY DEF GetRunCredits, ReadEnds
<1>3. me \in CallState /\ Timed(me) /\ Judged(me, run)
  BY CallFacts DEF CallInv
<1>4. a \in Answer /\ a.kind = "run" /\ ~a.timedOut /\ a.done = me.out
  BY <1>3, IdleType DEF NoAnswer, Answer, CallState
<1> HIDE DEF a
<1>5. CallInv(Finish(me, a), run)
  BY <1>2, <1>3, <1>4, FinishPlain DEF Judged
<1>6. CallInv(Errs(me, o), run)
  BY <1>2, <1>3, ErrsInv
<1>7. QED
  BY <1>1, <1>2, <1>5, <1>6, ReadStep

LEMMA WakeStep ==
    ASSUME IInv, NEW c \in Calls, Wake(c)
    PROVE  IInv'
<1> DEFINE me == call[c]
           m == Look(me)
<1>1. /\ run' = run /\ faults' = faults /\ me.pc = "sleep" /\ me.sleep = 0
      /\ Become(c, m)
  BY DEF Wake, Woken
<1>2. me \in CallState /\ Timed(me) /\ me.resp = NoAnswer
  BY <1>1, CallFacts DEF CallInv
<1>3. /\ m \in CallState /\ m.pc = "stats" /\ m.used = 0 /\ m.req = me.req
      /\ m.resp = me.resp /\ m.left = me.left /\ m.age = me.age
  BY <1>2, LookFields
<1> HIDE DEF m
<1>4. Timed(m)
  BY <1>1, <1>2, <1>3, CallFacts DEF Timed
<1>5. Judged(m, run) /\ Told(m, run)
  BY <1>2, <1>3 DEF Judged, Told, NoAnswer
<1>6. CallInv(m, run')
  BY <1>1, <1>3, <1>4, <1>5 DEF CallInv
<1>7. QED
  BY <1>1, <1>6, OneCall DEF Persists, IInv, RunSound

\* An abort finds a run that has ended as it is, and ends any other.
LEMMA AbortsSound ==
    ASSUME RunSound, NEW r \in AbortsTo(run)
    PROVE  /\ r \in Run /\ (StatsDone(r) => ~r.stopping)
           /\ Over(run) => Over(r)
           /\ StatsDone(run) => StatsDone(r)
           /\ AbortTook(r) <=> ~(run.status \in Terminal /\ run.reason # "aborted")
<1>1. CASE StatsDone(run)
  <2>1. r = run
    BY <1>1 DEF AbortsTo
  <2>2. QED
    BY <1>1, <2>1 DEF RunSound, AbortTook, StatsDone, Terminal
<1>2. CASE ~StatsDone(run)
  <2>1. run \in Run /\ run.status \notin Terminal /\ run.status # "uploading"
    BY <1>2 DEF RunSound, StatsDone
  <2>2. ~Over(run)
    BY <2>1 DEF Over
  <2> DEFINE r1 == [run EXCEPT !.stopping = TRUE]
             r2 == [run EXCEPT !.status = "uploading", !.reason = "aborted",
                               !.stopping = FALSE]
             r3 == [run EXCEPT !.status = "aborted", !.reason = "aborted",
                               !.stopping = FALSE]
  <2>3. r \in {r1, r2, r3}
    BY <1>2 DEF AbortsTo
  <2>4. /\ r1 \in Run /\ r1.status = run.status
        /\ r2 \in Run /\ r2.status = "uploading" /\ r2.reason = "aborted" /\ ~r2.stopping
        /\ r3 \in Run /\ r3.status = "aborted" /\ r3.reason = "aborted" /\ ~r3.stopping
    BY <2>1 DEF Run, Terminal, Unfinished
  <2> HIDE DEF r1, r2, r3
  <2>5. r \in Run /\ (StatsDone(r) => ~r.stopping) /\ AbortTook(r)
    BY <2>1, <2>3, <2>4 DEF AbortTook, StatsDone, Terminal
  <2>6. QED
    BY <1>2, <2>1, <2>2, <2>5
<1>3. QED
  BY <1>1, <1>2

LEMMA AbortRunStep ==
    ASSUME IInv, NEW c \in Calls, AbortRun(c)
    PROVE  IInv'
<1> DEFINE me == call[c]
           ended == run.status \in Terminal /\ run.reason # "aborted"
           met == [me EXCEPT !.ended = ended]
           a == [NoAnswer EXCEPT !.kind = "abort", !.aborted = AbortTook(run')]
<1>1. PICK o \in WriteEnds :
        /\ Spend(o)
        /\ run' \in IF Applied(o) THEN AbortsTo(run) ELSE {run}
        /\ Become(c, IF o # "ok" THEN Errs(met, o) ELSE Finish(met, a))
  BY DEF AbortRun
<1>2. me \in CallState /\ Timed(me) /\ me.pc = "abort" /\ RunSound
  BY CallFacts DEF CallInv, AbortRun
<1>3. RunSound' /\ Persists
  BY <1>1, <1>2, AbortsSound DEF RunSound, Persists, StatsDone
<1>4. /\ met \in CallState /\ met.pc = me.pc /\ met.req = me.req /\ met.left = me.left
      /\ met.age = me.age /\ met.over = me.over /\ met.detailed = me.detailed
      /\ met.ended = ended
  BY <1>2 DEF CallState
<1>5. Timed(met)
  BY <1>2, <1>4 DEF Timed
<1>6. o = "ok" => (AbortTook(run') <=> ~ended)
  BY <1>1, <1>2, AbortsSound DEF Applied
<1>7. a \in Answer /\ a.kind = "abort" /\ ~a.timedOut /\ ~a.done
      /\ a.aborted = AbortTook(run')
  BY IdleType DEF NoAnswer, Answer, AbortTook
<1> HIDE DEF a, met
<1>8. CallInv(Errs(met, o), run')
  BY <1>4, <1>5, ErrsInv
<1>9. o = "ok" => CallInv(Finish(met, a), run')
  BY <1>4, <1>5, <1>6, <1>7, FinishPlain
<1>10. QED
  BY <1>1, <1>3, <1>8, <1>9, OneCall, SpendBounds

LEMMA RunStepStep ==
    ASSUME IInv, RunStep
    PROVE  IInv'
<1>1. RunSound /\ call' = call /\ faults' = faults
  BY DEF IInv, RunStep
<1>2. RunSound' /\ Persists
  <2> DEFINE to(s) == [run EXCEPT !.status = s]
             capped == [run EXCEPT !.status = "paused", !.reason = "limit"]
             again == [run EXCEPT !.status = "running", !.reason = "none"]
             stops == [run EXCEPT !.status = "uploading", !.reason = "aborted",
                                  !.stopping = FALSE]
             checked == [run EXCEPT !.verification = "over"]
             exported == [run EXCEPT !.export = "over"]
  <2>1. /\ \A s \in Terminal \cup Unfinished :
             /\ to(s) \in Run /\ to(s).status = s /\ to(s).stopping = run.stopping
        /\ capped \in Run /\ capped.stopping = run.stopping /\ capped.status = "paused"
        /\ again \in Run /\ again.stopping = run.stopping /\ again.status = "running"
        /\ stops \in Run /\ ~stops.stopping
    BY <1>1 DEF RunSound, Run, Terminal, Unfinished
  <2>2. /\ checked \in Run /\ checked.status = run.status
        /\ checked.stopping = run.stopping /\ checked.verification = "over"
        /\ checked.export = run.export
        /\ exported \in Run /\ exported.status = run.status
        /\ exported.stopping = run.stopping /\ exported.verification = run.verification
        /\ exported.export = "over"
    BY <1>1 DEF RunSound, Run
  <2>3. \/ \E m \in Moves : run.status = m[1] /\ ~run.stopping /\ run' = to(m[2])
        \/ run.status = "running" /\ ~run.stopping /\ run' = capped
        \/ run.status = "paused" /\ ~run.stopping /\ run' = again
        \/ run.stopping /\ run' = stops
        \/ run.status = "uploading" /\ run' = to("aborted")
        \/ StatsDone(run) /\ run' \in {checked, exported}
        \/ run.status \in Terminal /\ run' = exported
    BY DEF RunStep
  <2> HIDE DEF to, capped, again, stops, checked, exported
  <2>4. CASE StatsDone(run) /\ run' \in {checked, exported}
    BY <1>1, <2>2, <2>4 DEF RunSound, Persists, Over, StatsDone
  <2>5. CASE run.status = "uploading" /\ run' = to("aborted")
    BY <1>1, <2>1, <2>5 DEF RunSound, Persists, Over, StatsDone, Terminal, Unfinished
  <2>6. CASE run.stopping /\ run' = stops
    BY <1>1, <2>1, <2>6 DEF RunSound, Persists, Over, StatsDone
  <2>7. CASE \/ run.status = "running" /\ ~run.stopping /\ run' = capped
             \/ run.status = "paused" /\ ~run.stopping /\ run' = again
    BY <1>1, <2>1, <2>7 DEF RunSound, Persists, Over, StatsDone, Terminal
  <2>8. CASE \E m \in Moves : run.status = m[1] /\ ~run.stopping /\ run' = to(m[2])
    <3>1. \E s \in Terminal \cup Unfinished :
            /\ run' = to(s) /\ ~run.stopping /\ run.status \notin Terminal
            /\ run.status = "uploading" => s = "done"
      BY <2>8 DEF Moves, Terminal, Unfinished
    <3>2. QED
      BY <1>1, <2>1, <3>1 DEF RunSound, Persists, Over, StatsDone, Terminal
  <2>9. CASE run.status \in Terminal /\ run' = exported
    BY <1>1, <2>2, <2>9 DEF RunSound, Persists, Over, StatsDone
  <2>10. QED
    BY <2>3, <2>4, <2>5, <2>6, <2>7, <2>8, <2>9
<1>3. \A d \in Calls : CallInv(call[d], run')
  BY <1>2, CallPersists DEF IInv
<1>4. \A d \in Calls : CallInv(call[d], run)' = CallInv(call'[d], run')
  BY DEF CallInv, Timed, Judged, Told
<1>5. QED
  BY <1>1, <1>2, <1>3, <1>4 DEF IInv

\* What a tick makes of a call.
Aged(me) ==
    LET d == IF me.req.tool = "wait_for_run" THEN 1 ELSE 0 IN
    IF ~Busy(me) THEN me
    ELSE IF me.pc = "sleep"
    THEN [me EXCEPT !.left = @ - d, !.age = @ + d, !.sleep = @ - 1]
    ELSE [me EXCEPT !.left = @ - d, !.age = @ + d, !.used = @ + 1]

LEMMA AgedInv ==
    ASSUME IInv, NEW c \in Calls,
           LET me == call[c]
           IN Busy(me) => IF me.pc = "sleep" THEN me.sleep > 0 ELSE me.used < Slow
    PROVE  CallInv(Aged(call[c]), run)
<1> DEFINE me == call[c]
           m == Aged(me)
           d == IF me.req.tool = "wait_for_run" THEN 1 ELSE 0
<1>1. me \in CallState /\ CallInv(me, run)
  BY CallFacts DEF CallInv
<1>2. CASE ~Busy(me)
  BY <1>1, <1>2 DEF Aged
<1>3. CASE Busy(me)
  <2>1. /\ me.left \in Int /\ me.age \in Nat /\ me.used \in Nat /\ me.sleep \in Nat
        /\ me.sleep <= Poll /\ me.resp = NoAnswer /\ me.pc \notin {"idle", "done"}
    BY <1>3, CallFacts DEF Busy
  <2>2. Timed(me) /\ d \in {0, 1}
    BY <1>1 DEF CallInv
  <2>3. me.pc = "sleep" => me.sleep > 0 /\ d = 1
    BY <1>3, <2>1, <2>2 DEF Timed
  <2>4. me.pc # "sleep" => me.used < Slow
    BY <1>3
  <2>5. 0 - GetRunMax <= me.left - d
    BY <1>1, <2>1, <2>2, <2>3, <2>4, TimeAssumption DEF Timed, GetRunMax, CallState
  <2>6. me.left - d \in Int /\ me.age + d \in 0..(WaitMax + GetRunMax)
    BY <2>1, <2>2, <2>5, TimeAssumption DEF Timed, GetRunMax
  <2>7. CASE me.pc = "sleep"
    <3>1. me.sleep - 1 \in 0..Poll
      BY <2>1, <2>3, <2>7, TimeAssumption
    <3>2. m = [me EXCEPT !.left = me.left - d, !.age = me.age + d, !.sleep = me.sleep - 1]
      BY <1>3, <2>7 DEF Aged
    <3> HIDE DEF m, d
    <3>3. /\ m \in CallState /\ m.pc = me.pc /\ m.req = me.req /\ m.resp = me.resp
          /\ m.left = me.left - d /\ m.age = me.age + d /\ m.sleep = me.sleep - 1
      BY <1>1, <2>6, <3>1, <3>2 DEF CallState
    <3>4. Timed(m)
      BY <2>1, <2>2, <2>3, <2>7, <3>3, TimeAssumption DEF Timed, d
    <3>5. Judged(m, run) /\ Told(m, run)
      BY <2>1, <2>7, <3>3 DEF Judged, Told, NoAnswer
    <3>6. QED
      BY <3>3, <3>4, <3>5 DEF CallInv, m
  <2>8. CASE me.pc # "sleep"
    <3>1. me.used + 1 \in 0..Slow
      BY <2>1, <2>4, <2>8, TimeAssumption
    <3>2. m = [me EXCEPT !.left = me.left - d, !.age = me.age + d, !.used = me.used + 1]
      BY <1>3, <2>8 DEF Aged
    <3> HIDE DEF m, d
    <3>3. /\ m \in CallState /\ m.pc = me.pc /\ m.req = me.req /\ m.resp = me.resp
          /\ m.left = me.left - d /\ m.age = me.age + d /\ m.used = me.used + 1
          /\ m.over = me.over /\ m.out = me.out /\ m.stats = me.stats
          /\ m.detailed = me.detailed
      BY <1>1, <2>6, <3>1, <3>2 DEF CallState
    <3>4. Timed(m)
      BY <2>1, <2>2, <2>8, <3>3, TimeAssumption DEF Timed, d
    <3>5. Judged(m, run) /\ Told(m, run)
      BY <1>1, <2>1, <2>8, <3>3 DEF CallInv, Judged, Told, NoAnswer
    <3>6. QED
      BY <3>3, <3>4, <3>5 DEF CallInv, m
  <2>9. QED
    BY <2>7, <2>8
<1>4. QED
  BY <1>2, <1>3

LEMMA TickStep ==
    ASSUME IInv, Tick
    PROVE  IInv'
<1>1. /\ run' = run /\ faults' = faults
      /\ call' = [c \in Calls |-> Aged(call[c])]
  BY DEF Tick, Aged
<1>2. \A c \in Calls : CallInv(Aged(call[c]), run)
  BY AgedInv DEF Tick
<1>3. call' \in [Calls -> CallState] /\ \A c \in Calls : CallInv(call'[c], run')
  BY <1>1, <1>2 DEF CallInv
<1>4. \A d \in Calls : CallInv(call[d], run)' = CallInv(call'[d], run')
  BY DEF CallInv, Timed, Judged, Told
<1>5. QED
  BY <1>1, <1>3, <1>4 DEF IInv, RunSound

-----------------------------------------------------------------------------
(* The theorems.                                                           *)

LEMMA InitWatch == Init => IInv
<1> SUFFICES ASSUME Init PROVE IInv
  OBVIOUS
<1>1. RunSound
  <2>1. PICK v \in {"none", "due"}, x \in {"none", "due"} :
          run = [NewRun EXCEPT !.verification = v, !.export = x]
    BY DEF Init
  <2>2. run \in Run /\ ~run.stopping
    BY <2>1 DEF NewRun, Run, Terminal, Unfinished
  <2>3. QED
    BY <2>2 DEF RunSound
<1>2. CallInv(IdleCall, run)
  BY IdleType, TimeAssumption DEF CallInv, Timed, Judged, Told, IdleCall, NoAnswer
<1>3. QED
  BY <1>1, <1>2, IdleType, RequestAssumption DEF Init, IInv

LEMMA NextWatch == IInv /\ [Next]_vars => IInv'
<1> SUFFICES ASSUME IInv, [Next]_vars PROVE IInv'
  OBVIOUS
<1>1. CASE UNCHANGED vars \/ Quiet
  BY <1>1 DEF vars, Quiet, IInv, RunSound, CallInv, Timed, Judged, Told
<1>2. QED
  BY <1>1, InvokeStep, GetRunStatsStep, GetRunStep, AccountLimitOutStep,
     GetRunCreditsStep, WakeStep, AbortRunStep, RunStepStep, TickStep DEF Next, CallStep

LEMMA Watched == Spec => []IInv
  BY InitWatch, NextWatch, PTL DEF Spec

\* Every variable keeps its type: the counters of a wait stay within the bounds
\* that its clamp and the length of a request give.
THEOREM TypeCorrect == Spec => []TypeOK
<1>1. IInv => TypeOK
  BY DEF IInv, RunSound, TypeOK
<1>2. QED
  BY <1>1, Watched, PTL

\* However slow the API is, wait_for_run answers at most one look after its
\* deadline, which no timeout_seconds extends beyond the cap (execution.py:879-903).
THEOREM WaitsAreBounded == Spec => []WaitIsBounded
<1>1. IInv => WaitIsBounded
  <2> SUFFICES ASSUME IInv, NEW c \in Calls PROVE call[c].left \in (-GetRunMax)..WaitMax
    BY DEF WaitIsBounded
  <2>1. Timed(call[c]) /\ call[c] \in CallState
    BY CallFacts DEF CallInv
  <2>2. QED
    BY <2>1, CallFacts, TimeAssumption DEF Timed, GetRunMax, CallState
<1>2. QED
  BY <1>1, Watched, PTL

\* A wait that times out used its time, and the run was not over when it looked
\* last (execution.py:892-901).
THEOREM TimeoutsAreTrue == Spec => []TimedOutIsTrue
<1>1. IInv => TimedOutIsTrue
  BY CallFacts DEF TimedOutIsTrue, CallInv, Told
<1>2. QED
  BY <1>1, Watched, PTL

\* is_done of a call that read the run's detail is true, and stays so, whatever
\* the run does between the requests (execution.py:773-782, 811-836).
THEOREM DoneStaysDone == Spec => []DoneIsDone
<1>1. IInv => DoneIsDone
  BY CallFacts DEF DoneIsDone, CallInv, Told
<1>2. QED
  BY <1>1, Watched, PTL

\* A run that was over when a look began is reported over (execution.py:773-782).
THEOREM OverIsSeen == Spec => []OverIsReported
<1>1. IInv => OverIsReported
  BY CallFacts DEF OverIsReported, CallInv, Told
<1>2. QED
  BY <1>1, Watched, PTL

\* What abort_run says of the run is so (execution.py:1005-1026).
THEOREM AbortsAreTold == Spec => []AbortIsTold
<1>1. IInv => AbortIsTold
  BY CallFacts DEF AbortIsTold, CallInv, Told
<1>2. QED
  BY <1>1, Watched, PTL
=============================================================================
