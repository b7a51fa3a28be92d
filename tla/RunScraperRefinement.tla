------------------------ MODULE RunScraperRefinement ------------------------
(***************************************************************************)
(* RunScraper implements PaidRuns, for every value of the constants: each  *)
(* of its steps is one of PaidRuns or leaves what PaidRuns sees unchanged. *)
(***************************************************************************)
EXTENDS RunScraperSafety, RunScraperPaid, SequenceTheorems

\* Before a call is answered nothing is said, and nothing promised.
Unsaid ==
    \A c \in Calls : /\ call[c].pc \notin Ends => call[c].resp = NoAnswer
                     /\ call[c].pc # "done" => call[c].until = 0

Shopping == {"account", "rows", "gate", "update", "empty", "add", "link", "create",
             "configure", "cleanup", "start"}

LEMMA Stages ==
    ASSUME NEW me \in CallState
    PROVE  /\ me.pc = "idle" => StageOf(me) = "idle"
           /\ me.pc \in {"squid", "key"} => StageOf(me) = "asking"
           /\ me.pc \in Shopping => StageOf(me) = "buying"
           /\ me.pc = "record" => StageOf(me) = "bought"
           /\ me.pc \in {"restore", "done"} => StageOf(me) \in {"answered", "broken"}
           /\ me.pc = "dead" => StageOf(me) = "dead"
  BY DEF StageOf, Shopping, CallState

-----------------------------------------------------------------------------
(* What a step that neither consults the store nor pays makes of its call. *)

\* A step that PaidRuns does not see.
Hidden(me, m) ==
    /\ StageOf(m) = StageOf(me)
    /\ m.resp.run = me.resp.run /\ m.resp.state = me.resp.state
    /\ m.pc \notin Ends => m.resp = me.resp
    /\ me.pc # "restore" => m.pc \notin Ends

\* A step that gives the call up.
GivesUp(me, m) ==
    /\ StageOf(me) \in {"asking", "buying"}
    /\ StageOf(m) = "answered" /\ m.pc \in Ends
    /\ m.resp.run = 0

Minor(c) == Plain(c) /\ ~KeyHit(c) /\ ~StoreFails(c) /\ ~StartRun(c)

LEMMA MinorMoves ==
    ASSUME TypeInv, NEW c \in Calls, Minor(c)
    PROVE  \E m : Become(c, m) /\ (Hidden(call[c], m) \/ GivesUp(call[c], m))
<1> DEFINE me == call[c]
           Goal == \E m : Become(c, m) /\ (Hidden(me, m) \/ GivesUp(me, m))
<1>1. me \in CallState /\ me.resp \in Answer
  BY CallType DEF CallState
<1> SUFFICES Goal
  OBVIOUS
<1>2. ASSUME NEW m, Become(c, m), m.resp = me.resp, m.pc \in Shopping, me.pc \in Shopping
      PROVE  Goal
  <2>1. Hidden(me, m)
    BY <1>2 DEF Hidden, StageOf, Shopping, Ends
  <2>2. QED
    BY <1>2, <2>1
<1>3. ASSUME NEW a, Become(c, Finish(me, a)), a.run = 0, a.outcome # "raised",
             me.pc \in {"squid", "key"} \cup Shopping
      PROVE  Goal
  <2>1. Finish(me, a).pc = "done" /\ Finish(me, a).resp = a
    BY <1>1, FinishEnds
  <2>2. GivesUp(me, Finish(me, a))
    BY <1>3, <2>1 DEF GivesUp, StageOf, Shopping, Ends
  <2>3. QED
    BY <1>3, <2>2
<1>4. \A o : Failed(o).run = 0 /\ Failed(o).outcome # "raised"
  BY DEF Failed, NoAnswer
<1>5. Refused.run = 0 /\ Refused.outcome # "raised"
  BY DEF NoAnswer, Refused
<1>6. ASSUME NEW o, Become(c, AddFailed(me, o)), me.pc \in Shopping
      PROVE  Goal
  <2> DEFINE clean == [me EXCEPT !.pc = "cleanup"]
             undo == [me EXCEPT !.pc = "restore",
                                !.resp = [NoAnswer EXCEPT !.outcome = "failed"]]
             kept == [NoAnswer EXCEPT !.outcome = "failed", !.squid = me.squid,
                                      !.tasksLost = "no"]
             doubt == [Failed(o) EXCEPT !.squid = me.squid]
  <2>1. clean.pc = "cleanup" /\ clean.resp = me.resp
    BY <1>1 DEF CallState
  <2>2. undo.pc = "restore" /\ undo.resp.run = 0 /\ undo.resp.outcome # "raised"
    BY <1>1 DEF CallState, NoAnswer
  <2>3. GivesUp(me, undo)
    BY <1>6, <2>2 DEF GivesUp, StageOf, Shopping, Ends
  <2>4. kept.run = 0 /\ doubt.run = 0 /\ "raised" \notin {kept.outcome, doubt.outcome}
    BY DEF Failed, NoAnswer
  <2>5. AddFailed(me, o) \in {undo, Finish(me, kept), Finish(me, doubt), clean}
    BY DEF AddFailed
  <2> HIDE DEF clean, undo, kept, doubt
  <2>6. clean.pc \in Shopping
    BY <2>1 DEF Shopping
  <2>7. QED
    BY <1>2, <1>3, <1>6, <2>1, <2>3, <2>4, <2>5, <2>6
<1>7. ASSUME NEW p \in Shopping, Become(c, [me EXCEPT !.pc = p]), me.pc \in Shopping
      PROVE  Goal
  <2>1. [me EXCEPT !.pc = p].pc = p /\ [me EXCEPT !.pc = p].resp = me.resp
    BY <1>1 DEF CallState
  <2>2. QED
    BY <1>2, <1>7, <2>1
<1>8. CASE CatalogFails(c) \/ RefuseInput(c) \/ AccountsFail(c) \/ BalanceFails(c)
  <2>1. me.pc \in {"squid", "key"} \cup Shopping
    BY <1>8 DEF CatalogFails, RefuseInput, AccountsFail, BalanceFails, Shopping
  <2>2. (\E o : Become(c, Finish(me, Failed(o)))) \/ Become(c, Finish(me, Refused))
    BY <1>8 DEF CatalogFails, RefuseInput, AccountsFail, BalanceFails
  <2>3. QED
    BY <1>3, <1>4, <1>5, <2>1, <2>2
<1>9. CASE AskConfirmation(c) \/ RefuseTasks(c) \/ DeleteSquid(c)
  <2> DEFINE price == [NoAnswer EXCEPT !.outcome = "needs_confirmation"]
             rows == [Refused EXCEPT !.squid = me.squid, !.tasksLost = "no"]
             gone(o) == [NoAnswer EXCEPT !.outcome = "failed", !.squid = me.squid,
                                         !.deleted = o = "ok"]
  <2>1. me.pc \in Shopping
    BY <1>9 DEF AskConfirmation, RefuseTasks, DeleteSquid, Shopping
  <2>2. /\ price.run = 0 /\ rows.run = 0 /\ \A o : gone(o).run = 0
        /\ "raised" \notin {price.outcome, rows.outcome}
        /\ \A o : gone(o).outcome # "raised"
    BY DEF NoAnswer, Refused
  <2>3. \/ Become(c, Finish(me, price)) \/ Become(c, Finish(me, rows))
        \/ \E o : Become(c, Finish(me, gone(o)))
    BY <1>9 DEF AskConfirmation, RefuseTasks, DeleteSquid
  <2> HIDE DEF price, rows, gone
  <2>4. QED
    BY <1>3, <2>1, <2>2, <2>3
<1>10. CASE GetSquid(c)
  <2> DEFINE next == [me EXCEPT !.pc = "key", !.cfg = squids[me.squid].cfg,
                                !.linked = squids[me.squid].accounts]
  <2>1. me.pc = "squid" /\ next.pc = "key" /\ next.resp = me.resp
    BY <1>1, <1>10 DEF CallState, GetSquid
  <2>2. Hidden(me, next)
    BY <2>1 DEF Hidden, StageOf, Ends
  <2>3. \E o : Become(c, IF o = "ok" THEN next ELSE Finish(me, Failed(o)))
    BY <1>10 DEF GetSquid
  <2> HIDE DEF next
  <2>4. QED
    BY <1>3, <1>4, <2>1, <2>2, <2>3
<1>11. CASE ResolveAccounts(c)
  <2> DEFINE next == [me EXCEPT !.pc = IF Reuse(me) THEN "rows" ELSE "gate",
                                !.save = AccountsToSave(me)]
  <2>1. next.pc \in Shopping /\ next.resp = me.resp
    BY <1>1 DEF CallState, Shopping
  <2>2. me.pc \in Shopping
    BY <1>11 DEF ResolveAccounts, Shopping
  <2>3. Become(c, IF AccountRefused(me) THEN Finish(me, Refused) ELSE next)
    BY <1>11 DEF ResolveAccounts
  <2> HIDE DEF next
  <2>4. QED
    BY <1>2, <1>3, <1>5, <2>1, <2>2, <2>3
<1>12. CASE SnapshotTasks(c)
  <2> DEFINE seen(l) == [me EXCEPT !.pc = "gate", !.read = TRUE,
                                   !.rows = l \ {EmptyRow}, !.seen = Cardinality(l)]
  <2>1. \A l : seen(l).pc = "gate" /\ seen(l).resp = me.resp
    BY <1>1 DEF CallState
  <2>2. me.pc \in Shopping /\ "gate" \in Shopping
    BY <1>12 DEF SnapshotTasks, Shopping
  <2>3. \/ Become(c, [me EXCEPT !.pc = "gate"])
        \/ \E l \in Listings(me.squid) : Become(c, seen(l))
    BY <1>12 DEF SnapshotTasks
  <2> HIDE DEF seen
  <2>4. QED
    BY <1>2, <1>7, <2>1, <2>2, <2>3
<1>13. CASE PassGate(c)
  <2>1. me.pc \in Shopping /\ FirstWrite(me) \in Shopping
    BY <1>13 DEF PassGate, FirstWrite, Shopping
  <2>2. QED
    BY <1>7, <1>13, <2>1 DEF PassGate
<1>14. CASE UpdateSquid(c)
  <2> DEFINE a == [NoAnswer EXCEPT !.outcome = "failed", !.squid = me.squid,
                                   !.tasksLost = "no"]
  <2>1. me.pc \in Shopping /\ AfterSave(me) \in Shopping
    BY <1>14 DEF UpdateSquid, AfterSave, Shopping
  <2>2. Become(c, Finish(me, a)) \/ Become(c, [me EXCEPT !.pc = AfterSave(me)])
    BY <1>14 DEF UpdateSquid
  <2>3. a.run = 0 /\ a.outcome # "raised"
    BY DEF NoAnswer
  <2> HIDE DEF a
  <2>4. QED
    BY <1>3, <1>7, <2>1, <2>2, <2>3
<1>15. CASE EmptySquid(c)
  <2>1. PICK o \in WriteEnds :
          Become(c, [me EXCEPT
                       !.pc = IF o = "ok" THEN "add" ELSE "restore",
                       !.erased = IF Applied(o) THEN squids[me.squid].rows ELSE @,
                       !.resp = IF o = "ok" THEN @
                                ELSE [NoAnswer EXCEPT !.outcome = "failed"]])
    BY <1>15 DEF EmptySquid
  <2> DEFINE next ==
        [me EXCEPT !.pc = IF o = "ok" THEN "add" ELSE "restore",
                   !.erased = IF Applied(o) THEN squids[me.squid].rows ELSE @,
                   !.resp = IF o = "ok" THEN @ ELSE [NoAnswer EXCEPT !.outcome = "failed"]]
  <2>2. Become(c, next) /\ me.pc \in Shopping
    BY <1>15, <2>1 DEF EmptySquid, Shopping
  <2>3. CASE o = "ok"
    <3>1. next.pc = "add" /\ next.resp = me.resp
      BY <1>1, <2>3 DEF CallState
    <3> HIDE DEF next
    <3>2. QED
      BY <1>2, <2>2, <3>1 DEF Shopping
  <2>4. CASE o # "ok"
    <3>1. next.pc = "restore" /\ next.resp.run = 0 /\ next.resp.outcome # "raised"
      BY <1>1, <2>4 DEF CallState, NoAnswer
    <3> HIDE DEF next
    <3>2. GivesUp(me, next)
      BY <2>2, <3>1 DEF GivesUp, StageOf, Shopping, Ends
    <3>3. QED
      BY <2>2, <3>2
  <2>5. QED
    BY <2>3, <2>4
<1>16. CASE AddTasks(c)
  <2> DEFINE next == [me EXCEPT !.pc = "start", !.action = AddedAs(me)]
  <2>1. next.pc = "start" /\ next.resp = me.resp
    BY <1>1 DEF CallState
  <2>2. me.pc \in Shopping /\ "start" \in Shopping
    BY <1>16 DEF AddTasks, Shopping
  <2>3. \E o : Become(c, IF o = "ok" THEN next ELSE AddFailed(me, o))
    BY <1>16 DEF AddTasks
  <2> HIDE DEF next
  <2>4. QED
    BY <1>2, <1>6, <2>1, <2>2, <2>3
<1>17. CASE LinkAccounts(c)
  <2>1. me.pc \in Shopping /\ "start" \in Shopping
    BY <1>17 DEF LinkAccounts, Shopping
  <2>2. \/ \E o : Become(c, Finish(me, Failed(o)))
        \/ Become(c, [me EXCEPT !.pc = "start"])
    BY <1>17 DEF LinkAccounts
  <2>3. QED
    BY <1>3, <1>4, <1>7, <2>1, <2>2
<1>18. CASE CreateSquid(c)
  <2>1. PICK o \in WriteEnds, s \in Squids :
          Become(c, [(IF o = "ok" THEN [me EXCEPT !.pc = "configure", !.squid = s]
                      ELSE Finish(me, Failed(o)))
                     EXCEPT !.made = IF Applied(o) THEN s ELSE NoSquid])
    BY <1>18 DEF CreateSquid
  <2> DEFINE went == IF o = "ok" THEN [me EXCEPT !.pc = "configure", !.squid = s]
                     ELSE Finish(me, Failed(o))
             m == [went EXCEPT !.made = IF Applied(o) THEN s ELSE NoSquid]
  <2>2. Become(c, m) /\ me.pc \in Shopping
    BY <1>18, <2>1 DEF CreateSquid, Shopping
  <2>3. m.pc = went.pc /\ m.resp = went.resp
    BY <1>1 DEF Finish, CallState
  <2>4. CASE o = "ok"
    <3>1. went.pc = "configure" /\ went.resp = me.resp
      BY <1>1, <2>4 DEF CallState
    <3> HIDE DEF m, went
    <3>2. QED
      BY <1>2, <2>2, <2>3, <3>1 DEF Shopping
  <2>5. CASE o # "ok"
    <3>1. went.pc = "done" /\ went.resp.run = 0 /\ went.resp.outcome # "raised"
      BY <1>1, <1>4, <2>5, FinishEnds
    <3> HIDE DEF m, went
    <3>2. GivesUp(me, m)
      BY <2>2, <2>3, <3>1 DEF GivesUp, StageOf, Shopping, Ends
    <3>3. QED
      BY <2>2, <3>2
  <2>6. QED
    BY <2>4, <2>5
<1>19. CASE ConfigureSquid(c)
  <2>1. me.pc \in Shopping /\ "add" \in Shopping
    BY <1>19 DEF ConfigureSquid, Shopping
  <2>2. \/ \E o : Become(c, AddFailed(me, o))
        \/ Become(c, [me EXCEPT !.pc = "add"])
    BY <1>19 DEF ConfigureSquid
  <2>3. QED
    BY <1>6, <1>7, <2>1, <2>2
<1>20. CASE RestoreNothing(c) \/ RestoreTasks(c)
  <2>1. me.pc = "restore"
    BY <1>20 DEF RestoreNothing, RestoreTasks
  <2>2. PICK a : /\ Become(c, Finish(me, a)) /\ a.outcome = me.resp.outcome
                 /\ a.run = me.resp.run /\ a.state = me.resp.state
    <3>1. CASE RestoreNothing(c)
      <4> DEFINE a == [me.resp EXCEPT !.squid = me.squid,
                                      !.tasksLost = IF me.read THEN "no" ELSE "yes"]
      <4>1. a.run = me.resp.run /\ a.state = me.resp.state /\ a.outcome = me.resp.outcome
        BY <1>1 DEF Answer
      <4>2. Become(c, Finish(me, a))
        BY <3>1 DEF RestoreNothing
      <4> HIDE DEF a
      <4>3. QED
        BY <4>1, <4>2
    <3>2. CASE RestoreTasks(c)
      <4>1. PICK o : Become(c, Finish(me, RestoreAnswer(me, o)))
        BY <3>2 DEF RestoreTasks
      <4>2. /\ RestoreAnswer(me, o).run = me.resp.run
            /\ RestoreAnswer(me, o).state = me.resp.state
            /\ RestoreAnswer(me, o).outcome = me.resp.outcome
        BY <1>1 DEF RestoreAnswer, Answer
      <4>3. QED
        BY <4>1, <4>2
    <3>3. QED
      BY <1>20, <3>1, <3>2
  <2>3. Finish(me, a).pc = "done" /\ Finish(me, a).resp = a
    BY <1>1, FinishEnds
  <2>4. Hidden(me, Finish(me, a))
    BY <2>1, <2>2, <2>3 DEF Hidden, StageOf, Ends
  <2>5. QED
    BY <2>2, <2>4
<1>21. QED
  BY <1>8, <1>9, <1>10, <1>11, <1>12, <1>13, <1>14, <1>15, <1>16, <1>17, <1>18, <1>19,
     <1>20 DEF Minor, Plain, Step

-----------------------------------------------------------------------------
(* Nothing is said or promised before a call is answered.                  *)

LEMMA UntilStays ==
    ASSUME TypeInv, Unsaid, NEW c \in Calls, Plain(c)
    PROVE  call[c].until = 0 /\ call'[c].until = 0
           /\ call'[c].req = call[c].req
<1>1. call[c].until = 0
  BY DoneIsDone DEF Unsaid, Plain
<1>2. Carried(call'[c]) = Carried(call[c])
  BY PlainKeeps
<1>3. QED
  BY <1>1, <1>2 DEF Carried

\* One step of one call keeps it when it keeps it for this call.
LEMMA UnsaidStep ==
    ASSUME TypeInv, Unsaid, NEW c \in Calls, NEW m, Become(c, m),
           m.pc \notin Ends => m.resp = NoAnswer,
           m.pc # "done" => m.until = 0
    PROVE  Unsaid'
  BY BecomeValue DEF Unsaid

LEMMA MinorUnsaid ==
    ASSUME TypeInv, Unsaid, NEW c \in Calls, Minor(c)
    PROVE  Unsaid'
<1>1. PICK m : Become(c, m) /\ (Hidden(call[c], m) \/ GivesUp(call[c], m))
  BY MinorMoves
<1>2. call'[c] = m /\ m.until = 0
  BY <1>1, BecomeValue, UntilStays DEF Minor
<1>3. m.pc \notin Ends => m.resp = NoAnswer
  <2>1. ASSUME Hidden(call[c], m), m.pc \notin Ends PROVE m.resp = NoAnswer
    <3>1. call[c] \in CallState /\ call[c].pc # "done"
      BY CallType, DoneIsDone DEF Minor, Plain
    <3>2. call[c].pc # "dead"
      <4>1. StageOf(m) # "dead"
        BY <2>1 DEF Ends, StageOf
      <4>2. QED
        BY <2>1, <3>1, <4>1, Stages DEF Hidden
    <3>3. call[c].pc # "restore"
      <4>1. StageOf(m) \notin {"answered", "broken"}
        BY <2>1 DEF Ends, StageOf
      <4>2. QED
        BY <2>1, <3>1, <4>1, Stages DEF Hidden
    <3>4. call[c].resp = NoAnswer
      BY <3>1, <3>2, <3>3 DEF Unsaid, Ends
    <3>5. QED
      BY <2>1, <3>4 DEF Hidden
  <2>2. QED
    BY <1>1, <2>1 DEF GivesUp
<1>4. QED
  BY <1>1, <1>2, <1>3, UnsaidStep

\* What the steps that the store or the API decides make of their call.
LEMMA InvokeMove ==
    ASSUME TypeInv, NEW c \in Calls, Invoke(c)
    PROVE  \E m : /\ Become(c, m)
                  /\ call[c].pc = "idle" /\ m.pc \in {"squid", "key"}
                  /\ m.resp = NoAnswer /\ m.until = 0 /\ m.req \in Request
<1>1. PICK r \in Requests :
        Become(c, [IdleCall EXCEPT
                     !.pc = IF r.squid = NewSquid THEN "key" ELSE "squid",
                     !.req = r,
                     !.squid = IF r.squid = NewSquid THEN NoSquid ELSE r.squid])
  BY DEF Invoke
<1> DEFINE m == [IdleCall EXCEPT
                   !.pc = IF r.squid = NewSquid THEN "key" ELSE "squid",
                   !.req = r,
                   !.squid = IF r.squid = NewSquid THEN NoSquid ELSE r.squid]
<1>2. m.pc \in {"squid", "key"} /\ m.resp = NoAnswer /\ m.until = 0 /\ m.req = r
  BY DEF IdleCall
<1>3. r \in Request
  BY InputAssumption
<1>4. Become(c, m)
  BY <1>1
<1> HIDE DEF m
<1>5. QED
  BY <1>2, <1>3, <1>4 DEF Invoke

LEMMA KeyHitMove ==
    ASSUME TypeInv, NEW c \in Calls, KeyHit(c)
    PROVE  \E e \in Lookup(KeyOf(call[c].req)) : \E m :
             /\ Become(c, m)
             /\ call[c].pc = "key" /\ m.pc = "done" /\ m.req = call[c].req
             /\ m.resp.run = e.run /\ m.resp.state = "none" /\ m.resp.outcome # "raised"
             /\ m.until = call[c].until
<1> DEFINE me == call[c]
           a(e) == [NoAnswer EXCEPT !.outcome = "already_submitted", !.run = e.run]
<1>1. me \in CallState /\ me.pc = "key"
  BY CallType DEF KeyHit
<1>2. PICK e \in Lookup(KeyOf(me.req)) : Become(c, Finish(me, a(e)))
  BY DEF KeyHit
<1>3. a(e).run = e.run /\ a(e).state = "none" /\ a(e).outcome # "raised"
  BY DEF NoAnswer
<1> HIDE DEF a
<1>4. /\ Finish(me, a(e)).pc = "done" /\ Finish(me, a(e)).resp = a(e)
      /\ Finish(me, a(e)).req = me.req /\ Finish(me, a(e)).until = me.until
  BY <1>1 DEF Finish, CallState
<1>5. QED
  BY <1>1, <1>2, <1>3, <1>4

LEMMA StoreFailsMove ==
    ASSUME TypeInv, NEW c \in Calls, StoreFails(c)
    PROVE  \E m : /\ Become(c, m)
                  /\ call[c].pc = "key" /\ m.pc = "done" /\ m.req = call[c].req
                  /\ m.resp = Raised /\ m.until = call[c].until
<1>1. call[c] \in CallState /\ call[c].pc = "key"
  BY CallType DEF StoreFails
<1>2. Become(c, Finish(call[c], Raised))
  BY DEF StoreFails
<1>3. /\ Finish(call[c], Raised).pc = "done" /\ Finish(call[c], Raised).resp = Raised
      /\ Finish(call[c], Raised).req = call[c].req
      /\ Finish(call[c], Raised).until = call[c].until
  BY <1>1 DEF Finish, CallState
<1>4. QED
  BY <1>1, <1>2, <1>3

LEMMA KeyMissMove ==
    ASSUME TypeInv, NEW c \in Calls, KeyMiss(c)
    PROVE  \E m : /\ Become(c, m)
                  /\ call[c].pc = "key" /\ m.pc = "account" /\ m.resp = call[c].resp
                  /\ m.req = call[c].req /\ m.until = call[c].until
<1> DEFINE me == call[c]
           found == {i \in 1..Len(runs) : /\ runs[i].key = KeyOf(me.req)
                                          /\ Over(runs[i].by)}
           m == [me EXCEPT !.pc = "account", !.asked = now, !.known = found]
<1>1. Become(c, m) /\ me.pc = "key"
  BY DEF KeyMiss
<1>2. m.pc = "account" /\ m.resp = me.resp /\ m.req = me.req /\ m.until = me.until
  BY CallType DEF CallState
<1> HIDE DEF m
<1>3. QED
  BY <1>1, <1>2

LEMMA StartRunMove ==
    ASSUME TypeInv, NEW c \in Calls, StartRun(c)
    PROVE  \E o \in WriteEnds : \E m :
             /\ Become(c, m)
             /\ runs' = IF Applied(o) THEN Append(runs, RunOf(c, call[c])) ELSE runs
             /\ call[c].pc = "start" /\ m.req = call[c].req /\ m.until = call[c].until
             /\ o = "ok" => m.pc = "record" /\ m.resp = call[c].resp
             /\ o # "ok" => /\ m.pc \in {"restore", "done"}
                            /\ m.resp.run = 0 /\ m.resp.state = RequestState(o)
                            /\ m.resp.outcome = "failed"
<1> DEFINE me == call[c]
           a(o) == [Failed(o) EXCEPT !.squid = me.squid, !.taskCount = TaskCount(me)]
           go == [me EXCEPT !.pc = "record", !.run = Len(runs) + 1]
           undo(o) == [me EXCEPT !.pc = "restore", !.resp = a(o)]
<1>1. PICK o \in WriteEnds :
        /\ runs' = IF Applied(o) THEN Append(runs, RunOf(c, me)) ELSE runs
        /\ Become(c, IF o = "ok" THEN go
                     ELSE IF me.action = "replaced" THEN undo(o) ELSE Finish(me, a(o)))
  BY DEF StartRun
<1>2. me \in CallState /\ me.pc = "start"
  BY CallType DEF StartRun
<1>3. a(o).run = 0 /\ a(o).state = RequestState(o) /\ a(o).outcome = "failed"
  BY DEF Failed, NoAnswer
<1>4. go.pc = "record" /\ go.resp = me.resp /\ go.req = me.req /\ go.until = me.until
  BY <1>2 DEF CallState
<1>5. /\ undo(o).pc = "restore" /\ undo(o).resp = a(o)
      /\ undo(o).req = me.req /\ undo(o).until = me.until
  BY <1>2 DEF CallState
<1> HIDE DEF a
<1>6. /\ Finish(me, a(o)).pc = "done" /\ Finish(me, a(o)).resp = a(o)
      /\ Finish(me, a(o)).req = me.req /\ Finish(me, a(o)).until = me.until
  BY <1>2 DEF Finish, CallState
<1> HIDE DEF go, undo
<1> DEFINE m == IF o = "ok" THEN go
                ELSE IF me.action = "replaced" THEN undo(o) ELSE Finish(me, a(o))
<1>7. Become(c, m)
  BY <1>1
<1>8. /\ m.req = me.req /\ m.until = me.until
      /\ o = "ok" => m.pc = "record" /\ m.resp = me.resp
      /\ o # "ok" => /\ m.pc \in {"restore", "done"}
                     /\ m.resp.run = 0 /\ m.resp.state = RequestState(o)
                     /\ m.resp.outcome = "failed"
  BY <1>3, <1>4, <1>5, <1>6
<1> HIDE DEF m
<1>9. QED
  BY <1>1, <1>2, <1>7, <1>8

LEMMA RecordRunMove ==
    ASSUME TypeInv, NEW c \in Calls, RecordRun(c)
    PROVE  LET m == call'[c] IN
           /\ Become(c, m)
           /\ call[c].pc = "record" /\ m.pc = "done" /\ m.req = call[c].req
           /\ m.run = call[c].run
           /\ \/ /\ m.resp.outcome = "started" /\ m.resp.run = call[c].run
                 /\ m.resp.state = "none" /\ m.until = now + TTL(call[c].req)
              \/ /\ m.resp = Raised /\ SharedStore
                 /\ m.until \in {call[c].until, now + TTL(call[c].req)}
<1> DEFINE me == call[c]
           m == call'[c]
           t == now + TTL(me.req)
<1>1. \E n : Become(c, n)
  BY DEF RecordRun
<1>2. Become(c, m)
  BY <1>1, BecomeValue
<1>3. StartedAnswer(me).outcome = "started" /\ StartedAnswer(me).run = me.run
      /\ StartedAnswer(me).state = "none" /\ Raised.outcome = "raised"
  BY DEF StartedAnswer, Raised, NoAnswer
<1>4. /\ me.pc = "record" /\ m.pc = "done" /\ m.req = me.req /\ m.run = me.run
      /\ m.resp \in {StartedAnswer(me), Raised}
      /\ m.until = t \/ (m.until = me.until /\ m.resp = Raised)
      /\ m.resp.outcome = "raised" => SharedStore
  BY RecordEnds
<1> HIDE DEF t
<1>5. QED
  BY <1>2, <1>3, <1>4 DEF t

LEMMA RestartMove ==
    ASSUME TypeInv, NEW gone \in SUBSET Calls, Restart(gone)
    PROVE  /\ runs' = runs /\ now' = now
           /\ \A c \in gone : InFlight(c)
           /\ \A c \in Calls :
                /\ call'[c].pc = IF c \in gone THEN "dead" ELSE call[c].pc
                /\ call'[c].until \in {0, call[c].until}
                /\ call'[c].req = call[c].req /\ call'[c].resp = call[c].resp
                /\ call'[c].run = call[c].run
<1>1. ASSUME NEW c \in Calls
      PROVE  /\ call'[c].pc = IF c \in gone THEN "dead" ELSE call[c].pc
             /\ call'[c].until \in {0, call[c].until}
             /\ call'[c].req = call[c].req /\ call'[c].resp = call[c].resp
             /\ call'[c].run = call[c].run
  BY CallType DEF Restart, CallState
<1>2. QED
  BY <1>1 DEF Restart

LEMMA InitUnsaid == Init => Unsaid
  BY DEF Init, Unsaid, IdleCall

LEMMA NextUnsaid ==
    ASSUME TypeInv, Unsaid, [Next]_vars
    PROVE  Unsaid'
<1>1. ASSUME NEW c \in Calls, Step(c) PROVE Unsaid'
  <2>1. CASE Invoke(c)
    BY <2>1, InvokeMove, UnsaidStep
  <2>2. CASE KeyHit(c)
    <3>1. PICK m : Become(c, m) /\ m.pc = "done"
      BY <2>2, KeyHitMove
    <3>2. QED
      BY <3>1, UnsaidStep DEF Ends
  <2>3. CASE KeyMiss(c)
    <3>1. PICK m : /\ Become(c, m) /\ call[c].pc = "key"
                   /\ m.resp = call[c].resp /\ m.until = call[c].until
      BY <2>3, KeyMissMove
    <3>2. m.resp = NoAnswer /\ m.until = 0
      BY <3>1 DEF Unsaid, Ends
    <3>3. QED
      BY <3>1, <3>2, UnsaidStep
  <2>4. CASE StartRun(c)
    <3>1. PICK o, m :
            /\ o \in WriteEnds
            /\ Become(c, m) /\ call[c].pc = "start" /\ m.until = call[c].until
            /\ o = "ok" => m.resp = call[c].resp
            /\ o # "ok" => m.pc \in {"restore", "done"}
      BY <2>4, StartRunMove
    <3>2. call[c].resp = NoAnswer /\ call[c].until = 0
      BY <3>1 DEF Unsaid, Ends
    <3>3. QED
      BY <3>1, <3>2, UnsaidStep DEF Ends
  <2>5. CASE RecordRun(c)
    <3>1. Become(c, call'[c]) /\ call'[c].pc = "done"
      BY <2>5, RecordRunMove
    <3>2. QED
      BY <3>1, UnsaidStep DEF Ends
  <2>6. CASE StoreFails(c)
    <3>1. PICK m : Become(c, m) /\ m.pc = "done"
      BY <2>6, StoreFailsMove
    <3>2. QED
      BY <3>1, UnsaidStep DEF Ends
  <2>7. QED
    BY <1>1, <2>1, <2>2, <2>3, <2>4, <2>5, <2>6, MinorUnsaid DEF Minor, Plain
<1>2. ASSUME NEW gone \in SUBSET Calls, Restart(gone) PROVE Unsaid'
  <2>1. ASSUME NEW c \in Calls
        PROVE  /\ call'[c].pc \notin Ends => call'[c].resp = NoAnswer
               /\ call'[c].pc # "done" => call'[c].until = 0
    <3>1. c \in gone => call[c].pc # "done"
      BY <1>2, RestartMove DEF InFlight
    <3>2. /\ call'[c].pc = IF c \in gone THEN "dead" ELSE call[c].pc
          /\ call'[c].until \in {0, call[c].until}
          /\ call'[c].resp = call[c].resp
      BY <1>2, RestartMove
    <3>3. QED
      BY <3>1, <3>2 DEF Unsaid, Ends
  <2>2. QED
    BY <2>1 DEF Unsaid
<1>3. CASE Quiet \/ UNCHANGED vars \/ Tick \/ \E s \in Saved : OutsideEdit(s)
  BY <1>3 DEF Quiet, vars, Tick, OutsideEdit, Unsaid
<1>4. QED
  BY <1>1, <1>2, <1>3 DEF Next

-----------------------------------------------------------------------------
(* What PaidRuns sees of a step.                                           *)

LEMMA SeenStep ==
    ASSUME TypeInv, NEW c \in Calls, NEW m, Become(c, m)
    PROVE  /\ Stage' = [Stage EXCEPT ![c] = StageOf(m)]
           /\ Want' = [Want EXCEPT ![c] = KeyOf(m.req)]
           /\ Named' = [Named EXCEPT ![c] = m.resp.run]
           /\ Unsure' = IF m.resp.state = "unknown" THEN Unsure \cup {c}
                        ELSE Unsure \ {c}
<1>1. call'[c] = m /\ \A d \in Calls \ {c} : call'[d] = call[d]
  BY BecomeValue
<1>2. Stage' = [Stage EXCEPT ![c] = StageOf(m)]
  <2>1. \A d \in Calls : StageOf(call[d])' = StageOf(call'[d])
    BY DEF StageOf
  <2>2. QED
    BY <1>1, <2>1 DEF Stage
<1>3. Want' = [Want EXCEPT ![c] = KeyOf(m.req)]
  <2>1. \A d \in Calls : KeyOf(call[d].req)' = KeyOf(call'[d].req)
    BY DEF KeyOf
  <2>2. QED
    BY <1>1, <2>1 DEF Want
<1>4. Named' = [Named EXCEPT ![c] = m.resp.run]
  BY <1>1 DEF Named
<1>5. Unsure' = IF m.resp.state = "unknown" THEN Unsure \cup {c} ELSE Unsure \ {c}
  BY <1>1 DEF Unsure
<1>6. QED
  BY <1>2, <1>3, <1>4, <1>5

LEMMA SeenSame ==
    ASSUME NEW c \in Calls
    PROVE  /\ [Stage EXCEPT ![c] = StageOf(call[c])] = Stage
           /\ [Want EXCEPT ![c] = KeyOf(call[c].req)] = Want
           /\ [Named EXCEPT ![c] = call[c].resp.run] = Named
           /\ Stage[c] = StageOf(call[c]) /\ Want[c] = KeyOf(call[c].req)
           /\ call[c].resp.state = "unknown" => Unsure \cup {c} = Unsure
           /\ call[c].resp.state # "unknown" => Unsure \ {c} = Unsure
  BY DEF Stage, Want, Named, Unsure

\* A step that leaves what its call says of its run.
LEMMA SaysSame ==
    ASSUME TypeInv, NEW c \in Calls, NEW m, Become(c, m),
           m.resp.run = call[c].resp.run, m.resp.state = call[c].resp.state
    PROVE  Named' = Named /\ Unsure' = Unsure
<1>1. /\ call'[c].resp.run = call[c].resp.run /\ call'[c].resp.state = call[c].resp.state
      /\ \A d \in Calls \ {c} : call'[d] = call[d]
  BY BecomeValue
<1>2. \A d \in Calls : /\ call'[d].resp.run = call[d].resp.run
                       /\ call'[d].resp.state = call[d].resp.state
  BY <1>1
<1>3. QED
  BY <1>2 DEF Named, Unsure

\* The answers of the other calls, and with them the promises, stay.
LEMMA PromisesSame ==
    ASSUME NEW c \in Calls, now' = now, \A d \in Calls \ {c} : call'[d] = call[d],
           call[c].until = 0, call'[c].until = 0, now \in Nat
    PROVE  Promises' = Promises
<1>1. \A d \in Calls : now' < call'[d].until <=> now < call[d].until
  <2>1. ~(now < 0)
    OBVIOUS
  <2>2. QED
    BY <2>1
<1>2. \A d \in Calls : now < call[d].until => call'[d] = call[d]
  BY <1>1
<1>3. QED
  BY <1>1, <1>2 DEF Promises, KeyOf

SoldTyped ==
    /\ Sold \in Seq([by : Calls, key : StoreKeys])
    /\ Len(Sold) = Len(runs)
    /\ \A i \in 1..Len(runs) : Sold[i] = SoldAs(runs[i])

LEMMA SoldType == TypeInv => SoldTyped
<1> SUFFICES ASSUME TypeInv PROVE SoldTyped
  OBVIOUS
<1> DEFINE Run == [squid : Squids, rows : SUBSET Rows, cfg : Cfgs,
                   accounts : SUBSET Accounts, by : Calls, key : StoreKeys]
           Sale == [by : Calls, key : StoreKeys]
<1>1. runs \in Seq(Run)
  BY DEF TypeInv, TypeOK
<1>2. \A r \in Run : SoldAs(r) \in Sale
  BY DEF SoldAs
<1> HIDE DEF Run, Sale
<1>3. Len(runs) \in Nat /\ \A i \in 1..Len(runs) : SoldAs(runs[i]) \in Sale
  BY <1>1, <1>2
<1>4. Sold \in [1..Len(runs) -> Sale]
  BY <1>3 DEF Sold
<1>5. Sold \in Seq(Sale) /\ Len(Sold) = Len(runs)
  BY <1>3, <1>4
<1>6. QED
  BY <1>5 DEF SoldTyped, Sold, Sale

LEMMA SoldTypeNext == TypeInv' => SoldTyped'
  BY SoldType, PTL

LEMMA AppendsOne ==
    ASSUME NEW S, NEW s \in Seq(S), NEW t \in Seq(S),
           Len(t) = Len(s) + 1, \A i \in 1..Len(s) : t[i] = s[i]
    PROVE  t = Append(s, t[Len(s) + 1])
<1> DEFINE e == t[Len(s) + 1]
           u == Append(s, e)
<1>1. e \in S /\ Len(s) \in Nat
  OBVIOUS
<1> HIDE DEF e
<1>2. u \in Seq(S) /\ Len(u) = Len(s) + 1 /\ u[Len(s) + 1] = e
      /\ \A i \in 1..Len(s) : u[i] = s[i]
  BY <1>1, AppendProperties
<1> HIDE DEF u
<1>3. \A i \in 1..Len(t) : t[i] = u[i]
  BY <1>1, <1>2 DEF e
<1>4. t = u
  BY <1>2, <1>3, SeqEqual
<1>5. QED
  BY <1>4 DEF u, e

LEMMA SoldGrows ==
    ASSUME TypeInv, TypeInv', NEW r, runs' = Append(runs, r)
    PROVE  Sold' = Append(Sold, SoldAs(r))
<1> DEFINE Sale == [by : Calls, key : StoreKeys]
           Run == [squid : Squids, rows : SUBSET Rows, cfg : Cfgs,
                   accounts : SUBSET Accounts, by : Calls, key : StoreKeys]
<1>1. /\ Sold \in Seq(Sale) /\ Len(Sold) = Len(runs)
      /\ \A i \in 1..Len(runs) : Sold[i] = SoldAs(runs[i])
  BY SoldType DEF SoldTyped
<1>2. /\ Sold' \in Seq(Sale) /\ Len(Sold') = Len(runs')
      /\ \A i \in 1..Len(runs') : Sold'[i] = SoldAs(runs'[i])
  BY SoldTypeNext DEF SoldTyped, SoldAs
<1>3. runs \in Seq(Run)
  BY DEF TypeInv, TypeOK
<1> HIDE DEF Run, Sale
<1>4. /\ Len(runs) \in Nat /\ Len(runs') = Len(runs) + 1
      /\ \A i \in 1..Len(runs) : runs'[i] = runs[i]
      /\ runs'[Len(runs) + 1] = r
  BY <1>3
<1>5. Sold' = Append(Sold, Sold'[Len(Sold) + 1])
  BY <1>1, <1>2, <1>4, AppendsOne
<1>6. Sold'[Len(Sold) + 1] = SoldAs(r)
  BY <1>1, <1>2, <1>4
<1>7. QED
  BY <1>5, <1>6

-----------------------------------------------------------------------------
(* Every step is one of PaidRuns, or none.                                 *)

Simulated == Paid!Next \/ UNCHANGED Paid!vars

LEMMA MinorPaid ==
    ASSUME TypeInv, Unsaid, NEW c \in Calls, Minor(c)
    PROVE  Simulated
<1>1. PICK m : Become(c, m) /\ (Hidden(call[c], m) \/ GivesUp(call[c], m))
  BY MinorMoves
<1>2. call'[c] = m /\ \A d \in Calls \ {c} : call'[d] = call[d]
  BY <1>1, BecomeValue
<1>3. runs' = runs /\ now' = now
  BY DEF Minor, Plain, Step, GetSquid, CatalogFails, RefuseInput,
         AccountsFail, ResolveAccounts, SnapshotTasks, AskConfirmation, BalanceFails,
         RefuseTasks, PassGate, UpdateSquid, EmptySquid, AddTasks, LinkAccounts,
         CreateSquid, ConfigureSquid, DeleteSquid, RestoreNothing, RestoreTasks,
         ReadOnly, Elsewhere
<1>4. Sold' = Sold
  BY <1>3 DEF Sold
<1>5. Promises' = Promises /\ m.req = call[c].req
  BY <1>2, <1>3, UntilStays, PromisesSame, Numbers DEF Minor
<1>6. Want' = Want
  BY <1>1, <1>5, SeenStep, SeenSame
<1>7. CASE Hidden(call[c], m)
  <2>1. Stage' = Stage /\ Named' = Named /\ Unsure' = Unsure
    BY <1>1, <1>7, SeenStep, SeenSame, SaysSame DEF Hidden
  <2>2. QED
    BY <1>4, <1>5, <1>6, <2>1 DEF Simulated, Paid!vars
<1>8. CASE GivesUp(call[c], m)
  <2>1. Stage' = [Stage EXCEPT ![c] = "answered"] /\ Named' = [Named EXCEPT ![c] = 0]
    BY <1>1, <1>8, SeenStep DEF GivesUp
  <2>2. \E doubt \in BOOLEAN : Unsure' = IF doubt THEN Unsure \cup {c} ELSE Unsure \ {c}
    BY <1>1, SeenStep
  <2>3. Stage[c] \in {"asking", "buying"}
    BY <1>8, SeenSame DEF GivesUp
  <2>4. Paid!GiveUp(c)
    BY <1>4, <1>5, <1>6, <2>1, <2>2, <2>3 DEF Paid!GiveUp, Paid!Answer
  <2>5. QED
    BY <2>4 DEF Simulated, Paid!Next
<1>9. QED
  BY <1>1, <1>7, <1>8

LEMMA InvokePaid ==
    ASSUME TypeInv, Unsaid, NEW c \in Calls, Invoke(c)
    PROVE  Simulated
<1>1. PICK m : /\ Become(c, m)
               /\ call[c].pc = "idle" /\ m.pc \in {"squid", "key"}
               /\ m.resp = NoAnswer /\ m.until = 0 /\ m.req \in Request
  BY InvokeMove
<1>2. call'[c] = m /\ \A d \in Calls \ {c} : call'[d] = call[d]
  BY <1>1, BecomeValue
<1>3. runs' = runs /\ now' = now
  BY DEF Invoke, ReadOnly
<1>4. call[c].resp = NoAnswer /\ call[c].until = 0
  BY <1>1 DEF Unsaid, Ends
<1>5. Sold' = Sold /\ Promises' = Promises
  BY <1>1, <1>2, <1>3, <1>4, PromisesSame, Numbers DEF Sold
<1>6. StageOf(m) = "asking" /\ StageOf(call[c]) = "idle"
  BY <1>1 DEF StageOf
<1>7. /\ Stage' = [Stage EXCEPT ![c] = "asking"] /\ Stage[c] = "idle"
      /\ Named' = Named /\ Unsure' = Unsure
  BY <1>1, <1>4, <1>6, SeenStep, SeenSame, SaysSame
<1>8. Want' = [Want EXCEPT ![c] = KeyOf(m.req)] /\ KeyOf(m.req) \in StoreKeys
  BY <1>1, SeenStep, KeyType
<1>9. Paid!Ask(c)
  BY <1>5, <1>7, <1>8 DEF Paid!Ask
<1>10. QED
  BY <1>9 DEF Simulated, Paid!Next

\* What the store returns was bought for the key.
LEMMA KeyHitPaid ==
    ASSUME TypeInv, RunInv, Unsaid, NEW c \in Calls, KeyHit(c)
    PROVE  Simulated
<1>1. PICK e, m :
        /\ e \in Lookup(KeyOf(call[c].req))
        /\ Become(c, m)
        /\ call[c].pc = "key" /\ m.pc = "done" /\ m.req = call[c].req
        /\ m.resp.run = e.run /\ m.resp.state = "none" /\ m.resp.outcome # "raised"
        /\ m.until = call[c].until
  BY KeyHitMove
<1>2. call'[c] = m /\ \A d \in Calls \ {c} : call'[d] = call[d]
  BY <1>1, BecomeValue
<1>3. runs' = runs /\ now' = now
  BY DEF KeyHit, ReadOnly
<1>4. call[c].until = 0
  BY <1>1 DEF Unsaid
<1>5. Sold' = Sold /\ Promises' = Promises
  BY <1>1, <1>2, <1>3, <1>4, PromisesSame, Numbers DEF Sold
<1>6. e.run \in 1..Len(runs) /\ runs[e.run].key = KeyOf(call[c].req)
  BY <1>1 DEF RunInv, StoreSound, Lookup
<1>7. e.run \in 1..Len(Sold) /\ Sold[e.run].key = Want[c]
  <2>1. Len(Sold) = Len(runs) /\ Sold[e.run] = SoldAs(runs[e.run])
    BY <1>6, SoldType DEF SoldTyped
  <2>2. SoldAs(runs[e.run]).key = Want[c]
    BY <1>6, SeenSame DEF SoldAs
  <2>3. QED
    BY <1>6, <2>1, <2>2
<1>8. StageOf(m) = "answered" /\ StageOf(call[c]) = "asking"
  BY <1>1 DEF StageOf
<1>9. /\ Stage[c] = "asking" /\ Stage' = [Stage EXCEPT ![c] = "answered"]
      /\ Named' = [Named EXCEPT ![c] = e.run] /\ Unsure' = Unsure \ {c}
      /\ Want' = Want
  BY <1>1, <1>8, SeenStep, SeenSame
<1>10. Paid!Repeat(c)
  BY <1>5, <1>7, <1>9 DEF Paid!Repeat, Paid!Answer
<1>11. QED
  BY <1>10 DEF Simulated, Paid!Next

\* A miss proves that nothing is owed to the key.
LEMMA KeyMissPaid ==
    ASSUME TypeInv, IdemInv, Unsaid, NEW c \in Calls, KeyMiss(c)
    PROVE  Simulated
<1>1. PICK m : /\ Become(c, m)
               /\ call[c].pc = "key" /\ m.pc = "account" /\ m.resp = call[c].resp
               /\ m.req = call[c].req /\ m.until = call[c].until
  BY KeyMissMove
<1>2. call'[c] = m /\ \A d \in Calls \ {c} : call'[d] = call[d]
  BY <1>1, BecomeValue
<1>3. runs' = runs /\ now' = now /\ Lookup(KeyOf(call[c].req)) = {}
  BY DEF KeyMiss, ReadOnly
<1>4. call[c].until = 0
  BY <1>1 DEF Unsaid
<1>5. Sold' = Sold /\ Promises' = Promises
  BY <1>1, <1>2, <1>3, <1>4, PromisesSame, Numbers DEF Sold
<1>6. StageOf(m) = "buying" /\ StageOf(call[c]) = "asking"
  BY <1>1 DEF StageOf
<1>7. /\ Stage[c] = "asking" /\ Stage' = [Stage EXCEPT ![c] = "buying"]
      /\ Named' = Named /\ Unsure' = Unsure /\ Want' = Want
  BY <1>1, <1>6, SeenStep, SeenSame, SaysSame
<1>8. ASSUME NEW p \in Promises, p.key = Want[c] PROVE FALSE
  <2>1. PICK d \in Calls : now < call[d].until /\ KeyOf(call[d].req) = KeyOf(call[c].req)
    BY <1>8, SeenSame DEF Promises
  <2>2. PICK e \in idem : e.key = KeyOf(call[d].req) /\ e.until >= call[d].until
    BY <2>1 DEF IdemInv, PromiseKept
  <2>3. ~Expired(e)
    BY <2>1, <2>2, Numbers DEF Expired
  <2>4. QED
    BY <1>3, <2>1, <2>2, <2>3 DEF Lookup
<1>9. Paid!Consult(c)
  BY <1>5, <1>7, <1>8 DEF Paid!Consult, Paid!Owed
<1>10. QED
  BY <1>9 DEF Simulated, Paid!Next

\* A start that is applied is a sale, whether or not its answer arrives.
LEMMA StartRunPaid ==
    ASSUME TypeInv, TypeInv', Unsaid, NEW c \in Calls, StartRun(c)
    PROVE  Simulated
<1>1. PICK o, m :
        /\ o \in WriteEnds
        /\ Become(c, m)
        /\ runs' = IF Applied(o) THEN Append(runs, RunOf(c, call[c])) ELSE runs
        /\ call[c].pc = "start" /\ m.req = call[c].req /\ m.until = call[c].until
        /\ o = "ok" => m.pc = "record" /\ m.resp = call[c].resp
        /\ o # "ok" => /\ m.pc \in {"restore", "done"}
                       /\ m.resp.run = 0 /\ m.resp.state = RequestState(o)
                       /\ m.resp.outcome = "failed"
  BY StartRunMove
<1>2. call'[c] = m /\ \A d \in Calls \ {c} : call'[d] = call[d]
  BY <1>1, BecomeValue
<1>3. now' = now /\ call[c].until = 0
  BY <1>1 DEF StartRun, Unsaid
<1>4. Promises' = Promises
  BY <1>1, <1>2, <1>3, PromisesSame, Numbers
<1>5. Stage[c] = "buying" /\ Want' = Want
  <2>1. StageOf(call[c]) = "buying"
    BY <1>1 DEF StageOf
  <2>2. QED
    BY <1>1, <2>1, SeenStep, SeenSame
<1>6. Applied(o) => Sold' = Append(Sold, [by |-> c, key |-> Want[c]])
  <2>1. SoldAs(RunOf(c, call[c])) = [by |-> c, key |-> Want[c]]
    BY SeenSame DEF SoldAs, RunOf
  <2>2. QED
    BY <1>1, <2>1, SoldGrows
<1>7. CASE o = "ok"
  <2>1. StageOf(m) = "bought" /\ Applied(o)
    BY <1>1, <1>7 DEF StageOf, Applied
  <2>2. Stage' = [Stage EXCEPT ![c] = "bought"] /\ Named' = Named /\ Unsure' = Unsure
    BY <1>1, <1>7, <2>1, SeenStep, SeenSame, SaysSame
  <2>3. Paid!Sell(c)
    BY <1>4, <1>5, <1>6, <2>1, <2>2 DEF Paid!Sell
  <2>4. QED
    BY <2>3 DEF Simulated, Paid!Next
<1>8. CASE o # "ok"
  <2>1. StageOf(m) = "answered"
    BY <1>1, <1>8 DEF StageOf
  <2>2. Stage' = [Stage EXCEPT ![c] = "answered"] /\ Named' = [Named EXCEPT ![c] = 0]
    BY <1>1, <1>8, <2>1, SeenStep
  <2>3. Unsure' = IF RequestState(o) = "unknown" THEN Unsure \cup {c} ELSE Unsure \ {c}
    BY <1>1, <1>8, SeenStep
  <2>4. CASE Applied(o)
    <3>1. RequestState(o) = "unknown"
      BY <1>8, <2>4 DEF Applied, RequestState, Transport
    <3>2. Paid!Sell(c)
      BY <1>4, <1>5, <1>6, <2>2, <2>3, <2>4, <3>1 DEF Paid!Sell, Paid!Answer
    <3>3. QED
      BY <3>2 DEF Simulated, Paid!Next
  <2>5. CASE ~Applied(o)
    <3>1. Sold' = Sold
      BY <1>1, <2>5 DEF Sold
    <3>2. Paid!GiveUp(c)
      BY <1>4, <1>5, <2>2, <2>3, <3>1 DEF Paid!GiveUp, Paid!Answer
    <3>3. QED
      BY <3>2 DEF Simulated, Paid!Next
  <2>6. QED
    BY <2>4, <2>5
<1>9. QED
  BY <1>7, <1>8

\* A call that has started its run owes it when the store is given it.
LEMMA PromisesGrow ==
    ASSUME TypeInv, NEW c \in Calls, now' = now, call[c].until = 0,
           \A d \in Calls \ {c} : call'[d] = call[d],
           call'[c].req = call[c].req, call'[c].run = call[c].run,
           call'[c].until = now + TTL(call[c].req)
    PROVE  Promises' = Promises \cup {[key |-> Want[c], run |-> call[c].run]}
<1> DEFINE new == [key |-> Want[c], run |-> call[c].run]
<1>1. now < call'[c].until /\ ~(now < call[c].until)
  <2>1. now \in Nat /\ TTL(call[c].req) \in Nat \ {0}
    BY Numbers, NumberAssumption DEF TTL
  <2>2. QED
    BY <2>1
<1>2. [key |-> KeyOf(call'[c].req), run |-> call'[c].run] = new
  BY SeenSame
<1>3. \A d \in Calls : /\ now' < call'[d].until <=> d = c \/ now < call[d].until
                       /\ d # c => call'[d] = call[d]
  BY <1>1
<1>4. Promises' = {[key |-> KeyOf(call'[d].req), run |-> call'[d].run] :
                     d \in {x \in Calls : x = c \/ now < call[x].until}}
  BY <1>3 DEF Promises, KeyOf
<1> HIDE DEF new
<1>5. Promises' = Promises \cup {new}
  BY <1>1, <1>2, <1>3, <1>4 DEF Promises
<1>6. QED
  BY <1>5 DEF new

\* The run told is the call's own, and promised from now on; when the store fails
\* nothing is told, and the run is promised or not.
LEMMA RecordRunPaid ==
    ASSUME TypeInv, RunInv, Unsaid, NEW c \in Calls, RecordRun(c)
    PROVE  Simulated
<1> DEFINE m == call'[c]
           i == call[c].run
           new == [key |-> Want[c], run |-> i]
<1>1. /\ Become(c, m)
      /\ call[c].pc = "record" /\ m.pc = "done" /\ m.req = call[c].req /\ m.run = i
      /\ \/ /\ m.resp.outcome = "started" /\ m.resp.run = i
            /\ m.resp.state = "none" /\ m.until = now + TTL(call[c].req)
         \/ /\ m.resp = Raised /\ SharedStore
            /\ m.until \in {call[c].until, now + TTL(call[c].req)}
  BY RecordRunMove
<1>2. \A d \in Calls \ {c} : call'[d] = call[d]
  BY <1>1, BecomeValue
<1>3. /\ runs' = runs /\ now' = now
      /\ call[c].until = 0 /\ call[c].resp = NoAnswer
  BY <1>1 DEF RecordRun, Unsaid, Ends
<1>4. Sold' = Sold
  BY <1>3 DEF Sold
<1>5. i \in 1..Len(Sold) /\ Sold[i] = [by |-> c, key |-> Want[c]]
  BY <1>1, SoldType, SeenSame DEF SoldTyped, RunInv, RecordsItsRun, SoldAs
<1>6. m.until = now + TTL(call[c].req) => Promises' = Promises \cup {new}
  BY <1>1, <1>2, <1>3, PromisesGrow
<1>7. m.until = call[c].until => Promises' = Promises
  BY <1>2, <1>3, PromisesSame, Numbers
<1>8. Stage[c] = "bought" /\ Want' = Want
  <2>1. StageOf(call[c]) = "bought"
    BY <1>1 DEF StageOf
  <2>2. QED
    BY <1>1, <2>1, SeenStep, SeenSame
<1>9. CASE m.resp.outcome = "started"
  <2>1. StageOf(m) = "answered"
    BY <1>1, <1>9 DEF StageOf
  <2>2. m.resp # Raised
    BY <1>9 DEF Raised, NoAnswer
  <2>3. /\ Stage' = [Stage EXCEPT ![c] = "answered"]
        /\ Named' = [Named EXCEPT ![c] = i] /\ Unsure' = Unsure \ {c}
    BY <1>1, <2>1, <2>2, SeenStep
  <2>4. Promises' = Promises \cup {new}
    BY <1>1, <1>6, <2>2
  <2> HIDE DEF i
  <2>5. Paid!Tell(c)
    BY <1>4, <1>5, <1>8, <2>3, <2>4 DEF Paid!Tell, Paid!Answer
  <2>6. QED
    BY <2>5 DEF Simulated, Paid!Next
<1>10. CASE m.resp = Raised /\ SharedStore
  <2>1. m.resp.run = 0 /\ m.resp.state = "none" /\ m.resp.outcome = "raised"
    BY <1>10 DEF Raised, NoAnswer
  <2>2. StageOf(m) = "broken"
    BY <1>1, <2>1 DEF StageOf
  <2>3. Named' = Named /\ Unsure' = Unsure
    BY <1>1, <1>3, <2>1, SaysSame DEF NoAnswer
  <2>4. Stage' = [Stage EXCEPT ![c] = "broken"]
    BY <1>1, <2>2, SeenStep
  <2>5. Promises' = Promises \/ Promises' = Promises \cup {new}
    BY <1>1, <1>3, <1>6, <1>7, <2>1
  <2> HIDE DEF i
  <2>6. Paid!Break(c)
    BY <1>4, <1>5, <1>8, <1>10, <2>3, <2>4, <2>5 DEF Paid!Break
  <2>7. QED
    BY <2>6 DEF Simulated, Paid!Next
<1>11. QED
  BY <1>1, <1>9, <1>10

\* The lookup fails, and the call with it.
LEMMA StoreFailsPaid ==
    ASSUME TypeInv, Unsaid, NEW c \in Calls, StoreFails(c)
    PROVE  Simulated
<1>1. PICK m : /\ Become(c, m)
               /\ call[c].pc = "key" /\ m.pc = "done" /\ m.req = call[c].req
               /\ m.resp = Raised /\ m.until = call[c].until
  BY StoreFailsMove
<1>2. call'[c] = m /\ \A d \in Calls \ {c} : call'[d] = call[d]
  BY <1>1, BecomeValue
<1>3. runs' = runs /\ now' = now /\ SharedStore
  BY DEF StoreFails, ReadOnly
<1>4. call[c].resp = NoAnswer /\ call[c].until = 0
  BY <1>1 DEF Unsaid, Ends
<1>5. Sold' = Sold /\ Promises' = Promises
  BY <1>1, <1>2, <1>3, <1>4, PromisesSame, Numbers DEF Sold
<1>6. m.resp.run = 0 /\ m.resp.state = "none" /\ m.resp.outcome = "raised"
  BY <1>1 DEF Raised, NoAnswer
<1>7. StageOf(m) = "broken" /\ StageOf(call[c]) = "asking"
  BY <1>1, <1>6 DEF StageOf
<1>8. /\ Stage[c] = "asking" /\ Stage' = [Stage EXCEPT ![c] = "broken"]
      /\ Want' = Want
  BY <1>1, <1>7, SeenStep, SeenSame
<1>9. Named' = Named /\ Unsure' = Unsure
  BY <1>1, <1>4, <1>6, SaysSame DEF NoAnswer
<1>10. Paid!Break(c)
  BY <1>3, <1>5, <1>8, <1>9 DEF Paid!Break
<1>11. QED
  BY <1>10 DEF Simulated, Paid!Next

LEMMA TickPaid ==
    ASSUME TypeInv, Tick
    PROVE  Simulated
<1>1. now' = now + 1 /\ UNCHANGED <<runs, call>>
  BY DEF Tick
<1>2. UNCHANGED <<Stage, Want, Sold, Named, Unsure>>
  BY <1>1 DEF Stage, StageOf, Want, KeyOf, Sold, SoldAs, Named, Unsure
<1>3. \A c \in Calls : now' < call'[c].until => now < call[c].until
  BY <1>1, Numbers
<1>4. Promises' \in SUBSET Promises
  BY <1>1, <1>3 DEF Promises, KeyOf
<1>5. Paid!Lapse
  BY <1>2, <1>4 DEF Paid!Lapse
<1>6. QED
  BY <1>5 DEF Simulated, Paid!Next

LEMMA RestartPaid ==
    ASSUME TypeInv, NEW gone \in SUBSET Calls, Restart(gone)
    PROVE  Simulated
<1>1. /\ runs' = runs /\ now' = now
      /\ \A c \in gone : InFlight(c)
      /\ \A c \in Calls :
           /\ call'[c].pc = IF c \in gone THEN "dead" ELSE call[c].pc
           /\ call'[c].until \in {0, call[c].until}
           /\ call'[c].req = call[c].req /\ call'[c].resp = call[c].resp
           /\ call'[c].run = call[c].run
  BY RestartMove
<1>2. UNCHANGED <<Want, Sold, Named, Unsure>>
  BY <1>1 DEF Want, KeyOf, Sold, SoldAs, Named, Unsure
<1>3. Stage' = [c \in Calls |-> IF c \in gone THEN "dead" ELSE Stage[c]]
  BY <1>1 DEF Stage, StageOf
<1>4. ASSUME NEW c \in gone PROVE Stage[c] # "idle"
  <2>1. call[c] \in CallState /\ call[c].pc # "idle"
    BY <1>1, CallType DEF InFlight
  <2>2. QED
    BY <2>1, SeenSame DEF StageOf, CallState
<1>5. Promises' \in SUBSET Promises
  <2>1. \A c \in Calls : now' < call'[c].until => now < call[c].until
    BY <1>1, Numbers
  <2>2. QED
    BY <1>1, <2>1 DEF Promises, KeyOf
<1>6. Paid!Crash
  <2>1. gone \in SUBSET {c \in Calls : Stage[c] # "idle"}
    BY <1>4
  <2>2. QED
    BY <1>2, <1>3, <1>5, <2>1 DEF Paid!Crash
<1>7. QED
  BY <1>6 DEF Simulated, Paid!Next

LEMMA InitPaid == Init => Paid!Init
<1> SUFFICES ASSUME Init PROVE Paid!Init
  OBVIOUS
<1>1. TypeInv
  BY InitType
<1>2. \A c \in Calls : call[c] = IdleCall /\ call[c].req \in Request
  BY <1>1, Numbers DEF Init
<1>3. Stage = [c \in Calls |-> "idle"]
  BY <1>2 DEF Stage, StageOf, IdleCall
<1>4. Want \in [Calls -> StoreKeys]
  BY <1>2, KeyType DEF Want
<1>5. Sold = << >>
  <2>1. Len(runs) = 0
    BY DEF Init
  <2>2. Sold \in Seq([by : Calls, key : StoreKeys]) /\ Len(Sold) = 0
    BY <1>1, <2>1, SoldType DEF SoldTyped
  <2>3. QED
    BY <2>2
<1>6. Named = [c \in Calls |-> 0] /\ Unsure = {}
  BY <1>2 DEF Named, Unsure, IdleCall, NoAnswer
<1>7. Promises = {}
  <2>1. \A c \in Calls : ~(now < call[c].until)
    BY <1>2 DEF Init, IdleCall
  <2>2. QED
    BY <2>1 DEF Promises
<1>8. QED
  BY <1>3, <1>4, <1>5, <1>6, <1>7 DEF Paid!Init

LEMMA NextPaid ==
    ASSUME TypeInv, TypeInv', RunInv, IdemInv, Unsaid, [Next]_vars
    PROVE  Simulated
<1>1. ASSUME NEW c \in Calls, Step(c) PROVE Simulated
  BY <1>1, MinorPaid, InvokePaid, KeyHitPaid, StoreFailsPaid, KeyMissPaid, StartRunPaid,
     RecordRunPaid
     DEF Minor, Plain
<1>2. CASE Quiet \/ UNCHANGED vars \/ \E s \in Saved : OutsideEdit(s)
  <2>1. UNCHANGED <<runs, now, call>>
    BY <1>2 DEF Quiet, vars, OutsideEdit
  <2>2. UNCHANGED Paid!vars
    BY <2>1 DEF Paid!vars, Stage, StageOf, Want, KeyOf, Sold, SoldAs, Named, Unsure,
                Promises
  <2>3. QED
    BY <2>2 DEF Simulated
<1>3. QED
  BY <1>1, <1>2, TickPaid, RestartPaid DEF Next

\* However many calls overlap, whatever fails and wherever processes die, what a
\* caller of run_scraper sees of its runs is a behaviour of PaidRuns: a call buys at
\* most one run, its answer names it or owns up, and no key that is owed a run buys
\* another; only when the store itself fails under it does a call end without saying
\* what it bought (execution.py:486-495, 692-733).
THEOREM PaysAsPromised == Spec => KeepsPaidPromises
<1>1. TypeInv /\ TypeInv' /\ RunInv /\ IdemInv /\ Unsaid /\ [Next]_vars
        => Unsaid' /\ [Paid!Next]_(Paid!vars)
  BY NextUnsaid, NextPaid DEF Simulated
<1>2. QED
  BY <1>1, InitUnsaid, InitPaid, Safe, Idempotent, PTL DEF Spec, KeepsPaidPromises, Paid!Spec
=============================================================================
