-------------------------- MODULE RunScraperSafety --------------------------
(***************************************************************************)
(* Safety of the paid step: what the store remembers, what an answer says  *)
(* about the runs that were started, and that a call which repeats one     *)
(* whose run it could have been told starts none.                          *)
(***************************************************************************)
EXTENDS RunScraperProofs

Ends == {"restore", "done", "dead"}

\* A call that is about to record its run knows it.
RecordsItsRun ==
    \A c \in Calls :
      call[c].pc = "record" =>
        /\ call[c].run \in 1..Len(runs)
        /\ runs[call[c].run].key = KeyOf(call[c].req)
        /\ runs[call[c].run].by = c

\* A call has no answer before its last step.
Unanswered ==
    \A c \in Calls : call[c].pc \notin Ends => call[c].resp.outcome = "none"

\* The call that started a run is past its start and knows the run, or says that
\* it does not know, or died before it could say anything.
Owned(r, i) ==
    LET me == call[r.by] IN
    /\ me.pc \in Ends \cup {"record"}
    /\ me.pc = "record" => me.run = i
    /\ me.pc = "restore" => me.resp.state = "unknown"
    /\ me.pc \in {"done", "dead"} =>
         \/ me.resp.outcome = "none"
         \/ me.resp.outcome = "started" /\ me.resp.run = i
         \/ me.resp.state = "unknown"
         \/ me.resp.outcome = "raised" /\ me.run = i

RunsOwned == \A i \in 1..Len(runs) : Owned(runs[i], i)

RunInv == StoreSound /\ RecordsItsRun /\ Unanswered /\ RunsOwned

-----------------------------------------------------------------------------
(* What the actions have in common.                                        *)

LEMMA RunType ==
    ASSUME TypeInv
    PROVE  /\ Len(runs) \in Nat
           /\ \A i \in 1..Len(runs) : runs[i].by \in Calls
<1> DEFINE Run == [squid : Squids, rows : SUBSET Rows, cfg : Cfgs,
                   accounts : SUBSET Accounts, by : Calls, key : StoreKeys]
<1>1. runs \in Seq(Run)
  BY DEF TypeInv, TypeOK
<1>2. \A r \in Run : r.by \in Calls
  OBVIOUS
<1> HIDE DEF Run
<1>3. Len(runs) \in Nat /\ \A i \in 1..Len(runs) : runs[i] \in Run
  BY <1>1
<1>4. QED
  BY <1>2, <1>3

LEMMA BecomeValue ==
    ASSUME TypeInv, NEW c \in Calls, NEW m, Become(c, m)
    PROVE  call'[c] = m /\ \A d \in Calls \ {c} : call'[d] = call[d]
  BY DEF TypeInv, TypeOK, Become

\* A step of a call that has started no run, and starts none.
LEMMA EarlyStep ==
    ASSUME TypeInv, RunInv, NEW c \in Calls, NEW m, Become(c, m),
           runs' = runs, idem' \subseteq idem,
           call[c].pc \notin Ends \cup {"record"},
           m.pc # "record", m.pc \in Ends \/ m.resp.outcome = "none"
    PROVE  RunInv'
<1>1. call'[c] = m /\ \A d \in Calls \ {c} : call'[d] = call[d]
  BY BecomeValue
<1>2. StoreSound'
  BY DEF RunInv, StoreSound
<1>3. RecordsItsRun'
  BY <1>1 DEF RunInv, RecordsItsRun
<1>4. Unanswered'
  BY <1>1 DEF RunInv, Unanswered
<1>5. RunsOwned'
  <2>1. ASSUME NEW i \in 1..Len(runs)
        PROVE  Owned(runs[i], i)'
    <3>1. Owned(runs[i], i) /\ runs[i].by \in Calls
      BY RunType DEF RunInv, RunsOwned
    <3>2. runs[i].by # c
      BY <3>1 DEF Owned
    <3>3. call'[runs[i].by] = call[runs[i].by]
      BY <1>1, <3>1, <3>2
    <3>4. QED
      BY <3>1, <3>3 DEF Owned
  <2>2. QED
    BY <2>1 DEF RunsOwned
<1>6. QED
  BY <1>2, <1>3, <1>4, <1>5 DEF RunInv

\* What an early step makes of its call.
Early(c) ==
    /\ call[c].pc \notin Ends \cup {"record"}
    /\ \E m : /\ Become(c, m)
              /\ m.pc # "record"
              /\ m.pc \in Ends \/ m.resp.outcome = "none"

LEMMA FinishEnds ==
    ASSUME NEW m \in CallState, NEW a
    PROVE  Finish(m, a).pc = "done" /\ Finish(m, a).resp = a
  BY DEF Finish, CallState

\* A call before its last step, moved on without an answer.
LEMMA MovesOn ==
    ASSUME TypeInv, RunInv, NEW c \in Calls, call[c].pc \notin Ends
    PROVE  call[c] \in CallState /\ call[c].resp.outcome = "none"
  BY CallType DEF RunInv, Unanswered

LEMMA ReadsAreEarly ==
    ASSUME TypeInv, RunInv, NEW c \in Calls,
           \/ Invoke(c) \/ GetSquid(c) \/ CatalogFails(c) \/ RefuseInput(c)
           \/ KeyHit(c) \/ KeyMiss(c) \/ StoreFails(c) \/ AccountsFail(c)
           \/ ResolveAccounts(c) \/ SnapshotTasks(c) \/ AskConfirmation(c)
           \/ BalanceFails(c) \/ RefuseTasks(c) \/ PassGate(c)
    PROVE  Early(c) /\ runs' = runs /\ idem' \subseteq idem
<1> DEFINE me == call[c]
<1>1. me.pc \in {"idle", "squid", "key", "account", "rows", "gate"}
  BY DEF Invoke, GetSquid, CatalogFails, RefuseInput, KeyHit, KeyMiss, StoreFails,
         AccountsFail, ResolveAccounts, SnapshotTasks, AskConfirmation, BalanceFails, RefuseTasks,
         PassGate
<1>2. me \in CallState /\ me.resp.outcome = "none"
  BY <1>1, MovesOn DEF Ends
<1>3. runs' = runs /\ idem' \subseteq idem
  BY DEF Invoke, GetSquid, CatalogFails, RefuseInput, KeyHit, KeyMiss, StoreFails,
         AccountsFail, ResolveAccounts, SnapshotTasks, AskConfirmation, BalanceFails, RefuseTasks,
         PassGate, ReadOnly, Prune
<1> SUFFICES Early(c)
  BY <1>3
<1>4. me.pc \notin Ends \cup {"record"}
  BY <1>1 DEF Ends
<1>5. ASSUME NEW a, Become(c, Finish(me, a)) PROVE Early(c)
  BY <1>2, <1>4, <1>5, FinishEnds DEF Early, Ends
<1>moves. ASSUME NEW m, Become(c, m), m.pc # "record",
             m.pc \in Ends \/ m.resp.outcome = "none"
      PROVE  Early(c)
  BY <1>moves, <1>4 DEF Early
<1>6. CASE CatalogFails(c) \/ RefuseInput(c) \/ KeyHit(c) \/ StoreFails(c)
           \/ AccountsFail(c) \/ AskConfirmation(c) \/ BalanceFails(c) \/ RefuseTasks(c)
  BY <1>5, <1>6 DEF CatalogFails, RefuseInput, KeyHit, StoreFails, AccountsFail, AskConfirmation,
                    BalanceFails, RefuseTasks
<1>7. CASE Invoke(c)
  <2>1. IdleCall.resp.outcome = "none"
    BY DEF IdleCall, NoAnswer
  <2>2. \E r \in Requests :
          Become(c, [IdleCall EXCEPT
                      !.pc = IF r.squid = NewSquid THEN "key" ELSE "squid",
                      !.req = r,
                      !.squid = IF r.squid = NewSquid THEN NoSquid ELSE r.squid])
    BY <1>7 DEF Invoke
  <2>3. PICK r \in Requests :
          Become(c, [IdleCall EXCEPT
                      !.pc = IF r.squid = NewSquid THEN "key" ELSE "squid",
                      !.req = r,
                      !.squid = IF r.squid = NewSquid THEN NoSquid ELSE r.squid])
    BY <2>2
  <2> DEFINE next == [IdleCall EXCEPT
                      !.pc = IF r.squid = NewSquid THEN "key" ELSE "squid",
                      !.req = r,
                      !.squid = IF r.squid = NewSquid THEN NoSquid ELSE r.squid]
  <2>4. next.pc # "record" /\ next.resp.outcome = "none"
    BY <2>1 DEF IdleCall
  <2> HIDE DEF next
  <2>5. Become(c, next)
    BY <2>3 DEF next
  <2>6. QED
    BY <1>moves, <2>4, <2>5
<1>8. CASE GetSquid(c)
  <2>1. PICK o \in ReadEnds :
          Become(c, IF o = "ok"
                    THEN [me EXCEPT !.pc = "key", !.cfg = squids[me.squid].cfg,
                                    !.linked = squids[me.squid].accounts]
                    ELSE Finish(me, Failed(o)))
    BY <1>8 DEF GetSquid
  <2> DEFINE next == [me EXCEPT !.pc = "key", !.cfg = squids[me.squid].cfg,
                                !.linked = squids[me.squid].accounts]
  <2>2. next.pc # "record" /\ next.resp.outcome = "none"
    BY <1>2 DEF CallState
  <2> HIDE DEF next
  <2>3. Become(c, IF o = "ok" THEN next ELSE Finish(me, Failed(o)))
    BY <2>1 DEF next
  <2>4. QED
    BY <1>moves, <1>5, <2>2, <2>3
<1>9. CASE KeyMiss(c)
  <2> DEFINE next ==
        [me EXCEPT !.pc = "account", !.asked = now,
                   !.known = {i \in 1..Len(runs) : /\ runs[i].key = KeyOf(me.req)
                                                   /\ Over(runs[i].by)}]
  <2>1. next.pc # "record" /\ next.resp.outcome = "none"
    BY <1>2 DEF CallState
  <2>2. Become(c, next)
    BY <1>9 DEF KeyMiss
  <2> HIDE DEF next
  <2>3. QED
    BY <1>moves, <2>1, <2>2
<1>10. CASE ResolveAccounts(c)
  <2>1. Become(c, IF AccountRefused(me) THEN Finish(me, Refused)
                  ELSE [me EXCEPT !.pc = IF Reuse(me) THEN "rows" ELSE "gate",
                                  !.save = AccountsToSave(me)])
    BY <1>10 DEF ResolveAccounts
  <2> DEFINE next == [me EXCEPT !.pc = IF Reuse(me) THEN "rows" ELSE "gate",
                                !.save = AccountsToSave(me)]
  <2>2. next.pc # "record" /\ next.resp.outcome = "none"
    BY <1>2 DEF CallState
  <2> HIDE DEF next
  <2>3. Become(c, IF AccountRefused(me) THEN Finish(me, Refused) ELSE next)
    BY <2>1 DEF next
  <2>4. QED
    BY <1>moves, <1>5, <2>2, <2>3
<1>11. CASE SnapshotTasks(c)
  <2>1. \/ Become(c, [me EXCEPT !.pc = "gate"])
        \/ \E l \in Listings(me.squid) :
             Become(c, [me EXCEPT !.pc = "gate", !.read = TRUE,
                                  !.rows = l \ {EmptyRow}, !.seen = Cardinality(l)])
    BY <1>11 DEF SnapshotTasks
  <2> DEFINE unread == [me EXCEPT !.pc = "gate"]
             seen(l) == [me EXCEPT !.pc = "gate", !.read = TRUE,
                                   !.rows = l \ {EmptyRow}, !.seen = Cardinality(l)]
  <2>2. /\ unread.pc # "record" /\ unread.resp.outcome = "none"
        /\ \A l : seen(l).pc # "record" /\ seen(l).resp.outcome = "none"
    BY <1>2 DEF CallState
  <2>3. Become(c, unread) \/ \E l \in Listings(me.squid) : Become(c, seen(l))
    BY <2>1
  <2> HIDE DEF unread, seen
  <2>4. QED
    BY <1>moves, <2>2, <2>3
<1>12. CASE PassGate(c)
  <2>1. Become(c, [me EXCEPT !.pc = FirstWrite(me)])
    BY <1>12 DEF PassGate
  <2>2. FirstWrite(me) # "record"
    BY DEF FirstWrite
  <2> DEFINE next == [me EXCEPT !.pc = FirstWrite(me)]
  <2>3. next.pc # "record" /\ next.resp.outcome = "none"
    BY <1>2, <2>2 DEF CallState
  <2>4. Become(c, next)
    BY <2>1
  <2> HIDE DEF next
  <2>5. QED
    BY <1>moves, <2>3, <2>4
<1>13. QED
  BY <1>6, <1>7, <1>8, <1>9, <1>10, <1>11, <1>12

LEMMA WritesAreEarly ==
    ASSUME TypeInv, RunInv, NEW c \in Calls,
           \/ UpdateSquid(c) \/ EmptySquid(c) \/ AddTasks(c) \/ LinkAccounts(c)
           \/ CreateSquid(c) \/ ConfigureSquid(c) \/ DeleteSquid(c)
    PROVE  Early(c) /\ runs' = runs /\ idem' \subseteq idem
<1> DEFINE me == call[c]
<1>1. me.pc \in {"update", "empty", "add", "link", "create", "configure", "cleanup"}
  BY DEF UpdateSquid, EmptySquid, AddTasks, LinkAccounts, CreateSquid, ConfigureSquid,
         DeleteSquid
<1>2. me \in CallState /\ me.resp.outcome = "none"
  BY <1>1, MovesOn DEF Ends
<1>3. runs' = runs /\ idem' \subseteq idem
  BY DEF UpdateSquid, EmptySquid, AddTasks, LinkAccounts, CreateSquid, ConfigureSquid,
         DeleteSquid, Elsewhere
<1> SUFFICES Early(c)
  BY <1>3
<1>4. me.pc \notin Ends \cup {"record"}
  BY <1>1 DEF Ends
<1>5. ASSUME NEW a, Become(c, Finish(me, a)) PROVE Early(c)
  BY <1>2, <1>4, <1>5, FinishEnds DEF Early, Ends
<1>moves. ASSUME NEW m, Become(c, m), m.pc # "record",
             m.pc \in Ends \/ m.resp.outcome = "none"
      PROVE  Early(c)
  BY <1>moves, <1>4 DEF Early
<1>6. ASSUME NEW o, Become(c, AddFailed(me, o)) PROVE Early(c)
  <2>1. \/ \E a : AddFailed(me, o) = Finish(me, a)
        \/ AddFailed(me, o) = [me EXCEPT !.pc = "cleanup"]
        \/ AddFailed(me, o) = [me EXCEPT !.pc = "restore",
                                         !.resp = [NoAnswer EXCEPT !.outcome = "failed"]]
    BY DEF AddFailed
  <2>2. CASE \E a : AddFailed(me, o) = Finish(me, a)
    BY <1>5, <1>6, <2>2
  <2>3. CASE AddFailed(me, o) = [me EXCEPT !.pc = "cleanup"]
    BY <1>2, <1>4, <1>6, <2>3 DEF Early, CallState
  <2>4. CASE AddFailed(me, o) = [me EXCEPT !.pc = "restore",
                                           !.resp = [NoAnswer EXCEPT !.outcome = "failed"]]
    BY <1>2, <1>4, <1>6, <2>4 DEF Early, CallState, Ends
  <2>5. QED
    BY <2>1, <2>2, <2>3, <2>4
<1>7. CASE UpdateSquid(c)
  <2>1. PICK o \in WriteEnds :
          Become(c, IF o # "ok"
                    THEN Finish(me, [NoAnswer EXCEPT !.outcome = "failed",
                                                     !.squid = me.squid,
                                                     !.tasksLost = "no"])
                    ELSE [me EXCEPT !.pc = AfterSave(me)])
    BY <1>7 DEF UpdateSquid
  <2>2. AfterSave(me) # "record"
    BY DEF AfterSave
  <2>3. QED
    BY <1>2, <1>4, <1>5, <2>1, <2>2 DEF Early, CallState
<1>8. CASE EmptySquid(c)
  <2>1. PICK o \in WriteEnds :
          Become(c, [me EXCEPT
                       !.pc = IF o = "ok" THEN "add" ELSE "restore",
                       !.erased = IF Applied(o) THEN squids[me.squid].rows ELSE @,
                       !.resp = IF o = "ok" THEN @
                                ELSE [NoAnswer EXCEPT !.outcome = "failed"]])
    BY <1>8 DEF EmptySquid
  <2> DEFINE next ==
        [me EXCEPT !.pc = IF o = "ok" THEN "add" ELSE "restore",
                   !.erased = IF Applied(o) THEN squids[me.squid].rows ELSE @,
                   !.resp = IF o = "ok" THEN @ ELSE [NoAnswer EXCEPT !.outcome = "failed"]]
  <2>2. /\ next.pc = IF o = "ok" THEN "add" ELSE "restore"
        /\ o = "ok" => next.resp = me.resp
    BY <1>2 DEF CallState
  <2>3. Become(c, next)
    BY <2>1
  <2> HIDE DEF next
  <2>4. QED
    BY <1>moves, <1>2, <2>2, <2>3 DEF Ends
<1>9. CASE AddTasks(c)
  <2>1. PICK o \in WriteEnds :
          Become(c, IF o = "ok" THEN [me EXCEPT !.pc = "start", !.action = AddedAs(me)]
                    ELSE AddFailed(me, o))
    BY <1>9 DEF AddTasks
  <2> DEFINE next == [me EXCEPT !.pc = "start", !.action = AddedAs(me)]
  <2>2. next.pc # "record" /\ next.resp.outcome = "none"
    BY <1>2 DEF CallState
  <2> HIDE DEF next
  <2>3. Become(c, IF o = "ok" THEN next ELSE AddFailed(me, o))
    BY <2>1 DEF next
  <2>4. QED
    BY <1>moves, <1>6, <2>2, <2>3
<1>10. CASE LinkAccounts(c)
  <2>1. PICK o \in WriteEnds :
          Become(c, IF o = "ok" THEN [me EXCEPT !.pc = "start"] ELSE Finish(me, Failed(o)))
    BY <1>10 DEF LinkAccounts
  <2>2. QED
    BY <1>2, <1>4, <1>5, <2>1 DEF Early, CallState
<1>11. CASE CreateSquid(c)
  <2>1. PICK o \in WriteEnds, s \in Squids :
          Become(c, [(IF o = "ok" THEN [me EXCEPT !.pc = "configure", !.squid = s]
                      ELSE Finish(me, Failed(o)))
                     EXCEPT !.made = IF Applied(o) THEN s ELSE NoSquid])
    BY <1>11 DEF CreateSquid
  <2>2. Finish(me, Failed(o)).pc = "done"
    BY <1>2, FinishEnds
  <2> DEFINE went == IF o = "ok" THEN [me EXCEPT !.pc = "configure", !.squid = s]
                     ELSE Finish(me, Failed(o))
             m == [went EXCEPT !.made = IF Applied(o) THEN s ELSE NoSquid]
  <2>3. m.pc = went.pc /\ m.resp = went.resp
    BY <1>2 DEF Finish, CallState
  <2>4. went.pc # "record" /\ (went.pc \in Ends \/ went.resp.outcome = "none")
    BY <1>2, <2>2 DEF CallState, Ends
  <2> HIDE DEF went
  <2>5. Become(c, m) /\ m.pc # "record" /\ (m.pc \in Ends \/ m.resp.outcome = "none")
    BY <2>1, <2>3, <2>4 DEF went
  <2> HIDE DEF m
  <2>6. QED
    BY <1>4, <2>5 DEF Early
<1>12. CASE ConfigureSquid(c)
  <2>1. PICK o \in WriteEnds :
          Become(c, IF o = "ok" THEN [me EXCEPT !.pc = "add"] ELSE AddFailed(me, o))
    BY <1>12 DEF ConfigureSquid
  <2>2. QED
    BY <1>2, <1>4, <1>6, <2>1 DEF Early, CallState
<1>13. CASE DeleteSquid(c)
  BY <1>5, <1>13 DEF DeleteSquid
<1>14. QED
  BY <1>7, <1>8, <1>9, <1>10, <1>11, <1>12, <1>13

-----------------------------------------------------------------------------
(* Starting a run, undoing, recording.                                     *)

LEMMA StartRunSafe ==
    ASSUME TypeInv, RunInv, NEW c \in Calls, StartRun(c)
    PROVE  RunInv'
<1> DEFINE me == call[c]
           n == Len(runs) + 1
           a(o) == [Failed(o) EXCEPT !.squid = me.squid, !.taskCount = TaskCount(me)]
           go == [me EXCEPT !.pc = "record", !.run = n]
           undo(o) == [me EXCEPT !.pc = "restore", !.resp = a(o)]
           fail(o) == Finish(me, a(o))
           started == RunOf(c, me)
<1>1. PICK o \in WriteEnds :
        /\ runs' = IF Applied(o) THEN Append(runs, started) ELSE runs
        /\ Become(c, IF o = "ok" THEN go
                     ELSE IF me.action = "replaced" THEN undo(o) ELSE fail(o))
  BY DEF StartRun
<1>2. me.pc = "start" /\ idem' = idem
  BY DEF StartRun
<1>3. me \in CallState /\ me.resp.outcome = "none"
  BY <1>2, MovesOn DEF Ends
<1>4. /\ go.pc = "record" /\ go.run = n /\ go.req = me.req /\ go.resp = me.resp
      /\ undo(o).pc = "restore" /\ undo(o).resp.state = RequestState(o)
      /\ fail(o).pc = "done" /\ fail(o).resp.state = RequestState(o)
  BY <1>3 DEF CallState, Finish, Failed, NoAnswer
<1>5. started.by = c /\ started.key = KeyOf(me.req)
  BY DEF RunOf
<1>6. Applied(o) => o = "ok" \/ RequestState(o) = "unknown"
  BY DEF Applied, RequestState, Transport
<1> DEFINE m == call'[c]
<1>7. /\ o = "ok" => m = go
      /\ o # "ok" => m \in {undo(o), fail(o)}
      /\ \A d \in Calls \ {c} : call'[d] = call[d]
  BY <1>1, BecomeValue
<1>8. /\ m.pc \in {"record", "restore", "done"}
      /\ m.pc = "record" <=> o = "ok"
      /\ m.pc = "record" => m.run = n /\ m.req = me.req /\ m.resp = me.resp
      /\ m.pc # "record" => m.resp.state = RequestState(o)
  BY <1>4, <1>7
<1> HIDE DEF a, go, undo, fail, started, m
<1>9. Len(runs) \in Nat /\ \A i \in 1..Len(runs) : runs[i].by \in Calls
  BY RunType
<1>10. /\ Len(runs') \in Nat /\ Len(runs) <= Len(runs')
       /\ \A i \in 1..Len(runs) : runs'[i] = runs[i]
       /\ \A i \in 1..Len(runs') :
            i \notin 1..Len(runs) => i = n /\ Applied(o) /\ runs'[i] = started
       /\ Applied(o) => n \in 1..Len(runs') /\ runs'[n] = started
  <2> DEFINE Run == [squid : Squids, rows : SUBSET Rows, cfg : Cfgs,
                     accounts : SUBSET Accounts, by : Calls, key : StoreKeys]
  <2>1. runs \in Seq(Run)
    BY DEF TypeInv, TypeOK
  <2> HIDE DEF Run
  <2>2. CASE Applied(o)
    BY <1>1, <2>1, <2>2
  <2>3. CASE ~Applied(o)
    BY <1>1, <1>9, <2>3
  <2>4. QED
    BY <2>2, <2>3
<1>11. StoreSound'
  <2>1. \A e \in idem : e.run \in 1..Len(runs) /\ runs[e.run].key = e.key
    BY DEF RunInv, StoreSound
  <2>2. \A e \in idem : e.run \in 1..Len(runs') /\ runs'[e.run].key = e.key
    BY <1>9, <1>10, <2>1
  <2>3. QED
    BY <1>2, <2>2 DEF RunInv, StoreSound
<1>12. RecordsItsRun'
  <2>1. ASSUME NEW d \in Calls, call'[d].pc = "record"
        PROVE  /\ call'[d].run \in 1..Len(runs')
               /\ runs'[call'[d].run].key = KeyOf(call'[d].req)
               /\ runs'[call'[d].run].by = d
    <3>1. CASE d = c
      <4>1. o = "ok" /\ call'[d].run = n /\ call'[d].req = me.req
        BY <1>8, <2>1, <3>1 DEF m
      <4>2. Applied(o)
        BY <4>1 DEF Applied
      <4>3. QED
        BY <1>5, <1>10, <3>1, <4>1, <4>2
    <3>2. CASE d # c
      <4>1. call'[d] = call[d]
        BY <1>7, <3>2
      <4>2. /\ call[d].run \in 1..Len(runs)
            /\ runs[call[d].run].key = KeyOf(call[d].req)
            /\ runs[call[d].run].by = d
        BY <2>1, <4>1 DEF RunInv, RecordsItsRun
      <4>3. QED
        BY <1>9, <1>10, <4>1, <4>2
    <3>3. QED
      BY <3>1, <3>2
  <2>2. QED
    BY <2>1 DEF RecordsItsRun
<1>13. Unanswered'
  <2>1. m.pc \notin Ends => m.resp.outcome = "none"
    BY <1>3, <1>8 DEF Ends
  <2>2. QED
    BY <1>7, <2>1 DEF RunInv, Unanswered, m
<1>14. RunsOwned'
  <2>1. ASSUME NEW i \in 1..Len(runs')
        PROVE  Owned(runs[i], i)'
    <3>1. CASE i \in 1..Len(runs)
      <4>1. Owned(runs[i], i) /\ runs[i].by \in Calls /\ runs'[i] = runs[i]
        BY <1>9, <1>10, <3>1 DEF RunInv, RunsOwned
      <4>2. runs[i].by # c
        BY <1>2, <4>1 DEF Owned, Ends
      <4>3. call'[runs[i].by] = call[runs[i].by]
        BY <1>7, <4>1, <4>2
      <4>4. QED
        BY <4>1, <4>3 DEF Owned
    <3>2. CASE i \notin 1..Len(runs)
      <4>1. i = n /\ Applied(o) /\ runs'[i].by = c
        BY <1>5, <1>10, <3>2
      <4>2. m.pc # "record" => m.resp.state = "unknown"
        BY <1>6, <1>8, <4>1
      <4>3. QED
        BY <1>8, <4>1, <4>2 DEF Owned, Ends, m
    <3>3. QED
      BY <3>1, <3>2
  <2>2. QED
    BY <2>1 DEF RunsOwned
<1>15. QED
  BY <1>11, <1>12, <1>13, <1>14 DEF RunInv

\* The undo ends the call and leaves what it said of the run's request.
LEMMA RestoreSafe ==
    ASSUME TypeInv, RunInv, NEW c \in Calls, RestoreNothing(c) \/ RestoreTasks(c)
    PROVE  RunInv'
<1> DEFINE me == call[c]
<1>1. me.pc = "restore" /\ me \in CallState /\ runs' = runs /\ idem' = idem
  BY CallType DEF RestoreNothing, RestoreTasks, Elsewhere
<1>2. PICK a : Become(c, Finish(me, a)) /\ a.state = me.resp.state
  <2>1. me.resp \in Answer
    BY <1>1 DEF CallState
  <2>2. CASE RestoreNothing(c)
    <3> DEFINE a == [me.resp EXCEPT !.squid = me.squid,
                                    !.tasksLost = IF me.read THEN "no" ELSE "yes"]
    <3>1. a.state = me.resp.state
      BY <2>1 DEF Answer
    <3>2. Become(c, Finish(me, a))
      BY <2>2 DEF RestoreNothing
    <3> HIDE DEF a
    <3>3. QED
      BY <3>1, <3>2
  <2>3. CASE RestoreTasks(c)
    <3>1. PICK o : Become(c, Finish(me, RestoreAnswer(me, o)))
      BY <2>3 DEF RestoreTasks
    <3>2. RestoreAnswer(me, o).state = me.resp.state
      BY <2>1 DEF RestoreAnswer, Answer
    <3>3. QED
      BY <3>1, <3>2
  <2>4. QED
    BY <2>2, <2>3
<1>3. /\ call'[c].pc = "done" /\ call'[c].resp.state = me.resp.state
      /\ \A d \in Calls \ {c} : call'[d] = call[d]
  BY <1>1, <1>2, BecomeValue, FinishEnds
<1>4. StoreSound' /\ RecordsItsRun' /\ Unanswered'
  BY <1>1, <1>3 DEF RunInv, StoreSound, RecordsItsRun, Unanswered, Ends
<1>5. RunsOwned'
  <2>1. ASSUME NEW i \in 1..Len(runs)
        PROVE  Owned(runs[i], i)'
    <3>1. Owned(runs[i], i) /\ runs[i].by \in Calls
      BY RunType DEF RunInv, RunsOwned
    <3>2. QED
      BY <1>1, <1>3, <3>1 DEF Owned, Ends
  <2>2. QED
    BY <1>1, <2>1 DEF RunsOwned
<1>6. QED
  BY <1>4, <1>5 DEF RunInv

LEMMA RecordRunSafe ==
    ASSUME TypeInv, RunInv, NEW c \in Calls, RecordRun(c)
    PROVE  RunInv'
<1> DEFINE me == call[c]
           t == now + TTL(me.req)
           entry == [key |-> KeyOf(me.req), run |-> me.run, until |-> t]
<1>1. me.pc = "record" /\ me \in CallState /\ runs' = runs
  BY CallType DEF RecordRun
<1>2. /\ call'[c].pc = "done" /\ call'[c].run = me.run
      /\ call'[c].resp \in {StartedAnswer(me), Raised}
      /\ \A d \in Calls \ {c} : call'[d] = call[d]
  BY RecordEnds
<1>3. \/ call'[c].resp.outcome = "started" /\ call'[c].resp.run = me.run
      \/ call'[c].resp.outcome = "raised" /\ call'[c].run = me.run
  BY <1>2 DEF StartedAnswer, Raised, NoAnswer
<1>4. \/ idem' = {e \in idem : e.key # KeyOf(me.req)} \cup {entry}
      \/ idem' = idem
  BY RecordEnds DEF StorePut
<1> HIDE DEF t
<1>5. me.run \in 1..Len(runs) /\ runs[me.run].key = KeyOf(me.req)
  BY <1>1 DEF RunInv, RecordsItsRun
<1>6. StoreSound'
  <2>1. entry.key = KeyOf(me.req) /\ entry.run = me.run
    OBVIOUS
  <2> HIDE DEF entry
  <2>2. QED
    BY <1>1, <1>4, <1>5, <2>1 DEF RunInv, StoreSound
<1>7. RecordsItsRun' /\ Unanswered'
  BY <1>1, <1>2 DEF RunInv, RecordsItsRun, Unanswered, Ends
<1>8. RunsOwned'
  <2>1. ASSUME NEW i \in 1..Len(runs)
        PROVE  Owned(runs[i], i)'
    <3>1. Owned(runs[i], i) /\ runs[i].by \in Calls
      BY RunType DEF RunInv, RunsOwned
    <3>2. QED
      BY <1>1, <1>2, <1>3, <3>1 DEF Owned, Ends
  <2>2. QED
    BY <1>1, <2>1 DEF RunsOwned
<1>9. QED
  BY <1>6, <1>7, <1>8 DEF RunInv

LEMMA RestartSafe ==
    ASSUME TypeInv, RunInv, NEW gone \in SUBSET Calls, Restart(gone)
    PROVE  RunInv'
<1>1. /\ runs' = runs /\ idem' \subseteq idem
      /\ \A c \in gone : InFlight(c)
  BY DEF Restart
<1>2. ASSUME NEW c \in Calls
      PROVE  /\ call'[c].pc = IF c \in gone THEN "dead" ELSE call[c].pc
             /\ call'[c].run = call[c].run /\ call'[c].req = call[c].req
             /\ call'[c].resp = call[c].resp
  BY CallType DEF Restart, CallState
<1>3. StoreSound'
  BY <1>1 DEF RunInv, StoreSound
<1>4. RecordsItsRun' /\ Unanswered'
  BY <1>1, <1>2 DEF RunInv, RecordsItsRun, Unanswered, Ends
<1>5. RunsOwned'
  <2>1. ASSUME NEW i \in 1..Len(runs)
        PROVE  Owned(runs[i], i)'
    <3>1. Owned(runs[i], i) /\ runs[i].by \in Calls
      BY RunType DEF RunInv, RunsOwned
    <3> DEFINE d == runs[i].by
    <3>2. call[d].pc = "record" => call[d].resp.outcome = "none"
      BY <3>1 DEF RunInv, Unanswered, Ends
    <3>3. CASE d \in gone
      <4>1. call'[d].pc = "dead" /\ call'[d].resp = call[d].resp
        BY <1>2, <3>1, <3>3
      <4>2. call[d].pc \in {"record", "restore"}
        BY <1>1, <3>1, <3>3 DEF Owned, Ends, InFlight
      <4>3. QED
        BY <1>1, <3>1, <3>2, <4>1, <4>2 DEF Owned, Ends
    <3>4. CASE d \notin gone
      BY <1>1, <1>2, <3>1, <3>4 DEF Owned, Ends
    <3>5. QED
      BY <3>3, <3>4
  <2>2. QED
    BY <1>1, <2>1 DEF RunsOwned
<1>6. QED
  BY <1>3, <1>4, <1>5 DEF RunInv

LEMMA Unmoved ==
    ASSUME RunInv, UNCHANGED <<runs, idem, call>>
    PROVE  RunInv'
  BY DEF RunInv, StoreSound, RecordsItsRun, Unanswered, RunsOwned, Owned

-----------------------------------------------------------------------------
(* The theorems.                                                           *)

LEMMA InitSafe == Init => RunInv
  BY DEF Init, RunInv, StoreSound, RecordsItsRun, Unanswered, RunsOwned, IdleCall, NoAnswer

LEMMA NextSafe == TypeInv /\ RunInv /\ [Next]_vars => RunInv'
<1> SUFFICES ASSUME TypeInv, RunInv, [Next]_vars PROVE RunInv'
  OBVIOUS
<1>1. ASSUME NEW c \in Calls, Step(c) PROVE RunInv'
  <2>1. CASE StartRun(c) \/ RestoreNothing(c) \/ RestoreTasks(c) \/ RecordRun(c)
    BY <2>1, StartRunSafe, RestoreSafe, RecordRunSafe
  <2>2. CASE ~(StartRun(c) \/ RestoreNothing(c) \/ RestoreTasks(c) \/ RecordRun(c))
    <3>1. Early(c) /\ runs' = runs /\ idem' \subseteq idem
      BY <1>1, <2>2, ReadsAreEarly, WritesAreEarly DEF Step
    <3>2. QED
      BY <3>1, EarlyStep DEF Early
  <2>3. QED
    BY <2>1, <2>2
<1>2. CASE Tick \/ Quiet \/ UNCHANGED vars \/ \E s \in Saved : OutsideEdit(s)
  BY <1>2, Unmoved DEF Tick, Quiet, vars, OutsideEdit
<1>3. QED
  BY <1>1, <1>2, RestartSafe DEF Next

LEMMA Safe == Spec => [](TypeInv /\ RunInv)
  BY InitType, NextType, InitSafe, NextSafe, PTL DEF Spec

\* An entry of the idempotency store always names a run that exists and was paid
\* for under the entry's key, and a key has one entry: a repeat is never
\* answered with a run of somebody else's input (execution.py:493-495, 720).
THEOREM StoreAlwaysSound == Spec => []StoreSound
<1>1. RunInv => StoreSound
  BY DEF RunInv
<1>2. QED
  BY <1>1, Safe, PTL

\* A call that has ended and started a run names that run or says that the fate of
\* its request is unknown, however calls interleave, requests fail and processes
\* die (execution.py:706-720, errors.py:112-163); only the store's own exception,
\* with the run in hand, ends a call otherwise (persistence.py:120-123).
THEOREM NoRunIsHidden == Spec => []NoHiddenRun
<1>1. TypeInv /\ RunInv => NoHiddenRun
  <2> SUFFICES ASSUME TypeInv, RunInv, NEW i \in 1..Len(runs)
               PROVE  \/ call[runs[i].by].resp.outcome = "none"
                      \/ /\ call[runs[i].by].resp.outcome = "started"
                         /\ call[runs[i].by].resp.run = i
                      \/ call[runs[i].by].resp.state = "unknown"
                      \/ /\ call[runs[i].by].resp.outcome = "raised"
                         /\ call[runs[i].by].run = i
    BY DEF NoHiddenRun
  <2>1. Owned(runs[i], i) /\ runs[i].by \in Calls
    BY RunType DEF RunInv, RunsOwned
  <2>2. QED
    BY <2>1 DEF Owned, Ends, RunInv, Unanswered
<1>2. QED
  BY <1>1, Safe, PTL

-----------------------------------------------------------------------------
(* Idempotency.                                                            *)

\* What a call that keeps its request carries along.
Carried(m) == <<m.req, m.until, m.asked, m.known>>

\* Of the promises made none outlasts a put that is made now.
PromiseBounded ==
    \A c \in Calls : call[c].until <= now + TTL(call[c].req)

\* A run that was known when the store was asked had outlived its promise.
KnownExpired ==
    \A c \in Calls : \A i \in call[c].known :
      /\ i \in 1..Len(runs)
      /\ call[runs[i].by].pc = "done"
      /\ call[runs[i].by].until <= call[c].asked

\* A run has the key of the request it was started for.
RunKeyed ==
    \A i \in 1..Len(runs) : runs[i].key = KeyOf(call[runs[i].by].req)

IdemInv == PromiseKept /\ PromiseBounded /\ KnownExpired /\ RunKeyed

-----------------------------------------------------------------------------
(* What the steps leave alone.                                             *)

\* A step that neither makes a request nor asks or tells the store.
Plain(c) == Step(c) /\ ~Invoke(c) /\ ~KeyMiss(c) /\ ~RecordRun(c)

LEMMA FinishCarries ==
    ASSUME NEW m \in CallState, NEW a
    PROVE  Carried(Finish(m, a)) = Carried(m)
  BY DEF Finish, CallState, Carried

LEMMA PlainKeeps ==
    ASSUME TypeInv, NEW c \in Calls, Plain(c)
    PROVE  /\ Carried(call'[c]) = Carried(call[c])
           /\ \A d \in Calls \ {c} : call'[d] = call[d]
<1> DEFINE me == call[c]
<1>1. me \in CallState
  BY CallType
<1> SUFFICES \E m : Become(c, m) /\ Carried(m) = Carried(me)
  BY BecomeValue
<1>2. ASSUME NEW m, Become(c, m), Carried(m) = Carried(me)
      PROVE  \E n : Become(c, n) /\ Carried(n) = Carried(me)
  BY <1>2
<1>3. ASSUME NEW a, Become(c, Finish(me, a))
      PROVE  \E n : Become(c, n) /\ Carried(n) = Carried(me)
  BY <1>1, <1>3, FinishCarries
<1>4. ASSUME NEW o, Become(c, AddFailed(me, o))
      PROVE  \E n : Become(c, n) /\ Carried(n) = Carried(me)
  <2> DEFINE clean == [me EXCEPT !.pc = "cleanup"]
             undo == [me EXCEPT !.pc = "restore",
                                !.resp = [NoAnswer EXCEPT !.outcome = "failed"]]
  <2>1. Carried(clean) = Carried(me) /\ Carried(undo) = Carried(me)
    BY <1>1 DEF Carried, CallState
  <2>2. \/ \E a : AddFailed(me, o) = Finish(me, a)
        \/ AddFailed(me, o) \in {clean, undo}
    BY DEF AddFailed
  <2> HIDE DEF clean, undo
  <2>3. QED
    BY <1>2, <1>3, <1>4, <2>1, <2>2
<1>5. CASE \/ CatalogFails(c) \/ RefuseInput(c) \/ KeyHit(c) \/ StoreFails(c)
           \/ AccountsFail(c) \/ AskConfirmation(c) \/ BalanceFails(c) \/ RefuseTasks(c)
           \/ DeleteSquid(c) \/ RestoreNothing(c) \/ RestoreTasks(c)
  BY <1>3, <1>5 DEF CatalogFails, RefuseInput, KeyHit, StoreFails, AccountsFail, AskConfirmation,
                    BalanceFails, RefuseTasks, DeleteSquid, RestoreNothing, RestoreTasks
<1>6. CASE GetSquid(c)
  <2> DEFINE next == [me EXCEPT !.pc = "key", !.cfg = squids[me.squid].cfg,
                                !.linked = squids[me.squid].accounts]
  <2>1. Carried(next) = Carried(me)
    BY <1>1 DEF Carried, CallState
  <2>2. \E o : Become(c, IF o = "ok" THEN next ELSE Finish(me, Failed(o)))
    BY <1>6 DEF GetSquid
  <2> HIDE DEF next
  <2>3. QED
    BY <1>2, <1>3, <2>1, <2>2
<1>7. CASE ResolveAccounts(c)
  <2> DEFINE next == [me EXCEPT !.pc = IF Reuse(me) THEN "rows" ELSE "gate",
                                !.save = AccountsToSave(me)]
  <2>1. Carried(next) = Carried(me)
    BY <1>1 DEF Carried, CallState
  <2>2. Become(c, IF AccountRefused(me) THEN Finish(me, Refused) ELSE next)
    BY <1>7 DEF ResolveAccounts
  <2> HIDE DEF next
  <2>3. QED
    BY <1>2, <1>3, <2>1, <2>2
<1>8. CASE SnapshotTasks(c)
  <2> DEFINE unread == [me EXCEPT !.pc = "gate"]
             seen(l) == [me EXCEPT !.pc = "gate", !.read = TRUE,
                                   !.rows = l \ {EmptyRow}, !.seen = Cardinality(l)]
  <2>1. Carried(unread) = Carried(me) /\ \A l : Carried(seen(l)) = Carried(me)
    BY <1>1 DEF Carried, CallState
  <2>2. Become(c, unread) \/ \E l \in Listings(me.squid) : Become(c, seen(l))
    BY <1>8 DEF SnapshotTasks
  <2> HIDE DEF unread, seen
  <2>3. QED
    BY <1>2, <2>1, <2>2
<1>9. ASSUME NEW p, Become(c, [me EXCEPT !.pc = p])
      PROVE  \E n : Become(c, n) /\ Carried(n) = Carried(me)
  <2>1. Carried([me EXCEPT !.pc = p]) = Carried(me)
    BY <1>1 DEF Carried, CallState
  <2>2. QED
    BY <1>2, <1>9, <2>1
<1>10. CASE PassGate(c)
  BY <1>9, <1>10 DEF PassGate
<1>11. CASE UpdateSquid(c)
  <2>1. \/ \E a : Become(c, Finish(me, a))
        \/ Become(c, [me EXCEPT !.pc = AfterSave(me)])
    BY <1>11 DEF UpdateSquid
  <2>2. QED
    BY <1>3, <1>9, <2>1
<1>12. CASE EmptySquid(c)
  <2>1. PICK o \in WriteEnds :
          Become(c, [me EXCEPT
                       !.pc = IF o = "ok" THEN "add" ELSE "restore",
                       !.erased = IF Applied(o) THEN squids[me.squid].rows ELSE @,
                       !.resp = IF o = "ok" THEN @
                                ELSE [NoAnswer EXCEPT !.outcome = "failed"]])
    BY <1>12 DEF EmptySquid
  <2> DEFINE next ==
        [me EXCEPT !.pc = IF o = "ok" THEN "add" ELSE "restore",
                   !.erased = IF Applied(o) THEN squids[me.squid].rows ELSE @,
                   !.resp = IF o = "ok" THEN @ ELSE [NoAnswer EXCEPT !.outcome = "failed"]]
  <2>2. Carried(next) = Carried(me)
    BY <1>1 DEF Carried, CallState
  <2>3. Become(c, next)
    BY <2>1
  <2> HIDE DEF next
  <2>4. QED
    BY <1>2, <2>2, <2>3
<1>13. CASE AddTasks(c)
  <2> DEFINE next == [me EXCEPT !.pc = "start", !.action = AddedAs(me)]
  <2>1. Carried(next) = Carried(me)
    BY <1>1 DEF Carried, CallState
  <2>2. \E o : Become(c, IF o = "ok" THEN next ELSE AddFailed(me, o))
    BY <1>13 DEF AddTasks
  <2> HIDE DEF next
  <2>3. QED
    BY <1>2, <1>4, <2>1, <2>2
<1>14. CASE LinkAccounts(c)
  <2>1. \/ \E a : Become(c, Finish(me, a))
        \/ Become(c, [me EXCEPT !.pc = "start"])
    BY <1>14 DEF LinkAccounts
  <2>2. QED
    BY <1>3, <1>9, <2>1
<1>15. CASE CreateSquid(c)
  <2>1. PICK o \in WriteEnds, s \in Squids :
          Become(c, [(IF o = "ok" THEN [me EXCEPT !.pc = "configure", !.squid = s]
                      ELSE Finish(me, Failed(o)))
                     EXCEPT !.made = IF Applied(o) THEN s ELSE NoSquid])
    BY <1>15 DEF CreateSquid
  <2> DEFINE went == IF o = "ok" THEN [me EXCEPT !.pc = "configure", !.squid = s]
                     ELSE Finish(me, Failed(o))
             m == [went EXCEPT !.made = IF Applied(o) THEN s ELSE NoSquid]
  <2>2. Carried(m) = Carried(me)
    BY <1>1 DEF Finish, CallState, Carried
  <2>3. Become(c, m)
    BY <2>1
  <2> HIDE DEF m
  <2>4. QED
    BY <1>2, <2>2, <2>3
<1>16. CASE ConfigureSquid(c)
  <2>1. \/ \E o : Become(c, AddFailed(me, o))
        \/ Become(c, [me EXCEPT !.pc = "add"])
    BY <1>16 DEF ConfigureSquid
  <2>2. QED
    BY <1>4, <1>9, <2>1
<1>17. CASE StartRun(c)
  <2>1. PICK o \in WriteEnds :
          LET answer == [Failed(o) EXCEPT !.squid = me.squid, !.taskCount = TaskCount(me)]
          IN  Become(c, IF o = "ok"
                        THEN [me EXCEPT !.pc = "record", !.run = Len(runs) + 1]
                        ELSE IF me.action = "replaced"
                        THEN [me EXCEPT !.pc = "restore", !.resp = answer]
                        ELSE Finish(me, answer))
    BY <1>17 DEF StartRun
  <2> DEFINE a == [Failed(o) EXCEPT !.squid = me.squid, !.taskCount = TaskCount(me)]
             go == [me EXCEPT !.pc = "record", !.run = Len(runs) + 1]
             undo == [me EXCEPT !.pc = "restore", !.resp = a]
  <2>2. Carried(go) = Carried(me) /\ Carried(undo) = Carried(me)
    BY <1>1 DEF CallState, Carried
  <2>3. Become(c, IF o = "ok" THEN go
                  ELSE IF me.action = "replaced" THEN undo ELSE Finish(me, a))
    BY <2>1
  <2> HIDE DEF go, undo
  <2>4. QED
    BY <1>2, <1>3, <2>2, <2>3
<1>18. QED
  BY <1>5, <1>6, <1>7, <1>8, <1>10, <1>11, <1>12, <1>13, <1>14, <1>15, <1>16, <1>17
     DEF Plain, Step

\* One key, one time-to-live.
LEMMA SameKeySameTTL ==
    ASSUME NEW r \in Request, NEW q \in Request, KeyOf(r) = KeyOf(q)
    PROVE  TTL(r) = TTL(q)
<1>1. \A x \in Request : KeyOf(x) \in Keys <=> x.key # NoKey
  BY KeyAssumption DEF KeyOf, DerivedKeys, Request
<1>2. QED
  BY <1>1 DEF TTL

\* Runs are only added, and by the call that starts them, under its key.
LEMMA RunsGrow ==
    ASSUME TypeInv, NEW c \in Calls, Step(c)
    PROVE  /\ Len(runs) \in Nat /\ Len(runs') \in Nat /\ Len(runs) <= Len(runs')
           /\ \A i \in 1..Len(runs) : runs'[i] = runs[i] /\ runs[i].by \in Calls
           /\ \A i \in 1..Len(runs') :
                i \notin 1..Len(runs) => /\ runs'[i].by = c
                                         /\ runs'[i].key = KeyOf(call[c].req)
<1>1. Len(runs) \in Nat /\ \A i \in 1..Len(runs) : runs[i].by \in Calls
  BY RunType
<1>2. CASE StartRun(c)
  <2> DEFINE started == RunOf(c, call[c])
             Run == [squid : Squids, rows : SUBSET Rows, cfg : Cfgs,
                     accounts : SUBSET Accounts, by : Calls, key : StoreKeys]
  <2>1. runs' = runs \/ runs' = Append(runs, started)
    BY <1>2 DEF StartRun
  <2>2. started.by = c /\ started.key = KeyOf(call[c].req)
    BY DEF RunOf
  <2>3. runs \in Seq(Run)
    BY DEF TypeInv, TypeOK
  <2> HIDE DEF started, Run
  <2>4. QED
    BY <1>1, <2>1, <2>2, <2>3
<1>3. CASE ~StartRun(c)
  <2>1. runs' = runs
    BY <1>3 DEF Step, Invoke, GetSquid, CatalogFails, RefuseInput, KeyHit, KeyMiss,
         StoreFails, AccountsFail, ResolveAccounts, SnapshotTasks, AskConfirmation, BalanceFails,
         RefuseTasks, PassGate, UpdateSquid, EmptySquid, AddTasks, LinkAccounts,
         CreateSquid, ConfigureSquid, DeleteSquid, RestoreNothing, RestoreTasks,
         RecordRun, ReadOnly, Elsewhere
  <2>2. QED
    BY <1>1, <2>1
<1>4. QED
  BY <1>2, <1>3

\* A call that has been answered takes no step.
LEMMA DoneIsDone ==
    ASSUME NEW c \in Calls, Step(c)
    PROVE  call[c].pc # "done"
  BY DEF Step, Invoke, GetSquid, CatalogFails, RefuseInput, KeyHit, KeyMiss,
         StoreFails, AccountsFail, ResolveAccounts, SnapshotTasks, AskConfirmation, BalanceFails,
         RefuseTasks, PassGate, UpdateSquid, EmptySquid, AddTasks, LinkAccounts,
         CreateSquid, ConfigureSquid, DeleteSquid, StartRun, RestoreNothing,
         RestoreTasks, RecordRun

\* Only a put removes an entry whose time is not up.
LEMMA LiveEntriesStay ==
    ASSUME NEW c \in Calls, Step(c), ~RecordRun(c)
    PROVE  now' = now /\ \A e \in idem : Expired(e) \/ e \in idem'
  BY DEF Step, Invoke, GetSquid, CatalogFails, RefuseInput, KeyHit, KeyMiss,
         StoreFails, AccountsFail, ResolveAccounts, SnapshotTasks, AskConfirmation, BalanceFails,
         RefuseTasks, PassGate, UpdateSquid, EmptySquid, AddTasks, LinkAccounts,
         CreateSquid, ConfigureSquid, DeleteSquid, StartRun, RestoreNothing,
         RestoreTasks, ReadOnly, Elsewhere, Prune

-----------------------------------------------------------------------------
(* The parts of the invariant.                                             *)

LEMMA Numbers ==
    ASSUME TypeInv
    PROVE  /\ now \in Nat
           /\ \A e \in idem : e.until \in Nat
           /\ \A c \in Calls : /\ call[c].req \in Request
                               /\ call[c].until \in Nat /\ call[c].asked \in Nat
                               /\ TTL(call[c].req) \in Nat
<1>1. now \in Nat /\ \A e \in idem : e.until \in Nat
  BY NumberAssumption DEF TypeInv, TypeOK
<1>2. \A c \in Calls : /\ call[c].req \in Request
                       /\ call[c].until \in Nat /\ call[c].asked \in Nat
  BY CallType DEF CallState
<1>3. QED
  BY <1>1, <1>2, KeyType

\* A step that keeps or drops each promise and keeps the entries it needs.
LEMMA PromisesStay ==
    ASSUME TypeInv, TypeInv', IdemInv, now' = now,
           \A e \in idem : Expired(e) \/ e \in idem',
           \A d \in Calls : \/ call'[d].until = 0
                            \/ /\ call'[d].until = call[d].until
                               /\ call'[d].req = call[d].req
    PROVE  PromiseKept' /\ PromiseBounded'
<1>1. PromiseKept'
  <2>1. ASSUME NEW d \in Calls, now' < call'[d].until
        PROVE  \E e \in idem' : /\ e.key = KeyOf(call'[d].req)
                                /\ e.until >= call'[d].until
    <3>1. call'[d].until = call[d].until /\ call'[d].req = call[d].req
      BY <2>1, Numbers
    <3>2. PICK e \in idem : e.key = KeyOf(call[d].req) /\ e.until >= call[d].until
      BY <2>1, <3>1 DEF IdemInv, PromiseKept
    <3>3. ~Expired(e)
      BY <2>1, <3>1, <3>2, Numbers DEF Expired
    <3>4. QED
      BY <3>1, <3>2, <3>3
  <2>2. QED
    BY <2>1 DEF PromiseKept
<1>2. PromiseBounded'
  <2>1. ASSUME NEW d \in Calls
        PROVE  call'[d].until <= now' + TTL(call'[d].req)
    <3>1. now' \in Nat /\ TTL(call'[d].req) \in Nat
      <4>1. call'[d].req \in Request /\ now' \in Nat
        BY NumberAssumption DEF TypeInv, TypeOK, CallState
      <4>2. QED
        BY <4>1, KeyType
    <3>2. CASE call'[d].until = 0
      BY <3>1, <3>2
    <3>3. CASE call'[d].until = call[d].until /\ call'[d].req = call[d].req
      BY <3>3 DEF IdemInv, PromiseBounded
    <3>4. QED
      BY <3>2, <3>3
  <2>2. QED
    BY <2>1 DEF PromiseBounded
<1>3. QED
  BY <1>1, <1>2

\* A step of a call, seen from the runs that other calls know.
LEMMA KnownStays ==
    ASSUME TypeInv, IdemInv, NEW c \in Calls, Step(c),
           \A d \in Calls \ {c} : call'[d] = call[d],
           \A i \in call'[c].known :
             /\ i \in 1..Len(runs)
             /\ call[runs[i].by].pc = "done"
             /\ call[runs[i].by].until <= call'[c].asked
    PROVE  KnownExpired'
<1>1. ASSUME NEW d \in Calls, NEW i \in call'[d].known
      PROVE  /\ i \in 1..Len(runs')
             /\ call'[runs'[i].by].pc = "done"
             /\ call'[runs'[i].by].until <= call'[d].asked
  <2>1. /\ i \in 1..Len(runs)
        /\ call[runs[i].by].pc = "done"
        /\ call[runs[i].by].until <= call'[d].asked
    BY <1>1 DEF IdemInv, KnownExpired
  <2>2. runs'[i] = runs[i] /\ runs[i].by \in Calls /\ i \in 1..Len(runs')
    BY <2>1, RunsGrow
  <2>3. runs[i].by # c
    BY <2>1, DoneIsDone
  <2>4. QED
    BY <2>1, <2>2, <2>3
<1>2. QED
  BY <1>1 DEF KnownExpired

LEMMA RunsStayKeyed ==
    ASSUME TypeInv, IdemInv, NEW c \in Calls, Step(c),
           \A d \in Calls \ {c} : call'[d] = call[d],
           \/ call'[c].req = call[c].req
           \/ runs' = runs /\ \A i \in 1..Len(runs) : runs[i].by # c
    PROVE  RunKeyed'
<1>1. ASSUME NEW i \in 1..Len(runs')
      PROVE  runs'[i].key = KeyOf(call'[runs'[i].by].req)
  <2>1. CASE i \in 1..Len(runs)
    <3>1. /\ runs'[i] = runs[i] /\ runs[i].by \in Calls
          /\ runs[i].key = KeyOf(call[runs[i].by].req)
      BY <2>1, RunsGrow DEF IdemInv, RunKeyed
    <3>2. QED
      BY <2>1, <3>1
  <2>2. CASE i \notin 1..Len(runs)
    BY <2>2, RunsGrow
  <2>3. QED
    BY <2>1, <2>2
<1>2. QED
  BY <1>1 DEF RunKeyed

-----------------------------------------------------------------------------
(* Step by step.                                                           *)

LEMMA PlainIdem ==
    ASSUME TypeInv, TypeInv', IdemInv, NEW c \in Calls, Plain(c)
    PROVE  IdemInv'
<1>1. /\ Carried(call'[c]) = Carried(call[c])
      /\ \A d \in Calls \ {c} : call'[d] = call[d]
  BY PlainKeeps
<1>2. /\ call'[c].req = call[c].req /\ call'[c].until = call[c].until
      /\ call'[c].asked = call[c].asked /\ call'[c].known = call[c].known
  BY <1>1 DEF Carried
<1>3. Step(c) /\ ~RecordRun(c)
  BY DEF Plain
<1>4. PromiseKept' /\ PromiseBounded'
  BY <1>1, <1>2, <1>3, LiveEntriesStay, PromisesStay
<1>5. KnownExpired'
  BY <1>1, <1>2, <1>3, KnownStays DEF IdemInv, KnownExpired
<1>6. RunKeyed'
  BY <1>1, <1>2, <1>3, RunsStayKeyed
<1>7. QED
  BY <1>4, <1>5, <1>6 DEF IdemInv

LEMMA InvokeIdem ==
    ASSUME TypeInv, TypeInv', RunInv, IdemInv, NEW c \in Calls, Invoke(c)
    PROVE  IdemInv'
<1>1. Step(c) /\ call[c].pc = "idle" /\ runs' = runs /\ ~RecordRun(c)
  BY DEF Step, Invoke, ReadOnly, RecordRun
<1>2. PICK r \in Requests :
        Become(c, [IdleCall EXCEPT
                      !.pc = IF r.squid = NewSquid THEN "key" ELSE "squid",
                      !.req = r,
                      !.squid = IF r.squid = NewSquid THEN NoSquid ELSE r.squid])
  BY DEF Invoke
<1> DEFINE next == [IdleCall EXCEPT
                      !.pc = IF r.squid = NewSquid THEN "key" ELSE "squid",
                      !.req = r,
                      !.squid = IF r.squid = NewSquid THEN NoSquid ELSE r.squid]
<1>3. next.until = 0 /\ next.known = {}
  BY DEF IdleCall
<1> HIDE DEF next
<1>4. /\ call'[c].until = 0 /\ call'[c].known = {}
      /\ \A d \in Calls \ {c} : call'[d] = call[d]
  BY <1>2, <1>3, BecomeValue DEF next
<1>5. \A i \in 1..Len(runs) : runs[i].by # c
  BY <1>1 DEF RunInv, RunsOwned, Owned, Ends
<1>6. PromiseKept' /\ PromiseBounded'
  BY <1>1, <1>4, LiveEntriesStay, PromisesStay
<1>7. KnownExpired'
  BY <1>1, <1>4, KnownStays
<1>8. RunKeyed'
  BY <1>1, <1>4, <1>5, RunsStayKeyed
<1>9. QED
  BY <1>6, <1>7, <1>8 DEF IdemInv

\* A miss means that the promise of every run known with this key is over.
LEMMA KeyMissIdem ==
    ASSUME TypeInv, TypeInv', IdemInv, NEW c \in Calls, KeyMiss(c)
    PROVE  IdemInv'
<1> DEFINE me == call[c]
           found == {i \in 1..Len(runs) : /\ runs[i].key = KeyOf(me.req)
                                          /\ Over(runs[i].by)}
           next == [me EXCEPT !.pc = "account", !.asked = now, !.known = found]
<1>1. Step(c) /\ ~RecordRun(c) /\ Become(c, next) /\ Lookup(KeyOf(me.req)) = {}
  BY DEF Step, KeyMiss, RecordRun
<1>2. me \in CallState
  BY CallType
<1>3. /\ next.req = me.req /\ next.until = me.until
      /\ next.asked = now /\ next.known = found
  BY <1>2 DEF CallState
<1> HIDE DEF next
<1>4. /\ call'[c].req = me.req /\ call'[c].until = me.until
      /\ call'[c].asked = now /\ call'[c].known = found
      /\ \A d \in Calls \ {c} : call'[d] = call[d]
  BY <1>1, <1>3, BecomeValue
<1>5. PromiseKept' /\ PromiseBounded'
  BY <1>1, <1>4, LiveEntriesStay, PromisesStay
<1>6. ASSUME NEW i \in found
      PROVE  /\ i \in 1..Len(runs)
             /\ call[runs[i].by].pc = "done"
             /\ call[runs[i].by].until <= now
  <2> DEFINE d == runs[i].by
  <2>1. /\ i \in 1..Len(runs) /\ runs[i].key = KeyOf(me.req)
        /\ call[d].pc = "done" /\ d \in Calls
    BY <1>6, RunType DEF Over
  <2>2. KeyOf(call[d].req) = KeyOf(me.req)
    BY <2>1 DEF IdemInv, RunKeyed
  <2>3. ASSUME now < call[d].until PROVE FALSE
    <3>1. PICK e \in idem : e.key = KeyOf(me.req) /\ e.until >= call[d].until
      BY <2>1, <2>2, <2>3 DEF IdemInv, PromiseKept
    <3>2. ~Expired(e)
      BY <2>1, <2>3, <3>1, Numbers DEF Expired
    <3>3. e \in Lookup(KeyOf(me.req))
      BY <3>1, <3>2 DEF Lookup
    <3>4. QED
      BY <1>1, <3>3
  <2>4. QED
    BY <2>1, <2>3, Numbers
<1> HIDE DEF found
<1>7. KnownExpired'
  BY <1>1, <1>4, <1>6, KnownStays
<1>8. RunKeyed'
  BY <1>1, <1>4, RunsStayKeyed
<1>9. QED
  BY <1>5, <1>7, <1>8 DEF IdemInv

\* A put replaces an entry by one that lasts at least as long; without one the
\* store owes what it owed.
LEMMA RecordRunIdem ==
    ASSUME TypeInv, TypeInv', IdemInv, NEW c \in Calls, RecordRun(c)
    PROVE  IdemInv'
<1> DEFINE me == call[c]
           t == now + TTL(me.req)
           entry == [key |-> KeyOf(me.req), run |-> me.run, until |-> t]
<1>1. Step(c) /\ now' = now
  BY DEF Step, RecordRun
<1>2. /\ call'[c].req = me.req
      /\ call'[c].asked = me.asked /\ call'[c].known = me.known
      /\ \A d \in Calls \ {c} : call'[d] = call[d]
  BY RecordEnds
<1>3. KnownExpired'
  BY <1>1, <1>2, KnownStays DEF IdemInv, KnownExpired
<1>4. RunKeyed'
  BY <1>1, <1>2, RunsStayKeyed
<1>5. CASE idem' = idem /\ call'[c].until = me.until
  <2>1. PromiseKept' /\ PromiseBounded'
    BY <1>1, <1>2, <1>5, PromisesStay
  <2>2. QED
    BY <1>3, <1>4, <2>1 DEF IdemInv
<1>6. CASE StorePut(KeyOf(me.req), me.run, t) /\ call'[c].until = t
  <2>1. idem' = {e \in idem : e.key # KeyOf(me.req)} \cup {entry}
    BY <1>6 DEF StorePut
  <2>2. entry.key = KeyOf(me.req) /\ entry.until = t /\ entry \in idem'
    BY <2>1
  <2> HIDE DEF entry
  <2>3. PromiseKept'
    <3>1. ASSUME NEW d \in Calls, now' < call'[d].until
          PROVE  \E e \in idem' : /\ e.key = KeyOf(call'[d].req)
                                  /\ e.until >= call'[d].until
      <4>1. CASE d = c
        BY <1>2, <1>6, <2>2, <4>1, Numbers
      <4>2. CASE d # c
        <5>1. call'[d] = call[d]
          BY <1>2, <4>2
        <5>2. PICK e \in idem : e.key = KeyOf(call[d].req) /\ e.until >= call[d].until
          BY <1>1, <3>1, <5>1 DEF IdemInv, PromiseKept
        <5>3. CASE e.key # KeyOf(me.req)
          BY <2>1, <5>1, <5>2, <5>3
        <5>4. CASE e.key = KeyOf(me.req)
          <6>1. TTL(call[d].req) = TTL(me.req)
            BY <5>2, <5>4, Numbers, SameKeySameTTL
          <6>2. call[d].until <= t
            BY <6>1 DEF IdemInv, PromiseBounded
          <6>3. QED
            BY <2>2, <5>1, <5>2, <5>4, <6>2, Numbers
        <5>5. QED
          BY <5>3, <5>4
      <4>3. QED
        BY <4>1, <4>2
    <3>2. QED
      BY <3>1 DEF PromiseKept
  <2>4. PromiseBounded'
    <3>1. t <= now + TTL(me.req)
      BY Numbers
    <3>2. QED
      BY <1>1, <1>2, <1>6, <3>1 DEF IdemInv, PromiseBounded
  <2>5. QED
    BY <1>3, <1>4, <2>3, <2>4 DEF IdemInv
<1>7. QED
  BY <1>5, <1>6, RecordEnds

LEMMA TickIdem ==
    ASSUME TypeInv, IdemInv, Tick
    PROVE  IdemInv'
<1>1. now' = now + 1 /\ UNCHANGED <<runs, idem, call>>
  BY DEF Tick
<1>2. PromiseKept' /\ PromiseBounded'
  BY <1>1, Numbers DEF IdemInv, PromiseKept, PromiseBounded
<1>3. KnownExpired' /\ RunKeyed'
  BY <1>1 DEF IdemInv, KnownExpired, RunKeyed
<1>4. QED
  BY <1>2, <1>3 DEF IdemInv

\* Without Redis the promises die with the store.
LEMMA RestartIdem ==
    ASSUME TypeInv, TypeInv', IdemInv, NEW gone \in SUBSET Calls, Restart(gone)
    PROVE  IdemInv'
<1>1. /\ runs' = runs /\ now' = now
      /\ \A c \in gone : InFlight(c)
      /\ SharedStore => idem' = idem
  BY DEF Restart
<1>2. ASSUME NEW c \in Calls
      PROVE  /\ call'[c].pc = IF c \in gone THEN "dead" ELSE call[c].pc
             /\ call'[c].until = IF SharedStore THEN call[c].until ELSE 0
             /\ call'[c].req = call[c].req
             /\ call'[c].asked = call[c].asked /\ call'[c].known = call[c].known
  BY CallType DEF Restart, CallState
<1>3. PromiseKept' /\ PromiseBounded'
  <2>1. CASE SharedStore
    BY <1>1, <1>2, <2>1, PromisesStay
  <2>2. CASE ~SharedStore
    <3>1. \A c \in Calls : call'[c].until = 0
      BY <1>2, <2>2
    <3>2. now' \in Nat /\ \A c \in Calls : TTL(call'[c].req) \in Nat
      BY <1>1, <1>2, Numbers
    <3>3. QED
      BY <3>1, <3>2 DEF PromiseKept, PromiseBounded
  <2>3. QED
    BY <2>1, <2>2
<1>4. KnownExpired'
  <2>1. ASSUME NEW d \in Calls, NEW i \in call'[d].known
        PROVE  /\ i \in 1..Len(runs')
               /\ call'[runs'[i].by].pc = "done"
               /\ call'[runs'[i].by].until <= call'[d].asked
    <3>1. /\ i \in 1..Len(runs) /\ call[runs[i].by].pc = "done"
          /\ call[runs[i].by].until <= call[d].asked
      BY <1>2, <2>1 DEF IdemInv, KnownExpired
    <3>2. runs[i].by \in Calls
      BY <3>1, RunType
    <3>3. runs[i].by \notin gone
      BY <1>1, <3>1 DEF InFlight
    <3>4. call'[runs[i].by].until \in {0, call[runs[i].by].until}
      BY <1>2, <3>2
    <3>5. 0 <= call[d].asked
      BY Numbers
    <3>6. QED
      BY <1>1, <1>2, <3>1, <3>2, <3>3, <3>4, <3>5
  <2>2. QED
    BY <2>1 DEF KnownExpired
<1>5. RunKeyed'
  BY <1>1, <1>2, RunType DEF IdemInv, RunKeyed
<1>6. QED
  BY <1>3, <1>4, <1>5 DEF IdemInv

-----------------------------------------------------------------------------
(* The theorems.                                                           *)

LEMMA InitIdem == Init => IdemInv
<1> SUFFICES ASSUME Init PROVE IdemInv
  OBVIOUS
<1>1. TypeInv
  BY InitType
<1>2. \A c \in Calls : call[c].until = 0 /\ call[c].known = {}
  BY DEF Init, IdleCall
<1>3. QED
  BY <1>1, <1>2, Numbers
     DEF Init, IdemInv, PromiseKept, PromiseBounded, KnownExpired, RunKeyed

LEMMA NextIdem == TypeInv /\ TypeInv' /\ RunInv /\ IdemInv /\ [Next]_vars => IdemInv'
<1> SUFFICES ASSUME TypeInv, TypeInv', RunInv, IdemInv, [Next]_vars PROVE IdemInv'
  OBVIOUS
<1>1. ASSUME NEW c \in Calls, Step(c) PROVE IdemInv'
  BY <1>1, PlainIdem, InvokeIdem, KeyMissIdem, RecordRunIdem DEF Plain
<1>2. CASE Quiet \/ UNCHANGED vars \/ \E s \in Saved : OutsideEdit(s)
  <2>1. UNCHANGED <<runs, idem, now, call>>
    BY <1>2 DEF Quiet, vars, OutsideEdit
  <2>2. QED
    BY <2>1 DEF IdemInv, PromiseKept, PromiseBounded, KnownExpired, RunKeyed
<1>3. QED
  BY <1>1, <1>2, TickIdem, RestartIdem DEF Next

LEMMA Idempotent == Spec => []IdemInv
<1>1. TypeInv /\ RunInv /\ IdemInv /\ [Next]_vars => IdemInv'
  BY NextIdem, NextType
<1>2. QED
  BY <1>1, InitIdem, Safe, PTL DEF Spec

\* Until its time is up the store holds an entry for every run it was told of,
\* whoever puts and prunes meanwhile (safeguards.py:242-255).
THEOREM PromisesAreKept == Spec => []PromiseKept
<1>1. IdemInv => PromiseKept
  BY DEF IdemInv
<1>2. QED
  BY <1>1, Idempotent, PTL

\* However many calls overlap, and wherever processes die, a call that repeats
\* one that has ended and whose run the store was given, within the time-to-live,
\* starts no run (execution.py:493-495, 720).
THEOREM NoRunIsBoughtTwice == Spec => []NoPaidRepeat
<1>1. TypeInv /\ IdemInv => NoPaidRepeat
  BY RunType DEF IdemInv, KnownExpired, NoPaidRepeat
<1>2. QED
  BY <1>1, Idempotent, Safe, PTL
=============================================================================
