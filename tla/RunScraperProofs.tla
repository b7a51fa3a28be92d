-------------------------- MODULE RunScraperProofs --------------------------
(***************************************************************************)
(* Theorems about RunScraper, for every number of calls, squids and rows   *)
(* and every value of the bounds.                                          *)
(***************************************************************************)
EXTENDS RunScraper, FiniteSetTheorems, TLAPS

\* A call past the reads that find its squid has one.
HasSquid(me) ==
    /\ me.pc \notin {"idle", "done", "dead"}
    /\ Reuse(me) \/ me.pc \notin {"key", "account", "gate", "create"}
    => me.squid \in Squids

SquidsKnown == \A c \in Calls : HasSquid(call[c])

TypeInv == TypeOK /\ SquidsKnown

-----------------------------------------------------------------------------
(* Types of what the actions are built from.                               *)

LEMMA AnswerTypes ==
    /\ NoAnswer \in Answer
    /\ Refused \in Answer /\ Raised \in Answer
    /\ \A o \in WriteEnds : Failed(o) \in Answer
  BY DEF NoAnswer, Answer, Refused, Raised, Failed, RequestState, WriteEnds

LEMMA FinishType ==
    ASSUME NEW me \in CallState, NEW a \in Answer
    PROVE  Finish(me, a) \in CallState /\ HasSquid(Finish(me, a))
  BY DEF Finish, CallState, Steps, HasSquid

LEMMA BecomeType ==
    ASSUME TypeInv, NEW c \in Calls, NEW me \in CallState, HasSquid(me),
           Become(c, me)
    PROVE  call' \in [Calls -> CallState] /\ SquidsKnown'
  BY DEF TypeInv, TypeOK, SquidsKnown, Become

LEMMA SpendType ==
    ASSUME TypeOK, NEW o, Spend(o)
    PROVE  faults' \in 0..MaxFaults
  BY NumberAssumption DEF TypeOK, Spend

LEMMA PutType ==
    ASSUME TypeOK, NEW s \in Squids, NEW new \in SquidState, NEW w, Put(s, new, w)
    PROVE  squids' \in [Squids -> SquidState] /\ disturbed' \subseteq Calls
  BY DEF TypeOK, Put

LEMMA KeyType ==
    ASSUME NEW req \in Request
    PROVE  KeyOf(req) \in StoreKeys /\ TTL(req) \in Nat
  BY NumberAssumption DEF KeyOf, StoreKeys, DerivedKeys, TTL, Request

LEMMA CallType ==
    ASSUME TypeInv, NEW c \in Calls
    PROVE  call[c] \in CallState /\ HasSquid(call[c])
  BY DEF TypeInv, TypeOK, SquidsKnown

LEMMA IdleType == IdleCall \in CallState
  BY AnswerTypes, InputAssumption, AccountAssumption
     DEF IdleCall, CallState, Steps, NoRequest, Request

-----------------------------------------------------------------------------
(* The calls keep their type, action by action.                            *)

\* What a reading action of a call leaves to be shown.
LEMMA ReadingType ==
    ASSUME TypeInv, NEW c \in Calls, NEW me \in CallState, HasSquid(me),
           Become(c, me), ReadOnly, idem' \subseteq idem,
           faults' \in 0..MaxFaults
    PROVE  TypeInv'
<1>1. call' \in [Calls -> CallState] /\ SquidsKnown'
  BY BecomeType
<1>2. UNCHANGED <<squids, runs, now, disturbed, edits>>
  BY DEF ReadOnly
<1>3. QED
  BY <1>1, <1>2 DEF TypeInv, TypeOK

\* A reading action that ends the call with an answer.
LEMMA FinishingType ==
    ASSUME TypeInv, NEW c \in Calls, NEW a \in Answer,
           Become(c, Finish(call[c], a)), ReadOnly, idem' \subseteq idem,
           faults' \in 0..MaxFaults
    PROVE  TypeInv'
<1>1. call[c] \in CallState
  BY CallType
<1>2. Finish(call[c], a) \in CallState /\ HasSquid(Finish(call[c], a))
  BY <1>1, FinishType
<1>3. QED
  BY <1>2, ReadingType

LEMMA InvokeType ==
    ASSUME TypeInv, NEW c \in Calls, Invoke(c)
    PROVE  TypeInv'
<1>1. PICK r \in Requests :
        Become(c, [IdleCall EXCEPT
                      !.pc = IF r.squid = NewSquid THEN "key" ELSE "squid",
                      !.req = r,
                      !.squid = IF r.squid = NewSquid THEN NoSquid ELSE r.squid])
  BY DEF Invoke
<1> DEFINE me == [IdleCall EXCEPT
                      !.pc = IF r.squid = NewSquid THEN "key" ELSE "squid",
                      !.req = r,
                      !.squid = IF r.squid = NewSquid THEN NoSquid ELSE r.squid]
<1>2. r \in Request /\ r.squid \in Saved \cup {NewSquid}
  BY InputAssumption DEF Request
<1>3. me \in CallState
  BY <1>2, IdleType, SquidAssumption DEF CallState, Steps
<1>4. /\ me.pc = (IF r.squid = NewSquid THEN "key" ELSE "squid")
      /\ me.req = r
      /\ me.squid = (IF r.squid = NewSquid THEN NoSquid ELSE r.squid)
  BY DEF IdleCall
<1>5. HasSquid(me)
  BY <1>2, <1>4, SquidAssumption DEF HasSquid, Reuse
<1>6. faults' \in 0..MaxFaults /\ idem' \subseteq idem /\ ReadOnly
  BY DEF Invoke, TypeInv, TypeOK
<1> HIDE DEF me
<1>7. Become(c, me)
  BY <1>1 DEF me
<1>8. QED
  BY <1>3, <1>5, <1>6, <1>7, ReadingType

LEMMA GetSquidType ==
    ASSUME TypeInv, NEW c \in Calls, GetSquid(c)
    PROVE  TypeInv'
<1> DEFINE me == call[c]
           next == [me EXCEPT !.pc = "key",
                              !.cfg = squids[me.squid].cfg,
                              !.linked = squids[me.squid].accounts]
<1>1. PICK o \in ReadEnds :
        Spend(o) /\ Become(c, IF o = "ok" THEN next ELSE Finish(me, Failed(o)))
  BY DEF GetSquid
<1>2. me.pc = "squid" /\ ReadOnly /\ idem' = idem
  BY DEF GetSquid
<1>3. faults' \in 0..MaxFaults
  BY <1>1, SpendType DEF TypeInv
<1>4. CASE o = "ok"
  <2>1. me \in CallState /\ HasSquid(me)
    BY CallType
  <2>2. me.squid \in Squids
    BY <1>2, <2>1 DEF HasSquid
  <2>3. squids[me.squid] \in SquidState
    BY <2>2 DEF TypeInv, TypeOK
  <2>4. next \in CallState
    BY <2>1, <2>3 DEF CallState, SquidState, Steps
  <2>5. next.pc = "key" /\ next.squid = me.squid /\ next.req = me.req
    BY <2>1 DEF CallState
  <2>6. HasSquid(next)
    BY <2>2, <2>5 DEF HasSquid
  <2>7. Become(c, next)
    BY <1>1, <1>4
  <2>8. QED
    BY <1>2, <1>3, <2>4, <2>6, <2>7, ReadingType
<1>5. CASE o # "ok"
  BY <1>1, <1>2, <1>3, <1>5, AnswerTypes, FinishingType DEF ReadEnds
<1>6. QED
  BY <1>4, <1>5

\* The reads whose failure ends the call: nothing but the answer changes.
LEMMA FailingReadType ==
    ASSUME TypeInv, NEW c \in Calls,
           CatalogFails(c) \/ AccountsFail(c) \/ BalanceFails(c)
    PROVE  TypeInv'
<1>1. PICK o \in ReadEnds \ {"ok"} : Spend(o) /\ Become(c, Finish(call[c], Failed(o)))
  BY DEF CatalogFails, AccountsFail, BalanceFails
<1>2. ReadOnly /\ idem' = idem
  BY DEF CatalogFails, AccountsFail, BalanceFails
<1>3. faults' \in 0..MaxFaults
  BY <1>1, SpendType DEF TypeInv
<1>4. Failed(o) \in Answer
  BY AnswerTypes DEF ReadEnds
<1>5. QED
  BY <1>1, <1>2, <1>3, <1>4, FinishingType

\* The refusals, which read nothing.
LEMMA RefusalType ==
    ASSUME TypeInv, NEW c \in Calls,
           RefuseInput(c) \/ AskConfirmation(c) \/ RefuseTasks(c)
    PROVE  TypeInv'
<1> DEFINE me == call[c]
           ask   == [NoAnswer EXCEPT !.outcome = "needs_confirmation"]
           rows  == [Refused EXCEPT !.squid = me.squid, !.tasksLost = "no"]
<1>1. me \in CallState
  BY CallType
<1>2. ask \in Answer /\ rows \in Answer /\ Refused \in Answer
  <2>1. me.squid \in Squids \cup {NoSquid}
    BY <1>1 DEF CallState
  <2>2. QED
    BY <2>1, AnswerTypes DEF Answer
<1>3. ReadOnly /\ idem' = idem /\ faults' = faults
  BY DEF RefuseInput, AskConfirmation, RefuseTasks
<1>4. PICK a \in Answer : Become(c, Finish(me, a))
  BY <1>2 DEF RefuseInput, AskConfirmation, RefuseTasks
<1>5. faults' \in 0..MaxFaults
  BY <1>3 DEF TypeInv, TypeOK
<1>6. QED
  BY <1>3, <1>4, <1>5, FinishingType

LEMMA KeyHitType ==
    ASSUME TypeInv, NEW c \in Calls, KeyHit(c)
    PROVE  TypeInv'
<1>1. PICK e \in Lookup(KeyOf(call[c].req)) :
        Become(c, Finish(call[c], [NoAnswer EXCEPT !.outcome = "already_submitted",
                                                   !.run = e.run]))
  BY DEF KeyHit
<1>2. e.run \in Nat
  BY DEF Lookup, TypeInv, TypeOK
<1>3. [NoAnswer EXCEPT !.outcome = "already_submitted", !.run = e.run] \in Answer
  BY <1>2, AnswerTypes DEF Answer
<1>4. ReadOnly /\ idem' \subseteq idem /\ faults' = faults
  BY DEF KeyHit, Prune
<1>5. faults' \in 0..MaxFaults
  BY <1>4 DEF TypeInv, TypeOK
<1>6. QED
  BY <1>1, <1>3, <1>4, <1>5, FinishingType

LEMMA StoreFailsType ==
    ASSUME TypeInv, NEW c \in Calls, StoreFails(c)
    PROVE  TypeInv'
<1>1. faults' \in 0..MaxFaults
  BY SpendType DEF StoreFails, TypeInv
<1>2. QED
  BY <1>1, AnswerTypes, FinishingType DEF StoreFails

LEMMA KeyMissType ==
    ASSUME TypeInv, NEW c \in Calls, KeyMiss(c)
    PROVE  TypeInv'
<1> DEFINE me == call[c]
           found == {i \in 1..Len(runs) : /\ runs[i].key = KeyOf(me.req)
                                          /\ Over(runs[i].by)}
           next == [me EXCEPT !.pc = "account", !.asked = now, !.known = found]
<1>1. Become(c, next) /\ me.pc = "key"
  BY DEF KeyMiss
<1>2. ReadOnly /\ idem' \subseteq idem /\ faults' = faults
  BY DEF KeyMiss, Prune
<1>3. me \in CallState /\ HasSquid(me)
  BY CallType
<1>4. Len(runs) \in Nat /\ now \in Nat
  BY NumberAssumption DEF TypeInv, TypeOK
<1>5. found \subseteq Nat
  BY <1>4
<1> HIDE DEF found
<1>6. next \in CallState
  BY <1>3, <1>4, <1>5 DEF CallState, Steps
<1>7. next.pc = "account" /\ next.squid = me.squid /\ next.req = me.req
  BY <1>3 DEF CallState
<1>8. HasSquid(next)
  BY <1>1, <1>3, <1>7 DEF HasSquid, Reuse
<1>9. faults' \in 0..MaxFaults
  BY <1>2 DEF TypeInv, TypeOK
<1> HIDE DEF next
<1>10. QED
  BY <1>1, <1>2, <1>6, <1>8, <1>9, ReadingType

LEMMA ResolveAccountsType ==
    ASSUME TypeInv, NEW c \in Calls, ResolveAccounts(c)
    PROVE  TypeInv'
<1> DEFINE me == call[c]
           next == [me EXCEPT !.pc = IF Reuse(me) THEN "rows" ELSE "gate",
                              !.save = AccountsToSave(me)]
<1>1. /\ Become(c, IF AccountRefused(me) THEN Finish(me, Refused) ELSE next)
      /\ me.pc = "account"
  BY DEF ResolveAccounts
<1>2. ReadOnly /\ idem' = idem /\ faults' = faults
  BY DEF ResolveAccounts
<1>3. me \in CallState /\ HasSquid(me)
  BY CallType
<1>4. faults' \in 0..MaxFaults
  BY <1>2 DEF TypeInv, TypeOK
<1>5. CASE AccountRefused(me)
  BY <1>1, <1>2, <1>4, <1>5, AnswerTypes, FinishingType
<1>6. CASE ~AccountRefused(me)
  <2>1. AccountsToSave(me) \subseteq Accounts
    BY <1>3, AccountAssumption DEF AccountsToSave, CallState, Request
  <2>2. next \in CallState
    BY <1>3, <2>1 DEF CallState, Steps
  <2>3. /\ next.pc = IF Reuse(me) THEN "rows" ELSE "gate"
        /\ next.squid = me.squid /\ next.req = me.req
    BY <1>3 DEF CallState
  <2>4. HasSquid(next)
    BY <1>1, <1>3, <2>3 DEF HasSquid, Reuse
  <2> HIDE DEF next
  <2>5. QED
    BY <1>1, <1>2, <1>4, <1>6, <2>2, <2>4, ReadingType
<1>7. QED
  BY <1>5, <1>6

LEMMA SnapshotTasksType ==
    ASSUME TypeInv, NEW c \in Calls, SnapshotTasks(c)
    PROVE  TypeInv'
<1> DEFINE me == call[c]
           unread == [me EXCEPT !.pc = "gate"]
           seen(l) == [me EXCEPT !.pc = "gate", !.read = TRUE,
                                 !.rows = l \ {EmptyRow}, !.seen = Cardinality(l)]
<1>1. me \in CallState /\ HasSquid(me) /\ me.pc = "rows"
  BY CallType DEF SnapshotTasks
<1>2. me.squid \in Squids
  BY <1>1 DEF HasSquid
<1>3. ReadOnly /\ idem' = idem /\ faults' \in 0..MaxFaults
  BY SpendType DEF SnapshotTasks, TypeInv
<1>4. unread \in CallState /\ HasSquid(unread)
  <2>1. unread \in CallState /\ unread.squid = me.squid
    BY <1>1 DEF CallState, Steps
  <2>2. QED
    BY <1>2, <2>1 DEF HasSquid
<1>5. ASSUME NEW l \in Listings(me.squid)
      PROVE  seen(l) \in CallState /\ HasSquid(seen(l))
  <2>1. l \subseteq Rows
    BY <1>2, <1>5 DEF Listings, TypeInv, TypeOK, SquidState
  <2>2. Cardinality(l) \in Nat
    BY <2>1, InputAssumption, FS_Subset, FS_CardinalityType
  <2>3. seen(l) \in CallState /\ seen(l).squid = me.squid
    BY <1>1, <2>1, <2>2 DEF CallState, Steps
  <2>4. QED
    BY <1>2, <2>3 DEF HasSquid
<1>6. \/ Become(c, unread)
      \/ \E l \in Listings(me.squid) : Become(c, seen(l))
  BY DEF SnapshotTasks
<1> HIDE DEF unread, seen
<1>7. QED
  BY <1>3, <1>4, <1>5, <1>6, ReadingType

LEMMA PassGateType ==
    ASSUME TypeInv, NEW c \in Calls, PassGate(c)
    PROVE  TypeInv'
<1> DEFINE me == call[c]
           next == [me EXCEPT !.pc = FirstWrite(me)]
<1>1. Become(c, next) /\ me.pc = "gate"
  BY DEF PassGate
<1>2. ReadOnly /\ idem' = idem /\ faults' = faults
  BY DEF PassGate
<1>3. me \in CallState /\ HasSquid(me)
  BY CallType
<1>4. /\ FirstWrite(me) \in {"create", "update", "link", "start"}
      /\ ~Reuse(me) => FirstWrite(me) = "create"
  BY DEF FirstWrite
<1>5. next \in CallState
  BY <1>3, <1>4 DEF CallState, Steps
<1>6. next.pc = FirstWrite(me) /\ next.squid = me.squid /\ next.req = me.req
  BY <1>3 DEF CallState
<1>7. HasSquid(next)
  BY <1>1, <1>3, <1>4, <1>6 DEF HasSquid, Reuse
<1>8. faults' \in 0..MaxFaults
  BY <1>2 DEF TypeInv, TypeOK
<1> HIDE DEF next
<1>9. QED
  BY <1>1, <1>2, <1>5, <1>7, <1>8, ReadingType

-----------------------------------------------------------------------------
(* The same for the actions that write to a squid.                         *)

LEMMA WritingType ==
    ASSUME TypeInv, NEW c \in Calls, NEW me \in CallState, HasSquid(me),
           Become(c, me), NEW s \in Squids, NEW new \in SquidState,
           Put(s, new, {c}), Elsewhere, NEW o, Spend(o)
    PROVE  TypeInv'
<1>1. call' \in [Calls -> CallState] /\ SquidsKnown'
  BY BecomeType
<1>2. squids' \in [Squids -> SquidState] /\ disturbed' \subseteq Calls
  BY PutType DEF TypeInv
<1>3. faults' \in 0..MaxFaults
  BY SpendType DEF TypeInv
<1>4. QED
  BY <1>1, <1>2, <1>3 DEF TypeInv, TypeOK, Elsewhere

\* What the writing actions start from.
LEMMA WriterHasSquid ==
    ASSUME TypeInv, NEW c \in Calls,
           call[c].pc \in {"update", "empty", "add", "link", "configure", "cleanup",
                           "start", "restore", "record"}
    PROVE  /\ call[c] \in CallState
           /\ call[c].squid \in Squids
           /\ squids[call[c].squid] \in SquidState
<1>1. call[c] \in CallState /\ HasSquid(call[c])
  BY CallType
<1>2. call[c].squid \in Squids
  BY <1>1 DEF HasSquid
<1>3. QED
  BY <1>1, <1>2 DEF TypeInv, TypeOK

LEMMA ConfiguredType ==
    ASSUME NEW q \in SquidState, NEW me \in CallState
    PROVE  Configured(q, me) \in SquidState
<1>1. Effective(me) \in Cfgs
  BY DEF Effective, CallState, Request
<1>2. me.save \in SUBSET Accounts
  BY DEF CallState
<1>3. QED
  BY <1>1, <1>2 DEF Configured, SquidState

LEMMA UpdateSquidType ==
    ASSUME TypeInv, NEW c \in Calls, UpdateSquid(c)
    PROVE  TypeInv'
<1> DEFINE me == call[c]
           q == squids[me.squid]
           a == [NoAnswer EXCEPT !.outcome = "failed", !.squid = me.squid,
                                 !.tasksLost = "no"]
           next == [me EXCEPT !.pc = AfterSave(me)]
<1>1. me \in CallState /\ me.squid \in Squids /\ q \in SquidState
  BY WriterHasSquid DEF UpdateSquid
<1>2. PICK o \in WriteEnds :
        /\ Spend(o)
        /\ Put(me.squid, IF Applied(o) THEN Configured(q, me) ELSE q, {c})
        /\ Become(c, IF o # "ok" THEN Finish(me, a) ELSE next)
  BY DEF UpdateSquid
<1>3. (IF Applied(o) THEN Configured(q, me) ELSE q) \in SquidState
  BY <1>1, ConfiguredType
<1>4. a \in Answer
  BY <1>1, AnswerTypes DEF Answer
<1>5. Finish(me, a) \in CallState /\ HasSquid(Finish(me, a))
  BY <1>1, <1>4, FinishType
<1>6. next \in CallState /\ next.squid = me.squid
  BY <1>1 DEF CallState, Steps, AfterSave
<1>7. HasSquid(next)
  BY <1>1, <1>6 DEF HasSquid
<1>8. Elsewhere
  BY DEF UpdateSquid
<1> HIDE DEF next, a
<1>9. QED
  BY <1>1, <1>2, <1>3, <1>5, <1>6, <1>7, <1>8, WritingType

LEMMA EmptySquidType ==
    ASSUME TypeInv, NEW c \in Calls, EmptySquid(c)
    PROVE  TypeInv'
<1> DEFINE me == call[c]
           q == squids[me.squid]
           new(o) == IF Applied(o) THEN [q EXCEPT !.rows = {}] ELSE q
           next(o) == [me EXCEPT
                         !.pc = IF o = "ok" THEN "add" ELSE "restore",
                         !.erased = IF Applied(o) THEN q.rows ELSE @,
                         !.resp = IF o = "ok" THEN @
                                  ELSE [NoAnswer EXCEPT !.outcome = "failed"]]
<1>1. me \in CallState /\ me.squid \in Squids /\ q \in SquidState
  BY WriterHasSquid DEF EmptySquid
<1>2. PICK o \in WriteEnds :
        Spend(o) /\ Put(me.squid, new(o), {c}) /\ Become(c, next(o))
  BY DEF EmptySquid
<1>3. new(o) \in SquidState
  BY <1>1 DEF SquidState
<1>4. [NoAnswer EXCEPT !.outcome = "failed"] \in Answer
  BY AnswerTypes DEF Answer
<1>5. next(o) \in CallState /\ next(o).squid = me.squid
  BY <1>1, <1>4 DEF CallState, Steps, SquidState
<1>6. HasSquid(next(o))
  BY <1>1, <1>5 DEF HasSquid
<1>7. Elsewhere
  BY DEF EmptySquid
<1> HIDE DEF next, new
<1>8. QED
  BY <1>1, <1>2, <1>3, <1>5, <1>6, <1>7, WritingType

\* The call a failed add_tasks or configuration leaves.
LEMMA AddFailedType ==
    ASSUME NEW me \in CallState, me.squid \in Squids, NEW o \in WriteEnds
    PROVE  AddFailed(me, o) \in CallState /\ HasSquid(AddFailed(me, o))
<1> DEFINE bad == [NoAnswer EXCEPT !.outcome = "failed"]
           kept == [NoAnswer EXCEPT !.outcome = "failed", !.squid = me.squid,
                                    !.tasksLost = "no"]
           named == [Failed(o) EXCEPT !.squid = me.squid]
           undo == [me EXCEPT !.pc = "restore", !.resp = bad]
           drop == [me EXCEPT !.pc = "cleanup"]
<1>1. bad \in Answer /\ kept \in Answer /\ named \in Answer
  BY AnswerTypes DEF Answer
<1>2. /\ undo \in CallState /\ undo.squid = me.squid
      /\ drop \in CallState /\ drop.squid = me.squid
  BY <1>1 DEF CallState, Steps
<1>3. HasSquid(undo) /\ HasSquid(drop)
  BY <1>2 DEF HasSquid
<1>4. /\ Finish(me, kept) \in CallState /\ HasSquid(Finish(me, kept))
      /\ Finish(me, named) \in CallState /\ HasSquid(Finish(me, named))
  BY <1>1, FinishType
<1>5. AddFailed(me, o) \in {undo, drop, Finish(me, kept), Finish(me, named)}
  BY DEF AddFailed
<1> HIDE DEF undo, drop, kept, named
<1>6. QED
  BY <1>2, <1>3, <1>4, <1>5

LEMMA AddTasksType ==
    ASSUME TypeInv, NEW c \in Calls, AddTasks(c)
    PROVE  TypeInv'
<1> DEFINE me == call[c]
           q == squids[me.squid]
           new(o) == IF Applied(o) THEN [q EXCEPT !.rows = @ \cup {TaskRow(me)}] ELSE q
           next == [me EXCEPT !.pc = "start", !.action = AddedAs(me)]
<1>1. me \in CallState /\ me.squid \in Squids /\ q \in SquidState
  BY WriterHasSquid DEF AddTasks
<1>2. PICK o \in WriteEnds :
        /\ Spend(o) /\ Put(me.squid, new(o), {c})
        /\ Become(c, IF o = "ok" THEN next ELSE AddFailed(me, o))
  BY DEF AddTasks
<1>3. TaskRow(me) \in Rows
  BY <1>1, InputAssumption DEF TaskRow, HasTask, CallState, Request
<1>4. new(o) \in SquidState
  BY <1>1, <1>3 DEF SquidState
<1>5. next \in CallState /\ next.squid = me.squid
  BY <1>1 DEF CallState, Steps, AddedAs
<1>6. HasSquid(next)
  BY <1>1, <1>5 DEF HasSquid
<1>7. AddFailed(me, o) \in CallState /\ HasSquid(AddFailed(me, o))
  BY <1>1, AddFailedType
<1>8. Elsewhere
  BY DEF AddTasks
<1> HIDE DEF next, new
<1>9. QED
  BY <1>1, <1>2, <1>4, <1>5, <1>6, <1>7, <1>8, WritingType

LEMMA LinkAccountsType ==
    ASSUME TypeInv, NEW c \in Calls, LinkAccounts(c)
    PROVE  TypeInv'
<1> DEFINE me == call[c]
           q == squids[me.squid]
           new(o) == IF Applied(o) THEN [q EXCEPT !.accounts = me.save] ELSE q
           next == [me EXCEPT !.pc = "start"]
<1>1. me \in CallState /\ me.squid \in Squids /\ q \in SquidState
  BY WriterHasSquid DEF LinkAccounts
<1>2. PICK o \in WriteEnds :
        /\ Spend(o) /\ Put(me.squid, new(o), {c})
        /\ Become(c, IF o = "ok" THEN next ELSE Finish(me, Failed(o)))
  BY DEF LinkAccounts
<1>3. new(o) \in SquidState
  BY <1>1 DEF SquidState, CallState
<1>4. next \in CallState /\ next.squid = me.squid
  BY <1>1 DEF CallState, Steps
<1>5. HasSquid(next)
  BY <1>1, <1>4 DEF HasSquid
<1>6. Finish(me, Failed(o)) \in CallState /\ HasSquid(Finish(me, Failed(o)))
  BY <1>1, AnswerTypes, FinishType
<1>7. Elsewhere
  BY DEF LinkAccounts
<1> HIDE DEF next, new
<1>8. QED
  BY <1>1, <1>2, <1>3, <1>4, <1>5, <1>6, <1>7, WritingType

LEMMA CreateSquidType ==
    ASSUME TypeInv, NEW c \in Calls, CreateSquid(c)
    PROVE  TypeInv'
<1> DEFINE me == call[c]
           born == [Absent EXCEPT !.exists = TRUE]
           base(o, s) == IF o = "ok" THEN [me EXCEPT !.pc = "configure", !.squid = s]
                         ELSE Finish(me, Failed(o))
           next(o, s) == [base(o, s) EXCEPT !.made = IF Applied(o) THEN s ELSE NoSquid]
<1>1. me \in CallState
  BY CallType
<1>2. PICK o \in WriteEnds, s \in {t \in Squids \ Saved : ~squids[t].exists} :
        /\ Spend(o)
        /\ Put(s, IF Applied(o) THEN born ELSE squids[s], {c})
        /\ Become(c, next(o, s))
  BY DEF CreateSquid
<1>3. s \in Squids /\ squids[s] \in SquidState
  BY <1>2 DEF TypeInv, TypeOK
<1>4. born \in SquidState
  BY InputAssumption DEF Absent, SquidState
<1>5. (IF Applied(o) THEN born ELSE squids[s]) \in SquidState
  BY <1>3, <1>4
<1>6. base(o, s) \in CallState /\ HasSquid(base(o, s))
  <2>1. CASE o = "ok"
    <3>1. base(o, s) = [me EXCEPT !.pc = "configure", !.squid = s]
      BY <2>1
    <3>2. base(o, s) \in CallState /\ base(o, s).squid = s
      BY <1>1, <1>3, <3>1 DEF CallState, Steps
    <3>3. QED
      BY <1>3, <3>2 DEF HasSquid
  <2>2. CASE o # "ok"
    BY <1>1, <2>2, AnswerTypes, FinishType
  <2>3. QED
    BY <2>1, <2>2
<1> HIDE DEF base
<1>7. next(o, s) \in CallState
  BY <1>3, <1>6 DEF CallState
<1>8. /\ next(o, s).pc = base(o, s).pc /\ next(o, s).req = base(o, s).req
      /\ next(o, s).squid = base(o, s).squid
  BY <1>6 DEF CallState
<1>9. HasSquid(next(o, s))
  BY <1>6, <1>8 DEF HasSquid, Reuse
<1>10. Elsewhere
  BY DEF CreateSquid
<1> HIDE DEF next, born
<1>11. QED
  BY <1>2, <1>3, <1>5, <1>7, <1>9, <1>10, WritingType

LEMMA ConfigureSquidType ==
    ASSUME TypeInv, NEW c \in Calls, ConfigureSquid(c)
    PROVE  TypeInv'
<1> DEFINE me == call[c]
           q == squids[me.squid]
           next == [me EXCEPT !.pc = "add"]
<1>1. me \in CallState /\ me.squid \in Squids /\ q \in SquidState
  BY WriterHasSquid DEF ConfigureSquid
<1>2. PICK o \in WriteEnds :
        /\ Spend(o)
        /\ Put(me.squid, IF Applied(o) THEN Configured(q, me) ELSE q, {c})
        /\ Become(c, IF o = "ok" THEN next ELSE AddFailed(me, o))
  BY DEF ConfigureSquid
<1>3. (IF Applied(o) THEN Configured(q, me) ELSE q) \in SquidState
  BY <1>1, ConfiguredType
<1>4. next \in CallState /\ next.squid = me.squid
  BY <1>1 DEF CallState, Steps
<1>5. HasSquid(next)
  BY <1>1, <1>4 DEF HasSquid
<1>6. AddFailed(me, o) \in CallState /\ HasSquid(AddFailed(me, o))
  BY <1>1, AddFailedType
<1>7. Elsewhere
  BY DEF ConfigureSquid
<1> HIDE DEF next
<1>8. QED
  BY <1>1, <1>2, <1>3, <1>4, <1>5, <1>6, <1>7, WritingType

LEMMA DeleteSquidType ==
    ASSUME TypeInv, NEW c \in Calls, DeleteSquid(c)
    PROVE  TypeInv'
<1> DEFINE me == call[c]
           q == squids[me.squid]
           a(o) == [NoAnswer EXCEPT !.outcome = "failed", !.squid = me.squid,
                                    !.deleted = o = "ok"]
<1>1. me \in CallState /\ me.squid \in Squids /\ q \in SquidState
  BY WriterHasSquid DEF DeleteSquid
<1>2. PICK o \in WriteEnds :
        /\ Spend(o)
        /\ Put(me.squid, IF Applied(o) THEN Absent ELSE q, {c})
        /\ Become(c, Finish(me, a(o)))
  BY DEF DeleteSquid
<1>3. (IF Applied(o) THEN Absent ELSE q) \in SquidState
  BY <1>1, InputAssumption DEF Absent, SquidState
<1>4. a(o) \in Answer
  BY <1>1, AnswerTypes DEF Answer
<1>5. Finish(me, a(o)) \in CallState /\ HasSquid(Finish(me, a(o)))
  BY <1>1, <1>4, FinishType
<1>6. Elsewhere
  BY DEF DeleteSquid
<1> HIDE DEF a
<1>7. QED
  BY <1>1, <1>2, <1>3, <1>5, <1>6, WritingType

LEMMA RestoreTasksType ==
    ASSUME TypeInv, NEW c \in Calls, RestoreTasks(c)
    PROVE  TypeInv'
<1> DEFINE me == call[c]
           q == squids[me.squid]
           new(o) == IF Applied(o) THEN [q EXCEPT !.rows = @ \cup me.rows] ELSE q
           a(o) == RestoreAnswer(me, o)
<1>1. me \in CallState /\ me.squid \in Squids /\ q \in SquidState
  BY WriterHasSquid DEF RestoreTasks
<1>2. PICK o \in WriteEnds :
        Spend(o) /\ Put(me.squid, new(o), {c}) /\ Become(c, Finish(me, a(o)))
  BY DEF RestoreTasks
<1>3. new(o) \in SquidState
  BY <1>1 DEF SquidState, CallState
<1>4. a(o) \in Answer
  <2>1. me.resp \in Answer /\ me.rows \in SUBSET Rows
    BY <1>1 DEF CallState
  <2>2. QED
    BY <1>1, <2>1 DEF RestoreAnswer, Answer
<1>5. Finish(me, a(o)) \in CallState /\ HasSquid(Finish(me, a(o)))
  BY <1>1, <1>4, FinishType
<1>6. Elsewhere
  BY DEF RestoreTasks
<1> HIDE DEF new, a
<1>7. QED
  BY <1>1, <1>2, <1>3, <1>5, <1>6, WritingType

LEMMA RestoreNothingType ==
    ASSUME TypeInv, NEW c \in Calls, RestoreNothing(c)
    PROVE  TypeInv'
<1> DEFINE me == call[c]
           a == [me.resp EXCEPT !.squid = me.squid,
                                !.tasksLost = IF me.read THEN "no" ELSE "yes"]
<1>1. me \in CallState /\ me.squid \in Squids
  BY WriterHasSquid DEF RestoreNothing
<1>2. a \in Answer
  <2>1. me.resp \in Answer
    BY <1>1 DEF CallState
  <2>2. QED
    BY <1>1, <2>1 DEF Answer
<1>3. Become(c, Finish(me, a)) /\ ReadOnly /\ idem' = idem /\ faults' = faults
  BY DEF RestoreNothing, Elsewhere, ReadOnly
<1>4. faults' \in 0..MaxFaults
  BY <1>3 DEF TypeInv, TypeOK
<1> HIDE DEF a
<1>5. QED
  BY <1>2, <1>3, <1>4, FinishingType

-----------------------------------------------------------------------------
(* Starting and recording a run.                                           *)

LEMMA StartRunType ==
    ASSUME TypeInv, NEW c \in Calls, StartRun(c)
    PROVE  TypeInv'
<1> DEFINE me == call[c]
           a(o) == [Failed(o) EXCEPT !.squid = me.squid, !.taskCount = TaskCount(me)]
           go == [me EXCEPT !.pc = "record", !.run = Len(runs) + 1]
           undo(o) == [me EXCEPT !.pc = "restore", !.resp = a(o)]
           Run == [squid : Squids, rows : SUBSET Rows, cfg : Cfgs,
                   accounts : SUBSET Accounts, by : Calls, key : StoreKeys]
<1>1. me \in CallState /\ me.squid \in Squids /\ squids[me.squid] \in SquidState
  BY WriterHasSquid DEF StartRun
<1>2. PICK o \in WriteEnds :
        /\ Spend(o)
        /\ runs' = IF Applied(o) THEN Append(runs, RunOf(c, me)) ELSE runs
        /\ Become(c, IF o = "ok" THEN go
                     ELSE IF me.action = "replaced" THEN undo(o) ELSE Finish(me, a(o)))
  BY DEF StartRun
<1>3. runs \in Seq(Run)
  BY DEF TypeInv, TypeOK
<1>4. RunOf(c, me) \in Run
  <2>1. KeyOf(me.req) \in StoreKeys
    BY <1>1, KeyType DEF CallState
  <2>2. QED
    BY <1>1, <2>1 DEF RunOf, SquidState
<1>5. runs' \in Seq(Run) /\ Len(runs) + 1 \in Nat
  <2> DEFINE r == RunOf(c, me)
  <2> HIDE DEF Run, r
  <2>1. r \in Run /\ runs \in Seq(Run)
    BY <1>3, <1>4 DEF r
  <2>2. Append(runs, r) \in Seq(Run) /\ Len(runs) \in Nat
    BY <2>1
  <2>3. runs' \in {runs, Append(runs, r)}
    BY <1>2 DEF r
  <2>4. QED
    BY <2>1, <2>2, <2>3
<1>6. a(o) \in Answer
  <2>1. TaskCount(me) \in Nat
    BY <1>1 DEF TaskCount, CallState
  <2>2. QED
    BY <1>1, <2>1, AnswerTypes DEF Answer
<1>7. /\ go \in CallState /\ go.squid = me.squid
      /\ undo(o) \in CallState /\ undo(o).squid = me.squid
  BY <1>1, <1>5, <1>6 DEF CallState, Steps
<1>8. HasSquid(go) /\ HasSquid(undo(o))
  BY <1>1, <1>7 DEF HasSquid
<1>9. Finish(me, a(o)) \in CallState /\ HasSquid(Finish(me, a(o)))
  BY <1>1, <1>6, FinishType
<1> HIDE DEF go, undo, a
<1>10. PICK m \in CallState : HasSquid(m) /\ Become(c, m)
  BY <1>2, <1>7, <1>8, <1>9
<1>11. call' \in [Calls -> CallState] /\ SquidsKnown'
  BY <1>10, BecomeType
<1>12. faults' \in 0..MaxFaults
  BY <1>2, SpendType DEF TypeInv
<1>13. UNCHANGED <<squids, idem, now, disturbed, edits>>
  BY DEF StartRun
<1>14. QED
  BY <1>5, <1>11, <1>12, <1>13 DEF TypeInv, TypeOK

LEMMA RecordRunType ==
    ASSUME TypeInv, NEW c \in Calls, RecordRun(c)
    PROVE  TypeInv'
<1> DEFINE me == call[c]
           t == now + TTL(me.req)
           a(o) == IF o = "ok" THEN StartedAnswer(me) ELSE Raised
           u(o) == IF Applied(o) THEN t ELSE me.until
           next(o) == [Finish(me, a(o)) EXCEPT !.until = u(o)]
<1>1. me \in CallState /\ me.squid \in Squids
  BY WriterHasSquid DEF RecordRun
<1>2. PICK o \in StoreEnds :
        /\ Spend(o)
        /\ IF Applied(o) THEN StorePut(KeyOf(me.req), me.run, t) ELSE UNCHANGED idem
        /\ Become(c, [Finish(me, a(o)) EXCEPT !.until = IF Applied(o) THEN t ELSE @])
  BY DEF RecordRun
<1>3. KeyOf(me.req) \in StoreKeys /\ t \in Nat /\ me.run \in Nat
  <2>1. me.req \in Request /\ me.run \in Nat
    BY <1>1 DEF CallState
  <2>2. now \in Nat
    BY NumberAssumption DEF TypeInv, TypeOK
  <2>3. QED
    BY <2>1, <2>2, KeyType
<1>4. a(o) \in Answer
  <2>1. TaskCount(me) \in Nat
    BY <1>1 DEF TaskCount, CallState
  <2>2. StartedAnswer(me) \in Answer
    BY <1>1, <1>3, <2>1, AnswerTypes DEF Answer, StartedAnswer
  <2>3. QED
    BY <2>2, AnswerTypes
<1> HIDE DEF a
<1>5. Finish(me, a(o)) \in CallState
  BY <1>1, <1>4, FinishType
<1>6. Finish(me, a(o)).pc = "done" /\ Finish(me, a(o)).until = me.until
  BY <1>1 DEF Finish, CallState
<1>7. Become(c, next(o))
  BY <1>2, <1>6
<1>8. u(o) \in Nat
  BY <1>1, <1>3 DEF CallState
<1>9. faults' \in 0..MaxFaults
  BY <1>2, SpendType DEF TypeInv
<1> HIDE DEF t, u
<1>10. next(o) \in CallState /\ next(o).pc = "done"
  BY <1>5, <1>6, <1>8 DEF CallState
<1>11. HasSquid(next(o))
  BY <1>10 DEF HasSquid
<1> HIDE DEF next
<1>12. call' \in [Calls -> CallState] /\ SquidsKnown'
  BY <1>7, <1>10, <1>11, BecomeType
<1>13. idem' \subseteq [key : StoreKeys, run : Nat, until : Nat]
  BY <1>2, <1>3 DEF StorePut, TypeInv, TypeOK
<1>14. UNCHANGED <<squids, runs, now, disturbed, edits>>
  BY DEF RecordRun
<1>15. QED
  BY <1>9, <1>12, <1>13, <1>14 DEF TypeInv, TypeOK

\* How a call ends that has started its run: what it is answered, and what the
\* store and the call know of each other.
LEMMA RecordEnds ==
    ASSUME TypeInv, NEW c \in Calls, RecordRun(c)
    PROVE  LET me == call[c]
               m  == call'[c]
               t  == now + TTL(me.req) IN
           /\ me.pc = "record" /\ m.pc = "done" /\ m.req = me.req
           /\ m.squid = me.squid /\ m.cfg = me.cfg /\ m.linked = me.linked
           /\ m.save = me.save /\ m.read = me.read /\ m.rows = me.rows
           /\ m.seen = me.seen /\ m.action = me.action /\ m.run = me.run
           /\ m.erased = me.erased /\ m.made = me.made
           /\ m.asked = me.asked /\ m.known = me.known
           /\ m.resp \in {StartedAnswer(me), Raised}
           /\ \/ StorePut(KeyOf(me.req), me.run, t) /\ m.until = t
              \/ UNCHANGED idem /\ m.until = me.until /\ m.resp = Raised
           /\ m.resp.outcome = "raised" => SharedStore
           /\ \A d \in Calls \ {c} : call'[d] = call[d]
<1> DEFINE me == call[c]
           t == now + TTL(me.req)
           a(o) == IF o = "ok" THEN StartedAnswer(me) ELSE Raised
           next(o) == [Finish(me, a(o)) EXCEPT !.until = IF Applied(o) THEN t ELSE @]
<1>1. PICK o \in StoreEnds :
        /\ IF Applied(o) THEN StorePut(KeyOf(me.req), me.run, t) ELSE UNCHANGED idem
        /\ Become(c, next(o))
  BY DEF RecordRun
<1>2. me \in CallState /\ me.pc = "record" /\ call \in [Calls -> CallState]
  BY CallType DEF RecordRun, TypeInv, TypeOK
<1>3. call'[c] = next(o) /\ \A d \in Calls \ {c} : call'[d] = call[d]
  BY <1>1, <1>2 DEF Become
<1>4. a(o) \in {StartedAnswer(me), Raised} /\ (~Applied(o) => a(o) = Raised)
  BY DEF Applied
<1>4a. a(o).outcome = "raised" => SharedStore
  <2>1. o # "ok" => SharedStore
    BY DEF StoreEnds
  <2>2. StartedAnswer(me).outcome = "started"
    BY DEF StartedAnswer, NoAnswer
  <2>3. QED
    BY <2>1, <2>2
<1> HIDE DEF a, t
<1>5. /\ next(o).pc = "done" /\ next(o).req = me.req
      /\ next(o).squid = me.squid /\ next(o).cfg = me.cfg /\ next(o).linked = me.linked
      /\ next(o).save = me.save /\ next(o).read = me.read /\ next(o).rows = me.rows
      /\ next(o).seen = me.seen /\ next(o).action = me.action /\ next(o).run = me.run
      /\ next(o).erased = me.erased /\ next(o).made = me.made
      /\ next(o).asked = me.asked /\ next(o).known = me.known
      /\ next(o).resp = a(o)
      /\ next(o).until = IF Applied(o) THEN t ELSE me.until
  BY <1>2 DEF Finish, CallState
<1> HIDE DEF next
<1>6. QED
  BY <1>1, <1>2, <1>3, <1>4, <1>4a, <1>5 DEF t

-----------------------------------------------------------------------------
(* The surroundings.                                                       *)

LEMMA TickType ==
    ASSUME TypeInv, Tick
    PROVE  TypeInv'
  BY NumberAssumption DEF TypeInv, TypeOK, Tick, SquidsKnown

LEMMA EditType ==
    ASSUME NEW squid \in SquidState, NEW new \in EditsOf(squid)
    PROVE  new \in SquidState
<1>1. CASE \E r \in SUBSET Rows : new = [squid EXCEPT !.rows = r]
  BY <1>1 DEF SquidState
<1>2. CASE \E k \in Cfgs : new = [squid EXCEPT !.cfg = k]
  BY <1>2 DEF SquidState
<1>3. CASE \E l \in SUBSET Accounts : new = [squid EXCEPT !.accounts = l]
  BY <1>3 DEF SquidState
<1>4. QED
  BY <1>1, <1>2, <1>3 DEF EditsOf

LEMMA OutsideEditType ==
    ASSUME TypeInv, NEW s \in Saved, OutsideEdit(s)
    PROVE  TypeInv'
<1>1. s \in Squids /\ squids[s] \in SquidState
  BY SquidAssumption DEF TypeInv, TypeOK
<1>2. PICK new \in EditsOf(squids[s]) : Put(s, new, {})
  BY DEF OutsideEdit
<1>3. new \in SquidState
  BY <1>1, EditType
<1>4. squids' \in [Squids -> SquidState] /\ disturbed' \subseteq Calls
  BY <1>1, <1>2, <1>3, PutType DEF TypeInv
<1>5. edits' \in 0..MaxEdits
  BY NumberAssumption DEF OutsideEdit, TypeInv, TypeOK
<1>6. UNCHANGED <<runs, idem, now, call, faults>>
  BY DEF OutsideEdit
<1>7. QED
  BY <1>4, <1>5, <1>6 DEF TypeInv, TypeOK, SquidsKnown

LEMMA RestartType ==
    ASSUME TypeInv, NEW gone \in SUBSET Calls, Restart(gone)
    PROVE  TypeInv'
<1> DEFINE pc(c)    == IF c \in gone THEN "dead" ELSE call[c].pc
           until(c) == IF SharedStore THEN call[c].until ELSE 0
           after(c) == [call[c] EXCEPT !.pc = pc(c), !.until = until(c)]
<1>1. ASSUME NEW c \in Calls
      PROVE  after(c) \in CallState /\ HasSquid(after(c))
  <2>1. call[c] \in CallState /\ HasSquid(call[c])
    BY CallType
  <2>2. pc(c) \in {"dead", call[c].pc} /\ pc(c) \in Steps /\ until(c) \in Nat
    BY <2>1 DEF CallState, Steps
  <2> HIDE DEF pc, until
  <2>3. after(c) \in CallState
    BY <2>1, <2>2 DEF CallState
  <2>4. /\ after(c).pc \in {"dead", call[c].pc}
        /\ after(c).req = call[c].req /\ after(c).squid = call[c].squid
    BY <2>1, <2>2 DEF CallState
  <2> HIDE DEF after
  <2>5. QED
    BY <2>1, <2>3, <2>4 DEF HasSquid, Reuse
<1>2. call' = [c \in Calls |-> after(c)]
  BY DEF Restart
<1> HIDE DEF after
<1>3. call' \in [Calls -> CallState] /\ SquidsKnown'
  BY <1>1, <1>2 DEF SquidsKnown
<1>4. faults' \in 0..MaxFaults
  <2>1. faults < MaxFaults /\ faults' = faults + 1
    BY DEF Restart
  <2>2. faults \in 0..MaxFaults
    BY DEF TypeInv, TypeOK
  <2>3. QED
    BY <2>1, <2>2, NumberAssumption
<1>5. idem' \subseteq [key : StoreKeys, run : Nat, until : Nat]
  BY DEF Restart, TypeInv, TypeOK
<1>6. UNCHANGED <<squids, runs, now, disturbed, edits>>
  BY DEF Restart
<1>7. QED
  BY <1>3, <1>4, <1>5, <1>6 DEF TypeInv, TypeOK

-----------------------------------------------------------------------------
(* Type correctness.                                                       *)

LEMMA InitType == Init => TypeInv
<1> SUFFICES ASSUME Init PROVE TypeInv
  OBVIOUS
<1>1. \A c \in Calls : call[c] = IdleCall /\ HasSquid(call[c])
  BY DEF Init, HasSquid, IdleCall
<1>2. call \in [Calls -> CallState]
  BY IdleType DEF Init
<1>3. QED
  BY <1>1, <1>2, NumberAssumption DEF Init, TypeInv, TypeOK, SquidsKnown

LEMMA NextType == TypeInv /\ [Next]_vars => TypeInv'
<1> SUFFICES ASSUME TypeInv, [Next]_vars PROVE TypeInv'
  OBVIOUS
<1>1. ASSUME NEW c \in Calls, Step(c) PROVE TypeInv'
  BY <1>1, InvokeType, GetSquidType, FailingReadType, RefusalType, KeyHitType,
     KeyMissType, StoreFailsType, ResolveAccountsType, SnapshotTasksType, PassGateType,
     UpdateSquidType, EmptySquidType, AddTasksType, LinkAccountsType,
     CreateSquidType, ConfigureSquidType, DeleteSquidType, StartRunType,
     RestoreNothingType, RestoreTasksType, RecordRunType
     DEF Step
<1>2. CASE UNCHANGED vars
  BY <1>2 DEF vars, TypeInv, TypeOK, SquidsKnown
<1>3. QED
  BY <1>1, <1>2, TickType, OutsideEditType, RestartType DEF Next, Quiet

\* Every variable keeps its type, whatever the API answers, whoever else edits a
\* squid and wherever a process dies.
THEOREM TypeCorrect == Spec => []TypeOK
<1>1. Spec => []TypeInv
  BY InitType, NextType, PTL DEF Spec
<1>2. TypeInv => TypeOK
  BY DEF TypeInv
<1>3. QED
  BY <1>1, <1>2, PTL
=============================================================================
