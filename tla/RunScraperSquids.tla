-------------------------- MODULE RunScraperSquids --------------------------
(***************************************************************************)
(* What the calls of RunScraper do to the squids they run: what passes the *)
(* gate, which rows and accounts are lost, and what an answer says of it,  *)
(* for every value of the constants.                                       *)
(***************************************************************************)
EXTENDS RunScraperSafety

-----------------------------------------------------------------------------
(* What the local state of a call says of itself.                          *)

\* The steps past the gate.
Paid == {"update", "empty", "add", "link", "create", "configure", "cleanup",
         "start", "restore", "record"}

\* The answer of a call that has not finished claims nothing yet.
Claimless(me) ==
    me.pc # "done" =>
      /\ me.resp.outcome \in {"none", "failed"}
      /\ me.resp.tasksLost = "none"
      /\ me.resp.lostTasks = {}
      /\ ~me.resp.deleted

\* What the reads have found.
ReadsOnly(me) ==
    /\ ~me.read => me.rows = {}
    /\ ~Reuse(me) => me.linked = {} /\ ~me.read

\* Which call reaches which step, and what it has passed on the way.
OnRoute(me) ==
    /\ me.pc = "squid" => me.save = {}
    /\ me.pc \in {"idle", "squid", "key", "account", "rows"} => ~me.read
    /\ me.pc \in {"squid", "rows", "update", "empty", "link"} => Reuse(me)
    /\ me.pc = "update" => HasInput(me)
    /\ me.pc = "link" => ~HasInput(me) /\ me.save # {}
    /\ me.pc = "empty" => me.req.replace /\ HasInput(me)
    /\ me.pc = "add" /\ Reuse(me) => me.req.replace \/ HasTask(me)
    /\ me.pc \in {"create", "configure", "cleanup"} => ~Reuse(me)
    /\ me.pc \notin {"start", "restore", "record", "done", "dead"} =>
         me.action = "unchanged"
    /\ me.pc \in Paid => ~NeedsConfirmation(me) /\ ~ProtectsRows(me)

\* The accounts to save are the ones read and more.
SavesMore(me) ==
    /\ me.save # {} => me.linked \subseteq me.save
    /\ NeedsAccount /\ (me.pc \in Paid \/ me.pc \in {"rows", "gate"}) =>
         me.save # {} \/ me.linked # {}

\* The squid a call works on: the one it names, or the one it made.
OnSquid(me) ==
    /\ Reuse(me) => /\ me.squid = me.req.squid
                    /\ me.squid \in Saved
                    /\ me.made = NoSquid
    /\ ~Reuse(me) =>
         /\ me.pc \in {"idle", "key", "account", "gate", "create"} =>
              me.made = NoSquid /\ me.squid = NoSquid
         /\ me.pc \in {"configure", "add", "cleanup", "start", "restore", "record"} =>
              me.made # NoSquid /\ me.squid = me.made
    /\ me.made # NoSquid => me.made \in Squids \ Saved
    /\ me.made # NoSquid /\ me.pc = "done" =>
         \/ me.resp.squid = me.made
         \/ me.resp.squid = NoSquid /\ me.resp.state = "unknown"
         \/ me.resp.outcome = "raised" /\ me.run # 0

\* Only a replacement destroys rows, and its answer accounts for them.
Erases(me) ==
    /\ me.erased # {} =>
         /\ me.pc \in {"add", "start", "restore", "record", "done", "dead"}
         /\ Reuse(me) /\ me.req.replace
         /\ me.pc = "start" => me.action = "replaced"
    /\ me.erased # {} /\ me.pc = "done" /\ me.resp.outcome = "failed" =>
         IF me.read THEN me.rows \subseteq me.resp.restored \cup me.resp.lostTasks
         ELSE me.resp.tasksLost = "yes"

\* What is said of a loss.
TellsLoss(me) ==
    /\ me.resp.tasksLost = "no" => me.resp.lostTasks = {}
    /\ me.resp.tasksLost = "yes" => (me.resp.lostTasks # {} <=> me.read)

\* What is said of a run.
TellsRun(me) ==
    me.resp.outcome = "started" =>
      me.resp.squid = me.squid /\ me.resp.taskCount = TaskCount(me)

Local(me) ==
    /\ Claimless(me) /\ ReadsOnly(me) /\ OnRoute(me) /\ SavesMore(me)
    /\ OnSquid(me) /\ Erases(me) /\ TellsLoss(me) /\ TellsRun(me)

-----------------------------------------------------------------------------
(* What it says of the squid it works on.                                  *)

\* The snapshot shows the rows R, as far as pages go.
Listed(me, R) ==
    \/ Cardinality(R) > PageCap
    \/ me.seen = Cardinality(R) /\ me.rows = R \ {EmptyRow}

\* Running q is what the call's estimate was for and what its answer counts.
Priced(me, q) ==
    /\ q.cfg = Effective(me)
    /\ \/ me.req.confirm
       \/ Cardinality(q.rows) <= FreeRows[Effective(me)]
       \/ Reuse(me) /\ ~me.read
       \/ Cardinality(q.rows) > PageCap
    /\ \/ TaskCount(me) = Cardinality(q.rows)
       \/ me.action = "unchanged" /\ ~me.read
       \/ Cardinality(q.rows) > PageCap

\* The view of a call that nobody has disturbed.
Fresh(me, q) ==
    /\ Reuse(me) /\ me.pc \in {"key", "account", "rows", "gate", "update", "link"} =>
         q.accounts = me.linked /\ q.cfg = me.cfg
    /\ me.read /\ me.pc \in {"gate", "update", "link", "empty"} => Listed(me, q.rows)
    /\ me.pc \in {"empty", "add"} => q.cfg = Effective(me)
    /\ me.pc = "add" /\ Reuse(me) /\ ~me.req.replace => Listed(me, q.rows)
    /\ me.pc = "add" /\ (~Reuse(me) \/ me.req.replace) => q.rows = {}
    /\ me.pc = "configure" => q.rows = {}
    /\ me.pc = "start" => Priced(me, q)
    /\ NeedsAccount /\ me.pc \in {"empty", "add", "start"} => q.accounts # {}

\* What holds of its squid whatever others do.
Held(me, q) ==
    me.pc \in {"rows", "gate"} \cup (Paid \ {"create"}) /\ me.squid # NoSquid => q.exists

\* The rows it destroyed are rows it had read.
Kept(me) ==
    me.read /\ Cardinality(me.erased) <= PageCap => me.erased \ {EmptyRow} \subseteq me.rows

View(c) ==
    LET me == call[c] IN
    /\ Local(me)
    /\ me.squid # NoSquid => Held(me, squids[me.squid])
    /\ me.squid # NoSquid /\ c \notin disturbed => Fresh(me, squids[me.squid])
    /\ c \notin disturbed => Kept(me)
    /\ me.resp.deleted => me.made # NoSquid /\ ~squids[me.made].exists

\* A squid made for a call is nobody else's.
MadeApart ==
    \A c, d \in Calls : call[c].made # NoSquid /\ call[c].made = call[d].made => c = d

\* The saved squids are there; one that is not there holds nothing.
SquidsSound ==
    \A s \in Squids : ~squids[s].exists => s \notin Saved /\ squids[s].rows = {}

\* A run is what the call that started it was looking at.
RunFits(r) ==
    LET me == call[r.by] IN
    /\ r.squid = me.squid
    /\ r.by \in disturbed \/ Priced(me, r)
    /\ r.by \in disturbed \/ (NeedsAccount => r.accounts # {})

RunsFit == \A i \in 1..Len(runs) : RunFits(runs[i])

\* The run that the answer of call c, in state me, names.
Named(c, me) ==
    /\ me.resp.outcome = "started" =>
         me.resp.run \in 1..Len(runs) /\ runs[me.resp.run].by = c
    /\ me.resp.outcome = "already_submitted" =>
         me.resp.run \in 1..Len(runs) /\ runs[me.resp.run].key = KeyOf(me.req)

AnswersNamed == \A c \in Calls : Named(c, call[c])

SquidInv ==
    /\ \A c \in Calls : View(c)
    /\ MadeApart /\ SquidsSound /\ RunsFit /\ AnswersNamed
-----------------------------------------------------------------------------
(* What the actions have in common.                                        *)

\* The fields that the steps after the gate hardly change.
Alike(me, m) ==
    /\ m.req = me.req /\ m.squid = me.squid /\ m.cfg = me.cfg
    /\ m.linked = me.linked /\ m.save = me.save /\ m.read = me.read
    /\ m.rows = me.rows /\ m.seen = me.seen /\ m.action = me.action
    /\ m.erased = me.erased /\ m.made = me.made

LEMMA FinishAlike ==
    ASSUME NEW me \in CallState, NEW a
    PROVE  /\ Finish(me, a).pc = "done" /\ Finish(me, a).resp = a
           /\ Alike(me, Finish(me, a))
  BY DEF Finish, CallState, Alike

LEMMA MoveAlike ==
    ASSUME NEW me \in CallState, NEW p
    PROVE  LET m == [me EXCEPT !.pc = p]
           IN m.pc = p /\ m.resp = me.resp /\ Alike(me, m)
  BY DEF CallState, Alike

LEMMA UndoAlike ==
    ASSUME NEW me \in CallState, NEW p, NEW a
    PROVE  LET m == [me EXCEPT !.pc = p, !.resp = a]
           IN m.pc = p /\ m.resp = a /\ Alike(me, m)
  BY DEF CallState, Alike

\* What is computed from those fields alone.
LEMMA AlikeSame ==
    ASSUME NEW me, NEW m, Alike(me, m)
    PROVE  /\ Reuse(m) <=> Reuse(me)
           /\ HasTask(m) <=> HasTask(me)
           /\ HasInput(m) <=> HasInput(me)
           /\ NeedsConfirmation(m) <=> NeedsConfirmation(me)
           /\ ProtectsRows(m) <=> ProtectsRows(me)
           /\ Effective(m) = Effective(me)
           /\ TaskCount(m) = TaskCount(me)
           /\ Kept(m) <=> Kept(me)
           /\ \A R : Listed(m, R) <=> Listed(me, R)
           /\ \A q : Priced(m, q) <=> Priced(me, q)
<1>1. (Reuse(m) <=> Reuse(me)) /\ (HasTask(m) <=> HasTask(me))
  BY DEF Alike, Reuse, HasTask
<1>2. (HasInput(m) <=> HasInput(me)) /\ Effective(m) = Effective(me)
  BY <1>1 DEF Alike, HasInput, Effective
<1>3. RowsThisRun(m) = RowsThisRun(me)
  BY <1>1 DEF Alike, RowsThisRun
<1>4. NeedsConfirmation(m) <=> NeedsConfirmation(me)
  BY <1>2, <1>3 DEF Alike, NeedsConfirmation, EstimatedRows
<1>5. ProtectsRows(m) <=> ProtectsRows(me)
  BY <1>1 DEF Alike, ProtectsRows
<1>6. TaskCount(m) = TaskCount(me)
  BY DEF Alike, TaskCount
<1>7. (Kept(m) <=> Kept(me)) /\ \A R : Listed(m, R) <=> Listed(me, R)
  BY DEF Alike, Kept, Listed
<1>8. \A q : Priced(m, q) <=> Priced(me, q)
  BY <1>1, <1>2, <1>6 DEF Alike, Priced
<1>9. QED
  BY <1>1, <1>2, <1>4, <1>5, <1>6, <1>7, <1>8

LEMMA OwnSquid ==
    ASSUME TypeInv, NEW c \in Calls
    PROVE  /\ call[c] \in CallState
           /\ call[c].squid # NoSquid => call[c].squid \in Squids
           /\ call[c].made # NoSquid => call[c].made \in Squids
  BY CallType DEF CallState

\* A call that does not move keeps its view when somebody writes to a squid.
LEMMA OthersView ==
    ASSUME TypeInv, NEW d \in Calls, View(d), call'[d] = call[d],
           NEW s \in Squids, NEW new, NEW w, Put(s, new, w), d \notin w,
           call[d].squid = s => Held(call[d], new),
           call[d].made = s => (new.exists => squids[s].exists)
    PROVE  View(d)'
<1> DEFINE me == call[d]
<1>1. me \in CallState /\ (me.squid # NoSquid => me.squid \in Squids)
                      /\ (me.made # NoSquid => me.made \in Squids)
  BY OwnSquid
<1>2. ASSUME NEW t \in Squids
      PROVE  squids'[t] = IF t = s THEN new ELSE squids[t]
  BY DEF Put, TypeInv, TypeOK
<1>3. disturbed \subseteq disturbed'
  BY DEF Put
<1>4. me.squid # NoSquid => Held(me, squids'[me.squid])
  BY <1>1, <1>2 DEF View
<1>5. me.squid # NoSquid /\ d \notin disturbed' => Fresh(me, squids'[me.squid])
  <2> SUFFICES ASSUME me.squid # NoSquid, d \notin disturbed'
               PROVE  Fresh(me, squids'[me.squid])
    OBVIOUS
  <2>1. Fresh(me, squids[me.squid])
    BY <1>3 DEF View
  <2>2. CASE squids'[me.squid] = squids[me.squid]
    BY <2>1, <2>2
  <2>3. CASE squids'[me.squid] # squids[me.squid]
    <3>1. me.squid = s /\ new # squids[s]
      BY <1>1, <1>2, <2>3
    <3>2. ~Reading(d, s)
      BY <3>1 DEF Put
    <3>3. me.pc \in {"idle", "squid", "record", "done", "dead"}
      BY <3>1, <3>2 DEF Reading
    <3>4. QED
      BY <3>3 DEF Fresh
  <2>4. QED
    BY <2>2, <2>3
<1>6. me.resp.deleted => me.made # NoSquid /\ ~squids'[me.made].exists
  BY <1>1, <1>2 DEF View
<1>7. Local(me) /\ (d \notin disturbed' => Kept(me))
  BY <1>3 DEF View
<1>8. QED
  BY <1>4, <1>5, <1>6, <1>7 DEF View

\* The rest of the invariant, for a step of a call that starts no run.
LEMMA RestKept ==
    ASSUME TypeInv, RunInv, SquidInv, NEW c \in Calls, NEW m, Become(c, m),
           runs' = runs, disturbed \subseteq disturbed',
           \/ m.made \in {NoSquid, call[c].made}
           \/ \A d \in Calls : call[d].made # m.made,
           call[c].pc \notin Ends \cup {"record"} \/ Alike(call[c], m),
           Named(c, m)
    PROVE  MadeApart' /\ RunsFit' /\ AnswersNamed'
<1>1. call'[c] = m /\ \A d \in Calls \ {c} : call'[d] = call[d]
  BY BecomeValue
<1>2. MadeApart'
  BY <1>1 DEF SquidInv, MadeApart
<1>3. RunsFit'
  <2>1. ASSUME NEW i \in 1..Len(runs)
        PROVE  RunFits(runs[i])'
    <3>1. RunFits(runs[i]) /\ runs[i].by \in Calls
      BY RunType DEF SquidInv, RunsFit
    <3>2. CASE runs[i].by # c
      <4>1. call'[runs[i].by] = call[runs[i].by]
        BY <1>1, <3>1, <3>2
      <4>2. QED
        BY <3>1, <4>1 DEF RunFits
    <3>3. CASE runs[i].by = c
      <4>1. Owned(runs[i], i)
        BY DEF RunInv, RunsOwned
      <4>2. Alike(call[c], m)
        BY <3>3, <4>1 DEF Owned
      <4>3. m.squid = call[c].squid /\ \A q : Priced(m, q) <=> Priced(call[c], q)
        BY <4>2, AlikeSame DEF Alike
      <4>4. QED
        BY <1>1, <3>1, <3>3, <4>3 DEF RunFits
    <3>4. QED
      BY <3>2, <3>3
  <2>2. QED
    BY <2>1 DEF RunsFit
<1>4. AnswersNamed'
  <2>1. ASSUME NEW d \in Calls PROVE Named(d, call[d])'
    BY <1>1 DEF SquidInv, AnswersNamed, Named
  <2>2. QED
    BY <2>1 DEF AnswersNamed
<1>5. QED
  BY <1>2, <1>3, <1>4

\* A call that writes nothing.
LEMMA ReadingKeeps ==
    ASSUME TypeInv, RunInv, SquidInv, NEW c \in Calls, NEW m, Become(c, m),
           UNCHANGED <<squids, runs, disturbed>>,
           m.made = call[c].made,
           call[c].pc \notin Ends \cup {"record"} \/ Alike(call[c], m),
           Local(m), ~m.resp.deleted, Named(c, m),
           m.squid # NoSquid => Held(m, squids[m.squid]),
           m.squid # NoSquid /\ c \notin disturbed => Fresh(m, squids[m.squid]),
           c \notin disturbed => Kept(m)
    PROVE  SquidInv'
<1>1. call'[c] = m /\ \A d \in Calls \ {c} : call'[d] = call[d]
  BY BecomeValue
<1>2. ASSUME NEW d \in Calls PROVE View(d)'
  <2>1. CASE d = c
    BY <1>1, <2>1 DEF View
  <2>2. CASE d # c
    BY <1>1, <2>2 DEF SquidInv, View
  <2>3. QED
    BY <2>1, <2>2
<1>3. MadeApart' /\ RunsFit' /\ AnswersNamed'
  BY RestKept
<1>4. SquidsSound'
  BY DEF SquidInv, SquidsSound
<1>5. QED
  BY <1>2, <1>3, <1>4 DEF SquidInv

\* A call that writes to a squid.
LEMMA WritingKeeps ==
    ASSUME TypeInv, RunInv, SquidInv, NEW c \in Calls, NEW m, Become(c, m),
           runs' = runs, NEW s \in Squids, NEW new, Put(s, new, {c}),
           \A d \in Calls \ {c} : call[d].squid = s => Held(call[d], new),
           \A d \in Calls \ {c} : call[d].made = s => (new.exists => squids[s].exists),
           new.exists \/ (s \notin Saved /\ new.rows = {}),
           \/ m.made \in {NoSquid, call[c].made}
           \/ \A d \in Calls : call[d].made # m.made,
           call[c].pc \notin Ends \cup {"record"} \/ Alike(call[c], m),
           Local(m), Named(c, m),
           m.squid \in {s, NoSquid},
           m.squid = s => Held(m, new),
           m.squid = s /\ c \notin disturbed => Fresh(m, new),
           c \notin disturbed => Kept(m),
           m.resp.deleted => m.made = s /\ ~new.exists
    PROVE  SquidInv'
<1>1. call'[c] = m /\ \A d \in Calls \ {c} : call'[d] = call[d]
  BY BecomeValue
<1>2. squids'[s] = new /\ \A t \in Squids \ {s} : squids'[t] = squids[t]
  BY DEF Put, TypeInv, TypeOK
<1>3. disturbed \subseteq disturbed' /\ (c \notin disturbed' => c \notin disturbed)
  BY DEF Put
<1>4. s # NoSquid
  BY SquidAssumption
<1>5. ASSUME NEW d \in Calls PROVE View(d)'
  <2>1. CASE d = c
    BY <1>1, <1>2, <1>3, <1>4, <2>1 DEF View
  <2>2. CASE d # c
    <3>1. View(d) /\ call'[d] = call[d] /\ d \notin {c}
      BY <1>1, <2>2 DEF SquidInv
    <3>2. QED
      BY <3>1, OthersView
  <2>3. QED
    BY <2>1, <2>2
<1>6. MadeApart' /\ RunsFit' /\ AnswersNamed'
  BY <1>3, RestKept
<1>7. SquidsSound'
  BY <1>2 DEF SquidInv, SquidsSound
<1>8. QED
  BY <1>5, <1>6, <1>7 DEF SquidInv
-----------------------------------------------------------------------------
(* Reading.                                                                *)

\* A call that ends before it has destroyed anything.
LEMMA FinishLocal ==
    ASSUME NEW me, NEW m, NEW a, Alike(me, m), m.pc = "done", m.resp = a,
           Local(me), me.erased = {}, a.outcome # "started",
           a.tasksLost \in {"none", "no"}, a.lostTasks = {},
           \/ me.made = NoSquid
           \/ a.squid = me.made
           \/ a.squid = NoSquid /\ a.state = "unknown"
    PROVE  Local(m)
<1>1. Claimless(m) /\ TellsLoss(m) /\ TellsRun(m)
  BY DEF Claimless, TellsLoss, TellsRun
<1>2. ReadsOnly(m) /\ SavesMore(m) /\ OnRoute(m)
  BY AlikeSame DEF Local, ReadsOnly, SavesMore, OnRoute, Alike, Paid
<1>3. OnSquid(m)
  BY AlikeSame DEF Local, OnSquid, Alike
<1>4. Erases(m)
  BY DEF Erases, Alike
<1>5. QED
  BY <1>1, <1>2, <1>3, <1>4 DEF Local

\* A finished call expects of its squid only what it expected before.
LEMMA FinishHeld ==
    ASSUME NEW me, NEW m, NEW q, Alike(me, m), m.pc = "done", Held(me, q)
    PROVE  Held(m, q) /\ Fresh(m, q)
  BY AlikeSame DEF Held, Fresh, Alike, Paid

LEMMA NothingErased ==
    ASSUME NEW me, Local(me),
           me.pc \notin {"add", "start", "restore", "record", "done", "dead"}
    PROVE  me.erased = {}
  BY DEF Local, Erases

LEMMA NothingMade ==
    ASSUME NEW me, Local(me),
           me.pc \in {"idle", "squid", "key", "account", "rows", "gate", "create"}
    PROVE  me.made = NoSquid
  BY DEF Local, OnSquid, OnRoute

\* What a call that moves starts from.
LEMMA Mover ==
    ASSUME TypeInv, SquidInv, NEW c \in Calls
    PROVE  /\ call[c] \in CallState
           /\ Local(call[c])
           /\ call[c].squid # NoSquid => Held(call[c], squids[call[c].squid])
           /\ call[c].squid # NoSquid /\ c \notin disturbed =>
                Fresh(call[c], squids[call[c].squid])
           /\ c \notin disturbed => Kept(call[c])
<1>1. View(c)
  BY DEF SquidInv
<1>2. QED
  BY <1>1, CallType DEF View

LEMMA ReadEndsKeep ==
    ASSUME TypeInv, RunInv, SquidInv, NEW c \in Calls, NEW a,
           call[c].pc \in {"squid", "key", "account", "rows", "gate"},
           Become(c, Finish(call[c], a)), ReadOnly, ~a.deleted,
           a.outcome # "started", a.tasksLost \in {"none", "no"}, a.lostTasks = {},
           a.outcome = "already_submitted" =>
             a.run \in 1..Len(runs) /\ runs[a.run].key = KeyOf(call[c].req)
    PROVE  SquidInv'
<1> DEFINE me == call[c]
           m == Finish(me, a)
<1>1. /\ me \in CallState /\ Local(me)
      /\ me.squid # NoSquid => Held(me, squids[me.squid])
      /\ c \notin disturbed => Kept(me)
  BY Mover
<1>2. m.pc = "done" /\ m.resp = a /\ Alike(me, m)
  BY <1>1, FinishAlike
<1>3. me.erased = {} /\ me.made = NoSquid
  BY <1>1, NothingErased, NothingMade
<1> HIDE DEF m
<1>4. Local(m)
  BY <1>1, <1>2, <1>3, FinishLocal
<1>5. m.squid = me.squid /\ m.made = me.made /\ m.req = me.req
  BY <1>2 DEF Alike
<1>6. m.squid # NoSquid => Held(m, squids[m.squid]) /\ Fresh(m, squids[m.squid])
  BY <1>1, <1>2, <1>5, FinishHeld
<1>7. c \notin disturbed => Kept(m)
  BY <1>1, <1>2, AlikeSame
<1>8. Named(c, m)
  BY <1>2, <1>5 DEF Named
<1>9. Become(c, m) /\ UNCHANGED <<squids, runs, disturbed>>
  BY DEF ReadOnly, m
<1>10. me.pc \notin Ends \cup {"record"}
  BY DEF Ends
<1>11. QED
  BY <1>2, <1>4, <1>5, <1>6, <1>7, <1>8, <1>9, <1>10, ReadingKeeps

LEMMA ReadsEndKeep ==
    ASSUME TypeInv, RunInv, SquidInv, NEW c \in Calls,
           \/ CatalogFails(c) \/ RefuseInput(c) \/ KeyHit(c) \/ AccountsFail(c)
           \/ AskConfirmation(c) \/ BalanceFails(c) \/ RefuseTasks(c)
    PROVE  SquidInv'
<1> DEFINE me == call[c]
<1>1. CASE CatalogFails(c) \/ AccountsFail(c) \/ BalanceFails(c)
  <2>1. PICK o \in ReadEnds : Become(c, Finish(me, Failed(o)))
    BY <1>1 DEF CatalogFails, AccountsFail, BalanceFails
  <2>2. me.pc \in {"key", "account", "gate"} /\ ReadOnly
    BY <1>1 DEF CatalogFails, AccountsFail, BalanceFails
  <2>3. /\ Failed(o).outcome = "failed" /\ Failed(o).tasksLost = "none"
        /\ Failed(o).lostTasks = {} /\ ~Failed(o).deleted
    BY DEF Failed, NoAnswer
  <2>4. QED
    BY <2>1, <2>2, <2>3, ReadEndsKeep
<1>2. CASE RefuseInput(c)
  <2>1. /\ Refused.outcome = "refused" /\ Refused.tasksLost = "none"
        /\ Refused.lostTasks = {} /\ ~Refused.deleted
    BY DEF Refused, NoAnswer
  <2>2. me.pc = "key" /\ ReadOnly /\ Become(c, Finish(me, Refused))
    BY <1>2 DEF RefuseInput
  <2>3. QED
    BY <2>1, <2>2, ReadEndsKeep
<1>3. CASE AskConfirmation(c)
  <2> DEFINE a == [NoAnswer EXCEPT !.outcome = "needs_confirmation"]
  <2>1. /\ a.outcome = "needs_confirmation" /\ a.tasksLost = "none"
        /\ a.lostTasks = {} /\ ~a.deleted
    BY DEF NoAnswer
  <2>2. me.pc = "gate" /\ ReadOnly /\ Become(c, Finish(me, a))
    BY <1>3 DEF AskConfirmation
  <2> HIDE DEF a
  <2>3. QED
    BY <2>1, <2>2, ReadEndsKeep
<1>4. CASE RefuseTasks(c)
  <2> DEFINE a == [Refused EXCEPT !.squid = me.squid, !.tasksLost = "no"]
  <2>1. a.outcome = "refused" /\ a.tasksLost = "no" /\ a.lostTasks = {} /\ ~a.deleted
    BY DEF Refused, NoAnswer
  <2>2. me.pc = "gate" /\ ReadOnly /\ Become(c, Finish(me, a))
    BY <1>4 DEF RefuseTasks
  <2> HIDE DEF a
  <2>3. QED
    BY <2>1, <2>2, ReadEndsKeep
<1>5. CASE KeyHit(c)
  <2>1. PICK e \in Lookup(KeyOf(me.req)) :
          Become(c, Finish(me, [NoAnswer EXCEPT !.outcome = "already_submitted",
                                                !.run = e.run]))
    BY <1>5 DEF KeyHit
  <2> DEFINE a == [NoAnswer EXCEPT !.outcome = "already_submitted", !.run = e.run]
  <2>2. /\ a.outcome = "already_submitted" /\ a.tasksLost = "none"
        /\ a.lostTasks = {} /\ ~a.deleted /\ a.run = e.run
    BY DEF NoAnswer
  <2>3. e.run \in 1..Len(runs) /\ runs[e.run].key = KeyOf(me.req)
    BY DEF Lookup, RunInv, StoreSound
  <2>4. me.pc = "key" /\ ReadOnly /\ Become(c, Finish(me, a))
    BY <1>5, <2>1 DEF KeyHit
  <2> HIDE DEF a
  <2>5. QED
    BY <2>2, <2>3, <2>4, ReadEndsKeep
<1>6. QED
  BY <1>1, <1>2, <1>3, <1>4, <1>5

LEMMA StoreFailsKeeps ==
    ASSUME TypeInv, RunInv, SquidInv, NEW c \in Calls, StoreFails(c)
    PROVE  SquidInv'
<1>1. /\ Raised.outcome = "raised" /\ Raised.tasksLost = "none"
      /\ Raised.lostTasks = {} /\ ~Raised.deleted
  BY DEF Raised, NoAnswer
<1>2. call[c].pc = "key" /\ ReadOnly /\ Become(c, Finish(call[c], Raised))
  BY DEF StoreFails
<1>3. QED
  BY <1>1, <1>2, ReadEndsKeep

LEMMA InvokeKeeps ==
    ASSUME TypeInv, RunInv, SquidInv, NEW c \in Calls, Invoke(c)
    PROVE  SquidInv'
<1>1. PICK r \in Requests :
        Become(c, [IdleCall EXCEPT
                      !.pc = IF r.squid = NewSquid THEN "key" ELSE "squid",
                      !.req = r,
                      !.squid = IF r.squid = NewSquid THEN NoSquid ELSE r.squid])
  BY DEF Invoke
<1> DEFINE m == [IdleCall EXCEPT
                      !.pc = IF r.squid = NewSquid THEN "key" ELSE "squid",
                      !.req = r,
                      !.squid = IF r.squid = NewSquid THEN NoSquid ELSE r.squid]
<1>2. r.squid \in Saved \cup {NewSquid}
  BY InputAssumption DEF Request
<1>3. /\ m.pc = IF r.squid = NewSquid THEN "key" ELSE "squid"
      /\ m.req = r
      /\ m.squid = IF r.squid = NewSquid THEN NoSquid ELSE r.squid
      /\ m.resp = NoAnswer /\ m.linked = {} /\ m.save = {} /\ m.read = FALSE
      /\ m.rows = {} /\ m.action = "unchanged" /\ m.erased = {} /\ m.made = NoSquid
  BY DEF IdleCall
<1>4. Become(c, m)
  BY <1>1
<1> HIDE DEF m
<1>5. /\ NoAnswer.outcome = "none" /\ NoAnswer.tasksLost = "none"
      /\ NoAnswer.lostTasks = {} /\ ~NoAnswer.deleted
  BY DEF NoAnswer
<1>6. Reuse(m) <=> m.pc = "squid"
  BY <1>2, <1>3, SquidAssumption DEF Reuse
<1>7. Local(m)
  <2>1. Claimless(m) /\ TellsLoss(m) /\ TellsRun(m) /\ ReadsOnly(m) /\ SavesMore(m)
    BY <1>3, <1>5 DEF Claimless, TellsLoss, TellsRun, ReadsOnly, SavesMore, Paid
  <2>2. OnRoute(m) /\ Erases(m)
    BY <1>3, <1>5, <1>6 DEF OnRoute, Erases, Paid
  <2>3. OnSquid(m)
    BY <1>2, <1>3, <1>6 DEF OnSquid, Reuse
  <2>4. QED
    BY <2>1, <2>2, <2>3 DEF Local
<1>8. \A q : Held(m, q) /\ Fresh(m, q)
  BY <1>3, <1>6 DEF Held, Fresh, Paid
<1>9. Kept(m) /\ Named(c, m)
  BY <1>3, <1>5 DEF Kept, Named
<1>10. call[c].pc = "idle" /\ UNCHANGED <<squids, runs, disturbed>>
  BY DEF Invoke, ReadOnly
<1>11. m.made = call[c].made
  BY <1>3, <1>10, Mover, NothingMade
<1>12. QED
  BY <1>3, <1>4, <1>5, <1>7, <1>8, <1>9, <1>10, <1>11, ReadingKeeps DEF Ends

\* A step that moves a call on and changes nothing else of it.
LEMMA UnansweredNamed ==
    ASSUME NEW c, NEW m, m.resp.outcome \in {"none", "failed"}
    PROVE  Named(c, m)
  BY DEF Named

LEMMA GetSquidKeeps ==
    ASSUME TypeInv, RunInv, SquidInv, NEW c \in Calls, GetSquid(c)
    PROVE  SquidInv'
<1> DEFINE me == call[c]
           m == [me EXCEPT !.pc = "key", !.cfg = squids[me.squid].cfg,
                           !.linked = squids[me.squid].accounts]
<1>1. PICK o \in ReadEnds : Become(c, IF o = "ok" THEN m ELSE Finish(me, Failed(o)))
  BY DEF GetSquid
<1>2. me.pc = "squid" /\ ReadOnly
  BY DEF GetSquid
<1>3. CASE o # "ok"
  <2>1. /\ Failed(o).outcome = "failed" /\ Failed(o).tasksLost = "none"
        /\ Failed(o).lostTasks = {} /\ ~Failed(o).deleted
    BY DEF Failed, NoAnswer
  <2> HIDE DEF m
  <2>2. QED
    BY <1>1, <1>2, <1>3, <2>1, ReadEndsKeep
<1>4. CASE o = "ok"
  <2>1. me \in CallState /\ Local(me) /\ (c \notin disturbed => Kept(me))
    BY Mover
  <2>2. /\ m.pc = "key" /\ m.cfg = squids[me.squid].cfg
        /\ m.linked = squids[me.squid].accounts
        /\ m.resp = me.resp /\ m.req = me.req /\ m.squid = me.squid /\ m.made = me.made
        /\ m.save = me.save /\ m.read = me.read /\ m.rows = me.rows
        /\ m.action = me.action /\ m.erased = me.erased
    BY <2>1 DEF CallState
  <2>3. Become(c, m)
    BY <1>1, <1>4
  <2> HIDE DEF m
  <2>4. Reuse(me) /\ Reuse(m) /\ me.save = {}
    BY <1>2, <2>1, <2>2 DEF Local, OnRoute, Reuse
  <2>5. Claimless(m) /\ TellsLoss(m) /\ TellsRun(m)
    BY <1>2, <2>1, <2>2 DEF Local, Claimless, TellsLoss, TellsRun
  <2>6. ReadsOnly(m) /\ SavesMore(m)
    BY <2>1, <2>2, <2>4 DEF Local, ReadsOnly, SavesMore, Paid
  <2>7. OnRoute(m) /\ Erases(m)
    BY <1>2, <2>1, <2>2 DEF Local, OnRoute, Erases, Paid
  <2>8. OnSquid(m)
    BY <1>2, <2>1, <2>2, <2>4 DEF Local, OnSquid
  <2>9. Local(m)
    BY <2>5, <2>6, <2>7, <2>8 DEF Local
  <2>10. Held(m, squids[m.squid]) /\ Fresh(m, squids[m.squid])
    BY <2>2 DEF Held, Fresh, Paid
  <2>11. c \notin disturbed => Kept(m)
    BY <2>1, <2>2 DEF Kept
  <2>12. m.resp.outcome \in {"none", "failed"} /\ ~m.resp.deleted
    BY <2>2, <2>5 DEF Claimless
  <2>13. QED
    BY <1>2, <2>2, <2>3, <2>9, <2>10, <2>11, <2>12, UnansweredNamed, ReadingKeeps
       DEF Ends, ReadOnly
<1>5. QED
  BY <1>3, <1>4
\* A reading step that only moves a call on.
LEMMA MovingKeeps ==
    ASSUME TypeInv, RunInv, SquidInv, NEW c \in Calls, NEW m, Become(c, m), ReadOnly,
           call[c].pc \notin Ends \cup {"record"},
           Alike(call[c], m), m.resp = call[c].resp, Local(m),
           m.squid # NoSquid => Held(m, squids[m.squid]),
           m.squid # NoSquid /\ c \notin disturbed => Fresh(m, squids[m.squid])
    PROVE  SquidInv'
<1>1. Local(call[c]) /\ (c \notin disturbed => Kept(call[c]))
  BY Mover
<1>2. m.resp.outcome \in {"none", "failed"} /\ ~m.resp.deleted
  BY <1>1 DEF Local, Claimless, Ends
<1>3. (c \notin disturbed => Kept(m)) /\ m.made = call[c].made
  BY <1>1, AlikeSame DEF Alike
<1>4. QED
  BY <1>2, <1>3, UnansweredNamed, ReadingKeeps DEF ReadOnly

LEMMA KeyMissKeeps ==
    ASSUME TypeInv, RunInv, SquidInv, NEW c \in Calls, KeyMiss(c)
    PROVE  SquidInv'
<1> DEFINE me == call[c]
           m == [me EXCEPT !.pc = "account", !.asked = now,
                           !.known = {i \in 1..Len(runs) : /\ runs[i].key = KeyOf(me.req)
                                                           /\ Over(runs[i].by)}]
<1>1. me.pc = "key" /\ ReadOnly /\ Become(c, m)
  BY DEF KeyMiss
<1>2. /\ me \in CallState /\ Local(me)
      /\ me.squid # NoSquid => Held(me, squids[me.squid])
      /\ me.squid # NoSquid /\ c \notin disturbed => Fresh(me, squids[me.squid])
  BY Mover
<1>3. m.pc = "account" /\ m.resp = me.resp /\ Alike(me, m)
  BY <1>2 DEF CallState, Alike
<1> HIDE DEF m
<1>4. Reuse(m) <=> Reuse(me)
  BY <1>3, AlikeSame
<1>5. Claimless(m) /\ TellsLoss(m) /\ TellsRun(m) /\ ReadsOnly(m) /\ SavesMore(m)
  BY <1>1, <1>2, <1>3, <1>4
     DEF Local, Claimless, TellsLoss, TellsRun, ReadsOnly, SavesMore, Paid, Alike
<1>6. OnRoute(m) /\ Erases(m) /\ OnSquid(m)
  BY <1>1, <1>2, <1>3, <1>4 DEF Local, OnRoute, Erases, OnSquid, Paid, Alike
<1>7. Local(m)
  BY <1>5, <1>6 DEF Local
<1>8. m.squid # NoSquid => Held(m, squids[m.squid])
  BY <1>2, <1>3, <1>4 DEF Held, Paid, Alike
<1>9. m.squid # NoSquid /\ c \notin disturbed => Fresh(m, squids[m.squid])
  BY <1>1, <1>2, <1>3, <1>4 DEF Fresh, Alike
<1>10. QED
  BY <1>1, <1>3, <1>7, <1>8, <1>9, MovingKeeps DEF Ends

\* The accounts to be saved add to the ones read, and a crawler that needs one
\* gets past this point only with one to save or one attached.
LEMMA AccountsGrow ==
    ASSUME NEW me \in CallState, ~AccountRefused(me)
    PROVE  /\ AccountsToSave(me) # {} => me.linked \subseteq AccountsToSave(me)
           /\ NeedsAccount => AccountsToSave(me) # {} \/ me.linked # {}
<1>1. PicksAccount(me) => Healthy # {}
  BY FS_EmptySet DEF AccountRefused
<1>2. PicksAccount(me) => me.linked = {} /\ me.req.account = NoAccount
  BY DEF PicksAccount
<1>3. me.linked # {} \/ ~NeedsAccount \/ me.req.account # NoAccount \/ PicksAccount(me)
  BY DEF PicksAccount
<1>4. QED
  BY <1>1, <1>2, <1>3, AccountAssumption DEF AccountsToSave

LEMMA ResolveAccountsKeeps ==
    ASSUME TypeInv, RunInv, SquidInv, NEW c \in Calls, ResolveAccounts(c)
    PROVE  SquidInv'
<1> DEFINE me == call[c]
           m == [me EXCEPT !.pc = IF Reuse(me) THEN "rows" ELSE "gate",
                           !.save = AccountsToSave(me)]
<1>1. /\ me.pc = "account" /\ ReadOnly
      /\ Become(c, IF AccountRefused(me) THEN Finish(me, Refused) ELSE m)
  BY DEF ResolveAccounts
<1>2. CASE AccountRefused(me)
  <2>1. /\ Refused.outcome = "refused" /\ Refused.tasksLost = "none"
        /\ Refused.lostTasks = {} /\ ~Refused.deleted
    BY DEF Refused, NoAnswer
  <2> HIDE DEF m
  <2>2. QED
    BY <1>1, <1>2, <2>1, ReadEndsKeep
<1>3. CASE ~AccountRefused(me)
  <2>1. /\ me \in CallState /\ Local(me)
        /\ me.squid # NoSquid => Held(me, squids[me.squid]) /\ me.squid \in Squids
        /\ me.squid # NoSquid /\ c \notin disturbed => Fresh(me, squids[me.squid])
        /\ c \notin disturbed => Kept(me)
    BY Mover, OwnSquid
  <2>2. /\ m.pc = IF Reuse(me) THEN "rows" ELSE "gate"
        /\ m.save = AccountsToSave(me)
        /\ m.resp = me.resp /\ m.req = me.req /\ m.squid = me.squid /\ m.made = me.made
        /\ m.cfg = me.cfg /\ m.linked = me.linked /\ m.read = me.read /\ m.rows = me.rows
        /\ m.action = me.action /\ m.erased = me.erased
    BY <2>1 DEF CallState
  <2>3. Become(c, m)
    BY <1>1, <1>3
  <2> HIDE DEF m
  <2>4. Reuse(m) <=> Reuse(me)
    BY <2>2 DEF Reuse
  <2>5. Claimless(m) /\ TellsLoss(m) /\ TellsRun(m) /\ ReadsOnly(m)
    BY <1>1, <2>1, <2>2, <2>4 DEF Local, Claimless, TellsLoss, TellsRun, ReadsOnly
  <2>6. SavesMore(m)
    BY <1>3, <2>1, <2>2, AccountsGrow DEF SavesMore
  <2>7. OnRoute(m) /\ Erases(m)
    BY <1>1, <2>1, <2>2, <2>4 DEF Local, OnRoute, Erases, Paid
  <2>8. OnSquid(m)
    BY <1>1, <2>1, <2>2, <2>4 DEF Local, OnSquid
  <2>9. Local(m)
    BY <2>5, <2>6, <2>7, <2>8 DEF Local
  <2>10. m.squid # NoSquid => Held(m, squids[m.squid])
    <3> SUFFICES ASSUME m.squid # NoSquid PROVE Held(m, squids[m.squid])
      OBVIOUS
    <3>1. Reuse(me) /\ me.squid \in Saved
      BY <1>1, <2>1, <2>2 DEF Local, OnSquid
    <3>2. squids[m.squid].exists
      BY <2>1, <2>2, <3>1 DEF SquidInv, SquidsSound
    <3>3. Held(me, squids[m.squid])
      BY <2>1, <2>2
    <3>4. QED
      BY <2>2, <2>4, <3>1, <3>2, <3>3 DEF Held
  <2>11. m.squid # NoSquid /\ c \notin disturbed => Fresh(m, squids[m.squid])
    <3>1. ~Reuse(me) => ~me.read
      BY <2>1 DEF Local, ReadsOnly
    <3>2. QED
      BY <1>1, <2>1, <2>2, <2>4, <3>1 DEF Fresh
  <2>12. c \notin disturbed => Kept(m)
    BY <2>1, <2>2 DEF Kept
  <2>13. m.resp.outcome \in {"none", "failed"} /\ ~m.resp.deleted
    BY <2>2, <2>5 DEF Claimless
  <2>14. QED
    BY <1>1, <2>2, <2>3, <2>9, <2>10, <2>11, <2>12, <2>13, UnansweredNamed, ReadingKeeps
       DEF Ends, ReadOnly
<1>4. QED
  BY <1>2, <1>3

LEMMA SnapshotTasksKeeps ==
    ASSUME TypeInv, RunInv, SquidInv, NEW c \in Calls, SnapshotTasks(c)
    PROVE  SquidInv'
<1> DEFINE me == call[c]
           unread == [me EXCEPT !.pc = "gate"]
           seen(l) == [me EXCEPT !.pc = "gate", !.read = TRUE,
                                 !.rows = l \ {EmptyRow}, !.seen = Cardinality(l)]
<1>1. me.pc = "rows" /\ ReadOnly
  BY DEF SnapshotTasks
<1>2. Become(c, unread) \/ \E l \in Listings(me.squid) : Become(c, seen(l))
  BY DEF SnapshotTasks
<1>3. /\ me \in CallState /\ Local(me) /\ (c \notin disturbed => Kept(me))
      /\ me.squid # NoSquid => Held(me, squids[me.squid])
      /\ me.squid # NoSquid /\ c \notin disturbed => Fresh(me, squids[me.squid])
  BY Mover
<1>4. Reuse(me) /\ me.squid \in Squids /\ me.squid # NoSquid /\ me.erased = {}
  BY <1>1, <1>3, NothingErased, SquidAssumption DEF Local, OnRoute, OnSquid
<1>5. CASE Become(c, unread)
  <2> DEFINE m == unread
  <2>1. m.pc = "gate" /\ m.resp = me.resp /\ Alike(me, m)
    BY <1>3, MoveAlike
  <2>2. Become(c, m)
    BY <1>5
  <2> HIDE DEF m, unread, seen
  <2>3. Reuse(m) <=> Reuse(me)
    BY <2>1, AlikeSame
  <2>4. Local(m)
    <3>1. Claimless(m) /\ TellsLoss(m) /\ TellsRun(m) /\ ReadsOnly(m) /\ SavesMore(m)
      BY <1>1, <1>3, <2>1, <2>3
         DEF Local, Claimless, TellsLoss, TellsRun, ReadsOnly, SavesMore, Paid, Alike
    <3>2. OnRoute(m) /\ Erases(m) /\ OnSquid(m)
      BY <1>1, <1>3, <1>4, <2>1, <2>3 DEF Local, OnRoute, Erases, OnSquid, Paid, Alike
    <3>3. QED
      BY <3>1, <3>2 DEF Local
  <2>5. Held(m, squids[m.squid])
    BY <1>1, <1>3, <1>4, <2>1, <2>3 DEF Held, Paid, Alike
  <2>6. c \notin disturbed => Fresh(m, squids[m.squid])
    <3>1. ~me.read
      BY <1>1, <1>3 DEF Local, OnRoute
    <3>2. QED
      BY <1>1, <1>3, <1>4, <2>1, <2>3, <3>1 DEF Fresh, Alike
  <2>7. QED
    BY <1>1, <2>1, <2>2, <2>4, <2>5, <2>6, MovingKeeps DEF Ends
<1>6. ASSUME NEW l \in Listings(me.squid), Become(c, seen(l)) PROVE SquidInv'
  <2> DEFINE m == seen(l)
             q == squids[me.squid]
  <2>1. /\ m.pc = "gate" /\ m.read = TRUE /\ m.rows = l \ {EmptyRow}
        /\ m.seen = Cardinality(l) /\ m.save = me.save
        /\ m.resp = me.resp /\ m.req = me.req /\ m.squid = me.squid /\ m.made = me.made
        /\ m.cfg = me.cfg /\ m.linked = me.linked
        /\ m.action = me.action /\ m.erased = me.erased
    BY <1>3 DEF CallState
  <2>2. Become(c, m)
    BY <1>6
  <2> HIDE DEF m, unread, seen
  <2>3. Reuse(m)
    BY <1>4, <2>1 DEF Reuse
  <2>4. Listed(m, q.rows)
    <3>1. q.rows \subseteq Rows
      BY <1>4 DEF TypeInv, TypeOK, SquidState
    <3>2. Cardinality(q.rows) \in Nat
      BY <3>1, InputAssumption, FS_Subset, FS_CardinalityType
    <3>3. IF Cardinality(q.rows) <= PageCap THEN l = q.rows ELSE Cardinality(l) = PageCap
      BY <1>6 DEF Listings
    <3>4. QED
      BY <2>1, <3>2, <3>3, NumberAssumption DEF Listed
  <2>5. Claimless(m) /\ TellsLoss(m) /\ TellsRun(m) /\ ReadsOnly(m) /\ SavesMore(m)
    BY <1>1, <1>3, <2>1, <2>3
       DEF Local, Claimless, TellsLoss, TellsRun, ReadsOnly, SavesMore, Paid
  <2>6. OnRoute(m) /\ Erases(m) /\ OnSquid(m)
    BY <1>1, <1>3, <1>4, <2>1, <2>3 DEF Local, OnRoute, Erases, OnSquid, Paid
  <2>7. Local(m)
    BY <2>5, <2>6 DEF Local
  <2>8. Held(m, squids[m.squid])
    BY <1>1, <1>3, <1>4, <2>1, <2>3 DEF Held, Paid
  <2>9. c \notin disturbed => Fresh(m, squids[m.squid])
    BY <1>1, <1>3, <1>4, <2>1, <2>3, <2>4 DEF Fresh
  <2>10. Kept(m)
    BY <1>4, <2>1 DEF Kept
  <2>11. m.resp.outcome \in {"none", "failed"} /\ ~m.resp.deleted
    BY <2>1, <2>5 DEF Claimless
  <2>12. QED
    BY <1>1, <2>1, <2>2, <2>7, <2>8, <2>9, <2>10, <2>11, UnansweredNamed, ReadingKeeps
       DEF Ends, ReadOnly
<1>7. QED
  BY <1>2, <1>5, <1>6

LEMMA FirstWriteFollows ==
    ASSUME NEW me
    PROVE  \/ FirstWrite(me) = "create" /\ ~Reuse(me)
           \/ FirstWrite(me) = "update" /\ Reuse(me) /\ HasInput(me)
           \/ FirstWrite(me) = "link" /\ Reuse(me) /\ ~HasInput(me) /\ me.save # {}
           \/ FirstWrite(me) = "start" /\ Reuse(me) /\ ~HasInput(me) /\ me.save = {}
  BY DEF FirstWrite

\* A listing of few enough rows is complete: an estimate made of it is one of
\* the rows, and so is the count.
LEMMA ListedPriced ==
    ASSUME NEW me \in CallState, NEW q \in SquidState,
           ~HasTask(me), me.action = "unchanged", q.cfg = Effective(me),
           Reuse(me), ~NeedsConfirmation(me), me.read => Listed(me, q.rows)
    PROVE  Priced(me, q)
<1>1. Cardinality(q.rows) \in Nat
  BY InputAssumption, FS_Subset, FS_CardinalityType DEF SquidState
<1>2. Effective(me) \in Cfgs
  BY DEF Effective, CallState, Request
<1>3. FreeRows[Effective(me)] \in Nat
  BY <1>2, NumberAssumption
<1>4. TaskCount(me) = me.seen /\ me.seen \in Nat
  BY DEF TaskCount, CallState
<1>5. CASE ~me.read
  BY <1>5 DEF Priced
<1>6. CASE me.read /\ Cardinality(q.rows) > PageCap
  BY <1>6 DEF Priced
<1>7. CASE me.read /\ me.seen = Cardinality(q.rows)
  <2>1. RowsThisRun(me) = me.seen
    BY <1>7 DEF RowsThisRun
  <2>2. EstimatedRows(me) >= Cardinality(q.rows) /\ EstimatedRows(me) \in Nat
    BY <1>4, <1>7, <2>1 DEF EstimatedRows
  <2>3. me.req.confirm \/ EstimatedRows(me) <= FreeRows[Effective(me)]
    BY <1>3, <2>2 DEF NeedsConfirmation
  <2>4. me.req.confirm \/ Cardinality(q.rows) <= FreeRows[Effective(me)]
    BY <1>1, <1>3, <2>2, <2>3
  <2>5. QED
    BY <1>4, <1>7, <2>4 DEF Priced
<1>8. QED
  BY <1>5, <1>6, <1>7 DEF Listed

LEMMA PassGateKeeps ==
    ASSUME TypeInv, RunInv, SquidInv, NEW c \in Calls, PassGate(c)
    PROVE  SquidInv'
<1> DEFINE me == call[c]
           m == [me EXCEPT !.pc = FirstWrite(me)]
           q == squids[me.squid]
<1>1. /\ me.pc = "gate" /\ ReadOnly /\ Become(c, m)
      /\ ~NeedsConfirmation(me) /\ ~ProtectsRows(me)
  BY DEF PassGate
<1>2. /\ me \in CallState /\ Local(me)
      /\ me.squid # NoSquid => Held(me, q) /\ me.squid \in Squids
      /\ me.squid # NoSquid /\ c \notin disturbed => Fresh(me, q)
  BY Mover, OwnSquid
<1>3. m.pc = FirstWrite(me) /\ m.resp = me.resp /\ Alike(me, m)
  BY <1>2, MoveAlike
<1> HIDE DEF m
<1>4. /\ Reuse(m) <=> Reuse(me)
      /\ HasInput(m) <=> HasInput(me)
      /\ HasTask(m) <=> HasTask(me)
      /\ NeedsConfirmation(m) <=> NeedsConfirmation(me)
      /\ ProtectsRows(m) <=> ProtectsRows(me)
  BY <1>3, AlikeSame
<1>5. Claimless(m) /\ TellsLoss(m) /\ TellsRun(m) /\ ReadsOnly(m) /\ SavesMore(m)
  BY <1>1, <1>2, <1>3, <1>4
     DEF Local, Claimless, TellsLoss, TellsRun, ReadsOnly, SavesMore, Paid, Alike
<1>6. me.erased = {} /\ m.erased = {}
  BY <1>1, <1>2, <1>3, NothingErased DEF Alike
<1>7. OnRoute(m) /\ Erases(m)
  BY <1>1, <1>2, <1>3, <1>4, <1>6, FirstWriteFollows
     DEF Local, OnRoute, Erases, Paid, Alike
<1>8. OnSquid(m)
  BY <1>1, <1>2, <1>3, <1>4, FirstWriteFollows DEF Local, OnSquid, Alike
<1>9. Local(m)
  BY <1>5, <1>7, <1>8 DEF Local
<1>10. m.squid = me.squid /\ (me.squid # NoSquid => Reuse(me))
  BY <1>1, <1>2, <1>3 DEF Local, OnSquid, Alike
<1>11. m.squid # NoSquid => Held(m, q)
  BY <1>1, <1>2, <1>3, <1>4, <1>10 DEF Held, Alike
<1>12. m.squid # NoSquid /\ c \notin disturbed => Fresh(m, q)
  <2> SUFFICES ASSUME m.squid # NoSquid, c \notin disturbed PROVE Fresh(m, q)
    OBVIOUS
  <2>1. /\ Reuse(me) /\ q.accounts = me.linked /\ q.cfg = me.cfg
        /\ me.read => Listed(me, q.rows)
        /\ me.action = "unchanged"
    BY <1>1, <1>2, <1>10 DEF Fresh, Local, OnRoute
  <2>2. me.read => Listed(m, q.rows)
    BY <1>3, <2>1, AlikeSame
  <2>3. m.pc \in {"update", "link"} => Fresh(m, q)
    BY <1>3, <2>1, <2>2 DEF Fresh, Alike
  <2>4. m.pc = "start" => Priced(me, q)
    <3>1. HasInput(me) \/ (~HasTask(me) /\ Effective(me) = me.cfg)
      BY DEF HasInput, Effective
    <3>2. q \in SquidState
      BY <1>2, <1>10 DEF TypeInv, TypeOK
    <3>3. m.pc = "start" => ~HasInput(me)
      BY <1>3, FirstWriteFollows
    <3>4. QED
      BY <1>1, <1>2, <2>1, <3>1, <3>2, <3>3, ListedPriced
  <2>5. m.pc = "start" /\ NeedsAccount => q.accounts # {}
    BY <1>1, <1>2, <1>3, <2>1, FirstWriteFollows DEF Local, SavesMore
  <2>6. m.pc = "start" => Fresh(m, q)
    BY <1>3, <2>4, <2>5, AlikeSame DEF Fresh
  <2>7. QED
    BY <1>3, <2>1, <2>3, <2>6, FirstWriteFollows
<1>13. QED
  BY <1>1, <1>3, <1>9, <1>10, <1>11, <1>12, MovingKeeps DEF Ends
-----------------------------------------------------------------------------
(* Writing to a squid.                                                     *)

LEMMA SameGate ==
    ASSUME NEW me, NEW m, m.req = me.req, m.cfg = me.cfg, m.read = me.read,
           m.seen = me.seen
    PROVE  /\ Reuse(m) <=> Reuse(me)
           /\ HasTask(m) <=> HasTask(me)
           /\ HasInput(m) <=> HasInput(me)
           /\ NeedsConfirmation(m) <=> NeedsConfirmation(me)
           /\ ProtectsRows(m) <=> ProtectsRows(me)
           /\ Effective(m) = Effective(me)
<1>1. (Reuse(m) <=> Reuse(me)) /\ (HasTask(m) <=> HasTask(me))
  BY DEF Reuse, HasTask
<1>2. (HasInput(m) <=> HasInput(me)) /\ Effective(m) = Effective(me)
  BY <1>1 DEF HasInput, Effective
<1>3. RowsThisRun(m) = RowsThisRun(me)
  BY <1>1 DEF RowsThisRun
<1>4. QED
  BY <1>1, <1>2, <1>3 DEF NeedsConfirmation, EstimatedRows, ProtectsRows

\* What a call past the gate starts from.
LEMMA Writer ==
    ASSUME TypeInv, SquidInv, NEW c \in Calls,
           call[c].pc \in {"update", "empty", "add", "link", "configure", "cleanup",
                           "start", "restore", "record"}
    PROVE  /\ call[c] \in CallState /\ Local(call[c])
           /\ call[c].squid \in Squids /\ call[c].squid # NoSquid
           /\ squids[call[c].squid] \in SquidState
           /\ squids[call[c].squid].exists
           /\ Held(call[c], squids[call[c].squid])
           /\ c \notin disturbed => Fresh(call[c], squids[call[c].squid])
           /\ c \notin disturbed => Kept(call[c])
<1> DEFINE me == call[c]
<1>1. /\ me \in CallState /\ Local(me)
      /\ me.squid # NoSquid => Held(me, squids[me.squid])
      /\ me.squid # NoSquid /\ c \notin disturbed => Fresh(me, squids[me.squid])
      /\ c \notin disturbed => Kept(me)
  BY Mover
<1>2. me.squid \in Squids /\ me.squid # NoSquid /\ squids[me.squid] \in SquidState
  BY WriterHasSquid, SquidAssumption
<1>3. squids[me.squid].exists
  BY <1>1, <1>2 DEF Held, Paid
<1>4. QED
  BY <1>1, <1>2, <1>3

\* A write of a call to its own squid that leaves it there.
LEMMA OwnWriteKeeps ==
    ASSUME TypeInv, RunInv, SquidInv, NEW c \in Calls, NEW m, Become(c, m),
           call[c].pc \in {"update", "empty", "add", "link", "configure", "cleanup",
                           "start", "restore", "record"},
           runs' = runs, NEW new, Put(call[c].squid, new, {c}), new.exists,
           m.squid = call[c].squid, m.made = call[c].made,
           call[c].pc \notin Ends \cup {"record"} \/ Alike(call[c], m),
           Local(m), m.resp.outcome \in {"none", "failed"}, ~m.resp.deleted,
           Held(m, new), c \notin disturbed => Fresh(m, new),
           c \notin disturbed => Kept(m)
    PROVE  SquidInv'
<1> DEFINE s == call[c].squid
<1>1. s \in Squids /\ s # NoSquid /\ squids[s].exists
  BY Writer
<1>2. ASSUME NEW d \in Calls \ {c}, call[d].squid = s
      PROVE  Held(call[d], new)
  <2>1. Held(call[d], squids[s])
    BY <1>1, <1>2 DEF SquidInv, View
  <2>2. QED
    BY <2>1 DEF Held
<1>3. Named(c, m)
  BY UnansweredNamed
<1>4. QED
  BY <1>1, <1>2, <1>3, WritingKeeps

\* A failed write that ends its call; nothing had been destroyed.
LEMMA WriteEndsKeep ==
    ASSUME TypeInv, RunInv, SquidInv, NEW c \in Calls, NEW a,
           call[c].pc \in {"update", "add", "link", "configure"},
           Become(c, Finish(call[c], a)), runs' = runs,
           NEW new, Put(call[c].squid, new, {c}), new.exists,
           a.outcome = "failed", a.tasksLost \in {"none", "no"}, a.lostTasks = {},
           ~a.deleted, call[c].erased = {},
           call[c].made = NoSquid \/ a.squid = call[c].made
    PROVE  SquidInv'
<1> DEFINE me == call[c]
           m == Finish(me, a)
<1>1. /\ me \in CallState /\ Local(me) /\ Held(me, squids[me.squid])
      /\ c \notin disturbed => Kept(me)
  BY Writer
<1>2. m.pc = "done" /\ m.resp = a /\ Alike(me, m)
  BY <1>1, FinishAlike
<1> HIDE DEF m
<1>3. Local(m)
  BY <1>1, <1>2, FinishLocal
<1>4. Held(me, new)
  BY <1>1 DEF Held
<1>5. Held(m, new) /\ Fresh(m, new)
  BY <1>2, <1>4, FinishHeld
<1>6. m.squid = me.squid /\ m.made = me.made /\ (c \notin disturbed => Kept(m))
  BY <1>1, <1>2, AlikeSame DEF Alike
<1>7. Become(c, m)
  BY DEF m
<1>8. QED
  BY <1>2, <1>3, <1>5, <1>6, <1>7, OwnWriteKeeps

LEMMA AfterSaveFollows ==
    ASSUME NEW me
    PROVE  \/ AfterSave(me) = "empty" /\ me.req.replace
           \/ AfterSave(me) = "add" /\ ~me.req.replace /\ HasTask(me)
           \/ AfterSave(me) = "start" /\ ~me.req.replace /\ ~HasTask(me)
  BY DEF AfterSave

LEMMA UpdateSquidKeeps ==
    ASSUME TypeInv, RunInv, SquidInv, NEW c \in Calls, UpdateSquid(c)
    PROVE  SquidInv'
<1> DEFINE me == call[c]
           q == squids[me.squid]
           new(o) == IF Applied(o) THEN Configured(q, me) ELSE q
           a == [NoAnswer EXCEPT !.outcome = "failed", !.squid = me.squid,
                                 !.tasksLost = "no"]
           m == [me EXCEPT !.pc = AfterSave(me)]
<1>1. PICK o \in WriteEnds :
        /\ Put(me.squid, new(o), {c})
        /\ Become(c, IF o # "ok" THEN Finish(me, a) ELSE m)
  BY DEF UpdateSquid
<1>2. me.pc = "update" /\ runs' = runs
  BY DEF UpdateSquid, Elsewhere
<1>3. /\ me \in CallState /\ Local(me) /\ me.squid \in Squids /\ me.squid # NoSquid
      /\ q \in SquidState /\ q.exists /\ Held(me, q)
      /\ c \notin disturbed => Fresh(me, q)
      /\ c \notin disturbed => Kept(me)
  BY <1>2, Writer
<1>4. /\ Configured(q, me).exists = q.exists /\ Configured(q, me).rows = q.rows
      /\ Configured(q, me).cfg = Effective(me)
      /\ Configured(q, me).accounts = IF me.save = {} THEN q.accounts ELSE me.save
      /\ Configured(q, me) \in SquidState
  BY <1>3, ConfiguredType DEF Configured, SquidState
<1>5. new(o).exists /\ new(o) \in SquidState
  BY <1>3, <1>4
<1>6. Reuse(me) /\ HasInput(me) /\ me.made = NoSquid /\ me.erased = {}
      /\ ~NeedsConfirmation(me) /\ ~ProtectsRows(me) /\ me.action = "unchanged"
  BY <1>2, <1>3, NothingErased DEF Local, OnRoute, OnSquid, Paid
<1>7. CASE o # "ok"
  <2>1. a.outcome = "failed" /\ a.tasksLost = "no" /\ a.lostTasks = {} /\ ~a.deleted
    BY DEF NoAnswer
  <2>2. Become(c, Finish(me, a)) /\ Put(me.squid, new(o), {c})
    BY <1>1, <1>7
  <2> HIDE DEF a, new, m
  <2>3. QED
    BY <1>2, <1>5, <1>6, <2>1, <2>2, WriteEndsKeep
<1>8. CASE o = "ok"
  <2>1. new(o) = Configured(q, me)
    BY <1>8 DEF Applied
  <2>2. Become(c, m) /\ Put(me.squid, new(o), {c})
    BY <1>1, <1>8
  <2>3. m.pc = AfterSave(me) /\ m.resp = me.resp /\ Alike(me, m)
    BY <1>3, MoveAlike
  <2> HIDE DEF a, new, m
  <2>4. /\ Reuse(m) <=> Reuse(me)
        /\ HasInput(m) <=> HasInput(me)
        /\ HasTask(m) <=> HasTask(me)
        /\ NeedsConfirmation(m) <=> NeedsConfirmation(me)
        /\ ProtectsRows(m) <=> ProtectsRows(me)
        /\ Effective(m) = Effective(me)
    BY <2>3, AlikeSame
  <2>5. Claimless(m) /\ TellsLoss(m) /\ TellsRun(m) /\ ReadsOnly(m) /\ SavesMore(m)
    BY <1>2, <1>3, <2>3, <2>4
       DEF Local, Claimless, TellsLoss, TellsRun, ReadsOnly, SavesMore, Paid, Alike
  <2>6. OnRoute(m) /\ Erases(m)
    BY <1>2, <1>3, <1>6, <2>3, <2>4, AfterSaveFollows
       DEF Local, OnRoute, Erases, Paid, Alike
  <2>7. OnSquid(m)
    BY <1>3, <1>6, <2>3, <2>4, AfterSaveFollows DEF Local, OnSquid, Alike
  <2>8. Local(m)
    BY <2>5, <2>6, <2>7 DEF Local
  <2>9. Held(m, new(o))
    BY <1>5 DEF Held
  <2>10. c \notin disturbed => Fresh(m, new(o))
    <3> SUFFICES ASSUME c \notin disturbed PROVE Fresh(m, new(o))
      OBVIOUS
    <3>1. me.read => Listed(me, q.rows)
      BY <1>2, <1>3 DEF Fresh
    <3>2. /\ new(o).rows = q.rows /\ new(o).cfg = Effective(me)
          /\ me.read => Listed(m, new(o).rows)
      BY <1>4, <2>1, <2>3, <3>1, AlikeSame
    <3>3. m.pc = "add" => me.read
      BY <1>6, <2>3, AfterSaveFollows DEF ProtectsRows
    <3>4. m.pc = "start" => Priced(me, new(o))
      BY <1>3, <1>5, <1>6, <2>3, <3>1, <3>2, AfterSaveFollows, ListedPriced
    <3>5. m.pc = "start" => Priced(m, new(o))
      BY <2>3, <3>4, AlikeSame
    <3>6. m.req = me.req /\ m.read = me.read
      BY <2>3 DEF Alike
    <3>7. NeedsAccount => new(o).accounts # {}
      BY <1>2, <1>3, <1>4, <1>6, <2>1 DEF Local, SavesMore, Fresh, Paid
    <3>8. QED
      BY <1>6, <2>3, <2>4, <3>2, <3>3, <3>5, <3>6, <3>7, AfterSaveFollows DEF Fresh
  <2>11. (c \notin disturbed => Kept(m)) /\ m.squid = me.squid /\ m.made = me.made
    BY <1>3, <2>3, AlikeSame DEF Alike
  <2>12. m.resp.outcome \in {"none", "failed"} /\ ~m.resp.deleted
    BY <1>2, <1>3, <2>3 DEF Local, Claimless
  <2>13. QED
    BY <1>2, <1>5, <2>2, <2>8, <2>9, <2>10, <2>11, <2>12, OwnWriteKeeps DEF Ends
<1>9. QED
  BY <1>7, <1>8

LEMMA EmptySquidKeeps ==
    ASSUME TypeInv, RunInv, SquidInv, NEW c \in Calls, EmptySquid(c)
    PROVE  SquidInv'
<1> DEFINE me == call[c]
           q == squids[me.squid]
<1>1. PICK o \in WriteEnds :
        /\ Put(me.squid, IF Applied(o) THEN [q EXCEPT !.rows = {}] ELSE q, {c})
        /\ Become(c, [me EXCEPT
                         !.pc = IF o = "ok" THEN "add" ELSE "restore",
                         !.erased = IF Applied(o) THEN squids[me.squid].rows ELSE @,
                         !.resp = IF o = "ok" THEN @
                                  ELSE [NoAnswer EXCEPT !.outcome = "failed"]])
  BY DEF EmptySquid
<1> DEFINE new == IF Applied(o) THEN [q EXCEPT !.rows = {}] ELSE q
           m == [me EXCEPT
                   !.pc = IF o = "ok" THEN "add" ELSE "restore",
                   !.erased = IF Applied(o) THEN squids[me.squid].rows ELSE @,
                   !.resp = IF o = "ok" THEN @
                            ELSE [NoAnswer EXCEPT !.outcome = "failed"]]
<1>2. me.pc = "empty" /\ runs' = runs
  BY DEF EmptySquid, Elsewhere
<1>3. /\ me \in CallState /\ Local(me)
      /\ q \in SquidState /\ q.exists /\ Held(me, q)
      /\ c \notin disturbed => Fresh(me, q)
  BY <1>2, Writer
<1>4. /\ new.exists = q.exists /\ new.cfg = q.cfg /\ new.accounts = q.accounts
      /\ new.rows = IF Applied(o) THEN {} ELSE q.rows
  BY <1>3 DEF SquidState
<1>5. /\ m.pc = (IF o = "ok" THEN "add" ELSE "restore")
      /\ m.erased = IF Applied(o) THEN q.rows ELSE me.erased
      /\ m.resp = IF o = "ok" THEN me.resp ELSE [NoAnswer EXCEPT !.outcome = "failed"]
      /\ m.req = me.req /\ m.squid = me.squid /\ m.made = me.made
      /\ m.cfg = me.cfg /\ m.linked = me.linked /\ m.save = me.save /\ m.read = me.read
      /\ m.rows = me.rows /\ m.seen = me.seen /\ m.action = me.action
  BY <1>3 DEF CallState
<1>6. Become(c, m) /\ Put(me.squid, new, {c})
  BY <1>1
<1> HIDE DEF m, new
<1>7. /\ Reuse(me) /\ me.req.replace /\ me.made = NoSquid /\ me.erased = {}
      /\ Reuse(m)
  BY <1>2, <1>3, <1>5, NothingErased DEF Local, OnRoute, OnSquid, Reuse
<1>8. /\ m.resp.outcome \in {"none", "failed"} /\ ~m.resp.deleted
      /\ m.resp.tasksLost = "none" /\ m.resp.lostTasks = {}
  BY <1>2, <1>3, <1>5 DEF Local, Claimless, NoAnswer
<1>9. /\ HasTask(m) <=> HasTask(me)
      /\ NeedsConfirmation(m) <=> NeedsConfirmation(me)
      /\ ProtectsRows(m) <=> ProtectsRows(me)
      /\ Effective(m) = Effective(me)
  BY <1>5, SameGate
<1>10. Claimless(m) /\ TellsLoss(m) /\ TellsRun(m) /\ ReadsOnly(m) /\ SavesMore(m)
  BY <1>2, <1>3, <1>5, <1>7, <1>8
     DEF Local, Claimless, TellsLoss, TellsRun, ReadsOnly, SavesMore, Paid
<1>11. OnRoute(m) /\ Erases(m) /\ OnSquid(m)
  BY <1>2, <1>3, <1>5, <1>7, <1>9 DEF Local, OnRoute, Erases, OnSquid, Paid
<1>12. Local(m)
  BY <1>10, <1>11 DEF Local
<1>13. Held(m, new)
  BY <1>2, <1>3, <1>4, <1>5, <1>7 DEF Held
<1>14. c \notin disturbed => Fresh(m, new)
  BY <1>2, <1>3, <1>4, <1>5, <1>7, <1>9 DEF Fresh, Applied
<1>15. c \notin disturbed => Kept(m)
  <2> SUFFICES ASSUME c \notin disturbed, me.read, Cardinality(m.erased) <= PageCap
               PROVE  m.erased \ {EmptyRow} \subseteq me.rows
    BY <1>5 DEF Kept
  <2>1. CASE ~Applied(o)
    BY <1>5, <1>7, <2>1
  <2>2. CASE Applied(o)
    <3>1. Listed(me, q.rows) /\ m.erased = q.rows
      BY <1>2, <1>3, <1>5, <2>2 DEF Fresh
    <3>2. Cardinality(q.rows) \in Nat
      BY <1>3, InputAssumption, FS_Subset, FS_CardinalityType DEF SquidState
    <3>3. QED
      BY <3>1, <3>2, NumberAssumption DEF Listed
  <2>3. QED
    BY <2>1, <2>2
<1>16. QED
  BY <1>2, <1>3, <1>4, <1>5, <1>6, <1>8, <1>12, <1>13, <1>14, <1>15, OwnWriteKeeps DEF Ends
\* What follows a write that failed while the squid was being filled.
LEMMA AddFailedKeeps ==
    ASSUME TypeInv, RunInv, SquidInv, NEW c \in Calls, NEW o \in WriteEnds,
           call[c].pc \in {"add", "configure"},
           Become(c, AddFailed(call[c], o)), runs' = runs,
           NEW new, Put(call[c].squid, new, {c}), new.exists
    PROVE  SquidInv'
<1> DEFINE me == call[c]
<1>1. /\ me \in CallState /\ Local(me) /\ me.squid # NoSquid
      /\ Held(me, squids[me.squid]) /\ (c \notin disturbed => Kept(me))
  BY Writer
<1>2. /\ me.erased # {} => Reuse(me) /\ me.req.replace
      /\ Reuse(me) => me.made = NoSquid
      /\ ~Reuse(me) => me.squid = me.made
  BY <1>1 DEF Local, Erases, OnSquid
<1>3. CASE AddedAs(me) = "replaced"
  <2> DEFINE a == [NoAnswer EXCEPT !.outcome = "failed"]
             m == [me EXCEPT !.pc = "restore", !.resp = a]
  <2>1. Become(c, m)
    BY <1>3 DEF AddFailed
  <2>2. m.pc = "restore" /\ m.resp = a /\ Alike(me, m)
    BY <1>1, UndoAlike
  <2>3. a.outcome = "failed" /\ a.tasksLost = "none" /\ a.lostTasks = {} /\ ~a.deleted
    BY DEF NoAnswer
  <2> HIDE DEF m, a
  <2>4. /\ Reuse(m) <=> Reuse(me)
        /\ NeedsConfirmation(m) <=> NeedsConfirmation(me)
        /\ ProtectsRows(m) <=> ProtectsRows(me)
    BY <2>2, AlikeSame
  <2>5. Reuse(me)
    BY <1>3 DEF AddedAs
  <2>6. Claimless(m) /\ TellsLoss(m) /\ TellsRun(m) /\ ReadsOnly(m) /\ SavesMore(m)
    BY <1>1, <2>2, <2>3, <2>4
       DEF Local, Claimless, TellsLoss, TellsRun, ReadsOnly, SavesMore, Paid, Alike
  <2>7. OnRoute(m) /\ Erases(m) /\ OnSquid(m)
    BY <1>1, <1>2, <2>2, <2>4, <2>5 DEF Local, OnRoute, Erases, OnSquid, Paid, Alike
  <2>8. Local(m)
    BY <2>6, <2>7 DEF Local
  <2>9. Held(m, new) /\ Fresh(m, new)
    BY <1>1, <2>2, <2>4 DEF Held, Fresh, Alike
  <2>10. m.squid = me.squid /\ m.made = me.made /\ (c \notin disturbed => Kept(m))
    BY <1>1, <2>2, AlikeSame DEF Alike
  <2>11. QED
    BY <2>1, <2>2, <2>3, <2>8, <2>9, <2>10, OwnWriteKeeps
<1>4. CASE AddedAs(me) = "added"
  <2> DEFINE a == [NoAnswer EXCEPT !.outcome = "failed", !.squid = me.squid,
                                   !.tasksLost = "no"]
  <2>1. Become(c, Finish(me, a))
    BY <1>4 DEF AddFailed
  <2>2. a.outcome = "failed" /\ a.tasksLost = "no" /\ a.lostTasks = {} /\ ~a.deleted
    BY DEF NoAnswer
  <2> HIDE DEF a
  <2>3. me.erased = {} /\ me.made = NoSquid
    BY <1>2, <1>4 DEF AddedAs
  <2>4. QED
    BY <2>1, <2>2, <2>3, WriteEndsKeep
<1>5. CASE ~Reuse(me) /\ Transport(o)
  <2> DEFINE a == [Failed(o) EXCEPT !.squid = me.squid]
  <2>1. Become(c, Finish(me, a))
    BY <1>5 DEF AddFailed, AddedAs
  <2>2. /\ a.outcome = "failed" /\ a.tasksLost = "none" /\ a.lostTasks = {} /\ ~a.deleted
        /\ a.squid = me.squid
    BY DEF Failed, NoAnswer
  <2> HIDE DEF a
  <2>3. me.erased = {} /\ (me.made = NoSquid \/ a.squid = me.made)
    BY <1>2, <1>5, <2>2
  <2>4. a.tasksLost \in {"none", "no"}
    BY <2>2
  <2>5. QED
    BY <2>1, <2>2, <2>3, <2>4, WriteEndsKeep
<1>6. CASE ~Reuse(me) /\ ~Transport(o)
  <2> DEFINE m == [me EXCEPT !.pc = "cleanup"]
  <2>1. Become(c, m)
    BY <1>6 DEF AddFailed, AddedAs
  <2>2. m.pc = "cleanup" /\ m.resp = me.resp /\ Alike(me, m)
    BY <1>1, MoveAlike
  <2> HIDE DEF m
  <2>3. /\ Reuse(m) <=> Reuse(me)
        /\ NeedsConfirmation(m) <=> NeedsConfirmation(me)
        /\ ProtectsRows(m) <=> ProtectsRows(me)
    BY <2>2, AlikeSame
  <2>4. Claimless(m) /\ TellsLoss(m) /\ TellsRun(m) /\ ReadsOnly(m) /\ SavesMore(m)
    BY <1>1, <2>2, <2>3
       DEF Local, Claimless, TellsLoss, TellsRun, ReadsOnly, SavesMore, Paid, Alike
  <2>5. OnRoute(m) /\ Erases(m) /\ OnSquid(m)
    BY <1>1, <1>2, <1>6, <2>2, <2>3 DEF Local, OnRoute, Erases, OnSquid, Paid, Alike
  <2>6. Local(m)
    BY <2>4, <2>5 DEF Local
  <2>7. Held(m, new) /\ Fresh(m, new)
    BY <1>1, <2>2, <2>3 DEF Held, Fresh, Alike
  <2>8. m.squid = me.squid /\ m.made = me.made /\ (c \notin disturbed => Kept(m))
    BY <1>1, <2>2, AlikeSame DEF Alike
  <2>9. m.resp.outcome \in {"none", "failed"} /\ ~m.resp.deleted
    BY <1>1, <2>2 DEF Local, Claimless
  <2>10. QED
    BY <2>1, <2>6, <2>7, <2>8, <2>9, OwnWriteKeeps DEF Ends
<1>7. QED
  BY <1>3, <1>4, <1>5, <1>6 DEF AddedAs

\* A call that adds its row runs one row, or more than the pages show.
LEMMA AddedPriced ==
    ASSUME NEW me \in CallState, NEW m, NEW q \in SquidState, NEW new,
           m.req = me.req, m.cfg = me.cfg, m.read = me.read, m.seen = me.seen,
           m.action # "unchanged",
           ~NeedsConfirmation(me), q.cfg = Effective(me),
           q.rows = {} \/ (Listed(me, q.rows) /\ me.seen = 0),
           new.cfg = q.cfg, new.rows = q.rows \cup {TaskRow(me)}
    PROVE  Priced(m, new)
<1>1. /\ IsFiniteSet(q.rows) /\ Cardinality(q.rows) \in Nat
      /\ q.rows = {} <=> Cardinality(q.rows) = 0
  BY InputAssumption, FS_Subset, FS_CardinalityType, FS_EmptySet DEF SquidState
<1> DEFINE row == TaskRow(me)
<1> HIDE DEF row
<1>2. Cardinality(q.rows \cup {row}) \in {Cardinality(q.rows), Cardinality(q.rows) + 1}
      /\ (q.rows = {} => Cardinality(q.rows \cup {row}) = 1)
  <2>1. /\ IsFiniteSet(q.rows \cup {row})
        /\ Cardinality(q.rows \cup {row}) =
             IF row \in q.rows THEN Cardinality(q.rows) ELSE Cardinality(q.rows) + 1
    BY <1>1, FS_AddElement
  <2>2. QED
    BY <1>1, <2>1
<1> USE DEF row
<1>3. \/ Cardinality(new.rows) = 1
      \/ Cardinality(new.rows) > PageCap
  BY <1>1, <1>2, NumberAssumption DEF Listed
<1>4. Effective(me) \in Cfgs
  BY DEF Effective, CallState, Request
<1>5. FreeRows[Effective(me)] \in Nat
  BY <1>4, NumberAssumption
<1>6. EstimatedRows(me) \in Nat /\ EstimatedRows(me) >= 1
  BY DEF EstimatedRows, RowsThisRun, CallState
<1>7. me.req.confirm \/ 1 <= FreeRows[Effective(me)]
  BY <1>5, <1>6 DEF NeedsConfirmation
<1>8. TaskCount(m) = 1 /\ Effective(m) = Effective(me)
  BY SameGate DEF TaskCount
<1>9. QED
  BY <1>3, <1>7, <1>8 DEF Priced

LEMMA AddTasksKeeps ==
    ASSUME TypeInv, RunInv, SquidInv, NEW c \in Calls, AddTasks(c)
    PROVE  SquidInv'
<1> DEFINE me == call[c]
           q == squids[me.squid]
           m == [me EXCEPT !.pc = "start", !.action = AddedAs(me)]
<1>1. PICK o \in WriteEnds :
        /\ Put(me.squid, IF Applied(o) THEN [q EXCEPT !.rows = @ \cup {TaskRow(me)}]
                         ELSE q, {c})
        /\ Become(c, IF o = "ok" THEN m ELSE AddFailed(me, o))
  BY DEF AddTasks
<1> DEFINE new == IF Applied(o) THEN [q EXCEPT !.rows = @ \cup {TaskRow(me)}] ELSE q
<1>2. me.pc = "add" /\ runs' = runs
  BY DEF AddTasks, Elsewhere
<1>3. /\ me \in CallState /\ Local(me)
      /\ q \in SquidState /\ q.exists /\ Held(me, q)
      /\ c \notin disturbed => Fresh(me, q)
      /\ c \notin disturbed => Kept(me)
  BY <1>2, Writer
<1>4. /\ new.exists = q.exists /\ new.cfg = q.cfg /\ new.accounts = q.accounts
      /\ new.rows = IF Applied(o) THEN q.rows \cup {TaskRow(me)} ELSE q.rows
  BY <1>3 DEF SquidState
<1>5. CASE o # "ok"
  <2>1. Become(c, AddFailed(me, o)) /\ Put(me.squid, new, {c})
    BY <1>1, <1>5
  <2> HIDE DEF new, m
  <2>2. new.exists
    BY <1>3, <1>4
  <2>3. QED
    BY <1>2, <2>1, <2>2, AddFailedKeeps
<1>6. CASE o = "ok"
  <2>1. Become(c, m) /\ Put(me.squid, new, {c}) /\ Applied(o)
    BY <1>1, <1>6 DEF Applied
  <2>2. /\ m.pc = "start" /\ m.action = AddedAs(me) /\ m.resp = me.resp
        /\ m.req = me.req /\ m.squid = me.squid /\ m.made = me.made
        /\ m.cfg = me.cfg /\ m.linked = me.linked /\ m.save = me.save /\ m.read = me.read
        /\ m.rows = me.rows /\ m.seen = me.seen /\ m.erased = me.erased
    BY <1>3 DEF CallState
  <2> HIDE DEF m, new
  <2>3. /\ Reuse(m) <=> Reuse(me)
        /\ NeedsConfirmation(m) <=> NeedsConfirmation(me)
        /\ ProtectsRows(m) <=> ProtectsRows(me)
    BY <2>2, SameGate
  <2>4. Claimless(m) /\ TellsLoss(m) /\ TellsRun(m) /\ ReadsOnly(m) /\ SavesMore(m)
    BY <1>2, <1>3, <2>2, <2>3
       DEF Local, Claimless, TellsLoss, TellsRun, ReadsOnly, SavesMore, Paid
  <2>5. OnRoute(m) /\ Erases(m) /\ OnSquid(m)
    BY <1>2, <1>3, <2>2, <2>3 DEF Local, OnRoute, Erases, OnSquid, Paid, AddedAs
  <2>6. Local(m)
    BY <2>4, <2>5 DEF Local
  <2>7. Held(m, new)
    BY <1>2, <1>3, <1>4, <2>2, <2>3 DEF Held
  <2>8. c \notin disturbed => Fresh(m, new)
    <3> SUFFICES ASSUME c \notin disturbed PROVE Fresh(m, new)
      OBVIOUS
    <3>1. m.action # "unchanged"
      BY <2>2 DEF AddedAs
    <3>2. ~NeedsConfirmation(me) /\ ~ProtectsRows(me)
      BY <1>2, <1>3 DEF Local, OnRoute, Paid
    <3>3. Reuse(me) /\ ~me.req.replace => me.seen = 0
      BY <1>2, <1>3, <3>2 DEF Local, OnRoute, ProtectsRows, CallState
    <3>4. /\ q.cfg = Effective(me)
          /\ q.rows = {} \/ (Listed(me, q.rows) /\ me.seen = 0)
      BY <1>2, <1>3, <3>3 DEF Fresh
    <3>5. Priced(m, new)
      BY <1>3, <1>4, <2>1, <2>2, <3>1, <3>2, <3>4, AddedPriced
    <3>6. NeedsAccount => new.accounts # {}
      BY <1>2, <1>3, <1>4 DEF Fresh
    <3>7. QED
      BY <2>2, <3>5, <3>6 DEF Fresh
  <2>9. c \notin disturbed => Kept(m)
    BY <1>3, <2>2 DEF Kept
  <2>10. m.resp.outcome \in {"none", "failed"} /\ ~m.resp.deleted
    BY <2>2, <2>4 DEF Claimless
  <2>11. QED
    BY <1>2, <1>3, <1>4, <2>1, <2>2, <2>6, <2>7, <2>8, <2>9, <2>10, OwnWriteKeeps
       DEF Ends
<1>7. QED
  BY <1>5, <1>6

LEMMA LinkAccountsKeeps ==
    ASSUME TypeInv, RunInv, SquidInv, NEW c \in Calls, LinkAccounts(c)
    PROVE  SquidInv'
<1> DEFINE me == call[c]
           q == squids[me.squid]
           new(o) == IF Applied(o) THEN [q EXCEPT !.accounts = me.save] ELSE q
           m == [me EXCEPT !.pc = "start"]
<1>1. PICK o \in WriteEnds :
        /\ Put(me.squid, new(o), {c})
        /\ Become(c, IF o = "ok" THEN m ELSE Finish(me, Failed(o)))
  BY DEF LinkAccounts
<1>2. me.pc = "link" /\ runs' = runs
  BY DEF LinkAccounts, Elsewhere
<1>3. /\ me \in CallState /\ Local(me)
      /\ q \in SquidState /\ q.exists /\ Held(me, q)
      /\ c \notin disturbed => Fresh(me, q)
      /\ c \notin disturbed => Kept(me)
  BY <1>2, Writer
<1>4. /\ Reuse(me) /\ ~HasInput(me) /\ me.save # {} /\ me.made = NoSquid
      /\ me.erased = {} /\ ~NeedsConfirmation(me) /\ me.action = "unchanged"
  BY <1>2, <1>3, NothingErased DEF Local, OnRoute, OnSquid, Paid
<1>5. /\ new(o).exists = q.exists /\ new(o).cfg = q.cfg /\ new(o).rows = q.rows
      /\ new(o).accounts = IF Applied(o) THEN me.save ELSE q.accounts
      /\ new(o) \in SquidState
  BY <1>3 DEF SquidState, CallState
<1>6. new(o).exists
  BY <1>3, <1>4, <1>5
<1>7. CASE o # "ok"
  <2>1. /\ Failed(o).outcome = "failed" /\ Failed(o).tasksLost = "none"
        /\ Failed(o).lostTasks = {} /\ ~Failed(o).deleted
    BY DEF Failed, NoAnswer
  <2>2. Become(c, Finish(me, Failed(o))) /\ Put(me.squid, new(o), {c})
    BY <1>1, <1>7
  <2> HIDE DEF new, m
  <2>3. QED
    BY <1>2, <1>4, <1>6, <2>1, <2>2, WriteEndsKeep
<1>8. CASE o = "ok"
  <2>1. Become(c, m) /\ Put(me.squid, new(o), {c}) /\ Applied(o)
    BY <1>1, <1>8 DEF Applied
  <2>2. m.pc = "start" /\ m.resp = me.resp /\ Alike(me, m)
    BY <1>3, MoveAlike
  <2> HIDE DEF m, new
  <2>3. /\ Reuse(m) <=> Reuse(me)
        /\ NeedsConfirmation(m) <=> NeedsConfirmation(me)
        /\ ProtectsRows(m) <=> ProtectsRows(me)
    BY <2>2, AlikeSame
  <2>4. Claimless(m) /\ TellsLoss(m) /\ TellsRun(m) /\ ReadsOnly(m) /\ SavesMore(m)
    BY <1>2, <1>3, <2>2, <2>3
       DEF Local, Claimless, TellsLoss, TellsRun, ReadsOnly, SavesMore, Paid, Alike
  <2>5. OnRoute(m) /\ Erases(m) /\ OnSquid(m)
    BY <1>2, <1>3, <1>4, <2>2, <2>3 DEF Local, OnRoute, Erases, OnSquid, Paid, Alike
  <2>6. Local(m)
    BY <2>4, <2>5 DEF Local
  <2>7. Held(m, new(o))
    BY <1>3, <1>4, <1>5, <2>1, <2>2, <2>3 DEF Held, Alike
  <2>8. c \notin disturbed => Fresh(m, new(o))
    <3> SUFFICES ASSUME c \notin disturbed PROVE Fresh(m, new(o))
      OBVIOUS
    <3>1. ~HasTask(me) /\ Effective(me) = me.cfg
      BY <1>4 DEF HasInput, Effective
    <3>2. new(o).cfg = Effective(me) /\ (me.read => Listed(me, new(o).rows))
      BY <1>2, <1>3, <1>4, <1>5, <3>1 DEF Fresh
    <3>3. Priced(me, new(o))
      BY <1>3, <1>4, <1>5, <3>1, <3>2, ListedPriced
    <3>4. new(o).accounts # {}
      BY <1>4, <1>5, <2>1
    <3>5. QED
      BY <2>2, <3>3, <3>4, AlikeSame DEF Fresh
  <2>9. (c \notin disturbed => Kept(m)) /\ m.squid = me.squid /\ m.made = me.made
    BY <1>3, <2>2, AlikeSame DEF Alike
  <2>10. m.resp.outcome \in {"none", "failed"} /\ ~m.resp.deleted
    BY <2>2, <2>4 DEF Claimless
  <2>11. QED
    BY <1>2, <1>6, <2>1, <2>6, <2>7, <2>8, <2>9, <2>10, OwnWriteKeeps DEF Ends
<1>9. QED
  BY <1>7, <1>8
-----------------------------------------------------------------------------
(* A squid made for the call.                                              *)

\* A squid that is nobody else's is not waited for by anybody else.
LEMMA NobodyElses ==
    ASSUME NEW me \in CallState, NEW s, NEW new, Local(me), me.squid = s,
           s \notin Saved, s # NoSquid, me.made # s
    PROVE  Held(me, new)
<1>1. ~Reuse(me) /\ me.pc \in {"done", "dead"}
  BY DEF Local, OnSquid, OnRoute, CallState, Steps
<1>2. QED
  BY <1>1 DEF Held, Paid

LEMMA CreateSquidKeeps ==
    ASSUME TypeInv, RunInv, SquidInv, NEW c \in Calls, CreateSquid(c)
    PROVE  SquidInv'
<1> DEFINE me == call[c]
<1>1. PICK o \in WriteEnds, s \in {t \in Squids \ Saved : ~squids[t].exists} :
        /\ s \notin {call[d].made : d \in Calls}
        /\ Put(s, IF Applied(o) THEN [Absent EXCEPT !.exists = TRUE] ELSE squids[s], {c})
        /\ Become(c, [(IF o = "ok" THEN [me EXCEPT !.pc = "configure", !.squid = s]
                       ELSE Finish(me, Failed(o)))
                      EXCEPT !.made = IF Applied(o) THEN s ELSE NoSquid])
  BY DEF CreateSquid
<1> DEFINE new == IF Applied(o) THEN [Absent EXCEPT !.exists = TRUE] ELSE squids[s]
           went == IF o = "ok" THEN [me EXCEPT !.pc = "configure", !.squid = s]
                   ELSE Finish(me, Failed(o))
           m == [went EXCEPT !.made = IF Applied(o) THEN s ELSE NoSquid]
<1>2. me.pc = "create" /\ runs' = runs
  BY DEF CreateSquid, Elsewhere
<1>3. me \in CallState /\ Local(me) /\ (c \notin disturbed => Kept(me))
  BY Mover
<1>4. s \in Squids /\ s \notin Saved /\ s # NoSquid /\ ~squids[s].exists
      /\ squids[s].rows = {} /\ (\A d \in Calls : call[d].made # s)
  BY <1>1, SquidAssumption DEF SquidInv, SquidsSound
<1>5. /\ Applied(o) => new.exists /\ new.rows = {}
      /\ ~Applied(o) => new = squids[s]
  BY DEF Absent
<1>6. /\ Failed(o).outcome = "failed" /\ Failed(o).tasksLost = "none"
      /\ Failed(o).lostTasks = {} /\ ~Failed(o).deleted /\ Failed(o).squid = NoSquid
      /\ Failed(o).state = RequestState(o)
  BY DEF Failed, NoAnswer
<1>7. Applied(o) => o = "ok" \/ RequestState(o) = "unknown"
  BY DEF Applied, RequestState, Transport
<1>8. /\ ~Reuse(me) /\ me.squid = NoSquid /\ me.made = NoSquid /\ me.erased = {}
      /\ ~NeedsConfirmation(me) /\ ~ProtectsRows(me) /\ me.action = "unchanged"
  BY <1>2, <1>3, NothingErased DEF Local, OnRoute, OnSquid, Paid
<1>9. /\ went.pc = (IF o = "ok" THEN "configure" ELSE "done")
      /\ went.squid = (IF o = "ok" THEN s ELSE me.squid)
      /\ went.resp = (IF o = "ok" THEN me.resp ELSE Failed(o))
      /\ went.req = me.req /\ went.cfg = me.cfg /\ went.linked = me.linked
      /\ went.save = me.save /\ went.read = me.read /\ went.rows = me.rows
      /\ went.seen = me.seen /\ went.action = me.action /\ went.erased = me.erased
  <2>1. CASE o = "ok"
    BY <1>3, <2>1 DEF CallState
  <2>2. CASE o # "ok"
    BY <1>3, <2>2, FinishAlike DEF Alike
  <2>3. QED
    BY <2>1, <2>2
<1>10. /\ m.pc = went.pc /\ m.squid = went.squid /\ m.resp = went.resp
       /\ m.req = me.req /\ m.cfg = me.cfg /\ m.linked = me.linked
       /\ m.save = me.save /\ m.read = me.read /\ m.rows = me.rows
       /\ m.seen = me.seen /\ m.action = me.action /\ m.erased = me.erased
       /\ m.made = IF Applied(o) THEN s ELSE NoSquid
  BY <1>3, <1>9 DEF CallState, Finish
<1>11. Become(c, m) /\ Put(s, new, {c})
  BY <1>1
<1> HIDE DEF new, went, m
<1>12. /\ Reuse(m) <=> Reuse(me)
       /\ NeedsConfirmation(m) <=> NeedsConfirmation(me)
       /\ ProtectsRows(m) <=> ProtectsRows(me)
  BY <1>10, SameGate
<1>13. Claimless(m) /\ TellsLoss(m) /\ TellsRun(m) /\ ReadsOnly(m) /\ SavesMore(m)
  BY <1>2, <1>3, <1>6, <1>9, <1>10, <1>12
     DEF Local, Claimless, TellsLoss, TellsRun, ReadsOnly, SavesMore, Paid
<1>14. OnRoute(m) /\ Erases(m)
  BY <1>8, <1>9, <1>10, <1>12 DEF OnRoute, Erases, Paid
<1>15. OnSquid(m)
  BY <1>4, <1>6, <1>7, <1>8, <1>9, <1>10, <1>12 DEF OnSquid, Applied
<1>16. Local(m)
  BY <1>13, <1>14, <1>15 DEF Local
<1>17. m.squid \in {s, NoSquid} /\ m.resp.outcome \in {"none", "failed"} /\ ~m.resp.deleted
  BY <1>2, <1>3, <1>6, <1>8, <1>9, <1>10 DEF Local, Claimless
<1>18. m.squid = s => Held(m, new) /\ Fresh(m, new)
  <2> SUFFICES ASSUME m.squid = s PROVE Held(m, new) /\ Fresh(m, new)
    OBVIOUS
  <2>1. m.pc = "configure" /\ Applied(o)
    BY <1>4, <1>8, <1>9, <1>10 DEF Applied
  <2>2. QED
    BY <1>5, <1>8, <1>12, <2>1 DEF Held, Fresh
<1>19. Kept(m)
  BY <1>8, <1>10 DEF Kept
<1>20. ASSUME NEW d \in Calls \ {c}, call[d].squid = s
       PROVE  Held(call[d], new)
  BY <1>4, <1>20, Mover, NobodyElses
<1>21. new.exists \/ (s \notin Saved /\ new.rows = {})
  BY <1>4, <1>5
<1>22. \/ m.made \in {NoSquid, me.made}
       \/ \A d \in Calls : call[d].made # m.made
  BY <1>4, <1>10
<1>23. Named(c, m)
  BY <1>17, UnansweredNamed
<1>24. me.pc \notin Ends \cup {"record"}
  BY <1>2 DEF Ends
<1>25. QED
  BY <1>2, <1>4, <1>11, <1>16, <1>17, <1>18, <1>19, <1>20, <1>21, <1>22, <1>23, <1>24,
     WritingKeeps

LEMMA ConfigureSquidKeeps ==
    ASSUME TypeInv, RunInv, SquidInv, NEW c \in Calls, ConfigureSquid(c)
    PROVE  SquidInv'
<1> DEFINE me == call[c]
           q == squids[me.squid]
           m == [me EXCEPT !.pc = "add"]
<1>1. PICK o \in WriteEnds :
        /\ Put(me.squid, IF Applied(o) THEN Configured(q, me) ELSE q, {c})
        /\ Become(c, IF o = "ok" THEN m ELSE AddFailed(me, o))
  BY DEF ConfigureSquid
<1> DEFINE new == IF Applied(o) THEN Configured(q, me) ELSE q
<1>2. me.pc = "configure" /\ runs' = runs
  BY DEF ConfigureSquid, Elsewhere
<1>3. /\ me \in CallState /\ Local(me)
      /\ q \in SquidState /\ q.exists /\ Held(me, q)
      /\ c \notin disturbed => Fresh(me, q)
      /\ c \notin disturbed => Kept(me)
  BY <1>2, Writer
<1>4. /\ Configured(q, me).exists = q.exists /\ Configured(q, me).rows = q.rows
      /\ Configured(q, me).cfg = Effective(me)
      /\ Configured(q, me).accounts = IF me.save = {} THEN q.accounts ELSE me.save
  BY <1>3 DEF Configured, SquidState
<1>5. new.exists
  BY <1>3, <1>4
<1>6. CASE o # "ok"
  <2>1. Become(c, AddFailed(me, o)) /\ Put(me.squid, new, {c})
    BY <1>1, <1>6
  <2> HIDE DEF new, m
  <2>2. QED
    BY <1>2, <1>5, <2>1, AddFailedKeeps
<1>7. CASE o = "ok"
  <2>1. Become(c, m) /\ Put(me.squid, new, {c}) /\ new = Configured(q, me)
    BY <1>1, <1>7 DEF Applied
  <2>2. m.pc = "add" /\ m.resp = me.resp /\ Alike(me, m)
    BY <1>3, MoveAlike
  <2> HIDE DEF m, new
  <2>3. /\ Reuse(m) <=> Reuse(me)
        /\ NeedsConfirmation(m) <=> NeedsConfirmation(me)
        /\ ProtectsRows(m) <=> ProtectsRows(me)
        /\ Effective(m) = Effective(me)
    BY <2>2, AlikeSame
  <2>4. ~Reuse(me) /\ me.linked = {} /\ me.erased = {}
    BY <1>2, <1>3, NothingErased DEF Local, OnRoute, ReadsOnly
  <2>5. Claimless(m) /\ TellsLoss(m) /\ TellsRun(m) /\ ReadsOnly(m) /\ SavesMore(m)
    BY <1>2, <1>3, <2>2, <2>3
       DEF Local, Claimless, TellsLoss, TellsRun, ReadsOnly, SavesMore, Paid, Alike
  <2>6. OnRoute(m) /\ Erases(m) /\ OnSquid(m)
    BY <1>2, <1>3, <2>2, <2>3, <2>4 DEF Local, OnRoute, Erases, OnSquid, Paid, Alike
  <2>7. Local(m)
    BY <2>5, <2>6 DEF Local
  <2>8. Held(m, new)
    BY <1>5 DEF Held
  <2>9. c \notin disturbed => Fresh(m, new)
    <3>1. NeedsAccount => me.save # {}
      BY <1>2, <1>3, <2>4 DEF Local, SavesMore, Paid
    <3>2. NeedsAccount => new.accounts # {}
      BY <1>4, <2>1, <3>1
    <3>3. QED
      BY <1>2, <1>3, <1>4, <2>1, <2>2, <2>3, <2>4, <3>2 DEF Fresh
  <2>10. (c \notin disturbed => Kept(m)) /\ m.squid = me.squid /\ m.made = me.made
    BY <1>3, <2>2, AlikeSame DEF Alike
  <2>11. m.resp.outcome \in {"none", "failed"} /\ ~m.resp.deleted
    BY <1>2, <1>3, <2>2 DEF Local, Claimless
  <2>12. QED
    BY <1>2, <1>5, <2>1, <2>2, <2>7, <2>8, <2>9, <2>10, <2>11, OwnWriteKeeps DEF Ends
<1>8. QED
  BY <1>6, <1>7

LEMMA DeleteSquidKeeps ==
    ASSUME TypeInv, RunInv, SquidInv, NEW c \in Calls, DeleteSquid(c)
    PROVE  SquidInv'
<1> DEFINE me == call[c]
           s == me.squid
<1>1. PICK o \in WriteEnds :
        /\ Put(s, IF Applied(o) THEN Absent ELSE squids[s], {c})
        /\ Become(c, Finish(me, [NoAnswer EXCEPT !.outcome = "failed",
                                                 !.squid = me.squid,
                                                 !.deleted = o = "ok"]))
  BY DEF DeleteSquid
<1> DEFINE new == IF Applied(o) THEN Absent ELSE squids[s]
           a == [NoAnswer EXCEPT !.outcome = "failed", !.squid = me.squid,
                                 !.deleted = o = "ok"]
           m == Finish(me, a)
<1>2. me.pc = "cleanup" /\ runs' = runs
  BY DEF DeleteSquid, Elsewhere
<1>3. /\ me \in CallState /\ Local(me) /\ s \in Squids /\ s # NoSquid
      /\ squids[s].exists /\ Held(me, squids[s])
      /\ c \notin disturbed => Kept(me)
  BY <1>2, Writer
<1>4. ~Reuse(me) /\ me.made = s /\ s \notin Saved /\ me.erased = {}
  BY <1>2, <1>3, NothingErased DEF Local, OnRoute, OnSquid
<1>5. /\ a.outcome = "failed" /\ a.tasksLost = "none" /\ a.lostTasks = {}
      /\ a.squid = s /\ a.deleted = (o = "ok")
  BY DEF NoAnswer
<1>6. m.pc = "done" /\ m.resp = a /\ Alike(me, m)
  BY <1>3, FinishAlike
<1>7. /\ o = "ok" => ~new.exists
      /\ new.exists \/ new.rows = {}
  BY <1>3 DEF Applied, Absent
<1>8. Become(c, m) /\ Put(s, new, {c})
  BY <1>1
<1> HIDE DEF m, a, new
<1>9. Local(m)
  BY <1>3, <1>4, <1>5, <1>6, FinishLocal
<1>10. m.squid = s /\ m.made = s /\ (Reuse(m) <=> Reuse(me))
  BY <1>4, <1>6, AlikeSame DEF Alike
<1>11. Held(m, new) /\ Fresh(m, new)
  BY <1>4, <1>6, <1>10 DEF Held, Fresh, Paid
<1>12. c \notin disturbed => Kept(m)
  BY <1>3, <1>6, AlikeSame
<1>13. ASSUME NEW d \in Calls \ {c} PROVE call[d].made # s
  BY <1>3, <1>4 DEF SquidInv, MadeApart
<1>14. ASSUME NEW d \in Calls \ {c}, call[d].squid = s
       PROVE  Held(call[d], new)
  BY <1>3, <1>4, <1>13, <1>14, Mover, NobodyElses
<1>15. Named(c, m)
  BY <1>5, <1>6, UnansweredNamed
<1>16. m.resp.deleted => m.made = s /\ ~new.exists
  BY <1>5, <1>6, <1>7, <1>10
<1>17. m.made \in {NoSquid, me.made} /\ me.pc \notin Ends \cup {"record"}
  BY <1>2, <1>4, <1>10 DEF Ends
<1>18. QED
  BY <1>2, <1>3, <1>4, <1>7, <1>8, <1>9, <1>10, <1>11, <1>12, <1>13, <1>14, <1>15,
     <1>16, <1>17, WritingKeeps
-----------------------------------------------------------------------------
(* Starting the run, undoing a replacement, remembering the key.           *)

\* The answer of an undo accounts for the rows.
LEMMA RestoredLocal ==
    ASSUME NEW me, NEW m, NEW a, Alike(me, m), m.pc = "done", m.resp = a,
           Local(me), me.pc = "restore", a.outcome = me.resp.outcome,
           a.squid = me.squid, a.tasksLost \in {"no", "yes"},
           a.tasksLost = "no" => a.lostTasks = {},
           a.tasksLost = "yes" => (a.lostTasks # {} <=> me.read),
           IF me.read THEN me.rows \subseteq a.restored \cup a.lostTasks
           ELSE a.tasksLost = "yes"
    PROVE  Local(m)
<1>1. Claimless(m) /\ TellsLoss(m)
  BY DEF Claimless, TellsLoss, Alike
<1>2. TellsRun(m)
  BY DEF Local, Claimless, TellsRun
<1>3. ReadsOnly(m) /\ SavesMore(m) /\ OnRoute(m)
  BY AlikeSame DEF Local, ReadsOnly, SavesMore, OnRoute, Alike, Paid
<1>4. OnSquid(m)
  BY AlikeSame DEF Local, OnSquid, Alike
<1>5. Erases(m)
  BY AlikeSame DEF Local, Erases, Alike
<1>6. QED
  BY <1>1, <1>2, <1>3, <1>4, <1>5 DEF Local

LEMMA RestoreNothingKeeps ==
    ASSUME TypeInv, RunInv, SquidInv, NEW c \in Calls, RestoreNothing(c)
    PROVE  SquidInv'
<1> DEFINE me == call[c]
           a == [me.resp EXCEPT !.squid = me.squid,
                                !.tasksLost = IF me.read THEN "no" ELSE "yes"]
           m == Finish(me, a)
<1>1. /\ me.pc = "restore" /\ me.rows = {} /\ Become(c, m)
      /\ UNCHANGED <<squids, runs, disturbed>>
  BY DEF RestoreNothing, Elsewhere
<1>2. /\ me \in CallState /\ Local(me) /\ Held(me, squids[me.squid])
      /\ c \notin disturbed => Kept(me)
  BY <1>1, Writer
<1>3. me.resp \in Answer
  BY <1>2 DEF CallState
<1>4. /\ a.squid = me.squid /\ a.tasksLost = IF me.read THEN "no" ELSE "yes"
      /\ a.outcome = me.resp.outcome /\ a.lostTasks = me.resp.lostTasks
      /\ a.deleted = me.resp.deleted
  BY <1>3 DEF Answer
<1>5. me.resp.outcome \in {"none", "failed"} /\ me.resp.lostTasks = {} /\ ~me.resp.deleted
  BY <1>1, <1>2 DEF Local, Claimless
<1>6. m.pc = "done" /\ m.resp = a /\ Alike(me, m)
  BY <1>2, FinishAlike
<1> HIDE DEF m, a
<1>7. Local(m)
  BY <1>1, <1>2, <1>4, <1>5, <1>6, RestoredLocal
<1>8. m.squid = me.squid /\ m.made = me.made /\ (c \notin disturbed => Kept(m))
  BY <1>2, <1>6, AlikeSame DEF Alike
<1>9. Held(m, squids[m.squid]) /\ Fresh(m, squids[m.squid])
  BY <1>2, <1>6, <1>8, FinishHeld
<1>10. Named(c, m) /\ ~m.resp.deleted
  BY <1>4, <1>5, <1>6, UnansweredNamed
<1>11. QED
  BY <1>1, <1>6, <1>7, <1>8, <1>9, <1>10, ReadingKeeps

LEMMA RestoreTasksKeeps ==
    ASSUME TypeInv, RunInv, SquidInv, NEW c \in Calls, RestoreTasks(c)
    PROVE  SquidInv'
<1> DEFINE me == call[c]
           q == squids[me.squid]
<1>1. PICK o \in WriteEnds :
        /\ Put(me.squid, IF Applied(o) THEN [q EXCEPT !.rows = @ \cup me.rows] ELSE q, {c})
        /\ Become(c, Finish(me, RestoreAnswer(me, o)))
  BY DEF RestoreTasks
<1> DEFINE new == IF Applied(o) THEN [q EXCEPT !.rows = @ \cup me.rows] ELSE q
           a == RestoreAnswer(me, o)
           m == Finish(me, a)
<1>2. me.pc = "restore" /\ me.rows # {} /\ runs' = runs
  BY DEF RestoreTasks, Elsewhere
<1>3. /\ me \in CallState /\ Local(me)
      /\ q \in SquidState /\ q.exists /\ Held(me, q)
      /\ c \notin disturbed => Kept(me)
  BY <1>2, Writer
<1>4. new.exists = q.exists /\ new.accounts = q.accounts
  BY <1>3 DEF SquidState
<1>5. me.resp \in Answer
  BY <1>3 DEF CallState
<1>6. /\ a.squid = me.squid /\ a.tasksLost = (IF o = "ok" THEN "no" ELSE "yes")
      /\ a.restored = (IF o = "ok" THEN me.rows ELSE {})
      /\ a.lostTasks = (IF o = "ok" THEN {} ELSE me.rows)
      /\ a.outcome = me.resp.outcome /\ a.deleted = me.resp.deleted
  BY <1>5 DEF Answer, RestoreAnswer
<1>7. me.resp.outcome \in {"none", "failed"} /\ ~me.resp.deleted /\ me.read
  BY <1>2, <1>3 DEF Local, Claimless, ReadsOnly
<1>8. m.pc = "done" /\ m.resp = a /\ Alike(me, m)
  BY <1>3, FinishAlike
<1>9. Become(c, m) /\ Put(me.squid, new, {c})
  BY <1>1
<1> HIDE DEF m, a, new
<1>10. /\ a.tasksLost \in {"no", "yes"}
       /\ a.tasksLost = "no" => a.lostTasks = {}
       /\ a.tasksLost = "yes" => a.lostTasks # {}
       /\ me.rows \subseteq a.restored \cup a.lostTasks
  BY <1>2, <1>6
<1>11. Local(m)
  BY <1>2, <1>3, <1>6, <1>7, <1>8, <1>10, RestoredLocal
<1>12. m.squid = me.squid /\ m.made = me.made /\ (c \notin disturbed => Kept(m))
  BY <1>3, <1>8, AlikeSame DEF Alike
<1>13. Held(me, new)
  BY <1>3, <1>4 DEF Held
<1>14. Held(m, new) /\ Fresh(m, new)
  BY <1>8, <1>13, FinishHeld
<1>15. m.resp.outcome \in {"none", "failed"} /\ ~m.resp.deleted
  BY <1>6, <1>7, <1>8
<1>16. QED
  BY <1>2, <1>3, <1>4, <1>8, <1>9, <1>11, <1>12, <1>14, <1>15, OwnWriteKeeps

LEMMA RecordRunKeeps ==
    ASSUME TypeInv, RunInv, SquidInv, NEW c \in Calls, RecordRun(c)
    PROVE  SquidInv'
<1> DEFINE me == call[c]
           m == call'[c]
<1>1. /\ me.pc = "record" /\ Become(c, m) /\ UNCHANGED <<squids, runs, disturbed>>
      /\ m.pc = "done" /\ Alike(me, m) /\ m.run = me.run
      /\ m.resp \in {StartedAnswer(me), Raised}
  <2>1. Become(c, m)
    BY DEF RecordRun, Become, TypeInv, TypeOK
  <2>2. QED
    BY <2>1, RecordEnds DEF RecordRun, Alike
<1>2. /\ me \in CallState /\ Local(me) /\ Held(me, squids[me.squid])
      /\ c \notin disturbed => Kept(me)
  BY <1>1, Writer
<1>3. /\ m.resp.tasksLost = "none" /\ m.resp.lostTasks = {} /\ ~m.resp.deleted
      /\ \/ /\ m.resp.outcome = "started" /\ m.resp.run = me.run
            /\ m.resp.squid = me.squid /\ m.resp.taskCount = TaskCount(me)
         \/ m.resp.outcome = "raised"
  BY <1>1 DEF StartedAnswer, Raised, NoAnswer
<1>4. /\ me.run \in 1..Len(runs) /\ runs[me.run].by = c
      /\ me.run # 0
  BY <1>1 DEF RunInv, RecordsItsRun
<1> HIDE DEF m
<1>5. /\ Reuse(m) <=> Reuse(me)
      /\ TaskCount(m) = TaskCount(me)
  BY <1>1, AlikeSame
<1>6. Local(m)
  <2>1. Claimless(m) /\ TellsLoss(m) /\ TellsRun(m)
    BY <1>1, <1>3, <1>5 DEF Claimless, TellsLoss, TellsRun, Alike
  <2>2. ReadsOnly(m) /\ SavesMore(m) /\ OnRoute(m) /\ Erases(m)
    BY <1>1, <1>2, <1>3, <1>5
       DEF Local, ReadsOnly, SavesMore, OnRoute, Erases, Alike, Paid
  <2>3. OnSquid(m)
    BY <1>1, <1>2, <1>3, <1>4, <1>5 DEF Local, OnSquid, Alike
  <2>4. QED
    BY <2>1, <2>2, <2>3 DEF Local
<1>7. m.squid = me.squid /\ m.made = me.made /\ (c \notin disturbed => Kept(m))
  BY <1>1, <1>2, AlikeSame DEF Alike
<1>8. Held(m, squids[m.squid]) /\ Fresh(m, squids[m.squid])
  BY <1>1, <1>2, <1>7, FinishHeld
<1>9. Named(c, m)
  BY <1>3, <1>4 DEF Named
<1>10. QED
  BY <1>1, <1>3, <1>6, <1>7, <1>8, <1>9, ReadingKeeps

LEMMA StartRunKeeps ==
    ASSUME TypeInv, RunInv, SquidInv, NEW c \in Calls, StartRun(c)
    PROVE  SquidInv'
<1> DEFINE me == call[c]
           q == squids[me.squid]
           started == RunOf(c, me)
           go == [me EXCEPT !.pc = "record", !.run = Len(runs) + 1]
<1>1. PICK o \in WriteEnds :
        /\ runs' = IF Applied(o) THEN Append(runs, started) ELSE runs
        /\ Become(c, IF o = "ok" THEN go
                     ELSE IF me.action = "replaced"
                     THEN [me EXCEPT !.pc = "restore",
                                     !.resp = [Failed(o) EXCEPT !.squid = me.squid,
                                                      !.taskCount = TaskCount(me)]]
                     ELSE Finish(me, [Failed(o) EXCEPT !.squid = me.squid,
                                                       !.taskCount = TaskCount(me)]))
  BY DEF StartRun
<1> DEFINE a == [Failed(o) EXCEPT !.squid = me.squid, !.taskCount = TaskCount(me)]
           undo == [me EXCEPT !.pc = "restore", !.resp = a]
           fail == Finish(me, a)
           m == call'[c]
<1>2. me.pc = "start" /\ UNCHANGED <<squids, disturbed>>
  BY DEF StartRun
<1>3. /\ me \in CallState /\ Local(me) /\ Held(me, q) /\ me.squid \in Squids
      /\ c \notin disturbed => Fresh(me, q)
      /\ c \notin disturbed => Kept(me)
  BY <1>2, Writer
<1>4. /\ a.outcome = "failed" /\ a.tasksLost = "none" /\ a.lostTasks = {} /\ ~a.deleted
      /\ a.squid = me.squid
  BY DEF Failed, NoAnswer
<1>5. /\ go.pc = "record" /\ go.resp = me.resp /\ Alike(me, go)
      /\ undo.pc = "restore" /\ undo.resp = a /\ Alike(me, undo)
      /\ fail.pc = "done" /\ fail.resp = a /\ Alike(me, fail)
  BY <1>3, UndoAlike, FinishAlike DEF CallState, Alike
<1>6. /\ \/ m = go
         \/ m = undo /\ me.action = "replaced"
         \/ m = fail /\ me.action # "replaced"
      /\ \A d \in Calls \ {c} : call'[d] = call[d]
  BY <1>1, BecomeValue
<1>7. /\ \/ m.pc = "record" /\ m.resp = me.resp
         \/ m.pc = "restore" /\ m.resp = a /\ me.action = "replaced"
         \/ m.pc = "done" /\ m.resp = a /\ me.action # "replaced"
      /\ Alike(me, m)
  BY <1>5, <1>6
<1> HIDE DEF m, go, undo, fail, a, started
<1>8. /\ Reuse(m) <=> Reuse(me)
      /\ NeedsConfirmation(m) <=> NeedsConfirmation(me)
      /\ ProtectsRows(m) <=> ProtectsRows(me)
  BY <1>7, AlikeSame
<1>9. Claimless(m) /\ TellsLoss(m) /\ TellsRun(m) /\ ReadsOnly(m) /\ SavesMore(m)
  BY <1>2, <1>3, <1>4, <1>7, <1>8
     DEF Local, Claimless, TellsLoss, TellsRun, ReadsOnly, SavesMore, Paid, Alike
<1>10. OnRoute(m) /\ Erases(m)
  BY <1>2, <1>3, <1>7, <1>8 DEF Local, OnRoute, Erases, Paid, Alike
<1>11. OnSquid(m)
  BY <1>2, <1>3, <1>4, <1>7, <1>8 DEF Local, OnSquid, Alike
<1>12. Local(m)
  BY <1>9, <1>10, <1>11 DEF Local
<1>13. /\ m.squid = me.squid /\ m.made = me.made
       /\ c \notin disturbed => Kept(m)
       /\ m.resp.outcome \in {"none", "failed"} /\ ~m.resp.deleted
  BY <1>2, <1>3, <1>4, <1>7, AlikeSame DEF Alike, Local, Claimless
<1>14. Held(m, q) /\ Fresh(m, q)
  BY <1>2, <1>3, <1>7, <1>8 DEF Held, Fresh, Alike, Paid
<1>15. ASSUME NEW d \in Calls PROVE View(d)'
  <2>1. CASE d = c
    BY <1>2, <1>12, <1>13, <1>14, <2>1 DEF View, m
  <2>2. CASE d # c
    BY <1>2, <1>6, <2>2 DEF SquidInv, View
  <2>3. QED
    BY <2>1, <2>2
<1>16. MadeApart' /\ SquidsSound'
  BY <1>2, <1>6, <1>13 DEF SquidInv, MadeApart, SquidsSound, m
<1>17. Len(runs) \in Nat /\ \A i \in 1..Len(runs) : runs[i].by \in Calls
  BY RunType
<1>18. /\ Len(runs') \in Nat /\ Len(runs) <= Len(runs')
       /\ \A i \in 1..Len(runs) : runs'[i] = runs[i]
       /\ \A i \in 1..Len(runs') : i \notin 1..Len(runs) => runs'[i] = started
  <2> DEFINE Run == [squid : Squids, rows : SUBSET Rows, cfg : Cfgs,
                     accounts : SUBSET Accounts, by : Calls, key : StoreKeys]
  <2>1. runs \in Seq(Run)
    BY DEF TypeInv, TypeOK
  <2> HIDE DEF Run
  <2>2. CASE Applied(o)
    BY <1>1, <2>1, <2>2
  <2>3. CASE ~Applied(o)
    BY <1>1, <1>17, <2>3
  <2>4. QED
    BY <2>2, <2>3
<1>19. /\ started.by = c /\ started.squid = me.squid /\ started.rows = q.rows
       /\ started.cfg = q.cfg /\ started.accounts = q.accounts
  BY DEF RunOf, started
<1>20. /\ c \in disturbed \/ Priced(m, started)
       /\ c \in disturbed \/ (NeedsAccount => started.accounts # {})
  <2>1. c \in disturbed \/ (NeedsAccount => started.accounts # {})
    BY <1>2, <1>3, <1>19 DEF Fresh
  <2>2. c \in disturbed \/ Priced(me, q)
    BY <1>2, <1>3 DEF Fresh
  <2>3. c \in disturbed \/ Priced(me, started)
    BY <1>19, <2>2 DEF Priced
  <2>4. QED
    BY <1>7, <2>1, <2>3, AlikeSame
<1>21. RunsFit'
  <2>1. ASSUME NEW i \in 1..Len(runs') PROVE RunFits(runs[i])'
    <3>1. CASE i \in 1..Len(runs)
      <4>1. RunFits(runs[i]) /\ runs[i].by \in Calls /\ runs'[i] = runs[i]
        BY <1>17, <1>18, <3>1 DEF SquidInv, RunsFit
      <4>2. Owned(runs[i], i)
        BY <3>1 DEF RunInv, RunsOwned
      <4>3. runs[i].by # c
        BY <1>2, <4>2 DEF Owned, Ends
      <4>4. call'[runs[i].by] = call[runs[i].by]
        BY <1>6, <4>1, <4>3
      <4>5. QED
        BY <1>2, <4>1, <4>4 DEF RunFits
    <3>2. CASE i \notin 1..Len(runs)
      <4>1. runs'[i] = started
        BY <1>18, <3>2
      <4>2. QED
        BY <1>2, <1>13, <1>19, <1>20, <4>1 DEF RunFits, m
    <3>3. QED
      BY <3>1, <3>2
  <2>2. QED
    BY <2>1 DEF RunsFit
<1>22. AnswersNamed'
  <2>1. ASSUME NEW d \in Calls PROVE Named(d, call[d])'
    <3>1. CASE d = c
      BY <1>13, <3>1 DEF Named, m
    <3>2. CASE d # c
      <4>1. Named(d, call[d]) /\ call'[d] = call[d]
        BY <1>6, <3>2 DEF SquidInv, AnswersNamed
      <4>2. \A n \in 1..Len(runs) : n \in 1..Len(runs') /\ runs'[n] = runs[n]
        BY <1>17, <1>18
      <4>3. QED
        BY <4>1, <4>2 DEF Named
    <3>3. QED
      BY <3>1, <3>2
  <2>2. QED
    BY <2>1 DEF AnswersNamed
<1>23. QED
  BY <1>15, <1>16, <1>21, <1>22 DEF SquidInv
-----------------------------------------------------------------------------
(* The surroundings.                                                       *)

\* A call that dies keeps what it knew and says nothing more.
LEMMA RestartedCall ==
    ASSUME NEW me, NEW m, Alike(me, m), m.resp = me.resp, m.run = me.run, Local(me),
           m.pc = me.pc \/ (m.pc = "dead" /\ me.pc # "done")
    PROVE  /\ Local(m)
           /\ \A q : Held(me, q) => Held(m, q)
           /\ \A q : Fresh(me, q) => Fresh(m, q)
<1>1. /\ Reuse(m) <=> Reuse(me)
      /\ HasTask(m) <=> HasTask(me)
      /\ HasInput(m) <=> HasInput(me)
      /\ NeedsConfirmation(m) <=> NeedsConfirmation(me)
      /\ ProtectsRows(m) <=> ProtectsRows(me)
      /\ Effective(m) = Effective(me)
      /\ TaskCount(m) = TaskCount(me)
      /\ \A R : Listed(m, R) <=> Listed(me, R)
      /\ \A q : Priced(m, q) <=> Priced(me, q)
  BY AlikeSame
<1>2. Claimless(m) /\ TellsLoss(m) /\ TellsRun(m) /\ ReadsOnly(m) /\ SavesMore(m)
  BY <1>1 DEF Local, Claimless, TellsLoss, TellsRun, ReadsOnly, SavesMore, Paid, Alike
<1>3. OnRoute(m) /\ Erases(m) /\ OnSquid(m)
  BY <1>1 DEF Local, OnRoute, Erases, OnSquid, Paid, Alike
<1>4. Local(m)
  BY <1>2, <1>3 DEF Local
<1>5. ASSUME NEW q, Held(me, q) PROVE Held(m, q)
  BY <1>1, <1>5 DEF Held, Paid, Alike
<1>6. ASSUME NEW q, Fresh(me, q) PROVE Fresh(m, q)
  BY <1>1, <1>6 DEF Fresh, Alike
<1>7. QED
  BY <1>4, <1>5, <1>6

LEMMA RestartKeeps ==
    ASSUME TypeInv, RunInv, SquidInv, NEW gone \in SUBSET Calls, Restart(gone)
    PROVE  SquidInv'
<1>1. /\ UNCHANGED <<squids, runs, disturbed>>
      /\ \A c \in gone : InFlight(c)
  BY DEF Restart
<1>2. ASSUME NEW c \in Calls
      PROVE  /\ call'[c].pc = IF c \in gone THEN "dead" ELSE call[c].pc
             /\ call'[c].resp = call[c].resp /\ call'[c].run = call[c].run
             /\ Alike(call[c], call'[c])
  BY CallType DEF Restart, CallState, Alike
<1>3. ASSUME NEW c \in Calls
      PROVE  View(c)' /\ (Named(c, call[c]) => Named(c, call[c])')
  <2> DEFINE me == call[c]
             m == call'[c]
  <2>1. View(c)
    BY DEF SquidInv
  <2>2. m.resp = me.resp /\ m.run = me.run /\ Alike(me, m)
    BY <1>2
  <2>3. m.pc = me.pc \/ (m.pc = "dead" /\ me.pc # "done")
    BY <1>1, <1>2 DEF InFlight
  <2>4. /\ Local(m)
        /\ \A q : Held(me, q) => Held(m, q)
        /\ \A q : Fresh(me, q) => Fresh(m, q)
    BY <2>1, <2>2, <2>3, RestartedCall DEF View
  <2>5. m.squid = me.squid /\ m.made = me.made /\ m.req = me.req /\ (Kept(m) <=> Kept(me))
    BY <2>2, AlikeSame DEF Alike
  <2>6. View(c)'
    BY <1>1, <2>1, <2>2, <2>4, <2>5 DEF View
  <2>7. Named(c, call[c]) => Named(c, call[c])'
    BY <1>1, <2>2, <2>5 DEF Named
  <2>8. QED
    BY <2>6, <2>7
<1>4. MadeApart'
  BY <1>2 DEF SquidInv, MadeApart, Alike
<1>5. SquidsSound' /\ AnswersNamed'
  BY <1>1, <1>3 DEF SquidInv, SquidsSound, AnswersNamed
<1>6. RunsFit'
  <2>1. ASSUME NEW i \in 1..Len(runs) PROVE RunFits(runs[i])'
    <3>1. RunFits(runs[i]) /\ runs[i].by \in Calls
      BY RunType DEF SquidInv, RunsFit
    <3> DEFINE me == call[runs[i].by]
               m == call'[runs[i].by]
    <3>2. m.squid = me.squid /\ \A q : Priced(m, q) <=> Priced(me, q)
      BY <1>2, <3>1, AlikeSame DEF Alike
    <3>3. QED
      BY <1>1, <3>1, <3>2 DEF RunFits
  <2>2. QED
    BY <1>1, <2>1 DEF RunsFit
<1>7. QED
  BY <1>3, <1>4, <1>5, <1>6 DEF SquidInv

LEMMA OutsideEditKeeps ==
    ASSUME TypeInv, RunInv, SquidInv, NEW s \in Saved, OutsideEdit(s)
    PROVE  SquidInv'
<1>1. PICK new \in EditsOf(squids[s]) : Put(s, new, {})
  BY DEF OutsideEdit
<1>2. s \in Squids /\ squids[s] \in SquidState /\ runs' = runs /\ call' = call
  BY SquidAssumption DEF OutsideEdit, TypeInv, TypeOK
<1>3. new.exists = squids[s].exists
  BY <1>2 DEF EditsOf, SquidState
<1>4. squids[s].exists
  BY <1>2 DEF SquidInv, SquidsSound
<1>5. Put(s, new, {})
  BY <1>1
<1>6. squids'[s] = new /\ \A t \in Squids \ {s} : squids'[t] = squids[t]
  BY <1>2, <1>5 DEF Put, TypeInv, TypeOK
<1>7. disturbed \subseteq disturbed'
  BY <1>5 DEF Put
<1>8. ASSUME NEW d \in Calls PROVE View(d)'
  <2>1. View(d) /\ call'[d] = call[d] /\ d \notin {}
    BY <1>2 DEF SquidInv
  <2>2. s # NoSquid
    BY <1>2, SquidAssumption
  <2>3. call[d].squid = s => Held(call[d], new)
    BY <1>3, <2>1, <2>2 DEF View, Held
  <2>4. QED
    BY <1>2, <1>3, <1>5, <2>1, <2>3, OthersView
<1>9. MadeApart' /\ AnswersNamed'
  BY <1>2 DEF SquidInv, MadeApart, AnswersNamed, Named
<1>10. SquidsSound'
  BY <1>3, <1>4, <1>6 DEF SquidInv, SquidsSound
<1>11. RunsFit'
  BY <1>2, <1>7 DEF SquidInv, RunsFit, RunFits
<1>12. QED
  BY <1>8, <1>9, <1>10, <1>11 DEF SquidInv

LEMMA StillKeeps ==
    ASSUME SquidInv, UNCHANGED <<squids, runs, call, disturbed>>
    PROVE  SquidInv'
  BY DEF SquidInv, View, MadeApart, SquidsSound, RunsFit, RunFits, AnswersNamed, Named

-----------------------------------------------------------------------------
(* The theorems.                                                           *)

LEMMA InitSquids == Init => SquidInv
<1> SUFFICES ASSUME Init PROVE SquidInv
  OBVIOUS
<1>1. \A c \in Calls : call[c] = IdleCall
  BY DEF Init
<1>2. runs = <<>> /\ disturbed = {}
  BY DEF Init
<1> DEFINE me == IdleCall
<1>3. /\ me.pc = "idle" /\ me.req = NoRequest /\ me.resp = NoAnswer
      /\ me.squid = NoSquid /\ me.linked = {} /\ me.save = {} /\ me.read = FALSE
      /\ me.rows = {} /\ me.action = "unchanged" /\ me.erased = {} /\ me.made = NoSquid
  BY DEF IdleCall
<1>4. /\ NoAnswer.outcome = "none" /\ NoAnswer.tasksLost = "none"
      /\ NoAnswer.lostTasks = {} /\ ~NoAnswer.deleted
  BY DEF NoAnswer
<1>5. ~Reuse(me)
  BY <1>3 DEF Reuse, NoRequest
<1> HIDE DEF me
<1>6. Local(me)
  <2>1. Claimless(me) /\ TellsLoss(me) /\ TellsRun(me) /\ ReadsOnly(me) /\ SavesMore(me)
    BY <1>3, <1>4 DEF Claimless, TellsLoss, TellsRun, ReadsOnly, SavesMore, Paid
  <2>2. OnRoute(me) /\ Erases(me) /\ OnSquid(me)
    BY <1>3, <1>4, <1>5 DEF OnRoute, Erases, OnSquid, Paid
  <2>3. QED
    BY <2>1, <2>2 DEF Local
<1>7. Kept(me)
  BY <1>3 DEF Kept
<1>8. ASSUME NEW c \in Calls PROVE View(c)
  BY <1>1, <1>3, <1>4, <1>6, <1>7 DEF View, me
<1>9. MadeApart
  BY <1>1, <1>3 DEF MadeApart, me
<1>10. SquidsSound
  BY DEF SquidsSound, Init, Absent
<1>11. RunsFit
  BY <1>2 DEF RunsFit
<1>12. AnswersNamed
  BY <1>1, <1>3, <1>4 DEF AnswersNamed, Named, me
<1>13. QED
  BY <1>8, <1>9, <1>10, <1>11, <1>12 DEF SquidInv

LEMMA StepSquids ==
    ASSUME TypeInv, RunInv, SquidInv, NEW c \in Calls, Step(c)
    PROVE  SquidInv'
<1>1. CASE \/ CatalogFails(c) \/ RefuseInput(c) \/ KeyHit(c) \/ AccountsFail(c)
           \/ AskConfirmation(c) \/ BalanceFails(c) \/ RefuseTasks(c) \/ StoreFails(c)
  BY <1>1, ReadsEndKeep, StoreFailsKeeps
<1>2. CASE Invoke(c) \/ GetSquid(c) \/ KeyMiss(c) \/ ResolveAccounts(c)
           \/ SnapshotTasks(c) \/ PassGate(c)
  BY <1>2, InvokeKeeps, GetSquidKeeps, KeyMissKeeps, ResolveAccountsKeeps,
     SnapshotTasksKeeps, PassGateKeeps
<1>3. CASE UpdateSquid(c) \/ EmptySquid(c) \/ AddTasks(c) \/ LinkAccounts(c)
  BY <1>3, UpdateSquidKeeps, EmptySquidKeeps, AddTasksKeeps, LinkAccountsKeeps
<1>4. CASE CreateSquid(c) \/ ConfigureSquid(c) \/ DeleteSquid(c)
  BY <1>4, CreateSquidKeeps, ConfigureSquidKeeps, DeleteSquidKeeps
<1>5. CASE StartRun(c) \/ RestoreNothing(c) \/ RestoreTasks(c) \/ RecordRun(c)
  BY <1>5, StartRunKeeps, RestoreNothingKeeps, RestoreTasksKeeps, RecordRunKeeps
<1>6. QED
  BY <1>1, <1>2, <1>3, <1>4, <1>5 DEF Step

LEMMA NextSquids == TypeInv /\ RunInv /\ SquidInv /\ [Next]_vars => SquidInv'
<1> SUFFICES ASSUME TypeInv, RunInv, SquidInv, [Next]_vars PROVE SquidInv'
  OBVIOUS
<1>1. CASE Tick \/ Quiet \/ UNCHANGED vars
  BY <1>1, StillKeeps DEF Tick, Quiet, vars
<1>2. QED
  BY <1>1, StepSquids, RestartKeeps, OutsideEditKeeps DEF Next

\* Everything above holds of every state.
SafeInv == TypeInv /\ RunInv /\ SquidInv

LEMMA SquidsSafe == Spec => []SafeInv
<1>1. Init => SafeInv
  BY InitType, InitSafe, InitSquids DEF SafeInv
<1>2. SafeInv /\ [Next]_vars => SafeInv'
  BY NextType, NextSafe, NextSquids DEF SafeInv
<1>3. QED
  BY <1>1, <1>2, PTL DEF Spec

-----------------------------------------------------------------------------
(* The properties of RunScraper's runs.                                    *)

\* An unconfirmed run costs more than the threshold only if somebody else changed
\* the squid between the estimate and the start, the saved rows could not be read,
\* or there were more of them than the pages hold (execution.py:564-601).
THEOREM RunsPassTheGate == Spec => []GateHolds
<1>1. SafeInv => GateHolds
  <2> SUFFICES ASSUME SafeInv, NEW i \in 1..Len(runs), EscapesGate(i)
               PROVE  \/ runs[i].by \in disturbed
                      \/ Reuse(call[runs[i].by]) /\ ~call[runs[i].by].read
                      \/ Cardinality(runs[i].rows) > PageCap
    BY DEF GateHolds
  <2> DEFINE r == runs[i]
             me == call[r.by]
  <2>1. RunFits(r)
    BY DEF SafeInv, SquidInv, RunsFit
  <2>2. ~me.req.confirm /\ Cardinality(r.rows) > FreeRows[r.cfg]
    BY DEF EscapesGate
  <2>3. CASE Priced(me, r)
    <3>1. FreeRows[r.cfg] \in Nat /\ Cardinality(r.rows) \in Nat
      <4> DEFINE Run == [squid : Squids, rows : SUBSET Rows, cfg : Cfgs,
                         accounts : SUBSET Accounts, by : Calls, key : StoreKeys]
      <4>1. \A x \in Run : x.rows \in SUBSET Rows /\ x.cfg \in Cfgs
        OBVIOUS
      <4>2. runs \in Seq(Run)
        BY DEF SafeInv, TypeInv, TypeOK
      <4> HIDE DEF Run
      <4>3. r \in Run
        BY <4>2
      <4>4. r.rows \in SUBSET Rows /\ r.cfg \in Cfgs
        BY <4>1, <4>3
      <4>5. QED
        BY <4>4, NumberAssumption, InputAssumption, FS_Subset, FS_CardinalityType
    <3>2. QED
      BY <2>2, <2>3, <3>1 DEF Priced
  <2>4. QED
    BY <2>1, <2>3 DEF RunFits
<1>2. QED
  BY <1>1, SquidsSafe, PTL

\* A run executes under the settings its estimate was made with, unless somebody
\* else saved others meanwhile (execution.py:573-576, 625-632).
THEOREM RunsKeepTheirEstimate == Spec => []RunsAsEstimated
<1>1. SafeInv => RunsAsEstimated
  BY DEF SafeInv, SquidInv, RunsFit, RunFits, Priced, RunsAsEstimated
<1>2. QED
  BY <1>1, SquidsSafe, PTL

\* A crawler that needs a platform account is run without one only if somebody else
\* took the link away between the call's read of the squid and the start
\* (execution.py:502-539, 631-632, 670-682).
THEOREM RunsHaveAccounts == Spec => []RunHasAccount
<1>1. SafeInv => RunHasAccount
  BY DEF SafeInv, SquidInv, RunsFit, RunFits, RunHasAccount
<1>2. QED
  BY <1>1, SquidsSafe, PTL

\* The run that an answer names exists and is the caller's own, on the squid the
\* answer names and with the rows it counts; a repeat is answered with a run of its
\* own key (execution.py:493-495, 719-746).
THEOREM AnswersNameTheirRun == Spec => []AnswerNamesItsRun
<1>1. SafeInv => AnswerNamesItsRun
  <2> SUFFICES ASSUME SafeInv, NEW c \in Calls
               PROVE  LET a == call[c].resp IN
                      /\ a.outcome = "started" =>
                           /\ a.run \in 1..Len(runs)
                           /\ runs[a.run].by = c
                           /\ runs[a.run].squid = a.squid
                           /\ \/ a.taskCount = Cardinality(runs[a.run].rows)
                              \/ c \in disturbed
                              \/ call[c].action = "unchanged" /\ ~call[c].read
                              \/ Cardinality(runs[a.run].rows) > PageCap
                      /\ a.outcome = "already_submitted" =>
                           a.run \in 1..Len(runs) /\ runs[a.run].key = KeyOf(call[c].req)
    BY DEF AnswerNamesItsRun
  <2> DEFINE me == call[c]
             r == runs[me.resp.run]
  <2>1. Named(c, me) /\ TellsRun(me)
    BY DEF SafeInv, SquidInv, AnswersNamed, View, Local
  <2>2. me.resp.outcome = "started" => RunFits(r) /\ r.by = c
    BY <2>1 DEF SafeInv, SquidInv, RunsFit, Named
  <2>3. me.resp.outcome = "started" =>
          /\ r.squid = me.resp.squid
          /\ \/ me.resp.taskCount = Cardinality(r.rows)
             \/ c \in disturbed
             \/ me.action = "unchanged" /\ ~me.read
             \/ Cardinality(r.rows) > PageCap
    BY <2>1, <2>2 DEF RunFits, TellsRun, Priced
  <2>4. QED
    BY <2>1, <2>2, <2>3 DEF Named
<1>2. QED
  BY <1>1, SquidsSafe, PTL

\* When a replacement does not go through, every row it destroyed is back in the
\* squid or handed to the caller, as far as the snapshot had it; when no rows had
\* been read, the answer says that they are lost (execution.py:136-180, 216-255, 716-717).
THEOREM NoRowIsForgotten == Spec => []RowsAccountedFor
<1>1. SafeInv => RowsAccountedFor
  <2> SUFFICES ASSUME SafeInv, NEW c \in Calls,
                      call[c].resp.outcome = "failed", call[c].pc = "done",
                      c \notin disturbed, Cardinality(call[c].erased) <= PageCap
               PROVE  IF call[c].read
                      THEN call[c].erased \ {EmptyRow}
                             \subseteq call[c].resp.restored \cup call[c].resp.lostTasks
                      ELSE call[c].erased # {} => call[c].resp.tasksLost = "yes"
    BY DEF RowsAccountedFor
  <2>1. Erases(call[c]) /\ Kept(call[c])
    BY DEF SafeInv, SquidInv, View, Local
  <2>2. QED
    BY <2>1 DEF Erases, Kept
<1>2. QED
  BY <1>1, SquidsSafe, PTL

\* An answer that says rows are lost hands out the copy that had been read, and
\* one that denies a loss hands out none (execution.py:136-180, 258-295).
THEOREM LossesAreNamed == Spec => []LossIsNamed
<1>1. SafeInv => LossIsNamed
  BY DEF SafeInv, SquidInv, View, Local, TellsLoss, LossIsNamed
<1>2. QED
  BY <1>1, SquidsSafe, PTL

\* A squid made for a call that is still there when the call has been answered is
\* named in the answer, unless its very creation went unanswered, or its run was
\* started and then could not be recorded (execution.py:88-109, 675-696, 720).
THEOREM NoSquidIsHidden == Spec => []NoHiddenSquid
<1>1. SafeInv => NoHiddenSquid
  <2> SUFFICES ASSUME SafeInv, NEW c \in Calls, call[c].pc = "done",
                      call[c].made # NoSquid, squids[call[c].made].exists
               PROVE  \/ call[c].resp.squid = call[c].made /\ ~call[c].resp.deleted
                      \/ call[c].resp.squid = NoSquid /\ call[c].resp.state = "unknown"
                      \/ call[c].resp.outcome = "raised" /\ call[c].run # 0
    BY DEF NoHiddenSquid
  <2>1. View(c)
    BY DEF SafeInv, SquidInv
  <2>2. QED
    BY <2>1 DEF View, Local, OnSquid
<1>2. QED
  BY <1>1, SquidsSafe, PTL

-----------------------------------------------------------------------------
(* What no step may do.                                                    *)

LEMMA Written ==
    ASSUME TypeInv, NEW t \in Squids, NEW new, NEW w, Put(t, new, w), NEW s \in Squids
    PROVE  squids'[s] = IF s = t THEN new ELSE squids[s]
  BY DEF Put, TypeInv, TypeOK

\* The squids whose rows and accounts a step may change at all.
StepWrites(c) ==
    \/ UpdateSquid(c) \/ EmptySquid(c) \/ AddTasks(c) \/ LinkAccounts(c)
    \/ CreateSquid(c) \/ ConfigureSquid(c) \/ DeleteSquid(c) \/ RestoreTasks(c)

LEMMA OthersDoNotWrite ==
    ASSUME [Next]_vars, squids' # squids
    PROVE  \/ \E c \in Calls : StepWrites(c)
           \/ \E s \in Saved : OutsideEdit(s)
<1>1. ASSUME NEW c \in Calls, Step(c), ~StepWrites(c) PROVE FALSE
  BY <1>1 DEF Step, StepWrites, Invoke, GetSquid, CatalogFails, RefuseInput, KeyHit,
     KeyMiss, StoreFails, AccountsFail, ResolveAccounts, SnapshotTasks, AskConfirmation,
     BalanceFails, RefuseTasks, PassGate, StartRun, RestoreNothing, RecordRun, ReadOnly
<1>2. QED
  BY <1>1 DEF Next, Restart, Tick, Quiet, vars

\* A call that saves its accounts over others was looking at a stale squid.
LEMMA SaveDrops ==
    ASSUME SafeInv, NEW c \in Calls, call[c].pc \in {"update", "link"},
           call[c].save # {},
           squids'[call[c].squid].accounts = call[c].save,
           squids[call[c].squid].accounts \ squids'[call[c].squid].accounts # {}
    PROVE  c \in disturbed
<1> DEFINE me == call[c]
           q == squids[me.squid]
<1>1. TypeInv /\ SquidInv
  BY DEF SafeInv
<1>2. me.squid \in Squids /\ Local(me) /\ (c \notin disturbed => Fresh(me, q))
  BY <1>1, Writer
<1>3. me.linked \subseteq me.save /\ Reuse(me)
  BY <1>2 DEF Local, SavesMore, OnRoute
<1>4. c \notin disturbed => q.accounts = me.linked
  BY <1>2, <1>3 DEF Fresh
<1>5. QED
  BY <1>3, <1>4

\* Of the writes only a save drops an account, and only from the call's own squid.
LEMMA LinkLoss ==
    ASSUME SafeInv, NEW c \in Calls, StepWrites(c), NEW s \in Saved,
           squids[s].accounts \ squids'[s].accounts # {}
    PROVE  c \in disturbed /\ call[c].squid = s /\ call[c] # call'[c]
<1> DEFINE me == call[c]
           q == squids[me.squid]
<1>1. TypeInv /\ RunInv /\ SquidInv /\ s \in Squids
  BY SquidAssumption DEF SafeInv
<1>2. CASE UpdateSquid(c)
  <2>1. PICK o \in WriteEnds :
          /\ Put(me.squid, IF Applied(o) THEN Configured(q, me) ELSE q, {c})
          /\ Become(c, IF o # "ok"
                       THEN Finish(me, [NoAnswer EXCEPT !.outcome = "failed",
                                                        !.squid = me.squid,
                                                        !.tasksLost = "no"])
                       ELSE [me EXCEPT !.pc = AfterSave(me)])
    BY <1>2 DEF UpdateSquid
  <2>2. me.pc = "update"
    BY <1>2 DEF UpdateSquid
  <2>3. me \in CallState /\ me.squid \in Squids /\ q \in SquidState
    BY <1>1, <2>2, Writer
  <2> DEFINE new == IF Applied(o) THEN Configured(q, me) ELSE q
  <2>4. new.accounts = q.accounts \/ (me.save # {} /\ new.accounts = me.save)
    BY <2>3 DEF Configured, SquidState
  <2>5. call'[c].pc \in {"done", AfterSave(me)}
    <3>1. \A a : Finish(me, a).pc = "done"
      BY <2>3 DEF CallState, Finish
    <3>2. [me EXCEPT !.pc = AfterSave(me)].pc = AfterSave(me)
      BY <2>3 DEF CallState
    <3>3. \E m : Become(c, m) /\ m.pc \in {"done", AfterSave(me)}
      BY <2>1, <3>1, <3>2
    <3>4. QED
      BY <1>1, <3>3, BecomeValue
  <2>6. Put(me.squid, new, {c})
    BY <2>1
  <2> HIDE DEF new
  <2>7. me.squid = s
    BY <1>1, <2>3, <2>6, Written
  <2>8. call'[c].pc # me.pc
    BY <2>2, <2>5 DEF AfterSave
  <2>9. squids[me.squid].accounts \ squids'[me.squid].accounts # {}
    BY <2>7
  <2>10. squids'[me.squid].accounts = me.save /\ me.save # {}
    BY <1>1, <2>3, <2>4, <2>6, <2>9, Written
  <2>11. c \in disturbed
    BY <2>2, <2>9, <2>10, SaveDrops
  <2>12. QED
    BY <2>7, <2>8, <2>11
<1>3. CASE LinkAccounts(c)
  <2>1. PICK o \in WriteEnds :
          /\ Put(me.squid, IF Applied(o) THEN [q EXCEPT !.accounts = me.save] ELSE q, {c})
          /\ Become(c, IF o = "ok" THEN [me EXCEPT !.pc = "start"]
                       ELSE Finish(me, Failed(o)))
    BY <1>3 DEF LinkAccounts
  <2>2. me.pc = "link"
    BY <1>3 DEF LinkAccounts
  <2>3. /\ me \in CallState /\ me.squid \in Squids /\ q \in SquidState
        /\ me.save # {}
    BY <1>1, <2>2, Writer DEF Local, OnRoute
  <2> DEFINE new == IF Applied(o) THEN [q EXCEPT !.accounts = me.save] ELSE q
  <2>4. new.accounts \in {q.accounts, me.save}
    BY <2>3 DEF SquidState
  <2>5. call'[c].pc \in {"done", "start"}
    <3>1. \A a : Finish(me, a).pc = "done"
      BY <2>3 DEF CallState, Finish
    <3>2. [me EXCEPT !.pc = "start"].pc = "start"
      BY <2>3 DEF CallState
    <3>3. \E m : Become(c, m) /\ m.pc \in {"done", "start"}
      BY <2>1, <3>1, <3>2
    <3>4. QED
      BY <1>1, <3>3, BecomeValue
  <2>6. Put(me.squid, new, {c})
    BY <2>1
  <2> HIDE DEF new
  <2>7. me.squid = s
    BY <1>1, <2>3, <2>6, Written
  <2>8. call'[c].pc # me.pc
    BY <2>2, <2>5
  <2>9. squids[me.squid].accounts \ squids'[me.squid].accounts # {}
    BY <2>7
  <2>10. squids'[me.squid].accounts = me.save /\ me.save # {}
    BY <1>1, <2>3, <2>4, <2>6, <2>9, Written
  <2>11. c \in disturbed
    BY <2>2, <2>9, <2>10, SaveDrops
  <2>12. QED
    BY <2>7, <2>8, <2>11
<1>4. CASE EmptySquid(c) \/ AddTasks(c) \/ RestoreTasks(c)
  <2>1. me.squid \in Squids /\ q \in SquidState
    BY <1>1, <1>4, Writer DEF EmptySquid, AddTasks, RestoreTasks
  <2>2. \E r : \/ Put(me.squid, [q EXCEPT !.rows = r], {c})
               \/ Put(me.squid, q, {c})
    <3>1. CASE EmptySquid(c)
      BY <3>1 DEF EmptySquid
    <3>2. CASE AddTasks(c)
      BY <3>2 DEF AddTasks
    <3>3. CASE RestoreTasks(c)
      BY <3>3 DEF RestoreTasks
    <3>4. QED
      BY <1>4, <3>1, <3>2, <3>3
  <2>3. PICK r : Put(me.squid, [q EXCEPT !.rows = r], {c}) \/ Put(me.squid, q, {c})
    BY <2>2
  <2>4. [q EXCEPT !.rows = r].accounts = q.accounts
    BY <2>1 DEF SquidState
  <2>5. squids'[s].accounts = squids[s].accounts
    BY <1>1, <2>1, <2>3, <2>4, Written
  <2>6. QED
    BY <2>5
<1>5. CASE ConfigureSquid(c) \/ DeleteSquid(c)
  <2>1. me.pc \in {"configure", "cleanup"}
    BY <1>5 DEF ConfigureSquid, DeleteSquid
  <2>2. me.squid \in Squids /\ me.squid \notin Saved
    BY <1>1, <2>1, Writer DEF Local, OnRoute, OnSquid
  <2>3. \E new : Put(me.squid, new, {c})
    BY <1>5 DEF ConfigureSquid, DeleteSquid
  <2>4. squids'[s] = squids[s]
    BY <1>1, <2>2, <2>3, Written
  <2>5. QED
    BY <2>4
<1>6. CASE CreateSquid(c)
  <2>1. PICK t \in Squids \ Saved : \E new : Put(t, new, {c})
    BY <1>6 DEF CreateSquid
  <2>2. squids'[s] = squids[s]
    BY <1>1, <2>1, Written
  <2>3. QED
    BY <2>2
<1>7. QED
  BY <1>2, <1>3, <1>4, <1>5, <1>6 DEF StepWrites

\* A call that makes rows disappear is replacing them, or deletes what it made.
LEMMA RowLoss ==
    ASSUME SafeInv, NEW c \in Calls, StepWrites(c), NEW s \in Squids,
           squids[s].rows \ squids'[s].rows # {}
    PROVE  \/ ~squids'[s].exists
           \/ /\ call[c].squid = s
              /\ call[c].req.replace /\ HasInput(call[c])
              /\ call[c].pc = "empty"
              /\ squids[s].cfg = Effective(call[c]) \/ c \in disturbed
<1> DEFINE me == call[c]
           q == squids[me.squid]
<1>1. TypeInv /\ RunInv /\ SquidInv
  BY DEF SafeInv
<1>2. CASE EmptySquid(c)
  <2>1. me.pc = "empty" /\ \E new : Put(me.squid, new, {c})
    BY <1>2 DEF EmptySquid
  <2>2. me.squid \in Squids /\ Local(me) /\ (c \notin disturbed => Fresh(me, q))
    BY <1>1, <2>1, Writer
  <2>3. me.squid = s
    BY <1>1, <2>1, <2>2, Written
  <2>4. me.req.replace /\ HasInput(me) /\ (c \notin disturbed => q.cfg = Effective(me))
    BY <2>1, <2>2 DEF Local, OnRoute, Fresh
  <2>5. QED
    BY <2>1, <2>3, <2>4
<1>3. CASE UpdateSquid(c) \/ LinkAccounts(c) \/ ConfigureSquid(c)
  <2>1. me.squid \in Squids /\ q \in SquidState
    BY <1>1, <1>3, Writer DEF UpdateSquid, LinkAccounts, ConfigureSquid
  <2>2. \/ Put(me.squid, q, {c})
        \/ Put(me.squid, Configured(q, me), {c})
        \/ Put(me.squid, [q EXCEPT !.accounts = me.save], {c})
    <3>1. CASE UpdateSquid(c)
      BY <3>1 DEF UpdateSquid
    <3>2. CASE LinkAccounts(c)
      BY <3>2 DEF LinkAccounts
    <3>3. CASE ConfigureSquid(c)
      BY <3>3 DEF ConfigureSquid
    <3>4. QED
      BY <1>3, <3>1, <3>2, <3>3
  <2>3. /\ Configured(q, me).rows = q.rows
        /\ [q EXCEPT !.accounts = me.save].rows = q.rows
    BY <2>1 DEF Configured, SquidState
  <2>4. squids'[s].rows = squids[s].rows
    BY <1>1, <2>1, <2>2, <2>3, Written
  <2>5. QED
    BY <2>4
<1>4. CASE AddTasks(c) \/ RestoreTasks(c)
  <2>1. me.squid \in Squids /\ q \in SquidState
    BY <1>1, <1>4, Writer DEF AddTasks, RestoreTasks
  <2>2. \E r : \/ Put(me.squid, [q EXCEPT !.rows = @ \cup r], {c})
               \/ Put(me.squid, q, {c})
    <3>1. CASE AddTasks(c)
      BY <3>1 DEF AddTasks
    <3>2. CASE RestoreTasks(c)
      BY <3>2 DEF RestoreTasks
    <3>3. QED
      BY <1>4, <3>1, <3>2
  <2>3. PICK r : Put(me.squid, [q EXCEPT !.rows = @ \cup r], {c}) \/ Put(me.squid, q, {c})
    BY <2>2
  <2>4. q.rows \subseteq [q EXCEPT !.rows = @ \cup r].rows
    BY <2>1 DEF SquidState
  <2>5. squids[s].rows \subseteq squids'[s].rows
    BY <1>1, <2>1, <2>3, <2>4, Written
  <2>6. QED
    BY <2>5
<1>5. CASE DeleteSquid(c)
  <2>1. me.squid \in Squids
    BY <1>1, <1>5, Writer DEF DeleteSquid
  <2>2. Put(me.squid, Absent, {c}) \/ Put(me.squid, q, {c})
    BY <1>5 DEF DeleteSquid
  <2>3. squids'[s] = squids[s] \/ squids'[s] = Absent
    BY <1>1, <2>1, <2>2, Written
  <2>4. QED
    BY <2>3 DEF Absent
<1>6. CASE CreateSquid(c)
  <2>1. PICK t \in Squids : ~squids[t].exists /\ \E new : Put(t, new, {c})
    BY <1>6 DEF CreateSquid
  <2>2. squids[t].rows = {}
    BY <1>1, <2>1 DEF SquidInv, SquidsSound
  <2>3. squids'[s] = squids[s] \/ squids[s].rows = {}
    BY <1>1, <2>1, <2>2, Written
  <2>4. QED
    BY <2>3
<1>7. QED
  BY <1>2, <1>3, <1>4, <1>5, <1>6 DEF StepWrites

\* What the two properties below say of one step.
LinksStep ==
    \A s \in Saved :
      squids[s].accounts \ squids'[s].accounts # {} =>
        \/ edits' # edits
        \/ \E c \in disturbed : call[c].squid = s /\ call[c] # call'[c]

RowsStep ==
    \A s \in Squids :
      squids[s].rows \ squids'[s].rows # {} =>
        \/ edits' # edits
        \/ ~squids'[s].exists
        \/ \E c \in Calls : /\ call[c].squid = s
                            /\ call[c].req.replace /\ HasInput(call[c])
                            /\ call[c].pc = "empty"
                            /\ squids[s].cfg = Effective(call[c]) \/ c \in disturbed

\* An account link is dropped by somebody outside, or by a call whose view of the
\* squid somebody else has made stale: the accounts written are the ones read, and more
\* (execution.py:513-538, 631-632, 670-673).
THEOREM OnlyRacesLoseLinks == Spec => LinksLostOnlyToRaces
<1>1. ASSUME SafeInv, [Next]_vars PROVE [LinksStep]_squids
  <2> SUFFICES ASSUME squids' # squids, NEW s \in Saved,
                      squids[s].accounts \ squids'[s].accounts # {}
               PROVE  \/ edits' # edits
                      \/ \E c \in disturbed : call[c].squid = s /\ call[c] # call'[c]
    BY DEF LinksStep
  <2>1. disturbed \subseteq Calls
    BY <1>1 DEF SafeInv, TypeInv, TypeOK
  <2>2. CASE \E c \in Calls : StepWrites(c)
    BY <1>1, <2>2, LinkLoss
  <2>3. CASE \E t \in Saved : OutsideEdit(t)
    <3>1. edits \in Nat /\ edits' = edits + 1
      BY <1>1, <2>3, NumberAssumption DEF OutsideEdit, SafeInv, TypeInv, TypeOK
    <3>2. QED
      BY <3>1
  <2>4. QED
    BY <1>1, <2>2, <2>3, OthersDoNotWrite
<1>2. Spec => [][LinksStep]_squids
  BY <1>1, SquidsSafe, PTL DEF Spec
<1>3. QED
  BY <1>2 DEF LinksStep, LinksLostOnlyToRaces

\* A saved row leaves a squid only through an edit outside, the deletion of a squid
\* made for a call, or the one call that asked for replace_tasks and whose
\* configuration the API has accepted (execution.py:183-255).
THEOREM OnlyReplaceLosesRows == Spec => RowsLeaveOnlyByReplace
<1>1. ASSUME SafeInv, [Next]_vars PROVE [RowsStep]_squids
  <2> SUFFICES ASSUME squids' # squids, NEW s \in Squids,
                      squids[s].rows \ squids'[s].rows # {}
               PROVE  \/ edits' # edits
                      \/ ~squids'[s].exists
                      \/ \E c \in Calls :
                           /\ call[c].squid = s
                           /\ call[c].req.replace /\ HasInput(call[c])
                           /\ call[c].pc = "empty"
                           /\ squids[s].cfg = Effective(call[c]) \/ c \in disturbed
    BY DEF RowsStep
  <2>1. CASE \E c \in Calls : StepWrites(c)
    BY <1>1, <2>1, RowLoss
  <2>2. CASE \E t \in Saved : OutsideEdit(t)
    <3>1. edits \in Nat /\ edits' = edits + 1
      BY <1>1, <2>2, NumberAssumption DEF OutsideEdit, SafeInv, TypeInv, TypeOK
    <3>2. QED
      BY <3>1
  <2>3. QED
    BY <1>1, <2>1, <2>2, OthersDoNotWrite
<1>2. Spec => [][RowsStep]_squids
  BY <1>1, SquidsSafe, PTL DEF Spec
<1>3. QED
  BY <1>2 DEF RowsStep, RowsLeaveOnlyByReplace
=============================================================================
