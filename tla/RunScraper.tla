----------------------------- MODULE RunScraper -----------------------------
(***************************************************************************)
(* The run_scraper tool: every call that is in flight at once, the squids  *)
(* and runs they write through the Lobstr API, and the idempotency store   *)
(* they share.  A call is a straight line of API requests; an action is    *)
(* one request together with the local computation that follows it, since  *)
(* what a call computes between two requests is seen by nobody else.       *)
(*                                                                         *)
(* All calls belong to one user (keys of two users never meet) and name    *)
(* one crawler.  A request may be refused, may never leave the process,    *)
(* and its answer may be lost whether or not the API applied it.           *)
(***************************************************************************)
EXTENDS Integers, Sequences, FiniteSets, ErrorContract

CONSTANTS
    Calls,         \* identities of the run_scraper calls
    Squids,        \* every squid id the API can hand out
    Saved,         \* those that exist before the first call
    NoSquid, NewSquid,  \* no squid; the target of a call that passes `scraper`
    Rows,          \* task rows
    EmptyRow,      \* a row whose params are not a non-empty dict
    NoRow,         \* an input without a task-level field
    Cfgs,          \* squid-level settings
    DefaultCfg,    \* what a squid runs under before anything is saved
    NoCfg,         \* an input without a squid-level setting
    Accounts, Matching, Healthy,  \* account ids, of the crawler's type, usable
    NoAccount,     \* no account_id passed
    NeedsAccount,  \* the crawler requires a platform account
    Keys, NoKey,   \* explicit idempotency keys; none passed
    Requests,      \* the arguments calls are made with
    FreeRows,      \* per settings: most rows that pass the gate unconfirmed
    PageCap,       \* rows that _MAX_PAGES pages of list_tasks hold
    ExplicitTTL, DerivedTTL,
    SharedStore,   \* the idempotency store is Redis and outlives a process
    MaxTime, MaxFaults, MaxEdits  \* bounds: clock, failures, outside edits

Request ==
    [squid : Saved \cup {NewSquid}, row : (Rows \ {EmptyRow}) \cup {NoRow},
     cfg : Cfgs \cup {NoCfg}, replace : BOOLEAN, confirm : BOOLEAN,
     account : Accounts \cup {NoAccount}, key : Keys \cup {NoKey}]

ASSUME SquidAssumption ==
    /\ Saved \subseteq Squids
    /\ NoSquid \notin Squids
    /\ NewSquid \notin Squids

ASSUME InputAssumption ==
    /\ EmptyRow \in Rows /\ NoRow \notin Rows
    /\ DefaultCfg \in Cfgs /\ NoCfg \notin Cfgs
    /\ IsFiniteSet(Rows)
    /\ Requests \subseteq Request

ASSUME AccountAssumption ==
    /\ Healthy \subseteq Matching /\ Matching \subseteq Accounts
    /\ NoAccount \notin Accounts
    /\ NeedsAccount \in BOOLEAN

ASSUME NumberAssumption ==
    /\ FreeRows \in [Cfgs -> Nat]
    /\ PageCap \in Nat
    /\ ExplicitTTL \in Nat \ {0} /\ DerivedTTL \in Nat \ {0}
    /\ MaxTime \in Nat /\ MaxFaults \in Nat /\ MaxEdits \in Nat

ASSUME StoreAssumption == SharedStore \in BOOLEAN

VARIABLES
    squids,     \* what the API holds for each squid id
    runs,       \* the runs the API has started, oldest first
    idem,       \* the idempotency store's entries
    now,        \* clock the store's time-to-live is measured with
    call,       \* the local state of each call
    disturbed,  \* history: calls whose squid somebody else changed meanwhile
    faults, edits  \* how much of MaxFaults and MaxEdits is used

vars == <<squids, runs, idem, now, call, disturbed, faults, edits>>

-----------------------------------------------------------------------------
(* What a call is answered with, and how a request can end.                *)

Answer ==
    [outcome : {"none", "started", "already_submitted", "needs_confirmation",
                "refused", "failed", "raised"},
     run : Nat, squid : Squids \cup {NoSquid},
     state : {"none", "not_sent", "unknown"},    \* request_state
     tasksLost : {"none", "yes", "no"},          \* tasks_lost
     lostTasks : SUBSET Rows, restored : SUBSET Rows,
     taskCount : Nat,                            \* 0 when not reported
     deleted : BOOLEAN]                          \* the squid made was deleted

NoAnswer ==
    [outcome |-> "none", run |-> 0, squid |-> NoSquid, state |-> "none",
     tasksLost |-> "none", lostTasks |-> {}, restored |-> {}, taskCount |-> 0,
     deleted |-> FALSE]

Refused == [NoAnswer EXCEPT !.outcome = "refused"]

\* The exception of a store over Redis: `structured` maps API and transport
\* errors only, so the caller sees it bare, without run, squid or request_state.
Raised == [NoAnswer EXCEPT !.outcome = "raised"]

\* Mutant: a read timeout is taken for a request that never left.
TimeoutIsNotSent(o) == IF Transport(o) THEN "not_sent" ELSE "none"

\* transport_error_dict: only a request that provably never left is not_sent.
RequestState(o) ==
    IF o = "not_sent" THEN "not_sent"
    ELSE IF Transport(o) THEN "unknown" ELSE "none"

Failed(o) ==
    [NoAnswer EXCEPT !.outcome = "failed", !.state = RequestState(o)]

Spend(o) == /\ faults' = faults + (IF o = "ok" THEN 0 ELSE 1)
            /\ faults' <= MaxFaults

\* How a command on the store ends: over Redis it may fail, without effect or
\* after it; a dict does not fail.
StoreEnds == IF SharedStore THEN {"ok", "lost", "late"} ELSE {"ok"}

-----------------------------------------------------------------------------
(* The local state of a call.  `erased`, `made`, `asked`, `until` and      *)
(* `known` are history: the code keeps no such variable.                   *)

Steps == {"idle", "squid", "key", "account", "rows", "gate", "update", "empty",
          "add", "link", "create", "configure", "cleanup", "start", "restore",
          "record", "done", "dead"}

NoRequest ==
    [squid |-> NewSquid, row |-> NoRow, cfg |-> NoCfg, replace |-> FALSE,
     confirm |-> FALSE, account |-> NoAccount, key |-> NoKey]

CallState ==
    [pc : Steps, req : Request, resp : Answer,
     squid : Squids \cup {NoSquid},
     cfg : Cfgs, linked : SUBSET Accounts,    \* get_squid: params, accounts
     save : SUBSET Accounts,                  \* accounts_to_save, {} for None
     read : BOOLEAN, rows : SUBSET Rows, seen : Nat,  \* _snapshot_tasks
     action : {"unchanged", "added", "replaced", "created"},
     run : Nat,
     erased : SUBSET Rows,    \* rows this call's empty_squid destroyed
     made : Squids \cup {NoSquid},  \* squid this call's create_squid made
     asked : Nat,             \* when the store was asked
     until : Nat,             \* until when the store owes this call's run
     known : SUBSET Nat]      \* runs with this key whose calls had ended by then

IdleCall ==
    [pc |-> "idle", req |-> NoRequest, resp |-> NoAnswer, squid |-> NoSquid,
     cfg |-> DefaultCfg, linked |-> {}, save |-> {}, read |-> FALSE,
     rows |-> {}, seen |-> 0, action |-> "unchanged", run |-> 0,
     erased |-> {}, made |-> NoSquid, asked |-> 0, until |-> 0, known |-> {}]

Reuse(me)    == me.req.squid # NewSquid
HasTask(me)  == me.req.row # NoRow
HasInput(me) == HasTask(me) \/ me.req.cfg # NoCfg

\* The row add_tasks is sent: task_params is {} without a task-level field.
TaskRow(me) == IF HasTask(me) THEN me.req.row ELSE EmptyRow

\* _effective_settings: what the squid had saved when this call read it, with
\* this call's settings on top.
Effective(me) == IF me.req.cfg = NoCfg THEN me.cfg ELSE me.req.cfg

\* A derived key hashes the target and the input, and nothing else.
KeyOf(req) == IF req.key # NoKey THEN req.key
              ELSE <<req.squid, req.row, req.cfg>>
TTL(req) == IF req.key # NoKey THEN ExplicitTTL ELSE DerivedTTL
DerivedKeys == (Saved \cup {NewSquid}) \X ((Rows \ {EmptyRow}) \cup {NoRow})
                                      \X (Cfgs \cup {NoCfg})
StoreKeys == Keys \cup DerivedKeys

\* "derived:" in front of a derived key keeps it apart from an explicit one.
ASSUME KeyAssumption == NoKey \notin Keys /\ Keys \cap DerivedKeys = {}

\* Mutant: one input is estimated as one row whatever the squid holds.
QuotesOneRow(me) == IF Reuse(me) /\ ~me.read THEN 0 ELSE 1

\* _rows_this_run, 0 standing for None.
RowsThisRun(me) ==
    IF ~Reuse(me) THEN 1
    ELSE IF ~me.read THEN 0
    ELSE IF ~HasTask(me) THEN me.seen
    ELSE IF me.req.replace THEN 1 ELSE me.seen + 1

\* The estimate is for `rows_this_run or 1` rows; above the threshold, and the
\* call not confirmed, nothing is run.
EstimatedRows(me) == IF RowsThisRun(me) = 0 THEN 1 ELSE RowsThisRun(me)
NeedsConfirmation(me) ==
    ~me.req.confirm /\ EstimatedRows(me) > FreeRows[Effective(me)]

\* tasks_unreadable and squid_has_tasks: a new row is neither added to rows
\* that may be there nor put in their place unasked.
ProtectsRows(me) ==
    /\ Reuse(me) /\ HasTask(me) /\ ~me.req.replace
    /\ ~me.read \/ me.seen > 0

Finish(me, answer) == [me EXCEPT !.pc = "done", !.resp = answer]
Become(c, me) == call' = [call EXCEPT ![c] = me]

-----------------------------------------------------------------------------
(* Writing to a squid: the calls that have already read it are disturbed.  *)

SquidState == [exists : BOOLEAN, rows : SUBSET Rows, cfg : Cfgs,
               accounts : SUBSET Accounts]

Absent == [exists |-> FALSE, rows |-> {}, cfg |-> DefaultCfg, accounts |-> {}]

Reading(d, s) ==
    /\ call[d].squid = s
    /\ call[d].pc \notin {"idle", "squid", "record", "done", "dead"}

Put(s, new, writers) ==
    /\ squids' = [squids EXCEPT ![s] = new]
    /\ disturbed' = IF new = squids[s] THEN disturbed
                    ELSE disturbed \cup {d \in Calls \ writers : Reading(d, s)}

Init ==
    /\ squids \in [Squids -> SquidState]
    /\ \A s \in Squids :
         IF s \in Saved THEN squids[s].exists ELSE squids[s] = Absent
    /\ runs = <<>>
    /\ idem = {}
    /\ now = 0
    /\ call = [c \in Calls |-> IdleCall]
    /\ disturbed = {}
    /\ faults = 0
    /\ edits = 0

-----------------------------------------------------------------------------
(* Reading: nothing is written up to and including the gate.               *)

ReadOnly == UNCHANGED <<squids, runs, now, disturbed, edits>>

Invoke(c) ==
    /\ call[c].pc = "idle"
    /\ \E r \in Requests :
         Become(c, [IdleCall EXCEPT
                      !.pc = IF r.squid = NewSquid THEN "key" ELSE "squid",
                      !.req = r,
                      !.squid = IF r.squid = NewSquid THEN NoSquid ELSE r.squid])
    /\ ReadOnly /\ UNCHANGED <<idem, faults>>

GetSquid(c) == LET me == call[c] IN
    /\ me.pc = "squid"
    /\ \E o \in ReadEnds :
         /\ Spend(o)
         /\ Become(c, IF o = "ok"
                      THEN [me EXCEPT !.pc = "key",
                                      !.cfg = squids[me.squid].cfg,
                                      !.linked = squids[me.squid].accounts]
                      ELSE Finish(me, Failed(o)))
    /\ ReadOnly /\ UNCHANGED idem

\* The crawler's own reads: any of them failing ends the call.
CatalogFails(c) == LET me == call[c] IN
    /\ me.pc = "key"
    /\ \E o \in ReadEnds \ {"ok"} :
         /\ Spend(o)
         /\ Become(c, Finish(me, Failed(o)))
    /\ ReadOnly /\ UNCHANGED idem

\* validation_error; a re-run without input is not validated.
RefuseInput(c) == LET me == call[c] IN
    /\ me.pc = "key"
    /\ HasInput(me) \/ ~Reuse(me)
    /\ Become(c, Finish(me, Refused))
    /\ ReadOnly /\ UNCHANGED <<idem, faults>>

\* Mutant: an entry ends a tick early.
ExpiresEarly(e) == now + 1 >= e.until

\* IdempotencyStore.get: an entry past its time is deleted and not returned.
Expired(e) == now >= e.until
Lookup(k)  == {e \in idem : e.key = k /\ ~Expired(e)}
Prune(k)   == idem' = {e \in idem : e.key # k \/ ~Expired(e)}

Over(c) == call[c].pc = "done"

KeyHit(c) == LET me == call[c] IN
    /\ me.pc = "key"
    /\ \E e \in Lookup(KeyOf(me.req)) :
         Become(c, Finish(me, [NoAnswer EXCEPT !.outcome = "already_submitted",
                                               !.run = e.run]))
    /\ Prune(KeyOf(me.req))
    /\ ReadOnly /\ UNCHANGED faults

KeyMiss(c) == LET me == call[c] IN
    /\ me.pc = "key"
    /\ Lookup(KeyOf(me.req)) = {}
    /\ Prune(KeyOf(me.req))
    /\ Become(c, [me EXCEPT
                    !.pc = "account", !.asked = now,
                    !.known = {i \in 1..Len(runs) : /\ runs[i].key = KeyOf(me.req)
                                                    /\ Over(runs[i].by)}])
    /\ ReadOnly /\ UNCHANGED faults

\* The lookup itself fails: nothing has been written yet.
StoreFails(c) == LET me == call[c] IN
    /\ me.pc = "key"
    /\ SharedStore
    /\ Spend("lost")
    /\ Become(c, Finish(me, Raised))
    /\ ReadOnly /\ UNCHANGED idem

\* resolve_account for an explicit id; pick_or_explain picks only when exactly
\* one account is usable, and only for a squid that has none attached.
PicksAccount(me) == NeedsAccount /\ me.req.account = NoAccount /\ me.linked = {}
ReadsAccounts(me) == \/ NeedsAccount /\ me.req.account # NoAccount
                     \/ PicksAccount(me)
AccountRefused(me) ==
    \/ ~NeedsAccount /\ me.req.account # NoAccount
    \/ NeedsAccount /\ me.req.account \notin Matching \cup {NoAccount}
    \/ PicksAccount(me) /\ Cardinality(Healthy) # 1

\* Mutant: the account resolved is written alone.
SavesOneAccount(me) ==
    IF me.req.account # NoAccount THEN {me.req.account}
    ELSE IF PicksAccount(me) THEN Healthy ELSE {}

AccountsToSave(me) ==
    IF me.req.account \notin me.linked \cup {NoAccount}
    THEN me.linked \cup {me.req.account}
    ELSE IF PicksAccount(me) THEN Healthy ELSE {}

AccountsFail(c) == LET me == call[c] IN
    /\ me.pc = "account"
    /\ ReadsAccounts(me)
    /\ \E o \in ReadEnds \ {"ok"} :
         /\ Spend(o)
         /\ Become(c, Finish(me, Failed(o)))
    /\ ReadOnly /\ UNCHANGED idem

ResolveAccounts(c) == LET me == call[c] IN
    /\ me.pc = "account"
    /\ Become(c, IF AccountRefused(me) THEN Finish(me, Refused)
                 ELSE [me EXCEPT !.pc = IF Reuse(me) THEN "rows" ELSE "gate",
                                 !.save = AccountsToSave(me)])
    /\ ReadOnly /\ UNCHANGED <<idem, faults>>

\* list_tasks stops at _MAX_PAGES without saying so.
Listings(s) ==
    {l \in SUBSET squids[s].rows :
        IF Cardinality(squids[s].rows) <= PageCap
        THEN l = squids[s].rows ELSE Cardinality(l) = PageCap}

\* _snapshot_tasks: rows with unusable params are counted but not kept; a
\* failing list is remembered as unread and is not an error here.
SnapshotTasks(c) == LET me == call[c] IN
    /\ me.pc = "rows"
    /\ \E o \in ReadEnds :
         /\ Spend(o)
         /\ IF o = "ok"
            THEN \E l \in Listings(me.squid) :
                   Become(c, [me EXCEPT !.pc = "gate", !.read = TRUE,
                                        !.rows = l \ {EmptyRow},
                                        !.seen = Cardinality(l)])
            ELSE Become(c, [me EXCEPT !.pc = "gate"])
    /\ ReadOnly /\ UNCHANGED idem

AskConfirmation(c) == LET me == call[c] IN
    /\ me.pc = "gate"
    /\ NeedsConfirmation(me)
    /\ Become(c, Finish(me, [NoAnswer EXCEPT !.outcome = "needs_confirmation"]))
    /\ ReadOnly /\ UNCHANGED <<idem, faults>>

BalanceFails(c) == LET me == call[c] IN
    /\ me.pc = "gate"
    /\ ~NeedsConfirmation(me)
    /\ \E o \in ReadEnds \ {"ok"} :
         /\ Spend(o)
         /\ Become(c, Finish(me, Failed(o)))
    /\ ReadOnly /\ UNCHANGED idem

RefuseTasks(c) == LET me == call[c] IN
    /\ me.pc = "gate"
    /\ ~NeedsConfirmation(me)
    /\ ProtectsRows(me)
    /\ Become(c, Finish(me, [Refused EXCEPT !.squid = me.squid,
                                            !.tasksLost = "no"]))
    /\ ReadOnly /\ UNCHANGED <<idem, faults>>

\* Mutant: a re-run without input never saves the account resolved for it.
SkipsLink(me) == IF ~Reuse(me) THEN "create"
                 ELSE IF HasInput(me) THEN "update" ELSE "start"

FirstWrite(me) ==
    IF ~Reuse(me) THEN "create"
    ELSE IF HasInput(me) THEN "update"
    ELSE IF me.save # {} THEN "link" ELSE "start"

PassGate(c) == LET me == call[c] IN
    /\ me.pc = "gate"
    /\ ~NeedsConfirmation(me)
    /\ ~ProtectsRows(me)
    /\ Become(c, [me EXCEPT !.pc = FirstWrite(me)])
    /\ ReadOnly /\ UNCHANGED <<idem, faults>>

-----------------------------------------------------------------------------
(* Writing to a squid that exists.                                         *)

Elsewhere == UNCHANGED <<runs, idem, now, edits>>

\* Mutant: only this call's settings are sent, and the API replaces the rest.
SendsOwnSettings(squid, me) ==
    [squid EXCEPT !.cfg = IF me.req.cfg = NoCfg THEN DefaultCfg ELSE me.req.cfg,
                  !.accounts = IF me.save = {} THEN @ ELSE me.save]

\* The body of update_squid: name and whole params, accounts when they changed.
Configured(squid, me) ==
    [squid EXCEPT !.cfg = Effective(me),
                  !.accounts = IF me.save = {} THEN @ ELSE me.save]

\* Mutant: a task-level input on a saved squid always replaces its rows.
AlwaysReplaces(me) == IF HasTask(me) THEN "empty" ELSE "start"

AfterSave(me) == IF me.req.replace THEN "empty"
                 ELSE IF HasTask(me) THEN "add" ELSE "start"

\* The config save that both _replace_squid_input and _save_squid_input start
\* with; nothing has been deleted when it fails.
UpdateSquid(c) == LET me == call[c] IN
    /\ me.pc = "update"
    /\ \E o \in WriteEnds :
         /\ Spend(o)
         /\ Put(me.squid, IF Applied(o) THEN Configured(squids[me.squid], me)
                          ELSE squids[me.squid], {c})
         /\ Become(c, IF o # "ok"
                      THEN Finish(me, [NoAnswer EXCEPT !.outcome = "failed",
                                                       !.squid = me.squid,
                                                       !.tasksLost = "no"])
                      ELSE [me EXCEPT !.pc = AfterSave(me)])
    /\ Elsewhere

\* A failed empty may still have been applied, so it goes through restore.
EmptySquid(c) == LET me == call[c] IN
    /\ me.pc = "empty"
    /\ \E o \in WriteEnds :
         /\ Spend(o)
         /\ Put(me.squid, IF Applied(o)
                          THEN [squids[me.squid] EXCEPT !.rows = {}]
                          ELSE squids[me.squid], {c})
         /\ Become(c, [me EXCEPT
                         !.pc = IF o = "ok" THEN "add" ELSE "restore",
                         !.erased = IF Applied(o) THEN squids[me.squid].rows ELSE @,
                         !.resp = IF o = "ok" THEN @
                                  ELSE [NoAnswer EXCEPT !.outcome = "failed"]])
    /\ Elsewhere

AddedAs(me) == IF ~Reuse(me) THEN "created"
               ELSE IF me.req.replace THEN "replaced" ELSE "added"

\* Mutant: a refused row of a replacement is answered at once.
LeavesSquidEmpty(me, o) ==
    Finish(me, [NoAnswer EXCEPT !.outcome = "failed", !.squid = me.squid,
                                !.tasksLost = "no"])

\* Mutant: the squid made for the call is lost from the error.
LosesSquidId(me, o) ==
    IF Reuse(me) THEN LeavesSquidEmpty(me, o) ELSE Finish(me, Failed(o))

\* What follows a failed add_tasks: put the snapshot back, say that nothing was
\* deleted, or (a squid made for this call) delete it or keep it and name it.
AddFailed(me, o) ==
    IF AddedAs(me) = "replaced"
    THEN [me EXCEPT !.pc = "restore", !.resp = [NoAnswer EXCEPT !.outcome = "failed"]]
    ELSE IF AddedAs(me) = "added"
    THEN Finish(me, [NoAnswer EXCEPT !.outcome = "failed", !.squid = me.squid,
                                     !.tasksLost = "no"])
    ELSE IF Transport(o)
    THEN Finish(me, [Failed(o) EXCEPT !.squid = me.squid])
    ELSE [me EXCEPT !.pc = "cleanup"]

AddTasks(c) == LET me == call[c] IN
    /\ me.pc = "add"
    /\ \E o \in WriteEnds :
         /\ Spend(o)
         /\ Put(me.squid, IF Applied(o)
                          THEN [squids[me.squid] EXCEPT !.rows = @ \cup {TaskRow(me)}]
                          ELSE squids[me.squid], {c})
         /\ Become(c, IF o = "ok"
                      THEN [me EXCEPT !.pc = "start", !.action = AddedAs(me)]
                      ELSE AddFailed(me, o))
    /\ Elsewhere

\* A re-run without input still saves an account resolved for it.
LinkAccounts(c) == LET me == call[c] IN
    /\ me.pc = "link"
    /\ \E o \in WriteEnds :
         /\ Spend(o)
         /\ Put(me.squid, IF Applied(o)
                          THEN [squids[me.squid] EXCEPT !.accounts = me.save]
                          ELSE squids[me.squid], {c})
         /\ Become(c, IF o = "ok" THEN [me EXCEPT !.pc = "start"]
                      ELSE Finish(me, Failed(o)))
    /\ Elsewhere

-----------------------------------------------------------------------------
(* A squid made for this call.                                             *)

CreateSquid(c) == LET me == call[c] IN
    /\ me.pc = "create"
    /\ \E o \in WriteEnds, s \in {t \in Squids \ Saved : ~squids[t].exists} :
         /\ Spend(o)
         /\ s \notin {call[d].made : d \in Calls}
         /\ Put(s, IF Applied(o) THEN [Absent EXCEPT !.exists = TRUE] ELSE squids[s], {c})
         /\ Become(c, [(IF o = "ok" THEN [me EXCEPT !.pc = "configure", !.squid = s]
                        ELSE Finish(me, Failed(o)))
                       EXCEPT !.made = IF Applied(o) THEN s ELSE NoSquid])
    /\ Elsewhere

\* A rejected config or row deletes the squid again; a lost answer keeps it,
\* named in the answer.
ConfigureSquid(c) == LET me == call[c] IN
    /\ me.pc = "configure"
    /\ \E o \in WriteEnds :
         /\ Spend(o)
         /\ Put(me.squid, IF Applied(o) THEN Configured(squids[me.squid], me)
                          ELSE squids[me.squid], {c})
         /\ Become(c, IF o = "ok" THEN [me EXCEPT !.pc = "add"] ELSE AddFailed(me, o))
    /\ Elsewhere

\* _new_squid_write_failed
DeleteSquid(c) == LET me == call[c] IN
    /\ me.pc = "cleanup"
    /\ \E o \in WriteEnds :
         /\ Spend(o)
         /\ Put(me.squid, IF Applied(o) THEN Absent ELSE squids[me.squid], {c})
         /\ Become(c, Finish(me, [NoAnswer EXCEPT !.outcome = "failed",
                                                  !.squid = me.squid,
                                                  !.deleted = o = "ok"]))
    /\ Elsewhere

-----------------------------------------------------------------------------
(* Starting the run, undoing a replacement, remembering the key.           *)

RunOf(c, me) ==
    [squid |-> me.squid, rows |-> squids[me.squid].rows,
     cfg |-> squids[me.squid].cfg, accounts |-> squids[me.squid].accounts,
     by |-> c, key |-> KeyOf(me.req)]

\* Mutant: the row passed is counted, the ones saved before are not.
CountsOwnRow(me) == 1

\* task_count: the row passed, or the rows the snapshot counted (0: unknown).
TaskCount(me) == IF me.action = "unchanged" THEN me.seen ELSE 1

StartRun(c) == LET me == call[c] IN
    /\ me.pc = "start"
    /\ \E o \in WriteEnds :
         /\ Spend(o)
         /\ runs' = IF Applied(o) THEN Append(runs, RunOf(c, me)) ELSE runs
         /\ LET answer == [Failed(o) EXCEPT !.squid = me.squid,
                                            !.taskCount = TaskCount(me)]
            IN Become(c, IF o = "ok"
                         THEN [me EXCEPT !.pc = "record", !.run = Len(runs) + 1]
                         ELSE IF me.action = "replaced"
                         THEN [me EXCEPT !.pc = "restore", !.resp = answer]
                         ELSE Finish(me, answer))
    /\ UNCHANGED <<squids, idem, now, disturbed, edits>>

\* _restore_tasks without a request: nothing was read, or nothing was kept.
RestoreNothing(c) == LET me == call[c] IN
    /\ me.pc = "restore"
    /\ me.rows = {}
    /\ Become(c, Finish(me, [me.resp EXCEPT
                               !.squid = me.squid,
                               !.tasksLost = IF me.read THEN "no" ELSE "yes"]))
    /\ UNCHANGED <<squids, disturbed, faults>> /\ Elsewhere

\* Mutant: the loss is said but the rows are not handed out.
SaysOnlyLost(me, o) ==
    [me.resp EXCEPT !.squid = me.squid, !.tasksLost = IF o = "ok" THEN "no" ELSE "yes",
                    !.restored = IF o = "ok" THEN me.rows ELSE {}]

RestoreAnswer(me, o) ==
    [me.resp EXCEPT !.squid = me.squid, !.tasksLost = IF o = "ok" THEN "no" ELSE "yes",
                    !.restored = IF o = "ok" THEN me.rows ELSE {},
                    !.lostTasks = IF o = "ok" THEN {} ELSE me.rows]

RestoreTasks(c) == LET me == call[c] IN
    /\ me.pc = "restore"
    /\ me.rows # {}
    /\ \E o \in WriteEnds :
         /\ Spend(o)
         /\ Put(me.squid, IF Applied(o)
                          THEN [squids[me.squid] EXCEPT !.rows = @ \cup me.rows]
                          ELSE squids[me.squid], {c})
         /\ Become(c, Finish(me, RestoreAnswer(me, o)))
    /\ Elsewhere

\* Mutant: an entry that is already there is kept.
PutKeepsOld(k, run, until) ==
    idem' = IF \E e \in idem : e.key = k THEN idem
            ELSE idem \cup {[key |-> k, run |-> run, until |-> until]}

\* IdempotencyStore.put
StorePut(k, run, until) ==
    idem' = {e \in idem : e.key # k} \cup {[key |-> k, run |-> run, until |-> until]}

StartedAnswer(me) ==
    [NoAnswer EXCEPT !.outcome = "started", !.run = me.run, !.squid = me.squid,
                     !.taskCount = TaskCount(me)]

\* idem_store.put, after start_run has answered and the run is paid; then the
\* call answers, or ends with the store's exception.
RecordRun(c) == LET me == call[c]
                    t  == now + TTL(me.req) IN
    /\ me.pc = "record"
    /\ \E o \in StoreEnds :
         /\ Spend(o)
         /\ IF Applied(o) THEN StorePut(KeyOf(me.req), me.run, t) ELSE UNCHANGED idem
         /\ Become(c, [Finish(me, IF o = "ok" THEN StartedAnswer(me) ELSE Raised)
                       EXCEPT !.until = IF Applied(o) THEN t ELSE @])
    /\ UNCHANGED <<squids, runs, now, disturbed, edits>>

-----------------------------------------------------------------------------
(* The surroundings.                                                       *)

Tick ==
    /\ now < MaxTime
    /\ now' = now + 1
    /\ UNCHANGED <<squids, runs, idem, call, disturbed, faults, edits>>

\* The dashboard, or another tool, changes one thing about a saved squid.
EditsOf(squid) == {[squid EXCEPT !.rows = r] : r \in SUBSET Rows}
             \cup {[squid EXCEPT !.cfg = k] : k \in Cfgs}
             \cup {[squid EXCEPT !.accounts = l] : l \in SUBSET Accounts}

OutsideEdit(s) ==
    /\ edits < MaxEdits
    /\ edits' = edits + 1
    /\ \E new \in EditsOf(squids[s]) : Put(s, new, {})
    /\ UNCHANGED <<runs, idem, now, call, faults>>

InFlight(c) == call[c].pc \notin {"idle", "done", "dead"}

\* A process dies with the calls it is serving.  Without Redis there is one
\* process, and the entries of the store go with it.
Restart(gone) ==
    /\ gone # {} /\ gone \subseteq {c \in Calls : InFlight(c)}
    /\ SharedStore \/ gone = {c \in Calls : InFlight(c)}
    /\ faults < MaxFaults
    /\ faults' = faults + 1
    /\ idem' = IF SharedStore THEN idem ELSE {}
    /\ call' = [c \in Calls |->
                  [call[c] EXCEPT !.pc = IF c \in gone THEN "dead" ELSE @,
                                  !.until = IF SharedStore THEN @ ELSE 0]]
    /\ UNCHANGED <<squids, runs, now, disturbed, edits>>

\* Every call has been answered: nothing is left to do.
Quiet == /\ \A c \in Calls : call[c].pc \in {"done", "dead"}
         /\ UNCHANGED vars

Step(c) ==
    \/ Invoke(c) \/ GetSquid(c) \/ CatalogFails(c) \/ RefuseInput(c)
    \/ KeyHit(c) \/ KeyMiss(c) \/ StoreFails(c) \/ AccountsFail(c) \/ ResolveAccounts(c)
    \/ SnapshotTasks(c) \/ AskConfirmation(c) \/ BalanceFails(c)
    \/ RefuseTasks(c) \/ PassGate(c)
    \/ UpdateSquid(c) \/ EmptySquid(c) \/ AddTasks(c) \/ LinkAccounts(c)
    \/ CreateSquid(c) \/ ConfigureSquid(c) \/ DeleteSquid(c)
    \/ StartRun(c) \/ RestoreNothing(c) \/ RestoreTasks(c) \/ RecordRun(c)

Next ==
    \/ \E c \in Calls : Step(c)
    \/ \E s \in Saved : OutsideEdit(s)
    \/ \E gone \in SUBSET Calls : Restart(gone)
    \/ Tick
    \/ Quiet

Spec == Init /\ [][Next]_vars

-----------------------------------------------------------------------------

\* Every variable has its type.
TypeOK ==
    /\ squids \in [Squids -> SquidState]
    /\ runs \in Seq([squid : Squids, rows : SUBSET Rows, cfg : Cfgs,
                     accounts : SUBSET Accounts, by : Calls, key : StoreKeys])
    /\ idem \subseteq [key : StoreKeys, run : Nat, until : Nat]
    /\ now \in 0..MaxTime
    /\ call \in [Calls -> CallState]
    /\ disturbed \subseteq Calls
    /\ faults \in 0..MaxFaults
    /\ edits \in 0..MaxEdits

-----------------------------------------------------------------------------
(* Idempotency: a retry is answered with the run it repeats.               *)

\* An entry of the store names a run that exists and was paid for under the
\* entry's own key, and a key has one entry (execution.py:486-495, 720).
StoreSound ==
    \A e \in idem :
      /\ e.run \in 1..Len(runs)
      /\ runs[e.run].key = e.key
      /\ \A f \in idem : f.key = e.key => f = e

\* Until its time is up the store holds, for every run it was given, an entry
\* with that run's key that lasts at least as long: neither a later put nor the
\* pruning in get shortens the promise.
PromiseKept ==
    \A c \in Calls :
      now < call[c].until =>
        \E e \in idem : e.key = KeyOf(call[c].req) /\ e.until >= call[c].until

\* A call that starts a run did not ask for a key under which the store had been
\* given a run, by a call that had ended, whose time was not up: once a caller has
\* its run_id, repeating the call within the time-to-live buys no second run.
NoPaidRepeat ==
    \A j \in 1..Len(runs) :
      LET later == call[runs[j].by]
      IN \A i \in later.known : call[runs[i].by].until <= later.asked

\* The run an answer names exists and is the caller's: its own for a started
\* call, on the squid the answer names and with the rows it counts unless
\* somebody else changed the squid; one with the same key for a repeat.
AnswerNamesItsRun ==
    \A c \in Calls :
      LET a == call[c].resp IN
      /\ a.outcome = "started" =>
           /\ a.run \in 1..Len(runs)
           /\ runs[a.run].by = c
           /\ runs[a.run].squid = a.squid
           /\ \/ a.taskCount = Cardinality(runs[a.run].rows)
              \/ c \in disturbed
              \/ call[c].action = "unchanged" /\ ~call[c].read
              \/ Cardinality(runs[a.run].rows) > PageCap
      /\ a.outcome = "already_submitted" =>
           a.run \in 1..Len(runs) /\ runs[a.run].key = KeyOf(call[c].req)

\* No run is paid for behind the caller's back: a call that started one and has
\* ended either names it or says that the request's fate is unknown. The one other
\* end is the exception of the store, and then the run is the one that the call was
\* about to record: no API failure, undo or restart hides a run.
NoHiddenRun ==
    \A i \in 1..Len(runs) :
      LET me == call[runs[i].by] IN
        \/ me.resp.outcome = "none"
        \/ me.resp.outcome = "started" /\ me.resp.run = i
        \/ me.resp.state = "unknown"
        \/ me.resp.outcome = "raised" /\ me.run = i

-----------------------------------------------------------------------------
(* The confirmation gate: what is run was estimated.                       *)

EscapesGate(i) ==
    LET r == runs[i]
        me == call[r.by]
    IN ~me.req.confirm /\ Cardinality(r.rows) > FreeRows[r.cfg]

\* An unconfirmed run costs more than the threshold only if somebody else
\* changed the squid between the estimate and the start, or the saved rows could
\* not be read (or not to the end) when it was estimated.
GateHolds ==
    \A i \in 1..Len(runs) :
      EscapesGate(i) =>
        \/ runs[i].by \in disturbed
        \/ Reuse(call[runs[i].by]) /\ ~call[runs[i].by].read
        \/ Cardinality(runs[i].rows) > PageCap

\* A run executes under the settings its estimate was computed with, unless
\* somebody else saved others meanwhile.
RunsAsEstimated ==
    \A i \in 1..Len(runs) :
      \/ runs[i].cfg = Effective(call[runs[i].by])
      \/ runs[i].by \in disturbed

\* A crawler that needs a platform account is run without one only if somebody
\* else took the link away between the call's read of the squid and the start.
RunHasAccount ==
    NeedsAccount => \A i \in 1..Len(runs) : \/ runs[i].accounts # {}
                                            \/ runs[i].by \in disturbed

\* A call drops an account link only when somebody else has made its view of the
\* squid stale: the accounts written are the ones read plus one.
LinksLostOnlyToRaces ==
    [][ \A s \in Saved :
          squids[s].accounts \ squids'[s].accounts # {} =>
            \/ edits' # edits
            \/ \E c \in disturbed : call[c].squid = s /\ call[c] # call'[c]
      ]_squids

-----------------------------------------------------------------------------
(* The rows somebody saved.                                                *)

\* A row leaves a squid only through an edit outside, the deletion of a squid
\* made for a call, or the one call that asked for replace_tasks and whose
\* configuration the API has accepted.
RowsLeaveOnlyByReplace ==
    [][ \A s \in Squids :
          squids[s].rows \ squids'[s].rows # {} =>
            \/ edits' # edits
            \/ ~squids'[s].exists
            \/ \E c \in Calls : /\ call[c].squid = s
                                /\ call[c].req.replace /\ HasInput(call[c])
                                /\ call[c].pc = "empty"
                                /\ squids[s].cfg = Effective(call[c]) \/ c \in disturbed
      ]_squids

\* When a replacement does not go through, every row it destroyed is back in the
\* squid or handed to the caller as lost_tasks, except a row the snapshot cannot
\* represent, a row somebody else added after the snapshot, and rows that were
\* never read (then the answer says tasks_lost).
RowsAccountedFor ==
    \A c \in Calls :
      LET me == call[c] IN
      (/\ me.resp.outcome = "failed" /\ me.pc = "done"
       /\ c \notin disturbed
       /\ Cardinality(me.erased) <= PageCap) =>
         IF me.read
         THEN me.erased \ {EmptyRow} \subseteq me.resp.restored \cup me.resp.lostTasks
         ELSE me.erased # {} => me.resp.tasksLost = "yes"

\* lost_tasks is the only copy left when tasks_lost is said of rows that had been
\* read, and an answer that denies a loss hands no row out.
LossIsNamed ==
    \A c \in Calls :
      LET a == call[c].resp IN
      /\ a.tasksLost = "no" => a.lostTasks = {}
      /\ a.tasksLost = "yes" => (a.lostTasks # {} <=> call[c].read)

\* A squid made for a call that is still there when the call has been answered
\* is named in the answer, unless the very creation went unanswered or the run it
\* was made for was paid and the store then failed.
NoHiddenSquid ==
    \A c \in Calls :
      LET me == call[c] IN
      me.pc = "done" /\ me.made # NoSquid /\ squids[me.made].exists =>
        \/ me.resp.squid = me.made /\ ~me.resp.deleted
        \/ me.resp.squid = NoSquid /\ me.resp.state = "unknown"
        \/ me.resp.outcome = "raised" /\ me.run # 0

-----------------------------------------------------------------------------
(* What the repository says of the tool and a run shows not to hold.       *)

\* "A repeat within the TTL returns already_submitted instead of creating a
\* second paid run" (docs/architecture.md:100).
RepeatsAreReplayed ==
    \A i, j \in 1..Len(runs) :
      runs[i].key = runs[j].key /\ now < ExplicitTTL /\ now < DerivedTTL => i = j

\* "put back...; no run was started" (execution.py:178).
RestoredMeansNoRun ==
    \A i \in 1..Len(runs) : call[runs[i].by].resp.restored = {}

=============================================================================
