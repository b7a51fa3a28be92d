----------------------------- MODULE SquidTools -----------------------------
(***************************************************************************)
(* The tools that build and change a squid without running it:             *)
(* create_squid, update_scraper, add_tasks, attach_account, empty_scraper  *)
(* and deactivate_scraper, any number of calls at once, with the dashboard *)
(* changing the same squids.  An action is one API request with the local  *)
(* computation that follows it.                                            *)
(*                                                                         *)
(* A setting is a squid-level param, flat or nested under "functions" (both *)
(* are merged alike).  The input schema publishes some settings under an   *)
(* alias only; the API knows the real name.                                *)
(***************************************************************************)
EXTENDS Integers, FiniteSets, ErrorContract

CONSTANTS
    Calls,
    Squids, Saved, NoSquid,   \* ids the API can hand out; those there at first
    Settings, Aliases,        \* real names; published names that differ
    WireName,                 \* the real name of each alias
    Values, Unset,
    Defaults,                 \* required settings' defaults, Unset for none
    Titles, NoTitle,          \* squid names
    Rows,
    Accounts, Matching,       \* account ids, those of the crawler's type
    NoAccount,
    NeedsAccount,             \* the crawler uses a platform account
    Requests,                 \* the arguments calls are made with
    AtFirst,                  \* what a saved squid may hold before the first call
    MaxFaults, MaxEdits       \* bounds: failures, changes on the dashboard

Names  == Settings \cup Aliases
Config == [Names -> Values \cup {Unset}]
NoConfig == [n \in Names |-> Unset]

SquidState ==
    [exists : BOOLEAN, active : BOOLEAN, name : Titles \cup {NoTitle} \cup Squids,
     params : Config, conc : BOOLEAN, rows : SUBSET Rows, accounts : SUBSET Accounts]

Request ==
    [tool : {"create", "update", "add", "attach", "empty", "deactivate"},
     squid : Saved \cup {NoSquid}, name : Titles \cup {NoTitle}, cfg : Config,
     conc : BOOLEAN, rows : SUBSET Rows, account : Accounts \cup {NoAccount}]

ASSUME SquidAssumption == Saved \subseteq Squids /\ NoSquid \notin Squids

ASSUME StartAssumption ==
    \A q \in AtFirst :
      /\ q \in SquidState
      /\ q.exists /\ q.active /\ \A a \in Aliases : q.params[a] = Unset

ASSUME SettingAssumption ==
    /\ Settings \cap Aliases = {}
    /\ WireName \in [Aliases -> Settings]
    /\ Unset \notin Values
    /\ Defaults \in [Settings -> Values \cup {Unset}]
    /\ \A a \in Aliases : Defaults[WireName[a]] = Unset
    /\ NoTitle \notin Titles \cup Squids

ASSUME AccountAssumption ==
    /\ Matching \subseteq Accounts /\ NoAccount \notin Accounts
    /\ NeedsAccount \in BOOLEAN

ASSUME RequestAssumption ==
    /\ Requests \subseteq Request
    /\ \A r \in Requests :
         /\ r.tool = "create" <=> r.squid = NoSquid
         /\ \A a \in Aliases : r.cfg[a] # Unset => r.cfg[WireName[a]] = Unset

ASSUME BoundAssumption == MaxFaults \in Nat /\ MaxEdits \in Nat

VARIABLES
    squids,     \* what the API holds for each squid id
    call,       \* the local state of each call
    stale,      \* history: calls whose squid changed since they read it
    faults, edits

vars == <<squids, call, stale, faults, edits>>

-----------------------------------------------------------------------------

Absent ==
    [exists |-> FALSE, active |-> TRUE, name |-> NoTitle, params |-> NoConfig,
     conc |-> FALSE, rows |-> {}, accounts |-> {}]

\* `ok`, `refused` before anything was sent, or `failed`; an answer to a failed
\* call may name the squid made for it, and say that it was deleted.
Answer ==
    [outcome : {"none", "ok", "refused", "failed"}, error : Envelope,
     squid : Squids \cup {NoSquid}, deleted : BOOLEAN]

NoError  == [state |-> "none", retrySafe |-> FALSE]
NoAnswer == [outcome |-> "none", error |-> NoError, squid |-> NoSquid, deleted |-> FALSE]

\* @structured(verify_with=...): what escapes a tool that writes.
Failed(o) == [NoAnswer EXCEPT !.outcome = "failed", !.error = ErrorOf(o, TRUE)]

Steps == {"idle", "schema", "create", "configure", "cleanup", "read", "wires",
          "crawler", "account", "write", "done"}

\* `made` and `applied` are history: the squid this call's create_squid made,
\* and whether any request of the call changed something.
CallState ==
    [pc : Steps, req : Request, resp : Answer, squid : Squids \cup {NoSquid},
     read : BOOLEAN, seen : SquidState,      \* get_squid
     wires : BOOLEAN,                        \* the schema was read
     links : SUBSET Accounts,                \* the accounts to write
     made : Squids \cup {NoSquid}, applied : BOOLEAN]

NoRequest ==
    [tool |-> "create", squid |-> NoSquid, name |-> NoTitle, cfg |-> NoConfig,
     conc |-> FALSE, rows |-> {}, account |-> NoAccount]

IdleCall ==
    [pc |-> "idle", req |-> NoRequest, resp |-> NoAnswer, squid |-> NoSquid,
     read |-> FALSE, seen |-> Absent, wires |-> FALSE, links |-> {},
     made |-> NoSquid, applied |-> FALSE]

Finish(me, answer) == [me EXCEPT !.pc = "done", !.resp = answer]
Become(c, me) == call' = [call EXCEPT ![c] = me]
Spend(o) == /\ faults' = faults + (IF o = "ok" THEN 0 ELSE 1)
            /\ faults' <= MaxFaults

HasConfig(me) == me.req.cfg # NoConfig

-----------------------------------------------------------------------------
(* Settings.                                                               *)

\* Mutant: aliases go out as they are published.
SendsAliases(cfg, wires) == cfg

\* _apply_wire_names; without the schema there is nothing to translate with.
ApplyWireNames(cfg, wires) ==
    IF ~wires THEN cfg
    ELSE [n \in Names |->
            IF n \in Aliases THEN Unset
            ELSE IF \E a \in Aliases : WireName[a] = n /\ cfg[a] # Unset
            THEN cfg[CHOOSE a \in Aliases : WireName[a] = n /\ cfg[a] # Unset]
            ELSE cfg[n]]

\* defaults_to_fill, for a squid whose config names none of them.
Filled(cfg, wires) ==
    IF ~wires THEN cfg
    ELSE [n \in Names |-> IF n \in Settings /\ cfg[n] = Unset THEN Defaults[n] ELSE cfg[n]]

\* Mutant: only this call's settings are sent.
SendsOwnSettings(saved, new) == new

\* _effective_settings: what was read of the squid, with the new settings on top.
Effective(saved, new) == [n \in Names |-> IF new[n] # Unset THEN new[n] ELSE saved[n]]

\* The name that rides along with params: given, read, or the id when unread.
BodyName(me) ==
    IF me.req.name # NoTitle THEN me.req.name
    ELSE IF me.read THEN me.seen.name ELSE me.squid

\* What update_scraper sends, and the API puts in place of what is there.
Updated(squid, me) ==
    [squid EXCEPT
       !.name = IF HasConfig(me) \/ me.req.name # NoTitle THEN BodyName(me) ELSE @,
       !.params = IF HasConfig(me)
                  THEN Effective(me.seen.params, ApplyWireNames(me.req.cfg, me.wires))
                  ELSE @,
       !.conc = @ \/ me.req.conc]

\* What a write of each tool on a saved squid changes.
Written(squid, me) ==
    CASE me.req.tool = "update"     -> Updated(squid, me)
      [] me.req.tool = "add"        -> [squid EXCEPT !.rows = @ \cup me.req.rows]
      [] me.req.tool = "attach"     -> [squid EXCEPT !.accounts = me.links]
      [] me.req.tool = "empty"      -> [squid EXCEPT !.rows = {}]
      [] me.req.tool = "deactivate" -> [squid EXCEPT !.active = FALSE]

\* Changing a squid makes what other calls have read of it stale.
Put(s, new, writers) ==
    /\ squids' = [squids EXCEPT ![s] = new]
    /\ stale' = IF new = squids[s] THEN stale
                ELSE stale \cup {d \in Calls \ writers : /\ call[d].squid = s
                                                         /\ call[d].pc \notin {"idle", "read", "done"}}

Init ==
    /\ \E f \in [Saved -> AtFirst] :
         squids = [s \in Squids |-> IF s \in Saved THEN f[s] ELSE Absent]
    /\ call = [c \in Calls |-> IdleCall]
    /\ stale = {}
    /\ faults = 0 /\ edits = 0

-----------------------------------------------------------------------------
(* Reading.                                                                *)

ReadOnly == UNCHANGED <<squids, stale, edits>>

FirstStep(r) ==
    CASE r.tool = "create" -> IF r.cfg # NoConfig THEN "schema" ELSE "create"
      [] r.tool \in {"update", "add", "attach"} -> "read"
      [] OTHER -> "write"

\* invalid_request: an update that changes nothing, an add without rows.
Empty(r) == \/ r.tool = "update" /\ r.cfg = NoConfig /\ r.name = NoTitle /\ ~r.conc
            \/ r.tool = "add" /\ r.rows = {}

Invoke(c) ==
    /\ call[c].pc = "idle"
    /\ \E r \in Requests :
         LET me == [IdleCall EXCEPT !.pc = FirstStep(r), !.req = r, !.squid = r.squid]
         IN Become(c, IF Empty(r) THEN Finish(me, [NoAnswer EXCEPT !.outcome = "refused"])
                      ELSE me)
    /\ ReadOnly /\ UNCHANGED faults

\* create_squid looks the schema up to translate, validate and fill the config,
\* and goes on without it when that fails; a config the schema refuses ends the
\* call before anything is made.
ReadSchema(c) == LET me == call[c] IN
    /\ me.pc = "schema"
    /\ \/ \E o \in ReadEnds :
            /\ Spend(o)
            /\ Become(c, [me EXCEPT !.pc = "create", !.wires = o = "ok"])
       \/ /\ Become(c, Finish(me, [NoAnswer EXCEPT !.outcome = "refused"]))
          /\ UNCHANGED faults
    /\ ReadOnly

\* get_squid: attach_account fails with it; update_scraper and add_tasks go on
\* as if the squid were empty.
GetSquid(c) == LET me == call[c] IN
    /\ me.pc = "read"
    /\ \E o \in ReadEnds :
         /\ Spend(o)
         /\ Become(c, IF o = "ok"
                      THEN [me EXCEPT !.pc = IF me.req.tool = "attach" THEN "crawler" ELSE "wires",
                                      !.read = TRUE, !.seen = squids[me.squid]]
                      ELSE IF me.req.tool = "attach" THEN Finish(me, Failed(o))
                      ELSE [me EXCEPT !.pc = "write"])
    /\ ReadOnly

\* The schema of the squid's crawler, for its aliases; best effort.
ReadWireNames(c) == LET me == call[c] IN
    /\ me.pc = "wires"
    /\ \E o \in ReadEnds :
         /\ Spend(o)
         /\ Become(c, [me EXCEPT !.pc = "write", !.wires = o = "ok"])
    /\ ReadOnly

\* attach_account: the crawler's account type, and the refusals that need no
\* account (none used, links unreadable, one attached and none named).
ReadCrawler(c) == LET me == call[c] IN
    /\ me.pc = "crawler"
    /\ \/ \E o \in ReadEnds :
            /\ Spend(o)
            /\ Become(c, IF o # "ok" THEN Finish(me, Failed(o))
                         ELSE IF ~NeedsAccount \/ (/\ me.req.account = NoAccount
                                                   /\ me.seen.accounts # {})
                         THEN Finish(me, [NoAnswer EXCEPT !.outcome = "refused"])
                         ELSE [me EXCEPT !.pc = "account"])
       \/ /\ me.seen.accounts # {}    \* AccountsShapeError
          /\ Become(c, Finish(me, [NoAnswer EXCEPT !.outcome = "refused"]))
          /\ UNCHANGED faults
    /\ ReadOnly

\* Mutant: the list written is the account alone.
LinksOnly(me, a) == {a}

\* Mutant: an account that was picked is not the one that is written.
LinksAsked(me, a) == me.seen.accounts \cup {me.req.account}

\* The list written: the accounts read, and the new one.
LinksWith(me, a) == me.seen.accounts \cup {a}

\* resolve_account for an account that is named; otherwise pick_or_explain, with
\* whatever accounts are usable at that moment.
ResolveAccount(c) == LET me == call[c] IN
    /\ me.pc = "account"
    /\ \/ \E o \in ReadEnds \ {"ok"} :
            /\ Spend(o)
            /\ Become(c, Finish(me, IF o = "rejected" /\ me.req.account # NoAccount
                                    THEN [NoAnswer EXCEPT !.outcome = "refused"]
                                    ELSE Failed(o)))
       \/ /\ \E usable \in SUBSET Matching :
               LET named == me.req.account # NoAccount
                   pick  == IF named THEN {me.req.account} \cap Matching ELSE usable
               IN Become(c, IF Cardinality(pick) # 1
                            THEN Finish(me, [NoAnswer EXCEPT !.outcome = "refused"])
                            ELSE IF pick \subseteq me.seen.accounts
                            THEN Finish(me, [NoAnswer EXCEPT !.outcome = "ok"])
                            ELSE [me EXCEPT !.pc = "write",
                                            !.links = LinksWith(me, CHOOSE a \in pick : TRUE)])
          /\ UNCHANGED faults
    /\ ReadOnly

-----------------------------------------------------------------------------
(* Writing.                                                                *)

WriteSquid(c) == LET me == call[c] IN
    /\ me.pc = "write"
    /\ \E o \in WriteEnds :
         /\ Spend(o)
         /\ Put(me.squid, IF Applied(o) THEN Written(squids[me.squid], me)
                          ELSE squids[me.squid], {c})
         /\ Become(c, [Finish(me, IF o = "ok" THEN [NoAnswer EXCEPT !.outcome = "ok",
                                                                    !.squid = me.squid]
                                  ELSE Failed(o))
                       EXCEPT !.applied = Applied(o)])
    /\ UNCHANGED edits

CreateSquid(c) == LET me == call[c] IN
    /\ me.pc = "create"
    /\ \E o \in WriteEnds, s \in {t \in Squids \ Saved : ~squids[t].exists} :
         /\ Spend(o)
         /\ s \notin {call[d].made : d \in Calls}
         /\ Put(s, IF Applied(o) THEN [Absent EXCEPT !.exists = TRUE, !.name = me.req.name]
                   ELSE squids[s], {c})
         /\ LET made == [me EXCEPT !.made = IF Applied(o) THEN s ELSE NoSquid,
                                   !.applied = Applied(o)]
            IN Become(c, IF o # "ok" THEN Finish(made, Failed(o))
                         ELSE IF HasConfig(me) \/ me.req.conc
                         THEN [made EXCEPT !.pc = "configure", !.squid = s]
                         ELSE [Finish(made, [NoAnswer EXCEPT !.outcome = "ok", !.squid = s])
                               EXCEPT !.squid = s])
    /\ UNCHANGED edits

\* Mutant: a save that went unanswered is treated as a rejected one.
DeletesOnTransport(me, o) == [me EXCEPT !.pc = "cleanup"]

\* Mutant: a save that never left is reported with the envelope of a lone request.
SaysNotSent(me, o) ==
    IF o = "rejected" THEN [me EXCEPT !.pc = "cleanup"]
    ELSE Finish(me, [Failed(o) EXCEPT !.squid = me.squid])

\* A rejected config deletes the squid again (_config_rejected); one that went
\* unanswered leaves it, named and without a word on retrying
\* (_config_apply_unknown).
ConfigFailed(me, o) ==
    IF o = "rejected" THEN [me EXCEPT !.pc = "cleanup"]
    ELSE Finish(me, [NoAnswer EXCEPT !.outcome = "failed", !.squid = me.squid])

ConfigureSquid(c) == LET me == call[c] IN
    /\ me.pc = "configure"
    /\ \E o \in WriteEnds :
         /\ Spend(o)
         /\ Put(me.squid,
                IF Applied(o)
                THEN [squids[me.squid] EXCEPT
                        !.params = IF HasConfig(me)
                                   THEN ApplyWireNames(Filled(me.req.cfg, me.wires), me.wires)
                                   ELSE @,
                        !.conc = @ \/ me.req.conc]
                ELSE squids[me.squid], {c})
         /\ Become(c, IF o = "ok" THEN Finish(me, [NoAnswer EXCEPT !.outcome = "ok",
                                                                   !.squid = me.squid])
                      ELSE ConfigFailed(me, o))
    /\ UNCHANGED edits

\* Mutant: the deletion is taken to have worked.
AlwaysDeleted(me, o) ==
    Finish(me, [NoAnswer EXCEPT !.outcome = "failed", !.squid = me.squid, !.deleted = TRUE])

CleanedUp(me, o) ==
    Finish(me, [NoAnswer EXCEPT !.outcome = "failed", !.squid = me.squid,
                                !.deleted = o = "ok"])

\* _cleanup_squid
DeleteSquid(c) == LET me == call[c] IN
    /\ me.pc = "cleanup"
    /\ \E o \in WriteEnds :
         /\ Spend(o)
         /\ Put(me.squid, IF Applied(o) THEN Absent ELSE squids[me.squid], {c})
         /\ Become(c, CleanedUp(me, o))
    /\ UNCHANGED edits

\* The dashboard changes one thing about a saved squid.
OutsideEdit(s) == LET squid == squids[s] IN
    /\ edits < MaxEdits
    /\ edits' = edits + 1
    /\ \E new \in {[squid EXCEPT !.name = t] : t \in Titles}
            \cup {[squid EXCEPT !.params[k] = v] : k \in Settings, v \in Values \cup {Unset}}
            \cup {[squid EXCEPT !.accounts = l] : l \in SUBSET Accounts}
            \cup {[squid EXCEPT !.rows = r] : r \in SUBSET Rows}
            \cup {[squid EXCEPT !.active = TRUE]} : Put(s, new, {})
    /\ UNCHANGED <<call, faults>>

Quiet == /\ \A c \in Calls : call[c].pc = "done"
         /\ UNCHANGED vars

Step(c) ==
    \/ Invoke(c) \/ ReadSchema(c) \/ GetSquid(c) \/ ReadWireNames(c)
    \/ ReadCrawler(c) \/ ResolveAccount(c)
    \/ WriteSquid(c) \/ CreateSquid(c) \/ ConfigureSquid(c) \/ DeleteSquid(c)

Next ==
    \/ \E c \in Calls : Step(c)
    \/ \E s \in Saved : OutsideEdit(s)
    \/ Quiet

Spec == Init /\ [][Next]_vars

-----------------------------------------------------------------------------

\* Every variable has its type.
TypeOK ==
    /\ squids \in [Squids -> SquidState]
    /\ call \in [Calls -> CallState]
    /\ stale \subseteq Calls
    /\ faults \in 0..MaxFaults
    /\ edits \in 0..MaxEdits

Gives(r, n) == \/ r.cfg[n] # Unset
               \/ \E a \in Aliases : WireName[a] = n /\ r.cfg[a] # Unset

\* The call c, which takes this step, asked for what s loses in it.
AskedFor(c, s) ==
    /\ squids'[s].name # squids[s].name => call[c].req.name # NoTitle
    /\ \A n \in Names :
         squids[s].params[n] # Unset /\ squids'[s].params[n] # squids[s].params[n]
           => Gives(call[c].req, n)

Overwrites(s) ==
    /\ squids[s].exists /\ squids'[s].exists
    /\ \/ squids'[s].name # squids[s].name
       \/ \E n \in Names : /\ squids[s].params[n] # Unset
                            /\ squids'[s].params[n] # squids[s].params[n]

\* Though the API replaces a squid's params wholesale and a save carries the
\* name along, no tool changes a name or a saved setting it was not asked to
\* change, unless it could not read the squid or somebody changed it since.
SavedStateLostOnlyBlind ==
    [][ \A s \in Squids :
          Overwrites(s) /\ edits' = edits =>
            \E c \in Calls :
              /\ call'[c] # call[c] /\ call[c].squid = s
              /\ AskedFor(c, s) \/ ~call[c].read \/ c \in stale
      ]_vars

\* attach_account only ever adds: an account link is dropped only by a call
\* whose view of the squid somebody else has made stale.
LinksLostOnlyToRaces ==
    [][ \A s \in Squids :
          (/\ squids[s].accounts \ squids'[s].accounts # {}
           /\ edits' = edits) =>
            \E c \in stale : call[c].squid = s /\ call'[c] # call[c]
      ]_vars

\* A squid made by a call that is still there when the call has been answered is
\* named in the answer, which does not say it was deleted, unless the creation
\* itself went unanswered (and then the answer says so).
NoHiddenSquid ==
    \A c \in Calls :
      LET me == call[c] IN
      me.pc = "done" /\ me.made # NoSquid /\ squids[me.made].exists =>
        \/ me.resp.squid = me.made /\ ~me.resp.deleted
        \/ me.resp.squid = NoSquid /\ me.resp.error.state = "unknown"

\* A squid is deleted again only while nothing was saved on it: a configuration
\* whose fate is unknown is never thrown away.
ConfiguredSquidKept ==
    [][ \A s \in Squids :
          squids[s].exists /\ ~squids'[s].exists =>
            squids[s].params = NoConfig /\ ~squids[s].conc
      ]_vars

\* An answer that says retrying is safe belongs to a call none of whose requests
\* has changed anything.
RetrySafeMeansUntouched ==
    \A c \in Calls : call[c].resp.error.retrySafe => ~call[c].applied

\* A setting is saved under the alias it is published by only by a call that
\* could not read the schema.
SavedUnderRealNames ==
    \A s \in Squids, a \in Aliases :
      squids[s].params[a] # Unset =>
        \E c \in Calls : /\ call[c].squid = s
                         /\ call[c].req.cfg[a] # Unset /\ ~call[c].wires

=============================================================================
