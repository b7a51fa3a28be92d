---------------------------- MODULE AccountChoice ----------------------------
(***************************************************************************)
(* account_linking.py: which connected platform account a squid gets.  An  *)
(* account is a record of what its API entry says; `lock` is its lock time *)
(* against the clock.                                                      *)
(***************************************************************************)
EXTENDS Integers, Sequences, FiniteSets, SequencesExt

CONSTANTS
    AccountIds, Types,
    PageCap      \* how many accounts one listing returns

ASSUME PageAssumption == PageCap \in Nat

Account == [id : AccountIds, type : Types, live : BOOLEAN, expired : BOOLEAN,
            lock : {"none", "past", "future", "garbled"}]

\* Mutant: an expired lock still counts.
LockedEver(account) == account.lock \in {"past", "future"}

\* _is_locked; a time that cannot be read does not lock.
Locked(account) == account.lock = "future"

\* account_health_note says nothing.
Healthy(account) == account.live /\ ~account.expired /\ ~Locked(account)

\* _type_status_ok
TypeStatusOk(account, type) == account.type = type /\ account.live /\ ~account.expired

\* Where the accounts are that the API's own filter lets through, by type and by
\* status; it is a first pass only.
Filtered(accounts, type) ==
    {i \in DOMAIN accounts : accounts[i].type = type /\ accounts[i].live}

\* What the API lists: one page of them.
Listed(accounts, type) ==
    LET through == Filtered(accounts, type)
    IN {accounts[i] :
          i \in {j \in through : Cardinality({k \in through : k <= j}) <= PageCap}}

\* find_candidates
Unlocked(accounts, type) ==
    {a \in Listed(accounts, type) : TypeStatusOk(a, type) /\ ~Locked(a)}
LockedOnes(accounts, type) ==
    {a \in Listed(accounts, type) : TypeStatusOk(a, type) /\ Locked(a)}

NoPick == [code |-> "no_account_available", ids |-> {}]

\* pick_or_explain
Pick(accounts, type) ==
    LET unlocked == Unlocked(accounts, type)
        locked   == LockedOnes(accounts, type)
        IdsOf(s) == {a.id : a \in s}
    IN IF Cardinality(unlocked) = 1 THEN [code |-> "picked", ids |-> IdsOf(unlocked)]
       ELSE IF unlocked # {} THEN [code |-> "multiple_accounts_available", ids |-> IdsOf(unlocked)]
       ELSE IF locked # {} THEN [code |-> "account_locked", ids |-> IdsOf(locked)]
       ELSE NoPick

\* resolve_account: an account that is named is refused for its type only.
Resolve(accounts, id, type) ==
    LET found == {a \in Range(accounts) : a.id = id}
    IN IF found = {} THEN "account_not_found"
       ELSE IF \A a \in found : a.type # type THEN "account_type_mismatch" ELSE "resolved"

-----------------------------------------------------------------------------

\* An account is picked exactly when it is the only one that will do, and then
\* nothing is said against its health; what is offered for an explicit choice can
\* be chosen, and "none" means that none is worth naming; all this of live accounts
\* of the type that fit on the page that is read.
PickIsForced(accounts, type) ==
    LET pick == Pick(accounts, type)
        good == {a \in Range(accounts) :
                   a.type = type /\ a.live /\ ~a.expired /\ a.lock # "future"}
    IN Cardinality(Filtered(accounts, type)) <= PageCap =>
         /\ pick.code = "picked" <=> Cardinality(good) = 1
         /\ pick.code = "picked" => /\ pick.ids = {a.id : a \in good}
                                   /\ \A a \in good : Healthy(a)
         /\ pick.code = "account_locked" => good = {}
         /\ \A id \in pick.ids : Resolve(accounts, id, type) = "resolved"
         /\ pick.code = "no_account_available" =>
              \A a \in Range(accounts) :
                a.type = type /\ a.live /\ ~a.expired => FALSE
=============================================================================
