---------------------------- MODULE OAuthProvider ----------------------------
(***************************************************************************)
(* The OAuth server in front of the tools: client registration, authorize  *)
(* requests waiting for the user's consent, authorization codes, access    *)
(* and refresh tokens, in memory or, for what survives, in Redis.          *)
(*                                                                         *)
(* A process runs its handlers on one event loop: two handlers of one      *)
(* process never interleave, because nothing in them awaits and Redis is   *)
(* called synchronously.  Consents are completed in worker threads and     *)
(* interleave with everything, and so do the processes that share a Redis. *)
(* An action is one access to shared state.                                *)
(***************************************************************************)
EXTENDS Integers, FiniteSets

CONSTANTS
    Procs,         \* server processes
    Clients,       \* OAuth clients
    Requests,      \* calls of authorize, named by the request_id they make
    Consents,      \* calls of complete_consent, named by the code they make
    Exchanges,     \* calls of the two exchanges, named by the tokens they make
    Revocations,   \* calls of revoke_token
    NoExchange,
    Scopes,
    Asks,          \* the sets of scopes a client may ask for
    Grants, GrantScopes,  \* what the user approved on the consent page
    PendingTTL, CodeTTL, AccessTTL, RefreshTTL, ClientTTL,
    SharedStore,   \* clients and tokens are in Redis
    MaxTime, MaxFaults, MaxRestarts  \* bounds: clock, failed calls, crashes

ASSUME ActorAssumption ==
    /\ NoExchange \notin Exchanges
    /\ {} \notin {Procs, Clients, Requests, Consents, Grants}

ASSUME GrantAssumption ==
    GrantScopes \in [Grants -> SUBSET Scopes] /\ Asks \subseteq SUBSET Scopes

ASSUME NumberAssumption ==
    /\ PendingTTL \in Nat /\ CodeTTL \in Nat /\ ClientTTL \in Nat
    /\ AccessTTL \in Nat /\ RefreshTTL \in Nat
    /\ MaxTime \in Nat /\ MaxFaults \in Nat /\ MaxRestarts \in Nat

\* Without Redis there is one process; with it, a time to live of 0 would be
\* stored as none, and so would one of 1 that is truncated to 0.
ASSUME StoreAssumption ==
    /\ SharedStore \in BOOLEAN
    /\ ~SharedStore => \A p, q \in Procs : p = q
    /\ SharedStore => AccessTTL > 1 /\ RefreshTTL > 1 /\ ClientTTL > 0

VARIABLES
    clients,    \* client registry: until when each client is registered
    pending,    \* _pending of each process
    codes,      \* _codes and _code_identity of each process
    access,     \* the token store
    refresh,    \* the refresh registry
    used,       \* grants the Lobstr API has redeemed
    authorize, consent, exchange, revoke,  \* the calls
    ended,      \* history: codes whose last refresh token was revoked
    now, faults, restarts

calls  == <<authorize, consent, exchange, revoke>>
stored == <<clients, access, refresh>>
limits == <<now, faults, restarts>>
vars   == <<clients, pending, codes, access, refresh, used, authorize, consent,
            exchange, revoke, ended, now, faults, restarts>>

-----------------------------------------------------------------------------
Pending == [req : Requests, exp : Nat]
Code    == [code : Consents, scopes : SUBSET Scopes, exp : Nat]
Token   == [token : Exchanges, scopes : SUBSET Scopes, exp : Nat]

Authorize ==
    [pc : {"idle", "prune", "told", "failed", "dead"}, proc : Procs,
     client : Clients, asked : SUBSET Scopes, exp : Nat, stale : SUBSET Pending]

Consent ==
    [pc : {"idle", "prune", "redeem", "finish", "told", "unknown", "refused",
           "failed", "dead"},
     proc : Procs, req : Requests, grant : Grants, stale : SUBSET Pending]

Exchange ==
    [pc : {"idle", "pop", "delete", "access", "refresh", "told", "untold",
           "refused", "failed", "dead"},
     proc : Procs, code : Consents, from : Exchanges \cup {NoExchange},
     want : SUBSET Scopes,   \* the scopes asked for
     scopes : SUBSET Scopes, \* the scopes issued
     exp : Nat]              \* history: until when the pair can be refreshed

Revoke ==
    [pc : {"idle", "access", "look", "drop", "told", "failed", "dead"},
     proc : Procs, kind : {"access", "refresh"},
     token : Exchanges \cup {NoExchange}]

ClientOf(c)  == authorize[consent[c].req].client
Granted(c)   == GrantScopes[consent[c].grant]
Registered(cl) == clients[cl] > now

\* A handler that has begun keeps its process's event loop to itself.
LoopFree(p) ==
    /\ \A r \in Requests : authorize[r].proc = p => authorize[r].pc # "prune"
    /\ \A e \in Exchanges :
         exchange[e].proc = p =>
           exchange[e].pc \notin {"pop", "delete", "access", "refresh"}
    /\ \A v \in Revocations :
         revoke[v].proc = p => revoke[v].pc \notin {"access", "look", "drop"}

\* How a Redis command ends: done, failed without effect, failed after its
\* effect.  A dict does not fail.
Ends == IF SharedStore THEN {"ok", "lost", "late"} ELSE {"ok"}
Applied(o) == o \in {"ok", "late"}
Spend(o) == /\ faults' = faults + (IF o = "ok" THEN 0 ELSE 1)
            /\ faults' <= MaxFaults

\* Mutant: what was asked for is issued.
IssuesAsked(asked, granted) == asked

\* _effective_scopes, and when it raises instead.
EffectiveScopes(asked, granted) ==
    IF granted = {} THEN asked
    ELSE IF asked = {} THEN granted ELSE asked \cap granted
NothingGranted(asked, granted) ==
    granted # {} /\ asked # {} /\ asked \cap granted = {}

Some(S) == CHOOSE x \in S : TRUE

Init ==
    /\ clients = [cl \in Clients |-> 0]
    /\ pending = [p \in Procs |-> {}]
    /\ codes = [p \in Procs |-> {}]
    /\ access = {} /\ refresh = {} /\ used = {} /\ ended = {}
    /\ authorize = [r \in Requests |->
                      [pc |-> "idle", proc |-> Some(Procs),
                       client |-> Some(Clients), asked |-> {}, exp |-> 0,
                       stale |-> {}]]
    /\ consent = [c \in Consents |->
                    [pc |-> "idle", proc |-> Some(Procs),
                     req |-> Some(Requests), grant |-> Some(Grants),
                     stale |-> {}]]
    /\ exchange = [e \in Exchanges |->
                     [pc |-> "idle", proc |-> Some(Procs),
                      code |-> Some(Consents), from |-> NoExchange,
                      want |-> {}, scopes |-> {}, exp |-> 0]]
    /\ revoke = [v \in Revocations |->
                   [pc |-> "idle", proc |-> Some(Procs), kind |-> "access",
                    token |-> NoExchange]]
    /\ now = 0 /\ faults = 0 /\ restarts = 0

-----------------------------------------------------------------------------
(* Registration, authorize requests and consents.                          *)

\* RedisClientRegistry keeps a client ClientTTL long, the dict forever.
Register(cl) ==
    /\ clients[cl] = 0
    /\ clients' = [clients EXCEPT
                     ![cl] = IF SharedStore THEN now + ClientTTL ELSE MaxTime + 1]
    /\ UNCHANGED <<pending, codes, access, refresh, used, calls, ended, limits>>

\* Mutant: an entry is pruned in its last second.
PrunesEarly(e) == e.exp <= now

\* _prune_pending collects what is stale, then deletes it.
Stale(e) == e.exp < now

BeginAuthorize(r) ==
    /\ authorize[r].pc = "idle"
    /\ \E p \in Procs, cl \in Clients, asked \in Asks :
         /\ LoopFree(p)
         /\ Registered(cl)
         /\ authorize' = [authorize EXCEPT ![r] =
              [@ EXCEPT !.pc = "prune", !.proc = p, !.client = cl,
                        !.asked = asked,
                        !.stale = {e \in pending[p] : Stale(e)}]]
    /\ UNCHANGED <<pending, codes, stored, used, consent, exchange, revoke, ended,
                   limits>>

\* The thread of a consent pruned the same entries in between: KeyError.
FailAuthorize(r) == LET a == authorize[r] IN
    /\ a.pc = "prune"
    /\ ~(a.stale \subseteq pending[a.proc])
    /\ \E gone \in SUBSET (a.stale \cap pending[a.proc]) :
         pending' = [pending EXCEPT ![a.proc] = @ \ gone]
    /\ authorize' = [authorize EXCEPT ![r].pc = "failed", ![r].stale = {}]
    /\ UNCHANGED <<codes, stored, used, consent, exchange, revoke, ended,
                   limits>>

EndAuthorize(r) == LET a == authorize[r] IN
    /\ a.pc = "prune"
    /\ a.stale \subseteq pending[a.proc]
    /\ pending' = [pending EXCEPT ![a.proc] =
                     (@ \ a.stale) \cup {[req |-> r, exp |-> now + PendingTTL]}]
    /\ authorize' = [authorize EXCEPT ![r].pc = "told", ![r].stale = {},
                                      ![r].exp = now + PendingTTL]
    /\ UNCHANGED <<codes, stored, used, consent, exchange, revoke, ended,
                   limits>>

\* The browser comes back from the consent page, to whichever process answers.
BeginConsent(c) ==
    /\ consent[c].pc = "idle"
    /\ \E p \in Procs, r \in Requests, g \in Grants :
         /\ authorize[r].pc = "told"
         /\ consent' = [consent EXCEPT ![c] =
              [@ EXCEPT !.pc = "prune", !.proc = p, !.req = r, !.grant = g,
                        !.stale = {e \in pending[p] : Stale(e)}]]
    /\ UNCHANGED <<pending, codes, stored, used, authorize, exchange, revoke, ended,
                   limits>>

FailConsent(c) == LET me == consent[c] IN
    /\ me.pc = "prune"
    /\ ~(me.stale \subseteq pending[me.proc])
    /\ \E gone \in SUBSET (me.stale \cap pending[me.proc]) :
         pending' = [pending EXCEPT ![me.proc] = @ \ gone]
    /\ consent' = [consent EXCEPT ![c].pc = "failed", ![c].stale = {}]
    /\ UNCHANGED <<codes, stored, used, authorize, exchange, revoke, ended,
                   limits>>

IsPending(p, r) == \E e \in pending'[p] : e.req = r

FindPending(c) == LET me == consent[c] IN
    /\ me.pc = "prune"
    /\ me.stale \subseteq pending[me.proc]
    /\ pending' = [pending EXCEPT ![me.proc] = @ \ me.stale]
    /\ consent' = [consent EXCEPT
                     ![c].pc = IF IsPending(me.proc, me.req) THEN "redeem"
                               ELSE "unknown",
                     ![c].stale = {}]
    /\ UNCHANGED <<codes, stored, used, authorize, exchange, revoke, ended,
                   limits>>

\* redeem_grant: the API takes a grant once; a refused or lost redemption ends
\* the consent and leaves the request as it was.
Redeem(c) == LET me == consent[c] IN
    /\ me.pc = "redeem"
    /\ \/ /\ me.grant \in used
          /\ consent' = [consent EXCEPT ![c].pc = "failed"]
          /\ UNCHANGED <<used, faults>>
       \/ /\ me.grant \notin used
          /\ \E o \in {"ok", "lost", "late"} :
               /\ Spend(o)
               /\ used' = IF Applied(o) THEN used \cup {me.grant} ELSE used
               /\ consent' = [consent EXCEPT
                                ![c].pc = IF o = "ok" THEN "finish" ELSE "failed"]
    /\ UNCHANGED <<pending, codes, stored, authorize, exchange, revoke, ended,
                   now, restarts>>

\* The request is consumed, whether or not a code comes of it.
Finish(c) == LET me    == consent[c]
                 asked == authorize[me.req].asked IN
    /\ me.pc = "finish"
    /\ pending' = [pending EXCEPT ![me.proc] = {e \in @ : e.req # me.req}]
    /\ IF NothingGranted(asked, Granted(c))
       THEN /\ consent' = [consent EXCEPT ![c].pc = "refused"]
            /\ UNCHANGED codes
       ELSE /\ consent' = [consent EXCEPT ![c].pc = "told"]
            /\ codes' = [codes EXCEPT ![me.proc] = @ \cup
                 {[code |-> c, scopes |-> EffectiveScopes(asked, Granted(c)),
                   exp |-> now + CodeTTL]}]
    /\ UNCHANGED <<stored, used, authorize, exchange, revoke, ended, limits>>

-----------------------------------------------------------------------------
(* Exchanges.                                                              *)

Begin(e, p, c, from, scopes, pc) ==
    exchange' = [exchange EXCEPT ![e] =
      [@ EXCEPT !.pc = pc, !.proc = p, !.code = c, !.from = from,
                !.want = scopes, !.scopes = scopes]]

\* Mutant: the code stays after its exchange.
KeepsCode(p, k) == codes[p]

Spent(p, k) == codes[p] \ {k}

\* load_authorization_code and the two pops of the exchange; a code of another
\* process or past its time is refused.
RedeemCode(e) ==
    /\ exchange[e].pc = "idle"
    /\ \E p \in Procs, c \in Consents :
         /\ consent[c].pc = "told"
         /\ LoopFree(p)
         /\ Registered(ClientOf(c))
         /\ \/ \E k \in codes[p] :
                 /\ k.code = c /\ k.exp >= now
                 /\ codes' = [codes EXCEPT ![p] = Spent(p, k)]
                 /\ Begin(e, p, c, NoExchange, k.scopes, "access")
            \/ /\ \A k \in codes[p] : k.code = c => k.exp < now
               /\ Begin(e, p, c, NoExchange, {}, "refused")
               /\ UNCHANGED codes
    /\ UNCHANGED <<pending, stored, used, authorize, consent, revoke, ended,
                   limits>>

Held(d) == {t \in refresh : t.token = d}

\* load_refresh_token: one past its time is dropped.  The scopes a client may
\* ask for are those the token has; {} stands for all of them.
LoadRefresh(e) ==
    /\ exchange[e].pc = "idle"
    /\ \E p \in Procs, d \in Exchanges :
         LET code == exchange[d].code IN
         /\ exchange[d].pc = "told"
         /\ LoopFree(p)
         /\ Registered(ClientOf(code))
         /\ \/ \E t \in Held(d) :
                 /\ t.exp >= now
                 /\ \E want \in SUBSET t.scopes :
                      Begin(e, p, code, d,
                            IF want = {} THEN t.scopes ELSE want, "pop")
                 /\ UNCHANGED refresh
            \/ /\ \A t \in Held(d) : t.exp < now
               /\ Begin(e, p, code, d, {}, "refused")
               /\ refresh' = refresh \ Held(d)
    /\ UNCHANGED <<clients, access, pending, codes, used, authorize, consent,
                   revoke, ended, limits>>

Unmoved == UNCHANGED <<clients, pending, codes, used, authorize, consent, revoke,
                       ended, now, restarts>>

To(e, o, pc) ==
    /\ Spend(o)
    /\ exchange' = [exchange EXCEPT ![e].pc = IF o = "ok" THEN pc ELSE "failed"]

\* Mutant: the rotation goes on with the token that was loaded.
PopsAsLoaded(d) == "delete"

AfterRead(d) == IF Held(d) = {} THEN "refused" ELSE "delete"

\* pop: reads the token, then deletes it.
PopReads(e) == LET me == exchange[e] IN
    /\ me.pc = "pop"
    /\ \E o \in Ends \ {"late"} : To(e, o, AfterRead(me.from))
    /\ Unmoved /\ UNCHANGED <<access, refresh>>

\* Mutant: a popped token stays.
KeepsPopped(d) == refresh

Popped(d) == refresh \ Held(d)

\* The scopes are settled once the token presented is gone.
PopDeletes(e) == LET me == exchange[e]
                     granted == Granted(me.code) IN
    /\ me.pc = "delete"
    /\ \E o \in Ends :
         /\ Spend(o)
         /\ refresh' = IF Applied(o) THEN Popped(me.from) ELSE refresh
         /\ exchange' = [exchange EXCEPT ![e] = [@ EXCEPT
              !.pc = IF o # "ok" THEN "failed"
                     ELSE IF NothingGranted(me.want, granted) THEN "refused"
                     ELSE "access",
              !.scopes = EffectiveScopes(me.want, granted)]]
    /\ Unmoved /\ UNCHANGED access

PutAccess(e) == LET me == exchange[e] IN
    /\ me.pc = "access"
    /\ \E o \in Ends :
         /\ To(e, o, "refresh")
         /\ access' = IF Applied(o)
                      THEN access \cup {[token |-> e, scopes |-> me.scopes,
                                         exp |-> now + AccessTTL]}
                      ELSE access
    /\ Unmoved /\ UNCHANGED refresh

RefreshExpiry == now + RefreshTTL

\* The answer with the new pair may be lost on its way to the client.
PutRefresh(e) == LET me == exchange[e] IN
    /\ me.pc = "refresh"
    /\ \E o \in Ends, answer \in {"told", "untold"} :
         /\ Spend(o)
         /\ refresh' = IF Applied(o)
                       THEN refresh \cup {[token |-> e, scopes |-> me.scopes,
                                           exp |-> RefreshExpiry]}
                       ELSE refresh
         /\ exchange' = [exchange EXCEPT
                           ![e].pc = IF o = "ok" THEN answer ELSE "failed",
                           ![e].exp = now + RefreshTTL]
    /\ Unmoved /\ UNCHANGED access

\* TokenStore.get drops an access token past its time.
DropAccess(t) ==
    /\ t.exp <= now
    /\ access' = access \ {t}
    /\ UNCHANGED <<clients, refresh, pending, codes, used, calls, ended, limits>>

\* A client revokes a token that it holds and the server still knows.
BeginRevoke(v) ==
    /\ revoke[v].pc = "idle"
    /\ \E p \in Procs, kind \in {"access", "refresh"} :
         /\ LoopFree(p)
         /\ \E t \in IF kind = "access" THEN access ELSE refresh :
              /\ exchange[t.token].pc = "told"
              /\ t.exp >= now
              /\ revoke' = [revoke EXCEPT ![v] =
                   [pc |-> "access", proc |-> p, kind |-> kind, token |-> t.token]]
    /\ UNCHANGED <<clients, access, refresh, pending, codes, used, authorize,
                   consent, exchange, ended, limits>>

Named(v, kind, tokens) ==
    {t \in tokens : revoke[v].kind = kind /\ t.token = revoke[v].token}

Goes(v, o, pc) ==
    /\ Spend(o)
    /\ revoke' = [revoke EXCEPT ![v].pc = IF o = "ok" THEN pc ELSE "failed"]

\* revoke_token deletes the token from the token store, whatever its kind, and
\* pops it from the refresh registry.
RevokeAccess(v) ==
    /\ revoke[v].pc = "access"
    /\ \E o \in Ends :
         /\ Goes(v, o, "look")
         /\ access' = IF Applied(o) THEN access \ Named(v, "access", access)
                      ELSE access
    /\ UNCHANGED <<clients, refresh, pending, codes, used, authorize, consent,
                   exchange, ended, now, restarts>>

RevokeLooks(v) ==
    /\ revoke[v].pc = "look"
    /\ \E o \in Ends \ {"late"} :
         Goes(v, o, IF Named(v, "refresh", refresh) = {} THEN "told" ELSE "drop")
    /\ UNCHANGED <<stored, pending, codes, used, authorize, consent, exchange,
                   ended, now, restarts>>

Revoked(v) == refresh \ Named(v, "refresh", refresh)

\* The token is the only one of its line that is registered, and no exchange has
\* read a token of the line and is not over.
LastOfLine(v) == LET d == revoke[v].token IN
    /\ Named(v, "refresh", refresh) # {}
    /\ \A t \in refresh : exchange[t.token].code = exchange[d].code => t.token = d
    /\ \A e \in Exchanges :
         exchange[e].code = exchange[d].code =>
           exchange[e].pc \notin {"delete", "access", "refresh"}

RevokeDrops(v) ==
    /\ revoke[v].pc = "drop"
    /\ \E o \in Ends :
         /\ Goes(v, o, "told")
         /\ refresh' = IF Applied(o) THEN Revoked(v) ELSE refresh
         /\ ended' = IF Applied(o) /\ LastOfLine(v)
                     THEN ended \cup {exchange[revoke[v].token].code} ELSE ended
    /\ UNCHANGED <<clients, access, pending, codes, used, authorize, consent,
                   exchange, now, restarts>>

-----------------------------------------------------------------------------
(* The surroundings.                                                       *)

\* Redis drops a key when its time is up.
Tick ==
    /\ now < MaxTime
    /\ now' = now + 1
    /\ IF SharedStore
       THEN /\ access' = {t \in access : t.exp > now'}
            /\ refresh' = {t \in refresh : t.exp > now'}
       ELSE UNCHANGED <<access, refresh>>
    /\ UNCHANGED <<clients, pending, codes, used, calls, ended, faults, restarts>>

\* The time to live of a key is cut to whole seconds (_ttl_from): it may go in
\* the second before its time is up.
KeyGoesEarly ==
    /\ SharedStore
    /\ \/ \E t \in access : /\ t.exp = now + 1
                            /\ access' = access \ {t}
                            /\ UNCHANGED refresh
       \/ \E t \in refresh : /\ t.exp = now + 1
                             /\ refresh' = refresh \ {t}
                             /\ UNCHANGED access
    /\ UNCHANGED <<clients, pending, codes, used, calls, ended, limits>>

Killed(me, p) ==
    IF me.proc = p /\ me.pc \notin {"idle", "told", "untold", "unknown",
                                    "refused", "failed", "dead"}
    THEN [me EXCEPT !.pc = "dead"] ELSE me

\* Mutant: what is in Redis goes with the process as well.
LosesAll == FALSE

Survives == SharedStore

\* A process dies and comes back: its handshakes are gone, and without Redis so
\* is everything else.
Restart(p) ==
    /\ restarts < MaxRestarts
    /\ restarts' = restarts + 1
    /\ pending' = [pending EXCEPT ![p] = {}]
    /\ codes' = [codes EXCEPT ![p] = {}]
    /\ authorize' = [r \in Requests |-> Killed(authorize[r], p)]
    /\ consent' = [c \in Consents |-> Killed(consent[c], p)]
    /\ exchange' = [e \in Exchanges |-> Killed(exchange[e], p)]
    /\ revoke' = [v \in Revocations |-> Killed(revoke[v], p)]
    /\ IF Survives THEN UNCHANGED stored
       ELSE /\ clients' = [cl \in Clients |->
                              IF Registered(cl) THEN now ELSE clients[cl]]
            /\ access' = {} /\ refresh' = {}
    /\ UNCHANGED <<used, ended, now, faults>>

\* Nothing is being handled, and nothing need be asked for any more.
Quiet ==
    /\ \A p \in Procs : LoopFree(p)
    /\ \A c \in Consents : consent[c].pc \notin {"prune", "redeem", "finish"}
    /\ UNCHANGED vars

Next ==
    \/ \E cl \in Clients : Register(cl)
    \/ \E r \in Requests :
         BeginAuthorize(r) \/ FailAuthorize(r) \/ EndAuthorize(r)
    \/ \E c \in Consents :
         BeginConsent(c) \/ FailConsent(c) \/ FindPending(c) \/ Redeem(c) \/ Finish(c)
    \/ \E e \in Exchanges :
         \/ RedeemCode(e) \/ LoadRefresh(e) \/ PopReads(e) \/ PopDeletes(e)
         \/ PutAccess(e) \/ PutRefresh(e)
    \/ \E t \in access : DropAccess(t)
    \/ \E v \in Revocations :
         BeginRevoke(v) \/ RevokeAccess(v) \/ RevokeLooks(v) \/ RevokeDrops(v)
    \/ Tick
    \/ KeyGoesEarly
    \/ \E p \in Procs : Restart(p)
    \/ Quiet

Spec == Init /\ [][Next]_vars

-----------------------------------------------------------------------------
(* Properties.                                                             *)

TypeOK ==
    /\ clients \in [Clients -> Nat]
    /\ pending \in [Procs -> SUBSET Pending]
    /\ codes \in [Procs -> SUBSET Code]
    /\ access \subseteq Token /\ refresh \subseteq Token
    /\ used \subseteq Grants /\ ended \subseteq Consents
    /\ authorize \in [Requests -> Authorize]
    /\ consent \in [Consents -> Consent]
    /\ exchange \in [Exchanges -> Exchange]
    /\ revoke \in [Revocations -> Revoke]
    /\ now \in 0..MaxTime /\ faults \in 0..MaxFaults
    /\ restarts \in 0..MaxRestarts

Allowed(scopes, c) ==
    LET asked == authorize[consent[c].req].asked IN
    /\ Granted(c) # {} => scopes \subseteq Granted(c)
    /\ asked # {} => scopes \subseteq asked

\* No code and no token carries a scope the user did not grant or the client
\* did not ask for, after any number of rotations that narrow the scopes.
ScopesWithinGrant ==
    /\ \A p \in Procs : \A k \in codes[p] : Allowed(k.scopes, k.code)
    /\ \A t \in access \cup refresh : Allowed(t.scopes, exchange[t.token].code)

\* The scope check that follows the pop of a refresh token never fails: no
\* client loses its token to it.
RotationNotRefused ==
    \A e \in Exchanges :
      exchange[e].pc = "delete" =>
        ~NothingGranted(exchange[e].want, Granted(exchange[e].code))

\* A code that was issued is exchanged at most once, by whichever process and
\* however often the client sends it.
CodeOnce ==
    \A e, f \in Exchanges :
      /\ exchange[e].pc \in {"told", "untold"}
      /\ exchange[f].pc \in {"told", "untold"}
      /\ exchange[e].from = NoExchange /\ exchange[f].from = NoExchange
      /\ exchange[e].code = exchange[f].code
      => e = f

\* Rotation replaces: of the refresh tokens that descend from one code, one at
\* most can still be used.
OneLiveRefresh ==
    \A s, t \in refresh : exchange[s.token].code = exchange[t.token].code => s = t

\* Revoking the one refresh token of a line that is registered ends the line:
\* whatever other processes do meanwhile with a token they have loaded but not
\* yet read again for its rotation, no token of the line is registered any more.
\* (A rotation that has read the token may survive the revocation.)
RevokedIsTheEnd == \A t \in refresh : exchange[t.token].code \notin ended

Presented(e) ==
    \/ \E f \in Exchanges : exchange[f].from = e
    \/ \E v \in Revocations : /\ revoke[v].pc # "idle"
                              /\ revoke[v].kind = "refresh" /\ revoke[v].token = e

\* A refresh token a client was given, and has presented neither for rotation
\* nor for revocation, is registered until the last second of its time, over
\* restarts of the server and whatever else fails.
HeldTokenWorks ==
    \A e \in Exchanges :
      /\ exchange[e].pc = "told" /\ now + 1 < exchange[e].exp
      /\ ~Presented(e)
      => Held(e) # {}

Consumed(r) ==
    \E c \in Consents : consent[c].req = r /\ consent[c].pc \in {"told", "refused"}

\* A consent is turned away as unknown only when its request has expired or
\* another consent has consumed it: a redemption that failed leaves the user
\* able to click Allow again.
AllowAgainWorks ==
    \A c \in Consents :
      consent[c].pc = "unknown" =>
        authorize[consent[c].req].exp < now \/ Consumed(consent[c].req)

-----------------------------------------------------------------------------
(* What the repository says and the program does not do.                   *)

\* One authorize request gives one code: "a consumed request_id must not be
\* replayable" (test_oauth_provider_flow.py).
RequestOnce ==
    \A c, d \in Consents :
      /\ consent[c].pc = "told" /\ consent[d].pc = "told"
      /\ consent[c].req = consent[d].req
      => c = d

=============================================================================
