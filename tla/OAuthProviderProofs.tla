------------------------- MODULE OAuthProviderProofs -------------------------
(***************************************************************************)
(* Theorems about OAuthProvider, for every number of processes, clients,   *)
(* requests, consents and exchanges, with Redis or without, and for every  *)
(* value of the bounds: types; that scopes only ever narrow, whatever      *)
(* races, fails and restarts; that a code is exchanged once; and, where    *)
(* one process serves everything or where Redis keeps it, what becomes of  *)
(* the refresh tokens of a line and of the requests that wait for consent. *)
(***************************************************************************)
EXTENDS OAuthProvider, TLAPS

-----------------------------------------------------------------------------
(* Types.                                                                  *)

LEMMA Inhabited ==
    /\ Some(Procs) \in Procs /\ Some(Clients) \in Clients
    /\ Some(Requests) \in Requests /\ Some(Consents) \in Consents
    /\ Some(Grants) \in Grants
<1>1. \A S : S # {} => Some(S) \in S
  BY DEF Some
<1>2. Procs # {} /\ Clients # {} /\ Requests # {} /\ Consents # {} /\ Grants # {}
  BY ActorAssumption
<1>3. QED
  BY <1>1, <1>2

LEMMA InitType == Init => TypeOK
<1> SUFFICES ASSUME Init PROVE TypeOK
  OBVIOUS
<1>1. authorize \in [Requests -> Authorize]
  BY Inhabited DEF Init, Authorize
<1>2. consent \in [Consents -> Consent]
  BY Inhabited DEF Init, Consent
<1>3. exchange \in [Exchanges -> Exchange]
  BY Inhabited DEF Init, Exchange
<1>4. /\ clients \in [Clients -> Nat]
      /\ revoke \in [Revocations -> Revoke]
      /\ pending \in [Procs -> SUBSET Pending]
      /\ codes \in [Procs -> SUBSET Code]
  BY Inhabited DEF Init, Revoke
<1>5. now \in 0..MaxTime /\ faults \in 0..MaxFaults /\ restarts \in 0..MaxRestarts
  BY NumberAssumption DEF Init
<1>6. QED
  BY <1>1, <1>2, <1>3, <1>4, <1>5 DEF Init, TypeOK

LEMMA SpendType ==
    ASSUME TypeOK, NEW o, Spend(o)
    PROVE  faults' \in 0..MaxFaults
  BY NumberAssumption DEF TypeOK, Spend

LEMMA GrantType ==
    ASSUME TypeOK, NEW c \in Consents
    PROVE  /\ Granted(c) \subseteq Scopes
           /\ authorize[consent[c].req].asked \subseteq Scopes
<1>1. consent[c].req \in Requests /\ consent[c].grant \in Grants
  BY DEF TypeOK, Consent
<1>2. GrantScopes[consent[c].grant] \subseteq Scopes
  BY <1>1, GrantAssumption
<1>3. authorize[consent[c].req] \in Authorize
  BY <1>1 DEF TypeOK
<1>4. QED
  BY <1>2, <1>3 DEF Granted, Authorize

LEMMA EffectiveType ==
    ASSUME NEW a \in SUBSET Scopes, NEW g \in SUBSET Scopes
    PROVE  EffectiveScopes(a, g) \subseteq Scopes
  BY DEF EffectiveScopes

\* Registration, authorize and consent.
LEMMA HandshakeType ==
    ASSUME TypeOK,
           \/ \E cl \in Clients : Register(cl)
           \/ \E r \in Requests :
                BeginAuthorize(r) \/ FailAuthorize(r) \/ EndAuthorize(r)
           \/ \E c \in Consents :
                \/ BeginConsent(c) \/ FailConsent(c) \/ FindPending(c)
                \/ Redeem(c) \/ Finish(c)
    PROVE  TypeOK'
<1>1. CASE \E cl \in Clients : Register(cl)
  BY <1>1, NumberAssumption DEF Register, TypeOK, calls, limits
<1>2. ASSUME NEW r \in Requests, BeginAuthorize(r) PROVE TypeOK'
  <2>1. authorize' \in [Requests -> Authorize]
    <3>1. PICK p \in Procs, cl \in Clients, asked \in Asks :
            authorize' = [authorize EXCEPT ![r] =
              [@ EXCEPT !.pc = "prune", !.proc = p, !.client = cl,
                        !.asked = asked,
                        !.stale = {e \in pending[p] : Stale(e)}]]
      BY <1>2 DEF BeginAuthorize
    <3>2. {e \in pending[p] : Stale(e)} \subseteq Pending
      BY DEF TypeOK
    <3>3. asked \in SUBSET Scopes
      BY GrantAssumption
    <3>4. [authorize[r] EXCEPT !.pc = "prune", !.proc = p, !.client = cl,
                               !.asked = asked,
                               !.stale = {e \in pending[p] : Stale(e)}] \in Authorize
      BY <3>2, <3>3 DEF TypeOK, Authorize
    <3>5. QED
      BY <3>1, <3>4 DEF TypeOK
  <2>2. QED
    BY <1>2, <2>1 DEF BeginAuthorize, TypeOK, stored, limits
<1>3. ASSUME NEW r \in Requests, FailAuthorize(r) PROVE TypeOK'
  <2>1. authorize' \in [Requests -> Authorize]
    BY <1>3 DEF FailAuthorize, TypeOK, Authorize
  <2>2. pending' \in [Procs -> SUBSET Pending]
    BY <1>3 DEF FailAuthorize, TypeOK
  <2>3. QED
    BY <1>3, <2>1, <2>2 DEF FailAuthorize, TypeOK, stored, limits
<1>4. ASSUME NEW r \in Requests, EndAuthorize(r) PROVE TypeOK'
  <2>1. now + PendingTTL \in Nat
    BY NumberAssumption DEF TypeOK
  <2>2. authorize' \in [Requests -> Authorize]
    <3>1. [authorize[r] EXCEPT !.pc = "told", !.stale = {},
                               !.exp = now + PendingTTL] \in Authorize
      BY <2>1 DEF TypeOK, Authorize
    <3>2. QED
      BY <1>4, <3>1 DEF EndAuthorize, TypeOK
  <2>3. [req |-> r, exp |-> now + PendingTTL] \in Pending
    BY <2>1 DEF Pending
  <2>4. pending' \in [Procs -> SUBSET Pending]
    BY <1>4, <2>3 DEF EndAuthorize, TypeOK
  <2>5. QED
    BY <1>4, <2>2, <2>4 DEF EndAuthorize, TypeOK, stored, limits
<1>5. ASSUME NEW c \in Consents, BeginConsent(c) PROVE TypeOK'
  <2>1. consent' \in [Consents -> Consent]
    <3>1. PICK p \in Procs, r \in Requests, g \in Grants :
            consent' = [consent EXCEPT ![c] =
              [@ EXCEPT !.pc = "prune", !.proc = p, !.req = r, !.grant = g,
                        !.stale = {e \in pending[p] : Stale(e)}]]
      BY <1>5 DEF BeginConsent
    <3>2. {e \in pending[p] : Stale(e)} \subseteq Pending
      BY DEF TypeOK
    <3>3. [consent[c] EXCEPT !.pc = "prune", !.proc = p, !.req = r, !.grant = g,
                             !.stale = {e \in pending[p] : Stale(e)}] \in Consent
      BY <3>2 DEF TypeOK, Consent
    <3>4. QED
      BY <3>1, <3>3 DEF TypeOK
  <2>2. QED
    BY <1>5, <2>1 DEF BeginConsent, TypeOK, stored, limits
<1>6. ASSUME NEW c \in Consents, FailConsent(c) PROVE TypeOK'
  <2>1. consent' \in [Consents -> Consent]
    BY <1>6 DEF FailConsent, TypeOK, Consent
  <2>2. pending' \in [Procs -> SUBSET Pending]
    BY <1>6 DEF FailConsent, TypeOK
  <2>3. QED
    BY <1>6, <2>1, <2>2 DEF FailConsent, TypeOK, stored, limits
<1>7. ASSUME NEW c \in Consents, FindPending(c) PROVE TypeOK'
  <2>1. consent' \in [Consents -> Consent]
    BY <1>7 DEF FindPending, TypeOK, Consent
  <2>2. pending' \in [Procs -> SUBSET Pending]
    BY <1>7 DEF FindPending, TypeOK
  <2>3. QED
    BY <1>7, <2>1, <2>2 DEF FindPending, TypeOK, stored, limits
<1>8. ASSUME NEW c \in Consents, Redeem(c) PROVE TypeOK'
  <2>1. consent' \in [Consents -> Consent]
    <3>1. PICK pc \in {"failed", "finish"} : consent' = [consent EXCEPT ![c].pc = pc]
      BY <1>8 DEF Redeem
    <3>2. QED
      BY <3>1 DEF TypeOK, Consent
  <2>2. used' \subseteq Grants
    <3>1. consent[c].grant \in Grants
      BY DEF TypeOK, Consent
    <3>2. used' \in {used, used \cup {consent[c].grant}}
      BY <1>8 DEF Redeem
    <3>3. QED
      BY <3>1, <3>2 DEF TypeOK
  <2>3. faults' \in 0..MaxFaults
    BY <1>8, SpendType DEF Redeem, TypeOK
  <2>4. QED
    BY <1>8, <2>1, <2>2, <2>3 DEF Redeem, TypeOK, stored
<1>9. ASSUME NEW c \in Consents, Finish(c) PROVE TypeOK'
  <2> DEFINE asked == authorize[consent[c].req].asked
  <2>1. consent' \in [Consents -> Consent]
    BY <1>9 DEF Finish, TypeOK, Consent
  <2>2. pending' \in [Procs -> SUBSET Pending]
    BY <1>9 DEF Finish, TypeOK
  <2>3. [code |-> c, scopes |-> EffectiveScopes(asked, Granted(c)),
         exp |-> now + CodeTTL] \in Code
    <3>1. now + CodeTTL \in Nat
      BY NumberAssumption DEF TypeOK
    <3>2. EffectiveScopes(asked, Granted(c)) \subseteq Scopes
      BY GrantType, EffectiveType
    <3>3. QED
      BY <3>1, <3>2 DEF Code
  <2>4. codes' \in [Procs -> SUBSET Code]
    BY <1>9, <2>3 DEF Finish, TypeOK
  <2>5. QED
    BY <1>9, <2>1, <2>2, <2>4 DEF Finish, TypeOK, stored, limits
<1>10. QED
  BY <1>1, <1>2, <1>3, <1>4, <1>5, <1>6, <1>7, <1>8, <1>9

LEMMA BeginType ==
    ASSUME TypeOK, NEW e \in Exchanges, NEW p \in Procs, NEW c \in Consents,
           NEW from \in Exchanges \cup {NoExchange}, NEW scopes \in SUBSET Scopes,
           NEW pc \in {"pop", "access", "refused"}, Begin(e, p, c, from, scopes, pc)
    PROVE  exchange' \in [Exchanges -> Exchange]
<1>1. [exchange[e] EXCEPT !.pc = pc, !.proc = p, !.code = c, !.from = from,
                          !.want = scopes, !.scopes = scopes] \in Exchange
  BY DEF TypeOK, Exchange
<1>2. QED
  BY <1>1 DEF Begin, TypeOK

LEMMA ToType ==
    ASSUME TypeOK, NEW e \in Exchanges, NEW o, NEW pc \in {"refused", "delete", "refresh"},
           To(e, o, pc)
    PROVE  exchange' \in [Exchanges -> Exchange] /\ faults' \in 0..MaxFaults
<1>1. faults' \in 0..MaxFaults
  BY SpendType DEF To
<1>2. exchange' \in [Exchanges -> Exchange]
  BY DEF To, TypeOK, Exchange
<1>3. QED
  BY <1>1, <1>2

LEMMA ExchangeType ==
    ASSUME TypeOK, NEW e \in Exchanges,
           \/ RedeemCode(e) \/ LoadRefresh(e) \/ PopReads(e) \/ PopDeletes(e)
           \/ PutAccess(e) \/ PutRefresh(e)
    PROVE  TypeOK'
<1>1. CASE RedeemCode(e)
  <2>1. PICK p \in Procs, c \in Consents :
          \/ \E k \in codes[p] :
               /\ codes' = [codes EXCEPT ![p] = Spent(p, k)]
               /\ Begin(e, p, c, NoExchange, k.scopes, "access")
          \/ Begin(e, p, c, NoExchange, {}, "refused") /\ UNCHANGED codes
    BY <1>1 DEF RedeemCode
  <2>2. \A k \in codes[p] : k.scopes \in SUBSET Scopes
    BY DEF TypeOK, Code
  <2>3. exchange' \in [Exchanges -> Exchange]
    BY <2>1, <2>2, BeginType
  <2>4. codes' \in [Procs -> SUBSET Code]
    BY <2>1 DEF TypeOK, Spent
  <2>5. QED
    BY <1>1, <2>3, <2>4 DEF RedeemCode, TypeOK, stored, limits
<1>2. CASE LoadRefresh(e)
  <2>1. PICK p \in Procs, d \in Exchanges :
          \/ \E t \in Held(d) : \E want \in SUBSET t.scopes :
               /\ Begin(e, p, exchange[d].code, d,
                        IF want = {} THEN t.scopes ELSE want, "pop")
               /\ UNCHANGED refresh
          \/ /\ Begin(e, p, exchange[d].code, d, {}, "refused")
             /\ refresh' = refresh \ Held(d)
    BY <1>2 DEF LoadRefresh
  <2>2. /\ exchange[d].code \in Consents
        /\ \A t \in Held(d) : t.scopes \in SUBSET Scopes
    BY DEF TypeOK, Exchange, Held, Token
  <2>3. exchange' \in [Exchanges -> Exchange]
    <3>1. \A t \in Held(d) : \A want \in SUBSET t.scopes :
            (IF want = {} THEN t.scopes ELSE want) \in SUBSET Scopes
      BY <2>2
    <3>2. QED
      BY <2>1, <2>2, <3>1, BeginType
  <2>4. refresh' \subseteq Token
    BY <2>1 DEF TypeOK
  <2>5. QED
    BY <1>2, <2>3, <2>4 DEF LoadRefresh, TypeOK, limits
<1>3. CASE PopReads(e)
  <2>1. exchange' \in [Exchanges -> Exchange] /\ faults' \in 0..MaxFaults
    BY <1>3, ToType DEF PopReads, AfterRead
  <2>2. QED
    BY <1>3, <2>1 DEF PopReads, TypeOK, Unmoved
<1>4. CASE PopDeletes(e)
  <2> DEFINE scopes == EffectiveScopes(exchange[e].want, Granted(exchange[e].code))
  <2>1. scopes \subseteq Scopes
    <3>1. exchange[e].code \in Consents /\ exchange[e].want \subseteq Scopes
      BY DEF TypeOK, Exchange
    <3>2. QED
      BY <3>1, GrantType, EffectiveType
  <2>2. PICK o \in Ends :
          /\ Spend(o)
          /\ refresh' = IF Applied(o) THEN Popped(exchange[e].from) ELSE refresh
          /\ \E pc \in {"failed", "refused", "access"} :
               exchange' = [exchange EXCEPT ![e] =
                              [@ EXCEPT !.pc = pc, !.scopes = scopes]]
    BY <1>4 DEF PopDeletes
  <2> HIDE DEF scopes
  <2>3. exchange' \in [Exchanges -> Exchange]
    <3>1. \A pc \in {"failed", "refused", "access"} :
            [exchange[e] EXCEPT !.pc = pc, !.scopes = scopes] \in Exchange
      BY <2>1 DEF TypeOK, Exchange
    <3>2. QED
      BY <2>2, <3>1 DEF TypeOK
  <2>4. refresh' \subseteq Token
    BY <2>2 DEF TypeOK, Popped
  <2>5. faults' \in 0..MaxFaults
    BY <2>2, SpendType
  <2>6. QED
    BY <1>4, <2>3, <2>4, <2>5 DEF PopDeletes, TypeOK, Unmoved
<1>5. CASE PutAccess(e)
  <2>1. exchange' \in [Exchanges -> Exchange] /\ faults' \in 0..MaxFaults
    BY <1>5, ToType DEF PutAccess
  <2>2. [token |-> e, scopes |-> exchange[e].scopes, exp |-> now + AccessTTL] \in Token
    <3>1. exchange[e].scopes \subseteq Scopes
      BY DEF TypeOK, Exchange
    <3>2. now + AccessTTL \in Nat
      BY NumberAssumption DEF TypeOK
    <3>3. QED
      BY <3>1, <3>2 DEF Token
  <2>3. access' \subseteq Token
    BY <1>5, <2>2 DEF PutAccess, TypeOK
  <2>4. QED
    BY <1>5, <2>1, <2>3 DEF PutAccess, TypeOK, Unmoved
<1>6. CASE PutRefresh(e)
  <2>1. PICK o \in Ends, pc \in {"told", "untold", "failed"} :
          /\ Spend(o)
          /\ exchange' = [exchange EXCEPT ![e].pc = pc, ![e].exp = now + RefreshTTL]
    BY <1>6 DEF PutRefresh
  <2>2. now + RefreshTTL \in Nat
    BY NumberAssumption DEF TypeOK
  <2>3. exchange' \in [Exchanges -> Exchange]
    <3>1. [exchange[e] EXCEPT !.pc = pc, !.exp = now + RefreshTTL] \in Exchange
      BY <2>2 DEF TypeOK, Exchange
    <3>2. QED
      BY <2>1, <3>1 DEF TypeOK
  <2>4. faults' \in 0..MaxFaults
    BY <2>1, SpendType
  <2>5. [token |-> e, scopes |-> exchange[e].scopes, exp |-> RefreshExpiry] \in Token
    <3>1. exchange[e].scopes \subseteq Scopes
      BY DEF TypeOK, Exchange
    <3>2. QED
      BY <2>2, <3>1 DEF Token, RefreshExpiry
  <2>6. refresh' \subseteq Token
    BY <1>6, <2>5 DEF PutRefresh, TypeOK
  <2>7. QED
    BY <1>6, <2>3, <2>4, <2>6 DEF PutRefresh, TypeOK, Unmoved
<1>7. QED
  BY <1>1, <1>2, <1>3, <1>4, <1>5, <1>6

Revoking(v) == BeginRevoke(v) \/ RevokeAccess(v) \/ RevokeLooks(v) \/ RevokeDrops(v)

\* A revocation moves nothing but its tokens and itself.
LEMMA RevokeShape ==
    ASSUME NEW v \in Revocations, Revoking(v)
    PROVE  /\ UNCHANGED <<clients, pending, codes, used, authorize, consent, exchange,
                          now, restarts>>
           /\ access' \subseteq access
           /\ \/ refresh' = refresh /\ ended' = ended
              \/ /\ revoke[v].pc = "drop" /\ refresh' = Revoked(v)
                 /\ ended' = IF LastOfLine(v)
                             THEN ended \cup {exchange[revoke[v].token].code} ELSE ended
<1>1. CASE BeginRevoke(v)
  BY <1>1 DEF BeginRevoke, limits
<1>2. CASE RevokeAccess(v)
  BY <1>2 DEF RevokeAccess
<1>3. CASE RevokeLooks(v)
  BY <1>3 DEF RevokeLooks, stored
<1>4. CASE RevokeDrops(v)
  BY <1>4 DEF RevokeDrops
<1>5. QED
  BY <1>1, <1>2, <1>3, <1>4 DEF Revoking

\* A revocation that has begun keeps the token it was called with.
RevokesStay ==
    \A v \in Revocations :
      revoke[v].pc # "idle" =>
        /\ revoke'[v].pc # "idle"
        /\ revoke'[v].kind = revoke[v].kind /\ revoke'[v].token = revoke[v].token

LEMMA GoesType ==
    ASSUME TypeOK, NEW v \in Revocations, NEW o, NEW pc \in {"look", "drop", "told"},
           Goes(v, o, pc), revoke[v].pc # "idle"
    PROVE  /\ revoke' \in [Revocations -> Revoke] /\ faults' \in 0..MaxFaults
           /\ RevokesStay
<1>1. faults' \in 0..MaxFaults
  BY SpendType DEF Goes
<1>2. PICK q \in {"look", "drop", "told", "failed"} : revoke' = [revoke EXCEPT ![v].pc = q]
  BY DEF Goes
<1>3. revoke' \in [Revocations -> Revoke] /\ RevokesStay
  BY <1>2 DEF TypeOK, Revoke, RevokesStay
<1>4. QED
  BY <1>1, <1>3

LEMMA RevokeMoves ==
    ASSUME TypeOK, NEW v \in Revocations, Revoking(v)
    PROVE  /\ revoke' \in [Revocations -> Revoke] /\ faults' \in 0..MaxFaults
           /\ RevokesStay
<1>1. CASE BeginRevoke(v)
  <2>1. PICK p \in Procs, kind \in {"access", "refresh"}, t \in access \cup refresh :
          revoke' = [revoke EXCEPT ![v] =
                       [pc |-> "access", proc |-> p, kind |-> kind, token |-> t.token]]
    BY <1>1 DEF BeginRevoke
  <2>2. t.token \in Exchanges
    BY DEF TypeOK, Token
  <2>3. revoke' \in [Revocations -> Revoke]
    BY <2>1, <2>2 DEF TypeOK, Revoke
  <2>4. \A u \in Revocations : revoke[u].pc # "idle" => revoke'[u] = revoke[u]
    BY <1>1, <2>1 DEF BeginRevoke, TypeOK
  <2>5. faults' \in 0..MaxFaults
    BY <1>1 DEF BeginRevoke, limits, TypeOK
  <2>6. QED
    BY <2>3, <2>4, <2>5 DEF RevokesStay
<1>2. CASE RevokeAccess(v)
  <2>1. PICK o \in Ends : Goes(v, o, "look")
    BY <1>2 DEF RevokeAccess
  <2>2. revoke[v].pc # "idle"
    BY <1>2 DEF RevokeAccess
  <2>3. QED
    BY <2>1, <2>2, GoesType
<1>3. CASE RevokeLooks(v)
  <2>1. PICK o \in Ends, pc \in {"told", "drop"} : Goes(v, o, pc)
    BY <1>3 DEF RevokeLooks
  <2>2. revoke[v].pc # "idle"
    BY <1>3 DEF RevokeLooks
  <2>3. QED
    BY <2>1, <2>2, GoesType
<1>4. CASE RevokeDrops(v)
  <2>1. PICK o \in Ends : Goes(v, o, "told")
    BY <1>4 DEF RevokeDrops
  <2>2. revoke[v].pc # "idle"
    BY <1>4 DEF RevokeDrops
  <2>3. QED
    BY <2>1, <2>2, GoesType
<1>5. QED
  BY <1>1, <1>2, <1>3, <1>4 DEF Revoking

LEMMA RevokeType ==
    ASSUME TypeOK, NEW v \in Revocations, Revoking(v)
    PROVE  TypeOK'
<1>1. /\ UNCHANGED <<clients, pending, codes, used, authorize, consent, exchange,
                     now, restarts>>
      /\ access' \subseteq access /\ refresh' \subseteq refresh
  BY RevokeShape DEF Revoked
<1>2. revoke' \in [Revocations -> Revoke] /\ faults' \in 0..MaxFaults
  BY RevokeMoves
<1>3. ended' \subseteq Consents
  <2>1. ASSUME LastOfLine(v) PROVE exchange[revoke[v].token].code \in Consents
    <3>1. PICK t \in refresh : t.token = revoke[v].token
      BY <2>1 DEF LastOfLine, Named
    <3>2. t.token \in Exchanges
      BY DEF TypeOK, Token
    <3>3. QED
      BY <3>1, <3>2 DEF TypeOK, Exchange
  <2>2. QED
    BY <2>1, RevokeShape DEF TypeOK
<1>4. QED
  BY <1>1, <1>2, <1>3 DEF TypeOK

LEMMA SurroundingsType ==
    ASSUME TypeOK,
           \/ \E t \in access : DropAccess(t)
           \/ KeyGoesEarly
           \/ Tick
           \/ \E p \in Procs : Restart(p)
           \/ UNCHANGED vars
    PROVE  TypeOK'
<1>1. CASE \E t \in access : DropAccess(t)
  BY <1>1 DEF DropAccess, TypeOK, calls, limits
<1>2. CASE KeyGoesEarly
  BY <1>2 DEF KeyGoesEarly, TypeOK, calls, limits
<1>3. CASE Tick
  BY <1>3, NumberAssumption DEF Tick, TypeOK, calls
<1>4. ASSUME NEW p \in Procs, Restart(p) PROVE TypeOK'
  <2>1. /\ authorize' \in [Requests -> Authorize]
        /\ consent' \in [Consents -> Consent]
        /\ exchange' \in [Exchanges -> Exchange]
        /\ revoke' \in [Revocations -> Revoke]
    <3>1. \A r \in Requests : Killed(authorize[r], p) \in Authorize
      BY DEF Killed, TypeOK, Authorize
    <3>2. \A c \in Consents : Killed(consent[c], p) \in Consent
      BY DEF Killed, TypeOK, Consent
    <3>3. \A x \in Exchanges : Killed(exchange[x], p) \in Exchange
      BY DEF Killed, TypeOK, Exchange
    <3>4. \A v \in Revocations : Killed(revoke[v], p) \in Revoke
      BY DEF Killed, TypeOK, Revoke
    <3>5. QED
      BY <1>4, <3>1, <3>2, <3>3, <3>4 DEF Restart
  <2>2. clients' \in [Clients -> Nat] /\ access' \subseteq Token /\ refresh' \subseteq Token
    BY <1>4 DEF Restart, TypeOK, stored
  <2>3. restarts' \in 0..MaxRestarts
    BY <1>4, NumberAssumption DEF Restart, TypeOK
  <2>4. QED
    BY <1>4, <2>1, <2>2, <2>3 DEF Restart, TypeOK
<1>5. CASE UNCHANGED vars
  BY <1>5 DEF vars, TypeOK
<1>6. QED
  BY <1>1, <1>2, <1>3, <1>4, <1>5

LEMMA NextType == TypeOK /\ [Next]_vars => TypeOK'
  BY HandshakeType, ExchangeType, RevokeType, SurroundingsType DEF Next, Quiet, Revoking

\* Every variable keeps its type.
THEOREM TypeCorrect == Spec => []TypeOK
<1>1. Init => TypeOK
  BY InitType
<1>2. TypeOK /\ [Next]_vars => TypeOK'
  BY NextType
<1>3. QED
  BY <1>1, <1>2, PTL DEF Spec

-----------------------------------------------------------------------------
(* Scopes: no code and no token of a line goes beyond what the user granted *)
(* and the client asked for, and a rotation is never refused after it has   *)
(* used up the token presented.                                             *)

AskedBy(c) == authorize[consent[c].req].asked

\* What a code or token of consent c may carry: ScopesWithinGrant asks for the
\* inclusions, and it takes a non-empty set for them to survive a rotation,
\* since the empty set is read as everything.
Good(S, c) ==
    /\ Granted(c) # {} => S # {} /\ S \subseteq Granted(c)
    /\ AskedBy(c) # {} => S \subseteq AskedBy(c)

Begun(e) == exchange[e].pc # "idle"
Told(c)  == consent[c].pc = "told"

RequestsTold ==
    \A c \in Consents :
      consent[c].pc # "idle" => authorize[consent[c].req].pc = "told"
CodesTold == \A e \in Exchanges : Begun(e) => Told(exchange[e].code)
GoodCodes ==
    \A p \in Procs : \A k \in codes[p] : Told(k.code) /\ Good(k.scopes, k.code)
GoodTokens ==
    \A t \in access \cup refresh :
      Begun(t.token) /\ Good(t.scopes, exchange[t.token].code)
GoodExchanges ==
    \A e \in Exchanges :
      /\ exchange[e].pc \in {"pop", "delete"} =>
           Good(exchange[e].want, exchange[e].code)
      /\ exchange[e].pc \in {"access", "refresh"} =>
           Good(exchange[e].scopes, exchange[e].code)

ScopeInv == RequestsTold /\ CodesTold /\ GoodCodes /\ GoodTokens /\ GoodExchanges

-----------------------------------------------------------------------------
(* Narrowing.                                                              *)

LEMMA FirstNarrowing ==
    ASSUME NEW c \in Consents, ~NothingGranted(AskedBy(c), Granted(c))
    PROVE  Good(EffectiveScopes(AskedBy(c), Granted(c)), c)
  BY DEF NothingGranted, EffectiveScopes, Good

LEMMA NextNarrowing ==
    ASSUME NEW c \in Consents, NEW want, Good(want, c)
    PROVE  /\ ~NothingGranted(want, Granted(c))
           /\ Good(EffectiveScopes(want, Granted(c)), c)
  BY DEF NothingGranted, EffectiveScopes, Good

-----------------------------------------------------------------------------
(* What a call has settled stays settled.                                  *)

Settled ==
    /\ \A r \in Requests :
         authorize[r].pc = "told" =>
           /\ authorize'[r].pc = "told"
           /\ authorize'[r].asked = authorize[r].asked
    /\ \A c \in Consents :
         consent[c].pc # "idle" =>
           /\ consent'[c].pc # "idle"
           /\ Told(c) => Told(c)'
           /\ consent'[c].req = consent[c].req
           /\ consent'[c].grant = consent[c].grant
    /\ \A e \in Exchanges :
         Begun(e) => Begun(e)' /\ exchange'[e].code = exchange[e].code

LEMMA AuthorizeSettles ==
    ASSUME TypeOK, NEW r \in Requests,
           BeginAuthorize(r) \/ FailAuthorize(r) \/ EndAuthorize(r)
    PROVE  Settled
<1>1. authorize' \in [Requests -> Authorize]
  BY HandshakeType DEF TypeOK
<1>2. \A s \in Requests : authorize[s].pc = "told" => authorize'[s] = authorize[s]
  BY DEF BeginAuthorize, FailAuthorize, EndAuthorize, TypeOK
<1>3. UNCHANGED <<consent, exchange>>
  BY DEF BeginAuthorize, FailAuthorize, EndAuthorize
<1>4. QED
  BY <1>2, <1>3 DEF Settled, Told, Begun

LEMMA ConsentSettles ==
    ASSUME TypeOK, NEW c \in Consents,
           \/ BeginConsent(c) \/ FailConsent(c) \/ FindPending(c) \/ Redeem(c)
           \/ Finish(c)
    PROVE  Settled
<1>1. UNCHANGED <<authorize, exchange>>
  BY DEF BeginConsent, FailConsent, FindPending, Redeem, Finish
<1>2. \A d \in Consents \ {c} : consent'[d] = consent[d]
  BY DEF BeginConsent, FailConsent, FindPending, Redeem, Finish, TypeOK
<1>3. consent[c].pc # "idle" =>
        /\ consent'[c].pc # "idle"
        /\ consent'[c].req = consent[c].req
        /\ consent'[c].grant = consent[c].grant
  <2>1. CASE BeginConsent(c)
    BY <2>1 DEF BeginConsent
  <2>2. CASE FailConsent(c) \/ FindPending(c)
    BY <2>2 DEF FailConsent, FindPending, TypeOK, Consent
  <2>3. CASE Redeem(c)
    BY <2>3 DEF Redeem, TypeOK, Consent
  <2>4. CASE Finish(c)
    BY <2>4 DEF Finish, TypeOK, Consent
  <2>5. QED
    BY <2>1, <2>2, <2>3, <2>4
<1>4. ~Told(c)
  BY DEF BeginConsent, FailConsent, FindPending, Redeem, Finish, Told
<1>5. QED
  BY <1>1, <1>2, <1>3, <1>4 DEF Settled, Told, Begun

LEMMA ExchangeSettles ==
    ASSUME TypeOK, NEW e \in Exchanges,
           \/ RedeemCode(e) \/ LoadRefresh(e) \/ PopReads(e) \/ PopDeletes(e)
           \/ PutAccess(e) \/ PutRefresh(e)
    PROVE  /\ Settled
           /\ \A d \in Exchanges \ {e} : exchange'[d] = exchange[d]
           /\ UNCHANGED <<authorize, consent>>
<1>1. UNCHANGED <<authorize, consent>>
  BY DEF RedeemCode, LoadRefresh, PopReads, PopDeletes, PutAccess, PutRefresh, Unmoved
<1>2. \A d \in Exchanges \ {e} : exchange'[d] = exchange[d]
  BY DEF RedeemCode, LoadRefresh, PopReads, PopDeletes, PutAccess, PutRefresh,
         Begin, To, TypeOK
<1>3. Begun(e) => Begun(e)' /\ exchange'[e].code = exchange[e].code
  <2>1. CASE RedeemCode(e) \/ LoadRefresh(e)
    BY <2>1 DEF RedeemCode, LoadRefresh, Begun
  <2>2. CASE PopReads(e) \/ PutAccess(e)
    <3>1. \E pc \in {"failed", "refused", "delete", "refresh"} :
            exchange' = [exchange EXCEPT ![e].pc = pc]
      BY <2>2 DEF PopReads, PutAccess, To, AfterRead
    <3>2. QED
      BY <3>1 DEF TypeOK, Exchange, Begun
  <2>3. CASE PopDeletes(e)
    <3> DEFINE scopes == EffectiveScopes(exchange[e].want, Granted(exchange[e].code))
    <3>1. \E pc \in {"failed", "refused", "access"} :
            exchange' = [exchange EXCEPT ![e] = [@ EXCEPT !.pc = pc, !.scopes = scopes]]
      BY <2>3 DEF PopDeletes
    <3> HIDE DEF scopes
    <3>2. QED
      BY <3>1 DEF TypeOK, Exchange, Begun
  <2>4. CASE PutRefresh(e)
    <3>1. \E pc \in {"failed", "told", "untold"} :
            exchange' = [exchange EXCEPT ![e].pc = pc, ![e].exp = now + RefreshTTL]
      BY <2>4 DEF PutRefresh
    <3>2. QED
      BY <3>1 DEF TypeOK, Exchange, Begun
  <2>5. QED
    BY <2>1, <2>2, <2>3, <2>4
<1>4. QED
  BY <1>1, <1>2, <1>3 DEF Settled, Told, Begun

LEMMA RestartSettles ==
    ASSUME TypeOK, NEW p \in Procs, Restart(p)
    PROVE  Settled
<1>1. \A r \in Requests :
        authorize[r].pc = "told" => authorize'[r] = authorize[r]
  BY DEF Restart, Killed
<1>2. \A c \in Consents :
        /\ consent'[c].req = consent[c].req /\ consent'[c].grant = consent[c].grant
        /\ consent[c].pc # "idle" => consent'[c].pc # "idle"
        /\ Told(c) => Told(c)'
  BY DEF Restart, Killed, TypeOK, Consent, Told
<1>3. \A e \in Exchanges :
        Begun(e) => Begun(e)' /\ exchange'[e].code = exchange[e].code
  BY DEF Restart, Killed, TypeOK, Exchange, Begun
<1>4. QED
  BY <1>1, <1>2, <1>3 DEF Settled

LEMMA GoodStays ==
    ASSUME TypeOK, RequestsTold, Settled, NEW c \in Consents, Told(c), NEW S, Good(S, c)
    PROVE  /\ Told(c)'
           /\ Good(S, c)'
<1>1. consent[c].req \in Requests
  BY DEF TypeOK, Consent
<1>2. authorize[consent[c].req].pc = "told"
  BY DEF RequestsTold, Told
<1>3. AskedBy(c)' = AskedBy(c) /\ Granted(c)' = Granted(c) /\ Told(c)'
  BY <1>1, <1>2 DEF Settled, Told, AskedBy, Granted
<1>4. QED
  BY <1>3 DEF Good

-----------------------------------------------------------------------------
(* A step preserves ScopeInv when what it begins or issues is good.        *)

GoodBeginnings ==
    /\ \A c \in Consents :
         consent[c].pc = "idle" /\ consent'[c].pc # "idle" =>
           authorize'[consent'[c].req].pc = "told"
    /\ \A e \in Exchanges : ~Begun(e) /\ Begun(e)' => Told(exchange[e].code)'

GoodIssues ==
    /\ \A p \in Procs : \A k \in codes'[p] \ codes[p] :
         Told(k.code)' /\ Good(k.scopes, k.code)'
    /\ \A t \in (access' \cup refresh') \ (access \cup refresh) :
         Begun(t.token)' /\ Good(t.scopes, exchange[t.token].code)'

GoodMoves ==
    \A e \in Exchanges :
      /\ exchange'[e].pc \in {"pop", "delete"} =>
           \/ /\ exchange[e].pc \in {"pop", "delete"}
              /\ exchange'[e].want = exchange[e].want
           \/ Good(exchange[e].want, exchange[e].code)'
      /\ exchange'[e].pc \in {"access", "refresh"} =>
           \/ /\ exchange[e].pc \in {"access", "refresh"}
              /\ exchange'[e].scopes = exchange[e].scopes
           \/ Good(exchange[e].scopes, exchange[e].code)'

LEMMA GoodStep ==
    ASSUME TypeOK, ScopeInv, Settled, GoodBeginnings, GoodIssues, GoodMoves
    PROVE  ScopeInv'
<1>1. RequestsTold'
  <2>1. ASSUME NEW c \in Consents, consent'[c].pc # "idle"
        PROVE  authorize'[consent'[c].req].pc = "told"
    <3>1. CASE consent[c].pc = "idle"
      BY <2>1, <3>1 DEF GoodBeginnings
    <3>2. CASE consent[c].pc # "idle"
      <4>1. consent[c].req \in Requests /\ authorize[consent[c].req].pc = "told"
        BY <3>2 DEF TypeOK, Consent, ScopeInv, RequestsTold
      <4>2. consent'[c].req = consent[c].req
        BY <3>2 DEF Settled
      <4>3. QED
        BY <4>1, <4>2 DEF Settled
    <3>3. QED
      BY <3>1, <3>2
  <2>2. QED
    BY <2>1 DEF RequestsTold
<1>2. CodesTold'
  <2>1. ASSUME NEW e \in Exchanges, Begun(e)'
        PROVE  Told(exchange[e].code)'
    <3>1. CASE ~Begun(e)
      BY <2>1, <3>1 DEF GoodBeginnings
    <3>2. CASE Begun(e)
      <4>1. exchange[e].code \in Consents /\ Told(exchange[e].code)
        BY <3>2 DEF TypeOK, Exchange, ScopeInv, CodesTold
      <4>2. exchange'[e].code = exchange[e].code
        BY <3>2 DEF Settled
      <4>3. QED
        BY <4>1, <4>2 DEF Settled, Told
    <3>3. QED
      BY <3>1, <3>2
  <2>2. QED
    BY <2>1 DEF CodesTold
<1>3. GoodCodes'
  <2>1. ASSUME NEW p \in Procs, NEW k \in codes'[p]
        PROVE  Told(k.code)' /\ Good(k.scopes, k.code)'
    <3>1. CASE k \in codes[p]
      <4>1. k.code \in Consents
        BY <3>1 DEF TypeOK, Code
      <4>2. Told(k.code) /\ Good(k.scopes, k.code)
        BY <3>1 DEF ScopeInv, GoodCodes
      <4>3. QED
        BY <4>1, <4>2, GoodStays DEF ScopeInv
    <3>2. CASE k \notin codes[p]
      BY <3>2 DEF GoodIssues
    <3>3. QED
      BY <3>1, <3>2
  <2>2. QED
    BY <2>1 DEF GoodCodes
<1>4. GoodTokens'
  <2>1. ASSUME NEW t \in access' \cup refresh'
        PROVE  Begun(t.token)' /\ Good(t.scopes, exchange[t.token].code)'
    <3>1. CASE t \in access \cup refresh
      <4>1. t.token \in Exchanges /\ exchange[t.token].code \in Consents
        BY <3>1 DEF TypeOK, Token, Exchange
      <4>2. Begun(t.token) /\ Good(t.scopes, exchange[t.token].code)
        BY <3>1 DEF ScopeInv, GoodTokens
      <4>3. Told(exchange[t.token].code)
        BY <4>1, <4>2 DEF ScopeInv, CodesTold
      <4> DEFINE c == exchange[t.token].code
      <4>4. Good(t.scopes, c)'
        <5> SUFFICES ASSUME NEW d \in Consents, d = c PROVE Good(t.scopes, d)'
          BY <4>1, <4>2 DEF Settled, Good, AskedBy, Granted
        <5>1. QED
          BY <4>2, <4>3, GoodStays DEF ScopeInv
      <4>5. QED
        BY <4>1, <4>2, <4>4 DEF Settled
    <3>2. CASE t \notin access \cup refresh
      BY <3>2 DEF GoodIssues
    <3>3. QED
      BY <3>1, <3>2
  <2>2. QED
    BY <2>1 DEF GoodTokens
<1>5. GoodExchanges'
  <2>1. ASSUME NEW e \in Exchanges, Begun(e), NEW S, Good(S, exchange[e].code)
        PROVE  Good(S, exchange[e].code)'
    <3>1. exchange[e].code \in Consents /\ Told(exchange[e].code)
      BY <2>1 DEF TypeOK, Exchange, ScopeInv, CodesTold
    <3>2. exchange'[e].code = exchange[e].code
      BY <2>1 DEF Settled
    <3>3. PICK d \in Consents : d = exchange[e].code
      BY <3>1
    <3>4. Good(S, d)'
      BY <2>1, <3>1, <3>3, GoodStays DEF ScopeInv
    <3>5. QED
      BY <3>2, <3>3, <3>4 DEF Good, AskedBy, Granted
  <2>2. ASSUME NEW e \in Exchanges, exchange'[e].pc \in {"pop", "delete"}
        PROVE  Good(exchange[e].want, exchange[e].code)'
    <3>1. CASE /\ exchange[e].pc \in {"pop", "delete"}
               /\ exchange'[e].want = exchange[e].want
      <4>1. Begun(e) /\ Good(exchange[e].want, exchange[e].code)
        BY <3>1 DEF ScopeInv, GoodExchanges, Begun
      <4>2. PICK S : S = exchange[e].want
        OBVIOUS
      <4>3. Good(S, exchange[e].code)'
        BY <2>1, <4>1, <4>2
      <4>4. QED
        BY <3>1, <4>2, <4>3 DEF Good, AskedBy, Granted
    <3>2. QED
      BY <2>2, <3>1 DEF GoodMoves
  <2>3. ASSUME NEW e \in Exchanges, exchange'[e].pc \in {"access", "refresh"}
        PROVE  Good(exchange[e].scopes, exchange[e].code)'
    <3>1. CASE /\ exchange[e].pc \in {"access", "refresh"}
               /\ exchange'[e].scopes = exchange[e].scopes
      <4>1. Begun(e) /\ Good(exchange[e].scopes, exchange[e].code)
        BY <3>1 DEF ScopeInv, GoodExchanges, Begun
      <4>2. PICK S : S = exchange[e].scopes
        OBVIOUS
      <4>3. Good(S, exchange[e].code)'
        BY <2>1, <4>1, <4>2
      <4>4. QED
        BY <3>1, <4>2, <4>3 DEF Good, AskedBy, Granted
    <3>2. QED
      BY <2>3, <3>1 DEF GoodMoves
  <2>4. QED
    BY <2>2, <2>3 DEF GoodExchanges
<1>6. QED
  BY <1>1, <1>2, <1>3, <1>4, <1>5 DEF ScopeInv

-----------------------------------------------------------------------------
(* Action by action.                                                       *)

\* Steps that leave the exchanges alone and issue nothing.
LEMMA NothingIssued ==
    ASSUME TypeOK, ScopeInv, Settled, UNCHANGED exchange,
           \A p \in Procs : codes'[p] \subseteq codes[p],
           access' \subseteq access, refresh' \subseteq refresh,
           \A c \in Consents :
             consent[c].pc = "idle" /\ consent'[c].pc # "idle" =>
               authorize'[consent'[c].req].pc = "told"
    PROVE  ScopeInv'
<1>1. GoodBeginnings /\ GoodIssues
  BY DEF GoodBeginnings, GoodIssues, Begun
<1>2. GoodMoves
  BY DEF GoodMoves
<1>3. QED
  BY <1>1, <1>2, GoodStep

LEMMA HandshakeScopes ==
    ASSUME TypeOK, ScopeInv,
           \/ \E r \in Requests :
                BeginAuthorize(r) \/ FailAuthorize(r) \/ EndAuthorize(r)
           \/ \E c \in Consents :
                BeginConsent(c) \/ FailConsent(c) \/ FindPending(c) \/ Redeem(c)
    PROVE  ScopeInv'
<1>1. Settled
  BY AuthorizeSettles, ConsentSettles
<1>2. UNCHANGED <<exchange, codes, access, refresh>>
  BY DEF BeginAuthorize, FailAuthorize, EndAuthorize, BeginConsent, FailConsent,
         FindPending, Redeem, stored
<1>3. ASSUME NEW c \in Consents, consent[c].pc = "idle", consent'[c].pc # "idle"
      PROVE  authorize'[consent'[c].req].pc = "told"
  <2>1. CASE \E r \in Requests :
               BeginAuthorize(r) \/ FailAuthorize(r) \/ EndAuthorize(r)
    BY <1>3, <2>1 DEF BeginAuthorize, FailAuthorize, EndAuthorize
  <2>2. ASSUME NEW d \in Consents, BeginConsent(d)
        PROVE  authorize'[consent'[c].req].pc = "told"
    BY <1>3, <2>2 DEF BeginConsent, TypeOK, Consent
  <2>3. ASSUME NEW d \in Consents, FailConsent(d) \/ FindPending(d) \/ Redeem(d)
        PROVE  FALSE
    BY <1>3, <2>3 DEF FailConsent, FindPending, Redeem, TypeOK
  <2>4. QED
    BY <2>1, <2>2, <2>3
<1>4. QED
  BY <1>1, <1>2, <1>3, NothingIssued

LEMMA FinishScopes ==
    ASSUME TypeOK, ScopeInv, NEW c \in Consents, Finish(c)
    PROVE  ScopeInv'
<1>1. Settled
  BY ConsentSettles
<1>2. UNCHANGED <<exchange, access, refresh, authorize>>
  BY DEF Finish, stored
<1>3. \A d \in Consents : consent[d].pc = "idle" => consent'[d].pc = "idle"
  BY DEF Finish, TypeOK
<1>4. CASE NothingGranted(AskedBy(c), Granted(c))
  <2>1. UNCHANGED codes
    BY <1>4 DEF Finish, AskedBy
  <2>2. QED
    BY <1>1, <1>2, <1>3, <2>1, NothingIssued
<1>5. CASE ~NothingGranted(AskedBy(c), Granted(c))
  <2> DEFINE S == EffectiveScopes(AskedBy(c), Granted(c))
             k == [code |-> c, scopes |-> S, exp |-> now + CodeTTL]
  <2>1. /\ consent' = [consent EXCEPT ![c].pc = "told"]
        /\ codes' = [codes EXCEPT ![consent[c].proc] = @ \cup {k}]
    BY <1>5 DEF Finish, AskedBy
  <2>2. Told(c)'
    BY <2>1 DEF Told, TypeOK, Consent
  <2>3. AskedBy(c)' = AskedBy(c) /\ Granted(c)' = Granted(c)
    BY <1>2, <2>1 DEF AskedBy, Granted, TypeOK, Consent
  <2>4. Good(S, c)
    BY <1>5, FirstNarrowing
  <2>5. \A p \in Procs : \A l \in codes'[p] \ codes[p] : l = k
    BY <2>1 DEF TypeOK
  <2> HIDE DEF S
  <2>6. ASSUME NEW T, T = S PROVE Good(T, c)'
    BY <2>3, <2>4, <2>6 DEF Good
  <2>7. GoodIssues
    <3>1. ASSUME NEW p \in Procs, NEW l \in codes'[p] \ codes[p]
          PROVE  Told(l.code)' /\ Good(l.scopes, l.code)'
      <4>1. l.code = c /\ l.scopes = S
        BY <2>5
      <4>2. QED
        BY <2>2, <2>6, <4>1
    <3>2. QED
      BY <1>2, <3>1 DEF GoodIssues
  <2>8. GoodBeginnings
    BY <1>2, <1>3 DEF GoodBeginnings, Begun
  <2>9. GoodMoves
    BY <1>2 DEF GoodMoves
  <2>10. QED
    BY <1>1, <2>7, <2>8, <2>9, GoodStep
<1>6. QED
  BY <1>4, <1>5

\* What an exchange leaves to be shown: it changes no consent, so what is good
\* stays good.
LEMMA ExchangeStep ==
    ASSUME TypeOK, ScopeInv, NEW e \in Exchanges,
           \/ RedeemCode(e) \/ LoadRefresh(e) \/ PopReads(e) \/ PopDeletes(e)
           \/ PutAccess(e) \/ PutRefresh(e),
           ~Begun(e) => Told(exchange'[e].code),
           \A p \in Procs : codes'[p] \subseteq codes[p],
           \A t \in (access' \cup refresh') \ (access \cup refresh) :
             /\ t.token = e /\ Begun(e)
             /\ Good(t.scopes, exchange[e].code),
           exchange'[e].pc \in {"pop", "delete"} =>
             Good(exchange'[e].want, exchange'[e].code),
           exchange'[e].pc \in {"access", "refresh"} =>
             Good(exchange'[e].scopes, exchange'[e].code)
    PROVE  ScopeInv'
<1>1. /\ Settled
      /\ \A d \in Exchanges \ {e} : exchange'[d] = exchange[d]
      /\ UNCHANGED <<authorize, consent>>
  BY ExchangeSettles
<1>2. GoodBeginnings
  BY <1>1 DEF GoodBeginnings, Begun, Told
<1>3. GoodIssues
  <2>1. ASSUME NEW t \in (access' \cup refresh') \ (access \cup refresh)
        PROVE  Begun(t.token)' /\ Good(t.scopes, exchange[t.token].code)'
    <3>1. t.token = e /\ Begun(e) /\ Good(t.scopes, exchange[e].code)
      OBVIOUS
    <3>2. exchange'[e].code = exchange[e].code /\ Begun(e)'
      BY <1>1, <3>1 DEF Settled
    <3>3. QED
      BY <1>1, <3>1, <3>2 DEF Good, AskedBy, Granted, Begun
  <2>2. QED
    BY <2>1 DEF GoodIssues
<1>4. GoodMoves
  <2>1. ASSUME NEW d \in Exchanges
        PROVE  /\ exchange'[d].pc \in {"pop", "delete"} =>
                    \/ /\ exchange[d].pc \in {"pop", "delete"}
                       /\ exchange'[d].want = exchange[d].want
                    \/ Good(exchange[d].want, exchange[d].code)'
               /\ exchange'[d].pc \in {"access", "refresh"} =>
                    \/ /\ exchange[d].pc \in {"access", "refresh"}
                       /\ exchange'[d].scopes = exchange[d].scopes
                    \/ Good(exchange[d].scopes, exchange[d].code)'
    <3>1. CASE d # e
      BY <1>1, <3>1
    <3>2. CASE d = e
      BY <1>1, <3>2 DEF Good, AskedBy, Granted
    <3>3. QED
      BY <3>1, <3>2
  <2>2. QED
    BY <2>1 DEF GoodMoves
<1>5. QED
  BY <1>1, <1>2, <1>3, <1>4, GoodStep

LEMMA BeginValue ==
    ASSUME TypeOK, NEW e \in Exchanges, NEW p, NEW c, NEW from, NEW scopes, NEW pc,
           Begin(e, p, c, from, scopes, pc)
    PROVE  /\ exchange'[e].pc = pc /\ exchange'[e].code = c
           /\ exchange'[e].want = scopes /\ exchange'[e].scopes = scopes
  BY DEF Begin, TypeOK, Exchange

LEMMA RedeemCodeScopes ==
    ASSUME TypeOK, ScopeInv, NEW e \in Exchanges, RedeemCode(e)
    PROVE  ScopeInv'
<1>1. PICK p \in Procs, c \in Consents :
        /\ Told(c)
        /\ \/ \E k \in codes[p] :
                /\ k.code = c
                /\ codes' = [codes EXCEPT ![p] = Spent(p, k)]
                /\ Begin(e, p, c, NoExchange, k.scopes, "access")
           \/ Begin(e, p, c, NoExchange, {}, "refused") /\ UNCHANGED codes
  BY DEF RedeemCode, Told
<1>2. UNCHANGED <<access, refresh>>
  BY DEF RedeemCode, stored
<1>3. CASE \E k \in codes[p] :
             /\ k.code = c
             /\ codes' = [codes EXCEPT ![p] = Spent(p, k)]
             /\ Begin(e, p, c, NoExchange, k.scopes, "access")
  <2>1. PICK k \in codes[p] :
          /\ k.code = c
          /\ codes' = [codes EXCEPT ![p] = Spent(p, k)]
          /\ Begin(e, p, c, NoExchange, k.scopes, "access")
    BY <1>3
  <2>2. Good(k.scopes, c)
    BY <2>1 DEF ScopeInv, GoodCodes
  <2>3. /\ exchange'[e].pc = "access" /\ exchange'[e].code = c
        /\ exchange'[e].scopes = k.scopes
    BY <2>1, BeginValue
  <2>4. \A q \in Procs : codes'[q] \subseteq codes[q]
    BY <2>1 DEF TypeOK, Spent
  <2>5. Good(exchange'[e].scopes, exchange'[e].code)
    BY <2>2, <2>3
  <2>6. QED
    BY <1>1, <1>2, <2>3, <2>4, <2>5, ExchangeStep
<1>4. CASE Begin(e, p, c, NoExchange, {}, "refused") /\ UNCHANGED codes
  <2>1. exchange'[e].pc = "refused" /\ exchange'[e].code = c
    BY <1>4, BeginValue
  <2>2. QED
    BY <1>1, <1>2, <1>4, <2>1, ExchangeStep
<1>5. QED
  BY <1>1, <1>3, <1>4

LEMMA LoadRefreshScopes ==
    ASSUME TypeOK, ScopeInv, NEW e \in Exchanges, LoadRefresh(e)
    PROVE  ScopeInv'
<1>1. PICK p \in Procs, d \in Exchanges :
        /\ exchange[d].pc = "told"
        /\ \/ \E t \in Held(d) : \E want \in SUBSET t.scopes :
                /\ Begin(e, p, exchange[d].code, d,
                         IF want = {} THEN t.scopes ELSE want, "pop")
                /\ UNCHANGED refresh
           \/ /\ Begin(e, p, exchange[d].code, d, {}, "refused")
              /\ refresh' = refresh \ Held(d)
  BY DEF LoadRefresh
<1>2. UNCHANGED <<access, codes>> /\ refresh' \subseteq refresh
  BY <1>1 DEF LoadRefresh
<1>3. Told(exchange[d].code)
  BY <1>1 DEF ScopeInv, CodesTold, Begun
<1>4. CASE \E t \in Held(d) : \E want \in SUBSET t.scopes :
             Begin(e, p, exchange[d].code, d,
                   IF want = {} THEN t.scopes ELSE want, "pop")
  <2>1. PICK t \in Held(d) : \E want \in SUBSET t.scopes :
             Begin(e, p, exchange[d].code, d,
                   IF want = {} THEN t.scopes ELSE want, "pop")
    BY <1>4
  <2>2. PICK want \in SUBSET t.scopes :
             Begin(e, p, exchange[d].code, d,
                   IF want = {} THEN t.scopes ELSE want, "pop")
    BY <2>1
  <2> DEFINE S == IF want = {} THEN t.scopes ELSE want
  <2>3. Good(t.scopes, exchange[d].code)
    BY DEF Held, ScopeInv, GoodTokens
  <2>4. Good(S, exchange[d].code)
    BY <2>3 DEF Good
  <2> HIDE DEF S
  <2>5. Begin(e, p, exchange[d].code, d, S, "pop")
    BY <2>2 DEF S
  <2>6. /\ exchange'[e].pc = "pop" /\ exchange'[e].code = exchange[d].code
        /\ exchange'[e].want = S
    BY <2>5, BeginValue
  <2>7. Good(exchange'[e].want, exchange'[e].code)
    BY <2>4, <2>6
  <2>8. QED
    BY <1>2, <1>3, <2>6, <2>7, ExchangeStep
<1>5. CASE Begin(e, p, exchange[d].code, d, {}, "refused")
  <2>1. exchange'[e].pc = "refused" /\ exchange'[e].code = exchange[d].code
    BY <1>5, BeginValue
  <2>2. QED
    BY <1>2, <1>3, <2>1, ExchangeStep
<1>6. QED
  BY <1>1, <1>4, <1>5

LEMMA PopReadsScopes ==
    ASSUME TypeOK, ScopeInv, NEW e \in Exchanges, PopReads(e)
    PROVE  ScopeInv'
<1>1. exchange[e].pc = "pop" /\ UNCHANGED <<codes, access, refresh>>
  BY DEF PopReads, Unmoved
<1>2. PICK pc \in {"refused", "delete", "failed"} :
        exchange' = [exchange EXCEPT ![e].pc = pc]
  BY DEF PopReads, To, AfterRead
<1>3. /\ exchange'[e].pc = pc /\ exchange'[e].code = exchange[e].code
      /\ exchange'[e].want = exchange[e].want
  BY <1>2 DEF TypeOK, Exchange
<1>4. Begun(e) /\ Good(exchange[e].want, exchange[e].code)
  BY <1>1 DEF ScopeInv, GoodExchanges, Begun
<1>5. QED
  BY <1>1, <1>3, <1>4, ExchangeStep

LEMMA PopDeletesScopes ==
    ASSUME TypeOK, ScopeInv, NEW e \in Exchanges, PopDeletes(e)
    PROVE  ScopeInv'
<1> DEFINE S == EffectiveScopes(exchange[e].want, Granted(exchange[e].code))
<1>1. /\ exchange[e].pc = "delete" /\ UNCHANGED <<codes, access>>
      /\ refresh' \subseteq refresh
  BY DEF PopDeletes, Unmoved, Popped
<1>2. PICK pc \in {"failed", "refused", "access"} :
        exchange' = [exchange EXCEPT ![e] = [@ EXCEPT !.pc = pc, !.scopes = S]]
  BY DEF PopDeletes
<1>3. Begun(e) /\ Good(exchange[e].want, exchange[e].code)
  BY <1>1 DEF ScopeInv, GoodExchanges, Begun
<1>4. exchange[e].code \in Consents
  BY DEF TypeOK, Exchange
<1>5. Good(S, exchange[e].code)
  BY <1>3, <1>4, NextNarrowing
<1> HIDE DEF S
<1>6. /\ exchange'[e].pc = pc /\ exchange'[e].code = exchange[e].code
      /\ exchange'[e].scopes = S
  BY <1>2 DEF TypeOK, Exchange
<1>7. Good(exchange'[e].scopes, exchange'[e].code)
  BY <1>5, <1>6
<1>8. QED
  BY <1>1, <1>3, <1>6, <1>7, ExchangeStep

LEMMA PutScopes ==
    ASSUME TypeOK, ScopeInv, NEW e \in Exchanges, PutAccess(e) \/ PutRefresh(e)
    PROVE  ScopeInv'
<1>1. exchange[e].pc \in {"access", "refresh"} /\ UNCHANGED codes
  BY DEF PutAccess, PutRefresh, Unmoved
<1>2. Begun(e) /\ Good(exchange[e].scopes, exchange[e].code)
  BY <1>1 DEF ScopeInv, GoodExchanges, Begun
<1>3. \A t \in (access' \cup refresh') \ (access \cup refresh) :
        t.token = e /\ t.scopes = exchange[e].scopes
  <2>1. CASE PutAccess(e)
    <3>1. /\ access' \subseteq access \cup {[token |-> e, scopes |-> exchange[e].scopes,
                                             exp |-> now + AccessTTL]}
          /\ refresh' = refresh
      BY <2>1 DEF PutAccess
    <3>2. QED
      BY <3>1
  <2>2. CASE PutRefresh(e)
    <3>1. /\ refresh' \subseteq refresh \cup {[token |-> e, scopes |-> exchange[e].scopes,
                                               exp |-> RefreshExpiry]}
          /\ access' = access
      BY <2>2 DEF PutRefresh
    <3>2. QED
      BY <3>1
  <2>3. QED
    BY <2>1, <2>2
<1>4. /\ exchange'[e].pc \in {"refresh", "told", "untold", "failed"}
      /\ exchange'[e].code = exchange[e].code
      /\ exchange'[e].scopes = exchange[e].scopes
  <2>1. CASE PutAccess(e)
    <3>1. PICK pc \in {"refresh", "failed"} :
            exchange' = [exchange EXCEPT ![e].pc = pc]
      BY <2>1 DEF PutAccess, To
    <3>2. QED
      BY <3>1 DEF TypeOK, Exchange
  <2>2. CASE PutRefresh(e)
    <3>1. PICK pc \in {"told", "untold", "failed"} :
            exchange' = [exchange EXCEPT ![e].pc = pc, ![e].exp = now + RefreshTTL]
      BY <2>2 DEF PutRefresh
    <3>2. QED
      BY <3>1 DEF TypeOK, Exchange
  <2>3. QED
    BY <2>1, <2>2
<1>5. \A t \in (access' \cup refresh') \ (access \cup refresh) :
        Good(t.scopes, exchange[e].code)
  BY <1>2, <1>3
<1>6. QED
  BY <1>1, <1>2, <1>3, <1>4, <1>5, ExchangeStep

LEMMA SurroundingsScopes ==
    ASSUME TypeOK, ScopeInv,
           \/ \E cl \in Clients : Register(cl)
           \/ \E t \in access : DropAccess(t)
           \/ \E v \in Revocations : Revoking(v)
           \/ KeyGoesEarly
           \/ Tick
           \/ UNCHANGED vars
    PROVE  ScopeInv'
<1>1. UNCHANGED <<authorize, consent, exchange, codes>>
  BY RevokeShape DEF Register, DropAccess, KeyGoesEarly, Tick, vars, calls
<1>2. access' \subseteq access /\ refresh' \subseteq refresh
  BY RevokeShape DEF Register, DropAccess, Revoked, KeyGoesEarly, Tick, vars
<1>3. Settled
  BY <1>1 DEF Settled, Begun, Told
<1>4. QED
  BY <1>1, <1>2, <1>3, NothingIssued

LEMMA RestartScopes ==
    ASSUME TypeOK, ScopeInv, NEW p \in Procs, Restart(p)
    PROVE  ScopeInv'
<1>1. Settled
  BY RestartSettles
<1>2. /\ \A q \in Procs : codes'[q] \subseteq codes[q]
      /\ access' \subseteq access /\ refresh' \subseteq refresh
  BY DEF Restart, TypeOK, stored
<1>3. \A c \in Consents :
        consent[c].pc = "idle" => consent'[c].pc = "idle"
  BY DEF Restart, Killed
<1>4. \A e \in Exchanges :
        /\ exchange'[e].pc \in {exchange[e].pc, "dead"}
        /\ exchange'[e].want = exchange[e].want
        /\ exchange'[e].scopes = exchange[e].scopes
        /\ ~Begun(e) => ~Begun(e)'
  BY DEF Restart, Killed, TypeOK, Exchange, Begun
<1>5. GoodBeginnings
  BY <1>3, <1>4 DEF GoodBeginnings
<1>6. GoodIssues
  BY <1>2 DEF GoodIssues
<1>7. GoodMoves
  BY <1>4 DEF GoodMoves
<1>8. QED
  BY <1>1, <1>5, <1>6, <1>7, GoodStep

LEMMA NextScopes == TypeOK /\ ScopeInv /\ [Next]_vars => ScopeInv'
  BY HandshakeScopes, FinishScopes, RedeemCodeScopes, LoadRefreshScopes,
     PopReadsScopes, PopDeletesScopes, PutScopes, SurroundingsScopes, RestartScopes
     DEF Next, Quiet, Revoking

LEMMA InitScopes == Init => ScopeInv
  BY DEF Init, ScopeInv, RequestsTold, CodesTold, GoodCodes, GoodTokens,
         GoodExchanges, Begun

LEMMA Scoped == Spec => [](TypeOK /\ ScopeInv)
<1>1. Init => TypeOK /\ ScopeInv
  BY InitType, InitScopes
<1>2. TypeOK /\ ScopeInv /\ [Next]_vars => (TypeOK /\ ScopeInv)'
  BY NextType, NextScopes
<1>3. QED
  BY <1>1, <1>2, PTL DEF Spec

\* The codes and tokens of a line carry only what was granted and asked for
\* (_effective_scopes, auth/oauth_provider.py:104-120).
THEOREM ScopesStayWithinGrant == Spec => []ScopesWithinGrant
<1>1. TypeOK /\ ScopeInv => ScopesWithinGrant
  <2> SUFFICES ASSUME TypeOK, ScopeInv PROVE ScopesWithinGrant
    OBVIOUS
  <2>1. \A p \in Procs : \A k \in codes[p] : Allowed(k.scopes, k.code)
    BY DEF ScopeInv, GoodCodes, Good, Allowed, AskedBy
  <2>2. \A t \in access \cup refresh : Allowed(t.scopes, exchange[t.token].code)
    BY DEF ScopeInv, GoodTokens, Good, Allowed, AskedBy
  <2>3. QED
    BY <2>1, <2>2 DEF ScopesWithinGrant
<1>2. QED
  BY <1>1, Scoped, PTL

\* No refresh token is used up by an exchange whose scopes are then refused
\* (auth/oauth_provider.py:235-240).
THEOREM RotationsAreNotRefused == Spec => []RotationNotRefused
<1>1. TypeOK /\ ScopeInv => RotationNotRefused
  <2> SUFFICES ASSUME TypeOK, ScopeInv, NEW e \in Exchanges, exchange[e].pc = "delete"
               PROVE  ~NothingGranted(exchange[e].want, Granted(exchange[e].code))
    BY DEF RotationNotRefused
  <2>1. exchange[e].code \in Consents /\ Good(exchange[e].want, exchange[e].code)
    BY DEF TypeOK, Exchange, ScopeInv, GoodExchanges
  <2>2. QED
    BY <2>1, NextNarrowing
<1>2. QED
  BY <1>1, Scoped, PTL


-----------------------------------------------------------------------------
(* Codes are exchanged once.                                               *)

Busy(e)  == exchange[e].pc \in {"pop", "delete", "access", "refresh"}
Line(t)  == exchange[t.token].code

\* The exchange that took a code.
First(e) == exchange[e].from = NoExchange /\ exchange[e].pc \notin {"idle", "refused"}

\* One code per consent, in one process.
OneCode ==
    \A p, q \in Procs : \A k \in codes[p], l \in codes[q] :
      k.code = l.code => p = q /\ k = l

\* A code that is still there has been taken by nobody.
Unspent ==
    \A p \in Procs : \A k \in codes[p] : \A e \in Exchanges :
      exchange[e].code = k.code => exchange[e].pc \in {"idle", "refused"}

FirstOnce ==
    \A e, f \in Exchanges :
      First(e) /\ First(f) /\ exchange[e].code = exchange[f].code => e = f

NothingPresented ==
    \A e \in Exchanges : exchange[e].pc = "idle" => exchange[e].from = NoExchange

\* The exchange that made a registered refresh token is over.
TokensIssued ==
    \A t \in refresh : exchange[t.token].pc \in {"told", "untold", "failed"}

CodeInv == OneCode /\ Unspent /\ FirstOnce /\ NothingPresented /\ TokensIssued

\* The exchanges that are under way move on; none begins.
NoneBegins ==
    \A e \in Exchanges :
      /\ exchange'[e].code = exchange[e].code /\ exchange'[e].from = exchange[e].from
      /\ \/ exchange'[e].pc = exchange[e].pc
         \/ Busy(e) /\ exchange'[e].pc # "idle"

Others(e) == \A d \in Exchanges \ {e} : exchange'[d] = exchange[d]

LEMMA CodeMoves ==
    ASSUME TypeOK, CodeInv, NoneBegins,
           \A p \in Procs : codes'[p] \subseteq codes[p],
           \A t \in refresh' :
             t \in refresh \/ exchange'[t.token].pc \in {"told", "untold", "failed"}
    PROVE  CodeInv'
<1>1. OneCode'
  BY DEF CodeInv, OneCode
<1>2. Unspent'
  BY DEF CodeInv, Unspent, NoneBegins, Busy
<1>3. FirstOnce'
  BY DEF CodeInv, FirstOnce, First, NoneBegins, Busy
<1>4. NothingPresented'
  BY DEF CodeInv, NothingPresented, NoneBegins
<1>5. TokensIssued'
  <2> SUFFICES ASSUME NEW t \in refresh', t \in refresh
               PROVE  exchange'[t.token].pc \in {"told", "untold", "failed"}
    BY DEF TokensIssued
  <2>1. t.token \in Exchanges
    BY DEF TypeOK, Token
  <2>2. exchange[t.token].pc \in {"told", "untold", "failed"}
    BY DEF CodeInv, TokensIssued
  <2>3. QED
    BY <2>1, <2>2 DEF NoneBegins, Busy
<1>6. QED
  BY <1>1, <1>2, <1>3, <1>4, <1>5 DEF CodeInv

-----------------------------------------------------------------------------
(* What the exchanges do to the codes and the refresh tokens.              *)

LEMMA RedeemShape ==
    ASSUME TypeOK, NEW e \in Exchanges, RedeemCode(e)
    PROVE  /\ exchange[e].pc = "idle" /\ Others(e)
           /\ exchange'[e].from = NoExchange
           /\ UNCHANGED <<refresh, ended, consent, revoke, now>>
           /\ \E p \in Procs :
                /\ LoopFree(p)
                /\ \/ \E k \in codes[p] :
                        /\ codes' = [codes EXCEPT ![p] = codes[p] \ {k}]
                        /\ exchange'[e].pc = "access" /\ exchange'[e].code = k.code
                   \/ codes' = codes /\ exchange'[e].pc = "refused"
<1>1. PICK p \in Procs, c \in Consents :
        /\ LoopFree(p)
        /\ \/ \E k \in codes[p] :
                /\ k.code = c
                /\ codes' = [codes EXCEPT ![p] = Spent(p, k)]
                /\ Begin(e, p, c, NoExchange, k.scopes, "access")
           \/ Begin(e, p, c, NoExchange, {}, "refused") /\ UNCHANGED codes
  BY DEF RedeemCode
<1>2. exchange[e].pc = "idle" /\ UNCHANGED <<refresh, ended, consent, revoke, now>>
  BY DEF RedeemCode, stored, limits
<1>3. Others(e)
  BY ExchangeSettles DEF Others
<1>4. CASE \E k \in codes[p] :
             /\ k.code = c
             /\ codes' = [codes EXCEPT ![p] = Spent(p, k)]
             /\ Begin(e, p, c, NoExchange, k.scopes, "access")
  <2>1. PICK k \in codes[p] :
          /\ k.code = c
          /\ codes' = [codes EXCEPT ![p] = Spent(p, k)]
          /\ Begin(e, p, c, NoExchange, k.scopes, "access")
    BY <1>4
  <2>2. /\ exchange'[e].pc = "access" /\ exchange'[e].code = c
        /\ exchange'[e].from = NoExchange
    BY <2>1 DEF Begin, TypeOK, Exchange
  <2>3. QED
    BY <1>1, <1>2, <1>3, <2>1, <2>2 DEF Spent
<1>5. CASE Begin(e, p, c, NoExchange, {}, "refused") /\ UNCHANGED codes
  <2>1. exchange'[e].pc = "refused" /\ exchange'[e].from = NoExchange
    BY <1>5 DEF Begin, TypeOK, Exchange
  <2>2. QED
    BY <1>1, <1>2, <1>3, <1>5, <2>1
<1>6. QED
  BY <1>1, <1>4, <1>5

LEMMA LoadShape ==
    ASSUME TypeOK, NEW e \in Exchanges, LoadRefresh(e)
    PROVE  /\ exchange[e].pc = "idle" /\ Others(e)
           /\ UNCHANGED <<codes, ended, consent, revoke, now>>
           /\ \E p \in Procs, d \in Exchanges :
                /\ LoopFree(p) /\ exchange[d].pc = "told"
                /\ exchange'[e].code = exchange[d].code /\ exchange'[e].from = d
                /\ \/ \E t \in refresh : /\ t.token = d
                                         /\ exchange'[e].pc = "pop" /\ refresh' = refresh
                   \/ exchange'[e].pc = "refused" /\ refresh' = refresh \ Held(d)
<1>1. PICK p \in Procs, d \in Exchanges :
        /\ exchange[d].pc = "told" /\ LoopFree(p)
        /\ \/ \E t \in Held(d) : \E want \in SUBSET t.scopes :
                /\ Begin(e, p, exchange[d].code, d,
                         IF want = {} THEN t.scopes ELSE want, "pop")
                /\ UNCHANGED refresh
           \/ /\ Begin(e, p, exchange[d].code, d, {}, "refused")
              /\ refresh' = refresh \ Held(d)
  BY DEF LoadRefresh
<1>2. exchange[e].pc = "idle" /\ UNCHANGED <<codes, ended, consent, revoke, now>>
  BY DEF LoadRefresh, limits
<1>3. Others(e)
  BY ExchangeSettles DEF Others
<1>4. \A scopes, pc : Begin(e, p, exchange[d].code, d, scopes, pc) =>
        /\ exchange'[e].pc = pc /\ exchange'[e].code = exchange[d].code
        /\ exchange'[e].from = d
  BY DEF Begin, TypeOK, Exchange
<1>5. CASE \E t \in Held(d) : \E want \in SUBSET t.scopes :
             /\ Begin(e, p, exchange[d].code, d,
                      IF want = {} THEN t.scopes ELSE want, "pop")
             /\ UNCHANGED refresh
  <2>1. \E t \in refresh : t.token = d
    BY <1>5 DEF Held
  <2>2. /\ exchange'[e].pc = "pop" /\ exchange'[e].code = exchange[d].code
        /\ exchange'[e].from = d /\ refresh' = refresh
    BY <1>4, <1>5
  <2>3. QED
    BY <1>1, <1>2, <1>3, <2>1, <2>2
<1>6. CASE /\ Begin(e, p, exchange[d].code, d, {}, "refused")
           /\ refresh' = refresh \ Held(d)
  BY <1>1, <1>2, <1>3, <1>4, <1>6
<1>7. QED
  BY <1>1, <1>5, <1>6

\* The steps after the first.
Follows(e) == PopReads(e) \/ PopDeletes(e) \/ PutAccess(e) \/ PutRefresh(e)

LEMMA FollowShape ==
    ASSUME TypeOK, NEW e \in Exchanges, Follows(e)
    PROVE  /\ Others(e) /\ UNCHANGED <<codes, ended, consent, revoke, now>>
           /\ exchange'[e].code = exchange[e].code
           /\ exchange'[e].from = exchange[e].from
           /\ \/ /\ exchange[e].pc = "pop" /\ refresh' = refresh
                 /\ exchange'[e].pc \in {"refused", "delete", "failed"}
                 /\ exchange'[e].pc = "delete" => Held(exchange[e].from) # {}
              \/ /\ exchange[e].pc = "delete"
                 /\ refresh' \in {refresh, Popped(exchange[e].from)}
                 /\ exchange'[e].pc \in {"failed", "refused", "access"}
                 /\ exchange'[e].pc = "access" => refresh' = Popped(exchange[e].from)
              \/ /\ exchange[e].pc = "access" /\ refresh' = refresh
                 /\ exchange'[e].pc \in {"refresh", "failed"}
              \/ /\ exchange[e].pc = "refresh" /\ refresh \subseteq refresh'
                 /\ exchange'[e].pc \in {"told", "untold", "failed"}
                 /\ exchange'[e].exp = now + RefreshTTL
                 /\ \A t \in refresh' \ refresh : /\ t.token = e
                                                  /\ t.exp = now + RefreshTTL
                 /\ \A s, t \in refresh' \ refresh : s = t
                 /\ exchange'[e].pc = "told" =>
                      \E t \in refresh' : t.token = e /\ t.exp = now + RefreshTTL
<1>1. Others(e) /\ UNCHANGED consent
  BY ExchangeSettles DEF Others, Follows
<1>2. UNCHANGED <<codes, ended, revoke, now>>
  BY DEF Follows, PopReads, PopDeletes, PutAccess, PutRefresh, Unmoved
<1>3. CASE PopReads(e)
  <2>1. PICK pc \in {"refused", "delete", "failed"} :
          /\ exchange' = [exchange EXCEPT ![e].pc = pc]
          /\ pc = "delete" => Held(exchange[e].from) # {}
    BY <1>3 DEF PopReads, To, AfterRead
  <2>2. /\ exchange'[e].pc = pc /\ exchange'[e].code = exchange[e].code
        /\ exchange'[e].from = exchange[e].from
    BY <2>1 DEF TypeOK, Exchange
  <2>3. exchange[e].pc = "pop" /\ refresh' = refresh
    BY <1>3 DEF PopReads
  <2>4. QED
    BY <1>1, <1>2, <2>1, <2>2, <2>3
<1>4. CASE PopDeletes(e)
  <2> DEFINE S == EffectiveScopes(exchange[e].want, Granted(exchange[e].code))
  <2>1. PICK pc \in {"failed", "refused", "access"}, o \in Ends :
          /\ exchange' = [exchange EXCEPT ![e] = [@ EXCEPT !.pc = pc, !.scopes = S]]
          /\ refresh' = IF Applied(o) THEN Popped(exchange[e].from) ELSE refresh
          /\ pc = "access" => o = "ok"
    BY <1>4 DEF PopDeletes
  <2> HIDE DEF S
  <2>2. /\ exchange'[e].pc = pc /\ exchange'[e].code = exchange[e].code
        /\ exchange'[e].from = exchange[e].from
    BY <2>1 DEF TypeOK, Exchange
  <2>3. exchange[e].pc = "delete"
    BY <1>4 DEF PopDeletes
  <2>4. /\ refresh' \in {refresh, Popped(exchange[e].from)}
        /\ pc = "access" => refresh' = Popped(exchange[e].from)
    BY <2>1 DEF Applied
  <2>5. QED
    BY <1>1, <1>2, <2>2, <2>3, <2>4
<1>5. CASE PutAccess(e)
  <2>1. PICK pc \in {"refresh", "failed"} :
          exchange' = [exchange EXCEPT ![e].pc = pc]
    BY <1>5 DEF PutAccess, To
  <2>2. /\ exchange'[e].pc = pc /\ exchange'[e].code = exchange[e].code
        /\ exchange'[e].from = exchange[e].from
    BY <2>1 DEF TypeOK, Exchange
  <2>3. exchange[e].pc = "access" /\ refresh' = refresh
    BY <1>5 DEF PutAccess
  <2>4. QED
    BY <1>1, <1>2, <2>2, <2>3
<1>6. CASE PutRefresh(e)
  <2> DEFINE new == [token |-> e, scopes |-> exchange[e].scopes, exp |-> RefreshExpiry]
  <2>1. PICK pc \in {"told", "untold", "failed"}, o \in Ends :
          /\ exchange' = [exchange EXCEPT ![e].pc = pc, ![e].exp = now + RefreshTTL]
          /\ refresh' = IF Applied(o) THEN refresh \cup {new} ELSE refresh
          /\ pc = "told" => o = "ok"
    BY <1>6 DEF PutRefresh
  <2>2. new.token = e /\ new.exp = now + RefreshTTL
    BY DEF RefreshExpiry
  <2> HIDE DEF new
  <2>3. /\ exchange'[e].pc = pc /\ exchange'[e].code = exchange[e].code
        /\ exchange'[e].from = exchange[e].from
        /\ exchange'[e].exp = now + RefreshTTL
    BY <2>1 DEF TypeOK, Exchange
  <2>4. exchange[e].pc = "refresh"
    BY <1>6 DEF PutRefresh
  <2>5. /\ refresh \subseteq refresh'
        /\ \A t \in refresh' \ refresh : t = new
        /\ pc = "told" => new \in refresh'
    BY <2>1 DEF Applied
  <2>6. QED
    BY <1>1, <1>2, <2>2, <2>3, <2>4, <2>5
<1>7. QED
  BY <1>3, <1>4, <1>5, <1>6 DEF Follows

LEMMA RestartShape ==
    ASSUME TypeOK, NEW p \in Procs, Restart(p)
    PROVE  /\ NoneBegins /\ UNCHANGED <<ended, now>>
           /\ \A e \in Exchanges : /\ exchange'[e].pc \in {exchange[e].pc, "dead"}
                                   /\ exchange'[e].exp = exchange[e].exp
           /\ \A q \in Procs : codes'[q] \subseteq codes[q]
           /\ refresh' \subseteq refresh
           /\ SharedStore => refresh' = refresh
           /\ RevokesStay
           /\ restarts' > restarts
<1>1. \A e \in Exchanges :
        /\ exchange'[e].code = exchange[e].code /\ exchange'[e].from = exchange[e].from
        /\ exchange'[e].exp = exchange[e].exp
        /\ \/ exchange'[e].pc = exchange[e].pc
           \/ Busy(e) /\ exchange'[e].pc = "dead"
  BY DEF Restart, Killed, TypeOK, Exchange, Busy
<1>2. NoneBegins
  BY <1>1 DEF NoneBegins
<1>3. /\ \A q \in Procs : codes'[q] \subseteq codes[q]
      /\ refresh' \subseteq refresh
      /\ SharedStore => refresh' = refresh
      /\ UNCHANGED <<ended, now>>
  BY DEF Restart, TypeOK, stored, Survives
<1>4. restarts' > restarts
  BY NumberAssumption DEF Restart, TypeOK
<1>5. RevokesStay
  BY DEF Restart, Killed, TypeOK, Revoke, RevokesStay
<1>6. QED
  BY <1>1, <1>2, <1>3, <1>4, <1>5

LEMMA RedeemCodes ==
    ASSUME TypeOK, CodeInv, NEW e \in Exchanges, RedeemCode(e)
    PROVE  CodeInv'
<1>1. /\ exchange[e].pc = "idle" /\ Others(e)
      /\ exchange'[e].from = NoExchange /\ refresh' = refresh
  BY RedeemShape
<1>2. PICK p \in Procs :
        \/ \E k \in codes[p] :
             /\ codes' = [codes EXCEPT ![p] = codes[p] \ {k}]
             /\ exchange'[e].pc = "access" /\ exchange'[e].code = k.code
        \/ codes' = codes /\ exchange'[e].pc = "refused"
  BY RedeemShape
<1>3. /\ exchange'[e].pc \in {"access", "refused"}
      /\ \A q \in Procs : codes'[q] \subseteq codes[q]
  BY <1>2 DEF TypeOK
<1>4. NothingPresented'
  BY <1>1, <1>3 DEF CodeInv, NothingPresented, Others
<1>5. TokensIssued'
  <2>1. \A t \in refresh : t.token \in Exchanges /\ t.token # e
    BY <1>1 DEF TypeOK, Token, CodeInv, TokensIssued
  <2>2. QED
    BY <1>1, <2>1 DEF CodeInv, TokensIssued, Others
<1>6. OneCode'
  BY <1>3 DEF CodeInv, OneCode
<1>7. CASE codes' = codes /\ exchange'[e].pc = "refused"
  <2>1. Unspent'
    BY <1>1, <1>7 DEF CodeInv, Unspent, Others
  <2>2. FirstOnce'
    BY <1>1, <1>7 DEF CodeInv, FirstOnce, First, Others
  <2>3. QED
    BY <1>4, <1>5, <1>6, <2>1, <2>2 DEF CodeInv
<1>8. ASSUME NEW k \in codes[p],
             codes' = [codes EXCEPT ![p] = codes[p] \ {k}],
             exchange'[e].pc = "access", exchange'[e].code = k.code
      PROVE  CodeInv'
  <2>1. \A q \in Procs : \A l \in codes'[q] : l \in codes[q] /\ l.code # k.code
    BY <1>8 DEF TypeOK, CodeInv, OneCode
  <2>2. Unspent'
    BY <1>1, <1>8, <2>1 DEF CodeInv, Unspent, Others
  <2>3. \A f \in Exchanges \ {e} : First(f)' => exchange'[f].code # k.code
    BY <1>1 DEF CodeInv, Unspent, First, Others
  <2>4. FirstOnce'
    BY <1>1, <1>8, <2>3 DEF CodeInv, FirstOnce, First, Others
  <2>5. QED
    BY <1>4, <1>5, <1>6, <2>2, <2>4 DEF CodeInv
<1>9. QED
  BY <1>2, <1>7, <1>8

LEMMA LoadCodes ==
    ASSUME TypeOK, CodeInv, NEW e \in Exchanges, LoadRefresh(e)
    PROVE  CodeInv'
<1>1. exchange[e].pc = "idle" /\ Others(e) /\ codes' = codes
  BY LoadShape
<1>2. PICK d \in Exchanges :
        /\ exchange[d].pc = "told"
        /\ exchange'[e].code = exchange[d].code /\ exchange'[e].from = d
        /\ exchange'[e].pc \in {"pop", "refused"} /\ refresh' \subseteq refresh
  BY LoadShape
<1>3. ~First(e)'
  BY <1>2, ActorAssumption DEF First
<1>4. OneCode' /\ NothingPresented'
  BY <1>1, <1>2 DEF CodeInv, OneCode, NothingPresented, Others
<1>5. Unspent'
  BY <1>1, <1>2 DEF CodeInv, Unspent, Others
<1>6. FirstOnce'
  BY <1>1, <1>3 DEF CodeInv, FirstOnce, First, Others
<1>7. TokensIssued'
  <2>1. \A t \in refresh : t.token \in Exchanges /\ t.token # e
    BY <1>1 DEF TypeOK, Token, CodeInv, TokensIssued
  <2>2. QED
    BY <1>1, <1>2, <2>1 DEF CodeInv, TokensIssued, Others
<1>8. QED
  BY <1>4, <1>5, <1>6, <1>7 DEF CodeInv

LEMMA FollowCodes ==
    ASSUME TypeOK, CodeInv, NEW e \in Exchanges, Follows(e)
    PROVE  CodeInv'
<1>1. /\ Others(e) /\ codes' = codes
      /\ exchange'[e].code = exchange[e].code /\ exchange'[e].from = exchange[e].from
      /\ Busy(e) /\ exchange'[e].pc # "idle"
  BY FollowShape DEF Busy
<1>2. NoneBegins
  BY <1>1 DEF NoneBegins, Others
<1>3. \A t \in refresh' :
        t \in refresh \/ exchange'[t.token].pc \in {"told", "untold", "failed"}
  BY FollowShape DEF Popped
<1>4. QED
  BY <1>1, <1>2, <1>3, CodeMoves

LEMMA FinishCodes ==
    ASSUME TypeOK, ScopeInv, CodeInv, NEW c \in Consents, Finish(c)
    PROVE  CodeInv'
<1>1. UNCHANGED <<exchange, refresh>> /\ ~Told(c)
  BY DEF Finish, stored, Told
<1>2. NoneBegins
  BY <1>1 DEF NoneBegins
<1>3. CASE codes' = codes
  BY <1>1, <1>2, <1>3, CodeMoves
<1>4. CASE codes' # codes
  <2>1. PICK k : /\ k.code = c
                 /\ codes' = [codes EXCEPT ![consent[c].proc] = @ \cup {k}]
    BY <1>4 DEF Finish
  <2>2. \A p \in Procs : \A l \in codes'[p] :
          l \in codes[p] \/ (p = consent[c].proc /\ l = k)
    BY <2>1 DEF TypeOK
  <2>3. \A p \in Procs : \A l \in codes[p] : l.code # c
    BY <1>1 DEF ScopeInv, GoodCodes
  <2>4. \A e \in Exchanges : exchange[e].code = c => exchange[e].pc = "idle"
    BY <1>1 DEF ScopeInv, CodesTold, Begun
  <2>5. OneCode'
    BY <2>1, <2>2, <2>3 DEF CodeInv, OneCode
  <2>6. Unspent'
    BY <1>1, <2>1, <2>2, <2>4 DEF CodeInv, Unspent
  <2>7. FirstOnce' /\ NothingPresented' /\ TokensIssued'
    BY <1>1 DEF CodeInv, FirstOnce, First, NothingPresented, TokensIssued
  <2>8. QED
    BY <2>5, <2>6, <2>7 DEF CodeInv
<1>5. QED
  BY <1>3, <1>4

\* The steps that touch neither codes nor exchanges, and register no token.
Aside ==
    \/ \E cl \in Clients : Register(cl)
    \/ \E r \in Requests : BeginAuthorize(r) \/ FailAuthorize(r) \/ EndAuthorize(r)
    \/ \E c \in Consents :
         BeginConsent(c) \/ FailConsent(c) \/ FindPending(c) \/ Redeem(c)
    \/ \E t \in access : DropAccess(t)
    \/ \E v \in Revocations : Revoking(v)
    \/ KeyGoesEarly
    \/ Tick
    \/ UNCHANGED vars

LEMMA AsideShape ==
    ASSUME Aside
    PROVE  UNCHANGED <<exchange, codes>> /\ refresh' \subseteq refresh
  BY RevokeShape DEF Aside, Register, BeginAuthorize, FailAuthorize, EndAuthorize, BeginConsent,
     FailConsent, FindPending, Redeem, DropAccess, Revoked, KeyGoesEarly, Tick, vars,
     calls, stored

LEMMA NextCodes == TypeOK /\ ScopeInv /\ CodeInv /\ [Next]_vars => CodeInv'
<1> SUFFICES ASSUME TypeOK, ScopeInv, CodeInv, [Next]_vars PROVE CodeInv'
  OBVIOUS
<1>1. CASE Aside
  <2>1. UNCHANGED <<exchange, codes>> /\ refresh' \subseteq refresh
    BY <1>1, AsideShape
  <2>2. NoneBegins
    BY <2>1 DEF NoneBegins
  <2>3. QED
    BY <2>1, <2>2, CodeMoves
<1>2. CASE \E p \in Procs : Restart(p)
  BY <1>2, RestartShape, CodeMoves
<1>3. CASE \E c \in Consents : Finish(c)
  BY <1>3, FinishCodes
<1>4. CASE \E e \in Exchanges : RedeemCode(e) \/ LoadRefresh(e) \/ Follows(e)
  BY <1>4, RedeemCodes, LoadCodes, FollowCodes
<1>5. QED
  BY <1>1, <1>2, <1>3, <1>4 DEF Next, Quiet, Aside, Follows, Revoking

-----------------------------------------------------------------------------
(* The refresh tokens of a line, when one process serves them all.         *)

OneProcess == \A p, q \in Procs : p = q

OneAtATime == \A e, f \in Exchanges : Busy(e) /\ Busy(f) => e = f

\* An exchange on its way to pop a token has the one token of its line.
Replaceable ==
    \A e \in Exchanges :
      exchange[e].pc \in {"pop", "delete"} =>
        \A t \in refresh : Line(t) = exchange[e].code => t.token = exchange[e].from

\* While a new pair is made its line has no token.
Replacing ==
    \A e \in Exchanges :
      exchange[e].pc \in {"access", "refresh"} =>
        \A t \in refresh : Line(t) # exchange[e].code

LineInv == OneAtATime /\ Replaceable /\ Replacing /\ OneLiveRefresh

LEMMA LineMoves ==
    ASSUME TypeOK, LineInv, NoneBegins, refresh' \subseteq refresh,
           \A e \in Exchanges :
             exchange'[e].pc \in {"pop", "delete"} =>
               exchange[e].pc \in {"pop", "delete"},
           \A e \in Exchanges :
             exchange'[e].pc \in {"access", "refresh"} =>
               \/ exchange[e].pc \in {"access", "refresh"}
               \/ \A t \in refresh' : Line(t) # exchange[e].code
    PROVE  LineInv'
<1>1. \A t \in refresh' : t \in refresh /\ Line(t)' = Line(t)
  BY DEF TypeOK, Token, NoneBegins, Line
<1>2. \A e \in Exchanges :
        /\ Busy(e)' => Busy(e)
        /\ exchange'[e].code = exchange[e].code /\ exchange'[e].from = exchange[e].from
  BY DEF NoneBegins, Busy
<1>3. OneAtATime'
  BY <1>2 DEF LineInv, OneAtATime
<1>4. Replaceable'
  BY <1>1, <1>2 DEF LineInv, Replaceable
<1>5. Replacing'
  BY <1>1, <1>2 DEF LineInv, Replacing
<1>6. OneLiveRefresh'
  <2> SUFFICES ASSUME NEW s \in refresh', NEW t \in refresh',
                      Line(s)' = Line(t)'
               PROVE  s = t
    BY DEF OneLiveRefresh, Line
  <2>1. Line(s) = Line(t) /\ s \in refresh /\ t \in refresh
    BY <1>1
  <2>2. QED
    BY <2>1 DEF LineInv, OneLiveRefresh, Line
<1>7. QED
  BY <1>3, <1>4, <1>5, <1>6 DEF LineInv

\* On a free event loop nothing is under way.
LEMMA NoneBusy ==
    ASSUME TypeOK, OneProcess, NEW p \in Procs, LoopFree(p)
    PROVE  \A e \in Exchanges : ~Busy(e)
<1>1. \A e \in Exchanges : exchange[e].proc = p
  BY DEF TypeOK, Exchange, OneProcess
<1>2. QED
  BY <1>1 DEF LoopFree, Busy

LEMMA IssuedLine ==
    ASSUME TypeOK, CodeInv, NEW t \in refresh, NEW e \in Exchanges, Others(e),
           exchange[e].pc = "idle"
    PROVE  t.token \in Exchanges /\ t.token # e /\ Line(t)' = Line(t)
<1>1. t.token \in Exchanges /\ t.token # e
  BY DEF TypeOK, Token, CodeInv, TokensIssued
<1>2. QED
  BY <1>1 DEF Others, Line

\* An exchange begins: the only one under way, on a line whose tokens it takes or
\* which has none.
LEMMA LineBegins ==
    ASSUME TypeOK, CodeInv, LineInv, NEW e \in Exchanges, Others(e),
           exchange[e].pc = "idle", \A f \in Exchanges : ~Busy(f),
           refresh' \subseteq refresh,
           Busy(e)' =>
             \A t \in refresh :
               Line(t) = exchange'[e].code =>
                 exchange'[e].pc \in {"pop", "delete"} /\ t.token = exchange'[e].from
    PROVE  LineInv'
<1>1. \A t \in refresh' : t \in refresh /\ Line(t)' = Line(t)
  BY IssuedLine
<1>2. \A f \in Exchanges : Busy(f)' => f = e
  BY DEF Others, Busy
<1>3. OneAtATime'
  BY <1>2 DEF OneAtATime
<1>4. Replaceable'
  BY <1>1, <1>2 DEF Replaceable, Busy
<1>5. Replacing'
  BY <1>1, <1>2 DEF Replacing, Busy
<1>6. OneLiveRefresh'
  <2> SUFFICES ASSUME NEW s \in refresh', NEW t \in refresh',
                      Line(s)' = Line(t)'
               PROVE  s = t
    BY DEF OneLiveRefresh, Line
  <2>1. Line(s) = Line(t) /\ s \in refresh /\ t \in refresh
    BY <1>1
  <2>2. QED
    BY <2>1 DEF LineInv, OneLiveRefresh, Line
<1>7. QED
  BY <1>3, <1>4, <1>5, <1>6 DEF LineInv

LEMMA RedeemLines ==
    ASSUME TypeOK, OneProcess, CodeInv, LineInv, NEW e \in Exchanges, RedeemCode(e)
    PROVE  LineInv'
<1>1. /\ exchange[e].pc = "idle" /\ Others(e) /\ UNCHANGED refresh
  BY RedeemShape
<1>2. PICK p \in Procs :
        /\ LoopFree(p)
        /\ \/ \E k \in codes[p] :
                /\ codes' = [codes EXCEPT ![p] = codes[p] \ {k}]
                /\ exchange'[e].pc = "access" /\ exchange'[e].code = k.code
           \/ codes' = codes /\ exchange'[e].pc = "refused"
  BY RedeemShape
<1>3. \A f \in Exchanges : ~Busy(f)
  BY <1>2, NoneBusy
<1>4. ASSUME Busy(e)'
      PROVE  \A t \in refresh : Line(t) # exchange'[e].code
  <2>1. PICK k \in codes[p] : exchange'[e].code = k.code
    BY <1>2, <1>4 DEF Busy
  <2>2. \A t \in refresh : t.token \in Exchanges
    BY DEF TypeOK, Token
  <2>3. \A t \in refresh : Line(t) # k.code
    BY <2>2 DEF CodeInv, Unspent, TokensIssued, Line
  <2>4. QED
    BY <2>1, <2>3
<1>5. QED
  BY <1>1, <1>3, <1>4, LineBegins

LEMMA LoadLines ==
    ASSUME TypeOK, OneProcess, CodeInv, LineInv, NEW e \in Exchanges, LoadRefresh(e)
    PROVE  LineInv'
<1>1. exchange[e].pc = "idle" /\ Others(e)
  BY LoadShape
<1>2. PICK p \in Procs, d \in Exchanges :
        /\ LoopFree(p)
        /\ exchange'[e].code = exchange[d].code /\ exchange'[e].from = d
        /\ \/ \E t \in refresh : /\ t.token = d
                                 /\ exchange'[e].pc = "pop" /\ refresh' = refresh
           \/ exchange'[e].pc = "refused" /\ refresh' = refresh \ Held(d)
  BY LoadShape
<1>3. \A f \in Exchanges : ~Busy(f)
  BY <1>2, NoneBusy
<1>4. refresh' \subseteq refresh
  BY <1>2
<1>5. ASSUME Busy(e)'
      PROVE  /\ \A t \in refresh : Line(t) = exchange'[e].code => t.token = exchange'[e].from
             /\ exchange'[e].pc \in {"pop", "delete"}
  <2>1. PICK s \in refresh : s.token = d /\ exchange'[e].pc = "pop"
    BY <1>2, <1>5 DEF Busy
  <2>2. Line(s) = exchange'[e].code
    BY <1>2, <2>1 DEF Line
  <2>3. \A t \in refresh : Line(t) = Line(s) => t = s
    BY DEF LineInv, OneLiveRefresh, Line
  <2>4. QED
    BY <1>2, <2>1, <2>2, <2>3
<1>6. QED
  BY <1>1, <1>3, <1>4, <1>5, LineBegins

LEMMA FollowLines ==
    ASSUME TypeOK, CodeInv, LineInv, NEW e \in Exchanges, Follows(e)
    PROVE  LineInv'
<1>1. /\ Others(e)
      /\ exchange'[e].code = exchange[e].code
      /\ exchange'[e].from = exchange[e].from
  BY FollowShape
<1>2. Busy(e) /\ exchange'[e].pc # "idle"
  BY FollowShape DEF Busy
<1>3. NoneBegins
  BY <1>1, <1>2 DEF NoneBegins, Others
<1>4. CASE exchange[e].pc # "refresh"
  <2>1. /\ refresh' \subseteq refresh
        /\ exchange'[e].pc \in {"pop", "delete"} => exchange[e].pc \in {"pop", "delete"}
    BY <1>4, FollowShape DEF Popped
  <2>2. ASSUME exchange'[e].pc \in {"access", "refresh"},
               exchange[e].pc \notin {"access", "refresh"}
        PROVE  \A t \in refresh' : Line(t) # exchange[e].code
    <3>1. exchange[e].pc = "delete" /\ refresh' = Popped(exchange[e].from)
      BY <2>2, FollowShape
    <3>2. \A t \in refresh' : t \in refresh /\ t.token # exchange[e].from
      BY <3>1 DEF Popped, Held
    <3>3. QED
      BY <3>1, <3>2 DEF LineInv, Replaceable
  <2>3. \A f \in Exchanges :
          /\ exchange'[f].pc \in {"pop", "delete"} => exchange[f].pc \in {"pop", "delete"}
          /\ exchange'[f].pc \in {"access", "refresh"} =>
               \/ exchange[f].pc \in {"access", "refresh"}
               \/ \A t \in refresh' : Line(t) # exchange[f].code
    BY <1>1, <2>1, <2>2 DEF Others
  <2>4. QED
    BY <1>3, <2>1, <2>3, LineMoves
<1>5. CASE exchange[e].pc = "refresh"
  <2>1. /\ exchange'[e].pc \in {"told", "untold", "failed"}
        /\ \A t \in refresh' \ refresh : t.token = e
        /\ \A s, t \in refresh' \ refresh : s = t
    BY <1>5, FollowShape
  <2>2. \A f \in Exchanges : ~Busy(f)'
    BY <1>1, <1>2, <2>1 DEF LineInv, OneAtATime, Busy, Others
  <2>3. \A f \in Exchanges : exchange'[f].code = exchange[f].code
    BY <1>3 DEF NoneBegins
  <2>4. \A t \in refresh : Line(t)' = Line(t) /\ Line(t) # exchange[e].code
    BY <1>5, <2>3 DEF TypeOK, Token, LineInv, Replacing, Line
  <2>5. \A t \in refresh' \ refresh : Line(t)' = exchange[e].code
    BY <1>1, <2>1 DEF Line
  <2>6. OneAtATime' /\ Replaceable' /\ Replacing'
    BY <2>2 DEF OneAtATime, Replaceable, Replacing, Busy
  <2>7. OneLiveRefresh'
    <3> SUFFICES ASSUME NEW s \in refresh', NEW t \in refresh',
                        Line(s)' = Line(t)'
                 PROVE  s = t
      BY DEF OneLiveRefresh, Line
    <3>1. CASE s \in refresh /\ t \in refresh
      BY <2>4, <3>1 DEF LineInv, OneLiveRefresh, Line
    <3>2. CASE s \notin refresh /\ t \notin refresh
      BY <2>1, <3>2
    <3>3. QED
      BY <2>4, <2>5, <3>1, <3>2
  <2>8. QED
    BY <2>6, <2>7 DEF LineInv
<1>6. QED
  BY <1>4, <1>5

\* The kinds of steps.
LEMMA StepKinds ==
    ASSUME [Next]_vars
    PROVE  \/ Aside
           \/ \E p \in Procs : Restart(p)
           \/ \E c \in Consents : Finish(c)
           \/ \E e \in Exchanges : RedeemCode(e) \/ LoadRefresh(e) \/ Follows(e)
  BY DEF Next, Quiet, Aside, Follows, Revoking

LEMMA AsideSettles ==
    ASSUME TypeOK, Aside
    PROVE  Settled
<1>1. CASE \E r \in Requests :
             BeginAuthorize(r) \/ FailAuthorize(r) \/ EndAuthorize(r)
  BY <1>1, AuthorizeSettles
<1>2. CASE \E c \in Consents :
             BeginConsent(c) \/ FailConsent(c) \/ FindPending(c) \/ Redeem(c)
  BY <1>2, ConsentSettles
<1>3. CASE UNCHANGED <<authorize, consent, exchange>>
  BY <1>3 DEF Settled, Told, Begun
<1>4. QED
  BY <1>1, <1>2, <1>3, RevokeShape DEF Aside, Register, DropAccess, KeyGoesEarly, Tick,
     vars, calls

LEMMA NextLines ==
    OneProcess /\ TypeOK /\ CodeInv /\ LineInv /\ [Next]_vars => LineInv'
<1> SUFFICES ASSUME OneProcess, TypeOK, CodeInv, LineInv, [Next]_vars
             PROVE  LineInv'
  OBVIOUS
<1>1. CASE Aside
  <2>1. exchange' = exchange /\ refresh' \subseteq refresh
    BY <1>1, AsideShape
  <2>2. NoneBegins
    BY <2>1 DEF NoneBegins
  <2>3. QED
    BY <2>1, <2>2, LineMoves
<1>2. ASSUME NEW p \in Procs, Restart(p) PROVE LineInv'
  BY <1>2, RestartShape, LineMoves
<1>3. ASSUME NEW c \in Consents, Finish(c) PROVE LineInv'
  <2>1. UNCHANGED <<exchange, refresh>>
    BY <1>3 DEF Finish, stored
  <2>2. NoneBegins
    BY <2>1 DEF NoneBegins
  <2>3. QED
    BY <2>1, <2>2, LineMoves
<1>4. CASE \E e \in Exchanges : RedeemCode(e) \/ LoadRefresh(e) \/ Follows(e)
  BY <1>4, RedeemLines, LoadLines, FollowLines
<1>5. QED
  BY <1>1, <1>2, <1>3, <1>4, StepKinds

-----------------------------------------------------------------------------
(* Lines that a revocation has ended, in any number of processes.          *)

\* Nothing is left to bring the line of code c back: no code, no token, and no
\* exchange that has read a token of the line.  One that has only loaded a token
\* will read in vain.
Gone(c) ==
    /\ Told(c)
    /\ \A p \in Procs : \A k \in codes[p] : k.code # c
    /\ \A e \in Exchanges :
         exchange[e].pc \in {"delete", "access", "refresh"} => exchange[e].code # c
    /\ \A t \in refresh : Line(t) # c

Ended == \A c \in ended : Gone(c)

\* A rotation is of the line of the token it was given.
Descends ==
    \A e \in Exchanges :
      exchange[e].from # NoExchange =>
        /\ exchange[e].from \in Exchanges /\ Begun(exchange[e].from)
        /\ exchange[exchange[e].from].code = exchange[e].code

LEMMA DescentStays ==
    ASSUME TypeOK, Descends, CodeInv, Settled,
           \A e \in Exchanges :
             \/ exchange'[e].from = NoExchange
             \/ /\ exchange'[e].from = exchange[e].from
                /\ exchange'[e].code = exchange[e].code
             \/ \E d \in Exchanges : /\ Begun(d) /\ exchange'[e].from = d
                                     /\ exchange'[e].code = exchange[d].code
    PROVE  Descends'
<1> SUFFICES ASSUME NEW e \in Exchanges, exchange'[e].from # NoExchange
             PROVE  /\ exchange'[e].from \in Exchanges /\ Begun(exchange[e].from)'
                    /\ exchange'[exchange'[e].from].code = exchange'[e].code
  BY DEF Descends
<1>1. PICK d \in Exchanges : /\ Begun(d) /\ exchange'[e].from = d
                            /\ exchange'[e].code = exchange[d].code
  BY DEF Descends
<1>2. Begun(d)' /\ exchange'[d].code = exchange[d].code
  BY <1>1 DEF Settled
<1>3. QED
  BY <1>1, <1>2 DEF Begun

LEMMA NextDescends == TypeOK /\ CodeInv /\ Descends /\ [Next]_vars => Descends'
<1> SUFFICES ASSUME TypeOK, CodeInv, Descends, [Next]_vars PROVE Descends'
  OBVIOUS
<1>1. CASE Aside
  BY <1>1, AsideShape, AsideSettles, DescentStays
<1>2. ASSUME NEW p \in Procs, Restart(p) PROVE Descends'
  BY <1>2, RestartShape, RestartSettles, DescentStays DEF NoneBegins
<1>3. ASSUME NEW c \in Consents, Finish(c) PROVE Descends'
  <2>1. exchange' = exchange
    BY <1>3 DEF Finish
  <2>2. QED
    BY <1>3, <2>1, ConsentSettles, DescentStays
<1>4. ASSUME NEW e \in Exchanges, RedeemCode(e) PROVE Descends'
  BY <1>4, RedeemShape, ExchangeSettles, DescentStays
<1>5. ASSUME NEW e \in Exchanges, LoadRefresh(e) PROVE Descends'
  <2>1. Others(e)
    BY <1>5, LoadShape
  <2>2. PICK d \in Exchanges : /\ exchange[d].pc = "told" /\ exchange'[e].from = d
                              /\ exchange'[e].code = exchange[d].code
    BY <1>5, LoadShape
  <2>3. QED
    BY <1>5, <2>1, <2>2, ExchangeSettles, DescentStays DEF Others, Begun
<1>6. ASSUME NEW e \in Exchanges, Follows(e) PROVE Descends'
  BY <1>6, FollowShape, ExchangeSettles, DescentStays DEF Others, Follows
<1>7. QED
  BY <1>1, <1>2, <1>3, <1>4, <1>5, <1>6, StepKinds

LEMMA GoneStays ==
    ASSUME NEW c, Gone(c), Told(c) => Told(c)',
           \A p \in Procs : \A k \in codes'[p] : k \in codes[p] \/ k.code # c,
           \A e \in Exchanges :
             exchange'[e].pc \in {"delete", "access", "refresh"} =>
               \/ /\ exchange[e].pc \in {"delete", "access", "refresh"}
                  /\ exchange'[e].code = exchange[e].code
               \/ exchange'[e].code # c,
           \A t \in refresh' : (t \in refresh /\ Line(t)' = Line(t)) \/ Line(t)' # c
    PROVE  Gone(c)'
  BY DEF Gone

LEMMA RevokeEnds ==
    ASSUME TypeOK, ScopeInv, CodeInv, Ended, NEW v \in Revocations, Revoking(v)
    PROVE  Ended'
<1>1. UNCHANGED <<codes, consent, exchange>> /\ refresh' \subseteq refresh
  BY RevokeShape DEF Revoked
<1>2. \A t \in refresh' : Line(t)' = Line(t)
  BY <1>1 DEF Line
<1>3. \A c \in ended : Gone(c)'
  BY <1>1, <1>2, GoneStays DEF Ended, Told
<1>4. ASSUME LastOfLine(v), refresh' = Revoked(v),
             NEW c, c = exchange[revoke[v].token].code
      PROVE  Gone(c)'
  <2> DEFINE d == revoke[v].token
  <2>1. PICK t \in refresh : t.token = d /\ revoke[v].kind = "refresh"
    BY <1>4 DEF LastOfLine, Named
  <2>2. d \in Exchanges /\ exchange[d].pc \in {"told", "untold", "failed"}
    BY <2>1 DEF TypeOK, Token, CodeInv, TokensIssued
  <2>3. Told(c)
    BY <1>4, <2>2 DEF ScopeInv, CodesTold, Begun
  <2>4. \A p \in Procs : \A k \in codes[p] : k.code # c
    BY <1>4, <2>2 DEF CodeInv, Unspent
  <2>5. \A e \in Exchanges :
          exchange[e].pc \in {"delete", "access", "refresh"} => exchange[e].code # c
    BY <1>4 DEF LastOfLine
  <2>6. \A s \in refresh' : Line(s) # c
    BY <1>4, <2>1 DEF LastOfLine, Revoked, Named, Line
  <2>7. QED
    BY <1>1, <1>2, <2>3, <2>4, <2>5, <2>6 DEF Gone, Told
<1>5. \/ ended' = ended
      \/ /\ LastOfLine(v) /\ refresh' = Revoked(v)
         /\ ended' = ended \cup {exchange[revoke[v].token].code}
  BY RevokeShape
<1>6. CASE ended' = ended
  BY <1>3, <1>6 DEF Ended
<1>7. CASE /\ LastOfLine(v) /\ refresh' = Revoked(v)
           /\ ended' = ended \cup {exchange[revoke[v].token].code}
  BY <1>3, <1>4, <1>7 DEF Ended
<1>8. QED
  BY <1>5, <1>6, <1>7

LEMMA NextEnded ==
    TypeOK /\ ScopeInv /\ CodeInv /\ Descends /\ Ended /\ [Next]_vars => Ended'
<1> SUFFICES ASSUME TypeOK, ScopeInv, CodeInv, Descends, Ended, [Next]_vars
             PROVE  Ended'
  OBVIOUS
<1>1. CASE \E v \in Revocations : Revoking(v)
  BY <1>1, RevokeEnds
<1> SUFFICES ASSUME ~\E v \in Revocations : Revoking(v) PROVE Ended'
  BY <1>1
<1>2. \A c \in ended : c \in Consents /\ Gone(c)
  BY DEF TypeOK, Ended
<1>3. CASE Aside
  <2>1. /\ UNCHANGED <<exchange, codes>> /\ refresh' \subseteq refresh
        /\ \A c \in Consents : Told(c) => Told(c)'
    BY <1>3, AsideShape, AsideSettles DEF Settled, Told
  <2>2. ended' = ended
    BY <1>3 DEF Aside, Register, BeginAuthorize, FailAuthorize, EndAuthorize,
       BeginConsent, FailConsent, FindPending, Redeem, DropAccess, KeyGoesEarly, Tick,
       vars
  <2>3. \A t \in refresh' : Line(t)' = Line(t)
    BY <2>1 DEF Line
  <2>4. QED
    BY <1>2, <2>1, <2>2, <2>3, GoneStays DEF Ended
<1>4. ASSUME NEW p \in Procs, Restart(p) PROVE Ended'
  <2>1. /\ NoneBegins /\ ended' = ended /\ refresh' \subseteq refresh
        /\ \A q \in Procs : codes'[q] \subseteq codes[q]
        /\ \A e \in Exchanges : exchange'[e].pc \in {exchange[e].pc, "dead"}
    BY <1>4, RestartShape
  <2>2. \A c \in Consents : Told(c) => Told(c)'
    BY <1>4, RestartSettles DEF Settled, Told
  <2>3. \A t \in refresh' : Line(t)' = Line(t)
    BY <2>1 DEF Line, NoneBegins, TypeOK, Token
  <2>4. QED
    BY <1>2, <2>1, <2>2, <2>3, GoneStays DEF Ended, NoneBegins
<1>5. ASSUME NEW d \in Consents, Finish(d) PROVE Ended'
  <2>1. UNCHANGED <<exchange, refresh, ended>> /\ ~Told(d)
    BY <1>5 DEF Finish, stored, Told
  <2>2. \A c \in Consents : Told(c) => Told(c)'
    BY <1>5, ConsentSettles DEF Settled, Told
  <2>3. \A p \in Procs : \A k \in codes'[p] : k \in codes[p] \/ k.code = d
    BY <1>5 DEF Finish, TypeOK
  <2>4. \A c \in ended : c # d
    BY <1>2, <2>1 DEF Gone
  <2>5. \A t \in refresh' : Line(t)' = Line(t)
    BY <2>1 DEF Line
  <2>6. QED
    BY <1>2, <2>1, <2>2, <2>3, <2>4, <2>5, GoneStays DEF Ended
<1>6. ASSUME NEW e \in Exchanges, RedeemCode(e) PROVE Ended'
  <2>1. /\ exchange[e].pc = "idle" /\ Others(e) /\ UNCHANGED <<refresh, ended, consent>>
    BY <1>6, RedeemShape
  <2>2. PICK p \in Procs :
          \/ \E k \in codes[p] :
               /\ codes' = [codes EXCEPT ![p] = codes[p] \ {k}]
               /\ exchange'[e].pc = "access" /\ exchange'[e].code = k.code
          \/ codes' = codes /\ exchange'[e].pc = "refused"
    BY <1>6, RedeemShape
  <2>3. \A q \in Procs : codes'[q] \subseteq codes[q]
    BY <2>2 DEF TypeOK
  <2>4. \A c \in ended : exchange'[e].pc = "refused" \/ exchange'[e].code # c
    BY <1>2, <2>2 DEF Gone
  <2>5. \A t \in refresh' : Line(t)' = Line(t)
    BY <2>1, IssuedLine
  <2>6. \A c \in ended : \A f \in Exchanges :
          exchange'[f].pc \in {"delete", "access", "refresh"} =>
            \/ /\ exchange[f].pc \in {"delete", "access", "refresh"}
               /\ exchange'[f].code = exchange[f].code
            \/ exchange'[f].code # c
    BY <2>1, <2>2, <2>4 DEF Others
  <2>7. QED
    BY <1>2, <2>1, <2>3, <2>5, <2>6, GoneStays DEF Ended, Told
<1>7. ASSUME NEW e \in Exchanges, LoadRefresh(e) PROVE Ended'
  <2>1. /\ exchange[e].pc = "idle" /\ Others(e) /\ UNCHANGED <<codes, ended, consent>>
        /\ exchange'[e].pc \in {"pop", "refused"} /\ refresh' \subseteq refresh
    BY <1>7, LoadShape
  <2>2. \A t \in refresh' : t \in refresh /\ Line(t)' = Line(t)
    BY <2>1, IssuedLine
  <2>3. \A f \in Exchanges :
          exchange'[f].pc \in {"delete", "access", "refresh"} =>
            /\ exchange[f].pc \in {"delete", "access", "refresh"}
            /\ exchange'[f].code = exchange[f].code
    BY <2>1 DEF Others
  <2>4. QED
    BY <1>2, <2>1, <2>2, <2>3, GoneStays DEF Ended, Told
<1>8. ASSUME NEW e \in Exchanges, Follows(e) PROVE Ended'
  <2>1. /\ Others(e) /\ UNCHANGED <<codes, ended, consent>>
        /\ exchange'[e].code = exchange[e].code
    BY <1>8, FollowShape
  <2>2. ASSUME NEW c \in ended, exchange'[e].pc \in {"delete", "access", "refresh"},
               exchange[e].pc \notin {"delete", "access", "refresh"}
        PROVE  exchange'[e].code # c
    <3>1. exchange[e].pc = "pop" /\ Held(exchange[e].from) # {}
      BY <1>8, <2>2, FollowShape
    <3>2. PICK t \in refresh : t.token = exchange[e].from
      BY <3>1 DEF Held
    <3>3. t.token \in Exchanges
      BY DEF TypeOK, Token
    <3>4. Line(t) = exchange[e].code
      BY <3>2, <3>3, ActorAssumption DEF Descends, Line
    <3>5. QED
      BY <1>2, <2>1, <3>4 DEF Gone
  <2>3. \A f \in Exchanges : exchange'[f].code = exchange[f].code
    BY <2>1 DEF Others
  <2>4. \A c \in ended : \A f \in Exchanges :
          exchange'[f].pc \in {"delete", "access", "refresh"} =>
            \/ exchange[f].pc \in {"delete", "access", "refresh"}
            \/ exchange'[f].code # c
    BY <2>1, <2>2 DEF Others
  <2>5. \A t \in refresh : Line(t)' = Line(t)
    BY <2>3 DEF TypeOK, Token, Line
  <2>6. ASSUME NEW c \in ended, NEW t \in refresh', t \notin refresh
        PROVE  Line(t)' # c
    <3>1. exchange[e].pc = "refresh" /\ t.token = e
      BY <1>8, <2>6, FollowShape DEF Popped
    <3>2. QED
      BY <1>2, <2>1, <3>1 DEF Gone, Line
  <2>7. QED
    BY <1>2, <2>1, <2>3, <2>4, <2>5, <2>6, GoneStays DEF Ended, Told
<1>9. QED
  BY <1>3, <1>4, <1>5, <1>6, <1>7, <1>8, StepKinds

-----------------------------------------------------------------------------
(* Refresh tokens are kept, with Redis.                                    *)

\* A token a client holds and has not presented is registered for as long as the
\* client was told, but for the last second.
Kept ==
    \A e \in Exchanges :
      /\ exchange[e].pc = "told" /\ now + 1 < exchange[e].exp
      /\ ~Presented(e)
      => \E t \in refresh : t.token = e /\ t.exp = exchange[e].exp

LEMMA KeptStays ==
    ASSUME TypeOK, Kept, now' >= now, now' \in Nat,
           \A e \in Exchanges :
             exchange'[e].pc = "told" =>
               \/ exchange[e].pc = "told" /\ exchange'[e].exp = exchange[e].exp
               \/ \E t \in refresh' : t.token = e /\ t.exp = exchange'[e].exp,
           \A e, f \in Exchanges : exchange[f].from = e => exchange'[f].from = e,
           RevokesStay,
           \A t \in refresh : t \in refresh' \/ t.exp <= now' + 1 \/ Presented(t.token)'
    PROVE  Kept'
<1> SUFFICES ASSUME NEW e \in Exchanges,
                    exchange'[e].pc = "told", now' + 1 < exchange'[e].exp,
                    ~Presented(e)'
             PROVE  \E t \in refresh' : t.token = e /\ t.exp = exchange'[e].exp
  BY DEF Kept
<1>1. CASE exchange[e].pc = "told" /\ exchange'[e].exp = exchange[e].exp
  <2>1. exchange[e].exp \in Nat /\ now \in Nat
    BY NumberAssumption DEF TypeOK, Exchange
  <2>2. now + 1 < exchange[e].exp
    BY <1>1, <2>1
  <2>3. ~Presented(e)
    BY DEF Presented, RevokesStay
  <2>4. PICK t \in refresh : t.token = e /\ t.exp = exchange[e].exp
    BY <1>1, <2>2, <2>3 DEF Kept
  <2>5. ~(t.exp <= now' + 1)
    BY <1>1, <2>1, <2>4
  <2>6. t \in refresh'
    BY <2>4, <2>5
  <2>7. QED
    BY <1>1, <2>4, <2>6
<1>2. QED
  BY <1>1

LEMMA NextKept ==
    SharedStore /\ TypeOK /\ CodeInv /\ Kept /\ [Next]_vars => Kept'
<1> SUFFICES ASSUME SharedStore, TypeOK, CodeInv, Kept, [Next]_vars PROVE Kept'
  OBVIOUS
<1>1. now \in Nat /\ now' \in Nat /\ now' >= now
  <2>1. TypeOK'
    BY NextType
  <2>2. now' = now \/ now' = now + 1
    BY DEF Next, Quiet, vars, limits, Unmoved, Register, BeginAuthorize, FailAuthorize,
       EndAuthorize, BeginConsent, FailConsent, FindPending, Redeem, Finish, RedeemCode,
       LoadRefresh, PopReads, PopDeletes, PutAccess, PutRefresh, DropAccess,
       BeginRevoke, RevokeAccess, RevokeLooks, RevokeDrops, KeyGoesEarly, Tick, Restart
  <2>3. QED
    BY <2>1, <2>2, NumberAssumption DEF TypeOK
<1>2. CASE Aside
  <2>1. exchange' = exchange
    BY <1>2, AsideShape
  <2>2. /\ RevokesStay
        /\ \A t \in refresh :
             t \in refresh' \/ t.exp <= now' + 1 \/ Presented(t.token)'
    <3>1. ASSUME NEW v \in Revocations, Revoking(v)
          PROVE  /\ RevokesStay
                 /\ \A t \in refresh : t \in refresh' \/ Presented(t.token)'
      <4>1. RevokesStay
        BY <3>1, RevokeMoves
      <4>2. CASE refresh' = refresh
        BY <4>1, <4>2
      <4>3. CASE revoke[v].pc = "drop" /\ refresh' = Revoked(v)
        BY <4>1, <4>3 DEF Revoked, Named, RevokesStay, Presented
      <4>4. QED
        BY <3>1, <4>2, <4>3, <4>1, RevokeShape
    <3>2. CASE Tick \/ KeyGoesEarly
      <4>1. \A t \in refresh : t.exp \in Nat
        BY DEF TypeOK, Token
      <4>2. CASE Tick
        BY <1>1, <4>1, <4>2 DEF Tick, RevokesStay, calls
      <4>3. CASE KeyGoesEarly
        BY <1>1, <4>1, <4>3 DEF KeyGoesEarly, RevokesStay, calls, limits
      <4>4. QED
        BY <3>2, <4>2, <4>3
    <3>3. CASE UNCHANGED <<refresh, revoke>>
      BY <3>3 DEF RevokesStay
    <3>4. QED
      BY <1>2, <3>1, <3>2, <3>3 DEF Aside, Register, BeginAuthorize, FailAuthorize,
         EndAuthorize, BeginConsent, FailConsent, FindPending, Redeem, DropAccess,
         vars, stored, calls
  <2>3. QED
    BY <1>1, <2>1, <2>2, KeptStays
<1>3. ASSUME NEW p \in Procs, Restart(p) PROVE Kept'
  <2>1. /\ NoneBegins /\ refresh' = refresh /\ RevokesStay
        /\ \A e \in Exchanges : /\ exchange'[e].pc \in {exchange[e].pc, "dead"}
                                /\ exchange'[e].exp = exchange[e].exp
    BY <1>3, RestartShape
  <2>2. QED
    BY <1>1, <2>1, KeptStays DEF NoneBegins
<1>4. ASSUME NEW c \in Consents, Finish(c) PROVE Kept'
  <2>1. UNCHANGED <<exchange, refresh, revoke>>
    BY <1>4 DEF Finish, stored
  <2>2. QED
    BY <1>1, <2>1, KeptStays DEF RevokesStay
<1>5. ASSUME NEW e \in Exchanges, RedeemCode(e) PROVE Kept'
  <2>1. /\ exchange[e].pc = "idle" /\ Others(e) /\ UNCHANGED <<refresh, revoke>>
        /\ exchange'[e].pc \in {"access", "refused"}
    BY <1>5, RedeemShape
  <2>2. exchange[e].from = NoExchange
    BY <2>1 DEF CodeInv, NothingPresented
  <2>3. \A d, f \in Exchanges : exchange[f].from = d => exchange'[f].from = d
    BY <2>1, <2>2, ActorAssumption DEF Others
  <2>4. QED
    BY <1>1, <2>1, <2>3, KeptStays DEF Others, RevokesStay
<1>6. ASSUME NEW e \in Exchanges, LoadRefresh(e) PROVE Kept'
  <2>1. /\ exchange[e].pc = "idle" /\ Others(e) /\ revoke' = revoke
        /\ exchange'[e].pc \in {"pop", "refused"}
        /\ \A t \in refresh : t \in refresh' \/ exchange'[e].from = t.token
    BY <1>6, LoadShape DEF Held
  <2>0. \A t \in refresh : t \in refresh' \/ Presented(t.token)'
    BY <2>1 DEF Presented
  <2>2. exchange[e].from = NoExchange
    BY <2>1 DEF CodeInv, NothingPresented
  <2>3. \A d, f \in Exchanges : exchange[f].from = d => exchange'[f].from = d
    BY <2>1, <2>2, ActorAssumption DEF Others
  <2>4. QED
    BY <1>1, <2>0, <2>1, <2>3, KeptStays DEF Others, RevokesStay
<1>7. ASSUME NEW e \in Exchanges, Follows(e) PROVE Kept'
  <2>1. /\ Others(e) /\ revoke' = revoke
        /\ exchange'[e].from = exchange[e].from
        /\ exchange'[e].pc = "told" =>
             \E t \in refresh' : t.token = e /\ t.exp = exchange'[e].exp
    BY <1>7, FollowShape
  <2>2. \A t \in refresh : t \in refresh' \/ Presented(t.token)'
    BY <1>7, FollowShape DEF Popped, Held, Presented
  <2>3. QED
    BY <1>1, <2>1, <2>2, KeptStays DEF Others, RevokesStay
<1>8. QED
  BY <1>2, <1>3, <1>4, <1>5, <1>6, <1>7, StepKinds

-----------------------------------------------------------------------------
(* The user may click Allow again, when one process serves everything and has *)
(* not been restarted.                                                     *)

\* What a prune has collected is stale, however long it takes to delete it.
StaleOnly ==
    /\ \A r \in Requests : \A e \in authorize[r].stale : e.exp < now
    /\ \A c \in Consents : \A e \in consent[c].stale : e.exp < now

\* A request that is neither past its time nor consumed is still pending.
Waiting ==
    \A r \in Requests :
      authorize[r].pc = "told" =>
        \/ authorize[r].exp < now \/ Consumed(r)
        \/ \E p \in Procs : \E e \in pending[p] : e.req = r /\ e.exp = authorize[r].exp

\* Requests keep what they were told, and consents that are over stay over.
Lasting ==
    /\ \A r \in Requests :
         authorize[r].pc = "told" =>
           authorize'[r].pc = "told" /\ authorize'[r].exp = authorize[r].exp
    /\ \A c \in Consents :
         consent[c].pc \in {"told", "refused"} =>
           consent'[c].pc = consent[c].pc /\ consent'[c].req = consent[c].req

LEMMA ConsumedStays ==
    ASSUME Lasting, NEW r, Consumed(r)
    PROVE  Consumed(r)'
<1>1. PICK c \in Consents : consent[c].req = r /\ consent[c].pc \in {"told", "refused"}
  BY DEF Consumed
<1>2. consent'[c].req = r /\ consent'[c].pc \in {"told", "refused"}
  BY <1>1 DEF Lasting
<1>3. QED
  BY <1>2 DEF Consumed

LEMMA WaitingStays ==
    ASSUME TypeOK, Waiting, Lasting, now' >= now, now' \in Nat,
           \A r \in Requests :
             authorize'[r].pc = "told" =>
               \/ authorize[r].pc = "told"
               \/ \E p \in Procs : \E e \in pending'[p] :
                    e.req = r /\ e.exp = authorize'[r].exp,
           \A p \in Procs : \A e \in pending[p] :
             e \in pending'[p] \/ e.exp < now \/ Consumed(e.req)'
    PROVE  Waiting'
<1> SUFFICES ASSUME NEW r \in Requests, authorize'[r].pc = "told",
                    authorize[r].pc = "told"
             PROVE  \/ authorize'[r].exp < now' \/ Consumed(r)'
                    \/ \E p \in Procs : \E e \in pending'[p] :
                         e.req = r /\ e.exp = authorize'[r].exp
  BY DEF Waiting
<1>1. authorize'[r].exp = authorize[r].exp
  BY DEF Lasting
<1>2. authorize[r].exp \in Nat /\ now \in Nat
  BY NumberAssumption DEF TypeOK, Authorize
<1>3. CASE authorize[r].exp < now
  BY <1>1, <1>2, <1>3
<1>4. CASE Consumed(r)
  BY <1>4, ConsumedStays
<1>5. ASSUME NEW p \in Procs, NEW e \in pending[p],
             e.req = r, e.exp = authorize[r].exp
      PROVE  \/ authorize'[r].exp < now' \/ Consumed(r)'
             \/ e \in pending'[p]
  BY <1>1, <1>2, <1>5
<1>6. QED
  BY <1>1, <1>3, <1>4, <1>5 DEF Waiting

\* A consent is turned away for a request that is not pending anywhere.
LEMMA AllowStays ==
    ASSUME TypeOK, RequestsTold, AllowAgainWorks, Settled, Lasting, Waiting',
           now' >= now, now' \in Nat,
           \A c \in Consents :
             consent'[c].pc = "unknown" =>
               \/ consent[c].pc = "unknown"
               \/ /\ consent[c].pc = "prune"
                  /\ \A p \in Procs : \A e \in pending'[p] : e.req # consent[c].req
    PROVE  AllowAgainWorks'
<1> SUFFICES ASSUME NEW c \in Consents, consent'[c].pc = "unknown"
             PROVE  \/ authorize'[consent'[c].req].exp < now'
                    \/ Consumed(consent[c].req)'
  BY DEF AllowAgainWorks
<1> DEFINE r == consent[c].req
<1>1. r \in Requests /\ consent[c].pc # "idle" /\ consent'[c].req = r
  BY DEF TypeOK, Consent, Settled
<1>2. authorize[r].pc = "told" /\ authorize'[r].pc = "told"
      /\ authorize'[r].exp = authorize[r].exp
  BY <1>1 DEF RequestsTold, Lasting
<1>3. CASE consent[c].pc = "unknown"
  <2>1. authorize[r].exp < now \/ Consumed(r)
    BY <1>3 DEF AllowAgainWorks
  <2>2. authorize[r].exp \in Nat /\ now \in Nat
    BY <1>1, NumberAssumption DEF TypeOK, Authorize
  <2>3. CASE authorize[r].exp < now
    BY <1>1, <1>2, <2>2, <2>3
  <2>4. CASE Consumed(r)
    <3>1. Consumed(r)'
      <4>1. PICK d \in Consents :
              consent[d].req = r /\ consent[d].pc \in {"told", "refused"}
        BY <2>4 DEF Consumed
      <4>2. consent'[d].req = r /\ consent'[d].pc \in {"told", "refused"}
        BY <4>1 DEF Lasting
      <4>3. QED
        BY <1>1, <4>2 DEF Consumed
    <3>2. QED
      BY <1>1, <3>1 DEF Consumed
  <2>5. QED
    BY <2>1, <2>3, <2>4
<1>4. CASE \A p \in Procs : \A e \in pending'[p] : e.req # r
  <2>1. authorize'[r].exp < now' \/ Consumed(r)'
    BY <1>1, <1>2, <1>4 DEF Waiting, Consumed
  <2>2. QED
    BY <1>1, <2>1 DEF Consumed
<1>5. QED
  BY <1>3, <1>4

\* The steps of the handshake; all others leave requests, consents and pending
\* entries alone, or are a restart.
Handshake ==
    \/ \E r \in Requests : BeginAuthorize(r) \/ FailAuthorize(r) \/ EndAuthorize(r)
    \/ \E c \in Consents :
         BeginConsent(c) \/ FailConsent(c) \/ FindPending(c) \/ Redeem(c) \/ Finish(c)

LEMMA HandshakeOrNot ==
    ASSUME [Next]_vars
    PROVE  \/ Handshake /\ UNCHANGED <<now, restarts>>
           \/ \E p \in Procs : Restart(p)
           \/ /\ UNCHANGED <<pending, authorize, consent, restarts>>
              /\ now' = now \/ now' = now + 1
<1>1. CASE Handshake
  BY <1>1 DEF Handshake, BeginAuthorize, FailAuthorize, EndAuthorize, BeginConsent,
     FailConsent, FindPending, Redeem, Finish, limits
<1>2. CASE \E e \in Exchanges : RedeemCode(e) \/ LoadRefresh(e) \/ Follows(e)
  BY <1>2 DEF RedeemCode, LoadRefresh, Follows, PopReads, PopDeletes, PutAccess,
     PutRefresh, Unmoved, limits
<1>3. CASE \/ \E cl \in Clients : Register(cl)
           \/ \E t \in access : DropAccess(t)
           \/ \E v \in Revocations : Revoking(v)
           \/ KeyGoesEarly \/ Tick \/ UNCHANGED vars
  BY <1>3, RevokeShape DEF Register, DropAccess, KeyGoesEarly, Tick, vars, calls, limits
<1>4. QED
  BY <1>1, <1>2, <1>3 DEF Next, Quiet, Handshake, Follows, Revoking

\* What each step of the handshake does to its own request or consent.
LEMMA AuthorizeShape ==
    ASSUME TypeOK, NEW r \in Requests
    PROVE  /\ BeginAuthorize(r) =>
                /\ authorize[r].pc = "idle" /\ authorize'[r].pc = "prune"
                /\ \E p \in Procs :
                     authorize'[r].stale = {e \in pending[p] : Stale(e)}
                /\ UNCHANGED <<pending, consent>>
           /\ FailAuthorize(r) =>
                /\ authorize[r].pc = "prune" /\ authorize'[r].pc = "failed"
                /\ authorize'[r].stale = {} /\ consent' = consent
                /\ \A p \in Procs : \A e \in pending[p] :
                     e \in pending'[p] \/ e \in authorize[r].stale
           /\ EndAuthorize(r) =>
                /\ authorize[r].pc = "prune" /\ authorize'[r].pc = "told"
                /\ authorize'[r].stale = {} /\ consent' = consent
                /\ \A p \in Procs : \A e \in pending[p] :
                     e \in pending'[p] \/ e \in authorize[r].stale
                /\ \E p \in Procs : \E e \in pending'[p] :
                     e.req = r /\ e.exp = authorize'[r].exp
           /\ BeginAuthorize(r) \/ FailAuthorize(r) \/ EndAuthorize(r) =>
                \A s \in Requests \ {r} : authorize'[s] = authorize[s]
<1>1. ASSUME BeginAuthorize(r)
      PROVE  /\ authorize[r].pc = "idle" /\ authorize'[r].pc = "prune"
             /\ \E p \in Procs : authorize'[r].stale = {e \in pending[p] : Stale(e)}
             /\ UNCHANGED <<pending, consent>>
  <2>1. PICK p \in Procs, cl \in Clients, asked \in Asks :
          authorize' = [authorize EXCEPT ![r] =
            [@ EXCEPT !.pc = "prune", !.proc = p, !.client = cl, !.asked = asked,
                      !.stale = {e \in pending[p] : Stale(e)}]]
    BY <1>1 DEF BeginAuthorize
  <2> DEFINE S == {e \in pending[p] : Stale(e)}
  <2>2. authorize' = [authorize EXCEPT ![r] =
            [@ EXCEPT !.pc = "prune", !.proc = p, !.client = cl, !.asked = asked,
                      !.stale = S]]
    BY <2>1
  <2>3. \E q \in Procs : S = {e \in pending[q] : Stale(e)}
    OBVIOUS
  <2> HIDE DEF S
  <2>4. authorize'[r].pc = "prune" /\ authorize'[r].stale = S
    BY <2>2 DEF TypeOK, Authorize
  <2>5. QED
    BY <1>1, <2>3, <2>4 DEF BeginAuthorize
<1>2. ASSUME FailAuthorize(r)
      PROVE  /\ authorize[r].pc = "prune" /\ authorize'[r].pc = "failed"
             /\ authorize'[r].stale = {} /\ consent' = consent
             /\ \A p \in Procs : \A e \in pending[p] :
                  e \in pending'[p] \/ e \in authorize[r].stale
  <2>1. authorize'[r].pc = "failed" /\ authorize'[r].stale = {}
    BY <1>2 DEF FailAuthorize, TypeOK, Authorize
  <2>2. \A p \in Procs : \A e \in pending[p] :
          e \in pending'[p] \/ e \in authorize[r].stale
    BY <1>2 DEF FailAuthorize, TypeOK
  <2>3. QED
    BY <1>2, <2>1, <2>2 DEF FailAuthorize
<1>3. ASSUME EndAuthorize(r)
      PROVE  /\ authorize[r].pc = "prune" /\ authorize'[r].pc = "told"
             /\ authorize'[r].stale = {} /\ consent' = consent
             /\ \A p \in Procs : \A e \in pending[p] :
                  e \in pending'[p] \/ e \in authorize[r].stale
             /\ \E p \in Procs : \E e \in pending'[p] :
                  e.req = r /\ e.exp = authorize'[r].exp
  <2>1. /\ authorize'[r].pc = "told" /\ authorize'[r].stale = {}
        /\ authorize'[r].exp = now + PendingTTL
    BY <1>3 DEF EndAuthorize, TypeOK, Authorize
  <2>2. \A p \in Procs : \A e \in pending[p] :
          e \in pending'[p] \/ e \in authorize[r].stale
    BY <1>3 DEF EndAuthorize, TypeOK
  <2>3. authorize[r].proc \in Procs
    BY DEF TypeOK, Authorize
  <2>4. [req |-> r, exp |-> now + PendingTTL] \in pending'[authorize[r].proc]
    BY <1>3, <2>3 DEF EndAuthorize, TypeOK
  <2>5. QED
    BY <1>3, <2>1, <2>2, <2>3, <2>4 DEF EndAuthorize
<1>4. BeginAuthorize(r) \/ FailAuthorize(r) \/ EndAuthorize(r) =>
        \A s \in Requests \ {r} : authorize'[s] = authorize[s]
  BY DEF BeginAuthorize, FailAuthorize, EndAuthorize, TypeOK
<1>5. QED
  BY <1>1, <1>2, <1>3, <1>4

LEMMA ConsentShape ==
    ASSUME TypeOK, NEW c \in Consents,
           \/ BeginConsent(c) \/ FailConsent(c) \/ FindPending(c) \/ Redeem(c)
           \/ Finish(c)
    PROVE  /\ authorize' = authorize /\ \A d \in Consents \ {c} : consent'[d] = consent[d]
           /\ consent[c].pc \in {"idle", "prune", "redeem", "finish"}
           /\ \/ consent'[c].stale \subseteq consent[c].stale
              \/ \E p \in Procs : consent'[c].stale = {e \in pending[p] : Stale(e)}
           /\ \A p \in Procs : \A e \in pending[p] :
                \/ e \in pending'[p]
                \/ e \in consent[c].stale
                \/ /\ e.req = consent'[c].req
                   /\ consent'[c].pc \in {"told", "refused"}
           /\ consent'[c].pc = "unknown" =>
                /\ consent[c].pc = "prune"
                /\ \A e \in pending'[consent[c].proc] : e.req # consent[c].req
<1>1. authorize' = authorize /\ \A d \in Consents \ {c} : consent'[d] = consent[d]
  BY DEF BeginConsent, FailConsent, FindPending, Redeem, Finish, TypeOK
<1>2. CASE BeginConsent(c)
  <2>1. PICK p \in Procs, r \in Requests, g \in Grants :
          consent' = [consent EXCEPT ![c] =
            [@ EXCEPT !.pc = "prune", !.proc = p, !.req = r, !.grant = g,
                      !.stale = {e \in pending[p] : Stale(e)}]]
    BY <1>2 DEF BeginConsent
  <2> DEFINE S == {e \in pending[p] : Stale(e)}
  <2>2. consent' = [consent EXCEPT ![c] =
            [@ EXCEPT !.pc = "prune", !.proc = p, !.req = r, !.grant = g, !.stale = S]]
    BY <2>1
  <2>3. \E q \in Procs : S = {e \in pending[q] : Stale(e)}
    OBVIOUS
  <2> HIDE DEF S
  <2>4. consent'[c].pc = "prune" /\ consent'[c].stale = S
    BY <2>2 DEF TypeOK, Consent
  <2>5. consent[c].pc = "idle" /\ pending' = pending
    BY <1>2 DEF BeginConsent
  <2>6. QED
    BY <1>1, <2>3, <2>4, <2>5
<1>3. CASE FailConsent(c)
  <2>1. consent'[c].pc = "failed" /\ consent'[c].stale = {} /\ consent[c].pc = "prune"
    BY <1>3 DEF FailConsent, TypeOK, Consent
  <2>2. \A p \in Procs : \A e \in pending[p] :
          e \in pending'[p] \/ e \in consent[c].stale
    BY <1>3 DEF FailConsent, TypeOK
  <2>3. QED
    BY <1>1, <2>1, <2>2
<1>4. CASE FindPending(c)
  <2> DEFINE pc == IF IsPending(consent[c].proc, consent[c].req) THEN "redeem"
                   ELSE "unknown"
  <2>1. consent' = [consent EXCEPT ![c].pc = pc, ![c].stale = {}]
    BY <1>4 DEF FindPending
  <2>2. pc = "unknown" => \A e \in pending'[consent[c].proc] : e.req # consent[c].req
    BY DEF IsPending
  <2>3. pc \in {"redeem", "unknown"}
    OBVIOUS
  <2> HIDE DEF pc
  <2>4. consent'[c].pc = pc /\ consent'[c].stale = {} /\ consent[c].pc = "prune"
    BY <1>4, <2>1 DEF FindPending, TypeOK, Consent
  <2>5. \A p \in Procs : \A e \in pending[p] :
          e \in pending'[p] \/ e \in consent[c].stale
    BY <1>4 DEF FindPending, TypeOK
  <2>6. QED
    BY <1>1, <2>2, <2>4, <2>5
<1>5. CASE Redeem(c)
  <2>1. PICK pc \in {"failed", "finish"} : consent' = [consent EXCEPT ![c].pc = pc]
    BY <1>5 DEF Redeem
  <2>2. /\ consent'[c].pc = pc /\ consent'[c].stale = consent[c].stale
        /\ consent[c].pc = "redeem" /\ pending' = pending
    BY <1>5, <2>1 DEF Redeem, TypeOK, Consent
  <2>3. QED
    BY <1>1, <2>2
<1>6. CASE Finish(c)
  <2>1. PICK pc \in {"told", "refused"} : consent' = [consent EXCEPT ![c].pc = pc]
    BY <1>6 DEF Finish
  <2>2. /\ consent'[c].pc = pc /\ consent'[c].stale = consent[c].stale
        /\ consent[c].pc = "finish" /\ consent'[c].req = consent[c].req
    BY <1>6, <2>1 DEF Finish, TypeOK, Consent
  <2>3. \A p \in Procs : \A e \in pending[p] :
          e \in pending'[p] \/ e.req = consent[c].req
    BY <1>6 DEF Finish, TypeOK
  <2>4. QED
    BY <1>1, <2>2, <2>3
<1>7. QED
  BY <1>2, <1>3, <1>4, <1>5, <1>6

LEMMA HandshakeLasts ==
    ASSUME TypeOK, Handshake
    PROVE  Lasting
<1>1. ASSUME NEW r \in Requests, BeginAuthorize(r) \/ FailAuthorize(r) \/ EndAuthorize(r)
      PROVE  Lasting
  <2>1. consent' = consent /\ authorize[r].pc # "told"
    BY <1>1, AuthorizeShape
  <2>2. \A s \in Requests \ {r} : authorize'[s] = authorize[s]
    BY <1>1, AuthorizeShape
  <2>3. QED
    BY <2>1, <2>2 DEF Lasting
<1>2. ASSUME NEW c \in Consents,
             \/ BeginConsent(c) \/ FailConsent(c) \/ FindPending(c) \/ Redeem(c)
             \/ Finish(c)
      PROVE  Lasting
  <2>1. /\ authorize' = authorize /\ \A d \in Consents \ {c} : consent'[d] = consent[d]
        /\ consent[c].pc \notin {"told", "refused"}
    BY <1>2, ConsentShape
  <2>2. QED
    BY <2>1 DEF Lasting
<1>3. QED
  BY <1>1, <1>2 DEF Handshake

LEMMA NextStale == TypeOK /\ StaleOnly /\ [Next]_vars => StaleOnly'
<1> SUFFICES ASSUME TypeOK, StaleOnly, [Next]_vars PROVE StaleOnly'
  OBVIOUS
<1>1. ASSUME NEW r \in Requests, BeginAuthorize(r) \/ FailAuthorize(r) \/ EndAuthorize(r),
             now' = now
      PROVE  StaleOnly'
  <2>1. consent' = consent /\ \A s \in Requests \ {r} : authorize'[s] = authorize[s]
    BY <1>1, AuthorizeShape
  <2>2. \A e \in authorize'[r].stale : e.exp < now
    BY <1>1, AuthorizeShape DEF Stale
  <2>3. QED
    BY <1>1, <2>1, <2>2 DEF StaleOnly
<1>2. ASSUME NEW c \in Consents,
             \/ BeginConsent(c) \/ FailConsent(c) \/ FindPending(c) \/ Redeem(c)
             \/ Finish(c),
             now' = now
      PROVE  StaleOnly'
  <2>1. /\ authorize' = authorize /\ \A d \in Consents \ {c} : consent'[d] = consent[d]
        /\ \/ consent'[c].stale \subseteq consent[c].stale
           \/ \E p \in Procs : consent'[c].stale = {e \in pending[p] : Stale(e)}
    BY <1>2, ConsentShape
  <2>2. \A e \in consent'[c].stale : e.exp < now
    BY <2>1 DEF StaleOnly, Stale
  <2>3. QED
    BY <1>2, <2>1, <2>2 DEF StaleOnly
<1>3. ASSUME NEW p \in Procs, Restart(p) PROVE StaleOnly'
  <2>1. /\ \A r \in Requests : authorize'[r].stale = authorize[r].stale
        /\ \A c \in Consents : consent'[c].stale = consent[c].stale
        /\ now' = now
    BY <1>3 DEF Restart, Killed, TypeOK, Authorize, Consent
  <2>2. QED
    BY <2>1 DEF StaleOnly
<1>4. ASSUME UNCHANGED <<authorize, consent>>, now' = now \/ now' = now + 1
      PROVE  StaleOnly'
  <2>1. /\ \A r \in Requests : \A e \in authorize[r].stale : e.exp \in Nat
        /\ \A c \in Consents : \A e \in consent[c].stale : e.exp \in Nat
    BY DEF TypeOK, Authorize, Consent, Pending
  <2>2. now \in Nat
    BY NumberAssumption DEF TypeOK
  <2>3. QED
    BY <1>4, <2>1, <2>2 DEF StaleOnly
<1>5. QED
  BY <1>1, <1>2, <1>3, <1>4, HandshakeOrNot DEF Handshake

AllowInv == restarts = 0 => Waiting /\ AllowAgainWorks

LEMMA NextAllow ==
    OneProcess /\ TypeOK /\ ScopeInv /\ StaleOnly /\ AllowInv /\ [Next]_vars => AllowInv'
<1> SUFFICES ASSUME OneProcess, TypeOK, ScopeInv, StaleOnly, AllowInv, [Next]_vars,
                    restarts' = 0
             PROVE  Waiting' /\ AllowAgainWorks'
  BY DEF AllowInv
<1>1. now \in Nat /\ RequestsTold
  BY NumberAssumption DEF TypeOK, ScopeInv
<1>2. ASSUME NEW r \in Requests, BeginAuthorize(r) \/ FailAuthorize(r) \/ EndAuthorize(r),
             UNCHANGED <<now, restarts>>
      PROVE  Waiting' /\ AllowAgainWorks'
  <2>1. Waiting /\ AllowAgainWorks
    BY <1>2 DEF AllowInv
  <2>2. Lasting /\ Settled
    BY <1>2, HandshakeLasts, AuthorizeSettles DEF Handshake
  <2>3. consent' = consent /\ \A s \in Requests \ {r} : authorize'[s] = authorize[s]
    BY <1>2, AuthorizeShape
  <2>4. authorize'[r].pc = "told" =>
          \E p \in Procs : \E e \in pending'[p] : e.req = r /\ e.exp = authorize'[r].exp
    BY <1>2, AuthorizeShape
  <2>5. \A p \in Procs : \A e \in pending[p] : e \in pending'[p] \/ e.exp < now
    BY <1>2, AuthorizeShape DEF StaleOnly
  <2>6. Waiting'
    BY <1>1, <1>2, <2>1, <2>2, <2>3, <2>4, <2>5, WaitingStays
  <2>7. QED
    BY <1>1, <1>2, <2>1, <2>2, <2>3, <2>6, AllowStays
<1>3. ASSUME NEW c \in Consents,
             \/ BeginConsent(c) \/ FailConsent(c) \/ FindPending(c) \/ Redeem(c)
             \/ Finish(c),
             UNCHANGED <<now, restarts>>
      PROVE  Waiting' /\ AllowAgainWorks'
  <2>1. Waiting /\ AllowAgainWorks
    BY <1>3 DEF AllowInv
  <2>2. Lasting /\ Settled
    BY <1>3, HandshakeLasts, ConsentSettles DEF Handshake
  <2>3. authorize' = authorize /\ \A d \in Consents \ {c} : consent'[d] = consent[d]
    BY <1>3, ConsentShape
  <2>4. ASSUME NEW p \in Procs, NEW e \in pending[p]
        PROVE  e \in pending'[p] \/ e.exp < now \/ Consumed(e.req)'
    <3>1. \/ e \in pending'[p] \/ e \in consent[c].stale
          \/ e.req = consent'[c].req /\ consent'[c].pc \in {"told", "refused"}
      BY <1>3, ConsentShape
    <3>2. QED
      BY <3>1 DEF StaleOnly, Consumed
  <2>5. Waiting'
    BY <1>1, <1>3, <2>1, <2>2, <2>3, <2>4, WaitingStays
  <2>6. ASSUME consent'[c].pc = "unknown"
        PROVE  /\ consent[c].pc = "prune"
               /\ \A p \in Procs : \A e \in pending'[p] : e.req # consent[c].req
    <3>1. /\ consent[c].pc = "prune"
          /\ \A e \in pending'[consent[c].proc] : e.req # consent[c].req
      BY <1>3, <2>6, ConsentShape
    <3>2. \A p \in Procs : p = consent[c].proc
      BY DEF OneProcess, TypeOK, Consent
    <3>3. QED
      BY <3>1, <3>2
  <2>7. QED
    BY <1>1, <1>3, <2>1, <2>2, <2>3, <2>5, <2>6, AllowStays
<1>4. ASSUME NEW p \in Procs, Restart(p) PROVE FALSE
  BY <1>4, RestartShape DEF TypeOK
<1>5. ASSUME UNCHANGED <<pending, authorize, consent, restarts>>,
             now' = now \/ now' = now + 1
      PROVE  Waiting' /\ AllowAgainWorks'
  <2>1. Waiting /\ AllowAgainWorks
    BY <1>5 DEF AllowInv
  <2>2. \A r : Consumed(r)' = Consumed(r)
    BY <1>5 DEF Consumed
  <2>3. Lasting
    BY <1>5 DEF Lasting
  <2>4. now' \in Nat /\ now' >= now
    BY <1>1, <1>5
  <2>5. Waiting'
    BY <1>5, <2>1, <2>3, <2>4, WaitingStays
  <2>6. AllowAgainWorks'
    <3>1. \A r \in Requests : authorize[r].exp \in Nat
      BY DEF TypeOK, Authorize
    <3>2. \A c \in Consents : consent[c].req \in Requests
      BY DEF TypeOK, Consent
    <3>3. QED
      BY <1>1, <1>5, <2>1, <3>1, <3>2 DEF AllowAgainWorks, Consumed
  <2>7. QED
    BY <2>5, <2>6
<1>6. QED
  BY <1>2, <1>3, <1>4, <1>5, HandshakeOrNot DEF Handshake

-----------------------------------------------------------------------------
(* The properties.                                                         *)

LifeInv ==
    /\ TypeOK /\ ScopeInv /\ CodeInv /\ Descends /\ Ended /\ StaleOnly
    /\ OneProcess => LineInv /\ AllowInv
    /\ SharedStore => Kept

LEMMA InitLife == Init => LifeInv
<1> SUFFICES ASSUME Init PROVE LifeInv
  OBVIOUS
<1>1. TypeOK /\ ScopeInv
  BY InitType, InitScopes
<1>2. /\ \A e \in Exchanges : exchange[e].pc = "idle" /\ exchange[e].from = NoExchange
      /\ \A r \in Requests : authorize[r].pc = "idle" /\ authorize[r].stale = {}
      /\ \A c \in Consents : consent[c].pc = "idle" /\ consent[c].stale = {}
      /\ \A p \in Procs : codes[p] = {}
      /\ refresh = {} /\ ended = {}
  BY DEF Init
<1>3. CodeInv
  BY <1>2 DEF CodeInv, OneCode, Unspent, FirstOnce, First, NothingPresented, TokensIssued
<1>4. StaleOnly
  BY <1>2 DEF StaleOnly
<1>5. LineInv
  BY <1>2 DEF LineInv, OneAtATime, Replaceable, Replacing, OneLiveRefresh, Busy
<1>6. AllowInv
  BY <1>2 DEF AllowInv, Waiting, AllowAgainWorks
<1>7. Kept
  BY <1>2 DEF Kept
<1>8. Descends /\ Ended
  BY <1>2 DEF Descends, Ended
<1>9. QED
  BY <1>1, <1>3, <1>4, <1>5, <1>6, <1>7, <1>8 DEF LifeInv

LEMMA Lives == Spec => []LifeInv
<1>1. Init => LifeInv
  BY InitLife
<1>2. LifeInv /\ [Next]_vars => LifeInv'
  BY NextType, NextScopes, NextCodes, NextDescends, NextEnded, NextStale, NextLines,
     NextAllow, NextKept
     DEF LifeInv
<1>3. QED
  BY <1>1, <1>2, PTL DEF Spec

\* A code that complete_consent made (auth/oauth_provider.py:168-196) is exchanged
\* once, whichever process it is presented to and however often: the two pops of
\* exchange_authorization_code (198-221) see it together or not at all.
THEOREM CodesAreExchangedOnce == Spec => []CodeOnce
<1>1. LifeInv => CodeOnce
  BY DEF LifeInv, CodeInv, FirstOnce, First, CodeOnce
<1>2. QED
  BY <1>1, Lives, PTL

\* A single process, with Redis or without, leaves one refresh token per line:
\* exchange_refresh_token (auth/oauth_provider.py:232-254) has retired the token
\* presented before it registers the next.  With two processes the pop over Redis,
\* a read and a delete (persistence.py:185-190), lets two rotations through.
THEOREM RotationReplaces ==
    ASSUME OneProcess
    PROVE  Spec => []OneLiveRefresh
<1>1. LifeInv => OneLiveRefresh
  BY DEF LifeInv, LineInv
<1>2. QED
  BY <1>1, Lives, PTL

\* In any number of processes, a line whose last refresh token revoke_token
\* (auth/oauth_provider.py:265-269) has deleted does not come back: a rotation that
\* had loaded the token finds it gone when it pops it (persistence.py:185-190).
THEOREM RevocationIsFinal == Spec => []RevokedIsTheEnd
<1>1. LifeInv => RevokedIsTheEnd
  BY DEF LifeInv, Ended, Gone, RevokedIsTheEnd, Line
<1>2. QED
  BY <1>1, Lives, PTL

\* With Redis, any number of processes and of their crashes leave a client the
\* refresh token it was given and has presented neither for rotation nor for
\* revocation (persistence.py:165-191), until the last second of its time.
THEOREM HeldTokensWork ==
    ASSUME SharedStore
    PROVE  Spec => []HeldTokenWorks
<1>1. LifeInv => HeldTokenWorks
  BY DEF LifeInv, Kept, HeldTokenWorks, Held
<1>2. QED
  BY <1>1, Lives, PTL

\* Until its first restart, a single process turns no consent away while its
\* request is alive and not consumed (complete_consent, auth/oauth_provider.py:168-180):
\* a redemption that failed, or a prune that another thread overtook, leaves the
\* pending request where it was.
THEOREM ClickingAgainWorks ==
    ASSUME OneProcess
    PROVE  Spec => [](restarts = 0 => AllowAgainWorks)
<1>1. LifeInv => (restarts = 0 => AllowAgainWorks)
  BY DEF LifeInv, AllowInv
<1>2. QED
  BY <1>1, Lives, PTL

=============================================================================
