-------------------------- MODULE SquidToolsProofs --------------------------
(***************************************************************************)
(* SquidTools for any number of calls, squids, settings and accounts, any  *)
(* failures and any edits outside: no tool destroys what it was not asked  *)
(* to, and no answer hides what a tool has done.                           *)
(***************************************************************************)
EXTENDS SquidTools, FiniteSetTheorems, TLAPS

Making    == {"idle", "schema", "create"}
MadeSteps == {"configure", "cleanup"}
Viewing   == {"wires", "crawler", "account", "write"}
Reused    == {"read"} \cup Viewing

-----------------------------------------------------------------------------
(* The inductive invariant.                                                *)

\* What a call has said and done by each of its steps.
Local(me) ==
    /\ me.pc # "done" => me.resp = NoAnswer
    /\ me.pc \in Making \cup Reused => me.made = NoSquid /\ ~me.applied
    /\ me.pc \in Reused => me.squid \in Saved /\ me.req.tool # "create"
    /\ me.pc \in MadeSteps => me.squid = me.made /\ me.made \in Squids \ Saved
    /\ me.made \in (Squids \ Saved) \cup {NoSquid}
    /\ me.resp.error.retrySafe => ~me.applied
    /\ ~me.read => me.seen = Absent
    /\ me.pc \in Making \cup {"read"} => ~me.read
    /\ me.pc \in {"crawler", "account"} => me.read
    /\ me.pc = "wires" => me.req.tool # "attach"
    /\ me.pc = "write" /\ me.req.tool = "attach" =>
         me.read /\ me.seen.accounts \subseteq me.links
    /\ me.pc = "done" /\ me.made # NoSquid =>
         me.resp.squid = me.made \/ (me.resp.squid = NoSquid /\ me.resp.error.state = "unknown")

\* An alias is explained by an answered call that had no schema.
SomeoneSent(s, a) ==
    \E d \in Calls : /\ call[d].pc = "done" /\ call[d].squid = s
                     /\ call[d].req.cfg[a] # Unset /\ ~call[d].wires

\* What a call that has read its squid knows of it.
View(c) ==
    call[c].read /\ call[c].pc \in Viewing =>
      /\ c \notin stale => squids[call[c].squid] = call[c].seen
      /\ \A a \in Aliases : call[c].seen.params[a] # Unset => SomeoneSent(call[c].squid, a)

\* A squid that a call made is its own until it is configured.
Own(c) ==
    /\ call[c].resp.deleted => /\ call[c].made \in Squids \ Saved
                               /\ ~squids[call[c].made].exists
    /\ call[c].pc \in MadeSteps => /\ squids[call[c].made].params = NoConfig
                                   /\ ~squids[call[c].made].conc

MadeApart ==
    \A c, d \in Calls : c # d /\ call[c].made = call[d].made => call[c].made = NoSquid

NewUnlinked == \A s \in Squids \ Saved : squids[s].accounts = {}

RealNames ==
    \A s \in Squids, a \in Aliases : squids[s].params[a] # Unset => SomeoneSent(s, a)

IndInv ==
    /\ TypeOK
    /\ \A c \in Calls : Local(call[c])
    /\ \A c \in Calls : View(c)
    /\ \A c \in Calls : Own(c)
    /\ MadeApart /\ NewUnlinked /\ RealNames

-----------------------------------------------------------------------------
(* The kinds of steps.                                                     *)

LEMMA BecomeValue ==
    ASSUME TypeOK, NEW c \in Calls, NEW x, Become(c, x)
    PROVE  /\ call'[c] = x
           /\ \A d \in Calls : d # c => call'[d] = call[d]
           /\ x \in CallState => call' \in [Calls -> CallState]
  BY DEF Become, TypeOK

LEMMA CallFacts ==
    ASSUME IndInv, NEW c \in Calls
    PROVE  /\ call[c] \in CallState /\ Local(call[c])
           /\ call[c].pc \in Steps /\ call[c].req \in Request
           /\ call[c].squid \in Squids \cup {NoSquid}
           /\ call[c].read \in BOOLEAN /\ call[c].seen \in SquidState
           /\ call[c].wires \in BOOLEAN /\ call[c].resp \in Answer
           /\ call[c].made \in (Squids \ Saved) \cup {NoSquid}
  BY DEF IndInv, TypeOK, CallState, Local

LEMMA SentStays ==
    ASSUME IndInv, NEW c \in Calls, NEW x, Become(c, x), call[c].pc # "done",
           NEW s, NEW a, SomeoneSent(s, a)
    PROVE  SomeoneSent(s, a)'
<1>1. PICK d \in Calls : /\ call[d].pc = "done" /\ call[d].squid = s
                         /\ call[d].req.cfg[a] # Unset /\ ~call[d].wires
  BY DEF SomeoneSent
<1>2. call'[d] = call[d]
  BY <1>1, BecomeValue DEF IndInv
<1>3. QED
  BY <1>1, <1>2 DEF SomeoneSent

\* A step that changes one call and nothing else.
LEMMA ReadKind ==
    ASSUME IndInv, NEW c \in Calls, NEW x \in CallState, Become(c, x),
           UNCHANGED <<squids, stale, edits>>, faults' \in 0..MaxFaults,
           call[c].pc # "done", Local(x),
           x.made = call[c].made, ~x.resp.deleted, x.pc \notin MadeSteps,
           x.read /\ x.pc \in Viewing =>
             /\ x.squid = call[c].squid /\ x.squid \in Squids
             /\ \/ call[c].read /\ call[c].pc \in Viewing /\ x.seen = call[c].seen
                \/ x.seen = squids[x.squid]
    PROVE  IndInv'
<1>1. /\ call'[c] = x /\ \A d \in Calls : d # c => call'[d] = call[d]
      /\ call' \in [Calls -> CallState]
  BY BecomeValue DEF IndInv
<1>2. TypeOK'
  BY <1>1 DEF IndInv, TypeOK
<1>3. \A d \in Calls : Local(call'[d])
  BY <1>1 DEF IndInv
<1>4. ASSUME NEW d \in Calls PROVE View(d)'
  <2>1. CASE d = c
    <3>1. SUFFICES ASSUME x.read, x.pc \in Viewing
                   PROVE  /\ c \notin stale => squids[x.squid] = x.seen
                          /\ \A a \in Aliases : x.seen.params[a] # Unset => SomeoneSent(x.squid, a)'
      BY <1>1, <2>1 DEF View
    <3>2. CASE call[c].read /\ call[c].pc \in Viewing /\ x.seen = call[c].seen
      BY <3>1, <3>2, SentStays DEF IndInv, View
    <3>3. CASE x.seen = squids[x.squid]
      BY <3>1, <3>3, SentStays DEF IndInv, RealNames
    <3>4. QED
      BY <3>1, <3>2, <3>3
  <2>2. CASE d # c
    BY <1>1, <2>2, SentStays DEF IndInv, View
  <2>3. QED
    BY <2>1, <2>2
<1>5. \A d \in Calls : Own(d)'
  BY <1>1 DEF IndInv, Own
<1>6. MadeApart'
  <2>1. \A d \in Calls : call'[d].made = call[d].made
    BY <1>1
  <2>2. QED
    BY <2>1 DEF IndInv, MadeApart
<1>7. NewUnlinked' /\ RealNames'
  BY SentStays DEF IndInv, NewUnlinked, RealNames
<1>8. QED
  BY <1>2, <1>3, <1>4, <1>5, <1>6, <1>7 DEF IndInv

LEMMA PutValue ==
    ASSUME TypeOK, NEW s \in Squids, NEW new \in SquidState, NEW W, Put(s, new, W)
    PROVE  /\ squids' \in [Squids -> SquidState]
           /\ squids'[s] = new /\ \A t \in Squids : t # s => squids'[t] = squids[t]
           /\ stale' \subseteq Calls /\ stale \subseteq stale'
           /\ \A d \in Calls \ W :
                /\ d \notin stale' /\ call[d].squid = s
                /\ call[d].pc \in Viewing \cup {"schema", "create", "configure", "cleanup"}
                => new = squids[s]
  BY DEF Put, TypeOK, Viewing

\* A step that ends a request that writes a squid: one there at first, or the one
\* the call has made.
LEMMA WriteKind ==
    ASSUME IndInv, NEW c \in Calls, NEW x \in CallState, Become(c, x),
           NEW s \in Squids, NEW new \in SquidState, Put(s, new, {c}),
           edits' = edits, faults' \in 0..MaxFaults,
           call[c].pc # "done", Local(x), x.pc \in {"done"} \cup MadeSteps,
           \/ x.made = call[c].made
           \/ x.made = s /\ \A d \in Calls : call[d].made # s,
           s \in Saved \/ s = x.made \/ new = squids[s],
           x.resp.deleted => x.made = s /\ s \notin Saved /\ ~new.exists,
           x.pc \in MadeSteps => x.made = s /\ new.params = NoConfig /\ ~new.conc,
           s \notin Saved => new.accounts = {},
           \A a \in Aliases : new.params[a] # Unset =>
             \/ SomeoneSent(s, a)
             \/ x.pc = "done" /\ x.squid = s /\ x.req.cfg[a] # Unset /\ ~x.wires
    PROVE  IndInv'
<1>1. /\ call'[c] = x /\ \A d \in Calls : d # c => call'[d] = call[d]
      /\ call' \in [Calls -> CallState]
  BY BecomeValue DEF IndInv
<1>2. /\ squids' \in [Squids -> SquidState]
      /\ squids'[s] = new /\ \A t \in Squids : t # s => squids'[t] = squids[t]
      /\ stale' \subseteq Calls /\ stale \subseteq stale'
      /\ \A d \in Calls : d # c /\ d \notin stale' /\ call[d].squid = s
                          /\ call[d].pc \in Viewing => new = squids[s]
  BY PutValue DEF IndInv
<1>3. TypeOK'
  BY <1>1, <1>2 DEF IndInv, TypeOK
<1>4. \A d \in Calls : Local(call'[d])
  BY <1>1 DEF IndInv
<1>5. MadeApart'
  BY <1>1 DEF IndInv, MadeApart
<1>6. ASSUME NEW d \in Calls PROVE View(d)'
  <2>1. CASE d = c
    BY <1>1, <2>1 DEF View, Viewing, MadeSteps
  <2>2. CASE d # c
    <3>1. SUFFICES ASSUME call[d].read, call[d].pc \in Viewing
                   PROVE  /\ d \notin stale' => squids'[call[d].squid] = call[d].seen
                          /\ \A a \in Aliases : call[d].seen.params[a] # Unset
                                                  => SomeoneSent(call[d].squid, a)'
      BY <1>1, <2>2 DEF View
    <3>2. call[d].squid \in Squids
      BY <3>1, CallFacts, SquidAssumption DEF Local, Reused
    <3>3. d \notin stale' => squids'[call[d].squid] = call[d].seen
      BY <1>2, <2>2, <3>1, <3>2 DEF IndInv, View
    <3>4. QED
      BY <1>1, <2>2, <3>1, <3>3, SentStays DEF IndInv, View
  <2>3. QED
    BY <2>1, <2>2
<1>7. ASSUME NEW d \in Calls PROVE Own(d)'
  <2>1. CASE d = c
    BY <1>1, <1>2, <2>1, CallFacts DEF Own, Local
  <2>2. CASE d # c
    <3>1. call[d].made = s => s \notin Saved /\ new = squids[s]
      <4>1. SUFFICES ASSUME call[d].made = s PROVE s \notin Saved /\ new = squids[s]
        OBVIOUS
      <4>2. s \notin Saved
        BY <4>1, CallFacts, SquidAssumption
      <4>3. s # x.made
        BY <2>2, <4>1, SquidAssumption DEF IndInv, MadeApart
      <4>4. QED
        BY <4>2, <4>3
    <3>2. call[d].made \in Squids => squids'[call[d].made] = squids[call[d].made]
      BY <1>2, <3>1
    <3>3. call[d].pc \in MadeSteps => call[d].made \in Squids
      BY CallFacts DEF Local
    <3>4. QED
      BY <1>1, <2>2, <3>2, <3>3 DEF IndInv, Own
  <2>3. QED
    BY <2>1, <2>2
<1>8. NewUnlinked'
  BY <1>2 DEF IndInv, NewUnlinked
<1>9. RealNames'
  <2>1. SUFFICES ASSUME NEW t \in Squids, NEW a \in Aliases, squids'[t].params[a] # Unset
                 PROVE  SomeoneSent(t, a)'
    BY DEF RealNames
  <2>2. CASE t # s
    BY <1>2, <2>1, <2>2, SentStays DEF IndInv, RealNames
  <2>3. CASE t = s /\ SomeoneSent(s, a)
    BY <2>3, SentStays
  <2>4. CASE t = s /\ x.pc = "done" /\ x.squid = s /\ x.req.cfg[a] # Unset /\ ~x.wires
    BY <1>1, <2>4 DEF SomeoneSent
  <2>5. QED
    BY <1>2, <2>1, <2>2, <2>3, <2>4
<1>10. QED
  BY <1>3, <1>4, <1>5, <1>6, <1>7, <1>8, <1>9 DEF IndInv

-----------------------------------------------------------------------------
(* Answers and helpers.                                                    *)

LEMMA Envelopes ==
    ASSUME NEW o, NEW w \in BOOLEAN
    PROVE  /\ ErrorOf(o, w) \in Envelope
           /\ w /\ ErrorOf(o, w).retrySafe => o = "not_sent"
           /\ o \in {"lost", "late"} => ErrorOf(o, w).state = "unknown"
  BY DEF ErrorOf, Envelope, Transport, NeverSent

LEMMA Answers ==
    /\ NoAnswer \in Answer /\ ~NoAnswer.deleted /\ ~NoAnswer.error.retrySafe
    /\ \A k \in {"ok", "refused", "failed"} :
         /\ [NoAnswer EXCEPT !.outcome = k] \in Answer
         /\ ~[NoAnswer EXCEPT !.outcome = k].deleted
         /\ ~[NoAnswer EXCEPT !.outcome = k].error.retrySafe
    /\ \A s \in Squids, k \in {"ok", "failed"} :
         /\ [NoAnswer EXCEPT !.outcome = k, !.squid = s] \in Answer
         /\ [NoAnswer EXCEPT !.outcome = k, !.squid = s].squid = s
         /\ ~[NoAnswer EXCEPT !.outcome = k, !.squid = s].deleted
         /\ ~[NoAnswer EXCEPT !.outcome = k, !.squid = s].error.retrySafe
    /\ \A s \in Squids, b \in BOOLEAN :
         /\ [NoAnswer EXCEPT !.outcome = "failed", !.squid = s, !.deleted = b] \in Answer
         /\ [NoAnswer EXCEPT !.outcome = "failed", !.squid = s, !.deleted = b].squid = s
         /\ [NoAnswer EXCEPT !.outcome = "failed", !.squid = s, !.deleted = b].deleted = b
         /\ ~[NoAnswer EXCEPT !.outcome = "failed", !.squid = s,
                              !.deleted = b].error.retrySafe
  BY DEF NoAnswer, Answer, NoError, Envelope

LEMMA FailedAnswer ==
    ASSUME NEW o
    PROVE  /\ Failed(o) \in Answer /\ ~Failed(o).deleted /\ Failed(o).squid = NoSquid
           /\ Failed(o).error = ErrorOf(o, TRUE)
<1>1. ErrorOf(o, TRUE) \in Envelope
  BY Envelopes
<1>2. QED
  BY <1>1 DEF Failed, NoAnswer, Answer, NoError

LEMMA FinishFields ==
    ASSUME NEW me \in CallState, NEW a \in Answer
    PROVE  /\ Finish(me, a) \in CallState
           /\ Finish(me, a).pc = "done" /\ Finish(me, a).resp = a
           /\ Finish(me, a).req = me.req /\ Finish(me, a).squid = me.squid
           /\ Finish(me, a).read = me.read /\ Finish(me, a).seen = me.seen
           /\ Finish(me, a).wires = me.wires /\ Finish(me, a).links = me.links
           /\ Finish(me, a).made = me.made /\ Finish(me, a).applied = me.applied
  BY DEF Finish, CallState, Steps

LEMMA FaultsType ==
    ASSUME TypeOK, NEW o, Spend(o)
    PROVE  faults' \in 0..MaxFaults
  BY BoundAssumption DEF TypeOK, Spend

LEMMA EmptyTypes ==
    /\ NoConfig \in Config /\ Absent \in SquidState /\ NoRequest \in Request
    /\ IdleCall \in CallState
  BY DEF NoConfig, Config, Absent, SquidState, NoRequest, Request, IdleCall, CallState,
         Steps, Answer, NoAnswer, NoError, Envelope

\* A call that ends before it has written anything.
LEMMA GivesUp ==
    ASSUME IndInv, NEW c \in Calls, NEW a \in Answer, ~a.deleted,
           call[c].pc \in Making \cup Reused, Become(c, Finish(call[c], a)),
           UNCHANGED <<squids, stale, edits>>, faults' \in 0..MaxFaults
    PROVE  IndInv'
<1> DEFINE x == Finish(call[c], a)
<1>1. /\ x \in CallState /\ x.pc = "done" /\ x.resp = a /\ x.made = call[c].made
      /\ x.read = call[c].read /\ x.seen = call[c].seen /\ x.applied = call[c].applied
  BY CallFacts, FinishFields
<1>2. Local(x)
  BY <1>1, CallFacts DEF Local, Making, Reused, MadeSteps, Viewing
<1> HIDE DEF x
<1>3. Become(c, x)
  BY DEF x
<1>4. call[c].pc # "done"
  BY DEF Making, Reused, Viewing
<1>5. QED
  BY <1>1, <1>2, <1>3, <1>4, ReadKind DEF MadeSteps, Viewing

-----------------------------------------------------------------------------
(* The actions.                                                            *)

LEMMA InvokeStep == ASSUME IndInv, NEW c \in Calls, Invoke(c) PROVE IndInv'
<1>1. PICK r \in Requests :
        Become(c, IF Empty(r)
                  THEN Finish([IdleCall EXCEPT !.pc = FirstStep(r), !.req = r, !.squid = r.squid],
                              [NoAnswer EXCEPT !.outcome = "refused"])
                  ELSE [IdleCall EXCEPT !.pc = FirstStep(r), !.req = r, !.squid = r.squid])
  BY DEF Invoke
<1> DEFINE me == [IdleCall EXCEPT !.pc = FirstStep(r), !.req = r, !.squid = r.squid]
           a  == [NoAnswer EXCEPT !.outcome = "refused"]
           x  == IF Empty(r) THEN Finish(me, a) ELSE me
<1>2. /\ r \in Request /\ r.squid \in Squids \cup {NoSquid}
      /\ r.tool # "create" => r.squid \in Saved
      /\ FirstStep(r) \in {"schema", "create", "read", "write"}
      /\ FirstStep(r) \in {"read", "write"} <=> r.tool # "create"
      /\ FirstStep(r) = "write" => r.tool # "attach"
  BY RequestAssumption, SquidAssumption DEF Request, FirstStep
<1>3. me \in CallState
  BY <1>2, EmptyTypes DEF CallState, Steps
<1>4. /\ me.pc = FirstStep(r) /\ me.req = r /\ me.squid = r.squid /\ ~me.read
      /\ me.seen = Absent /\ me.resp = NoAnswer /\ me.made = NoSquid /\ ~me.applied
  BY DEF IdleCall
<1> HIDE DEF me
<1>5. a \in Answer /\ ~a.deleted /\ ~a.error.retrySafe
  BY Answers
<1>6. /\ Finish(me, a) \in CallState /\ Finish(me, a).pc = "done"
      /\ Finish(me, a).resp = a /\ ~Finish(me, a).read
      /\ Finish(me, a).seen = Absent /\ Finish(me, a).made = NoSquid /\ ~Finish(me, a).applied
  BY <1>3, <1>4, <1>5, FinishFields
<1> HIDE DEF a
<1>7. x \in CallState /\ Local(x) /\ ~x.read /\ x.made = NoSquid /\ ~x.resp.deleted
      /\ x.pc \notin MadeSteps
  <2>1. CASE Empty(r)
    BY <2>1, <1>5, <1>6 DEF Local, Making, Reused, Viewing, MadeSteps
  <2>2. CASE ~Empty(r)
    BY <2>2, <1>2, <1>3, <1>4, Answers DEF Local, Making, Reused, Viewing, MadeSteps
  <2>3. QED
    BY <2>1, <2>2
<1>8. Become(c, x)
  BY <1>1 DEF me, a
<1> HIDE DEF x
<1>9. /\ call[c].pc = "idle" /\ UNCHANGED <<squids, stale, edits>>
      /\ faults' \in 0..MaxFaults
  BY DEF Invoke, ReadOnly, IndInv, TypeOK
<1>10. call[c].made = NoSquid
  BY <1>9, CallFacts DEF Local, Making
<1>11. QED
  BY <1>7, <1>8, <1>9, <1>10, ReadKind

LEMMA ReadSchemaStep == ASSUME IndInv, NEW c \in Calls, ReadSchema(c) PROVE IndInv'
<1> DEFINE me == call[c]
<1>1. me.pc = "schema" /\ me.pc \in Making \cup Reused /\ UNCHANGED <<squids, stale, edits>>
  BY DEF ReadSchema, ReadOnly, Making
<1>2. ASSUME NEW o \in ReadEnds, Spend(o),
             Become(c, [me EXCEPT !.pc = "create", !.wires = o = "ok"])
      PROVE  IndInv'
  <2> DEFINE x == [me EXCEPT !.pc = "create", !.wires = o = "ok"]
  <2>1. /\ x \in CallState /\ x.pc = "create" /\ x.resp = me.resp /\ x.made = me.made
        /\ x.applied = me.applied /\ x.read = me.read /\ x.seen = me.seen
    BY CallFacts DEF CallState, Steps
  <2> HIDE DEF x
  <2>2. Become(c, x)
    BY <1>2 DEF x
  <2>3. Local(x)
    BY <1>1, <2>1, CallFacts DEF Local, Making, Reused, Viewing, MadeSteps
  <2>4. ~x.resp.deleted
    BY <1>1, <2>1, CallFacts, Answers DEF Local
  <2>5. QED
    BY <1>1, <1>2, <2>1, <2>2, <2>3, <2>4, FaultsType, ReadKind
       DEF IndInv, MadeSteps, Viewing
<1>3. ASSUME Become(c, Finish(me, [NoAnswer EXCEPT !.outcome = "refused"])), UNCHANGED faults
      PROVE  IndInv'
  BY <1>1, <1>3, Answers, GivesUp DEF IndInv, TypeOK
<1>4. QED
  BY <1>2, <1>3 DEF ReadSchema

LEMMA GetSquidStep == ASSUME IndInv, NEW c \in Calls, GetSquid(c) PROVE IndInv'
<1> DEFINE me == call[c]
           p  == IF me.req.tool = "attach" THEN "crawler" ELSE "wires"
           y  == [me EXCEPT !.pc = p, !.read = TRUE, !.seen = squids[me.squid]]
           z  == [me EXCEPT !.pc = "write"]
<1>1. /\ me.pc = "read" /\ me.pc \in Making \cup Reused
      /\ UNCHANGED <<squids, stale, edits>>
  BY DEF GetSquid, ReadOnly, Reused
<1>2. me.squid \in Saved /\ me.squid \in Squids /\ squids[me.squid] \in SquidState
  BY <1>1, CallFacts, SquidAssumption DEF Local, Reused, IndInv, TypeOK
<1>3. PICK o \in ReadEnds :
        /\ Spend(o)
        /\ Become(c, IF o = "ok" THEN y
                     ELSE IF me.req.tool = "attach" THEN Finish(me, Failed(o)) ELSE z)
  BY DEF GetSquid
<1>4. faults' \in 0..MaxFaults
  BY <1>3, FaultsType DEF IndInv
<1>5. CASE o = "ok"
  <2>1. y \in CallState
    BY <1>2, CallFacts DEF CallState, Steps
  <2>2. /\ y.pc = p /\ y.resp = me.resp /\ y.made = me.made /\ y.applied = me.applied
        /\ y.read /\ y.seen = squids[me.squid] /\ y.squid = me.squid /\ y.req = me.req
    BY CallFacts DEF CallState
  <2>3. Become(c, y)
    BY <1>3, <1>5
  <2> HIDE DEF y
  <2>4. Local(y)
    BY <1>1, <1>2, <2>2, CallFacts DEF Local, Making, Reused, Viewing, MadeSteps
  <2>5. ~y.resp.deleted
    BY <1>1, <2>2, CallFacts, Answers DEF Local
  <2>6. QED
    BY <1>1, <1>2, <1>4, <2>1, <2>2, <2>3, <2>4, <2>5, ReadKind DEF MadeSteps, Viewing
<1>6. CASE o # "ok" /\ me.req.tool = "attach"
  <2>1. Failed(o) \in Answer /\ ~Failed(o).deleted
    BY FailedAnswer
  <2>2. Become(c, Finish(me, Failed(o)))
    BY <1>3, <1>6
  <2>3. QED
    BY <1>1, <1>4, <2>1, <2>2, GivesUp
<1>7. CASE o # "ok" /\ me.req.tool # "attach"
  <2>1. z \in CallState
    BY CallFacts DEF CallState, Steps
  <2>2. /\ z.pc = "write" /\ z.resp = me.resp /\ z.made = me.made /\ z.applied = me.applied
        /\ z.read = me.read /\ z.seen = me.seen /\ z.squid = me.squid /\ z.req = me.req
    BY CallFacts DEF CallState
  <2>3. Become(c, z)
    BY <1>3, <1>7
  <2> HIDE DEF z
  <2>4. Local(z)
    BY <1>1, <1>2, <1>7, <2>2, CallFacts DEF Local, Making, Reused, Viewing, MadeSteps
  <2>5. ~z.resp.deleted
    BY <1>1, <2>2, CallFacts, Answers DEF Local
  <2>6. ~z.read
    BY <1>1, <2>2, CallFacts DEF Local
  <2>7. QED
    BY <1>1, <1>4, <2>1, <2>2, <2>3, <2>4, <2>5, <2>6, ReadKind DEF MadeSteps
<1>8. QED
  BY <1>5, <1>6, <1>7

LEMMA ReadWireNamesStep == ASSUME IndInv, NEW c \in Calls, ReadWireNames(c) PROVE IndInv'
<1> DEFINE me == call[c]
<1>1. me.pc = "wires" /\ UNCHANGED <<squids, stale, edits>>
  BY DEF ReadWireNames, ReadOnly
<1>2. PICK o \in ReadEnds :
        Spend(o) /\ Become(c, [me EXCEPT !.pc = "write", !.wires = o = "ok"])
  BY DEF ReadWireNames
<1> DEFINE x == [me EXCEPT !.pc = "write", !.wires = o = "ok"]
<1>3. x \in CallState
  BY CallFacts DEF CallState, Steps
<1>4. /\ x.pc = "write" /\ x.resp = me.resp /\ x.made = me.made /\ x.applied = me.applied
      /\ x.read = me.read /\ x.seen = me.seen /\ x.squid = me.squid /\ x.req = me.req
  BY CallFacts DEF CallState
<1>5. Become(c, x)
  BY <1>2
<1> HIDE DEF x
<1>6. Local(x)
  BY <1>1, <1>4, CallFacts DEF Local, Making, Reused, Viewing, MadeSteps
<1>7. ~x.resp.deleted
  BY <1>1, <1>4, CallFacts, Answers DEF Local
<1>8. x.squid \in Squids
  BY <1>1, <1>4, CallFacts, SquidAssumption DEF Local, Reused, Viewing
<1>9. faults' \in 0..MaxFaults
  BY <1>2, FaultsType DEF IndInv
<1>10. QED
  BY <1>1, <1>3, <1>4, <1>5, <1>6, <1>7, <1>8, <1>9, ReadKind DEF MadeSteps, Viewing

LEMMA ReadCrawlerStep == ASSUME IndInv, NEW c \in Calls, ReadCrawler(c) PROVE IndInv'
<1> DEFINE me == call[c]
           x  == [me EXCEPT !.pc = "account"]
           no == [NoAnswer EXCEPT !.outcome = "refused"]
<1>1. /\ me.pc = "crawler" /\ me.pc \in Making \cup Reused
      /\ UNCHANGED <<squids, stale, edits>>
  BY DEF ReadCrawler, ReadOnly, Reused, Viewing
<1>2. ASSUME NEW o \in ReadEnds, Spend(o), Become(c, Finish(me, Failed(o))) PROVE IndInv'
  BY <1>1, <1>2, FailedAnswer, FaultsType, GivesUp DEF IndInv
<1>3. ASSUME faults' \in 0..MaxFaults, Become(c, Finish(me, no)) PROVE IndInv'
  <2>1. no \in Answer /\ ~no.deleted
    BY Answers
  <2> HIDE DEF no
  <2>2. QED
    BY <1>1, <1>3, <2>1, GivesUp
<1>4. ASSUME NEW o \in ReadEnds, Spend(o), Become(c, x) PROVE IndInv'
  <2>1. x \in CallState
    BY CallFacts DEF CallState, Steps
  <2>2. /\ x.pc = "account" /\ x.resp = me.resp /\ x.made = me.made /\ x.applied = me.applied
        /\ x.read = me.read /\ x.seen = me.seen /\ x.squid = me.squid /\ x.req = me.req
    BY CallFacts DEF CallState
  <2> HIDE DEF x
  <2>3. Local(x)
    BY <1>1, <2>2, CallFacts DEF Local, Making, Reused, Viewing, MadeSteps
  <2>4. ~x.resp.deleted
    BY <1>1, <2>2, CallFacts, Answers DEF Local
  <2>5. x.squid \in Squids
    BY <1>1, <2>2, CallFacts, SquidAssumption DEF Local, Reused, Viewing
  <2>6. faults' \in 0..MaxFaults
    BY <1>4, FaultsType DEF IndInv
  <2>7. QED
    BY <1>1, <1>4, <2>1, <2>2, <2>3, <2>4, <2>5, <2>6, ReadKind DEF MadeSteps, Viewing
<1>5. UNCHANGED faults => faults' \in 0..MaxFaults
  BY DEF IndInv, TypeOK
<1>6. ASSUME NEW o \in ReadEnds, Spend(o) PROVE faults' \in 0..MaxFaults
  BY <1>6, FaultsType DEF IndInv
<1> HIDE DEF x, no
<1>7. \/ \E o \in ReadEnds :
            Spend(o) /\ Become(c, IF o # "ok" THEN Finish(me, Failed(o))
                                  ELSE IF ~NeedsAccount \/ (/\ me.req.account = NoAccount
                                                            /\ me.seen.accounts # {})
                                  THEN Finish(me, no) ELSE x)
      \/ Become(c, Finish(me, no)) /\ UNCHANGED faults
  BY DEF ReadCrawler, x, no
<1>8. QED
  BY <1>2, <1>3, <1>4, <1>5, <1>6, <1>7

LEMMA ResolveAccountStep == ASSUME IndInv, NEW c \in Calls, ResolveAccount(c) PROVE IndInv'
<1> DEFINE me == call[c]
           named == me.req.account # NoAccount
           pick(u) == IF named THEN {me.req.account} \cap Matching ELSE u
           x(u) == [me EXCEPT !.pc = "write", !.links = LinksWith(me, CHOOSE a \in pick(u) : TRUE)]
           no == [NoAnswer EXCEPT !.outcome = "refused"]
           yes == [NoAnswer EXCEPT !.outcome = "ok"]
<1>1. /\ me.pc = "account" /\ me.pc \in Making \cup Reused
      /\ UNCHANGED <<squids, stale, edits>>
  BY DEF ResolveAccount, ReadOnly, Reused, Viewing
<1>2. ASSUME NEW a \in {no, yes}, faults' \in 0..MaxFaults, Become(c, Finish(me, a))
      PROVE  IndInv'
  <2>1. a \in Answer /\ ~a.deleted
    BY <1>2, Answers
  <2>2. QED
    BY <1>1, <1>2, <2>1, GivesUp
<1>3. ASSUME NEW o \in ReadEnds, faults' \in 0..MaxFaults, Become(c, Finish(me, Failed(o)))
      PROVE  IndInv'
  BY <1>1, <1>3, FailedAnswer, GivesUp
<1>4. ASSUME NEW u \in SUBSET Matching, Cardinality(pick(u)) = 1, faults' \in 0..MaxFaults,
             Become(c, x(u))
      PROVE  IndInv'
  <2>1. pick(u) \subseteq Accounts /\ pick(u) # {}
    BY <1>4, AccountAssumption, FS_EmptySet
  <2> DEFINE l == LinksWith(me, CHOOSE a \in pick(u) : TRUE)
  <2>2. l \in SUBSET Accounts /\ me.seen.accounts \subseteq l
    <3>1. (CHOOSE a \in pick(u) : TRUE) \in Accounts
      BY <2>1
    <3>2. me.seen.accounts \subseteq Accounts
      BY CallFacts DEF SquidState
    <3>3. QED
      BY <3>1, <3>2 DEF LinksWith
  <2> DEFINE y == [me EXCEPT !.pc = "write", !.links = l]
  <2>3. Become(c, y)
    BY <1>4
  <2> HIDE DEF l
  <2>4. y \in CallState
    BY <2>2, CallFacts DEF CallState, Steps
  <2>5. /\ y.pc = "write" /\ y.resp = me.resp /\ y.made = me.made /\ y.applied = me.applied
        /\ y.read = me.read /\ y.seen = me.seen /\ y.squid = me.squid /\ y.req = me.req
        /\ y.links = l
    BY CallFacts DEF CallState
  <2> HIDE DEF y
  <2>6. Local(y)
    BY <1>1, <2>2, <2>5, CallFacts DEF Local, Making, Reused, Viewing, MadeSteps
  <2>7. ~y.resp.deleted
    BY <1>1, <2>5, CallFacts, Answers DEF Local
  <2>8. y.squid \in Squids
    BY <1>1, <2>5, CallFacts, SquidAssumption DEF Local, Reused, Viewing
  <2>9. QED
    BY <1>1, <1>4, <2>3, <2>4, <2>5, <2>6, <2>7, <2>8, ReadKind DEF MadeSteps, Viewing
<1>5. UNCHANGED faults => faults' \in 0..MaxFaults
  BY DEF IndInv, TypeOK
<1>6. ASSUME NEW o \in ReadEnds, Spend(o) PROVE faults' \in 0..MaxFaults
  BY <1>6, FaultsType DEF IndInv
<1>7. \/ \E o \in ReadEnds :
            /\ Spend(o)
            /\ Become(c, Finish(me, no)) \/ Become(c, Finish(me, Failed(o)))
      \/ /\ UNCHANGED faults
         /\ \E u \in SUBSET Matching :
              \/ \E a \in {no, yes} : Become(c, Finish(me, a))
              \/ Cardinality(pick(u)) = 1 /\ Become(c, x(u))
  <2>1. CASE \E o \in ReadEnds \ {"ok"} :
               /\ Spend(o)
               /\ Become(c, Finish(me, IF o = "rejected" /\ me.req.account # NoAccount
                                       THEN no ELSE Failed(o)))
    BY <2>1
  <2>2. CASE /\ UNCHANGED faults
             /\ \E u \in SUBSET Matching :
                  Become(c, IF Cardinality(pick(u)) # 1 THEN Finish(me, no)
                            ELSE IF pick(u) \subseteq me.seen.accounts THEN Finish(me, yes)
                            ELSE x(u))
    <3>1. PICK u \in SUBSET Matching :
            Become(c, IF Cardinality(pick(u)) # 1 THEN Finish(me, no)
                      ELSE IF pick(u) \subseteq me.seen.accounts THEN Finish(me, yes)
                      ELSE x(u))
      BY <2>2
    <3> HIDE DEF x, pick, no, yes
    <3>2. \/ Become(c, Finish(me, no)) \/ Become(c, Finish(me, yes))
          \/ Cardinality(pick(u)) = 1 /\ Become(c, x(u))
      BY <3>1
    <3>3. QED
      BY <2>2, <3>2
  <2>3. QED
    BY <2>1, <2>2 DEF ResolveAccount
<1> HIDE DEF x, no, yes, pick
<1>8. QED
  BY <1>2, <1>3, <1>4, <1>5, <1>6, <1>7

LEMMA ApplyFacts ==
    ASSUME NEW cfg \in Config, NEW wires \in BOOLEAN
    PROVE  /\ ApplyWireNames(cfg, wires) \in Config
           /\ \A a \in Aliases : ApplyWireNames(cfg, wires)[a] # Unset
                                   => cfg[a] # Unset /\ ~wires
           /\ \A n \in Names : ApplyWireNames(cfg, wires)[n] # Unset =>
                \/ cfg[n] # Unset
                \/ \E a \in Aliases : WireName[a] = n /\ cfg[a] # Unset
<1>1. CASE ~wires
  BY <1>1 DEF ApplyWireNames, Names
<1>2. CASE wires
  <2> DEFINE Set(n) == \E a \in Aliases : WireName[a] = n /\ cfg[a] # Unset
             v(n) == IF n \in Aliases THEN Unset
                     ELSE IF Set(n)
                     THEN cfg[CHOOSE a \in Aliases : WireName[a] = n /\ cfg[a] # Unset]
                     ELSE cfg[n]
  <2>1. ApplyWireNames(cfg, wires) = [n \in Names |-> v(n)]
    BY <1>2 DEF ApplyWireNames
  <2>2. ASSUME NEW n \in Names
        PROVE  v(n) \in Values \cup {Unset} /\ (v(n) # Unset => cfg[n] # Unset \/ Set(n))
    <3>1. Set(n) => (CHOOSE a \in Aliases : WireName[a] = n /\ cfg[a] # Unset) \in Names
      BY DEF Names
    <3>2. QED
      BY <3>1 DEF Config
  <2>3. \A a \in Aliases : v(a) = Unset /\ a \in Names
    BY DEF Names
  <2> HIDE DEF v
  <2>4. QED
    BY <2>1, <2>2, <2>3 DEF Config
<1>3. QED
  BY <1>1, <1>2

LEMMA FilledFacts ==
    ASSUME NEW cfg \in Config, NEW wires \in BOOLEAN
    PROVE  /\ Filled(cfg, wires) \in Config
           /\ \A a \in Aliases : Filled(cfg, wires)[a] = cfg[a]
<1>1. \A a \in Aliases : a \in Names /\ a \notin Settings
  BY SettingAssumption DEF Names
<1>2. QED
  BY <1>1, SettingAssumption DEF Filled, Config

\* What the write of a tool may leave at a squid that it reuses.
LEMMA WrittenFacts ==
    ASSUME IndInv, NEW c \in Calls, call[c].pc = "write",
           NEW q, q = squids[call[c].squid]
    PROVE  LET w == Written(q, call[c])
               p == Effective(call[c].seen.params, ApplyWireNames(call[c].req.cfg, call[c].wires))
           IN /\ w \in SquidState /\ w.exists = q.exists
              /\ call[c].req.tool = "attach" => w.accounts = call[c].links
              /\ call[c].req.tool # "attach" => w.accounts = q.accounts
              /\ w.params \in {q.params, p} /\ w.name \in {q.name, BodyName(call[c])}
              /\ call[c].req.tool # "update" => w.params = q.params /\ w.name = q.name
<1> DEFINE me == call[c]
           new == ApplyWireNames(me.req.cfg, me.wires)
           p == Effective(me.seen.params, new)
           w == Written(q, me)
<1>1. /\ me \in CallState /\ me.req \in Request /\ me.seen \in SquidState
      /\ me.squid \in Saved /\ me.squid \in Squids /\ me.req.tool # "create"
      /\ me.wires \in BOOLEAN /\ me.links \subseteq Accounts
  BY CallFacts, SquidAssumption DEF Local, Reused, Viewing, CallState
<1>2. q \in SquidState
  BY <1>1 DEF IndInv, TypeOK
<1>3. p \in Config
  <2>1. new \in Config /\ me.seen.params \in Config
    BY <1>1, ApplyFacts DEF Request, SquidState
  <2>2. QED
    BY <2>1 DEF Effective, Config
<1>4. BodyName(me) \in Titles \cup {NoTitle} \cup Squids
  BY <1>1 DEF BodyName, Request, SquidState
<1>5. CASE me.req.tool = "update"
  <2> DEFINE nm == IF HasConfig(me) \/ me.req.name # NoTitle THEN BodyName(me) ELSE q.name
             ps == IF HasConfig(me) THEN p ELSE q.params
             cc == q.conc \/ me.req.conc
  <2>1. w = [q EXCEPT !.name = nm, !.params = ps, !.conc = cc]
    BY <1>5 DEF Written, Updated
  <2>2. nm \in {q.name, BodyName(me)} /\ ps \in {q.params, p} /\ cc \in BOOLEAN
        /\ nm \in Titles \cup {NoTitle} \cup Squids /\ ps \in Config
    BY <1>1, <1>2, <1>3, <1>4 DEF SquidState, Request
  <2> HIDE DEF nm, ps, cc, p, w
  <2>3. w \in SquidState
    BY <1>2, <2>1, <2>2 DEF SquidState
  <2>4. w.exists = q.exists /\ w.accounts = q.accounts /\ w.params = ps /\ w.name = nm
    BY <1>2, <2>1 DEF SquidState
  <2>5. QED
    BY <1>5, <2>2, <2>3, <2>4 DEF p, w
<1>6. CASE me.req.tool = "add"
  <2>1. w = [q EXCEPT !.rows = @ \cup me.req.rows]
    BY <1>6 DEF Written
  <2>2. QED
    BY <1>1, <1>2, <1>6, <2>1 DEF SquidState, Request
<1>7. CASE me.req.tool = "attach"
  <2>1. w = [q EXCEPT !.accounts = me.links]
    BY <1>7 DEF Written
  <2>2. QED
    BY <1>1, <1>2, <1>7, <2>1 DEF SquidState
<1>8. CASE me.req.tool = "empty"
  <2>1. w = [q EXCEPT !.rows = {}]
    BY <1>8 DEF Written
  <2>2. QED
    BY <1>2, <1>8, <2>1 DEF SquidState
<1>9. CASE me.req.tool = "deactivate"
  <2>1. w = [q EXCEPT !.active = FALSE]
    BY <1>9 DEF Written
  <2>2. QED
    BY <1>2, <1>9, <2>1 DEF SquidState
<1>10. QED
  BY <1>1, <1>5, <1>6, <1>7, <1>8, <1>9 DEF Request

LEMMA WriteSquidStep == ASSUME IndInv, NEW c \in Calls, WriteSquid(c) PROVE IndInv'
<1> DEFINE me == call[c]
           s  == me.squid
           A(o) == IF o = "ok" THEN [NoAnswer EXCEPT !.outcome = "ok", !.squid = s] ELSE Failed(o)
           x(o) == [Finish(me, A(o)) EXCEPT !.applied = Applied(o)]
           new(o) == IF Applied(o) THEN Written(squids[s], me) ELSE squids[s]
<1>1. me.pc = "write" /\ edits' = edits
  BY DEF WriteSquid
<1>2. PICK o \in WriteEnds : Spend(o) /\ Put(s, new(o), {c}) /\ Become(c, x(o))
  BY DEF WriteSquid
<1>3. /\ me \in CallState /\ s \in Saved /\ s \in Squids /\ me.made = NoSquid
      /\ squids[s] \in SquidState
  BY <1>1, CallFacts, SquidAssumption DEF Local, Reused, Viewing, IndInv, TypeOK
<1>4. /\ A(o) \in Answer /\ ~A(o).deleted
      /\ A(o).error.retrySafe => o = "not_sent"
  <2>1. CASE o = "ok"
    BY <1>3, <2>1 DEF NoAnswer, Answer, NoError, Envelope
  <2>2. CASE o # "ok"
    BY <2>2, FailedAnswer, Envelopes
  <2>3. QED
    BY <2>1, <2>2
<1>5. Applied(o) \in BOOLEAN /\ (o = "not_sent" => ~Applied(o))
  BY DEF Applied
<1>6. new(o) \in SquidState
  BY <1>1, <1>3, WrittenFacts
<1>7. ASSUME NEW a \in Aliases, new(o).params[a] # Unset
      PROVE  SomeoneSent(s, a) \/ (me.req.cfg[a] # Unset /\ ~me.wires)
  <2> DEFINE wn == ApplyWireNames(me.req.cfg, me.wires)
             p == Effective(me.seen.params, wn)
  <2>1. new(o).params \in {squids[s].params, p}
    BY <1>1, WrittenFacts
  <2>2. CASE new(o).params = squids[s].params
    BY <1>3, <1>7, <2>2 DEF IndInv, RealNames
  <2>3. CASE new(o).params = p
    <3>1. p[a] = IF wn[a] # Unset THEN wn[a] ELSE me.seen.params[a]
      BY DEF Effective, Names
    <3>2. CASE wn[a] # Unset
      BY <1>3, <3>2, ApplyFacts, CallFacts DEF Request
    <3>3. CASE wn[a] = Unset
      <4>1. me.seen.params[a] # Unset
        BY <1>7, <2>3, <3>1, <3>3
      <4>2. me.read
        BY <4>1, CallFacts DEF Local, Absent, NoConfig, Names
      <4>3. QED
        BY <1>1, <4>1, <4>2 DEF IndInv, View, Viewing
    <3>4. QED
      BY <3>2, <3>3
  <2>4. QED
    BY <2>1, <2>2, <2>3
<1> HIDE DEF new, A
<1>8. /\ x(o) \in CallState /\ x(o).pc = "done" /\ x(o).resp = A(o) /\ x(o).made = NoSquid
      /\ x(o).req = me.req /\ x(o).squid = s /\ x(o).wires = me.wires
      /\ x(o).read = me.read /\ x(o).seen = me.seen /\ x(o).applied = Applied(o)
  <2>1. /\ Finish(me, A(o)) \in CallState /\ Finish(me, A(o)).pc = "done"
        /\ Finish(me, A(o)).resp = A(o) /\ Finish(me, A(o)).made = me.made
        /\ Finish(me, A(o)).req = me.req /\ Finish(me, A(o)).squid = me.squid
        /\ Finish(me, A(o)).wires = me.wires
        /\ Finish(me, A(o)).read = me.read /\ Finish(me, A(o)).seen = me.seen
    BY <1>3, <1>4, FinishFields
  <2> DEFINE f == Finish(me, A(o))
  <2> HIDE DEF f
  <2>2. x(o) = [f EXCEPT !.applied = Applied(o)] /\ f \in CallState
    BY <2>1 DEF f
  <2> HIDE DEF x
  <2>3. /\ x(o) \in CallState /\ x(o).pc = f.pc /\ x(o).resp = f.resp
        /\ x(o).made = f.made /\ x(o).req = f.req /\ x(o).squid = f.squid
        /\ x(o).wires = f.wires /\ x(o).read = f.read /\ x(o).seen = f.seen
        /\ x(o).applied = Applied(o)
    BY <1>5, <2>2 DEF CallState
  <2>4. QED
    BY <1>3, <2>1, <2>3 DEF f
<1> HIDE DEF x
<1>9. Local(x(o))
  BY <1>4, <1>5, <1>8, CallFacts DEF Local, Making, Reused, Viewing, MadeSteps
<1>10. faults' \in 0..MaxFaults
  BY <1>2, FaultsType DEF IndInv
<1>11. QED
  BY <1>1, <1>2, <1>3, <1>4, <1>6, <1>7, <1>8, <1>9, <1>10, WriteKind DEF MadeSteps

LEMMA CreateSquidStep == ASSUME IndInv, NEW c \in Calls, CreateSquid(c) PROVE IndInv'
<1> DEFINE me == call[c]
<1>1. /\ me.pc = "create" /\ edits' = edits /\ me \in CallState
      /\ me.made = NoSquid /\ me.resp = NoAnswer /\ ~me.read /\ me.seen = Absent
      /\ me.req \in Request
  BY CallFacts DEF CreateSquid, Local, Making
<1> DEFINE new(o, s) == IF Applied(o) THEN [Absent EXCEPT !.exists = TRUE, !.name = me.req.name]
                        ELSE squids[s]
           made(o, s) == [me EXCEPT !.made = IF Applied(o) THEN s ELSE NoSquid,
                                    !.applied = Applied(o)]
           conf(o, s) == [made(o, s) EXCEPT !.pc = "configure", !.squid = s]
           ans(s) == [NoAnswer EXCEPT !.outcome = "ok", !.squid = s]
           done(o, s) == [Finish(made(o, s), ans(s)) EXCEPT !.squid = s]
           x(o, s) == IF o # "ok" THEN Finish(made(o, s), Failed(o))
                      ELSE IF HasConfig(me) \/ me.req.conc THEN conf(o, s) ELSE done(o, s)
<1>2. PICK o \in WriteEnds, s \in {t \in Squids \ Saved : ~squids[t].exists} :
        /\ Spend(o) /\ s \notin {call[d].made : d \in Calls}
        /\ Put(s, new(o, s), {c}) /\ Become(c, x(o, s))
  BY DEF CreateSquid
<1> DEFINE m == made(o, s)
           y == x(o, s)
           w == new(o, s)
           id == IF Applied(o) THEN s ELSE NoSquid
<1>3. /\ s \in Squids /\ s \notin Saved /\ \A d \in Calls : call[d].made # s
      /\ squids[s] \in SquidState /\ Applied(o) \in BOOLEAN
      /\ s # NoSquid /\ id \in (Squids \ Saved) \cup {NoSquid}
  BY <1>2, SquidAssumption DEF Applied, IndInv, TypeOK
<1>4. /\ m \in CallState /\ m.pc = "create" /\ m.made = id /\ m.applied = Applied(o)
      /\ m.resp = NoAnswer /\ m.req = me.req /\ ~m.read /\ m.seen = Absent
      /\ m.wires = me.wires
  BY <1>1, <1>3 DEF CallState
<1>5. /\ w \in SquidState /\ w.accounts = {}
      /\ Applied(o) => w.params = NoConfig /\ ~w.conc
      /\ ~Applied(o) => w = squids[s]
  <2>1. CASE Applied(o)
    BY <1>1, <2>1, EmptyTypes DEF Absent, SquidState, Request
  <2>2. CASE ~Applied(o)
    BY <1>3, <2>2 DEF IndInv, NewUnlinked
  <2>3. QED
    BY <2>1, <2>2
<1> HIDE DEF w
<1>6. \A a \in Aliases : w.params[a] # Unset => SomeoneSent(s, a)
  <2>1. CASE Applied(o)
    BY <1>5, <2>1 DEF NoConfig, Names
  <2>2. CASE ~Applied(o)
    BY <1>3, <1>5, <2>2 DEF IndInv, RealNames
  <2>3. QED
    BY <2>1, <2>2
<1>7. /\ y \in CallState /\ Local(y) /\ y.pc \in {"done", "configure"} /\ y.made = id
      /\ ~y.resp.deleted /\ (y.pc = "configure" => Applied(o))
  <2>1. CASE o # "ok"
    <3>1. /\ Failed(o) \in Answer /\ ~Failed(o).deleted /\ Failed(o).squid = NoSquid
          /\ Failed(o).error.retrySafe => o = "not_sent"
          /\ o \in {"lost", "late"} => Failed(o).error.state = "unknown"
      BY FailedAnswer, Envelopes
    <3> HIDE DEF m
    <3>2. /\ Finish(m, Failed(o)) \in CallState /\ Finish(m, Failed(o)).pc = "done"
          /\ Finish(m, Failed(o)).resp = Failed(o) /\ Finish(m, Failed(o)).made = id
          /\ Finish(m, Failed(o)).applied = Applied(o)
          /\ ~Finish(m, Failed(o)).read /\ Finish(m, Failed(o)).seen = Absent
      BY <1>4, <3>1, FinishFields
    <3>3. y = Finish(m, Failed(o))
      BY <2>1 DEF m
    <3> HIDE DEF y, id
    <3>4. id = IF Applied(o) THEN s ELSE NoSquid
      BY DEF id
    <3>5. Local(y)
      BY <1>3, <2>1, <3>1, <3>2, <3>3, <3>4
         DEF Local, Making, Reused, Viewing, MadeSteps, Applied
    <3>6. QED
      BY <3>1, <3>2, <3>3, <3>5
  <2>2. CASE o = "ok" /\ (HasConfig(me) \/ me.req.conc)
    <3>1. y = [m EXCEPT !.pc = "configure", !.squid = s] /\ Applied(o) /\ id = s
      BY <2>2 DEF Applied
    <3> HIDE DEF m, y, id
    <3>2. /\ y \in CallState /\ y.pc = "configure" /\ y.squid = s /\ y.made = id
          /\ y.resp = NoAnswer /\ ~y.read /\ y.seen = Absent
      BY <1>3, <1>4, <3>1 DEF CallState, Steps
    <3>3. Local(y)
      BY <1>3, <3>1, <3>2, Answers DEF Local, Making, Reused, Viewing, MadeSteps
    <3>4. QED
      BY <3>1, <3>2, <3>3, Answers
  <2>3. CASE o = "ok" /\ ~(HasConfig(me) \/ me.req.conc)
    <3>1. ans(s) \in Answer /\ ans(s).squid = s /\ ~ans(s).deleted /\ ~ans(s).error.retrySafe
      BY <1>3, Answers
    <3>2. y = [Finish(m, ans(s)) EXCEPT !.squid = s] /\ Applied(o) /\ id = s
      BY <2>3 DEF Applied
    <3> HIDE DEF m, y, id, ans
    <3> DEFINE f == Finish(m, ans(s))
    <3>3. /\ f \in CallState /\ f.pc = "done" /\ f.resp = ans(s) /\ f.made = id
          /\ ~f.read /\ f.seen = Absent
      BY <1>4, <3>1, FinishFields
    <3>4. y = [f EXCEPT !.squid = s]
      BY <3>2
    <3> HIDE DEF f
    <3>5. /\ y \in CallState /\ y.pc = "done" /\ y.resp = ans(s) /\ y.made = id
          /\ ~y.read /\ y.seen = Absent
      BY <1>3, <3>3, <3>4 DEF CallState
    <3>6. Local(y)
      BY <1>3, <3>1, <3>2, <3>5 DEF Local, Making, Reused, Viewing, MadeSteps
    <3>7. QED
      BY <3>1, <3>5, <3>6
  <2>4. QED
    BY <2>1, <2>2, <2>3
<1>8. Become(c, y) /\ Put(s, w, {c}) /\ faults' \in 0..MaxFaults
  BY <1>2, FaultsType DEF IndInv, w
<1>9. id = IF Applied(o) THEN s ELSE NoSquid
  OBVIOUS
<1> HIDE DEF m, y, id
<1>10. QED
  BY <1>1, <1>3, <1>5, <1>6, <1>7, <1>8, <1>9, WriteKind DEF MadeSteps

LEMMA ConfigureSquidStep == ASSUME IndInv, NEW c \in Calls, ConfigureSquid(c) PROVE IndInv'
<1> DEFINE me == call[c]
           s  == me.squid
           cfg == ApplyWireNames(Filled(me.req.cfg, me.wires), me.wires)
           ps == IF HasConfig(me) THEN cfg ELSE squids[s].params
           cc == squids[s].conc \/ me.req.conc
           new(o) == IF Applied(o) THEN [squids[s] EXCEPT !.params = ps, !.conc = cc] ELSE squids[s]
           good == [NoAnswer EXCEPT !.outcome = "ok", !.squid = s]
           bad == [NoAnswer EXCEPT !.outcome = "failed", !.squid = s]
           x(o) == IF o = "ok" THEN Finish(me, good)
                   ELSE IF o = "rejected" THEN [me EXCEPT !.pc = "cleanup"] ELSE Finish(me, bad)
<1>1. /\ me.pc = "configure" /\ edits' = edits /\ me \in CallState
      /\ s = me.made /\ s \in Squids /\ s \notin Saved /\ me.resp = NoAnswer
      /\ squids[s].params = NoConfig /\ ~squids[s].conc /\ squids[s].accounts = {}
      /\ me.req \in Request /\ me.wires \in BOOLEAN /\ squids[s] \in SquidState
      /\ s # NoSquid
  BY CallFacts, SquidAssumption
     DEF ConfigureSquid, Local, MadeSteps, IndInv, Own, NewUnlinked, TypeOK
<1>2. PICK o \in WriteEnds : Spend(o) /\ Put(s, new(o), {c}) /\ Become(c, x(o))
  BY DEF ConfigureSquid, ConfigFailed
<1>3. /\ cfg \in Config
      /\ \A a \in Aliases : cfg[a] # Unset => me.req.cfg[a] # Unset /\ ~me.wires
  <2>1. me.req.cfg \in Config
    BY <1>1 DEF Request
  <2> DEFINE full == Filled(me.req.cfg, me.wires)
  <2>2. full \in Config /\ \A a \in Aliases : full[a] = me.req.cfg[a]
    BY <1>1, <2>1, FilledFacts
  <2> HIDE DEF full
  <2>3. /\ ApplyWireNames(full, me.wires) \in Config
        /\ \A a \in Aliases : ApplyWireNames(full, me.wires)[a] # Unset
                               => full[a] # Unset /\ ~me.wires
    BY <1>1, <2>2, ApplyFacts
  <2>4. QED
    BY <2>2, <2>3 DEF full
<1>4. /\ ps \in Config /\ cc \in BOOLEAN
      /\ \A a \in Aliases : ps[a] # Unset => me.req.cfg[a] # Unset /\ ~me.wires
  BY <1>1, <1>3 DEF SquidState, Request, NoConfig, Names
<1> HIDE DEF ps, cc
<1>5. /\ new(o) \in SquidState /\ new(o).accounts = {}
      /\ ~Applied(o) => new(o).params = NoConfig /\ ~new(o).conc
      /\ \A a \in Aliases : new(o).params[a] # Unset =>
           Applied(o) /\ me.req.cfg[a] # Unset /\ ~me.wires
  <2>1. CASE Applied(o)
    BY <1>1, <1>4, <2>1 DEF SquidState
  <2>2. CASE ~Applied(o)
    BY <1>1, <2>2 DEF NoConfig, Names
  <2>3. QED
    BY <2>1, <2>2
<1>6. \A a \in {good, bad} : a \in Answer /\ a.squid = s /\ ~a.deleted /\ ~a.error.retrySafe
  <2>1. good \in Answer /\ good.squid = s /\ ~good.deleted /\ ~good.error.retrySafe
    BY <1>1 DEF NoAnswer, Answer, NoError, Envelope
  <2>2. bad \in Answer /\ bad.squid = s /\ ~bad.deleted /\ ~bad.error.retrySafe
    BY <1>1 DEF NoAnswer, Answer, NoError, Envelope
  <2> HIDE DEF good, bad
  <2>3. QED
    BY <2>1, <2>2
<1>7. /\ x(o) \in CallState /\ Local(x(o)) /\ x(o).made = s /\ ~x(o).resp.deleted
      /\ x(o).squid = s /\ x(o).req = me.req /\ x(o).wires = me.wires
      /\ x(o).pc = IF o = "rejected" THEN "cleanup" ELSE "done"
  <2>1. CASE o = "rejected"
    <3>1. x(o) = [me EXCEPT !.pc = "cleanup"]
      BY <2>1
    <3> HIDE DEF x
    <3>2. /\ x(o) \in CallState /\ x(o).pc = "cleanup" /\ x(o).squid = s /\ x(o).made = s
          /\ x(o).resp = NoAnswer /\ x(o).read = me.read /\ x(o).seen = me.seen
          /\ x(o).req = me.req /\ x(o).wires = me.wires
      BY <1>1, <3>1 DEF CallState, Steps
    <3>3. Local(x(o))
      BY <1>1, <3>2, Answers, CallFacts DEF Local, Making, Reused, Viewing, MadeSteps
    <3>4. QED
      BY <2>1, <3>2, <3>3, Answers
  <2>2. CASE o # "rejected"
    <3>1. PICK a \in {good, bad} : x(o) = Finish(me, a)
      BY <2>2
    <3> HIDE DEF x, good, bad
    <3>2. /\ x(o) \in CallState /\ x(o).pc = "done" /\ x(o).squid = s /\ x(o).made = s
          /\ x(o).resp = a /\ x(o).read = me.read /\ x(o).seen = me.seen
          /\ x(o).req = me.req /\ x(o).wires = me.wires
      BY <1>1, <1>6, <3>1, FinishFields
    <3>3. Local(x(o))
      BY <1>1, <1>6, <3>2, CallFacts DEF Local, Making, Reused, Viewing, MadeSteps
    <3>4. QED
      BY <1>6, <2>2, <3>2, <3>3
  <2>3. QED
    BY <2>1, <2>2
<1>8. Applied(o) => o # "rejected"
  BY DEF Applied
<1>9. faults' \in 0..MaxFaults
  BY <1>2, FaultsType DEF IndInv
<1> HIDE DEF x, new
<1>10. QED
  BY <1>1, <1>2, <1>5, <1>7, <1>8, <1>9, WriteKind DEF MadeSteps

LEMMA DeleteSquidStep == ASSUME IndInv, NEW c \in Calls, DeleteSquid(c) PROVE IndInv'
<1> DEFINE me == call[c]
           s  == me.squid
           new(o) == IF Applied(o) THEN Absent ELSE squids[s]
           a(b) == [NoAnswer EXCEPT !.outcome = "failed", !.squid = s, !.deleted = b]
           x(b) == Finish(me, a(b))
<1>1. /\ me.pc = "cleanup" /\ edits' = edits /\ me \in CallState
      /\ s = me.made /\ s \in Squids /\ s \notin Saved
      /\ squids[s].params = NoConfig /\ ~squids[s].conc /\ squids[s].accounts = {}
      /\ squids[s] \in SquidState
  BY CallFacts DEF DeleteSquid, Local, MadeSteps, IndInv, Own, NewUnlinked, TypeOK
<1>2. PICK o \in WriteEnds : Spend(o) /\ Put(s, new(o), {c}) /\ Become(c, x(o = "ok"))
  BY DEF DeleteSquid, CleanedUp
<1> DEFINE b == o = "ok"
<1>3. b \in BOOLEAN /\ (b => Applied(o))
  BY DEF Applied
<1>4. Become(c, x(b))
  BY <1>2
<1> HIDE DEF b
<1>5. a(b) \in Answer /\ a(b).squid = s /\ a(b).deleted = b /\ ~a(b).error.retrySafe
  BY <1>1, <1>3, Answers
<1>6. /\ new(o) \in SquidState /\ new(o).params = NoConfig /\ new(o).accounts = {}
      /\ Applied(o) => ~new(o).exists
  BY <1>1, EmptyTypes DEF Absent
<1> DEFINE w == new(o)
           y == x(b)
<1> HIDE DEF a, w
<1>7. /\ y \in CallState /\ y.pc = "done" /\ y.resp = a(b) /\ y.made = s
      /\ y.read = me.read /\ y.seen = me.seen
  BY <1>1, <1>5, FinishFields
<1> HIDE DEF y
<1>8. Local(y)
  BY <1>1, <1>5, <1>7, CallFacts DEF Local, Making, Reused, Viewing, MadeSteps
<1>9. faults' \in 0..MaxFaults
  BY <1>2, FaultsType DEF IndInv
<1>10. /\ w \in SquidState /\ w.params = NoConfig /\ w.accounts = {}
       /\ b => ~w.exists
       /\ \A e \in Aliases : w.params[e] = Unset
  <2>1. /\ w \in SquidState /\ w.params = NoConfig /\ w.accounts = {}
        /\ Applied(o) => ~w.exists
    BY <1>6 DEF w
  <2>2. \A e \in Aliases : NoConfig[e] = Unset
    BY DEF NoConfig, Names
  <2>3. QED
    BY <1>3, <2>1, <2>2
<1>11. Put(s, w, {c}) /\ Become(c, y)
  BY <1>2, <1>4 DEF w, y
<1> HIDE DEF x, new
<1>12. QED
  BY <1>1, <1>3, <1>5, <1>7, <1>8, <1>9, <1>10, <1>11, WriteKind DEF MadeSteps

LEMMA OutsideEditFacts ==
    ASSUME IndInv, NEW s \in Saved, OutsideEdit(s)
    PROVE  \E new \in SquidState :
             /\ Put(s, new, {}) /\ new.exists = squids[s].exists
             /\ \A a \in Aliases : new.params[a] = squids[s].params[a]
<1> DEFINE q == squids[s]
<1>1. s \in Squids /\ q \in SquidState
  BY SquidAssumption DEF IndInv, TypeOK
<1>2. PICK new : /\ Put(s, new, {})
                 /\ new \in {[q EXCEPT !.name = t] : t \in Titles}
                      \cup {[q EXCEPT !.params[k] = v] : k \in Settings, v \in Values \cup {Unset}}
                      \cup {[q EXCEPT !.accounts = l] : l \in SUBSET Accounts}
                      \cup {[q EXCEPT !.rows = r] : r \in SUBSET Rows}
                      \cup {[q EXCEPT !.active = TRUE]}
  BY DEF OutsideEdit
<1> DEFINE Goal == /\ new \in SquidState /\ new.exists = q.exists
                   /\ \A a \in Aliases : new.params[a] = q.params[a]
<1>3. ASSUME NEW k \in Settings, NEW v \in Values \cup {Unset}, new = [q EXCEPT !.params[k] = v]
      PROVE  Goal
  <2>1. q.params \in Config /\ k \in Names /\ \A a \in Aliases : a # k /\ a \in Names
    BY <1>1, SettingAssumption DEF SquidState, Names
  <2> DEFINE p == [q.params EXCEPT ![k] = v]
  <2>2. p \in Config /\ \A a \in Aliases : p[a] = q.params[a]
    BY <2>1 DEF Config
  <2>3. new = [q EXCEPT !.params = p]
    BY <1>3
  <2> HIDE DEF p, q
  <2>4. QED
    BY <1>1, <2>2, <2>3 DEF SquidState, q
<1>4. ASSUME NEW t \in Titles, new = [q EXCEPT !.name = t] PROVE Goal
  BY <1>1, <1>4 DEF SquidState
<1>5. ASSUME NEW l \in SUBSET Accounts, new = [q EXCEPT !.accounts = l] PROVE Goal
  BY <1>1, <1>5 DEF SquidState
<1>6. ASSUME NEW r \in SUBSET Rows, new = [q EXCEPT !.rows = r] PROVE Goal
  BY <1>1, <1>6 DEF SquidState
<1>7. ASSUME new = [q EXCEPT !.active = TRUE] PROVE Goal
  BY <1>1, <1>7 DEF SquidState
<1>8. Goal
  <2> HIDE DEF Goal, q
  <2>1. CASE new \in {[q EXCEPT !.params[k] = v] : k \in Settings, v \in Values \cup {Unset}}
    BY <1>3, <2>1
  <2>2. CASE new \in {[q EXCEPT !.name = t] : t \in Titles}
    BY <1>4, <2>2
  <2>3. CASE new \in {[q EXCEPT !.accounts = l] : l \in SUBSET Accounts}
    BY <1>5, <2>3
  <2>4. CASE new \in {[q EXCEPT !.rows = r] : r \in SUBSET Rows}
    BY <1>6, <2>4
  <2>5. CASE new \in {[q EXCEPT !.active = TRUE]}
    BY <1>7, <2>5
  <2>6. QED
    BY <1>2, <2>1, <2>2, <2>3, <2>4, <2>5
<1>9. QED
  BY <1>2, <1>8

LEMMA OutsideEditStep == ASSUME IndInv, NEW s \in Saved, OutsideEdit(s) PROVE IndInv'
<1>1. PICK new \in SquidState :
        Put(s, new, {}) /\ \A a \in Aliases : new.params[a] = squids[s].params[a]
  BY OutsideEditFacts
<1>2. s \in Squids
  BY SquidAssumption
<1>3. /\ squids' \in [Squids -> SquidState]
      /\ squids'[s] = new /\ \A t \in Squids : t # s => squids'[t] = squids[t]
      /\ stale' \subseteq Calls /\ stale \subseteq stale'
      /\ \A d \in Calls : d \notin stale' /\ call[d].squid = s /\ call[d].pc \in Viewing
                            => new = squids[s]
  BY <1>1, <1>2, PutValue DEF IndInv
<1>4. call' = call /\ faults' = faults /\ edits' \in 0..MaxEdits
  BY BoundAssumption DEF OutsideEdit, IndInv, TypeOK
<1>5. TypeOK' /\ \A c \in Calls : Local(call[c])'
  BY <1>3, <1>4 DEF IndInv, TypeOK
<1>6. \A t, a : SomeoneSent(t, a) <=> SomeoneSent(t, a)'
  BY <1>4 DEF SomeoneSent
<1>7. ASSUME NEW c \in Calls PROVE View(c)'
  <2>1. SUFFICES ASSUME call[c].read, call[c].pc \in Viewing
                 PROVE  /\ c \notin stale' => squids'[call[c].squid] = call[c].seen
                        /\ \A a \in Aliases : call[c].seen.params[a] # Unset
                                                => SomeoneSent(call[c].squid, a)'
    BY <1>4 DEF View
  <2>2. call[c].squid \in Squids
    BY <2>1, CallFacts, SquidAssumption DEF Local, Reused
  <2>3. QED
    BY <1>3, <1>4, <1>6, <2>1, <2>2 DEF IndInv, View
<1>8. ASSUME NEW c \in Calls PROVE Own(c)'
  <2>1. call[c].pc \in MadeSteps \/ call[c].resp.deleted => call[c].made \in Squids \ Saved
    BY CallFacts DEF IndInv, Own, Local
  <2>2. QED
    BY <1>3, <1>4, <2>1 DEF IndInv, Own
<1>9. MadeApart' /\ NewUnlinked'
  BY <1>3, <1>4 DEF IndInv, MadeApart, NewUnlinked
<1>10. RealNames'
  BY <1>1, <1>2, <1>3, <1>6 DEF IndInv, RealNames
<1>11. QED
  BY <1>5, <1>7, <1>8, <1>9, <1>10 DEF IndInv

LEMMA InitSquids == Init => IndInv
<1> SUFFICES ASSUME Init PROVE IndInv
  OBVIOUS
<1>1. PICK f \in [Saved -> AtFirst] :
        squids = [s \in Squids |-> IF s \in Saved THEN f[s] ELSE Absent]
  BY DEF Init
<1>2. \A s \in Squids : /\ squids[s] \in SquidState
                        /\ \A a \in Aliases : squids[s].params[a] = Unset
                        /\ s \notin Saved => squids[s].accounts = {}
  BY <1>1, StartAssumption, EmptyTypes DEF Absent, NoConfig, Names
<1>3. \A c \in Calls : /\ call[c] = IdleCall
                       /\ Local(IdleCall)
  BY Answers DEF Init, Local, IdleCall, Making, Reused, Viewing, MadeSteps
<1>4. TypeOK
  BY <1>1, <1>2, EmptyTypes, BoundAssumption DEF Init, TypeOK
<1>5. \A c \in Calls : View(c) /\ Own(c)
  <2>1. ~IdleCall.read /\ ~IdleCall.resp.deleted /\ IdleCall.pc \notin MadeSteps
    BY DEF IdleCall, NoAnswer, MadeSteps
  <2>2. QED
    BY <1>3, <2>1 DEF View, Own
<1>6. MadeApart /\ NewUnlinked /\ RealNames
  BY <1>2, <1>3 DEF MadeApart, NewUnlinked, RealNames, IdleCall
<1>7. QED
  BY <1>3, <1>4, <1>5, <1>6 DEF IndInv

LEMMA NextSquids == IndInv /\ [Next]_vars => IndInv'
<1> SUFFICES ASSUME IndInv, [Next]_vars PROVE IndInv'
  OBVIOUS
<1>1. ASSUME NEW c \in Calls, Step(c) PROVE IndInv'
  BY <1>1, InvokeStep, ReadSchemaStep, GetSquidStep, ReadWireNamesStep, ReadCrawlerStep,
     ResolveAccountStep, WriteSquidStep, CreateSquidStep, ConfigureSquidStep, DeleteSquidStep
     DEF Step
<1>2. CASE Quiet \/ UNCHANGED vars
  BY <1>2 DEF Quiet, vars, IndInv, TypeOK, View, Own, SomeoneSent, MadeApart, NewUnlinked,
              RealNames
<1>3. QED
  BY <1>1, <1>2, OutsideEditStep DEF Next

LEMMA Invariant == Spec => []IndInv
<1>1. QED
  BY InitSquids, NextSquids, PTL DEF Spec

-----------------------------------------------------------------------------
(* The theorems.                                                           *)

\* Every variable has its type: calls, squids, answers and counters stay in the
\* sets the actions are written for.
THEOREM TypeCorrect == Spec => []TypeOK
<1>1. IndInv => TypeOK
  BY DEF IndInv
<1>2. QED
  BY <1>1, Invariant, PTL

\* A squid that a call has made and that is still there is named in the call's
\* answer (create_squid, _config_apply_unknown, _cleanup_squid), unless the
\* creation itself went unanswered.
THEOREM NoSquidIsHidden == Spec => []NoHiddenSquid
<1>1. IndInv => NoHiddenSquid
  <2> SUFFICES ASSUME IndInv, NEW c \in Calls, call[c].pc = "done",
                      call[c].made # NoSquid, squids[call[c].made].exists
               PROVE  \/ call[c].resp.squid = call[c].made /\ ~call[c].resp.deleted
                      \/ /\ call[c].resp.squid = NoSquid
                         /\ call[c].resp.error.state = "unknown"
    BY DEF NoHiddenSquid
  <2>1. ~call[c].resp.deleted
    BY DEF IndInv, Own
  <2>2. QED
    BY <2>1 DEF IndInv, Local
<1>2. QED
  BY <1>1, Invariant, PTL

\* The error envelope of a tool says retrying is safe only when no request of the
\* call has changed anything (structured, verify_with).
THEOREM RetriesAreSafe == Spec => []RetrySafeMeansUntouched
<1>1. IndInv => RetrySafeMeansUntouched
  BY DEF IndInv, Local, RetrySafeMeansUntouched
<1>2. QED
  BY <1>1, Invariant, PTL

\* _apply_wire_names leaves no alias on a squid whenever the schema was read.
THEOREM RealNamesAreSaved == Spec => []SavedUnderRealNames
<1>1. IndInv => SavedUnderRealNames
  BY DEF IndInv, RealNames, SomeoneSent, SavedUnderRealNames
<1>2. QED
  BY <1>1, Invariant, PTL

\* What a call's step can do to a squid: a tool's write on one that it was given,
\* or something to one that no configuration has been saved on.
LEMMA SquidChanges ==
    ASSUME IndInv, NEW c \in Calls, Step(c), NEW s \in Squids, squids'[s] # squids[s]
    PROVE  \/ /\ call[c].pc = "write" /\ call[c].squid = s /\ call'[c] # call[c]
              /\ squids'[s] = Written(squids[s], call[c])
           \/ s \notin Saved /\ ~squids[s].exists
           \/ /\ s \notin Saved
              /\ squids[s].params = NoConfig /\ ~squids[s].conc
              /\ squids'[s].exists => squids'[s].name = squids[s].name
<1>1. \A t, new, W : t \in Squids /\ Put(t, new, W) => t = s /\ squids'[s] = new
  BY DEF IndInv, TypeOK, Put
<1>2. CASE WriteSquid(c)
  <2> DEFINE me == call[c]
             A(o) == IF o = "ok" THEN [NoAnswer EXCEPT !.outcome = "ok", !.squid = me.squid]
                     ELSE Failed(o)
             x(o) == [Finish(me, A(o)) EXCEPT !.applied = Applied(o)]
             new(o) == IF Applied(o) THEN Written(squids[me.squid], me) ELSE squids[me.squid]
  <2>1. me.pc = "write" /\ me.squid \in Squids /\ me \in CallState
    BY <1>2, CallFacts, SquidAssumption DEF WriteSquid, Local, Reused, Viewing
  <2>2. PICK o \in WriteEnds : Put(me.squid, new(o), {c}) /\ Become(c, x(o))
    BY <1>2 DEF WriteSquid
  <2>3. me.squid = s /\ squids'[s] = new(o)
    BY <1>1, <2>1, <2>2
  <2>4. call'[c].pc = "done"
    <3>1. call'[c] = x(o)
      BY <2>2, BecomeValue DEF IndInv
    <3>2. x(o).pc = "done"
      BY <2>1 DEF Finish, CallState
    <3>3. QED
      BY <3>1, <3>2
  <2>5. QED
    BY <2>1, <2>3, <2>4
<1>3. CASE CreateSquid(c)
  <2>1. PICK o \in WriteEnds, t \in {u \in Squids \ Saved : ~squids[u].exists} :
          Put(t, IF Applied(o) THEN [Absent EXCEPT !.exists = TRUE, !.name = call[c].req.name]
                 ELSE squids[t], {c})
    BY <1>3 DEF CreateSquid
  <2>2. QED
    BY <1>1, <2>1
<1>4. CASE ConfigureSquid(c)
  <2> DEFINE t == call[c].squid
             cfg == ApplyWireNames(Filled(call[c].req.cfg, call[c].wires), call[c].wires)
             ps == IF HasConfig(call[c]) THEN cfg ELSE squids[t].params
             cc == squids[t].conc \/ call[c].req.conc
             q  == [squids[t] EXCEPT !.params = ps, !.conc = cc]
  <2>1. call[c].pc \in MadeSteps /\ t = call[c].made /\ t \in Squids \ Saved
    BY <1>4, CallFacts DEF ConfigureSquid, Local, MadeSteps
  <2>2. squids[t].params = NoConfig /\ ~squids[t].conc /\ squids[t] \in SquidState
    BY <2>1 DEF IndInv, Own, TypeOK
  <2>3. PICK o \in WriteEnds : Put(t, IF Applied(o) THEN q ELSE squids[t], {c})
    BY <1>4 DEF ConfigureSquid
  <2>4. t = s /\ (squids'[s] = q \/ squids'[s] = squids[s])
    BY <1>1, <2>1, <2>3
  <2> HIDE DEF ps, cc
  <2>5. q.name = squids[t].name
    BY <2>2 DEF SquidState
  <2>6. QED
    BY <2>1, <2>2, <2>4, <2>5
<1>5. CASE DeleteSquid(c)
  <2> DEFINE t == call[c].squid
  <2>1. call[c].pc \in MadeSteps /\ t = call[c].made /\ t \in Squids \ Saved
    BY <1>5, CallFacts DEF DeleteSquid, Local, MadeSteps
  <2>2. squids[t].params = NoConfig /\ ~squids[t].conc
    BY <2>1 DEF IndInv, Own
  <2>3. PICK o \in WriteEnds : Put(t, IF Applied(o) THEN Absent ELSE squids[t], {c})
    BY <1>5 DEF DeleteSquid
  <2>4. t = s /\ (squids'[s] = Absent \/ squids'[s] = squids[s])
    BY <1>1, <2>1, <2>3
  <2>5. QED
    BY <2>1, <2>2, <2>4 DEF Absent
<1>6. QED
  BY <1>2, <1>3, <1>4, <1>5
     DEF Step, Invoke, ReadSchema, GetSquid, ReadWireNames, ReadCrawler, ResolveAccount, ReadOnly

\* create_squid deletes the squid it has made only when nothing was saved on it.
THEOREM ConfiguredSquidIsKept == Spec => ConfiguredSquidKept
<1> DEFINE Kept == \A s \in Squids : squids[s].exists /\ ~squids'[s].exists =>
                                       squids[s].params = NoConfig /\ ~squids[s].conc
<1>1. ASSUME IndInv, [Next]_vars PROVE [Kept]_vars
  <2>1. SUFFICES ASSUME NEW s \in Squids, squids[s].exists, ~squids'[s].exists
                 PROVE  squids[s].params = NoConfig /\ ~squids[s].conc
    OBVIOUS
  <2>2. ASSUME NEW c \in Calls, Step(c)
        PROVE  squids[s].params = NoConfig /\ ~squids[s].conc
    <3>1. ~(/\ call[c].pc = "write" /\ call[c].squid = s
            /\ squids'[s] = Written(squids[s], call[c]))
      BY <1>1, <2>1, WrittenFacts
    <3>2. QED
      BY <1>1, <2>1, <2>2, <3>1, SquidChanges
  <2>3. ASSUME NEW t \in Saved, OutsideEdit(t) PROVE FALSE
    <3>1. PICK new \in SquidState : Put(t, new, {}) /\ new.exists = squids[t].exists
      BY <1>1, <2>3, OutsideEditFacts
    <3>2. QED
      BY <1>1, <2>1, <3>1, SquidAssumption DEF Put, IndInv, TypeOK
  <2>4. CASE Quiet \/ UNCHANGED vars
    BY <2>1, <2>4 DEF Quiet, vars
  <2>5. QED
    BY <1>1, <2>2, <2>3, <2>4 DEF Next
<1>2. Spec => [][Kept]_vars
  BY <1>1, Invariant, PTL DEF Spec
<1>3. QED
  BY <1>2 DEF ConfiguredSquidKept

\* attach_account drops an account link only when somebody else has changed the
\* squid since it was read.
THEOREM LinksAreKept == Spec => LinksLostOnlyToRaces
<1> DEFINE Safe == \A s \in Squids :
                     (/\ squids[s].accounts \ squids'[s].accounts # {}
                      /\ edits' = edits) =>
                       \E c \in stale : call[c].squid = s /\ call'[c] # call[c]
<1>1. ASSUME IndInv, [Next]_vars PROVE [Safe]_vars
  <2>1. SUFFICES ASSUME NEW s \in Squids,
                        squids[s].accounts \ squids'[s].accounts # {}, edits' = edits
                 PROVE  \E c \in stale : call[c].squid = s /\ call'[c] # call[c]
    OBVIOUS
  <2>2. s \in Saved
    BY <1>1, <2>1 DEF IndInv, NewUnlinked
  <2>3. ASSUME NEW c \in Calls, Step(c)
        PROVE  \E d \in stale : call[d].squid = s /\ call'[d] # call[d]
    <3>1. /\ call[c].pc = "write" /\ call[c].squid = s /\ call'[c] # call[c]
          /\ squids'[s] = Written(squids[s], call[c])
      BY <1>1, <2>1, <2>2, <2>3, SquidChanges
    <3>2. call[c].req.tool = "attach" /\ squids'[s].accounts = call[c].links
      BY <1>1, <2>1, <3>1, WrittenFacts
    <3>3. call[c].read /\ call[c].seen.accounts \subseteq call[c].links
      BY <1>1, <3>1, <3>2, CallFacts DEF Local
    <3>4. c \in stale
      BY <1>1, <2>1, <3>1, <3>2, <3>3 DEF IndInv, View, Viewing
    <3>5. QED
      BY <3>1, <3>4
  <2>4. ASSUME NEW t \in Saved, OutsideEdit(t) PROVE FALSE
    BY <1>1, <2>1, <2>4 DEF OutsideEdit, IndInv, TypeOK
  <2>5. CASE Quiet \/ UNCHANGED vars
    BY <2>1, <2>5 DEF Quiet, vars
  <2>6. QED
    BY <1>1, <2>3, <2>4, <2>5 DEF Next
<1>2. Spec => [][Safe]_vars
  BY <1>1, Invariant, PTL DEF Spec
<1>3. QED
  BY <1>2 DEF LinksLostOnlyToRaces

\* What a write of a call that has read its squid, unchanged since, changes there
\* was asked for (_effective_settings, the name that rides along with params).
LEMMA FreshWrite ==
    ASSUME IndInv, NEW c \in Calls, NEW s \in Squids,
           call[c].pc = "write", call[c].squid = s, call[c].read, c \notin stale,
           squids'[s] = Written(squids[s], call[c])
    PROVE  AskedFor(c, s)
<1> DEFINE me == call[c]
           wn == ApplyWireNames(me.req.cfg, me.wires)
           p  == Effective(me.seen.params, wn)
<1>1. squids[s] = me.seen
  BY DEF IndInv, View, Viewing
<1>2. /\ squids'[s].params \in {squids[s].params, p}
      /\ squids'[s].name \in {squids[s].name, BodyName(me)}
  BY WrittenFacts
<1>3. squids'[s].name # squids[s].name => me.req.name # NoTitle
  BY <1>1, <1>2 DEF BodyName
<1>4. ASSUME NEW n \in Names, squids'[s].params[n] # squids[s].params[n]
      PROVE  Gives(me.req, n)
  <2>1. p[n] = IF wn[n] # Unset THEN wn[n] ELSE squids[s].params[n]
    BY <1>1 DEF Effective
  <2>2. wn[n] # Unset
    BY <1>2, <1>4, <2>1
  <2>3. me.req.cfg \in Config /\ me.wires \in BOOLEAN
    BY CallFacts DEF Request
  <2>4. QED
    BY <2>2, <2>3, ApplyFacts DEF Gives
<1>5. QED
  BY <1>3, <1>4 DEF AskedFor

\* No tool changes a name or a saved setting it was not asked to change, unless it
\* could not read the squid or somebody changed it since.
THEOREM SavedStateIsKept == Spec => SavedStateLostOnlyBlind
<1> DEFINE Safe == \A s \in Squids :
                     Overwrites(s) /\ edits' = edits =>
                       \E c \in Calls :
                         /\ call'[c] # call[c] /\ call[c].squid = s
                         /\ AskedFor(c, s) \/ ~call[c].read \/ c \in stale
<1>1. ASSUME IndInv, [Next]_vars PROVE [Safe]_vars
  <2>1. SUFFICES ASSUME NEW s \in Squids, Overwrites(s), edits' = edits
                 PROVE  \E c \in Calls :
                          /\ call'[c] # call[c] /\ call[c].squid = s
                          /\ AskedFor(c, s) \/ ~call[c].read \/ c \in stale
    OBVIOUS
  <2>2. squids'[s] # squids[s]
    BY <2>1 DEF Overwrites
  <2>3. ASSUME NEW c \in Calls, Step(c)
        PROVE  /\ call'[c] # call[c] /\ call[c].squid = s
               /\ AskedFor(c, s) \/ ~call[c].read \/ c \in stale
    <3>1. /\ call[c].pc = "write" /\ call[c].squid = s /\ call'[c] # call[c]
          /\ squids'[s] = Written(squids[s], call[c])
      <4>1. squids[s].exists /\ squids'[s].exists
        BY <2>1 DEF Overwrites
      <4>2. squids[s].params = NoConfig => squids'[s].name # squids[s].name
        BY <2>1 DEF Overwrites, NoConfig
      <4>3. QED
        BY <1>1, <2>2, <2>3, <4>1, <4>2, SquidChanges
    <3>2. QED
      BY <1>1, <3>1, FreshWrite
  <2>4. ASSUME NEW t \in Saved, OutsideEdit(t) PROVE FALSE
    BY <1>1, <2>1, <2>4 DEF OutsideEdit, IndInv, TypeOK
  <2>5. CASE Quiet \/ UNCHANGED vars
    BY <2>2, <2>5 DEF Quiet, vars
  <2>6. QED
    BY <1>1, <2>3, <2>4, <2>5 DEF Next
<1>2. Spec => [][Safe]_vars
  BY <1>1, Invariant, PTL DEF Spec
<1>3. QED
  BY <1>2 DEF SavedStateLostOnlyBlind

=============================================================================
