----------------------------- MODULE InputSchema -----------------------------
(***************************************************************************)
(* schema_translator.py: the flat input schema published for a crawler,    *)
(* from its input[] and its /params, and the way back: how run_scraper     *)
(* validates a flat input and splits it into task row, squid params and    *)
(* function toggles.                                                       *)
(*                                                                         *)
(* A name is the sequence of its parts, words and numbers, as underscores  *)
(* split it, so that the alias "squid_a" of "a" is the same name as that   *)
(* of an input that a crawler declares as "squid_a".                       *)
(***************************************************************************)
EXTENDS Integers, Sequences, FiniteSets, Functions, SequencesExt

CONSTANTS
    Names,      \* names crawlers declare inputs under
    Groups, NoGroup

ASSUME NameAssumption ==
    /\ NoGroup \notin Groups
    /\ IsFiniteSet(Names) /\ \A n \in Names : n \in Seq(Range(n))

\* The parts of a name.
Word(w)   == <<w, 0>>
Number(n) == <<"", n>>

Level == {"task", "squid", "function"}

\* An input[] entry; `default` says whether it carries one.  input[] knows no
\* function level.
Item == [name : Names, level : {"task", "squid"}, required : BOOLEAN,
         default : BOOLEAN, group : Groups \cup {NoGroup}]

\* The sections of GET /crawlers/{hash}/params, all empty when it is unavailable,
\* and which of the settings are a bare value where a spec should be.
Params == [task : SUBSET Names, squid : SUBSET Names, function : SUBSET Names,
           bare : SUBSET ({"squid", "function"} \X Names)]

-----------------------------------------------------------------------------
(* Translation.                                                            *)

\* _levels_from_params
LevelsAt(params, name) == {l \in Level : name \in params[l]}

\* Mutant: /params is not asked.
PlacementDeclared(params, name, otherwise) == otherwise

\* _placement_from_params, with the level to fall back to.
Placement(params, name, otherwise) ==
    LET at == LevelsAt(params, name)
    IN IF "task" \in at THEN "task" ELSE IF "function" \in at THEN "function"
       ELSE IF "squid" \in at THEN "squid" ELSE otherwise

\* A required entry beats one that is not; otherwise the first stays.
Outranks(new, old) == new.required /\ ~old.required

\* The entries kept and shadowed after one more entry, the shadowed ones also in
\* the order they came; an entry of the level of the one that is kept is the same
\* input written twice.
Merge(acc, item) ==
    IF item.name \notin DOMAIN acc.kept
    THEN [acc EXCEPT !.kept = [n \in DOMAIN @ \cup {item.name} |->
                                 IF n = item.name THEN item ELSE @[n]]]
    ELSE LET old     == acc.kept[item.name]
             wins    == Outranks(item, old)
             kept    == IF wins THEN item ELSE old
             dropped == IF wins THEN old ELSE item
             same    == dropped.level = kept.level
         IN [kept     |-> [acc.kept EXCEPT ![item.name] = kept],
             shadowed |-> IF same THEN acc.shadowed
                          ELSE [n \in DOMAIN acc.shadowed \cup {item.name} |->
                                  IF n = item.name THEN dropped ELSE acc.shadowed[n]],
             order    |-> IF same \/ item.name \in DOMAIN acc.shadowed THEN acc.order
                          ELSE Append(acc.order, item.name)]

Nothing == [kept |-> [n \in {} |-> {}], shadowed |-> [n \in {} |-> {}], order |-> << >>]

Merged(items) == FoldLeft(Merge, Nothing, items)

\* Mutant: placed like an entry that shares its name with nothing.
ShadowedAsPlaced(params, shadowed, kept) == Placement(params, shadowed.name, shadowed.level)

\* _shadowed_level
ShadowedLevel(params, shadowed, kept) ==
    LET left == LevelsAt(params, shadowed.name) \ {kept.level}
    IN IF Cardinality(left) = 1 THEN CHOOSE l \in left : TRUE ELSE shadowed.level

\* _alias_name: the level and the name, with a number when that is taken too.
AliasName(level, name, taken) ==
    LET base     == <<Word(level)>> \o name
        Tail_(n) == IF n = 1 THEN base ELSE Append(base, Number(n))
        n        == CHOOSE n \in 1..Cardinality(taken) + 1 :
                      /\ Tail_(n) \notin taken
                      /\ \A m \in 1..n - 1 : Tail_(m) \in taken
    IN Tail_(n)

\* _input_modes: the alternatives, when required entries are in two or more
\* groups, and what is asked for whichever is taken.
InputModes(kept) ==
    LET required == {n \in DOMAIN kept : kept[n].required}
        either   == {{n \in required : kept[n].group = g} : g \in Groups} \ {{}}
    IN [either |-> IF Cardinality(either) < 2 THEN {} ELSE either,
        always |-> {n \in required : kept[n].group = NoGroup /\ ~kept[n].default}]

\* _params_only_specs: the settings that a spec describes.
Specified(params) ==
    UNION {{n \in params[l] : <<l, n>> \notin params.bare} : l \in {"squid", "function"}}

\* The properties under the names the API knows: those of input[], and what only
\* /params lists.  Each is published with the level it is sent at and the name it
\* is sent under.
PublishPlain(merged, params) ==
    LET kept == merged.kept
    IN [n \in DOMAIN kept \cup Specified(params) |->
          [wire  |-> n,
           level |-> IF n \in DOMAIN merged.shadowed THEN kept[n].level
                     ELSE Placement(params, n, IF n \in DOMAIN kept THEN kept[n].level
                                               ELSE "squid")]]

\* One more shadowed entry is published, under a name that nothing else has.
PublishAlias(merged, params, published, n) ==
    LET level == ShadowedLevel(params, merged.shadowed[n], merged.kept[n])
        alias == AliasName(level, n, DOMAIN published)
    IN [p \in DOMAIN published \cup {alias} |->
          IF p = alias THEN [wire |-> n, level |-> level] ELSE published[p]]

Publish(merged, params) ==
    FoldLeft(LAMBDA published, n : PublishAlias(merged, params, published, n),
             PublishPlain(merged, params), merged.order)

\* translate_input_schema.
Translate(items, params) ==
    LET merged   == Merged(items)
        kept     == merged.kept
        modes    == InputModes(kept)
        required == {n \in DOMAIN kept : kept[n].required}
        fill     == {n \in required : kept[n].default /\ kept[n].group = NoGroup}
    IN [published |-> Publish(merged, params),
        required  |-> IF modes.either = {} THEN required \ fill ELSE modes.always,
        either    |-> modes.either,
        fill      |-> fill]

-----------------------------------------------------------------------------
(* The way back.                                                           *)

\* Mutant: the alternatives are not looked at.
ValidRequiredOnly(t, given) == t.required \subseteq given

\* validate_input, for which names are given: what is required is there, and one
\* of the alternatives is complete.
Valid(t, given) ==
    /\ t.required \subseteq given
    /\ t.either # {} => \E g \in t.either : g \subseteq given

\* defaults_to_fill
WithDefaults(t, given) == given \cup t.fill

\* run_scraper's split of a flat input: what goes out at each level, under the
\* names the API knows.  What the schema does not publish goes into the task row.
Split(t, given) ==
    LET At(n)   == IF n \in DOMAIN t.published THEN t.published[n].level ELSE "task"
        Wire(n) == IF n \in DOMAIN t.published THEN t.published[n].wire ELSE n
    IN [l \in Level |-> {Wire(n) : n \in {m \in given : At(m) = l}}]

-----------------------------------------------------------------------------
(* What the translation promises.                                          *)

\* No two published properties are sent under one name at one level: each
\* reaches the API as an input of its own.
EachHasItsPlace(items, params) ==
    LET p == Translate(items, params).published
    IN \A m, n \in DOMAIN p : m # n => p[m] # p[n]

\* What the API demands of the task row: every required entry without a group,
\* and one group in full.
Demanded(kept, sent) ==
    LET required == {n \in DOMAIN kept : kept[n].required}
        groups   == {{n \in required : kept[n].group = g} : g \in Groups} \ {{}}
    IN /\ {n \in required : kept[n].group = NoGroup} \subseteq sent
       /\ groups # {} => \E g \in groups : g \subseteq sent

\* An input that passes the validation, completed with the defaults, carries
\* everything the API demands.
ValidIsEnough(items, params) ==
    LET t == Translate(items, params)
    IN \A given \in SUBSET DOMAIN t.published :
         Valid(t, given) => Demanded(Merged(items).kept, WithDefaults(t, given))

\* A required task-level input that shares its name with no other required entry
\* keeps the name and is sent in the task row.
RequiredTaskKept(items, params) ==
    LET t == Translate(items, params)
    IN \A i \in DOMAIN items :
         /\ items[i].required /\ items[i].level = "task"
         /\ \A j \in DOMAIN items : items[j].name = items[i].name /\ items[j].required => j = i
         /\ LevelsAt(params, items[i].name) \in {{}} \cup {s \in SUBSET Level : "task" \in s}
         => t.published[items[i].name].level = "task"

\* Every setting of /params that a spec or the crawler's own input[] describes, and
\* that shares its name with nothing else, can be set: some property reaches it
\* where the API expects it.  One that neither describes is sent by no property.
SettingsReachable(items, params) ==
    LET t           == Translate(items, params)
        Entries(n)  == {i \in DOMAIN items : items[i].name = n}
        Known(l, n) == <<l, n>> \notin params.bare \/ Entries(n) # {}
    IN \A l \in {"squid", "function"} : \A n \in params[l] :
         LevelsAt(params, n) = {l} /\ (\A i, j \in Entries(n) : i = j) =>
           IF Known(l, n) THEN \E p \in DOMAIN t.published : n \in Split(t, {p})[l]
           ELSE \A p \in DOMAIN t.published : t.published[p].wire # n

\* An input declared at both levels, and listed at both by /params, can be set
\* at both.
BothReachable(items, params) ==
    LET t == Translate(items, params)
    IN \A i, j \in DOMAIN items :
         /\ items[i].name = items[j].name
         /\ items[i].level = "task" /\ items[j].level = "squid"
         /\ LevelsAt(params, items[i].name) \in {{}, {"task", "squid"}}
         => \A l \in {"task", "squid"} :
              \E p \in DOMAIN t.published : items[i].name \in Split(t, {p})[l]
=============================================================================
