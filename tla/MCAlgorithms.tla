---------------------------- MODULE MCAlgorithms ----------------------------
(***************************************************************************)
(* The pure algorithms, each on all inputs of a small size.                *)
(***************************************************************************)
EXTENDS Algorithms, TLC

CONSTANTS
    s1, s2,                             \* paid steps
    acc1, acc2, acc3, t1, t2,           \* accounts and their types
    reddit, posts, post, of,            \* words
    c1, c2, c3                          \* crawlers

\* A crawler may declare an input under the very name an alias would get, or
\* under the one it would get next.
A      == <<Word("a")>>
B      == <<Word("b")>>
C      == <<Word("c")>>
SquidA == <<Word("squid"), Word("a")>>
A2     == <<Word("a"), Number(2)>>
MCNames == {A, B, C, SquidA, A2}

MCSingulars == [w \in Words |-> IF w = posts THEN {post} ELSE {}]

UpTo(n, S) == UNION {[1..k -> S] : k \in 0..n}

-----------------------------------------------------------------------------

Plain == {i \in Item : ~i.default /\ i.group = NoGroup /\ i.name \in {A, SquidA}}
TaskItem(n) == [name : {n}, level : {"task"}, required : BOOLEAN, default : BOOLEAN,
                group : Groups \cup {NoGroup}]

Plainly(name, level) ==
    [name |-> name, level |-> level, required |-> FALSE, default |-> FALSE, group |-> NoGroup]
\* Both aliases would be squid_a_2.
Rivals == <<Plainly(SquidA, "task"), Plainly(A, "task"), Plainly(A, "squid"),
            Plainly(A2, "task"), Plainly(A2, "squid")>>

\* /params about two names, one of which may be a bare value.
Sections == SUBSET {A, SquidA}
MCParams ==
    {[task |-> t, squid |-> s, function |-> f, bare |-> b] :
       t \in Sections, s \in Sections, f \in Sections,
       b \in SUBSET {<<"squid", A>>, <<"function", A>>}}
NoParams == [task |-> {}, squid |-> {}, function |-> {}, bare |-> {}]

\* Up to three entries with any /params, or three task inputs with defaults and
\* alternatives, or the rivals in any order.
MCSchemas ==
    [items : UpTo(3, Plain), params : {p \in MCParams : \A b \in p.bare : b[2] \in p[b[1]]}]
    \cup {[items |-> <<x, y, z>>, params |-> NoParams] :
            x \in TaskItem(A), y \in TaskItem(B), z \in TaskItem(C)}
    \cup {[items |-> [i \in 1..5 |-> Rivals[p[i]]], params |-> NoParams] :
            p \in Permutations(1..5)}

Flat(p) == [current |-> p, legacy |-> None]
SomePrice == [current : {1, None}, legacy : {2, None}]
SomeCaps == {None, 0, 1, 2}
Unset == [k \in {"flat", "functions"} |-> [s \in Steps |-> "unset"]]
TwoSteps(default) ==
    [perTask |-> None, perRow |-> Flat(1), steps |-> Steps,
     price |-> [s \in Steps |-> Flat(1)], default |-> default, ratio |-> [s \in Steps |-> 2]]
OneStep(perTask, perRow, steps, price, on, ratio) ==
    [perTask |-> perTask, perRow |-> perRow, steps |-> steps,
     price |-> [s \in Steps |-> price], default |-> [s \in Steps |-> on], ratio |-> [s \in Steps |-> ratio]]

\* Every way two steps are set, saved and by default; then every price and cap.
MCEstimates ==
    [crawler : {TwoSteps(default) : default \in [Steps -> BOOLEAN]}, tasks : {1},
     perTask : {1}, runCap : {None}, saved : Settings, new : Settings]
    \cup [crawler : {OneStep(perTask, perRow, steps, price, on, ratio) :
                       perTask \in {None, 1}, perRow \in SomePrice, steps \in SUBSET {s1},
                       price \in SomePrice, on \in BOOLEAN, ratio \in 0..2},
          tasks : 1..3, perTask : SomeCaps, runCap : SomeCaps, saved : {Unset}, new : {Unset}]

MCBalances == [estimate : {None} \cup 0..3, available : {None} \cup 0..3,
               consumed : {None} \cup 0..3]

\* Up to three accounts; an id names one.
AccountOf(id) == {x \in Account : x.id = id}
MCAccountLists ==
    {<< >>} \cup {<<x>> : x \in AccountOf(acc1)}
    \cup {<<x, y>> : x \in AccountOf(acc1), y \in AccountOf(acc2)}
    \cup {<<x, y, z>> : x \in AccountOf(acc1), y \in AccountOf(acc2), z \in AccountOf(acc3)}

\* Up to two crawlers; the text that says "posts" says "post" within it.
MCSearches ==
    [catalog : UpTo(2, {x \in [id : {c1}, slug : {<<reddit>>},
                               words : SUBSET {reddit, posts, post, of},
                               inside : SUBSET {post, of}] :
                          /\ x.words \cap x.inside = {}
                          /\ posts \in x.words => post \in x.words \cup x.inside}),
     query : SUBSET {reddit, posts, post, of} \ {{}}]

SomeSlugs == {<<reddit>>, <<reddit, Scraper>>, <<reddit, post>>, <<reddit, post, Scraper>>}

MCSlugs ==
    [catalog : {[i \in DOMAIN slugs |-> [id |-> <<c1, c2, c3>>[i], slug |-> slugs[i],
                                         words |-> {}, inside |-> {}]] :
                  slugs \in UpTo(3, SomeSlugs)},
     name : SomeSlugs \cup {<<post>>}]

\* Up to seven squids, of which any may match; the walk ends before the last two.
MCWalks ==
    [squids : {SetToSortSeq(S, LAMBDA i, j : i < j) : S \in SUBSET (1..7)},
     from : {"crawler", "envelope", "bare"}, size : -1..3]

MCReads ==
    [all : {[i \in 1..n |-> i] : n \in 0..7}, asked : {-1, 0, 1, 2, 3, 4, 9}, full : BOOLEAN]
=============================================================================
