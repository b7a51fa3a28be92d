------------------------------ MODULE Listings ------------------------------
(***************************************************************************)
(* The reading tools' lists: finding a crawler (search_scrapers,           *)
(* resolve_crawler_id) and walking pages (list_my_scrapers, get_results).  *)
(*                                                                         *)
(* A slug is the sequence of its words.  A crawler's text is a set of      *)
(* words; `inside` are those that only occur within other words.  What is  *)
(* found in a catalog is the set of its places there.                      *)
(***************************************************************************)
EXTENDS Integers, Sequences, FiniteSets, SequencesExt

CONSTANTS
    Ids, Words,
    Singulars,       \* what _word_variants adds to a word: [Words -> SUBSET Words]
    StopWords,
    SearchCap,
    DefaultSize, FullSize, MaxSize,  \* page sizes of get_results
    WalkMax          \* how many squids the pages that list_squids walks hold

ASSUME ListAssumption ==
    /\ Singulars \in [Words -> SUBSET Words] /\ SearchCap \in Nat \ {0}
    /\ {DefaultSize, FullSize, MaxSize} \subseteq Nat \ {0}
    /\ WalkMax \in Nat

Entry == [id : Ids, slug : Seq(Words), words : SUBSET Words, inside : SUBSET Words]

-----------------------------------------------------------------------------
(* Crawlers.                                                               *)

\* Every word, or a singular of it, occurs somewhere in the text.
Matches(crawler, query) ==
    \A w \in query : ({w} \cup Singulars[w]) \cap (crawler.words \cup crawler.inside) # {}

\* Mutant: a crawler is similar only if it has all the words.
SimilarStrict(catalog, query) ==
    {i \in DOMAIN catalog : query \ StopWords \subseteq catalog[i].words}

\* _similar_matches, but for order and cap: a crawler scores above zero when it
\* has one of the words as a word of its own.
Similar(catalog, query) ==
    {i \in DOMAIN catalog : (query \ StopWords) \cap catalog[i].words # {}}

\* The first n of some places.
FirstOf(places, n) == {i \in places : Cardinality({j \in places : j <= i}) <= n}

\* search_scrapers, without full.
Search(catalog, query) ==
    LET hits == {i \in DOMAIN catalog : Matches(catalog[i], query)}
    IN [results   |-> FirstOf(hits, SearchCap),
        similar   |-> IF hits = {} THEN Similar(catalog, query) ELSE {},
        truncated |-> Cardinality(hits) > SearchCap]

\* The id of the first of some crawlers.
FirstId(catalog, places) == <<catalog[Min(places)].id>>

\* The crawlers whose slug goes on after the name, if there is just one.
Prefixed(catalog, name) ==
    LET longer == {i \in DOMAIN catalog : /\ Len(catalog[i].slug) > Len(name)
                                         /\ IsPrefix(name, catalog[i].slug)}
    IN IF Cardinality(longer) = 1 THEN longer ELSE {}

\* resolve_crawler_id for a name that is no id: the slug, the slug without its
\* "-scraper", the only slug it begins; otherwise the name itself.
ResolveCrawler(catalog, name, scraper) ==
    LET exact == {i \in DOMAIN catalog : catalog[i].slug = name}
        short == {i \in DOMAIN catalog : catalog[i].slug = Append(name, scraper)}
        only  == Prefixed(catalog, name)
    IN CASE exact # {}                              -> FirstId(catalog, exact)
         [] exact = {} /\ short # {}                -> FirstId(catalog, short)
         [] exact = {} /\ short = {} /\ only # {}   -> FirstId(catalog, only)
         [] OTHER                                   -> name

-----------------------------------------------------------------------------
(* Pages.                                                                  *)

\* Python's s[a:b].
Slice(s, a, b) ==
    LET At(i) == IF i < 0 THEN (IF Len(s) + i < 0 THEN 0 ELSE Len(s) + i)
                 ELSE IF i > Len(s) THEN Len(s) ELSE i
    IN SubSeq(s, At(a) + 1, At(b))

\* Python's a // b.
Quotient(a, b) == IF b > 0 THEN a \div b ELSE (-a) \div (-b)

\* Mutant: the last, shorter page is not counted.
PagesFloor(total, size) == IF Quotient(total, size) < 1 THEN 1 ELSE Quotient(total, size)

TotalPages(total, size) ==
    LET pages == Quotient(total + size - 1, size) IN IF pages < 1 THEN 1 ELSE pages

\* A page of what matched; page 0 follows the last.
Paged(matched, page, size) ==
    LET start == (page - 1) * size
        last  == TotalPages(Len(matched), size)
    IN [failed |-> FALSE, rows |-> Slice(matched, start, start + size),
        next |-> IF page < last THEN page + 1 ELSE 0]

\* A page as the API itself gives it, which counts its pages alike.
PageSquids(squids, page, size) == Paged(squids, page, size)

\* list_squids' capped walk over the user's squids, of which `squids` has the places
\* of those that match, in order.
ListSquids(squids) == SubSeq(squids, 1, Cardinality({i \in DOMAIN squids : squids[i] <= WalkMax}))

\* list_my_scrapers: with a crawler, a page of those found on the walk, where a size
\* of zero is a division by zero; else the API's page, or the API's bare list.
ListMyScrapers(squids, from, page, size) ==
    CASE from = "crawler" /\ size # 0 -> Paged(ListSquids(squids), page, size)
      [] from = "crawler" /\ size = 0 -> [failed |-> TRUE, rows |-> << >>, next |-> 0]
      [] from = "envelope"            -> PageSquids(squids, page, size)
      [] from = "bare"           -> [failed |-> FALSE, rows |-> squids, next |-> 0]

\* What get_results asks the API for; 0 when no size is given.
PageSize(asked, full) ==
    LET size == IF asked # 0 THEN asked ELSE IF full THEN FullSize ELSE DefaultSize
    IN IF size < 1 THEN 1 ELSE IF size > MaxSize THEN MaxSize ELSE size

\* max_rows follows the page size.
ReturnedMax(asked, full) == PageSize(asked, full)

\* get_results: the API's page, capped.
GetResults(all, page, asked, full) ==
    LET size == PageSize(asked, full)
        rows == SubSeq(all, (page - 1) * size + 1,
                       IF page * size < Len(all) THEN page * size ELSE Len(all))
    IN Slice(rows, 0, ReturnedMax(asked, full))

-----------------------------------------------------------------------------

\* A query with a word that is a word of some crawler is never answered by two
\* empty lists, however little the other words match.  (Not so for a plural of it,
\* or a part of it, which find the crawler only when all the words do.)
KnownWordsLead(catalog, query) ==
    LET out == Search(catalog, query)
    IN (\E i \in DOMAIN catalog : (query \ StopWords) \cap catalog[i].words # {}) =>
         out.results # {} \/ out.similar # {}

\* A name stands for a crawler only if that is its slug, or its slug but for the
\* last word "scraper", or the only slug that begins with it; a slug that is
\* spelled out is never taken for another's.
NameIsNotGuessed(catalog, name, scraper) ==
    LET id == ResolveCrawler(catalog, name, scraper)
    IN /\ (\E i \in DOMAIN catalog : catalog[i].slug = name) =>
            \E i \in DOMAIN catalog : catalog[i].slug = name /\ id = <<catalog[i].id>>
       /\ id # name =>
            \E i \in DOMAIN catalog :
              /\ id = <<catalog[i].id>>
              /\ \/ catalog[i].slug \in {name, Append(name, scraper)}
                 \/ /\ IsPrefix(name, catalog[i].slug)
                    /\ \A j \in DOMAIN catalog \ {i} : ~IsPrefix(name, catalog[j].slug)

\* Following `next` from page 1 comes to an end and has then shown every squid that
\* matches once, in order; with a crawler, every one the walk came upon.  A size of
\* zero never passes for a list without squids.
WalkSeesEverySquid(squids, from, size) ==
    LET List(k) == ListMyScrapers(squids, from, k, size)
        all     == IF from = "crawler" THEN ListSquids(squids) ELSE squids
    IN /\ from = "crawler" /\ size = 0 => List(1).failed
       /\ size >= 1 =>
            \E last \in 1..Len(all) + 1 :
              /\ \A j \in 1..last - 1 : List(j).next = j + 1
              /\ List(last).next = 0
              /\ FlattenSeq([k \in 1..last |-> List(k).rows]) = all

\* Whatever page size is asked for, reading the pages in turn shows every row of
\* a run once.
PagesShowEveryRow(all, asked, full) ==
    FlattenSeq([k \in 1..Len(all) + 1 |-> GetResults(all, k, asked, full)]) = all
=============================================================================
