--------------------------- MODULE AlgorithmProofs ---------------------------
(***************************************************************************)
(* What the pure algorithms promise, for inputs of any size.               *)
(*                                                                         *)
(* The folds of the community modules and FlattenSeq are recursive         *)
(* functions, that is, a CHOOSE of a function that satisfies an equation.  *)
(* To reason about one is to show that such a function exists (FoldExists, *)
(* SumExists, SlicesMakeAll <1>8) and then what any such function returns, *)
(* both by induction over numbers, which comes from the well-foundedness   *)
(* of < in a form without operator parameters (Least, Induct).             *)
(***************************************************************************)
EXTENDS Algorithms, FiniteSetTheorems, SequenceTheorems, WellFoundedInduction, TLAPS

-----------------------------------------------------------------------------
(* Induction over numbers, in the form the provers can use.                *)

Below == {ss \in Nat \X Nat : ss[1] < ss[2]}

\* The order of the numbers, as a relation, is well-founded.
LEMMA BelowWF == IsWellFoundedOn(Below, Nat)
BY NatLessThanWellFounded DEF OpToRel, Below

\* A set of numbers has a least member.
LEMMA Least ==
    ASSUME NEW S \in SUBSET Nat, S # {}
    PROVE  \E m \in S : \A k \in S : ~(k < m)
<1>1. \E m \in S : \A k \in S : <<k, m>> \notin Below
  BY BelowWF, WFMin
<1>2. \A k, m \in Nat : k < m => <<k, m>> \in Below
  BY DEF Below
<1>3. QED
  BY <1>1, <1>2

\* Induction, for a set in place of a predicate.
LEMMA Induct ==
    ASSUME NEW S, 0 \in S, \A n \in Nat : n \in S => n + 1 \in S
    PROVE  Nat \subseteq S
<1> SUFFICES ASSUME NEW x \in Nat, x \notin S PROVE FALSE
  OBVIOUS
<1>1. PICK m \in Nat \ S : \A k \in Nat \ S : ~(k < m)
  BY Least
<1>2. m # 0 /\ m - 1 \in Nat /\ m - 1 < m
  OBVIOUS
<1>3. m - 1 \in S /\ (m - 1) + 1 = m
  BY <1>1, <1>2
<1>4. QED
  BY <1>1, <1>3

\* What Max is of a set of numbers up to n.
LEMMA MaxOf ==
    ASSUME NEW n \in Nat, NEW S \in SUBSET (1..n), S # {}
    PROVE  Max(S) \in S /\ \A k \in S : Max(S) >= k
<1> DEFINE D == {n - k : k \in S}
<1>0. \A k \in S : n - k \in Nat
  OBVIOUS
<1>1. D \subseteq Nat /\ D # {}
  BY <1>0
<1>2. PICK m \in D : \A j \in D : ~(j < m)
  <2> HIDE DEF D
  <2>1. QED
    BY <1>1, Least
<1>3. PICK k \in S : m = n - k
  OBVIOUS
<1>4. ASSUME NEW j \in S PROVE k >= j
  <2>1. ~(n - j < n - k)
    BY <1>2, <1>3
  <2>2. QED
    BY <2>1
<1>5. \E x \in S : \A y \in S : x >= y
  BY <1>4
<1>6. QED
  BY <1>5, Zenon DEF Max

-----------------------------------------------------------------------------
(* Folds.  What is folded here, as data: `by` says which operator it is.   *)

StepOf(by, acc, x) ==
    IF by.kind = "merge" THEN Merge(acc, x) ELSE PublishAlias(by.merged, by.params, acc, x)

FoldStep(by, h, s) ==
    IF s = {} THEN by.base ELSE StepOf(by, h[s \ {Max(s)}], by.items[Max(s)])

\* There is a function as the definition of a fold asks for.
LEMMA FoldExists ==
    ASSUME NEW by, NEW n \in Nat
    PROVE  \E h : h = [s \in SUBSET (1..n) |-> FoldStep(by, h, s)]
<1> DEFINE Good == {k \in Nat : \E h : h = [s \in SUBSET (1..k) |-> FoldStep(by, h, s)]}
<1>1. 0 \in Good
  <2>1. SUBSET (1..0) = {{}}
    OBVIOUS
  <2> DEFINE h == [s \in {{}} |-> by.base]
  <2>2. h = [s \in {{}} |-> FoldStep(by, h, s)]
    BY DEF FoldStep
  <2>3. QED
    BY <2>1, <2>2
<1>2. ASSUME NEW k \in Nat, k \in Good PROVE k + 1 \in Good
  <2>1. PICK h : h = [s \in SUBSET (1..k) |-> FoldStep(by, h, s)]
    BY <1>2
  <2> DEFINE g == [s \in SUBSET (1..(k + 1)) |->
                     IF k + 1 \in s THEN StepOf(by, h[s \ {k + 1}], by.items[k + 1]) ELSE h[s]]
  <2>2. ASSUME NEW s \in SUBSET (1..(k + 1)) PROVE g[s] = FoldStep(by, g, s)
    <3>1. CASE k + 1 \in s
      <4>1. Max(s) = k + 1
        <5>1. Max(s) \in s /\ Max(s) >= k + 1
          BY <3>1, MaxOf
        <5>2. Max(s) \in 1..(k + 1)
          BY <5>1
        <5> HIDE DEF g, Good
        <5>3. QED
          BY <5>1, <5>2
      <4>2. s \ {k + 1} \in SUBSET (1..(k + 1)) /\ k + 1 \notin s \ {k + 1}
        OBVIOUS
      <4>3. g[s \ {k + 1}] = h[s \ {k + 1}] /\ g[s] = StepOf(by, h[s \ {k + 1}], by.items[k + 1])
        BY <3>1, <4>2
      <4>4. QED
        BY <3>1, <4>1, <4>3 DEF FoldStep
    <3>2. CASE k + 1 \notin s
      <4>1. s \in SUBSET (1..k)
        BY <3>2
      <4>2. g[s] = h[s] /\ h[s] = FoldStep(by, h, s)
        BY <2>1, <3>2, <4>1
      <4>3. CASE s = {}
        BY <4>2, <4>3 DEF FoldStep
      <4>4. CASE s # {}
        <5>1. s \ {Max(s)} \in SUBSET (1..(k + 1)) /\ k + 1 \notin s \ {Max(s)}
          BY <3>2
        <5>2. g[s \ {Max(s)}] = h[s \ {Max(s)}]
          BY <5>1
        <5>3. QED
          BY <4>2, <4>4, <5>2 DEF FoldStep
      <4>5. QED
        BY <4>3, <4>4
    <3>3. QED
      BY <3>1, <3>2
  <2>3. g = [s \in SUBSET (1..(k + 1)) |-> FoldStep(by, g, s)]
    <3> HIDE DEF g
    <3>1. g = [s \in SUBSET (1..(k + 1)) |-> g[s]]
      BY DEF g
    <3>2. QED
      BY <2>2, <3>1
  <2>4. \E f : f = [s \in SUBSET (1..(k + 1)) |-> FoldStep(by, f, s)]
    <3> HIDE DEF g
    <3>1. QED
      BY <2>3
  <2>5. QED
    BY <2>4
<1>3. n \in Good
  <2> HIDE DEF Good
  <2>1. Nat \subseteq Good
    BY <1>1, <1>2, Induct
  <2>2. QED
    BY <2>1
<1>4. QED
  BY <1>3

\* Any such function folds the items one after another.
LEMMA FoldUnrolled ==
    ASSUME NEW by, NEW n \in Nat,
           NEW h, h = [s \in SUBSET (1..n) |-> FoldStep(by, h, s)]
    PROVE  /\ h[1..0] = by.base
           /\ \A k \in 0..(n - 1) : h[1..(k + 1)] = StepOf(by, h[1..k], by.items[k + 1])
<1>1. h[1..0] = by.base
  <2>1. 1..0 = {}
    OBVIOUS
  <2>2. QED
    BY <2>1 DEF FoldStep
<1>2. ASSUME NEW k \in 0..(n - 1) PROVE h[1..(k + 1)] = StepOf(by, h[1..k], by.items[k + 1])
  <2>1. /\ k + 1 \in Nat /\ k + 1 \in 1..(k + 1) /\ 1..(k + 1) \in SUBSET (1..(k + 1))
        /\ 1..(k + 1) \in SUBSET (1..n) /\ 1..(k + 1) # {}
    OBVIOUS
  <2>2. Max(1..(k + 1)) \in 1..(k + 1) /\ Max(1..(k + 1)) >= k + 1
    BY <2>1, MaxOf
  <2>3. Max(1..(k + 1)) = k + 1 /\ (1..(k + 1)) \ {k + 1} = 1..k
    BY <2>2
  <2>4. h[1..(k + 1)] = FoldStep(by, h, 1..(k + 1))
    BY <2>1
  <2>5. QED
    BY <2>1, <2>3, <2>4 DEF FoldStep
<1>3. QED
  BY <1>1, <1>2

-----------------------------------------------------------------------------
(* The entries of a schema, merged.                                        *)

MergeStep(h, items, s) ==
    IF s = {} THEN Nothing ELSE Merge(h[s \ {Max(s)}], items[Max(s)])

\* Merged, as its definitions unfold.
LEMMA MergedFold ==
    ASSUME NEW items
    PROVE  Merged(items) =
             (CHOOSE h : h = [s \in SUBSET DOMAIN items |-> MergeStep(h, items, s)])[DOMAIN items]
BY DEF Merged, FoldLeft, MapThenFoldSet, MergeStep

\* What is known of the first n entries once they are folded.
KeptFirst(acc, items, n) ==
    /\ \A i \in 1..n : items[i].name \in DOMAIN acc.kept
    /\ \A m \in DOMAIN acc.kept : \E i \in 1..n : acc.kept[m] = items[i] /\ items[i].name = m
    /\ \A i \in 1..n : items[i].required => acc.kept[items[i].name].required

ShadowedOther(acc, items, n) ==
    /\ DOMAIN acc.shadowed \subseteq DOMAIN acc.kept
    /\ \A m \in DOMAIN acc.shadowed :
         /\ \E i \in 1..n : acc.shadowed[m] = items[i] /\ items[i].name = m
         /\ acc.shadowed[m].level # acc.kept[m].level
    /\ \A i \in 1..n : items[i].level # acc.kept[items[i].name].level =>
                         items[i].name \in DOMAIN acc.shadowed

\* The shadowed names, one after another.
Ordered(acc) ==
    /\ acc.order \in Seq(DOMAIN acc.shadowed)
    /\ \A m \in DOMAIN acc.shadowed : \E i \in DOMAIN acc.order : acc.order[i] = m
    /\ \A i, j \in DOMAIN acc.order : acc.order[i] = acc.order[j] => i = j

IsMerge(acc, items, n) ==
    /\ acc = [kept |-> acc.kept, shadowed |-> acc.shadowed, order |-> acc.order]
    /\ acc.kept = [m \in DOMAIN acc.kept |-> acc.kept[m]]
    /\ KeptFirst(acc, items, n)
    /\ ShadowedOther(acc, items, n)
    /\ Ordered(acc)

\* One more entry (schema_translator.py:277-287).
LEMMA MergeKeeps ==
    ASSUME NEW items \in Seq(Item), NEW n \in Nat, n + 1 \in DOMAIN items,
           NEW acc, IsMerge(acc, items, n)
    PROVE  IsMerge(Merge(acc, items[n + 1]), items, n + 1)
<1> DEFINE item == items[n + 1]
           new  == Merge(acc, item)
<1>1. /\ item \in Item
      /\ \A i \in 1..(n + 1) : items[i] \in Item
      /\ 1..(n + 1) = (1..n) \cup {n + 1}
  OBVIOUS
<1>2. CASE item.name \notin DOMAIN acc.kept
  <2>1. /\ new.kept = [m \in DOMAIN acc.kept \cup {item.name} |->
                         IF m = item.name THEN item ELSE acc.kept[m]]
        /\ new.shadowed = acc.shadowed /\ new.order = acc.order
        /\ new = [kept |-> new.kept, shadowed |-> new.shadowed, order |-> new.order]
    BY <1>2 DEF Merge, IsMerge
  <2> HIDE DEF new
  <2>2. /\ new.kept[item.name] = item
        /\ \A m \in DOMAIN acc.kept : m # item.name /\ new.kept[m] = acc.kept[m]
        /\ \A i \in 1..n : /\ items[i].name \in DOMAIN acc.kept
                           /\ new.kept[items[i].name] = acc.kept[items[i].name]
    BY <1>2, <2>1 DEF IsMerge, KeptFirst
  <2>3. KeptFirst(new, items, n + 1)
    <3>1. \A i \in 1..(n + 1) : items[i].name \in DOMAIN new.kept
      BY <1>1, <2>1, <2>2
    <3>2. ASSUME NEW m \in DOMAIN new.kept
          PROVE  \E i \in 1..(n + 1) : new.kept[m] = items[i] /\ items[i].name = m
      <4>1. CASE m = item.name
        BY <1>1, <2>2, <4>1
      <4>2. CASE m # item.name
        <5>1. m \in DOMAIN acc.kept
          BY <2>1, <4>2
        <5>2. PICK i \in 1..n : acc.kept[m] = items[i] /\ items[i].name = m
          BY <5>1 DEF IsMerge, KeptFirst
        <5>3. QED
          BY <1>1, <2>2, <5>1, <5>2
      <4>3. QED
        BY <4>1, <4>2
    <3>3. \A i \in 1..(n + 1) : items[i].required => new.kept[items[i].name].required
      BY <1>1, <2>2 DEF IsMerge, KeptFirst
    <3>4. QED
      BY <3>1, <3>2, <3>3 DEF KeptFirst
  <2>4. ShadowedOther(new, items, n + 1)
    <3>1. DOMAIN new.shadowed \subseteq DOMAIN new.kept
      BY <2>1 DEF IsMerge, ShadowedOther
    <3>2. ASSUME NEW m \in DOMAIN new.shadowed
          PROVE  /\ \E i \in 1..(n + 1) : new.shadowed[m] = items[i] /\ items[i].name = m
                 /\ new.shadowed[m].level # new.kept[m].level
      BY <1>1, <2>1, <2>2 DEF IsMerge, ShadowedOther
    <3>3. \A i \in 1..(n + 1) : items[i].level # new.kept[items[i].name].level =>
                                  items[i].name \in DOMAIN new.shadowed
      BY <1>1, <2>1, <2>2 DEF IsMerge, ShadowedOther
    <3>4. QED
      BY <3>1, <3>2, <3>3 DEF ShadowedOther
  <2>5. Ordered(new)
    BY <2>1 DEF IsMerge, Ordered
  <2>6. QED
    BY <2>1, <2>3, <2>4, <2>5 DEF IsMerge, new
<1>3. CASE item.name \in DOMAIN acc.kept
  <2> DEFINE old     == acc.kept[item.name]
             kept    == IF Outranks(item, old) THEN item ELSE old
             dropped == IF Outranks(item, old) THEN old ELSE item
  <2>1. /\ new.kept = [m \in DOMAIN acc.kept |-> IF m = item.name THEN kept ELSE acc.kept[m]]
        /\ new.shadowed = IF dropped.level = kept.level THEN acc.shadowed
                          ELSE [m \in DOMAIN acc.shadowed \cup {item.name} |->
                                  IF m = item.name THEN dropped ELSE acc.shadowed[m]]
        /\ new.order = IF dropped.level = kept.level \/ item.name \in DOMAIN acc.shadowed
                       THEN acc.order ELSE Append(acc.order, item.name)
        /\ new = [kept |-> new.kept, shadowed |-> new.shadowed, order |-> new.order]
    BY <1>3 DEF Merge, IsMerge
  <2> HIDE DEF new
  <2>2. PICK j \in 1..n : old = items[j] /\ items[j].name = item.name
    BY <1>3 DEF IsMerge, KeptFirst
  <2>3. KeptFirst(new, items, n + 1)
    <3>1. \A i \in 1..(n + 1) : items[i].name \in DOMAIN new.kept
      BY <1>1, <1>3, <2>1 DEF IsMerge, KeptFirst
    <3>2. ASSUME NEW m \in DOMAIN new.kept
          PROVE  \E i \in 1..(n + 1) : new.kept[m] = items[i] /\ items[i].name = m
      <4>1. CASE m = item.name
        <5>1. new.kept[m] = items[n + 1] \/ new.kept[m] = items[j]
          BY <1>3, <2>1, <2>2, <4>1
        <5>2. QED
          BY <1>1, <2>2, <4>1, <5>1
      <4>2. CASE m # item.name
        <5>1. m \in DOMAIN acc.kept /\ new.kept[m] = acc.kept[m]
          BY <2>1, <4>2
        <5>2. PICK i \in 1..n : acc.kept[m] = items[i] /\ items[i].name = m
          BY <5>1 DEF IsMerge, KeptFirst
        <5>3. QED
          BY <1>1, <5>1, <5>2
      <4>3. QED
        BY <4>1, <4>2
    <3>3. ASSUME NEW i \in 1..(n + 1), items[i].required
          PROVE  new.kept[items[i].name].required
      <4>1. CASE i = n + 1
        <5>1. new.kept[items[i].name] = kept
          BY <1>1, <1>3, <2>1, <4>1
        <5>2. kept.required
          BY <1>1, <3>3, <4>1 DEF Outranks
        <5>3. QED
          BY <5>1, <5>2
      <4>2. CASE i # n + 1
        <5>1. i \in 1..n
          BY <4>2
        <5>2. items[i].name \in DOMAIN acc.kept /\ acc.kept[items[i].name].required
          BY <3>3, <5>1 DEF IsMerge, KeptFirst
        <5>3. CASE items[i].name # item.name
          BY <2>1, <5>2, <5>3
        <5>4. CASE items[i].name = item.name
          <6>1. old.required
            BY <5>2, <5>4
          <6>2. kept.required
            BY <6>1 DEF Outranks
          <6>3. QED
            BY <1>3, <2>1, <5>4, <6>2
        <5>5. QED
          BY <5>3, <5>4
      <4>3. QED
        BY <4>1, <4>2
    <3>4. QED
      BY <3>1, <3>2, <3>3 DEF KeptFirst
  <2>4. ShadowedOther(new, items, n + 1)
    <3>1. DOMAIN new.shadowed \subseteq DOMAIN new.kept
      BY <1>1, <1>3, <2>1 DEF IsMerge, ShadowedOther
    <3>2. ASSUME NEW m \in DOMAIN new.shadowed
          PROVE  /\ \E i \in 1..(n + 1) : new.shadowed[m] = items[i] /\ items[i].name = m
                 /\ new.shadowed[m].level # new.kept[m].level
      <4>1. CASE m = item.name /\ dropped.level # kept.level
        <5>1. new.shadowed[m] = dropped /\ new.kept[m] = kept
          BY <1>3, <2>1, <4>1
        <5>2. dropped = items[n + 1] \/ dropped = items[j]
          BY <2>2
        <5>3. QED
          BY <1>1, <2>2, <4>1, <5>1, <5>2
      <4>2. CASE m = item.name /\ dropped.level = kept.level
        <5>1. new.shadowed[m] = acc.shadowed[m] /\ new.kept[m] = kept /\ m \in DOMAIN acc.shadowed
          BY <1>3, <2>1, <4>2
        <5>2. old.level = kept.level
          BY <4>2
        <5>3. QED
          BY <1>1, <4>2, <5>1, <5>2 DEF IsMerge, ShadowedOther
      <4>3. CASE m # item.name
        <5>1. /\ m \in DOMAIN acc.shadowed /\ new.shadowed[m] = acc.shadowed[m]
              /\ m \in DOMAIN acc.kept /\ new.kept[m] = acc.kept[m]
          BY <2>1, <4>3 DEF IsMerge, ShadowedOther
        <5>2. QED
          BY <1>1, <5>1 DEF IsMerge, ShadowedOther
      <4>4. QED
        BY <4>1, <4>2, <4>3
    <3>3. ASSUME NEW i \in 1..(n + 1), items[i].level # new.kept[items[i].name].level
          PROVE  items[i].name \in DOMAIN new.shadowed
      <4>1. DOMAIN acc.shadowed \subseteq DOMAIN new.shadowed
        BY <2>1
      <4>2. CASE items[i].name # item.name
        <5>1. i \in 1..n /\ items[i].name \in DOMAIN acc.kept
          BY <1>1, <4>2 DEF IsMerge, KeptFirst
        <5>2. new.kept[items[i].name] = acc.kept[items[i].name]
          BY <2>1, <4>2, <5>1
        <5>3. QED
          BY <3>3, <4>1, <5>1, <5>2 DEF IsMerge, ShadowedOther
      <4>3. CASE items[i].name = item.name
        <5>1. new.kept[items[i].name] = kept
          BY <1>3, <2>1, <4>3
        <5>2. CASE dropped.level # kept.level
          BY <2>1, <4>3, <5>2
        <5>3. CASE dropped.level = kept.level
          <6>1. old.level = kept.level /\ item.level = kept.level
            BY <5>3
          <6>2. items[i].level # old.level /\ i \in 1..n
            BY <1>1, <3>3, <5>1, <6>1
          <6>3. QED
            BY <4>1, <4>3, <6>2 DEF IsMerge, ShadowedOther
        <5>4. QED
          BY <5>2, <5>3
      <4>4. QED
        BY <4>2, <4>3
    <3>4. QED
      BY <3>1, <3>2, <3>3 DEF ShadowedOther
  <2>5. Ordered(new)
    <3>1. CASE dropped.level = kept.level
      BY <2>1, <3>1 DEF IsMerge, Ordered
    <3>2. CASE dropped.level # kept.level /\ item.name \in DOMAIN acc.shadowed
      <4>1. DOMAIN new.shadowed = DOMAIN acc.shadowed /\ new.order = acc.order
        BY <2>1, <3>2
      <4>2. QED
        BY <4>1 DEF IsMerge, Ordered
    <3>3. CASE dropped.level # kept.level /\ item.name \notin DOMAIN acc.shadowed
      <4>1. /\ DOMAIN new.shadowed = DOMAIN acc.shadowed \cup {item.name}
            /\ new.order = Append(acc.order, item.name)
        BY <2>1, <3>3
      <4>2. /\ acc.order \in Seq(DOMAIN new.shadowed) /\ Len(acc.order) \in Nat
            /\ \A i \in DOMAIN acc.order : acc.order[i] \in DOMAIN acc.shadowed
            /\ DOMAIN acc.order = 1..Len(acc.order)
        <5>1. acc.order \in Seq(DOMAIN acc.shadowed)
          BY DEF IsMerge, Ordered
        <5>2. DOMAIN acc.shadowed \subseteq DOMAIN new.shadowed
          BY <4>1
        <5>3. QED
          BY <5>1, <5>2, SeqMonotonic
      <4>3. /\ new.order \in Seq(DOMAIN new.shadowed)
            /\ DOMAIN new.order = 1..(Len(acc.order) + 1)
            /\ \A i \in 1..Len(acc.order) : new.order[i] = acc.order[i]
            /\ new.order[Len(acc.order) + 1] = item.name
        BY <4>1, <4>2
      <4>4. ASSUME NEW m \in DOMAIN new.shadowed
            PROVE  \E i \in DOMAIN new.order : new.order[i] = m
        <5>1. CASE m = item.name
          <6>1. Len(acc.order) + 1 \in DOMAIN new.order
            BY <4>2, <4>3
          <6>2. QED
            BY <4>3, <5>1, <6>1
        <5>2. CASE m # item.name
          <6>1. PICK i \in DOMAIN acc.order : acc.order[i] = m
            BY <4>1, <5>2 DEF IsMerge, Ordered
          <6>2. i \in 1..Len(acc.order) /\ i \in DOMAIN new.order
            BY <4>2, <4>3, <6>1
          <6>3. QED
            BY <4>3, <6>1, <6>2
        <5>3. QED
          BY <5>1, <5>2
      <4>5. ASSUME NEW i \in DOMAIN new.order, NEW j_ \in DOMAIN new.order,
                   new.order[i] = new.order[j_]
            PROVE  i = j_
        <5>1. CASE i \in 1..Len(acc.order) /\ j_ \in 1..Len(acc.order)
          BY <4>2, <4>3, <4>5, <5>1 DEF IsMerge, Ordered
        <5>2. CASE i \in 1..Len(acc.order) /\ j_ = Len(acc.order) + 1
          BY <3>3, <4>2, <4>3, <4>5, <5>2
        <5>3. CASE j_ \in 1..Len(acc.order) /\ i = Len(acc.order) + 1
          BY <3>3, <4>2, <4>3, <4>5, <5>3
        <5>4. CASE i = Len(acc.order) + 1 /\ j_ = Len(acc.order) + 1
          BY <5>4
        <5>5. i \in 1..(Len(acc.order) + 1) /\ j_ \in 1..(Len(acc.order) + 1)
          BY <4>3
        <5>6. /\ i \in 1..Len(acc.order) \/ i = Len(acc.order) + 1
              /\ j_ \in 1..Len(acc.order) \/ j_ = Len(acc.order) + 1
          BY <4>2, <5>5
        <5>7. QED
          BY <5>1, <5>2, <5>3, <5>4, <5>6
      <4>6. QED
        BY <4>3, <4>4, <4>5 DEF Ordered
    <3>4. QED
      BY <3>1, <3>2, <3>3
  <2>6. QED
    BY <2>1, <2>3, <2>4, <2>5 DEF IsMerge, new
<1>4. QED
  BY <1>2, <1>3

\* All entries, merged.
LEMMA MergedSound ==
    ASSUME NEW items \in Seq(Item)
    PROVE  IsMerge(Merged(items), items, Len(items))
<1>1. DOMAIN items = 1..Len(items) /\ Len(items) \in Nat
  OBVIOUS
<1> DEFINE h  == CHOOSE h : h = [s \in SUBSET (1..Len(items)) |-> MergeStep(h, items, s)]
           by == [kind |-> "merge", base |-> Nothing, items |-> items]
           Good == {n \in Nat : n <= Len(items) => IsMerge(h[1..n], items, n)}
<1>2. \A f, s : FoldStep(by, f, s) = MergeStep(f, items, s)
  BY DEF FoldStep, StepOf, MergeStep
<1> HIDE DEF by
<1> HIDE DEF Good
<1>3. h = [s \in SUBSET (1..Len(items)) |-> FoldStep(by, h, s)]
  <2>1. PICK g : g = [s \in SUBSET (1..Len(items)) |-> FoldStep(by, g, s)]
    <3> HIDE DEF h
    <3>1. QED
      BY <1>1, FoldExists
  <2>2. g = [s \in SUBSET (1..Len(items)) |-> MergeStep(g, items, s)]
    BY <1>2, <2>1
  <2>3. h = [s \in SUBSET (1..Len(items)) |-> MergeStep(h, items, s)]
    BY <2>2
  <2> HIDE DEF h
  <2>4. QED
    BY <1>2, <2>3
<1>4. Merged(items) = h[1..Len(items)]
  BY <1>1, MergedFold
<1> HIDE DEF h
<1>5. /\ h[1..0] = by.base
      /\ \A k \in 0..(Len(items) - 1) : h[1..(k + 1)] = StepOf(by, h[1..k], by.items[k + 1])
  <2>0. PICK g : g = h
    OBVIOUS
  <2>1. PICK n \in Nat : g = h /\ n = Len(items)
    BY <1>1, <2>0
  <2>2. g = [s \in SUBSET (1..n) |-> FoldStep(by, g, s)]
    BY <1>3, <2>1
  <2>3. /\ g[1..0] = by.base
        /\ \A k \in 0..(n - 1) : g[1..(k + 1)] = StepOf(by, g[1..k], by.items[k + 1])
    BY <2>2, FoldUnrolled
  <2>4. QED
    BY <2>1, <2>3
<1>6. 0 \in Good
  <2>1. 1..0 = {}
    OBVIOUS
  <2>2. IsMerge(Nothing, items, 0)
    BY <2>1 DEF IsMerge, KeptFirst, ShadowedOther, Ordered, Nothing
  <2>3. QED
    BY <1>5, <2>2 DEF by, Good
<1>7. ASSUME NEW n \in Nat, n \in Good PROVE n + 1 \in Good
  <2> SUFFICES ASSUME n + 1 <= Len(items) PROVE IsMerge(h[1..(n + 1)], items, n + 1)
    BY DEF Good
  <2>1. n \in 0..(Len(items) - 1) /\ n + 1 \in DOMAIN items
    BY <1>1
  <2>2. h[1..(n + 1)] = Merge(h[1..n], items[n + 1])
    BY <1>5, <2>1 DEF StepOf, by
  <2>3. IsMerge(h[1..n], items, n)
    BY <1>1, <1>7 DEF Good
  <2>4. QED
    BY <2>1, <2>2, <2>3, MergeKeeps
<1>8. Len(items) \in Good
  <2>1. Nat \subseteq Good
    BY <1>6, <1>7, Induct
  <2>2. QED
    BY <1>1, <2>1
<1>9. QED
  BY <1>1, <1>4, <1>8 DEF Good

-----------------------------------------------------------------------------
(* Names and aliases.                                                      *)

Part == (UNION {Range(n) : n \in Names}) \cup {Word(l) : l \in Level} \cup {Number(n) : n \in Nat}

\* Names are sequences of parts.
LEMMA NameParts == Names \subseteq Seq(Part)
<1> SUFFICES ASSUME NEW n \in Names PROVE n \in Seq(Part)
  OBVIOUS
<1>1. n \in Seq(Range(n))
  BY NameAssumption
<1>2. Range(n) \subseteq Part
  BY DEF Part
<1>3. QED
  BY <1>1, <1>2, SeqMonotonic

Numbered(level, name, n) ==
    IF n = 1 THEN <<Word(level)>> \o name ELSE Append(<<Word(level)>> \o name, Number(n))

\* Two different levels or numbers make two different aliases.
LEMMA LevelNames ==
    ASSUME NEW level \in Level, NEW name \in Seq(Part), NEW n \in Nat
    PROVE  /\ Numbered(level, name, n) \in Seq(Part)
           /\ Len(Numbered(level, name, n)) = Len(name) + (IF n = 1 THEN 1 ELSE 2)
           /\ n # 1 => Numbered(level, name, n)[Len(name) + 2] = Number(n)
<1>1. Word(level) \in Part /\ Number(n) \in Part
  BY DEF Part
<1> DEFINE first == <<Word(level)>>
           base  == first \o name
<1>2. first \in Seq(Part) /\ Len(first) = 1
  <2>1. Word(level) \in Part
    BY <1>1
  <2> HIDE DEF Part
  <2>2. QED
    BY <2>1
<1>3. Len(name) \in Nat
  OBVIOUS
<1> HIDE DEF first
<1>4. base \in Seq(Part) /\ Len(base) = 1 + Len(name)
  BY <1>2, ConcatProperties
<1>5. Numbered(level, name, n) = IF n = 1 THEN base ELSE Append(base, Number(n))
  BY DEF Numbered, first
<1> HIDE DEF base
<1>6. CASE n = 1
  <2>1. Numbered(level, name, n) = base
    BY <1>5, <1>6
  <2>2. Len(Numbered(level, name, n)) = Len(name) + 1
    BY <1>3, <1>4, <2>1
  <2>3. QED
    BY <1>4, <1>6, <2>1, <2>2
<1>7. CASE n # 1
  <2>1. Numbered(level, name, n) = Append(base, Number(n))
    BY <1>5, <1>7
  <2>2. /\ Append(base, Number(n)) \in Seq(Part)
        /\ Len(Append(base, Number(n))) = Len(base) + 1
        /\ Append(base, Number(n))[Len(base) + 1] = Number(n)
    BY <1>1, <1>4, AppendProperties
  <2>3. Len(base) + 1 = Len(name) + 2
    BY <1>3, <1>4
  <2>4. QED
    BY <1>7, <2>1, <2>2, <2>3
<1>8. QED
  BY <1>6, <1>7

\* An alias is a name that is not taken.
LEMMA AliasFresh ==
    ASSUME NEW level \in Level, NEW name \in Seq(Part), NEW taken, IsFiniteSet(taken)
    PROVE  \E n \in 1..(Cardinality(taken) + 1) :
             /\ AliasName(level, name, taken) = Numbered(level, name, n)
             /\ Numbered(level, name, n) \notin taken
<1> DEFINE C    == Cardinality(taken)
           T(n) == Numbered(level, name, n)
           U    == {n \in 1..(C + 1) : T(n) \notin taken}
           OK(n) == T(n) \notin taken /\ \A m \in 1..(n - 1) : T(m) \in taken
<1>1. C \in Nat
  BY FS_CardinalityType
<1>2. AliasName(level, name, taken) = T(CHOOSE n \in 1..(C + 1) : OK(n))
  BY DEF AliasName, Numbered
<1>3. U # {}
  <2> SUFFICES ASSUME \A n \in 1..(C + 1) : T(n) \in taken PROVE FALSE
    OBVIOUS
  <2> DEFINE f == [n \in 1..(C + 1) |-> T(n)]
  <2>1. f \in [1..(C + 1) -> taken]
    OBVIOUS
  <2>2. IsFiniteSet(1..(C + 1)) /\ Cardinality(1..(C + 1)) = C + 1
    <3> HIDE DEF C
    <3>1. 1 \in Int /\ C + 1 \in Int /\ ~(1 > C + 1) /\ (C + 1) - 1 + 1 = C + 1
      BY <1>1
    <3>2. QED
      BY <3>1, FS_Interval
  <2>3. PICK x, y \in 1..(C + 1) : x # y /\ f[x] = f[y]
    <3> HIDE DEF f
    <3>1. C < C + 1
      BY <1>1
    <3>2. QED
      BY <2>1, <2>2, <3>1, FS_PigeonHole
  <2>4. T(x) = T(y) /\ x \in Nat /\ y \in Nat /\ Len(name) \in Nat
    BY <1>1, <2>3
  <2> HIDE DEF C, f
  <2>5. Len(T(x)) = Len(name) + (IF x = 1 THEN 1 ELSE 2) /\ (x # 1 => T(x)[Len(name) + 2] = Number(x))
    BY <2>4, LevelNames
  <2>6. Len(T(y)) = Len(name) + (IF y = 1 THEN 1 ELSE 2) /\ (y # 1 => T(y)[Len(name) + 2] = Number(y))
    BY <2>4, LevelNames
  <2> HIDE DEF T
  <2>7. x = y
    <3>1. Number(x)[2] = x /\ Number(y)[2] = y
      BY DEF Number
    <3>2. CASE x = 1
      BY <2>4, <2>5, <2>6, <3>2
    <3>3. CASE y = 1
      BY <2>4, <2>5, <2>6, <3>3
    <3>4. CASE x # 1 /\ y # 1
      <4>1. Number(x) = Number(y)
        BY <2>4, <2>5, <2>6, <3>4
      <4>2. QED
        BY <3>1, <4>1
    <3>5. QED
      BY <3>2, <3>3, <3>4
  <2>8. QED
    BY <2>3, <2>7
<1>4. \E n \in 1..(C + 1) : OK(n)
  <2>1. U \in SUBSET Nat
    <3> HIDE DEF C, T
    <3>1. QED
      BY <1>1
  <2>2. PICK n \in U : \A k \in U : ~(k < n)
    <3> HIDE DEF U
    <3>1. QED
      BY <1>3, <2>1, Least
  <2>3. n \in 1..(C + 1) /\ T(n) \notin taken
    BY <2>2
  <2>4. ASSUME NEW m \in 1..(n - 1) PROVE T(m) \in taken
    <3>1. m \in 1..(C + 1) /\ m < n
      BY <1>1, <2>3
    <3>2. QED
      BY <2>2, <3>1
  <2>5. QED
    BY <2>3, <2>4
<1> HIDE DEF C, T
<1>5. OK(CHOOSE n \in 1..(C + 1) : OK(n)) /\ (CHOOSE n \in 1..(C + 1) : OK(n)) \in 1..(C + 1)
  <2> HIDE DEF OK
  <2>1. QED
    BY <1>4
<1>6. QED
  BY <1>2, <1>5 DEF C, T
-----------------------------------------------------------------------------
(* The schema that is published.                                           *)

\* _shadowed_level never gives a shadowed entry the level of the one that is kept.
LEMMA LevelForShadowed ==
    ASSUME NEW params \in Params, NEW shadowed \in Item, NEW kept \in Item,
           shadowed.level # kept.level
    PROVE  /\ ShadowedLevel(params, shadowed, kept) \in Level
           /\ ShadowedLevel(params, shadowed, kept) # kept.level
           /\ \A l \in Level : LevelsAt(params, shadowed.name) \ {kept.level} = {l} =>
                               ShadowedLevel(params, shadowed, kept) = l
           /\ LevelsAt(params, shadowed.name) = {} =>
                ShadowedLevel(params, shadowed, kept) = shadowed.level
<1> DEFINE left == LevelsAt(params, shadowed.name) \ {kept.level}
<1>1. shadowed.level \in Level /\ left \subseteq Level /\ kept.level \notin left
  BY DEF Item, Level, LevelsAt
<1>2. ShadowedLevel(params, shadowed, kept) =
        IF Cardinality(left) = 1 THEN CHOOSE l \in left : TRUE ELSE shadowed.level
  BY DEF ShadowedLevel
<1>3. \A l : left = {l} => Cardinality(left) = 1
  BY FS_Singleton
<1>4. Cardinality(left) = 1 => left # {}
  BY FS_EmptySet
<1>5. LevelsAt(params, shadowed.name) = {} => left = {}
  OBVIOUS
<1> HIDE DEF left
<1>6. Cardinality(left) = 1 => (CHOOSE l \in left : TRUE) \in left
  BY <1>4
<1>7. \A l : left = {l} => (CHOOSE k \in left : TRUE) = l
  BY <1>3, <1>6
<1>8. ASSUME NEW l \in Level, LevelsAt(params, shadowed.name) \ {kept.level} = {l}
      PROVE  ShadowedLevel(params, shadowed, kept) = l
  <2>1. left = {l}
    BY <1>8 DEF left
  <2>2. QED
    BY <1>2, <1>3, <1>7, <2>1
<1>9. QED
  BY <1>1, <1>2, <1>4, <1>5, <1>6, <1>8

\* What is published for a shadowed name, under whichever alias.
Shadow(merged, params, n) ==
    [wire |-> n, level |-> ShadowedLevel(params, merged.shadowed[n], merged.kept[n])]

\* What is published once the first k shadowed names have their aliases.
IsPublished(pub, merged, params, k) ==
    LET plain == PublishPlain(merged, params)
    IN /\ IsFiniteSet(DOMAIN pub) /\ DOMAIN plain \subseteq DOMAIN pub
       /\ \A n \in DOMAIN plain : pub[n] = plain[n]
       /\ \A p \in DOMAIN pub \ DOMAIN plain :
            \E i \in 1..k : pub[p] = Shadow(merged, params, merged.order[i])
       /\ \A i \in 1..k : \E p \in DOMAIN pub \ DOMAIN plain :
                           pub[p] = Shadow(merged, params, merged.order[i])
       /\ \A p, q \in DOMAIN pub \ DOMAIN plain : pub[p].wire = pub[q].wire => p = q

\* One more alias disturbs nothing that is published.
LEMMA PublishKeeps ==
    ASSUME NEW merged, NEW params, NEW k \in Nat, NEW pub,
           IsPublished(pub, merged, params, k), k + 1 \in DOMAIN merged.order,
           \A i, j \in DOMAIN merged.order : merged.order[i] = merged.order[j] => i = j,
           DOMAIN merged.order = 1..Len(merged.order), Len(merged.order) \in Nat,
           merged.order[k + 1] \in Names,
           ShadowedLevel(params, merged.shadowed[merged.order[k + 1]],
                         merged.kept[merged.order[k + 1]]) \in Level
    PROVE  IsPublished(PublishAlias(merged, params, pub, merged.order[k + 1]),
                       merged, params, k + 1)
<1> DEFINE n     == merged.order[k + 1]
           level == ShadowedLevel(params, merged.shadowed[n], merged.kept[n])
           alias == AliasName(level, n, DOMAIN pub)
           new   == PublishAlias(merged, params, pub, n)
           plain == PublishPlain(merged, params)
<1>1. alias \notin DOMAIN pub
  <2>1. n \in Seq(Part)
    BY NameParts
  <2>2. IsFiniteSet(DOMAIN pub)
    BY DEF IsPublished
  <2>3. level \in Level
    OBVIOUS
  <2> HIDE DEF n, level
  <2>4. QED
    BY <2>1, <2>2, <2>3, AliasFresh
<1>2. new = [p \in DOMAIN pub \cup {alias} |->
               IF p = alias THEN Shadow(merged, params, n) ELSE pub[p]]
  BY DEF PublishAlias, Shadow
<1>3. \A i \in 1..(k + 1) : i \in DOMAIN merged.order
  OBVIOUS
<1>4. ASSUME NEW i \in 1..k PROVE merged.order[i] # n
  <2>1. i \in DOMAIN merged.order /\ i # k + 1
    BY <1>3
  <2>2. QED
    BY <2>1
<1>n. n = merged.order[k + 1]
  OBVIOUS
<1> HIDE DEF n, level, alias, new, plain
<1>5. /\ DOMAIN new = DOMAIN pub \cup {alias}
      /\ new[alias] = Shadow(merged, params, n)
      /\ \A p \in DOMAIN pub : new[p] = pub[p]
  BY <1>1, <1>2
<1>6. /\ IsFiniteSet(DOMAIN pub) /\ DOMAIN plain \subseteq DOMAIN pub
      /\ \A m \in DOMAIN plain : pub[m] = plain[m]
      /\ \A p \in DOMAIN pub \ DOMAIN plain :
           \E i \in 1..k : pub[p] = Shadow(merged, params, merged.order[i])
      /\ \A i \in 1..k : \E p \in DOMAIN pub \ DOMAIN plain :
                          pub[p] = Shadow(merged, params, merged.order[i])
      /\ \A p, q \in DOMAIN pub \ DOMAIN plain : pub[p].wire = pub[q].wire => p = q
  BY DEF IsPublished, plain
<1>7. \A m : Shadow(merged, params, m).wire = m
  BY DEF Shadow
<1>8. IsFiniteSet(DOMAIN new)
  BY <1>5, <1>6, FS_AddElement
<1>9. DOMAIN plain \subseteq DOMAIN new /\ \A m \in DOMAIN plain : new[m] = plain[m]
  BY <1>5, <1>6
<1>10. alias \notin DOMAIN plain
  BY <1>1, <1>6
<1>11. ASSUME NEW p \in DOMAIN new \ DOMAIN plain
       PROVE  \E i \in 1..(k + 1) : new[p] = Shadow(merged, params, merged.order[i])
  <2>1. CASE p = alias
    <3>1. k + 1 \in 1..(k + 1)
      OBVIOUS
    <3>2. QED
      BY <1>5, <1>n, <2>1, <3>1
  <2>2. CASE p # alias
    <3>1. p \in DOMAIN pub \ DOMAIN plain /\ new[p] = pub[p]
      BY <1>5, <2>2
    <3>2. PICK i \in 1..k : pub[p] = Shadow(merged, params, merged.order[i])
      BY <1>6, <3>1
    <3>3. i \in 1..(k + 1)
      OBVIOUS
    <3>4. QED
      BY <3>1, <3>2, <3>3
  <2>3. QED
    BY <2>1, <2>2
<1>12. ASSUME NEW i \in 1..(k + 1)
       PROVE  \E p \in DOMAIN new \ DOMAIN plain : new[p] = Shadow(merged, params, merged.order[i])
  <2>1. CASE i = k + 1
    BY <1>5, <1>10, <1>n, <2>1
  <2>2. CASE i # k + 1
    <3>1. i \in 1..k
      BY <2>2
    <3>2. PICK p \in DOMAIN pub \ DOMAIN plain : pub[p] = Shadow(merged, params, merged.order[i])
      BY <1>6, <3>1
    <3>3. QED
      BY <1>5, <3>2
  <2>3. QED
    BY <2>1, <2>2
<1>13. ASSUME NEW p \in DOMAIN pub \ DOMAIN plain PROVE pub[p].wire # n
  <2>1. PICK i \in 1..k : pub[p] = Shadow(merged, params, merged.order[i])
    BY <1>6
  <2>2. pub[p].wire = merged.order[i]
    BY <1>7, <2>1
  <2>3. QED
    BY <1>4, <2>2
<1>14. ASSUME NEW p \in DOMAIN new \ DOMAIN plain, NEW q \in DOMAIN new \ DOMAIN plain,
              new[p].wire = new[q].wire
       PROVE  p = q
  BY <1>5, <1>6, <1>7, <1>13, <1>14
<1>15. IsPublished(new, merged, params, k + 1)
  BY <1>8, <1>9, <1>11, <1>12, <1>14 DEF IsPublished, plain
<1>16. QED
  BY <1>15 DEF new, n

PublishStep(of, h, s) ==
    IF s = {} THEN PublishPlain(of.merged, of.params)
    ELSE PublishAlias(of.merged, of.params, h[s \ {Max(s)}], of.merged.order[Max(s)])

\* Publish, as its definitions unfold.
LEMMA PublishFold ==
    ASSUME NEW of
    PROVE  Publish(of.merged, of.params) =
             (CHOOSE h : h = [s \in SUBSET DOMAIN of.merged.order |-> PublishStep(of, h, s)])
               [DOMAIN of.merged.order]
BY DEF Publish, FoldLeft, MapThenFoldSet, PublishStep

\* All aliases, published.
LEMMA PublishSound ==
    ASSUME NEW items \in Seq(Item), NEW params \in Params
    PROVE  IsPublished(Publish(Merged(items), params), Merged(items), params,
                       Len(Merged(items).order))
<1>1. PICK merged : merged = Merged(items)
  OBVIOUS
<1>2. PICK of : of = [merged |-> merged, params |-> params]
  OBVIOUS
<1>3. PICK by : by = [kind |-> "publish", base |-> PublishPlain(merged, params),
                      merged |-> merged, params |-> params, items |-> merged.order]
  OBVIOUS
<1>4. IsMerge(merged, items, Len(items))
  BY <1>1, MergedSound
<1>5. /\ merged.order \in Seq(DOMAIN merged.shadowed)
      /\ \A i, j \in DOMAIN merged.order : merged.order[i] = merged.order[j] => i = j
  BY <1>4 DEF IsMerge, Ordered
<1>6. /\ DOMAIN merged.order = 1..Len(merged.order) /\ Len(merged.order) \in Nat
      /\ \A i \in DOMAIN merged.order : merged.order[i] \in DOMAIN merged.shadowed
  BY <1>5
<1>7. ASSUME NEW n \in DOMAIN merged.shadowed
      PROVE  /\ n \in Names /\ merged.shadowed[n] \in Item /\ merged.kept[n] \in Item
             /\ merged.shadowed[n].level # merged.kept[n].level
  <2>1. \A i \in 1..Len(items) : items[i] \in Item
    OBVIOUS
  <2>2. PICK i \in 1..Len(items) : merged.shadowed[n] = items[i] /\ items[i].name = n
    BY <1>4 DEF IsMerge, ShadowedOther
  <2>3. n \in DOMAIN merged.kept
    BY <1>4 DEF IsMerge, ShadowedOther
  <2>4. PICK j \in 1..Len(items) : merged.kept[n] = items[j]
    BY <1>4, <2>3 DEF IsMerge, KeptFirst
  <2>5. merged.shadowed[n].level # merged.kept[n].level
    BY <1>4 DEF IsMerge, ShadowedOther
  <2>6. items[i].name \in Names
    BY <2>1 DEF Item
  <2>7. QED
    BY <2>1, <2>2, <2>4, <2>5, <2>6
<1>8. ASSUME NEW n \in DOMAIN merged.kept PROVE n \in Names
  <2>1. PICK i \in 1..Len(items) : items[i].name = n
    BY <1>4 DEF IsMerge, KeptFirst
  <2>2. items[i] \in Item
    OBVIOUS
  <2>3. QED
    BY <2>1, <2>2 DEF Item
<1> DEFINE L == Len(merged.order)
           h == CHOOSE h : h = [s \in SUBSET DOMAIN of.merged.order |-> PublishStep(of, h, s)]
           Good == {k \in Nat : k <= L => IsPublished(h[1..k], merged, params, k)}
<1>9. \A f, s : FoldStep(by, f, s) = PublishStep(of, f, s)
  BY <1>2, <1>3 DEF FoldStep, StepOf, PublishStep
<1>10. L \in Nat
  BY <1>6
<1>11. Publish(merged, params) = h[1..L] /\ DOMAIN of.merged.order = 1..L
  <2>1. DOMAIN of.merged.order = 1..L /\ of.merged = merged /\ of.params = params
    BY <1>2, <1>6
  <2>2. Publish(of.merged, of.params) = h[DOMAIN of.merged.order]
    BY PublishFold
  <2> HIDE DEF h
  <2>3. QED
    BY <2>1, <2>2
<1> HIDE DEF Good, L
<1>12. h = [s \in SUBSET (1..L) |-> FoldStep(by, h, s)]
  <2>1. PICK g : g = [s \in SUBSET (1..L) |-> FoldStep(by, g, s)]
    <3> HIDE DEF h
    <3>1. QED
      BY <1>10, FoldExists
  <2>2. g = [s \in SUBSET (1..L) |-> PublishStep(of, g, s)]
    BY <1>9, <2>1
  <2>3. g = [s \in SUBSET DOMAIN of.merged.order |-> PublishStep(of, g, s)]
    BY <1>11, <2>2
  <2>4. h = [s \in SUBSET DOMAIN of.merged.order |-> PublishStep(of, h, s)]
    BY <2>3
  <2> HIDE DEF h
  <2>5. QED
    BY <1>9, <1>11, <2>4
<1> HIDE DEF h
<1>13. /\ h[1..0] = by.base
       /\ \A k \in 0..(L - 1) : h[1..(k + 1)] = StepOf(by, h[1..k], by.items[k + 1])
  <2>1. PICK g : g = h
    OBVIOUS
  <2>2. PICK n \in Nat : g = h /\ n = L
    BY <1>10, <2>1
  <2>3. g = [s \in SUBSET (1..n) |-> FoldStep(by, g, s)]
    BY <1>12, <2>2
  <2>4. /\ g[1..0] = by.base
        /\ \A k \in 0..(n - 1) : g[1..(k + 1)] = StepOf(by, g[1..k], by.items[k + 1])
    BY <2>3, FoldUnrolled
  <2>5. QED
    BY <2>2, <2>4
<1>14. 0 \in Good
  <2>1. 1..0 = {} /\ h[1..0] = PublishPlain(merged, params)
    BY <1>3, <1>13
  <2>2. DOMAIN PublishPlain(merged, params) \subseteq Names
    <3>1. Specified(params) \subseteq Names
      BY DEF Specified, Params
    <3>2. DOMAIN merged.kept \subseteq Names
      BY <1>8
    <3>3. QED
      BY <3>1, <3>2 DEF PublishPlain
  <2>3. IsFiniteSet(DOMAIN PublishPlain(merged, params))
    BY <2>2, NameAssumption, FS_Subset
  <2>4. IsPublished(PublishPlain(merged, params), merged, params, 0)
    BY <2>1, <2>3 DEF IsPublished
  <2>5. QED
    BY <2>1, <2>4 DEF Good
<1>15. ASSUME NEW k \in Nat, k \in Good PROVE k + 1 \in Good
  <2> SUFFICES ASSUME k + 1 <= L PROVE IsPublished(h[1..(k + 1)], merged, params, k + 1)
    BY DEF Good
  <2>1. k \in 0..(L - 1) /\ k + 1 \in DOMAIN merged.order
    BY <1>6, <1>10 DEF L
  <2>2. h[1..(k + 1)] = PublishAlias(merged, params, h[1..k], merged.order[k + 1])
    BY <1>3, <1>13, <2>1 DEF StepOf
  <2>3. IsPublished(h[1..k], merged, params, k)
    BY <1>10, <1>15 DEF Good
  <2>4. merged.order[k + 1] \in DOMAIN merged.shadowed
    BY <1>6, <2>1
  <2>5. /\ merged.order[k + 1] \in Names
        /\ ShadowedLevel(params, merged.shadowed[merged.order[k + 1]],
                         merged.kept[merged.order[k + 1]]) \in Level
    BY <1>7, <2>4, LevelForShadowed
  <2>6. QED
    BY <1>5, <1>6, <2>1, <2>2, <2>3, <2>5, PublishKeeps
<1>16. L \in Good
  <2>1. Nat \subseteq Good
    BY <1>14, <1>15, Induct
  <2>2. QED
    BY <1>10, <2>1
<1>17. QED
  BY <1>1, <1>10, <1>11, <1>16 DEF Good, L

\* All that is known of what is published.
Facts(items, params, merged, pub) ==
    /\ merged = Merged(items) /\ IsMerge(merged, items, Len(items))
    /\ Translate(items, params).published = pub
    /\ DOMAIN PublishPlain(merged, params) = DOMAIN merged.kept \cup Specified(params)
    /\ \A n \in DOMAIN merged.kept \cup Specified(params) :
         /\ n \in DOMAIN pub /\ pub[n].wire = n
         /\ pub[n].level = IF n \in DOMAIN merged.shadowed THEN merged.kept[n].level
                           ELSE Placement(params, n, IF n \in DOMAIN merged.kept
                                                     THEN merged.kept[n].level ELSE "squid")
    /\ \A p \in DOMAIN pub \ DOMAIN PublishPlain(merged, params) :
         \E n \in DOMAIN merged.shadowed : pub[p] = Shadow(merged, params, n)
    /\ \A n \in DOMAIN merged.shadowed :
         \E p \in DOMAIN pub \ DOMAIN PublishPlain(merged, params) :
           pub[p] = Shadow(merged, params, n)
    /\ \A p, q \in DOMAIN pub \ DOMAIN PublishPlain(merged, params) :
         pub[p].wire = pub[q].wire => p = q

\* The published schema has the facts that what follows rests on.
LEMMA PublishedFacts ==
    ASSUME NEW items \in Seq(Item), NEW params \in Params
    PROVE  \E merged, pub : Facts(items, params, merged, pub)
<1>1. PICK merged : merged = Merged(items)
  OBVIOUS
<1>2. PICK pub : pub = Publish(merged, params)
  OBVIOUS
<1>3. PICK L : L = Len(merged.order)
  OBVIOUS
<1>4. IsMerge(merged, items, Len(items))
  BY <1>1, MergedSound
<1>5. /\ \A i \in 1..L : merged.order[i] \in DOMAIN merged.shadowed
      /\ \A m \in DOMAIN merged.shadowed : \E i \in 1..L : merged.order[i] = m
  BY <1>3, <1>4 DEF IsMerge, Ordered
<1>6. IsPublished(pub, merged, params, L)
  BY <1>1, <1>2, <1>3, PublishSound
<1>7. Translate(items, params).published = pub
  BY <1>1, <1>2 DEF Translate
<1>8. PICK plain : plain = PublishPlain(merged, params)
  OBVIOUS
<1>9. /\ DOMAIN plain = DOMAIN merged.kept \cup Specified(params)
      /\ \A n \in DOMAIN plain :
           /\ plain[n].wire = n
           /\ plain[n].level = IF n \in DOMAIN merged.shadowed THEN merged.kept[n].level
                               ELSE Placement(params, n, IF n \in DOMAIN merged.kept
                                                         THEN merged.kept[n].level ELSE "squid")
  BY <1>8 DEF PublishPlain
<1>10. /\ DOMAIN plain \subseteq DOMAIN pub /\ \A n \in DOMAIN plain : pub[n] = plain[n]
       /\ \A p \in DOMAIN pub \ DOMAIN plain :
            \E i \in 1..L : pub[p] = Shadow(merged, params, merged.order[i])
       /\ \A i \in 1..L : \E p \in DOMAIN pub \ DOMAIN plain :
                           pub[p] = Shadow(merged, params, merged.order[i])
       /\ \A p, q \in DOMAIN pub \ DOMAIN plain : pub[p].wire = pub[q].wire => p = q
  BY <1>6, <1>8 DEF IsPublished
<1>11. /\ \A p \in DOMAIN pub \ DOMAIN plain :
            \E n \in DOMAIN merged.shadowed : pub[p] = Shadow(merged, params, n)
       /\ \A n \in DOMAIN merged.shadowed :
            \E p \in DOMAIN pub \ DOMAIN plain : pub[p] = Shadow(merged, params, n)
  <2>1. ASSUME NEW p \in DOMAIN pub \ DOMAIN plain
        PROVE  \E n \in DOMAIN merged.shadowed : pub[p] = Shadow(merged, params, n)
    <3>1. PICK i \in 1..L : pub[p] = Shadow(merged, params, merged.order[i])
      BY <1>10
    <3>2. QED
      BY <1>5, <3>1
  <2>2. ASSUME NEW n \in DOMAIN merged.shadowed
        PROVE  \E p \in DOMAIN pub \ DOMAIN plain : pub[p] = Shadow(merged, params, n)
    <3>1. PICK i \in 1..L : merged.order[i] = n
      BY <1>5
    <3>2. QED
      BY <1>10, <3>1
  <2>3. QED
    BY <2>1, <2>2
<1>12. Facts(items, params, merged, pub)
  BY <1>1, <1>4, <1>7, <1>8, <1>9, <1>10, <1>11 DEF Facts
<1>13. QED
  BY <1>12

\* A shadowed entry and the one that shadows it are of input[], of one name and two levels.
LEMMA ShadowsAreItems ==
    ASSUME NEW items \in Seq(Item), NEW merged, IsMerge(merged, items, Len(items)),
           NEW n \in DOMAIN merged.shadowed
    PROVE  /\ n \in DOMAIN merged.kept
           /\ \E i, j \in DOMAIN items :
                /\ merged.shadowed[n] = items[i] /\ merged.kept[n] = items[j]
                /\ items[i] \in Item /\ items[j] \in Item
                /\ items[i].name = n /\ items[j].name = n /\ items[i].level # items[j].level
<1>1. DOMAIN items = 1..Len(items) /\ \A i \in DOMAIN items : items[i] \in Item
  OBVIOUS
<1>2. PICK i \in 1..Len(items) : merged.shadowed[n] = items[i] /\ items[i].name = n
  BY DEF IsMerge, ShadowedOther
<1>3. n \in DOMAIN merged.kept /\ merged.shadowed[n].level # merged.kept[n].level
  BY DEF IsMerge, ShadowedOther
<1>4. PICK j \in 1..Len(items) : merged.kept[n] = items[j] /\ items[j].name = n
  BY <1>3 DEF IsMerge, KeptFirst
<1>5. QED
  BY <1>1, <1>2, <1>3, <1>4

\* EachHasItsPlace: a name at most twice among the wire names, and then at two levels.
LEMMA PlacesDiffer ==
    ASSUME NEW items \in Seq(Item), NEW params \in Params
    PROVE  EachHasItsPlace(items, params)
<1>1. PICK merged, pub : Facts(items, params, merged, pub)
  BY PublishedFacts
<1>2. PICK plain : plain = DOMAIN PublishPlain(merged, params)
  OBVIOUS
<1>3. \A n \in plain : pub[n].wire = n
  BY <1>1, <1>2 DEF Facts
<1>4. ASSUME NEW n \in plain, NEW p \in DOMAIN pub \ plain, pub[p] = pub[n] PROVE FALSE
  <2>1. PICK m \in DOMAIN merged.shadowed : pub[p] = Shadow(merged, params, m)
    BY <1>1, <1>2 DEF Facts
  <2>2. m = n
    <3>1. Shadow(merged, params, m).wire = m
      BY DEF Shadow
    <3>2. QED
      BY <1>3, <1>4, <2>1, <3>1
  <2>3. pub[n].level = merged.kept[n].level
    BY <1>1, <1>2, <2>1, <2>2 DEF Facts
  <2>4. ShadowedLevel(params, merged.shadowed[n], merged.kept[n]) # merged.kept[n].level
    <3>1. IsMerge(merged, items, Len(items))
      BY <1>1 DEF Facts
    <3>2. PICK i, j \in DOMAIN items :
            /\ merged.shadowed[n] = items[i] /\ merged.kept[n] = items[j]
            /\ items[i] \in Item /\ items[j] \in Item /\ items[i].level # items[j].level
      BY <2>1, <2>2, <3>1, ShadowsAreItems
    <3>3. QED
      BY <3>2, LevelForShadowed
  <2>5. pub[n].level = ShadowedLevel(params, merged.shadowed[n], merged.kept[n])
    BY <1>4, <2>1, <2>2 DEF Shadow
  <2>6. QED
    BY <2>3, <2>4, <2>5
<1>5. ASSUME NEW m \in DOMAIN pub, NEW n \in DOMAIN pub, m # n PROVE pub[m] # pub[n]
  <2>1. CASE m \in plain /\ n \in plain
    BY <1>3, <1>5, <2>1
  <2>2. CASE m \in plain /\ n \notin plain
    BY <1>4, <2>2
  <2>3. CASE m \notin plain /\ n \in plain
    BY <1>4, <2>3
  <2>4. CASE m \notin plain /\ n \notin plain
    BY <1>1, <1>2, <1>5, <2>4 DEF Facts
  <2>5. QED
    BY <2>1, <2>2, <2>3, <2>4
<1>6. Translate(items, params).published = pub
  BY <1>1 DEF Facts
<1>7. QED
  BY <1>5, <1>6 DEF EachHasItsPlace

\* ValidIsEnough: what _input_modes asks for is what the API asks for.
LEMMA EnoughIsSent ==
    ASSUME NEW items \in Seq(Item), NEW params \in Params
    PROVE  ValidIsEnough(items, params)
<1>1. PICK t : t = Translate(items, params)
  OBVIOUS
<1>2. PICK kept : kept = Merged(items).kept
  OBVIOUS
<1>3. PICK required : required = {n \in DOMAIN kept : kept[n].required}
  OBVIOUS
<1>4. PICK groups : groups = {{n \in required : kept[n].group = g} : g \in Groups} \ {{}}
  OBVIOUS
<1>5. PICK fill : fill = {n \in required : kept[n].default /\ kept[n].group = NoGroup}
  OBVIOUS
<1>6. /\ t.either = IF Cardinality(groups) < 2 THEN {} ELSE groups
      /\ t.fill = fill
      /\ t.required = IF t.either = {} THEN required \ fill
                      ELSE {n \in required : kept[n].group = NoGroup /\ ~kept[n].default}
  BY <1>1, <1>2, <1>3, <1>4, <1>5 DEF Translate, InputModes
<1>7. ASSUME NEW given, Valid(t, given) PROVE Demanded(kept, WithDefaults(t, given))
  <2>1. /\ t.required \subseteq given
        /\ t.either # {} => \E g \in t.either : g \subseteq given
        /\ WithDefaults(t, given) = given \cup fill
    BY <1>6, <1>7 DEF Valid, WithDefaults
  <2>2. {n \in required : kept[n].group = NoGroup} \subseteq given \cup fill
    BY <1>5, <1>6, <2>1
  <2>3. ASSUME groups # {} PROVE \E g \in groups : g \subseteq given \cup fill
    <3>1. CASE t.either # {}
      <4>1. t.either = groups
        BY <1>6, <3>1
      <4>2. QED
        BY <2>1, <3>1, <4>1
    <3>2. CASE t.either = {}
      <4>1. required \ fill \subseteq given
        BY <1>6, <2>1, <3>2
      <4>2. PICK g \in groups : TRUE
        BY <2>3
      <4>3. g \subseteq required
        BY <1>4
      <4>4. QED
        BY <4>1, <4>2, <4>3
    <3>3. QED
      BY <3>1, <3>2
  <2>4. QED
    BY <1>3, <1>4, <2>1, <2>2, <2>3 DEF Demanded
<1>8. QED
  BY <1>1, <1>2, <1>7 DEF ValidIsEnough

\* RequiredTaskKept: such an entry outranks every other of its name.
LEMMA RequiredStays ==
    ASSUME NEW items \in Seq(Item), NEW params \in Params
    PROVE  RequiredTaskKept(items, params)
<1>1. PICK merged, pub : Facts(items, params, merged, pub)
  BY PublishedFacts
<1>2. SUFFICES ASSUME NEW i \in DOMAIN items, items[i].required, items[i].level = "task",
                      \A j \in DOMAIN items :
                        items[j].name = items[i].name /\ items[j].required => j = i,
                      LevelsAt(params, items[i].name) = {} \/ "task" \in LevelsAt(params, items[i].name)
               PROVE  pub[items[i].name].level = "task"
  <2>1. Translate(items, params).published = pub
    BY <1>1 DEF Facts
  <2>2. QED
    BY <2>1 DEF RequiredTaskKept
<1>3. PICK n : n = items[i].name
  OBVIOUS
<1>4. /\ n \in DOMAIN merged.kept /\ merged.kept[n].required
      /\ \E j \in DOMAIN items : merged.kept[n] = items[j] /\ items[j].name = n
  <2>1. IsMerge(merged, items, Len(items)) /\ DOMAIN items = 1..Len(items)
    BY <1>1 DEF Facts
  <2>2. QED
    BY <1>2, <1>3, <2>1 DEF IsMerge, KeptFirst
<1>5. merged.kept[n] = items[i]
  BY <1>2, <1>3, <1>4
<1>6. pub[n].level = IF n \in DOMAIN merged.shadowed THEN merged.kept[n].level
                     ELSE Placement(params, n, merged.kept[n].level)
  BY <1>1, <1>4 DEF Facts
<1>7. Placement(params, n, "task") = "task"
  BY <1>2, <1>3 DEF Placement
<1>8. QED
  BY <1>2, <1>3, <1>5, <1>6, <1>7

\* Where the split puts a single published input.
LEMMA SplitOfOne ==
    ASSUME NEW t, NEW p \in DOMAIN t.published, NEW l \in Level, t.published[p].level = l
    PROVE  t.published[p].wire \in Split(t, {p})[l]
BY DEF Split

\* SettingsReachable: _params_only_specs or the placement of the one entry; what is
\* published comes from either or is a shadowed entry, of input[] too.
LEMMA SettingsAreReached ==
    ASSUME NEW items \in Seq(Item), NEW params \in Params
    PROVE  SettingsReachable(items, params)
<1>1. PICK merged, pub : Facts(items, params, merged, pub)
  BY PublishedFacts
<1>2. PICK t : t = Translate(items, params)
  OBVIOUS
<1>3. t.published = pub
  BY <1>1, <1>2 DEF Facts
<1> DEFINE Entries(n)  == {i \in DOMAIN items : items[i].name = n}
           Known(l, n) == <<l, n>> \notin params.bare \/ Entries(n) # {}
<1>4. SUFFICES ASSUME NEW l \in {"squid", "function"}, NEW n \in params[l],
                      LevelsAt(params, n) = {l},
                      \A i, j \in Entries(n) : i = j
               PROVE  IF Known(l, n) THEN \E p \in DOMAIN t.published : n \in Split(t, {p})[l]
                      ELSE \A p \in DOMAIN t.published : t.published[p].wire # n
  BY <1>2 DEF SettingsReachable
<1>5. IsMerge(merged, items, Len(items))
  BY <1>1 DEF Facts
<1>6. /\ \A m \in DOMAIN merged.kept : Entries(m) # {}
      /\ \A m : Entries(m) # {} => m \in DOMAIN merged.kept
      /\ DOMAIN merged.shadowed \subseteq DOMAIN merged.kept
  <2>1. /\ \A i \in 1..Len(items) : items[i].name \in DOMAIN merged.kept
        /\ \A m \in DOMAIN merged.kept : \E i \in 1..Len(items) : items[i].name = m
        /\ DOMAIN merged.shadowed \subseteq DOMAIN merged.kept
    BY <1>5 DEF IsMerge, KeptFirst, ShadowedOther
  <2>2. DOMAIN items = 1..Len(items)
    OBVIOUS
  <2>3. QED
    BY <2>1, <2>2
<1>7. CASE Known(l, n)
  <2>1. n \in DOMAIN merged.kept \cup Specified(params)
    BY <1>6, <1>7 DEF Specified
  <2>2. n \notin DOMAIN merged.shadowed
    <3> SUFFICES ASSUME n \in DOMAIN merged.shadowed PROVE FALSE
      OBVIOUS
    <3>1. PICK i, j \in DOMAIN items :
            items[i].name = n /\ items[j].name = n /\ items[i].level # items[j].level
      BY <1>5, ShadowsAreItems
    <3>2. QED
      BY <1>4, <3>1
  <2>3. n \in DOMAIN pub /\ pub[n].wire = n
    BY <1>1, <2>1 DEF Facts
  <2>4. pub[n].level = Placement(params, n, IF n \in DOMAIN merged.kept
                                            THEN merged.kept[n].level ELSE "squid")
    BY <1>1, <2>1, <2>2 DEF Facts
  <2>5. \A o : Placement(params, n, o) = l
    BY <1>4 DEF Placement
  <2>6. l \in Level
    BY DEF Level
  <2>7. n \in DOMAIN t.published /\ t.published[n].level = l /\ t.published[n].wire = n
    BY <1>3, <2>3, <2>4, <2>5
  <2>8. n \in Split(t, {n})[l]
    BY <2>6, <2>7, SplitOfOne
  <2>9. QED
    BY <1>7, <2>7, <2>8
<1>8. CASE ~Known(l, n)
  <2>1. \A k \in {"squid", "function"} : n \in params[k] => k = l
    <3>1. {"squid", "function"} \subseteq Level
      BY DEF Level
    <3>2. QED
      BY <1>4, <3>1 DEF LevelsAt
  <2>2. n \notin DOMAIN merged.kept \cup Specified(params)
    BY <1>6, <1>8, <2>1 DEF Specified
  <2>3. ASSUME NEW p \in DOMAIN pub PROVE pub[p].wire # n
    <3>1. CASE p \in DOMAIN PublishPlain(merged, params)
      BY <1>1, <2>2, <3>1 DEF Facts
    <3>2. CASE p \notin DOMAIN PublishPlain(merged, params)
      <4>1. PICK m \in DOMAIN merged.shadowed : pub[p] = Shadow(merged, params, m)
        BY <1>1, <3>2 DEF Facts
      <4>2. pub[p].wire = m
        BY <4>1 DEF Shadow
      <4>3. QED
        BY <1>6, <2>2, <4>2
    <3>3. QED
      BY <3>1, <3>2
  <2>4. QED
    BY <1>3, <1>8, <2>3
<1>9. QED
  BY <1>7, <1>8

\* BothReachable: one is kept, the other has an alias at the other level.
LEMMA BothAreReached ==
    ASSUME NEW items \in Seq(Item), NEW params \in Params
    PROVE  BothReachable(items, params)
<1>1. PICK merged, pub : Facts(items, params, merged, pub)
  BY PublishedFacts
<1>2. PICK t : t = Translate(items, params)
  OBVIOUS
<1>3. t.published = pub
  BY <1>1, <1>2 DEF Facts
<1>4. SUFFICES ASSUME NEW i \in DOMAIN items, NEW j \in DOMAIN items,
                      items[i].name = items[j].name,
                      items[i].level = "task", items[j].level = "squid",
                      LevelsAt(params, items[i].name) \in {{}, {"task", "squid"}},
                      NEW l \in {"task", "squid"}
               PROVE  \E p \in DOMAIN t.published : items[i].name \in Split(t, {p})[l]
  BY <1>2 DEF BothReachable
<1>5. PICK n : n = items[i].name
  OBVIOUS
<1>6. IsMerge(merged, items, Len(items)) /\ DOMAIN items = 1..Len(items)
  BY <1>1 DEF Facts
<1>7. n \in DOMAIN merged.shadowed
  BY <1>4, <1>5, <1>6 DEF IsMerge, ShadowedOther
<1>8. n \in DOMAIN merged.kept
  BY <1>6, <1>7, ShadowsAreItems
<1>9. PICK a, b \in DOMAIN items :
        /\ merged.shadowed[n] = items[a] /\ merged.kept[n] = items[b]
        /\ items[a] \in Item /\ items[b] \in Item
        /\ items[a].name = n /\ items[b].name = n /\ items[a].level # items[b].level
  BY <1>6, <1>7, ShadowsAreItems
<1>10. /\ items[a].level \in {"task", "squid"} /\ items[b].level \in {"task", "squid"}
       /\ l \in Level
  BY <1>9 DEF Item, Level
<1>11. CASE l = items[b].level
  <2>1. n \in DOMAIN pub /\ pub[n].wire = n /\ pub[n].level = l
    BY <1>1, <1>7, <1>8, <1>9, <1>11 DEF Facts
  <2>2. QED
    BY <1>3, <1>5, <1>10, <2>1, SplitOfOne
<1>12. CASE l # items[b].level
  <2>1. l = items[a].level
    BY <1>9, <1>10, <1>12
  <2>2. ShadowedLevel(params, items[a], items[b]) = l
    <3>1. CASE LevelsAt(params, n) = {}
      BY <1>9, <2>1, <3>1, LevelForShadowed
    <3>2. CASE LevelsAt(params, n) = {"task", "squid"}
      <4>1. LevelsAt(params, items[a].name) \ {items[b].level} = {l}
        BY <1>9, <1>10, <1>12, <3>2
      <4>2. QED
        BY <1>9, <1>10, <4>1, LevelForShadowed
    <3>3. QED
      BY <1>4, <1>5, <3>1, <3>2
  <2>3. PICK p \in DOMAIN pub : pub[p] = Shadow(merged, params, n)
    BY <1>1, <1>7 DEF Facts
  <2>4. pub[p].wire = n /\ pub[p].level = l
    BY <1>9, <2>2, <2>3 DEF Shadow
  <2>5. QED
    BY <1>3, <1>5, <1>10, <2>3, <2>4, SplitOfOne
<1>13. QED
  BY <1>11, <1>12

-----------------------------------------------------------------------------
(* Accounts.                                                               *)

\* PickIsForced: the accounts that are listed are all of the type, and the candidates
\* are those that will do.
LEMMA PicksAreForced ==
    ASSUME NEW accounts \in Seq(Account), NEW t \in Types
    PROVE  PickIsForced(accounts, t)
<1> DEFINE through  == {i \in DOMAIN accounts : accounts[i].type = t /\ accounts[i].live}
           good     == {a \in Range(accounts) :
                          a.type = t /\ a.live /\ ~a.expired /\ a.lock # "future"}
           pick     == Pick(accounts, t)
           unlocked == Unlocked(accounts, t)
           locked   == LockedOnes(accounts, t)
<1> SUFFICES ASSUME Cardinality(through) <= PageCap
             PROVE  /\ pick.code = "picked" <=> Cardinality(good) = 1
                    /\ pick.code = "picked" =>
                         /\ pick.ids = {a.id : a \in good}
                         /\ \A a \in good : Healthy(a)
                    /\ pick.code = "account_locked" => good = {}
                    /\ \A id \in pick.ids : Resolve(accounts, id, t) = "resolved"
                    /\ pick.code = "no_account_available" =>
                         \A a \in Range(accounts) : ~(a.type = t /\ a.live /\ ~a.expired)
  BY DEF PickIsForced, Filtered
<1>1. /\ DOMAIN accounts = 1..Len(accounts) /\ Len(accounts) \in Nat
      /\ Range(accounts) = {accounts[i] : i \in DOMAIN accounts}
  BY DEF Range
<1>2. IsFiniteSet(through)
  <2>1. IsFiniteSet(1..Len(accounts))
    BY <1>1, FS_Interval
  <2>2. QED
    BY <1>1, <2>1, FS_Subset
<1>3. Listed(accounts, t) = {a \in Range(accounts) : a.type = t /\ a.live}
  <2>1. ASSUME NEW j \in through PROVE Cardinality({k \in through : k <= j}) <= PageCap
    <3>1. Cardinality({k \in through : k <= j}) <= Cardinality(through)
      BY <1>2, FS_Subset
    <3>2. IsFiniteSet({k \in through : k <= j})
      BY <1>2, FS_Subset
    <3> HIDE DEF through
    <3>3. Cardinality({k \in through : k <= j}) \in Nat /\ Cardinality(through) \in Nat
      BY <1>2, <3>2, FS_CardinalityType
    <3>4. QED
      BY <3>1, <3>3, PageAssumption
  <2>2. {j \in through : Cardinality({k \in through : k <= j}) <= PageCap} = through
    BY <2>1
  <2>3. Listed(accounts, t) =
          {accounts[i] : i \in {j \in through : Cardinality({k \in through : k <= j}) <= PageCap}}
    BY DEF Listed, Filtered
  <2>4. Listed(accounts, t) = {accounts[i] : i \in through}
    BY <2>2, <2>3
  <2>5. QED
    BY <1>1, <2>4
<1>4. unlocked = good
  BY <1>3 DEF Unlocked, TypeStatusOk, Locked
<1>5. locked = {a \in Range(accounts) : /\ a.type = t /\ a.live /\ ~a.expired /\ a.lock = "future"}
  BY <1>3 DEF LockedOnes, TypeStatusOk, Locked
<1>6. pick = IF Cardinality(good) = 1 THEN [code |-> "picked", ids |-> {a.id : a \in good}]
             ELSE IF good # {}
             THEN [code |-> "multiple_accounts_available", ids |-> {a.id : a \in good}]
             ELSE IF locked # {} THEN [code |-> "account_locked", ids |-> {a.id : a \in locked}]
             ELSE [code |-> "no_account_available", ids |-> {}]
  BY <1>4 DEF Pick, NoPick
<1>7. \A a \in good : Healthy(a)
  BY DEF Healthy, Locked
<1>8. ASSUME NEW a \in good \cup locked
      PROVE  Resolve(accounts, a.id, t) = "resolved"
  <2>1. a \in Range(accounts) /\ a.type = t
    BY <1>5
  <2>2. QED
    BY <2>1 DEF Resolve, Range
<1>9. Cardinality({}) = 0
  BY FS_EmptySet
<1>10. \A a \in Range(accounts) : a.type = t /\ a.live /\ ~a.expired => a \in good \cup locked
  BY <1>5
<1>11. \A id \in pick.ids : \E a \in good \cup locked : id = a.id
  BY <1>6
<1> HIDE DEF through, good, pick, unlocked, locked
<1>12. \A id \in pick.ids : Resolve(accounts, id, t) = "resolved"
  BY <1>8, <1>11
<1>13. pick.code = "picked" <=> Cardinality(good) = 1
  BY <1>6
<1>14. pick.code = "picked" => pick.ids = {a.id : a \in good}
  BY <1>6
<1>15. pick.code = "account_locked" => good = {}
  BY <1>6
<1>16. pick.code = "no_account_available" => good = {} /\ locked = {}
  BY <1>6
<1>17. QED
  BY <1>7, <1>10, <1>12, <1>13, <1>14, <1>15, <1>16

-----------------------------------------------------------------------------
(* Crawlers.                                                               *)

\* What Min is of a set of numbers.
LEMMA MinOf ==
    ASSUME NEW S \in SUBSET Nat, S # {}
    PROVE  Min(S) \in S /\ \A k \in S : Min(S) <= k
<1>1. PICK m \in S : \A k \in S : ~(k < m)
  BY Least
<1>2. \A k \in S : m <= k
  BY <1>1
<1>3. \E x \in S : \A y \in S : x <= y
  BY <1>2
<1>4. QED
  BY <1>3, Zenon DEF Min

\* KnownWordsLead: without a strict match, a crawler with one of the words is similar.
LEMMA WordsLead ==
    ASSUME NEW catalog \in Seq(Entry), NEW query \in SUBSET Words
    PROVE  KnownWordsLead(catalog, query)
<1> DEFINE hits == {i \in DOMAIN catalog : Matches(catalog[i], query)}
<1>1. CASE hits = {}
  <2>1. Search(catalog, query).similar = Similar(catalog, query)
    BY <1>1 DEF Search
  <2>2. QED
    BY <2>1 DEF KnownWordsLead, Similar
<1>2. CASE hits # {}
  <2>1. hits \in SUBSET Nat
    OBVIOUS
  <2>2. Search(catalog, query).results = FirstOf(hits, SearchCap)
    BY DEF Search
  <2> HIDE DEF hits
  <2>3. PICK m \in hits : \A k \in hits : m <= k
    BY <1>2, <2>1, MinOf
  <2>4. m \in Nat /\ \A k \in hits : k \in Nat
    BY <2>1
  <2>5. {j \in hits : j <= m} = {m}
    <3>1. \A j \in hits : j <= m => j = m
      BY <2>3, <2>4
    <3>2. m <= m
      BY <2>4
    <3>3. QED
      BY <2>3, <3>1, <3>2
  <2>6. Cardinality({m}) = 1
    BY FS_Singleton
  <2>7. 1 <= SearchCap
    BY ListAssumption
  <2>8. m \in FirstOf(hits, SearchCap)
    BY <2>3, <2>5, <2>6, <2>7 DEF FirstOf
  <2>9. QED
    BY <2>2, <2>8 DEF KnownWordsLead
<1>3. QED
  BY <1>1, <1>2

\* NameIsNotGuessed, case by case of resolve_crawler_id.
LEMMA NamesAreNotGuessed ==
    ASSUME NEW catalog \in Seq(Entry), NEW name \in Seq(Words), NEW scraper
    PROVE  NameIsNotGuessed(catalog, name, scraper)
<1> DEFINE exact  == {i \in DOMAIN catalog : catalog[i].slug = name}
           short  == {i \in DOMAIN catalog : catalog[i].slug = Append(name, scraper)}
           longer == {i \in DOMAIN catalog : /\ Len(catalog[i].slug) > Len(name)
                                             /\ IsPrefix(name, catalog[i].slug)}
           only   == Prefixed(catalog, name)
           id     == ResolveCrawler(catalog, name, scraper)
<1>1. /\ exact # {} => id = FirstId(catalog, exact)
      /\ exact = {} /\ short # {} => id = FirstId(catalog, short)
      /\ exact = {} /\ short = {} /\ only # {} => id = FirstId(catalog, only)
      /\ exact = {} /\ short = {} /\ only = {} => id = name
  BY DEF ResolveCrawler
<1>2. only = IF Cardinality(longer) = 1 THEN longer ELSE {}
  BY DEF Prefixed
<1>3. DOMAIN catalog = 1..Len(catalog) /\ Len(catalog) \in Nat
  OBVIOUS
<1>4. /\ DOMAIN catalog \in SUBSET Nat
      /\ exact \in SUBSET DOMAIN catalog /\ short \in SUBSET DOMAIN catalog
      /\ longer \in SUBSET DOMAIN catalog
  BY <1>3
<1>5. only \in SUBSET DOMAIN catalog
  BY <1>2, <1>4
<1>6. ASSUME NEW places \in SUBSET DOMAIN catalog, places # {}
      PROVE  \E i \in places : FirstId(catalog, places) = <<catalog[i].id>>
  BY <1>4, <1>6, MinOf DEF FirstId
<1>7. SUFFICES
        /\ exact # {} => \E i \in exact : id = <<catalog[i].id>>
        /\ id # name =>
             \E i \in DOMAIN catalog :
               /\ id = <<catalog[i].id>>
               /\ \/ catalog[i].slug \in {name, Append(name, scraper)}
                  \/ /\ IsPrefix(name, catalog[i].slug)
                     /\ \A j \in DOMAIN catalog \ {i} : ~IsPrefix(name, catalog[j].slug)
  BY DEF NameIsNotGuessed
<1> HIDE DEF only, id
<1>8. CASE exact # {}
  BY <1>1, <1>4, <1>6, <1>8
<1>9. CASE exact = {} /\ short # {}
  <2>1. PICK i \in short : id = <<catalog[i].id>>
    BY <1>1, <1>4, <1>6, <1>9
  <2>2. QED
    BY <1>9, <2>1
<1>10. CASE exact = {} /\ short = {} /\ only # {}
  <2>1. only = longer /\ Cardinality(longer) = 1
    BY <1>2, <1>10
  <2>2. IsFiniteSet(longer)
    <3>1. IsFiniteSet(1..Len(catalog))
      BY <1>3, FS_Interval
    <3>2. QED
      BY <1>3, <1>4, <3>1, FS_Subset
  <2>3. PICK i : longer = {i}
    <3> HIDE DEF longer
    <3>1. QED
      BY <2>1, <2>2, FS_Singleton
  <2>4. i \in DOMAIN catalog /\ IsPrefix(name, catalog[i].slug)
    BY <2>3
  <2>5. id = <<catalog[i].id>>
    BY <1>1, <1>5, <1>6, <1>10, <2>1, <2>3
  <2>6. ASSUME NEW j \in DOMAIN catalog \ {i}, IsPrefix(name, catalog[j].slug) PROVE FALSE
    <3>1. j \notin longer
      BY <2>3
    <3>2. catalog[j].slug \in Seq(Words)
      <4>1. catalog[j] \in Entry
        OBVIOUS
      <4>2. QED
        BY <4>1 DEF Entry
    <3>3. Len(name) \in Nat /\ Len(catalog[j].slug) \in Nat
      BY <3>2
    <3>4. /\ Len(name) <= Len(catalog[j].slug)
          /\ SubSeq(name, 1, Len(name)) = SubSeq(catalog[j].slug, 1, Len(name))
      BY <2>6 DEF IsPrefix
    <3>5. Len(catalog[j].slug) = Len(name)
      BY <2>6, <3>1, <3>3, <3>4
    <3>6. SubSeq(name, 1, Len(name)) = name
      BY SubSeqFull
    <3>7. SubSeq(catalog[j].slug, 1, Len(catalog[j].slug)) = catalog[j].slug
      BY <3>2, SubSeqFull
    <3>8. catalog[j].slug = name
      BY <3>4, <3>5, <3>6, <3>7
    <3>9. QED
      BY <1>10, <3>8
  <2>7. QED
    BY <1>10, <2>4, <2>5, <2>6
<1>11. CASE exact = {} /\ short = {} /\ only = {}
  BY <1>1, <1>11
<1>12. QED
  BY <1>8, <1>9, <1>10, <1>11

-----------------------------------------------------------------------------
(* Pages.                                                                  *)

\* The equation of FlattenSeq.
FlatStep(pages, f) ==
    [i \in 1..Len(pages) |-> IF i = 1 THEN pages[i] ELSE f[i - 1] \o pages[i]]

\* Slices that begin where the one before ends are the whole.
LEMMA SlicesMakeAll ==
    ASSUME NEW S, NEW s \in Seq(S), NEW n \in Nat \ {0}, NEW e \in [0..n -> 0..Len(s)],
           e[0] = 0, e[n] = Len(s), \A k \in 1..n : e[k - 1] <= e[k]
    PROVE  FlattenSeq([k \in 1..n |-> SubSeq(s, e[k - 1] + 1, e[k])]) = s
<1> DEFINE Slices == [k \in 1..n |-> SubSeq(s, e[k - 1] + 1, e[k])]
<1>1. Len(s) \in Nat
  OBVIOUS
<1>2. ASSUME NEW k \in 1..n
      PROVE  /\ k - 1 \in 0..n /\ k \in 0..n
             /\ e[k - 1] \in 0..Len(s) /\ e[k] \in 0..Len(s) /\ e[k - 1] <= e[k]
  <2>1. k - 1 \in 0..n /\ k \in 0..n
    OBVIOUS
  <2>2. QED
    BY <2>1
<1>3. ASSUME NEW a \in 0..Len(s), NEW b \in 0..Len(s), a <= b
      PROVE  /\ SubSeq(s, a + 1, b) \in Seq(S)
             /\ SubSeq(s, 1, a) \o SubSeq(s, a + 1, b) = SubSeq(s, 1, b)
  <2>1. 1 \in 1..(Len(s) + 1) /\ a \in 1 - 1..Len(s) /\ b \in a..Len(s)
    BY <1>1, <1>3
  <2>2. \A i \in (a + 1)..b : s[i] \in S
    BY <1>1
  <2>3. a + 1 \in Int /\ b \in Int
    OBVIOUS
  <2>4. SubSeq(s, a + 1, b) \in Seq(S)
    BY <2>2, <2>3, SubSeqProperties
  <2>5. SubSeq(s, 1, a) \o SubSeq(s, a + 1, b) = SubSeq(s, 1, b)
    BY <2>1, ConcatAdjacentSubSeq
  <2>6. QED
    BY <2>4, <2>5
<1>4. PICK pages : pages = Slices
  OBVIOUS
<1>5. pages \in Seq(Seq(S)) /\ Len(pages) = n /\ DOMAIN pages = 1..n
  <2>1. \A k \in 1..n : Slices[k] \in Seq(S)
    BY <1>2, <1>3
  <2>2. pages \in [1..n -> Seq(S)]
    BY <1>4, <2>1
  <2>3. QED
    BY <2>2
<1>6. \A k \in 1..n : pages[k] = SubSeq(s, e[k - 1] + 1, e[k])
  BY <1>4
<1> DEFINE f == CHOOSE f : f = FlatStep(pages, f)
<1>7. FlattenSeq(pages) = f[n]
  <2>1. Len(pages) # 0
    BY <1>5
  <2>2. QED
    BY <1>5, <2>1 DEF FlattenSeq, FlatStep
<1>8. f = FlatStep(pages, f)
  <2> DEFINE g == [k \in 1..n |-> SubSeq(s, 1, e[k])]
  <2>1. ASSUME NEW k \in 1..n
        PROVE  g[k] = IF k = 1 THEN pages[k] ELSE g[k - 1] \o pages[k]
    <3>1. CASE k = 1
      <4>1. e[k - 1] + 1 = 1
        BY <3>1
      <4>2. QED
        BY <1>6, <3>1, <4>1
    <3>2. CASE k # 1
      <4>1. k - 1 \in 1..n /\ g[k - 1] = SubSeq(s, 1, e[k - 1])
        BY <3>2
      <4>2. SubSeq(s, 1, e[k - 1]) \o SubSeq(s, e[k - 1] + 1, e[k]) = SubSeq(s, 1, e[k])
        BY <1>2, <1>3
      <4>3. QED
        BY <1>6, <3>2, <4>1, <4>2
    <3>3. QED
      BY <3>1, <3>2
  <2>2. g = FlatStep(pages, g)
    <3>1. g = [k \in 1..n |-> g[k]]
      OBVIOUS
    <3> HIDE DEF g
    <3>2. QED
      BY <1>5, <2>1, <3>1 DEF FlatStep
  <2>3. \E h : h = FlatStep(pages, h)
    <3> HIDE DEF g
    <3>1. QED
      BY <2>2
  <2>4. QED
    BY <2>3
<1> HIDE DEF f
<1>9. \A k \in 1..n : f[k] = IF k = 1 THEN pages[k] ELSE f[k - 1] \o pages[k]
  BY <1>5, <1>8 DEF FlatStep
<1> DEFINE Good == {k \in Nat : k + 1 \in 1..n => f[k + 1] = SubSeq(s, 1, e[k + 1])}
<1>10. 0 \in Good
  <2>1. 1 \in 1..n
    OBVIOUS
  <2>2. f[1] = pages[1]
    BY <1>9, <2>1
  <2>3. pages[1] = SubSeq(s, e[1 - 1] + 1, e[1])
    BY <1>6, <2>1
  <2>4. e[1 - 1] + 1 = 1
    OBVIOUS
  <2>5. f[1] = SubSeq(s, 1, e[1])
    BY <2>2, <2>3, <2>4
  <2>6. 0 + 1 = 1
    OBVIOUS
  <2>7. QED
    BY <2>5, <2>6
<1>11. ASSUME NEW k \in Nat, k \in Good PROVE k + 1 \in Good
  <2> SUFFICES ASSUME (k + 1) + 1 \in 1..n PROVE f[(k + 1) + 1] = SubSeq(s, 1, e[(k + 1) + 1])
    OBVIOUS
  <2>1. k + 1 \in 1..n /\ (k + 1) + 1 # 1 /\ ((k + 1) + 1) - 1 = k + 1
    OBVIOUS
  <2>2. f[(k + 1) + 1] = f[k + 1] \o pages[(k + 1) + 1]
    BY <1>9, <2>1
  <2>3. f[k + 1] = SubSeq(s, 1, e[k + 1])
    BY <1>11, <2>1
  <2>4. pages[(k + 1) + 1] = SubSeq(s, e[k + 1] + 1, e[(k + 1) + 1])
    BY <1>6, <2>1
  <2>5. e[k + 1] \in 0..Len(s) /\ e[(k + 1) + 1] \in 0..Len(s) /\ e[k + 1] <= e[(k + 1) + 1]
    BY <1>2, <2>1
  <2>6. QED
    BY <1>3, <2>2, <2>3, <2>4, <2>5
<1>12. n - 1 \in Good
  <2> HIDE DEF Good
  <2>1. Nat \subseteq Good
    BY <1>10, <1>11, Induct
  <2>2. n - 1 \in Nat
    OBVIOUS
  <2>3. QED
    BY <2>1, <2>2
<1>13. f[n] = SubSeq(s, 1, e[n])
  <2>1. (n - 1) + 1 = n /\ n \in 1..n
    OBVIOUS
  <2>2. QED
    BY <1>12, <2>1
<1>14. QED
  BY <1>4, <1>7, <1>13, SubSeqFull

\* Division, as the page count and the success ratios use it.
LEMMA Division ==
    ASSUME NEW a \in Nat, NEW d \in Nat \ {0}
    PROVE  /\ a \div d \in Nat
           /\ (a \div d) * d <= a
           /\ a < (a \div d) * d + d
OBVIOUS

\* Multiplication is monotone.
LEMMA Products ==
    ASSUME NEW a \in Nat, NEW b \in Nat, NEW c \in Nat, a <= b
    PROVE  a * c \in Nat /\ b * c \in Nat /\ a * c <= b * c
<1>1. PICK k \in Nat : b = a + k
  <2>1. b - a \in Nat /\ b = a + (b - a)
    OBVIOUS
  <2>2. QED
    BY <2>1
<1>2. (a + k) * c = a * c + k * c
  OBVIOUS
<1>3. a * c \in Nat /\ k * c \in Nat
  OBVIOUS
<1>4. QED
  BY <1>1, <1>2, <1>3

\* As many pages as list_my_scrapers counts reach the end, and no page begins past it.
LEMMA PageBounds ==
    ASSUME NEW total \in Nat, NEW size \in Nat \ {0}
    PROVE  /\ TotalPages(total, size) \in 1..(total + 1)
           /\ TotalPages(total, size) * size >= total
           /\ \A k \in 1..TotalPages(total, size) : (k - 1) * size <= total
<1> DEFINE q == (total + size - 1) \div size
           P == TotalPages(total, size)
<1>1. /\ q \in Nat
      /\ q * size <= total + size - 1
      /\ total + size - 1 < q * size + size
  <2>1. total + size - 1 \in Nat
    OBVIOUS
  <2>2. QED
    BY <2>1, Division
<1>2. P = IF q < 1 THEN 1 ELSE q
  BY DEF TotalPages, Quotient
<1> HIDE DEF q, P
<1>3. q * size \in Nat
  BY <1>1
<1>4. q * size >= total
  BY <1>1, <1>3
<1>5. q <= total + 1
  <2> SUFFICES ASSUME total + 1 < q PROVE FALSE
    BY <1>1
  <2>1. (total + 1) * size <= q * size /\ (total + 1) * size \in Nat
    BY <1>1, Products
  <2>2. (total + 1) * size = total * size + size
    OBVIOUS
  <2>3. 1 * total <= size * total
    BY Products
  <2>4. 1 * total = total /\ size * total = total * size
    OBVIOUS
  <2>5. QED
    BY <1>1, <1>3, <2>1, <2>2, <2>3, <2>4
<1>6. P \in 1..(total + 1)
  BY <1>1, <1>2, <1>5
<1>7. P * size >= total
  <2>1. CASE q < 1
    <3>1. q = 0 /\ P = 1
      BY <1>1, <1>2, <2>1
    <3>2. q * size = 0
      BY <3>1
    <3>3. QED
      BY <1>4, <3>1, <3>2
  <2>2. CASE ~(q < 1)
    BY <1>2, <1>4, <2>2
  <2>3. QED
    BY <2>1, <2>2
<1>8. ASSUME NEW k \in 1..P PROVE (k - 1) * size <= total
  <2>1. CASE k = 1
    <3>1. (k - 1) * size = 0
      BY <2>1
    <3>2. QED
      BY <3>1
  <2>2. CASE k # 1
    <3>1. k <= q
      BY <1>1, <1>2, <1>6, <2>2
    <3>2. k * size <= q * size
      BY <1>1, <1>6, <3>1, Products
    <3>3. k * size = (k - 1) * size + size /\ (k - 1) * size \in Int
      OBVIOUS
    <3>4. QED
      BY <1>1, <1>3, <3>2, <3>3
  <2>3. QED
    BY <2>1, <2>2
<1>9. QED
  BY <1>6, <1>7, <1>8 DEF P

\* Where the pages end.
Ends(all, size, n) == [k \in 0..n |-> IF k * size > Len(all) THEN Len(all) ELSE k * size]

\* Each page ends at or after the one before it, and the last at the end.
LEMMA EndsAscend ==
    ASSUME NEW all \in Seq(Nat), NEW size \in Nat \ {0}, NEW n \in Nat \ {0}, n * size >= Len(all)
    PROVE  /\ Ends(all, size, n) \in [0..n -> 0..Len(all)]
           /\ Ends(all, size, n)[0] = 0 /\ Ends(all, size, n)[n] = Len(all)
           /\ \A k \in 1..n : /\ k - 1 \in 0..n /\ k \in 0..n
                              /\ (k - 1) * size \in Nat /\ k * size = (k - 1) * size + size
                              /\ Ends(all, size, n)[k - 1] <= Ends(all, size, n)[k]
<1> DEFINE e == Ends(all, size, n)
<1>1. Len(all) \in Nat
  OBVIOUS
<1>2. \A k \in 0..n : k * size \in Nat
  BY Products
<1>3. \A k \in 0..n : e[k] = IF k * size > Len(all) THEN Len(all) ELSE k * size
  BY DEF Ends
<1>4. e \in [0..n -> 0..Len(all)]
  <2>1. e = [k \in 0..n |-> e[k]]
    BY DEF Ends
  <2> HIDE DEF e
  <2>2. \A k \in 0..n : e[k] \in 0..Len(all)
    BY <1>1, <1>2, <1>3
  <2>3. QED
    BY <2>1, <2>2
<1> HIDE DEF e
<1>5. e[0] = 0
  <2>1. 0 \in 0..n /\ 0 * size = 0
    OBVIOUS
  <2>2. QED
    BY <1>1, <1>3, <2>1
<1>6. e[n] = Len(all)
  BY <1>1, <1>2, <1>3
<1>7. ASSUME NEW k \in 1..n
      PROVE  /\ k - 1 \in 0..n /\ k \in 0..n
             /\ (k - 1) * size \in Nat /\ k * size = (k - 1) * size + size
             /\ e[k - 1] <= e[k]
  <2>1. k - 1 \in 0..n /\ k \in 0..n
    OBVIOUS
  <2>2. k * size = (k - 1) * size + size
    OBVIOUS
  <2>3. (k - 1) * size \in Nat
    BY <1>2, <2>1
  <2>4. QED
    BY <1>1, <1>3, <2>1, <2>2, <2>3
<1>8. QED
  BY <1>4, <1>5, <1>6, <1>7 DEF e

\* A slice between two indices that are not negative.
LEMMA SliceOf ==
    ASSUME NEW s \in Seq(Nat), NEW a \in Nat, NEW b \in Nat
    PROVE  Slice(s, a, b) = SubSeq(s, (IF a > Len(s) THEN Len(s) ELSE a) + 1,
                                   IF b > Len(s) THEN Len(s) ELSE b)
<1> DEFINE At(i) == IF i < 0 THEN (IF Len(s) + i < 0 THEN 0 ELSE Len(s) + i)
                    ELSE IF i > Len(s) THEN Len(s) ELSE i
<1>1. Slice(s, a, b) = SubSeq(s, At(a) + 1, At(b))
  BY DEF Slice
<1>2. \A i \in Nat : At(i) = IF i > Len(s) THEN Len(s) ELSE i
  OBVIOUS
<1> HIDE DEF At
<1>3. QED
  BY <1>1, <1>2

\* The pages of what matched, from the first to the one without a next, make it up.
LEMMA PagedSeesAll ==
    ASSUME NEW all \in Seq(Nat), NEW size \in Nat \ {0}
    PROVE  \E last \in 1..(Len(all) + 1) :
             /\ \A j \in 1..(last - 1) : Paged(all, j, size).next = j + 1
             /\ Paged(all, last, size).next = 0
             /\ FlattenSeq([k \in 1..last |-> Paged(all, k, size).rows]) = all
<1> DEFINE P    == TotalPages(Len(all), size)
           e    == Ends(all, size, P)
<1>1. /\ Len(all) \in Nat /\ P \in 1..(Len(all) + 1) /\ P * size >= Len(all)
      /\ \A k \in 1..P : (k - 1) * size <= Len(all)
  <2>1. PICK N \in Nat : N = Len(all)
    OBVIOUS
  <2> HIDE DEF P
  <2>2. P = TotalPages(N, size)
    BY <2>1 DEF P
  <2>3. QED
    BY <2>1, <2>2, PageBounds
<1>2. \A k : Paged(all, k, size).next = IF k < P THEN k + 1 ELSE 0
  BY DEF Paged
<1>3. ASSUME NEW k \in 1..P
      PROVE  Paged(all, k, size).rows = SubSeq(all, e[k - 1] + 1, e[k])
  <2>1. /\ k - 1 \in 0..P /\ k \in 0..P
        /\ (k - 1) * size \in Nat /\ k * size = (k - 1) * size + size
    <3> HIDE DEF P, e
    <3>1. P \in Nat \ {0}
      BY <1>1
    <3>2. QED
      BY <1>1, <3>1, EndsAscend
  <2>2. /\ e[k - 1] = IF (k - 1) * size > Len(all) THEN Len(all) ELSE (k - 1) * size
        /\ e[k] = IF k * size > Len(all) THEN Len(all) ELSE k * size
    BY <2>1 DEF Ends
  <2>3. Paged(all, k, size).rows = Slice(all, (k - 1) * size, (k - 1) * size + size)
    BY DEF Paged
  <2> HIDE DEF e, P
  <2>4. PICK a \in Nat : a = (k - 1) * size
    BY <2>1
  <2>5. Slice(all, a, a + size) = SubSeq(all, (IF a > Len(all) THEN Len(all) ELSE a) + 1,
                                         IF a + size > Len(all) THEN Len(all) ELSE a + size)
    <3>1. a + size \in Nat
      OBVIOUS
    <3>2. QED
      BY <3>1, SliceOf
  <2>6. QED
    BY <2>1, <2>2, <2>3, <2>4, <2>5
<1> HIDE DEF P
<1>4. /\ Paged(all, P, size).next = 0
      /\ \A j \in 1..(P - 1) : Paged(all, j, size).next = j + 1
  BY <1>1, <1>2
<1>5. FlattenSeq([k \in 1..P |-> SubSeq(all, e[k - 1] + 1, e[k])]) = all
  <2>1. P \in Nat \ {0}
    BY <1>1
  <2>2. /\ e \in [0..P -> 0..Len(all)] /\ e[0] = 0 /\ e[P] = Len(all)
        /\ \A k \in 1..P : e[k - 1] <= e[k]
    BY <1>1, <2>1, EndsAscend
  <2> HIDE DEF e
  <2>3. QED
    BY <2>1, <2>2, SlicesMakeAll
<1>6. [k \in 1..P |-> Paged(all, k, size).rows]
        = [k \in 1..P |-> SubSeq(all, e[k - 1] + 1, e[k])]
  <2> HIDE DEF e
  <2>1. QED
    BY <1>3
<1>7. FlattenSeq([k \in 1..P |-> Paged(all, k, size).rows]) = all
  <2> HIDE DEF e
  <2>1. QED
    BY <1>5, <1>6
<1>8. QED
  BY <1>1, <1>4, <1>7

\* What list_squids comes upon is the beginning of the squids that match.
LEMMA WalkedSquids ==
    ASSUME NEW squids \in Seq(Nat)
    PROVE  ListSquids(squids) \in Seq(Nat)
<1> DEFINE found == {i \in DOMAIN squids : squids[i] <= WalkMax}
<1>1. IsFiniteSet(DOMAIN squids) /\ Cardinality(DOMAIN squids) = Len(squids)
  <2>1. DOMAIN squids = 1..Len(squids) /\ Len(squids) \in Nat
    OBVIOUS
  <2>2. PICK n \in Nat : n = Len(squids)
    BY <2>1
  <2>3. IsFiniteSet(1..n) /\ Cardinality(1..n) = IF 1 > n THEN 0 ELSE n - 1 + 1
    <3>1. 1 \in Int /\ n \in Int
      OBVIOUS
    <3>2. QED
      BY <3>1, FS_Interval
  <2>4. QED
    BY <2>1, <2>2, <2>3
<1>2. Cardinality(found) \in Nat /\ Cardinality(found) <= Len(squids)
  <2>1. found \in SUBSET DOMAIN squids
    OBVIOUS
  <2> HIDE DEF found
  <2>2. IsFiniteSet(found) /\ Cardinality(found) <= Cardinality(DOMAIN squids)
    BY <1>1, <2>1, FS_Subset
  <2>3. QED
    BY <1>1, <2>2, FS_CardinalityType
<1>3. PICK n \in 0..Len(squids) : n = Cardinality(found)
  <2>1. Len(squids) \in Nat
    OBVIOUS
  <2> HIDE DEF found
  <2>2. QED
    BY <1>2, <2>1
<1>4. \A i \in 1..n : squids[i] \in Nat
  OBVIOUS
<1>5. SubSeq(squids, 1, n) \in Seq(Nat)
  <2>1. 1 \in Int /\ n \in Int
    OBVIOUS
  <2>2. QED
    BY <1>4, <2>1, SubSeqProperties
<1>6. QED
  BY <1>3, <1>5 DEF ListSquids

\* A list that is one page.
LEMMA OnePage ==
    ASSUME NEW s \in Seq(Nat)
    PROVE  FlattenSeq([k \in 1..1 |-> s]) = s
<1>1. PICK n \in Nat \ {0} : n = 1
  OBVIOUS
<1> DEFINE e == [k \in 0..n |-> IF k = 0 THEN 0 ELSE Len(s)]
<1>2. /\ e \in [0..n -> 0..Len(s)] /\ e[0] = 0 /\ e[n] = Len(s)
      /\ \A k \in 1..n : e[k - 1] <= e[k]
      /\ \A k \in 1..n : e[k - 1] = 0 /\ e[k] = Len(s)
  BY <1>1
<1> HIDE DEF e
<1>3. FlattenSeq([k \in 1..n |-> SubSeq(s, e[k - 1] + 1, e[k])]) = s
  BY <1>2, SlicesMakeAll
<1>4. \A k \in 1..n : SubSeq(s, e[k - 1] + 1, e[k]) = s
  <2>1. SubSeq(s, 0 + 1, Len(s)) = s
    BY SubSeqFull
  <2>2. QED
    BY <1>2, <2>1
<1>5. QED
  BY <1>1, <1>3, <1>4

\* WalkSeesEverySquid: the pages are counted up, and the last has no next.
LEMMA WalksSeeAll ==
    ASSUME NEW squids \in Seq(Nat), NEW from \in {"crawler", "envelope", "bare"},
           NEW size \in Int
    PROVE  WalkSeesEverySquid(squids, from, size)
<1> DEFINE List(k) == ListMyScrapers(squids, from, k, size)
           all     == IF from = "crawler" THEN ListSquids(squids) ELSE squids
           Shown   == \E last \in 1..(Len(all) + 1) :
                        /\ \A j \in 1..(last - 1) : List(j).next = j + 1
                        /\ List(last).next = 0
                        /\ FlattenSeq([k \in 1..last |-> List(k).rows]) = all
<1>1. from = "crawler" /\ size = 0 => List(1).failed
  BY DEF ListMyScrapers
<1>2. ASSUME size >= 1 PROVE Shown
  <2>1. size \in Nat \ {0}
    BY <1>2
  <2>2. CASE from \in {"crawler", "envelope"}
    <3>1. all \in Seq(Nat)
      BY WalkedSquids
    <3>2. \A k : List(k) = Paged(all, k, size)
      BY <2>1, <2>2 DEF ListMyScrapers, PageSquids
    <3> HIDE DEF List, all
    <3>3. PICK last \in 1..(Len(all) + 1) :
            /\ \A j \in 1..(last - 1) : Paged(all, j, size).next = j + 1
            /\ Paged(all, last, size).next = 0
            /\ FlattenSeq([k \in 1..last |-> Paged(all, k, size).rows]) = all
      BY <2>1, <3>1, PagedSeesAll
    <3>4. [k \in 1..last |-> List(k).rows] = [k \in 1..last |-> Paged(all, k, size).rows]
      BY <3>2
    <3>5. QED
      BY <3>2, <3>3, <3>4
  <2>3. CASE from = "bare"
    <3>1. all = squids /\ \A k : List(k).next = 0 /\ List(k).rows = squids
      BY <2>3 DEF ListMyScrapers
    <3> HIDE DEF List, all
    <3>2. [k \in 1..1 |-> List(k).rows] = [k \in 1..1 |-> squids]
      BY <3>1
    <3>3. FlattenSeq([k \in 1..1 |-> List(k).rows]) = all
      BY <3>1, <3>2, OnePage
    <3>4. 1 \in 1..(Len(all) + 1) /\ \A j \in 1..(1 - 1) : FALSE
      BY <3>1
    <3>5. QED
      BY <3>1, <3>3, <3>4
  <2>4. QED
    BY <2>2, <2>3
<1> HIDE DEF Shown
<1>3. (from = "crawler" /\ size = 0 => List(1).failed) /\ (size >= 1 => Shown)
  BY <1>1, <1>2
<1>4. QED
  BY <1>3 DEF WalkSeesEverySquid, Shown

\* get_results never asks for pages of nothing.
LEMMA SizeIsPositive ==
    ASSUME NEW asked \in Int, NEW full \in BOOLEAN
    PROVE  PageSize(asked, full) \in Nat \ {0}
BY ListAssumption DEF PageSize

\* PagesShowEveryRow: the cap on the rows never cuts a page the API returned.
LEMMA PagesShowAll ==
    ASSUME NEW all \in Seq(Nat), NEW asked \in Int, NEW full \in BOOLEAN
    PROVE  PagesShowEveryRow(all, asked, full)
<1>1. PICK z \in Nat \ {0} : z = PageSize(asked, full)
  BY SizeIsPositive
<1>2. PICK N \in Nat : N = Len(all)
  OBVIOUS
<1>3. PICK n \in Nat \ {0} : n = N + 1
  OBVIOUS
<1>4. n * z >= Len(all)
  <2>1. n * 1 <= n * z
    <3>1. 1 * n <= z * n
      BY Products
    <3>2. 1 * n = n * 1 /\ z * n = n * z
      OBVIOUS
    <3>3. QED
      BY <3>1, <3>2
  <2>2. n * 1 = n /\ n * z \in Nat
    BY Products
  <2>3. QED
    BY <1>2, <1>3, <2>1, <2>2
<1> DEFINE e == Ends(all, z, n)
<1>5. ASSUME NEW k \in 1..n
      PROVE  GetResults(all, k, asked, full) = SubSeq(all, e[k - 1] + 1, e[k])
  <2>1. /\ k - 1 \in 0..n /\ k \in 0..n
        /\ (k - 1) * z \in Nat /\ k * z = (k - 1) * z + z
    BY <1>4, EndsAscend
  <2>2. /\ e[k - 1] = IF (k - 1) * z > N THEN N ELSE (k - 1) * z
        /\ e[k] = IF k * z > N THEN N ELSE k * z
    BY <1>2, <2>1 DEF Ends
  <2> HIDE DEF e
  <2>3. PICK a \in Nat : a = (k - 1) * z
    BY <2>1
  <2>4. PICK b \in Nat : b = IF a + z < N THEN a + z ELSE N
    OBVIOUS
  <2>5. PICK rows : rows = SubSeq(all, a + 1, b)
    OBVIOUS
  <2>6. GetResults(all, k, asked, full) = Slice(rows, 0, z)
    BY <1>1, <1>2, <2>1, <2>3, <2>4, <2>5 DEF GetResults, ReturnedMax
  <2>7. rows \in Seq(Nat) /\ Len(rows) = IF a + 1 <= b THEN b - (a + 1) + 1 ELSE 0
    <3>1. \A i \in (a + 1)..b : all[i] \in Nat
      BY <1>2, <2>4
    <3>2. a + 1 \in Int /\ b \in Int
      OBVIOUS
    <3>3. QED
      BY <2>5, <3>1, <3>2, SubSeqProperties
  <2>8. Len(rows) \in Nat /\ Len(rows) <= z
    BY <2>4, <2>7
  <2>9. Slice(rows, 0, z) = SubSeq(rows, 1, Len(rows))
    <3>1. Slice(rows, 0, z) = SubSeq(rows, (IF 0 > Len(rows) THEN Len(rows) ELSE 0) + 1,
                                     IF z > Len(rows) THEN Len(rows) ELSE z)
      BY <2>7, SliceOf
    <3>2. (IF 0 > Len(rows) THEN Len(rows) ELSE 0) + 1 = 1
      BY <2>8
    <3>3. (IF z > Len(rows) THEN Len(rows) ELSE z) = Len(rows)
      BY <2>8
    <3>4. QED
      BY <3>1, <3>2, <3>3
  <2>10. Slice(rows, 0, z) = rows
    BY <2>7, <2>9, SubSeqFull
  <2>11. rows = SubSeq(all, e[k - 1] + 1, e[k])
    <3>1. CASE a <= N
      <4>1. e[k - 1] = a /\ e[k] = b
        BY <2>1, <2>2, <2>3, <2>4, <3>1
      <4>2. QED
        BY <2>5, <4>1
    <3>2. CASE a > N
      <4>1. e[k - 1] = N /\ e[k] = N /\ b = N
        BY <2>1, <2>2, <2>3, <2>4, <3>2
      <4>2. SubSeq(all, a + 1, b) = << >>
        BY <3>2, <4>1, SubSeqEmpty
      <4>3. SubSeq(all, N + 1, N) = << >>
        BY SubSeqEmpty
      <4>4. QED
        BY <2>5, <4>1, <4>2, <4>3
    <3>3. QED
      BY <3>1, <3>2
  <2>12. QED
    BY <2>6, <2>10, <2>11
<1>6. FlattenSeq([k \in 1..n |-> SubSeq(all, e[k - 1] + 1, e[k])]) = all
  <2>1. /\ e \in [0..n -> 0..Len(all)] /\ e[0] = 0 /\ e[n] = Len(all)
        /\ \A k \in 1..n : e[k - 1] <= e[k]
    BY <1>4, EndsAscend
  <2> HIDE DEF e
  <2>2. QED
    BY <2>1, SlicesMakeAll
<1>7. [k \in 1..n |-> GetResults(all, k, asked, full)]
        = [k \in 1..n |-> SubSeq(all, e[k - 1] + 1, e[k])]
  <2> HIDE DEF e
  <2>1. QED
    BY <1>5
<1>8. FlattenSeq([k \in 1..n |-> GetResults(all, k, asked, full)]) = all
  BY <1>6, <1>7
<1>9. QED
  BY <1>2, <1>3, <1>8 DEF PagesShowEveryRow

-----------------------------------------------------------------------------
(* Sums over sets.                                                         *)

\* The member that a fold over a set takes next.
PickOf(T) == CHOOSE x \in T : TRUE

\* The sum of f over a set, one member at a time.
SumStep(f, h, T) == IF T = {} THEN 0 ELSE f[PickOf(T)] + h[T \ {PickOf(T)}]

OnSubsets(h, S) == h = [T \in SUBSET S |-> h[T]]

IsSum(f, h, S) == \A T \in SUBSET S : h[T] = SumStep(f, h, T)

\* A subset without one of its members.
LEMMA Smaller ==
    ASSUME NEW S, IsFiniteSet(S), NEW T \in SUBSET S
    PROVE  /\ IsFiniteSet(T) /\ Cardinality(T) \in Nat
           /\ Cardinality(T) = 0 => T = {}
           /\ \A x \in T : /\ T \ {x} \in SUBSET S
                           /\ Cardinality(T \ {x}) = Cardinality(T) - 1
                           /\ Cardinality(T) - 1 \in Nat
<1>1. IsFiniteSet(T)
  BY FS_Subset
<1>2. Cardinality(T) \in Nat /\ (Cardinality(T) = 0 => T = {})
  BY <1>1, FS_CardinalityType, FS_EmptySet
<1>3. ASSUME NEW x \in T
      PROVE  /\ T \ {x} \in SUBSET S
             /\ Cardinality(T \ {x}) = Cardinality(T) - 1
             /\ Cardinality(T) - 1 \in Nat
  <2>1. IsFiniteSet(T \ {x}) /\ Cardinality(T \ {x}) = Cardinality(T) - 1
    BY <1>1, FS_RemoveElement
  <2>2. Cardinality(T \ {x}) \in Nat
    BY <2>1, FS_CardinalityType
  <2>3. QED
    BY <2>1, <2>2
<1>4. QED
  BY <1>1, <1>2, <1>3

\* There is a function as the definition of a sum over a set asks for.
LEMMA SumExists ==
    ASSUME NEW S, IsFiniteSet(S), NEW f
    PROVE  \E h : IsSum(f, h, S) /\ OnSubsets(h, S)
<1> DEFINE Upto(h, n) == \A T \in SUBSET S : Cardinality(T) <= n => h[T] = SumStep(f, h, T)
           Good == {n \in Nat : \E h : Upto(h, n)}
<1>1. 0 \in Good
  <2> DEFINE h == [T \in SUBSET S |-> 0]
  <2>1. ASSUME NEW T \in SUBSET S, Cardinality(T) <= 0 PROVE h[T] = SumStep(f, h, T)
    <3>1. T = {}
      BY <2>1, Smaller
    <3>2. QED
      BY <3>1 DEF SumStep
  <2>2. Upto(h, 0)
    BY <2>1
  <2>3. QED
    BY <2>2
<1>2. ASSUME NEW n \in Nat, n \in Good PROVE n + 1 \in Good
  <2>1. PICK h : Upto(h, n)
    BY <1>2
  <2> DEFINE g == [T \in SUBSET S |-> SumStep(f, h, T)]
  <2>2. \A T \in SUBSET S : Cardinality(T) <= n => g[T] = h[T]
    BY <2>1
  <2>3. ASSUME NEW T \in SUBSET S, Cardinality(T) <= n + 1 PROVE g[T] = SumStep(f, g, T)
    <3>1. CASE T = {}
      BY <3>1 DEF SumStep
    <3>2. CASE T # {}
      <4>1. PickOf(T) \in T
        BY <3>2 DEF PickOf
      <4>2. PICK x \in T : x = PickOf(T)
        BY <4>1
      <4>3. T \ {x} \in SUBSET S /\ Cardinality(T \ {x}) <= n
        BY <2>3, Smaller
      <4>4. g[T \ {x}] = h[T \ {x}]
        BY <2>2, <4>3
      <4>5. g[T] = SumStep(f, h, T)
        OBVIOUS
      <4> HIDE DEF g
      <4>6. QED
        BY <3>2, <4>2, <4>4, <4>5 DEF SumStep
    <3>3. QED
      BY <3>1, <3>2
  <2>4. Upto(g, n + 1)
    BY <2>3
  <2> HIDE DEF g
  <2>5. QED
    BY <2>4
<1>3. Cardinality(S) \in Good
  <2> HIDE DEF Good
  <2>1. Nat \subseteq Good
    BY <1>1, <1>2, Induct
  <2>2. QED
    BY <2>1, Smaller
<1>4. PICK h : Upto(h, Cardinality(S))
  BY <1>3
<1> DEFINE g == [T \in SUBSET S |-> SumStep(f, h, T)]
<1>5. \A T \in SUBSET S : g[T] = h[T]
  BY <1>4, FS_Subset
<1>6. ASSUME NEW T \in SUBSET S PROVE g[T] = SumStep(f, g, T)
  <2>1. CASE T = {}
    BY <2>1 DEF SumStep
  <2>2. CASE T # {}
    <3>1. PickOf(T) \in T
      BY <2>2 DEF PickOf
    <3>2. T \ {PickOf(T)} \in SUBSET S
      BY <3>1
    <3>3. g[T \ {PickOf(T)}] = h[T \ {PickOf(T)}] /\ g[T] = SumStep(f, h, T)
      BY <1>5, <3>2
    <3> HIDE DEF g
    <3>4. QED
      BY <2>2, <3>3 DEF SumStep
  <2>3. QED
    BY <2>1, <2>2
<1>7. g = [T \in SUBSET S |-> g[T]]
  OBVIOUS
<1> HIDE DEF g
<1>8. QED
  BY <1>6, <1>7 DEF IsSum, OnSubsets

\* Any such function does not depend on which member is picked.
LEMMA SumRemove ==
    ASSUME NEW S, IsFiniteSet(S), NEW f \in [S -> Nat], NEW h, IsSum(f, h, S)
    PROVE  /\ h[{}] = 0
           /\ \A T \in SUBSET S : /\ h[T] \in Nat
                                  /\ \A x \in T : h[T] = f[x] + h[T \ {x}]
<1>1. h[{}] = 0
  BY DEF IsSum, SumStep
<1> DEFINE Fine(T) == h[T] \in Nat /\ \A x \in T : h[T] = f[x] + h[T \ {x}]
           Good == {n \in Nat : \A T \in SUBSET S : Cardinality(T) <= n => Fine(T)}
<1>2. Fine({})
  BY <1>1
<1>3. 0 \in Good
  <2>1. \A T \in SUBSET S : Cardinality(T) <= 0 => T = {}
    BY Smaller
  <2>2. QED
    BY <1>2, <2>1
<1>4. ASSUME NEW n \in Nat, n \in Good PROVE n + 1 \in Good
  <2> HIDE DEF Fine
  <2> SUFFICES ASSUME NEW T \in SUBSET S, Cardinality(T) <= n + 1, T # {} PROVE Fine(T)
    BY <1>2
  <2> USE DEF Fine
  <2>1. PICK p \in T : p = PickOf(T)
    BY DEF PickOf
  <2>2. h[T] = f[p] + h[T \ {p}]
    BY <2>1 DEF IsSum, SumStep
  <2>3. \A x \in T : T \ {x} \in SUBSET S /\ Cardinality(T \ {x}) <= n
    BY Smaller
  <2>4. \A x \in T : Fine(T \ {x})
    BY <1>4, <2>3
  <2>5. h[T] \in Nat
    BY <2>2, <2>4
  <2>6. ASSUME NEW x \in T, x # p PROVE h[T] = f[x] + h[T \ {x}]
    <3>1. x \in T \ {p} /\ p \in T \ {x} /\ (T \ {x}) \ {p} = (T \ {p}) \ {x}
      BY <2>6
    <3>2. h[T \ {p}] = f[x] + h[(T \ {p}) \ {x}] /\ h[T \ {x}] = f[p] + h[(T \ {p}) \ {x}]
      BY <2>4, <3>1
    <3>3. (T \ {p}) \ {x} \in SUBSET S /\ Cardinality((T \ {p}) \ {x}) <= n
      <4>1. T \ {p} \in SUBSET S /\ Cardinality(T \ {p}) <= n
        BY <2>3
      <4>2. PICK U \in SUBSET S : U = T \ {p}
        BY <4>1
      <4>3. /\ Cardinality(U) \in Nat /\ U \ {x} \in SUBSET S
            /\ Cardinality(U \ {x}) = Cardinality(U) - 1
        BY <3>1, <4>2, Smaller
      <4>4. Cardinality(U \ {x}) <= n
        BY <4>1, <4>2, <4>3
      <4>5. QED
        BY <4>2, <4>3, <4>4
    <3>4. h[(T \ {p}) \ {x}] \in Nat /\ f[x] \in Nat /\ f[p] \in Nat
      BY <1>4, <3>3
    <3>5. QED
      BY <2>2, <3>2, <3>4
  <2>7. QED
    BY <2>2, <2>5, <2>6
<1>5. ASSUME NEW T \in SUBSET S PROVE Fine(T)
  <2>1. Nat \subseteq Good
    <3> HIDE DEF Good
    <3>1. QED
      BY <1>3, <1>4, Induct
  <2>2. Cardinality(T) \in Nat
    BY Smaller
  <2>3. QED
    BY <2>1, <2>2
<1>6. QED
  BY <1>1, <1>5

\* Where all terms are less, so is the sum.
LEMMA SumLess ==
    ASSUME NEW S, IsFiniteSet(S), NEW P \in SUBSET S,
           NEW f \in [S -> Nat], NEW h, IsSum(f, h, S),
           NEW g \in [P -> Nat], NEW k, IsSum(g, k, P),
           \A s \in P : f[s] <= g[s], \A s \in S \ P : f[s] = 0
    PROVE  h[S] <= k[P]
<1>1. IsFiniteSet(P)
  BY FS_Subset
<1> DEFINE Good == {n \in Nat : \A T \in SUBSET S :
                                  Cardinality(T) <= n => h[T] <= k[T \cap P]}
<1>2. h[{}] = 0 /\ k[{}] = 0
  BY <1>1, SumRemove
<1>3. 0 \in Good
  <2>1. \A T \in SUBSET S : Cardinality(T) <= 0 => T = {}
    BY Smaller
  <2>2. {} \cap P = {}
    OBVIOUS
  <2>3. QED
    BY <1>2, <2>1, <2>2
<1>4. ASSUME NEW n \in Nat, n \in Good PROVE n + 1 \in Good
  <2> SUFFICES ASSUME NEW T \in SUBSET S, Cardinality(T) <= n + 1 PROVE h[T] <= k[T \cap P]
    OBVIOUS
  <2>1. CASE T = {}
    <3>1. T \cap P = {}
      BY <2>1
    <3>2. QED
      BY <1>2, <2>1, <3>1
  <2>2. CASE T # {}
    <3>1. PICK x : x \in T
      BY <2>2
    <3>2. T \ {x} \in SUBSET S /\ Cardinality(T \ {x}) <= n
      BY <3>1, Smaller
    <3>3. h[T \ {x}] <= k[(T \ {x}) \cap P]
      BY <1>4, <3>2
    <3>4. /\ h[T] = f[x] + h[T \ {x}] /\ h[T \ {x}] \in Nat /\ h[T] \in Nat
      BY <3>1, <3>2, SumRemove
    <3>5. PICK U \in SUBSET P : U = T \cap P
      OBVIOUS
    <3>6. CASE x \in P
      <4>1. (T \ {x}) \cap P = U \ {x} /\ x \in U
        BY <3>1, <3>5, <3>6
      <4>2. k[U] = g[x] + k[U \ {x}] /\ k[U \ {x}] \in Nat /\ k[U] \in Nat
        BY <1>1, <4>1, SumRemove
      <4>3. f[x] \in Nat /\ g[x] \in Nat /\ f[x] <= g[x]
        BY <3>6
      <4>4. h[T \ {x}] <= k[U \ {x}]
        BY <3>3, <4>1
      <4>5. h[T] <= k[U]
        BY <3>4, <4>2, <4>3, <4>4
      <4>6. QED
        BY <3>5, <4>5
    <3>7. CASE x \notin P
      <4>1. (T \ {x}) \cap P = U
        BY <3>5, <3>7
      <4>2. f[x] = 0
        BY <3>1, <3>7
      <4>3. h[T \ {x}] <= k[U]
        BY <3>3, <4>1
      <4>4. h[T] = h[T \ {x}]
        BY <3>4, <4>2
      <4>5. h[T] <= k[U]
        BY <4>3, <4>4
      <4>6. QED
        BY <3>5, <4>5
    <3>8. QED
      BY <3>6, <3>7
  <2>3. QED
    BY <2>1, <2>2
<1>5. h[S] <= k[S \cap P]
  <2>1. Nat \subseteq Good
    <3> HIDE DEF Good
    <3>1. QED
      BY <1>3, <1>4, Induct
  <2>2. Cardinality(S) \in Nat
    BY FS_CardinalityType
  <2>3. QED
    BY <2>1, <2>2
<1>6. S \cap P = P
  OBVIOUS
<1>7. QED
  BY <1>5, <1>6

-----------------------------------------------------------------------------
(* Costs.                                                                  *)

\* What a step of a crawler costs on so many rows.
StepCost(by, s) == ((by.rows * by.crawler.ratio[s]) \div Den) * Rate(by.crawler.price[s])

\* What a step is billed that succeeded so often.
HitCost(by, s) == by.hits[s] * Rate(by.crawler.price[s])

\* The two sums over steps, with what they are of in one record.
CostStep(by, h, T) ==
    IF T = {} THEN 0 ELSE StepCost(by, PickOf(T)) + h[T \ {PickOf(T)}]

BilledSum(by, h, T) ==
    IF T = {} THEN 0 ELSE HitCost(by, PickOf(T)) + h[T \ {PickOf(T)}]

\* CostOf, as a sum over the paid steps.
LEMMA PaidIsSum ==
    ASSUME NEW crawler, NEW set, NEW rows, NEW S, IsFiniteSet(S), S = PaidSteps(crawler, set),
           NEW f, f = [s \in S |-> ((rows * crawler.ratio[s]) \div Den) * Rate(crawler.price[s])]
    PROVE  \E h : /\ IsSum(f, h, S)
                  /\ CostOf(crawler, set, rows) = rows * Rate(crawler.perRow) + h[S]
<1> DEFINE by == [crawler |-> crawler, rows |-> rows]
           it == CHOOSE h : h = [T \in SUBSET S |-> CostStep(by, h, T)]
<1>1. CostOf(crawler, set, rows) = rows * Rate(crawler.perRow) + it[S]
  BY DEF CostOf, MapThenSumSet, MapThenFoldSet, CostStep, StepCost, PickOf
<1>2. PICK h : IsSum(f, h, S) /\ OnSubsets(h, S)
  BY SumExists
<1>3. \A T \in SUBSET S : T # {} => PickOf(T) \in S
  BY DEF PickOf
<1>4. \A j : \A T \in SUBSET S : SumStep(f, j, T) = CostStep(by, j, T)
  BY <1>3 DEF SumStep, CostStep, StepCost
<1>5. h = [T \in SUBSET S |-> CostStep(by, h, T)]
  <2> HIDE DEF by
  <2>1. QED
    BY <1>2, <1>4 DEF IsSum, OnSubsets
<1>6. it = [T \in SUBSET S |-> CostStep(by, it, T)]
  <2> HIDE DEF by
  <2>1. QED
    BY <1>5
<1> HIDE DEF it
<1>7. IsSum(f, it, S)
  BY <1>4, <1>6 DEF IsSum
<1>8. QED
  BY <1>1, <1>7

\* Billed, as a sum over the steps billed for.
LEMMA BilledIsSum ==
    ASSUME NEW crawler, NEW saved, NEW new, NEW tasks, NEW rows, NEW hits,
           NEW S, IsFiniteSet(S), S = BilledFor(crawler, saved, new),
           NEW f, f = [s \in S |-> hits[s] * Rate(crawler.price[s])],
           NEW base, base = (IF crawler.perTask # None THEN crawler.perTask * tasks
                             ELSE rows * Rate(crawler.perRow))
    PROVE  \E h : /\ IsSum(f, h, S)
                  /\ Billed(crawler, saved, new, tasks, rows, hits) = base + h[S]
<1> DEFINE by == [crawler |-> crawler, hits |-> hits]
           it == CHOOSE h : h = [T \in SUBSET S |-> BilledSum(by, h, T)]
<1>1. Billed(crawler, saved, new, tasks, rows, hits) = base + it[S]
  BY DEF Billed, MapThenSumSet, MapThenFoldSet, BilledSum, HitCost, PickOf
<1>2. PICK h : IsSum(f, h, S) /\ OnSubsets(h, S)
  BY SumExists
<1>3. \A T \in SUBSET S : T # {} => PickOf(T) \in S
  BY DEF PickOf
<1>4. \A j : \A T \in SUBSET S : SumStep(f, j, T) = BilledSum(by, j, T)
  BY <1>3 DEF SumStep, BilledSum, HitCost
<1>5. h = [T \in SUBSET S |-> BilledSum(by, h, T)]
  <2> HIDE DEF by
  <2>1. QED
    BY <1>2, <1>4 DEF IsSum, OnSubsets
<1>6. it = [T \in SUBSET S |-> BilledSum(by, it, T)]
  <2> HIDE DEF by
  <2>1. QED
    BY <1>5
<1> HIDE DEF it
<1>7. IsSum(f, it, S)
  BY <1>4, <1>6 DEF IsSum
<1>8. QED
  BY <1>1, <1>7

\* The merge of settings and the lookup in it (execution.py:385, safeguards.py:117) switch
\* on the steps that run.
LEMMA RunsAreOn ==
    ASSUME NEW crawler \in Crawler, NEW saved \in Settings, NEW new \in Settings, NEW s \in Steps
    PROVE  Runs(crawler, saved, new, s) <=> StepOn(crawler, Effective(saved, new), s)
<1> DEFINE a == new.functions[s]
           b == saved.functions[s]
           c == new.flat[s]
           d == saved.flat[s]
           said == {<<a, 1>>, <<b, 2>>, <<c, 3>>, <<d, 4>>}
           set  == {x \in said : x[1] # "unset"}
<1>1. /\ a \in Switch /\ b \in Switch /\ c \in Switch /\ d \in Switch
      /\ crawler.default[s] \in BOOLEAN
  BY DEF Settings, Crawler
<1>2. Runs(crawler, saved, new, s) =
        IF set = {} THEN crawler.default[s]
        ELSE \E x \in set : x[1] = "on" /\ \A y \in set : x[2] <= y[2]
  BY DEF Runs
<1>3. /\ Effective(saved, new).functions[s] = IF a # "unset" THEN a ELSE b
      /\ Effective(saved, new).flat[s] = IF c # "unset" THEN c ELSE d
  BY DEF Effective
<1>4. StepOn(crawler, Effective(saved, new), s) =
        IF a # "unset" THEN a = "on"
        ELSE IF b # "unset" THEN b = "on"
        ELSE IF c # "unset" THEN c = "on"
        ELSE IF d # "unset" THEN d = "on"
        ELSE crawler.default[s]
  BY <1>3 DEF StepOn
<1> HIDE DEF a, b, c, d
<1>5. CASE a # "unset"
  <2>1. <<a, 1>> \in set /\ \A y \in set : y[2] >= 1 /\ (y[2] <= 1 => y[1] = a)
    BY <1>5
  <2> HIDE DEF set
  <2>2. QED
    BY <1>2, <1>4, <1>5, <2>1
<1>6. CASE a = "unset" /\ b # "unset"
  <2>1. <<b, 2>> \in set /\ \A y \in set : y[2] >= 2 /\ (y[2] <= 2 => y[1] = b)
    BY <1>6
  <2> HIDE DEF set
  <2>2. QED
    BY <1>2, <1>4, <1>6, <2>1
<1>7. CASE a = "unset" /\ b = "unset" /\ c # "unset"
  <2>1. <<c, 3>> \in set /\ \A y \in set : y[2] >= 3 /\ (y[2] <= 3 => y[1] = c)
    BY <1>7
  <2> HIDE DEF set
  <2>2. QED
    BY <1>2, <1>4, <1>7, <2>1
<1>8. CASE a = "unset" /\ b = "unset" /\ c = "unset" /\ d # "unset"
  <2>1. <<d, 4>> \in set /\ \A y \in set : y[2] >= 4 /\ (y[2] <= 4 => y[1] = d)
    BY <1>8
  <2> HIDE DEF set
  <2>2. QED
    BY <1>2, <1>4, <1>8, <2>1
<1>9. CASE a = "unset" /\ b = "unset" /\ c = "unset" /\ d = "unset"
  <2>1. set = {}
    BY <1>9
  <2>2. QED
    BY <1>2, <1>4, <1>9, <2>1
<1>10. QED
  BY <1>5, <1>6, <1>7, <1>8, <1>9

\* A step that succeeds no more often than its ratio says costs no more than it is
\* estimated to on more rows, although the estimate rounds its rows down.
LEMMA StepCosts ==
    ASSUME NEW a \in Nat, NEW b \in Nat, NEW c \in Nat, NEW e \in Nat, NEW n \in Nat,
           a <= b, n * Den <= a * c
    PROVE  n * e \in Nat /\ ((b * c) \div Den) * e \in Nat /\ n * e <= ((b * c) \div Den) * e
<1>1. PICK x \in Nat, y \in Nat : x = a * c /\ y = b * c /\ x <= y
  BY Products
<1>2. PICK d \in Nat \ {0} : d = Den
  BY CostAssumption
<1>3. PICK q \in Nat : q = y \div d
  BY Division
<1>4. n * d \in Nat /\ n * d <= x /\ q * d \in Nat /\ y < q * d + d
  BY <1>1, <1>2, <1>3, Division, Products
<1>5. n <= q
  <2> SUFFICES ASSUME q + 1 <= n PROVE FALSE
    OBVIOUS
  <2>1. (q + 1) * d <= n * d /\ (q + 1) * d = q * d + d
    BY Products
  <2>2. QED
    BY <1>1, <1>4, <2>1
<1>6. QED
  BY <1>1, <1>2, <1>3, <1>5, Products

\* WarnedWhenShort: where check_credits knows what remains, both subtract alike.
LEMMA WarnsWhenShort ==
    ASSUME NEW estimate \in Caps, NEW available \in Caps, NEW consumed \in Caps
    PROVE  WarnedWhenShort(estimate, available, consumed)
BY CostAssumption DEF Caps, WarnedWhenShort, Remaining, RemainingCredits, Warned

\* What is billed for is what the estimate counts.
LEMMA BilledIsPaid ==
    ASSUME NEW crawler \in Crawler, NEW saved \in Settings, NEW new \in Settings
    PROVE  BilledFor(crawler, saved, new) = PaidSteps(crawler, Effective(saved, new))
<1>1. \A s \in crawler.steps :
        Runs(crawler, saved, new, s) <=> StepOn(crawler, Effective(saved, new), s)
  BY RunsAreOn DEF Crawler
<1>2. QED
  BY <1>1 DEF BilledFor, PaidSteps

\* EstimateIsBound: the allowed rows are no more than MaxRows, and every term grows with
\* the rows.
LEMMA EstimateBounds ==
    ASSUME NEW crawler \in Crawler, NEW tasks \in Nat, NEW perTask \in Caps, NEW runCap \in Caps,
           NEW saved \in Settings, NEW new \in Settings
    PROVE  EstimateIsBound(crawler, tasks, perTask, runCap, saved, new)
<1> DEFINE set      == Effective(saved, new)
           estimate == EstimateCost(crawler, tasks, perTask, runCap, set)
           allowed  == Allowed(tasks, perTask, runCap)
<1>1. PICK P \in SUBSET Steps :
        P = BilledFor(crawler, saved, new) /\ P = PaidSteps(crawler, set) /\ IsFiniteSet(P)
  <2>1. BilledFor(crawler, saved, new) \in SUBSET Steps
    BY DEF BilledFor, Crawler
  <2>2. QED
    BY <2>1, BilledIsPaid, CostAssumption, FS_Subset
<1>2. ASSUME NEW s \in P
      PROVE  s \in crawler.steps /\ crawler.ratio[s] \in Nat /\ Rate(crawler.price[s]) \in Nat
  <2>1. s \in crawler.steps /\ s \in Steps /\ Rate(crawler.price[s]) # None
    BY <1>1 DEF BilledFor
  <2>2. crawler.ratio[s] \in Nat /\ crawler.price[s] \in Price
    BY <2>1, CostAssumption DEF Crawler
  <2>3. QED
    BY <2>1, <2>2, CostAssumption DEF Rate, Price
<1>3. CASE crawler.perTask # None
  <2>1. PICK e \in Nat : e = crawler.perTask
    BY <1>3, CostAssumption DEF Crawler
  <2>2. PICK n \in Nat : n = e * tasks
    BY Products
  <2>3. estimate = n /\ estimate # None
    BY <1>3, <2>1, <2>2, CostAssumption DEF EstimateCost
  <2>4. ASSUME P = {}, NEW r, NEW hits
        PROVE  Billed(crawler, saved, new, tasks, r, hits) <= estimate
    <3> DEFINE f == [s \in P |-> hits[s] * Rate(crawler.price[s])]
    <3>1. PICK h : /\ IsSum(f, h, P)
                   /\ Billed(crawler, saved, new, tasks, r, hits) = n + h[P]
      <4>1. n = IF crawler.perTask # None THEN crawler.perTask * tasks
                ELSE r * Rate(crawler.perRow)
        BY <1>3, <2>1, <2>2
      <4>2. IsFiniteSet(P) /\ P = BilledFor(crawler, saved, new)
        BY <1>1
      <4> HIDE DEF set, estimate
      <4>3. QED
        BY <4>1, <4>2, BilledIsSum
    <3>2. f \in [P -> Nat]
      BY <2>4
    <3>3. h[{}] = 0
      <4> HIDE DEF f
      <4>1. QED
        BY <1>1, <3>1, <3>2, SumRemove
    <3>4. Billed(crawler, saved, new, tasks, r, hits) = n + 0
      BY <2>4, <3>1, <3>3
    <3>5. QED
      BY <2>3, <3>4
  <2> HIDE DEF estimate
  <2>5. QED
    BY <1>1, <1>3, <2>3, <2>4 DEF EstimateIsBound, estimate
<1>4. CASE /\ crawler.perTask = None
           /\ Rate(crawler.perRow) = None \/ ~(Positive(perTask) \/ Positive(runCap))
  BY <1>4 DEF EstimateIsBound, EstimateCost
<1>5. CASE /\ crawler.perTask = None
           /\ Rate(crawler.perRow) # None /\ (Positive(perTask) \/ Positive(runCap))
  <2>1. PICK rows \in Nat :
          /\ rows = MaxRows(tasks, perTask, runCap)
          /\ \A r \in allowed : r \in Nat /\ r <= rows
    <3>1. CASE Positive(runCap)
      BY <3>1, CostAssumption DEF MaxRows, Positive, Caps, Allowed
    <3>2. CASE ~Positive(runCap)
      <4>1. Positive(perTask) /\ perTask \in Nat
        BY <1>5, <3>2 DEF Positive, Caps
      <4>2. PICK n \in Nat : n = perTask * tasks
        BY <4>1, Products
      <4>3. QED
        BY <3>2, <4>1, <4>2, CostAssumption DEF MaxRows, Allowed
    <3>3. QED
      BY <3>1, <3>2
  <2>2. estimate = CostOf(crawler, set, rows)
    BY <1>5, <2>1 DEF EstimateCost
  <2> DEFINE g == [s \in P |-> ((rows * crawler.ratio[s]) \div Den) * Rate(crawler.price[s])]
  <2>3. PICK k : IsSum(g, k, P) /\ CostOf(crawler, set, rows) = rows * Rate(crawler.perRow) + k[P]
    <3> HIDE DEF set
    <3>1. QED
      BY <1>1, PaidIsSum
  <2>4. PICK e \in Nat : e = Rate(crawler.perRow)
    BY <1>5, CostAssumption DEF Crawler, Rate, Price
  <2>5. g \in [P -> Nat]
    <3>1. ASSUME NEW s \in P PROVE g[s] \in Nat
      <4>1. PICK c \in Nat, q \in Nat : c = crawler.ratio[s] /\ q = Rate(crawler.price[s])
        BY <1>2
      <4>2. PICK z \in Nat : z = 0 /\ z <= rows /\ z * Den <= z * c
        BY CostAssumption
      <4>3. ((rows * c) \div Den) * q \in Nat
        BY <4>2, StepCosts
      <4>4. QED
        BY <4>1, <4>3
    <3>2. QED
      BY <3>1
  <2>6. k[P] \in Nat
    <3> HIDE DEF g
    <3>1. QED
      BY <1>1, <2>3, <2>5, SumRemove
  <2>7. estimate = rows * e + k[P] /\ rows * e \in Nat
    BY <2>2, <2>3, <2>4, Products
  <2>8. estimate # None
    BY <2>6, <2>7, CostAssumption
  <2>9. ASSUME NEW r \in allowed, NEW hits \in Expected(crawler, r)
        PROVE  Billed(crawler, saved, new, tasks, r, hits) <= estimate
    <3>1. r \in Nat /\ r <= rows
      BY <2>1
    <3>2. ASSUME NEW s \in P
          PROVE  hits[s] \in Nat /\ hits[s] * Den <= r * crawler.ratio[s]
      BY <1>2, <3>1 DEF Expected, Hits
    <3> DEFINE f == [s \in P |-> hits[s] * Rate(crawler.price[s])]
    <3>b. PICK base \in Nat : base = r * e
      BY <3>1, Products
    <3>3. PICK h : /\ IsSum(f, h, P)
                   /\ Billed(crawler, saved, new, tasks, r, hits) = base + h[P]
      <4>1. base = IF crawler.perTask # None THEN crawler.perTask * tasks
                   ELSE r * Rate(crawler.perRow)
        BY <1>5, <2>4, <3>b
      <4>2. IsFiniteSet(P) /\ P = BilledFor(crawler, saved, new)
        BY <1>1
      <4> HIDE DEF set, estimate, allowed, g
      <4>3. QED
        BY <4>1, <4>2, BilledIsSum
    <3>4. ASSUME NEW s \in P PROVE f[s] \in Nat /\ f[s] <= g[s]
      <4>1. PICK c \in Nat, q \in Nat, m \in Nat :
              c = crawler.ratio[s] /\ q = Rate(crawler.price[s]) /\ m = hits[s]
        BY <1>2, <3>2
      <4>2. m * Den <= r * c
        BY <3>2, <4>1
      <4>3. m * q \in Nat /\ m * q <= ((rows * c) \div Den) * q
        BY <3>1, <4>2, StepCosts
      <4>4. QED
        BY <4>1, <4>3
    <3>5. f \in [P -> Nat]
      BY <3>4
    <3>6. h[P] <= k[P] /\ h[P] \in Nat
      <4>1. \A s \in P \ P : f[s] = 0
        OBVIOUS
      <4>2. \A s \in P : f[s] <= g[s]
        BY <3>4
      <4> HIDE DEF f, g
      <4>3. h[P] <= k[P]
        BY <1>1, <2>3, <2>5, <3>3, <3>5, <4>1, <4>2, SumLess
      <4>4. h[P] \in Nat
        BY <1>1, <3>3, <3>5, SumRemove
      <4>5. QED
        BY <4>3, <4>4
    <3>7. r * e <= rows * e /\ r * e \in Nat
      BY <3>1, Products
    <3>8. Billed(crawler, saved, new, tasks, r, hits) = r * e + h[P]
      BY <3>3, <3>b
    <3> HIDE DEF estimate
    <3>9. QED
      BY <2>6, <2>7, <3>6, <3>7, <3>8
  <2> HIDE DEF estimate, allowed
  <2>10. QED
    BY <1>5, <2>8, <2>9 DEF EstimateIsBound, estimate, allowed
<1>6. QED
  BY <1>3, <1>4, <1>5

-----------------------------------------------------------------------------
(* The specification.                                                      *)

\* The inputs of an algorithm are those it is given.
InputKnown ==
    /\ input.kind = "schema" => input.of \in Schemas
    /\ input.kind = "cost" => input.of \in Estimates
    /\ input.kind = "balance" => input.of \in Balances
    /\ input.kind = "accounts" => input.of \in AccountLists
    /\ input.kind = "search" => input.of \in Searches
    /\ input.kind = "slug" => input.of \in Slugs
    /\ input.kind = "walk" => input.of \in Walks
    /\ input.kind = "read" => input.of \in Reads

\* The inputs of an algorithm are always of the set they are drawn from.
LEMMA InputIsKnown == Spec => []InputKnown
<1>1. Init => InputKnown
  BY DEF Init, InputKnown
<1>2. InputKnown /\ [Next]_input => InputKnown'
  <2> SUFFICES ASSUME InputKnown, [Next]_input PROVE InputKnown'
    OBVIOUS
  <2>1. CASE UNCHANGED input
    BY <2>1 DEF InputKnown
  <2>2. CASE Next
    <3>1. ASSUME NEW kind, NEW inputs, Given(kind, inputs)
          PROVE  input'.kind = kind /\ input'.of \in inputs
      BY <3>1 DEF Given
    <3>2. QED
      BY <2>2, <3>1 DEF Next, InputKnown
  <2>3. QED
    BY <2>1, <2>2
<1>3. QED
  BY <1>1, <1>2, PTL DEF Spec

\* translate_input_schema publishes no two inputs that are sent under one name at one
\* level: each reaches the API as an input of its own, also where input[] declares a
\* name twice and where it declares a name that is the alias of another.
THEOREM InputsAreKeptApart == Spec => []SchemaKeepsApart
<1>1. InputKnown => SchemaKeepsApart
  BY InputAssumption, PlacesDiffer DEF InputKnown, SchemaKeepsApart
<1>2. QED
  BY <1>1, InputIsKnown, PTL

\* What validate_input accepts, completed by defaults_to_fill, carries everything the
\* API asks for, and a required task input keeps its name and its place.
THEOREM AcceptedIsEnough == Spec => []SchemaAsksEnough
<1>1. InputKnown => SchemaAsksEnough
  BY InputAssumption, RequiredStays, EnoughIsSent DEF InputKnown, SchemaAsksEnough
<1>2. QED
  BY <1>1, InputIsKnown, PTL

\* Through the published schema and run_scraper's split, a setting that a spec of
\* /params or an entry of input[] describes and that shares its name with nothing can
\* be set, one that neither describes is sent by no property, and an input declared at
\* both levels can be set at both.
THEOREM DeclaredIsReached == Spec => []SchemaReachesAll
<1>1. InputKnown => SchemaReachesAll
  BY InputAssumption, SettingsAreReached, BothAreReached DEF InputKnown, SchemaReachesAll
<1>2. QED
  BY <1>1, InputIsKnown, PTL

\* estimate_cost bounds what a run within the caps is billed whose paid steps succeed
\* no more often than their ratios say, whatever the number of rows, tasks and steps,
\* and _credit_warning agrees with check_credits.
THEOREM CostsAreTold == Spec => []CostIsTold
<1>1. ASSUME InputKnown, input.kind = "cost"
      PROVE  EstimateIsBound(input.of.crawler, input.of.tasks, input.of.perTask,
                             input.of.runCap, input.of.saved, input.of.new)
  BY <1>1, InputAssumption, EstimateBounds DEF InputKnown
<1>2. ASSUME InputKnown, input.kind = "balance"
      PROVE  WarnedWhenShort(input.of.estimate, input.of.available, input.of.consumed)
  BY <1>2, InputAssumption, WarnsWhenShort DEF InputKnown
<1>3. InputKnown => CostIsTold
  BY <1>1, <1>2 DEF CostIsTold
<1>4. QED
  BY <1>3, InputIsKnown, PTL

\* pick_or_explain picks an account exactly when it is the only one that will do,
\* however many accounts there are, if the live ones of its type fit on the page that
\* list_accounts reads.
THEOREM OnlyForcedPicks == Spec => []AccountIsForced
<1>1. InputKnown => AccountIsForced
  BY InputAssumption, PicksAreForced DEF InputKnown, AccountIsForced
<1>2. QED
  BY <1>1, InputIsKnown, PTL

\* In a catalog of any size, search_scrapers leads somewhere from a word that a crawler
\* has, and resolve_crawler_id takes a name for no crawler it does not spell or single
\* out.
THEOREM CrawlersCanBeFound == Spec => []CrawlersAreFound
<1>1. InputKnown => CrawlersAreFound
  BY InputAssumption, WordsLead, NamesAreNotGuessed DEF InputKnown, CrawlersAreFound
<1>2. QED
  BY <1>1, InputIsKnown, PTL

\* However many squids or rows there are, the pages of list_my_scrapers show each squid
\* that list_squids came upon in its capped walk once, in order, for any page size from
\* 1, and fail rather than pass for an empty list at page size 0; those of get_results
\* show each row once, in order.
THEOREM PagesAreComplete == Spec => []PagesLoseNothing
<1>1. InputKnown => PagesLoseNothing
  BY InputAssumption, WalksSeeAll, PagesShowAll DEF InputKnown, PagesLoseNothing
<1>2. QED
  BY <1>1, InputIsKnown, PTL
=============================================================================
