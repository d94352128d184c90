------------------------- MODULE TagSelectionProofs -------------------------
(***************************************************************************)
(* Theorems about TagSelection, for any tags, lists and include            *)
(* expressions.  The first part shows that versions are a total preorder   *)
(* and that Beats is transitive; the loop over the tags then keeps the     *)
(* best candidate seen so far (Loop), and a verdict says how it was         *)
(* reached (Ended).                                                        *)
(***************************************************************************)
EXTENDS TagSelection, FiniteSetTheorems, TLAPS

\* A non-empty set of positions has a first one.
LEMMA FirstPosition ==
  ASSUME NEW n \in Nat, NEW D \in SUBSET (1..n), D # {}
  PROVE  \E m \in D : \A i \in D : m <= i
  <1> DEFINE T == {1..i : i \in D}
  <1>1. T \subseteq FiniteSubsetsOf(1..n)
    <2>1. IsFiniteSet(1..n)
      BY FS_Interval
    <2>2. \A i \in D : 1..i \subseteq 1..n
      OBVIOUS
    <2>3. FiniteSubsetsOf(1..n) = SUBSET (1..n)
      BY <2>1, FS_FiniteSubsetsOfFinite
    <2> QED BY <2>2, <2>3
  <1>2. T # {}
    OBVIOUS
  <1>3. IsWellFoundedOn(StrictSubsetOrdering(1..n), FiniteSubsetsOf(1..n))
    BY FS_StrictSubsetOrderingWellFounded
  <1>4. \E x \in T : \A y \in T : ~(<<y, x>> \in StrictSubsetOrdering(1..n))
    <2> HIDE DEF T
    <2> QED BY <1>1, <1>2, <1>3, WFMin
  <1>5. PICK m \in D : \A y \in T : ~(<<y, 1..m>> \in StrictSubsetOrdering(1..n))
    BY <1>4
  <1>6. ASSUME NEW i \in D, i < m PROVE FALSE
    <2>1. 1..i \in T /\ 1..i \subseteq 1..n /\ 1..m \subseteq 1..n /\ 1..i \subseteq 1..m
      BY <1>6
    <2>2. m \in 1..m /\ m \notin 1..i
      BY <1>6
    <2>3. <<1..i, 1..m>> \in StrictSubsetOrdering(1..n)
      BY <2>1, <2>2 DEF StrictSubsetOrdering
    <2> QED BY <1>5, <2>1, <2>3
  <1> QED BY <1>6

-----------------------------------------------------------------------------
(* Versions.                                                               *)

\* Segments are natural numbers, and zero beyond the end.
LEMMA SegType ==
  ASSUME NEW t \in TagShape, NEW i \in Nat \ {0}
  PROVE  /\ Seg(t, i) \in Nat
         /\ Len(t.segs) \in Nat
         /\ DOMAIN t.segs = 1..Len(t.segs)
         /\ i > Len(t.segs) => Seg(t, i) = 0
  <1>1. t.segs \in Seq(Nat)
    BY DEF TagShape
  <1> QED BY <1>1 DEF Seg

\* Lengths are natural numbers.
LEMMA LenType == \A t \in TagShape : Len(t.segs) \in Nat
  <1> SUFFICES ASSUME NEW t \in TagShape PROVE Len(t.segs) \in Nat
    OBVIOUS
  <1>1. t.segs \in Seq(Nat)
    BY DEF TagShape
  <1> QED BY <1>1

\* Tags with the same numbers have them at every position.
LEMMA SameCoreEverywhere ==
  ASSUME NEW a \in TagShape, NEW b \in TagShape
  PROVE  SameCore(a, b) <=> \A i \in Nat \ {0} : Seg(a, i) = Seg(b, i)
  <1>1. ASSUME SameCore(a, b), NEW i \in Nat \ {0} PROVE Seg(a, i) = Seg(b, i)
    <2>1. i \in DOMAIN a.segs \/ i \in DOMAIN b.segs \/ (i > Len(a.segs) /\ i > Len(b.segs))
      BY SegType
    <2> QED BY <1>1, <2>1, SegType DEF SameCore
  <1>2. (DOMAIN a.segs) \cup (DOMAIN b.segs) \subseteq Nat \ {0}
    BY SegType DEF TagShape
  <1> QED BY <1>1, <1>2 DEF SameCore

\* Where two tags first differ decides which is below.
LEMMA CoreBelowAt ==
  ASSUME NEW a \in TagShape, NEW b \in TagShape
  PROVE  CoreBelow(a, b) <=>
           \E i \in Nat \ {0} : /\ Seg(a, i) < Seg(b, i)
                                /\ \A j \in 1..(i - 1) : Seg(a, j) = Seg(b, j)
  <1>1. ASSUME NEW i \in Nat \ {0}, Seg(a, i) < Seg(b, i)
        PROVE  i \in 1..Len(b.segs)
    <2>1. Seg(a, i) \in Nat
      BY SegType
    <2>2. Len(b.segs) \in Nat /\ (i > Len(b.segs) => Seg(b, i) = 0)
      BY SegType
    <2> QED BY <1>1, <2>1, <2>2
  <1>2. 1..Len(b.segs) \subseteq Nat \ {0}
    BY SegType
  <1> QED BY <1>1, <1>2 DEF CoreBelow

\* Any two tags are comparable.
LEMMA CoreTotal ==
  ASSUME NEW a \in TagShape, NEW b \in TagShape
  PROVE  CoreBelow(a, b) \/ CoreBelow(b, a) \/ SameCore(a, b)
  <1> SUFFICES ASSUME ~SameCore(a, b) PROVE CoreBelow(a, b) \/ CoreBelow(b, a)
    OBVIOUS
  <1>1. PICK p \in Nat \ {0} : Seg(a, p) # Seg(b, p)
    BY SameCoreEverywhere
  <1> DEFINE D == {i \in 1..p : Seg(a, i) # Seg(b, i)}
  <1>2. PICK m \in D : \A i \in D : m <= i
    <2>1. p \in D /\ D \in SUBSET (1..p) /\ p \in Nat
      BY <1>1
    <2> HIDE DEF D
    <2> QED BY <2>1, FirstPosition
  <1>3. m \in Nat \ {0} /\ m \in 1..p /\ Seg(a, m) # Seg(b, m)
    OBVIOUS
  <1>4. \A j \in 1..(m - 1) : Seg(a, j) = Seg(b, j)
    <2> SUFFICES ASSUME NEW j \in 1..(m - 1), Seg(a, j) # Seg(b, j) PROVE FALSE
      OBVIOUS
    <2>1. j \in D /\ j < m
      BY <1>1, <1>3
    <2> QED BY <1>2, <1>3, <2>1
  <1>5. Seg(a, m) < Seg(b, m) \/ Seg(b, m) < Seg(a, m)
    BY <1>3, SegType
  <1> QED BY <1>3, <1>4, <1>5, CoreBelowAt

\* Below is a strict order that respects equal numbers.
LEMMA CoreOrder ==
  ASSUME NEW a \in TagShape, NEW b \in TagShape, NEW c \in TagShape
  PROVE  /\ ~CoreBelow(a, a) /\ SameCore(a, a)
         /\ SameCore(a, b) => SameCore(b, a)
         /\ SameCore(a, b) /\ SameCore(b, c) => SameCore(a, c)
         /\ SameCore(a, b) => ~CoreBelow(a, b)
         /\ SameCore(a, b) /\ CoreBelow(b, c) => CoreBelow(a, c)
         /\ CoreBelow(a, b) /\ SameCore(b, c) => CoreBelow(a, c)
         /\ CoreBelow(a, b) /\ CoreBelow(b, c) => CoreBelow(a, c)
  <1> DEFINE P == Nat \ {0}
  <1>1. \A i \in P : Seg(a, i) \in Nat /\ Seg(b, i) \in Nat /\ Seg(c, i) \in Nat
    BY SegType
  <1>2. ~CoreBelow(a, a) /\ SameCore(a, a) /\ (SameCore(a, b) => ~CoreBelow(a, b))
    <2>1. SameCore(a, b) => ~CoreBelow(a, b)
      BY <1>1, SameCoreEverywhere, CoreBelowAt
    <2>2. ~CoreBelow(a, a) /\ SameCore(a, a)
      BY <1>1, SameCoreEverywhere, CoreBelowAt
    <2> QED BY <2>1, <2>2
  <1>3. (SameCore(a, b) => SameCore(b, a)) /\ (SameCore(a, b) /\ SameCore(b, c) => SameCore(a, c))
    BY SameCoreEverywhere
  <1>4. SameCore(a, b) /\ CoreBelow(b, c) => CoreBelow(a, c)
    <2> SUFFICES ASSUME SameCore(a, b), CoreBelow(b, c) PROVE CoreBelow(a, c)
      OBVIOUS
    <2>1. \A i \in P : Seg(a, i) = Seg(b, i)
      BY SameCoreEverywhere
    <2>2. PICK i \in P : Seg(b, i) < Seg(c, i) /\ \A j \in 1..(i - 1) : Seg(b, j) = Seg(c, j)
      BY CoreBelowAt
    <2>3. Seg(a, i) < Seg(c, i) /\ \A j \in 1..(i - 1) : Seg(a, j) = Seg(c, j)
      BY <2>1, <2>2
    <2> QED BY <2>3, CoreBelowAt
  <1>5. CoreBelow(a, b) /\ SameCore(b, c) => CoreBelow(a, c)
    <2> SUFFICES ASSUME CoreBelow(a, b), SameCore(b, c) PROVE CoreBelow(a, c)
      OBVIOUS
    <2>1. \A i \in P : Seg(b, i) = Seg(c, i)
      BY SameCoreEverywhere
    <2>2. PICK i \in P : Seg(a, i) < Seg(b, i) /\ \A j \in 1..(i - 1) : Seg(a, j) = Seg(b, j)
      BY CoreBelowAt
    <2>3. Seg(a, i) < Seg(c, i) /\ \A j \in 1..(i - 1) : Seg(a, j) = Seg(c, j)
      BY <2>1, <2>2
    <2> QED BY <2>3, CoreBelowAt
  <1>6. CoreBelow(a, b) /\ CoreBelow(b, c) => CoreBelow(a, c)
    <2> SUFFICES ASSUME CoreBelow(a, b), CoreBelow(b, c) PROVE CoreBelow(a, c)
      OBVIOUS
    <2>1. PICK i \in P : Seg(a, i) < Seg(b, i) /\ \A j \in 1..(i - 1) : Seg(a, j) = Seg(b, j)
      BY CoreBelowAt
    <2>2. PICK k \in P : Seg(b, k) < Seg(c, k) /\ \A j \in 1..(k - 1) : Seg(b, j) = Seg(c, j)
      BY CoreBelowAt
    <2>3. CASE i <= k
      <3>1. Seg(b, i) <= Seg(c, i)
        BY <1>1, <2>2, <2>3
      <3>2. Seg(a, i) < Seg(c, i) /\ \A j \in 1..(i - 1) : Seg(a, j) = Seg(c, j)
        BY <1>1, <2>1, <2>2, <2>3, <3>1
      <3> QED BY <3>2, CoreBelowAt
    <2>4. CASE k < i
      <3>1. Seg(a, k) < Seg(c, k) /\ \A j \in 1..(k - 1) : Seg(a, j) = Seg(c, j)
        BY <1>1, <2>1, <2>2, <2>4
      <3> QED BY <3>1, CoreBelowAt
    <2> QED BY <2>3, <2>4
  <1> QED BY <1>2, <1>3, <1>4, <1>5, <1>6

\* Newer is the strict part of a total preorder.
LEMMA NewerOrder ==
  ASSUME NEW a \in TagShape, NEW b \in TagShape, NEW c \in TagShape
  PROVE  /\ ~Newer(a, a)
         /\ Newer(a, b) => ~Newer(b, a) /\ ~SameVersion(a, b)
         /\ Newer(a, b) \/ Newer(b, a) \/ SameVersion(a, b)
         /\ Newer(a, b) /\ Newer(b, c) => Newer(a, c)
         /\ Newer(a, b) /\ SameVersion(b, c) => Newer(a, c)
         /\ SameVersion(a, b) /\ Newer(b, c) => Newer(a, c)
         /\ SameVersion(a, b) => SameVersion(b, a)
         /\ SameVersion(a, b) /\ SameVersion(b, c) => SameVersion(a, c)
  <1>1. a.pre \in Nat /\ b.pre \in Nat /\ c.pre \in Nat
    BY DEF TagShape
  <1>2. \A x, y, z \in {a, b, c} :
          /\ ~CoreBelow(x, x) /\ SameCore(x, x)
          /\ SameCore(x, y) => SameCore(y, x)
          /\ SameCore(x, y) /\ SameCore(y, z) => SameCore(x, z)
          /\ SameCore(x, y) => ~CoreBelow(x, y)
          /\ SameCore(x, y) /\ CoreBelow(y, z) => CoreBelow(x, z)
          /\ CoreBelow(x, y) /\ SameCore(y, z) => CoreBelow(x, z)
          /\ CoreBelow(x, y) /\ CoreBelow(y, z) => CoreBelow(x, z)
          /\ CoreBelow(x, y) \/ CoreBelow(y, x) \/ SameCore(x, y)
    BY CoreOrder, CoreTotal
  <1> QED BY <1>1, <1>2 DEF Newer, SameVersion, PreBelow

\* Preferred is a strict order, too.
LEMMA PreferredOrder ==
  ASSUME NEW a \in TagShape, NEW b \in TagShape, NEW c \in TagShape
  PROVE  /\ ~Preferred(a, a)
         /\ Preferred(a, b) /\ Preferred(b, c) => Preferred(a, c)
  <1> \A t \in TagShape : Len(t.segs) \in Nat /\ t.text \in Nat
    BY DEF TagShape
  <1> QED BY DEF Preferred

\* Two spellings of a version are not equally good.
LEMMA PreferredTotal ==
  ASSUME current \in TagShape, NEW a \in TagShape, NEW b \in TagShape, SameVersion(a, b), a # b
  PROVE  Preferred(a, b) \/ Preferred(b, a)
  <1> SUFFICES ASSUME ~Preferred(a, b), ~Preferred(b, a) PROVE a = b
    OBVIOUS
  <1>1. a.text \in Nat /\ b.text \in Nat /\ Len(a.segs) \in Nat /\ Len(b.segs) \in Nat
    BY LenType DEF TagShape
  <1>2. a.v \in BOOLEAN /\ b.v \in BOOLEAN /\ a.segs \in Seq(Nat) /\ b.segs \in Seq(Nat)
    BY DEF TagShape
  <1>3. (a.v = current.v) = (b.v = current.v) /\ Len(a.segs) = Len(b.segs) /\ a.text = b.text
    BY <1>1 DEF Preferred
  <1>4. a.pre = b.pre
    BY DEF SameVersion
  <1>5. a.segs = b.segs
    <2>1. \A i \in 1..Len(a.segs) : a.segs[i] = b.segs[i]
      <3> SUFFICES ASSUME NEW i \in 1..Len(a.segs) PROVE a.segs[i] = b.segs[i]
        OBVIOUS
      <3>1. Seg(a, i) = Seg(b, i)
        BY SameCoreEverywhere, <1>1 DEF SameVersion
      <3> QED BY <1>1, <1>3, <3>1 DEF Seg
    <2>2. a.segs \in [1..Len(a.segs) -> Nat] /\ b.segs \in [1..Len(b.segs) -> Nat]
      BY <1>2
    <2>3. b.segs \in [1..Len(a.segs) -> Nat]
      BY <1>3, <2>2
    <2>4. \A f, g \in [1..Len(a.segs) -> Nat] :
            (\A i \in 1..Len(a.segs) : f[i] = g[i]) => f = g
      OBVIOUS
    <2> QED BY <2>1, <2>2, <2>3, <2>4, Zenon
  <1>6. a.v = b.v
    <2>1. current.v \in BOOLEAN
      BY DEF TagShape
    <2>2. \A p, q, r \in BOOLEAN : (p = r) = (q = r) => p = q
      OBVIOUS
    <2>3. a.v \in BOOLEAN /\ b.v \in BOOLEAN
      BY <1>2
    <2> QED BY <1>3, <2>1, <2>2, <2>3, Zenon
  <1> QED BY <1>2, <1>3, <1>4, <1>5, <1>6 DEF TagShape

\* And so is Beats, which goes by the version first.
LEMMA BeatsOrder ==
  ASSUME NEW a \in TagShape, NEW b \in TagShape, NEW c \in TagShape
  PROVE  /\ ~Beats(a, a)
         /\ Beats(a, b) /\ Beats(b, c) => Beats(a, c)
         /\ Newer(a, b) => ~Beats(b, a)
  BY NewerOrder, PreferredOrder DEF Beats

-----------------------------------------------------------------------------
(* The invariant.                                                          *)

Fresh == pc \in {"resolving", "filtering"} => next = 1 /\ best = NoTag /\ verdict = "none"

\* The best candidate seen is kept.
Loop ==
  /\ best # NoTag => best \in Range(tags) /\ Candidate(best)
  /\ \A k \in 1..(next - 1) : Candidate(tags[k]) => best # NoTag /\ ~Beats(tags[k], best)

\* Where the check is and how it ended.
Ended ==
  /\ mode = "unknown" <=> pc = "resolving"
  /\ pc \in {"filtering", "selecting"} => mode \in {"semver", "numeric"}
  /\ mode = "semver" => ParsesAsSemver(current)
  /\ mode = "numeric" => ParsesAsNumeric(current) /\ ~ParsesAsSemver(current)
  /\ pc = "selecting" => Included(current) /\ verdict = "none"
  /\ pc = "done" /\ mode = "digest" =>
       verdict = "compareDigests" /\ (rule.track = "digest" \/ ~(ParsesAsSemver(current) \/ ParsesAsNumeric(current)))
  /\ pc = "done" /\ mode # "digest" =>
       \/ verdict = "skipped" /\ ~Included(current)
       \/ verdict = "skipped" /\ best = NoTag /\ \A t \in Range(tags) : ~Included(t)
       \/ /\ next = Len(tags) + 1 /\ Included(current)
          /\ \/ verdict = "skipped" /\ best = NoTag
             \/ verdict = "update" /\ best # NoTag /\ Newer(best, current)
             \/ verdict = "upToDate" /\ best # NoTag /\ ~Newer(best, current)

\* Nothing among the tags is newer than a tag that was advised.
Settled ==
  followed /\ rule.include = Unfiltered =>
    /\ current \in Range(tags)
    /\ rule.track = "" => /\ NumericCandidate(current) \/ SemverCandidate(current)
                          /\ \A t \in Range(tags) :
                               SemverCandidate(t) \/ (ParsesAsNumeric(t) /\ ~ParsesAsSemver(current))
                                 => ~Newer(t, current)

IInv == TypeOK /\ Fresh /\ Loop /\ Ended /\ Settled

\* Tags of the list are tags, and positions lie within the list.
LEMMA ListType ==
  ASSUME TypeOK
  PROVE  /\ Len(tags) \in Nat /\ DOMAIN tags = 1..Len(tags)
         /\ \A k \in 1..Len(tags) : tags[k] \in Tags /\ tags[k] \in Range(tags)
         /\ Range(tags) \subseteq Tags
         /\ \A t \in Range(tags) : \E k \in 1..Len(tags) : tags[k] = t
         /\ Tags \subseteq TagShape /\ NoTag \notin Tags
  BY TagAssumption DEF TypeOK, Range

\* A candidate in one reading of the tags stays one while tag, rule and mode stay.
LEMMA SameReading ==
  ASSUME UNCHANGED <<current, rule, mode>>
  PROVE  /\ \A t : Candidate(t)' <=> Candidate(t)
         /\ \A t : Included(t)' <=> Included(t)
         /\ \A a, b : Beats(a, b)' <=> Beats(a, b)
  BY DEF Candidate, Included, SemverCandidate, NumericCandidate, Beats, Preferred

\* The invariant holds at first.
LEMMA InitInvariant == Init => IInv
  <1> SUFFICES ASSUME Init PROVE IInv
    OBVIOUS
  <1> USE DEF Init
  <1>1. tags \in Seq(Tags) /\ Len(tags) \in Nat
    BY TagAssumption
  <1>2. TypeOK
    <2>1. next \in 1..(Len(tags) + 1) /\ best \in Tags \cup {NoTag}
      BY <1>1
    <2>2. followed \in BOOLEAN /\ current \in Tags /\ rule \in Rules
      OBVIOUS
    <2> QED BY <1>1, <2>1, <2>2 DEF TypeOK
  <1>3. Fresh
    BY DEF Fresh
  <1>4. Loop
    BY DEF Loop
  <1>5. Ended
    BY DEF Ended
  <1>6. Settled
    BY DEF Settled
  <1> QED BY <1>2, <1>3, <1>4, <1>5, <1>6 DEF IInv

LEMMA TypeStep ==
  ASSUME IInv, [Next]_vars
  PROVE  TypeOK'
  <1> USE DEF IInv, TypeOK
  <1>1. ASSUME Resolve PROVE TypeOK'
    BY <1>1 DEF Resolve, Conclude
  <1>2. ASSUME Filter PROVE TypeOK'
    BY <1>2 DEF Filter, Conclude
  <1>3. ASSUME Consider PROVE TypeOK'
    BY <1>3, ListType DEF Consider
  <1>4. ASSUME Compare PROVE TypeOK'
    BY <1>4 DEF Compare, Conclude
  <1>5. ASSUME Recreate PROVE TypeOK'
    <2>1. best \in Tags
      BY <1>5 DEF Recreate, Ended, Fresh
    <2>2. tags' \in Seq(Tags) /\ Len(tags') \in Nat
      BY <1>5, TagAssumption DEF Recreate
    <2> QED BY <1>5, <2>1, <2>2 DEF Recreate
  <1>6. ASSUME UNCHANGED vars PROVE TypeOK'
    BY <1>6 DEF vars
  <1> QED BY <1>1, <1>2, <1>3, <1>4, <1>5, <1>6 DEF Next

\* One round of the loop keeps the best candidate.
LEMMA LoopRound ==
  ASSUME IInv, Consider
  PROVE  Loop'
  <1> USE DEF IInv, Consider
  <1>1. next \in 1..Len(tags) /\ tags[next] \in TagShape /\ tags[next] \in Range(tags) /\ tags[next] # NoTag
    BY ListType DEF TypeOK
  <1>2. best # NoTag => best \in TagShape
    BY ListType DEF TypeOK
  <1>3. best' # NoTag => best' \in Range(tags') /\ Candidate(best)'
    <2>1. CASE best' = best
      BY <2>1 DEF Loop, Candidate, Included, SemverCandidate, NumericCandidate
    <2>2. CASE best' # best
      <3>1. best' = tags[next] /\ Candidate(tags[next])
        BY <2>2
      <3> QED BY <1>1, <3>1 DEF Candidate, Included, SemverCandidate, NumericCandidate
    <2> QED BY <2>1, <2>2
  <1>4. ASSUME NEW k \in 1..next, Candidate(tags[k])
        PROVE  best' # NoTag /\ ~Beats(tags[k], best')
    <2>1. tags[k] \in TagShape
      BY <1>1, ListType
    <2>2. CASE k = next
      <3>1. best' # NoTag
        BY <1>1, <1>4, <2>2
      <3>2. CASE best = NoTag \/ Beats(tags[next], best)
        <4>1. best' = tags[next]
          BY <1>4, <2>2, <3>2
        <4> QED BY <3>1, <4>1, <2>1, <2>2, BeatsOrder
      <3>3. CASE ~(best = NoTag \/ Beats(tags[next], best))
        BY <3>1, <3>3, <2>2
      <3> QED BY <3>2, <3>3
    <2>3. CASE k # next
      <3>1. k \in 1..(next - 1)
        BY <1>1, <2>3
      <3>2. best # NoTag /\ ~Beats(tags[k], best)
        BY <1>4, <3>1 DEF Loop
      <3>3. CASE best' = best
        BY <3>2, <3>3
      <3>4. CASE best' # best
        <4>1. best' = tags[next] /\ Beats(tags[next], best)
          BY <3>2, <3>4
        <4> QED BY <1>1, <1>2, <2>1, <3>2, <4>1, BeatsOrder
      <3> QED BY <3>3, <3>4
    <2> QED BY <2>2, <2>3
  <1>5. next' - 1 = next
    BY <1>1
  <1>6. \A k \in 1..(next' - 1) : Candidate(tags[k])' => best' # NoTag /\ ~Beats(tags[k], best)'
    <2> SUFFICES ASSUME NEW k \in 1..next, Candidate(tags[k])'
                 PROVE  best' # NoTag /\ ~Beats(tags[k], best)'
      BY <1>5
    <2>1. Candidate(tags[k])
      BY DEF Candidate, Included, SemverCandidate, NumericCandidate
    <2>2. best' # NoTag /\ ~Beats(tags[k], best')
      BY <1>4, <2>1
    <2> QED BY <2>2 DEF Beats, Preferred
  <1> QED BY <1>3, <1>6 DEF Loop

\* Once the loop is over the kept tag is the best candidate of all.
LEMMA LoopOver ==
  ASSUME TypeOK, Loop, next = Len(tags) + 1
  PROVE  \A t \in Candidates : best # NoTag /\ ~Beats(t, best)
  <1> TAKE t \in Candidates
  <1>1. t \in Range(tags) /\ Candidate(t)
    BY DEF Candidates
  <1>2. PICK k \in 1..Len(tags) : tags[k] = t
    BY <1>1, ListType
  <1>3. k \in 1..(next - 1)
    BY ListType
  <1> QED BY <1>1, <1>2, <1>3 DEF Loop

\* Without an include expression a semver candidate is a numeric one.
LEMMA NumericReading ==
  ASSUME NEW t \in TagShape
  PROVE  /\ ParsesAsNumeric(t) => NumericCandidate(t)
         /\ rule.include = Unfiltered /\ SemverCandidate(t) => NumericCandidate(t)
  <1>1. t.segs \in Seq(Nat)
    BY DEF TagShape
  <1>2. Len(t.segs) \in Nat
    BY <1>1
  <1>3. \A n \in Nat : (n >= 2 => n # 1) /\ (n \in 1..3 /\ n # 1 => n >= 2)
    OBVIOUS
  <1>4. /\ Len(t.segs) >= 2 => Len(t.segs) # 1
        /\ Len(t.segs) \in 1..3 /\ Len(t.segs) # 1 => Len(t.segs) >= 2
    BY <1>2, <1>3, Zenon
  <1> QED BY <1>4, Zenon DEF NumericCandidate, SemverCandidate, ParsesAsNumeric, ParsesAsSemver, IsBareInteger

\* Running the announced tag leaves nothing newer.
LEMMA RecreateSettles ==
  ASSUME IInv, Recreate
  PROVE  Settled'
  <1> USE DEF IInv, Recreate
  <1> SUFFICES ASSUME rule.include = Unfiltered, rule.track = ""
               PROVE  Settled'
    <2>1. best \in Range(tags)
      BY DEF Ended, Loop
    <2> QED BY <2>1 DEF Settled
  <1>1. best \in Range(tags) /\ Candidate(best) /\ next = Len(tags) + 1 /\ mode \in {"semver", "numeric"} /\ best \in TagShape
    <2>1. mode \in {"semver", "numeric"} /\ best # NoTag /\ next = Len(tags) + 1
      BY DEF Ended, TypeOK
    <2> QED BY <2>1, ListType DEF Loop
  <1>2. NumericCandidate(best) \/ SemverCandidate(best)
    BY <1>1 DEF Candidate
  <1>3. ASSUME NEW t \in Range(tags), SemverCandidate(t) \/ (ParsesAsNumeric(t) /\ ~ParsesAsSemver(best))
        PROVE  Candidate(t)
    <2>0. t \in TagShape
      BY ListType
    <2>2. CASE mode = "semver"
      <3>1. ParsesAsSemver(best)
        BY <1>1, <2>2 DEF Candidate, SemverCandidate
      <3> QED BY <1>3, <2>2, <3>1 DEF Candidate, Included
    <2>3. CASE mode = "numeric"
      <3>3. NumericCandidate(t)
        BY <1>3, <2>0, NumericReading
      <3> QED BY <2>3, <3>3 DEF Candidate, Included
    <2> QED BY <1>1, <2>2, <2>3
  <1>4. ASSUME NEW t \in Range(tags), Candidate(t) PROVE ~Newer(t, best)
    <2>1. ~Beats(t, best)
      BY <1>1, <1>4, LoopOver DEF Candidates
    <2> QED BY <2>1 DEF Beats
  <1>5. \A t : SemverCandidate(t)' <=> SemverCandidate(t)
    BY DEF SemverCandidate
  <1> QED BY <1>1, <1>2, <1>3, <1>4, <1>5 DEF Settled

\* Every step keeps the invariant.
LEMMA InvariantStep ==
  ASSUME IInv, [Next]_vars
  PROVE  IInv'
  <1>0. TypeOK'
    BY TypeStep
  <1> USE DEF IInv
  <1>1. ASSUME Resolve PROVE IInv'
    <2> USE <1>1 DEF Resolve, Conclude
    <2>1. Fresh' /\ Loop'
      BY DEF Fresh, Loop
    <2>2. Ended'
      BY DEF Ended, Fresh
    <2>3. Settled'
      BY DEF Settled, SemverCandidate
    <2> QED BY <1>0, <2>1, <2>2, <2>3
  <1>2. ASSUME Filter PROVE IInv'
    <2> USE <1>2 DEF Filter, Conclude
    <2>1. Fresh' /\ Loop'
      BY DEF Fresh, Loop
    <2>2. Ended'
      BY DEF Ended, Fresh, Included
    <2>3. Settled'
      BY DEF Settled, SemverCandidate
    <2> QED BY <1>0, <2>1, <2>2, <2>3
  <1>3. ASSUME Consider PROVE IInv'
    <2> USE <1>3 DEF Consider
    <2>1. Fresh' /\ Ended'
      BY SameReading DEF Fresh, Ended
    <2>2. Loop'
      BY LoopRound
    <2>3. Settled'
      BY DEF Settled, SemverCandidate
    <2> QED BY <1>0, <2>1, <2>2, <2>3
  <1>4. ASSUME Compare PROVE IInv'
    <2> USE <1>4 DEF Compare, Conclude
    <2>1. next = Len(tags) + 1
      BY ListType DEF TypeOK
    <2>2. Fresh' /\ Ended'
      BY <2>1, SameReading DEF Fresh, Ended
    <2>3. Loop'
      BY SameReading DEF Loop
    <2>4. Settled'
      BY DEF Settled, SemverCandidate
    <2> QED BY <1>0, <2>2, <2>3, <2>4
  <1>5. ASSUME Recreate PROVE IInv'
    <2>1. Settled'
      BY <1>5, RecreateSettles
    <2>2. Fresh' /\ Loop' /\ Ended'
      BY <1>5 DEF Recreate, Fresh, Loop, Ended
    <2> QED BY <1>0, <2>1, <2>2
  <1>6. ASSUME UNCHANGED vars PROVE IInv'
    <2>1. Fresh' /\ Ended' /\ Loop'
      BY <1>6, SameReading DEF vars, Fresh, Ended, Loop
    <2>2. Settled'
      BY <1>6 DEF vars, Settled, SemverCandidate
    <2> QED BY <1>0, <2>1, <2>2
  <1> QED BY <1>1, <1>2, <1>3, <1>4, <1>5, <1>6 DEF Next

-----------------------------------------------------------------------------
\* The inductive invariant of the check of one container.
THEOREM Invariance == Spec => []IInv
  BY InitInvariant, InvariantStep, PTL DEF Spec

\* Every variable keeps its type.
THEOREM TypeCorrect == Spec => []TypeOK
  <1>1. IInv => TypeOK
    BY DEF IInv
  <1> QED BY <1>1, Invariance, PTL

\* selectSemverTag and selectNumericTag find the newest candidate, and the check
\* announces exactly what is newer than the current tag.
THEOREM VerdictCorrect == Spec => []VerdictIsRight
  <1>1. ASSUME IInv PROVE VerdictIsRight
    <2> USE <1>1 DEF IInv
    <2> SUFFICES ASSUME pc = "done", mode # "digest", Included(current)
                 PROVE  /\ verdict = "update" <=> \E t \in Candidates : Newer(t, current)
                        /\ verdict = "skipped" <=> Candidates = {}
                        /\ verdict # "skipped" => best \in Candidates /\ \A t \in Candidates : ~Newer(t, best)
      BY DEF VerdictIsRight
    <2>1. CASE \A t \in Range(tags) : ~Included(t)
      <3>1. Candidates = {}
        BY <2>1 DEF Candidates, Candidate
      <3>2. best = NoTag
        BY <3>1 DEF Loop, Candidates
      <3>3. verdict = "skipped"
        BY <3>2 DEF Ended
      <3> QED BY <3>1, <3>3
    <2>2. CASE ~(\A t \in Range(tags) : ~Included(t))
      <3>1. /\ next = Len(tags) + 1
            /\ \/ verdict = "skipped" /\ best = NoTag
               \/ verdict = "update" /\ best # NoTag /\ Newer(best, current)
               \/ verdict = "upToDate" /\ best # NoTag /\ ~Newer(best, current)
        BY <2>2 DEF Ended
      <3>2. \A t \in Candidates : best # NoTag /\ ~Newer(t, best)
        BY <3>1, LoopOver DEF Beats
      <3>3. best # NoTag => best \in Candidates
        BY DEF Loop, Candidates
      <3>4. ASSUME NEW t \in Candidates, Newer(t, current) PROVE Newer(best, current)
        <4>1. t \in TagShape /\ best \in TagShape /\ current \in TagShape
          BY <3>2, <3>3, ListType DEF Candidates, TypeOK
        <4>2. ~Newer(t, best)
          BY <3>2
        <4> QED BY <3>4, <4>1, <4>2, NewerOrder
      <3> QED BY <3>1, <3>2, <3>3, <3>4
    <2> QED BY <2>1, <2>2
  <1> QED BY <1>1, Invariance, PTL

\* The tie-break goes by the "v" of the current tag and then by its segments.
THEOREM FormIsKept == Spec => []FormKept
  <1>1. ASSUME IInv PROVE FormKept
    <2> USE <1>1 DEF IInv
    <2> SUFFICES ASSUME verdict \in {"update", "upToDate"}, NEW t \in Candidates,
                        SameVersion(t, best), t.v = current.v
                 PROVE  /\ best.v = current.v
                        /\ Len(t.segs) = Len(current.segs) => Len(best.segs) = Len(current.segs)
      BY DEF FormKept
    <2>1. next = Len(tags) + 1
      BY DEF Ended, Fresh, TypeOK
    <2>2. ~Beats(t, best)
      BY <2>1, LoopOver
    <2>3. ~Preferred(t, best)
      BY <2>2 DEF Beats
    <2> QED BY <2>3 DEF Preferred
  <1> QED BY <1>1, Invariance, PTL

\* Of two different candidates one beats the other, so the kept one is the same
\* for every order of the list.
THEOREM OrderIgnored == Spec => []ChoiceIgnoresOrder
  <1>1. ASSUME IInv PROVE ChoiceIgnoresOrder
    <2> USE <1>1 DEF IInv
    <2> SUFFICES ASSUME verdict \in {"update", "upToDate"}, NEW t \in Candidates, t # best
                 PROVE  Beats(best, t)
      BY DEF ChoiceIgnoresOrder
    <2>1. next = Len(tags) + 1
      BY DEF Ended, Fresh, TypeOK
    <2>2. best # NoTag /\ ~Beats(t, best)
      BY <2>1, LoopOver
    <2>3. t \in TagShape /\ best \in TagShape /\ current \in TagShape
      BY <2>2, ListType DEF Candidates, TypeOK
    <2>4. CASE SameVersion(t, best)
      <3>1. SameVersion(best, t)
        BY <2>3, <2>4, NewerOrder
      <3>2. Preferred(best, t) \/ Preferred(t, best)
        BY <2>3, <3>1, PreferredTotal
      <3> QED BY <2>2, <2>4, <3>1, <3>2 DEF Beats
    <2>5. CASE ~SameVersion(t, best)
      <3>1. Newer(t, best) \/ Newer(best, t)
        BY <2>3, <2>5, NewerOrder
      <3> QED BY <2>2, <3>1 DEF Beats
    <2> QED BY <2>4, <2>5
  <1> QED BY <1>1, Invariance, PTL

\* Announcing an update to whoever has followed the last one would mean a newer
\* candidate that the last check did not see.
THEOREM FollowedAdviceSettles == Spec => []AdviceSettles
  <1>1. ASSUME IInv PROVE AdviceSettles
    <2> USE <1>1 DEF IInv
    <2> SUFFICES ASSUME pc = "done", followed, rule.include = Unfiltered, rule.track = ""
                 PROVE  verdict = "upToDate"
      BY DEF AdviceSettles
    <2>1. /\ current \in Range(tags)
          /\ NumericCandidate(current) \/ SemverCandidate(current)
          /\ \A t \in Range(tags) : SemverCandidate(t) \/ (ParsesAsNumeric(t) /\ ~ParsesAsSemver(current))
                                      => ~Newer(t, current)
      BY DEF Settled
    <2>2. Len(current.segs) \in Nat
      BY ListType, LenType DEF TypeOK
    <2>3. mode \in {"semver", "numeric"}
      BY <2>1 DEF Ended, NumericCandidate, SemverCandidate, TypeOK
    <2>4. Candidate(current)
      BY <2>1, <2>2, <2>3 DEF Ended, Candidate, Included, NumericCandidate, SemverCandidate,
         ParsesAsNumeric, ParsesAsSemver, IsBareInteger
    <2>5. verdict # "skipped"
      <3>1. current \in Candidates
        BY <2>1, <2>4 DEF Candidates
      <3>2. next = Len(tags) + 1 => best # NoTag
        BY <3>1, LoopOver
      <3> QED BY <2>1, <2>3, <3>2 DEF Ended, Included
    <2>6. verdict # "update"
      <3> SUFFICES ASSUME verdict = "update" PROVE FALSE
        OBVIOUS
      <3>1. best \in Range(tags) /\ Candidate(best) /\ Newer(best, current)
        BY <2>3 DEF Ended, Loop
      <3>2. SemverCandidate(best) \/ (ParsesAsNumeric(best) /\ ~ParsesAsSemver(current))
        BY <2>3, <3>1 DEF Ended, Candidate, NumericCandidate
      <3> QED BY <2>1, <3>1, <3>2
    <2> QED BY <2>3, <2>5, <2>6 DEF Ended
  <1> QED BY <1>1, Invariance, PTL
=============================================================================
