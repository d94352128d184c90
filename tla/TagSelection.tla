---------------------------- MODULE TagSelection ----------------------------
(***************************************************************************)
(* What the check of one container makes of the tags of its repository:    *)
(* how the container is tracked, which tags are candidates, which of them  *)
(* is the newest, and whether that is an update.  Fetching the list is     *)
(* RegistryPass's; CheckRun takes the verdict as it comes.                 *)
(*                                                                         *)
(* A tag is its reading: `v` for a leading "v", the numbers in `segs` (none *)
(* if it does not begin as a version), and `pre` for what follows a dash:   *)
(* 0 for nothing, larger for later in the order of pre-releases.  Tags that *)
(* read alike ("1.2" and "1.02") differ in `text`, smaller for the longer   *)
(* spelling, then for the one that sorts first.                            *)
(***************************************************************************)
EXTENDS Integers, Sequences, Functions

CONSTANTS
  Tags,       \* the tags there are
  Lists,      \* what ListTags may return, each in any of its orders
  Filters,    \* the sets of tags an include expression may match
  Unfiltered, \* no include expression
  NoTag

TagShape == [v : BOOLEAN, segs : Seq(Nat), pre : Nat, text : Nat]

ASSUME TagAssumption ==
  /\ Tags \subseteq TagShape
  /\ Lists \subseteq Seq(Tags)
  /\ Filters \subseteq SUBSET Tags
  /\ Unfiltered \notin Filters
  /\ NoTag \notin Tags

VARIABLES
  current,    \* the tag the container runs
  rule,       \* the rule RuleFor found: include and track
  tags,       \* the tags of the repository
  mode,       \* how the container is tracked
  pc,         \* where checkContainer is
  next,       \* index of the loop over tags
  best,       \* bestTag of the loop
  verdict,    \* status of the result
  followed    \* history: `current` is what the last check of these tags advised

vars == <<current, rule, tags, mode, pc, next, best, verdict, followed>>

Rules == [include : Filters \cup {Unfiltered}, track : {"", "digest"}]

TypeOK ==
  /\ current \in Tags
  /\ rule \in Rules
  /\ tags \in Seq(Tags)
  /\ mode \in {"unknown", "semver", "numeric", "digest"}
  /\ pc \in {"resolving", "filtering", "selecting", "done"}
  /\ next \in 1..(Len(tags) + 1)
  /\ best \in Tags \cup {NoTag}
  /\ verdict \in {"none", "skipped", "update", "upToDate", "compareDigests"}
  /\ followed \in BOOLEAN

Init ==
  /\ current \in Tags /\ rule \in Rules /\ tags \in Lists
  /\ mode = "unknown" /\ pc = "resolving" /\ next = 1 /\ best = NoTag
  /\ verdict = "none" /\ followed = FALSE

-----------------------------------------------------------------------------
(* Reading and comparing tags.                                             *)

\* Masterminds takes up to three segments and any suffix.
ParsesAsSemver(t) == Len(t.segs) \in 1..3

ParsesAsNumeric(t) == Len(t.segs) >= 2 /\ t.pre = 0

IsBareInteger(t) == Len(t.segs) = 1 /\ t.pre = 0

\* Missing segments count as 0.
Seg(t, i) == IF i <= Len(t.segs) THEN t.segs[i] ELSE 0

CoreBelow(a, b) ==
  \E i \in 1..Len(b.segs) :
    /\ Seg(a, i) < Seg(b, i)
    /\ \A j \in 1..(i - 1) : Seg(a, j) = Seg(b, j)

SameCore(a, b) == \A i \in (DOMAIN a.segs) \cup (DOMAIN b.segs) : Seg(a, i) = Seg(b, i)

\* A release comes after its pre-releases.
PreBelow(p, q) == p # 0 /\ (q = 0 \/ p < q)

Newer(a, b) ==
  \/ CoreBelow(b, a)
  \/ (SameCore(a, b) /\ PreBelow(b.pre, a.pre))

SameVersion(a, b) == SameCore(a, b) /\ a.pre = b.pre

\* Mutation of Preferred: the number of segments is looked at before the "v".
PreferredBySegments(a, b) ==
  LET sameLen(t) == Len(t.segs) = Len(current.segs)
  IN  \/ sameLen(a) /\ ~sameLen(b)
      \/ /\ sameLen(a) = sameLen(b)
         /\ \/ a.v = current.v /\ b.v # current.v
            \/ a.v = b.v /\ a.text < b.text

\* Of two tags of the same version: the "v" of the current tag, then its number
\* of segments, then its suffix, then more segments, then the spelling.
Preferred(a, b) ==
  LET sameV(t)   == t.v = current.v
      sameLen(t) == Len(t.segs) = Len(current.segs)
      samePre(t) == t.pre = current.pre
  IN  \/ sameV(a) /\ ~sameV(b)
      \/ /\ sameV(a) = sameV(b)
         /\ \/ sameLen(a) /\ ~sameLen(b)
            \/ /\ sameLen(a) = sameLen(b)
               /\ \/ samePre(a) /\ ~samePre(b)
                  \/ /\ samePre(a) = samePre(b)
                     /\ \/ Len(a.segs) > Len(b.segs)
                        \/ (Len(a.segs) = Len(b.segs) /\ a.text < b.text)

\* Mutation of Beats: ties are left to the order of the list.
BeatsIfNewer(a, b) == Newer(a, b)

\* Tag a replaces b as bestTag.
Beats(a, b) == Newer(a, b) \/ (SameVersion(a, b) /\ Preferred(a, b))

\* What an include expression lets through.
Included(t) == rule.include = Unfiltered \/ t \in rule.include

\* Mutation of SemverCandidate: build numbers count as versions.
SemverCandidateOrBuild(t) ==
  /\ ParsesAsSemver(t)
  /\ rule.include = Unfiltered => t.pre = 0

\* Without an include expression pre-releases are left out.
SemverCandidate(t) ==
  /\ ~IsBareInteger(t) /\ ParsesAsSemver(t)
  /\ rule.include = Unfiltered => t.pre = 0

NumericCandidate(t) == ~IsBareInteger(t) /\ ParsesAsNumeric(t)

Candidate(t) ==
  /\ Included(t)
  /\ IF mode = "numeric" THEN NumericCandidate(t) ELSE SemverCandidate(t)

-----------------------------------------------------------------------------
(* The check.                                                              *)

Conclude(status) == pc' = "done" /\ verdict' = status

\* resolveTrackingMode; digests are compared without looking at the tags.
Resolve ==
  /\ pc = "resolving"
  /\ mode' = IF rule.track = "digest" THEN "digest"
             ELSE IF ParsesAsSemver(current) THEN "semver"
             ELSE IF ParsesAsNumeric(current) THEN "numeric" ELSE "digest"
  /\ IF mode' = "digest"
     THEN Conclude("compareDigests")
     ELSE pc' = "filtering" /\ UNCHANGED verdict
  /\ UNCHANGED <<current, rule, tags, next, best, followed>>

\* The include expression must match the current tag and some other.  Tags it
\* does not match are passed over in the loop below.
Filter ==
  /\ pc = "filtering"
  /\ IF ~Included(current) \/ (rule.include # Unfiltered /\ \A t \in Range(tags) : ~Included(t))
     THEN Conclude("skipped")
     ELSE pc' = "selecting" /\ UNCHANGED verdict
  /\ UNCHANGED <<current, rule, tags, mode, next, best, followed>>

\* Mutation of Consider: any tag newer than the current one replaces bestTag.
ConsiderAgainstCurrent ==
  /\ pc = "selecting" /\ next <= Len(tags)
  /\ best' = IF /\ Candidate(tags[next])
                /\ best = NoTag \/ Beats(tags[next], current)
             THEN tags[next] ELSE best
  /\ next' = next + 1
  /\ UNCHANGED <<current, rule, tags, mode, pc, verdict, followed>>

\* One round of the loop of selectSemverTag or selectNumericTag.
Consider ==
  /\ pc = "selecting" /\ next <= Len(tags)
  /\ best' = IF /\ Candidate(tags[next])
                /\ best = NoTag \/ Beats(tags[next], best)
             THEN tags[next] ELSE best
  /\ next' = next + 1
  /\ UNCHANGED <<current, rule, tags, mode, pc, verdict, followed>>

\* The selected tag is an update if its version is greater.
Compare ==
  /\ pc = "selecting" /\ next > Len(tags)
  /\ Conclude(IF best = NoTag THEN "skipped" ELSE IF Newer(best, current) THEN "update" ELSE "upToDate")
  /\ UNCHANGED <<current, rule, tags, mode, next, best, followed>>

\* The user runs the announced tag, and the repository is listed once more.
Recreate ==
  /\ pc = "done" /\ verdict = "update"
  /\ current' = best /\ followed' = TRUE
  /\ tags' \in {l \in Lists : Range(l) = Range(tags)}
  /\ mode' = "unknown" /\ pc' = "resolving" /\ next' = 1 /\ best' = NoTag /\ verdict' = "none"
  /\ UNCHANGED rule

Next == Resolve \/ Filter \/ Consider \/ Compare \/ Recreate

Spec == Init /\ [][Next]_vars

-----------------------------------------------------------------------------
Candidates == {t \in Range(tags) : Candidate(t)}

\* After a selection the verdict is what the candidates as a set say: an update
\* exactly if one of them is newer, and then the newest of them; skipped exactly
\* if there is none.
VerdictIsRight ==
  pc = "done" /\ mode # "digest" /\ Included(current) =>
    /\ verdict = "update" <=> \E t \in Candidates : Newer(t, current)
    /\ verdict = "skipped" <=> Candidates = {}
    /\ verdict # "skipped" => best \in Candidates /\ \A t \in Candidates : ~Newer(t, best)

\* The choice does not depend on the order in which the registry lists its tags:
\* the chosen tag beats every other candidate.
ChoiceIgnoresOrder ==
  verdict \in {"update", "upToDate"} =>
    \A t \in Candidates \ {best} : Beats(best, t)

\* Of several spellings of the newest version, one like the current tag is
\* offered: first by its "v", then by its number of segments.
FormKept ==
  verdict \in {"update", "upToDate"} =>
    \A t \in Candidates :
      SameVersion(t, best) /\ t.v = current.v =>
        /\ best.v = current.v
        /\ Len(t.segs) = Len(current.segs) => Len(best.segs) = Len(current.segs)

\* Whoever runs the announced tag has arrived: the same tags, in whatever order,
\* give no further update, even if the tag is tracked in another mode than the
\* one before.
AdviceSettles ==
  pc = "done" /\ followed /\ rule.include = Unfiltered /\ rule.track = "" =>
    verdict = "upToDate"
=============================================================================
