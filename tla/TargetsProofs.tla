---------------------------- MODULE TargetsProofs ----------------------------
(***************************************************************************)
(* Theorems about Targets, for any containers, rules, labels and           *)
(* references: what a container is checked for follows from the            *)
(* configuration and from labels that are its own or its image's.          *)
(***************************************************************************)
EXTENDS Targets, WellFoundedInduction, TLAPS

\* What is known of an image is what it is stamped with, or nothing.
Known(i) == inspected[i] # Absent => inspected[i] \in {stamped[i], <<>>}

\* Labels are put together from those, with the container's own on top.
Described(c) ==
  labels[c] # Absent =>
    \E image \in {stamped[ImageOf[c]], <<>>} : labels[c] = Overlay(image, own[c])

\* A container has been judged by its labels.
Judged(c) ==
  target[c] # Absent =>
    /\ phase = "checking"
    /\ target[c] = "excluded" <=> ~ShouldMonitor(c, labels[c])
    /\ target[c] \in {"semver", "numeric"} => target[c] = TrackingMode(ref[c], labels[c])
    /\ target[c] \in {"digest", "digestNews"} => TrackingMode(ref[c], labels[c]) = "digest"

\* A container has digest news when the first digest its image has under its path
\* is not the registry's; both stay as they were found until the pass ends.
Compared(c) ==
  target[c] = "digestNews" =>
    /\ pulled[ImageOf[c]] \in PullLists /\ remote[ref[c]] \in Digests /\ ref[c] \in Refs
    /\ LocalDigest(pulled[ImageOf[c]], ref[c]) \notin {Absent, remote[ref[c]]}

\* Once containers are checked, all of them have labels; between passes none has.
Shape ==
  /\ DOMAIN labels = Containers /\ DOMAIN inspected = Images
  /\ target \in [Containers -> Outcomes \cup {Absent}]
  /\ phase = "checking" => \A c \in Containers : labels[c] # Absent
  /\ phase \notin {"listing", "checking"} =>
       labels = NoneOf(Containers) /\ inspected = NoneOf(Images)
  /\ phase \in {"listing", "checking"} => ref \in [Containers -> Refs]
  /\ DOMAIN pulled = Images /\ DOMAIN remote = Refs

IInv ==
  /\ Shape
  /\ \A i \in Images : Known(i)
  /\ \A c \in Containers : Described(c) /\ Judged(c) /\ Compared(c)

-----------------------------------------------------------------------------
LEMMA InitInv == Init => IInv
  <1> SUFFICES ASSUME Init PROVE IInv
    OBVIOUS
  <1>1. Shape
    BY DEF Init, Shape, NoneOf
  <1>2. \A i \in Images : Known(i)
    BY DEF Init, Known, NoneOf
  <1>3. \A c \in Containers : Described(c) /\ Judged(c) /\ Compared(c)
    BY RefsAssumption DEF Init, Described, Judged, Compared, NoneOf, Outcomes
  <1> QED BY <1>1, <1>2, <1>3 DEF IInv

\* What was found and given is kept, and a digest check finds and asks what the
\* ones before it did.
LEMMA ComparedStep ==
  ASSUME IInv, NEW c \in Containers,
         Exclude(c) \/ Skip(c) \/ CheckTags(c) \/ CheckDigest(c), NEW d \in Containers
  PROVE  Compared(d)'
  <1> USE DEF configVars, fleetVars, digestVars
  <1>1. /\ phase = "checking" /\ target[c] = Absent /\ ref \in [Containers -> Refs]
        /\ target \in [Containers -> Outcomes \cup {Absent}]
        /\ DOMAIN pulled = Images /\ DOMAIN remote = Refs /\ UNCHANGED ref
    BY DEF Exclude, Skip, CheckTags, CheckDigest, Due, IInv, Shape
  <1>2. ImageOf[c] \in Images /\ ImageOf[d] \in Images /\ ref[c] \in Refs /\ ref[d] \in Refs
    BY <1>1, TargetsAssumption
  <1>3. Absent \notin PullLists /\ Absent \notin Digests /\ Absent # "digestNews"
    BY TargetsAssumption, RefsAssumption DEF Outcomes
  <1>4. CASE UNCHANGED digestVars /\ \E outcome \in {"excluded", "skipped", "semver", "numeric"} : Put(c, outcome)
    <2>1. target'[d] = "digestNews" => target[d] = "digestNews"
      BY <1>1, <1>4 DEF Put
    <2> QED BY <1>1, <1>4, <2>1 DEF IInv, Compared
  <1>5. ASSUME NEW found \in PullLists, NEW given \in Digests,
               pulled[ImageOf[c]] \in {Absent, found}, remote[ref[c]] \in {Absent, given},
               LocalDigest(found, ref[c]) # Absent,
               pulled' = [pulled EXCEPT ![ImageOf[c]] = found],
               remote' = [remote EXCEPT ![ref[c]] = given],
               Put(c, IF LocalDigest(found, ref[c]) = given THEN "digest" ELSE "digestNews")
        PROVE  Compared(d)'
    <2>1. CASE d = c
      <3>1. pulled'[ImageOf[d]] = found /\ remote'[ref[d]] = given
        BY <1>1, <1>2, <1>5, <2>1
      <3>2. target'[d] = "digestNews" => LocalDigest(found, ref[d]) # given
        BY <1>1, <1>5, <2>1 DEF Put
      <3> QED BY <1>1, <1>2, <1>5, <2>1, <3>1, <3>2 DEF Compared
    <2>2. CASE d # c
      <3>1. target'[d] = target[d]
        BY <1>1, <1>5, <2>2 DEF Put
      <3>2. pulled[ImageOf[d]] \in PullLists => pulled'[ImageOf[d]] = pulled[ImageOf[d]]
        BY <1>1, <1>2, <1>3, <1>5
      <3>3. remote[ref[d]] \in Digests => remote'[ref[d]] = remote[ref[d]]
        BY <1>1, <1>2, <1>3, <1>5
      <3> QED BY <1>1, <3>1, <3>2, <3>3 DEF IInv, Compared
    <2> QED BY <2>1, <2>2
  <1>6. CASE Exclude(c) \/ Skip(c)
    BY <1>4, <1>6 DEF Exclude, Skip
  <1>7. CASE CheckTags(c)
    <2>1. TrackingMode(ref[c], labels[c]) \in {"semver", "numeric"}
      BY <1>2, <1>7, RefsAssumption DEF CheckTags, Checkable, TrackingMode
    <2> QED BY <1>4, <1>7, <2>1 DEF CheckTags
  <1>8. CASE CheckDigest(c)
    BY <1>4, <1>5, <1>8 DEF CheckDigest
  <1> QED BY <1>6, <1>7, <1>8

\* Checking a container judges it and disturbs no other.
LEMMA CheckStep ==
  ASSUME IInv, NEW c \in Containers,
         Exclude(c) \/ Skip(c) \/ CheckTags(c) \/ CheckDigest(c)
  PROVE  IInv'
  <1> USE DEF configVars, fleetVars, digestVars
  <1>1. /\ phase = "checking" /\ target[c] = Absent
        /\ UNCHANGED <<phase, byImage, excluded, served, ref, own, stamped, inspected, labels>>
    BY DEF Exclude, Skip, CheckTags, CheckDigest, Due
  <1>2. ref[c] \in Refs
    BY <1>1 DEF IInv, Shape
  <1>3. CheckTags(c) => TrackingMode(ref[c], labels[c]) \in {"semver", "numeric"}
    BY <1>2, RefsAssumption DEF CheckTags, Checkable, TrackingMode
  <1>4. PICK outcome \in Outcomes :
          /\ Put(c, outcome)
          /\ outcome = "excluded" <=> ~ShouldMonitor(c, labels[c])
          /\ outcome \in {"semver", "numeric"} => outcome = TrackingMode(ref[c], labels[c])
          /\ outcome \in {"digest", "digestNews"} => TrackingMode(ref[c], labels[c]) = "digest"
    <2>1. CASE Exclude(c)
      BY <2>1 DEF Exclude, Outcomes
    <2>2. CASE Skip(c)
      BY <2>2 DEF Skip, Outcomes
    <2>3. CASE CheckTags(c)
      BY <2>3, <1>3 DEF CheckTags, Outcomes
    <2>4. CASE CheckDigest(c)
      BY <2>4 DEF CheckDigest, Outcomes
    <2> QED BY <2>1, <2>2, <2>3, <2>4
  <1>p. DOMAIN pulled' = Images /\ DOMAIN remote' = Refs
    BY DEF IInv, Shape, Exclude, Skip, CheckTags, CheckDigest
  <1>5. Shape'
    BY <1>1, <1>4, <1>p DEF IInv, Shape, Put
  <1>6. \A i \in Images : Known(i)'
    BY <1>1 DEF IInv, Known
  <1>7. \A d \in Containers : Described(d)'
    BY <1>1 DEF IInv, Described
  <1>8. ASSUME NEW d \in Containers PROVE Judged(d)'
    <2>1. target'[d] = IF d = c THEN outcome ELSE target[d]
      BY <1>4 DEF IInv, Shape, Put
    <2>2. ShouldMonitor(d, labels[d])' <=> ShouldMonitor(d, labels[d])
      BY <1>1 DEF ShouldMonitor
    <2>3. TrackingMode(ref[d], labels[d])' = TrackingMode(ref[d], labels[d])
      BY <1>1 DEF TrackingMode, RuleFor, ConfigRule
    <2> QED BY <1>1, <1>4, <2>1, <2>2, <2>3 DEF IInv, Judged
  <1>9. ASSUME NEW d \in Containers PROVE Compared(d)'
    BY <1>1, ComparedStep
  <1> QED BY <1>5, <1>6, <1>7, <1>8, <1>9 DEF IInv

LEMMA ListStep ==
  ASSUME IInv, NEW c \in Containers, List(c)
  PROVE  IInv'
  <1> USE DEF configVars, fleetVars, digestVars
  <1> DEFINE i == ImageOf[c]
  <1>1. /\ phase = "listing" /\ labels[c] = Absent
        /\ UNCHANGED <<phase, byImage, excluded, served, ref, own, stamped, target, pulled, remote>>
    BY DEF List
  <1>2. i \in Images
    BY TargetsAssumption
  <1>3. PICK found \in Inspected(i) :
          /\ inspected' = [inspected EXCEPT ![i] = found]
          /\ labels' = [labels EXCEPT ![c] = Overlay(found, own[c])]
    BY DEF List, Merged
  <1>4. found \in {stamped[i], <<>>}
    BY <1>2, <1>3 DEF IInv, Known, Inspected
  <1>5. Shape'
    BY <1>1, <1>3 DEF IInv, Shape
  <1>6. ASSUME NEW j \in Images PROVE Known(j)'
    BY <1>1, <1>2, <1>3, <1>4 DEF IInv, Shape, Known
  <1>7. ASSUME NEW d \in Containers PROVE Described(d)'
    <2>1. CASE d = c
      <3>1. labels'[d] = Overlay(found, own[d])
        BY <1>3, <2>1 DEF IInv, Shape
      <3> QED BY <1>1, <1>4, <2>1, <3>1 DEF Described
    <2>2. CASE d # c
      <3>1. labels'[d] = labels[d]
        BY <1>3, <2>2 DEF IInv, Shape
      <3> QED BY <1>1, <3>1 DEF IInv, Described
    <2> QED BY <2>1, <2>2
  <1>8. ASSUME NEW d \in Containers PROVE Judged(d)' /\ Compared(d)'
    BY <1>1 DEF IInv, Judged, Compared
  <1> QED BY <1>5, <1>6, <1>7, <1>8 DEF IInv

LEMMA NextInv == IInv /\ [Next]_vars => IInv'
  <1> SUFFICES ASSUME IInv, [Next]_vars PROVE IInv'
    OBVIOUS
  <1> USE DEF configVars, fleetVars, digestVars
  <1>n. \A c \in Containers : phase # "checking" => target[c] = Absent
    BY DEF IInv, Judged
  <1>a. Absent # "digestNews"
    BY RefsAssumption DEF Outcomes
  <1>1. CASE Load
    <2>1. /\ phase = "loading" /\ phase' \in {"resting", "refused"}
          /\ UNCHANGED <<ref, own, stamped, inspected, labels, target, pulled, remote>>
      BY <1>1 DEF Load
    <2>2. Shape'
      BY <2>1 DEF IInv, Shape
    <2> QED BY <1>a, <1>n, <2>1, <2>2 DEF IInv, Known, Described, Judged, Compared
  <1>2. CASE BeginPass
    <2>1. /\ phase = "resting" /\ phase' = "listing" /\ ref' \in [Containers -> Refs]
          /\ UNCHANGED <<inspected, labels, target, pulled, remote>>
      BY <1>2, RefsAssumption DEF BeginPass
    <2>2. \A c \in Containers : labels[c] = Absent
      BY <2>1 DEF IInv, Shape, NoneOf
    <2>3. \A i \in Images : inspected[i] = Absent
      BY <2>1 DEF IInv, Shape, NoneOf
    <2>4. Shape'
      BY <2>1 DEF IInv, Shape
    <2> QED BY <1>a, <1>n, <2>1, <2>2, <2>3, <2>4 DEF IInv, Known, Described, Judged, Compared
  <1>3. CASE Listed
    <2>1. /\ phase = "listing" /\ phase' = "checking" /\ (\A c \in Containers : labels[c] # Absent)
          /\ UNCHANGED <<ref, own, stamped, inspected, labels, target, pulled, remote>>
      BY <1>3 DEF Listed
    <2>2. Shape'
      BY <2>1 DEF IInv, Shape
    <2> QED BY <1>a, <1>n, <2>1, <2>2 DEF IInv, Known, Described, Judged, Compared
  <1>4. CASE EndPass
    <2>1. phase' = "resting"
      BY <1>4 DEF EndPass
    <2>2. /\ labels' = NoneOf(Containers) /\ target' = NoneOf(Containers)
          /\ inspected' = NoneOf(Images)
          /\ pulled' = NoneOf(Images) /\ remote' = NoneOf(Refs)
      BY <1>4 DEF EndPass
    <2>3. \A c \in Containers : labels'[c] = Absent /\ target'[c] = Absent
      BY <2>2 DEF NoneOf
    <2>4. \A i \in Images : inspected'[i] = Absent
      BY <2>2 DEF NoneOf
    <2>5. Shape'
      BY <2>1, <2>2 DEF Shape, NoneOf
    <2> QED BY <1>a, <2>3, <2>4, <2>5 DEF IInv, Known, Described, Judged, Compared
  <1>5. ASSUME NEW c \in Containers,
               List(c) \/ Exclude(c) \/ Skip(c) \/ CheckTags(c) \/ CheckDigest(c)
        PROVE  IInv'
    BY <1>5, ListStep, CheckStep
  <1>6. CASE UNCHANGED vars
    <2>1. UNCHANGED <<phase, byImage, excluded, ref, own, stamped, inspected, labels, target, pulled, remote>>
      BY <1>6 DEF vars
    <2>2. \A c \in Containers : Judged(c)'
      BY <2>1 DEF IInv, Judged, ShouldMonitor, TrackingMode, RuleFor, ConfigRule
    <2>3. \A c \in Containers : Described(c)' /\ Compared(c)'
      BY <2>1 DEF IInv, Described, Compared
    <2>4. \A i \in Images : Known(i)'
      BY <2>1 DEF IInv, Known
    <2>5. Shape'
      BY <2>1 DEF IInv, Shape
    <2> QED BY <2>2, <2>3, <2>4, <2>5 DEF IInv
  <1> QED BY <1>1, <1>2, <1>3, <1>4, <1>5, <1>6 DEF Next

\* The inductive invariant of loading and of every pass.
THEOREM Invariant == Spec => []IInv
  BY InitInv, NextInv, PTL DEF Spec

-----------------------------------------------------------------------------
\* An own label wins over the image's.
LEMMA OwnWins ==
  ASSUME NEW image, NEW container, NEW k, k \in DOMAIN container
  PROVE  Label(Overlay(image, container), k) = container[k]
  BY DEF Label, Overlay

\* A container opted out by name or by its own label is never checked.
THEOREM OptOutRespected == Spec => []OptOutHolds
  <1>1. ASSUME IInv PROVE OptOutHolds
    <2> SUFFICES ASSUME NEW c \in Containers, target[c] \in Outcomes \ {"excluded"}
                 PROVE  c \notin excluded /\ Label(own[c], "watch") # "false"
      BY DEF OptOutHolds
    <2>1. target[c] # Absent /\ ShouldMonitor(c, labels[c]) /\ labels[c] # Absent
      BY <1>1, RefsAssumption DEF IInv, Shape, Judged
    <2>2. PICK image : labels[c] = Overlay(image, own[c])
      BY <1>1, <2>1 DEF IInv, Described
    <2>3. ASSUME Label(own[c], "watch") = "false" PROVE FALSE
      <3>1. "watch" \in DOMAIN own[c] /\ own[c]["watch"] = "false"
        BY <2>3 DEF Label, None
      <3> QED BY <2>1, <2>2, <3>1, OwnWins DEF ShouldMonitor
    <2> QED BY <2>1, <2>3 DEF ShouldMonitor
  <1> QED BY <1>1, Invariant, PTL

\* A container is excluded only by its name, its labels or its image's.
THEOREM ExclusionJustified == Spec => []ExcludedForOwnReason
  <1>1. ASSUME IInv PROVE ExcludedForOwnReason
    <2> SUFFICES ASSUME NEW c \in Containers, target[c] = "excluded",
                        ShouldMonitor(c, Overlay(stamped[ImageOf[c]], own[c]))
                 PROVE  FALSE
      BY DEF ExcludedForOwnReason
    <2>1. target[c] # Absent /\ ~ShouldMonitor(c, labels[c]) /\ labels[c] # Absent
      BY <1>1, RefsAssumption DEF IInv, Shape, Judged, Outcomes
    <2>2. Label(labels[c], "watch") = "false" /\ labels[c] # Overlay(stamped[ImageOf[c]], own[c])
      BY <2>1 DEF ShouldMonitor
    <2>3. labels[c] = Overlay(<<>>, own[c])
      BY <1>1, <2>1, <2>2 DEF IInv, Described
    <2>4. DOMAIN Overlay(<<>>, own[c]) = DOMAIN own[c]
      BY DEF Overlay
    <2>5. "watch" \in DOMAIN own[c]
      BY <2>2, <2>3, <2>4 DEF Label, None
    <2> QED BY <2>2, <2>3, <2>5, OwnWins DEF ShouldMonitor
  <1> QED BY <1>1, Invariant, PTL

\* The page shown before an update is of the kind its notification names.
THEOREM LinksAgree == Spec => []LinksAgreeWithNews
  <1>1. ASSUME IInv PROVE LinksAgreeWithNews
    <2> SUFFICES ASSUME NEW c \in Containers, target[c] \in {"semver", "numeric", "digestNews"}
                 PROVE  Preview(c) = News(c)
      BY DEF LinksAgreeWithNews
    <2>1. target[c] # Absent
      BY RefsAssumption DEF Outcomes
    <2>2. CASE target[c] = "digestNews"
      BY <1>1, <2>1, <2>2 DEF IInv, Judged, Preview, News
    <2>3. CASE target[c] \in {"semver", "numeric"}
      <3>1. TrackingMode(ref[c], labels[c]) \in {"semver", "numeric"} /\ target[c] # "digestNews"
        BY <1>1, <2>1, <2>3 DEF IInv, Judged
      <3> QED BY <3>1 DEF Preview, News, URL
    <2> QED BY <2>2, <2>3
  <1> QED BY <1>1, Invariant, PTL

-----------------------------------------------------------------------------
IsPath(path) == path = [space |-> path.space, name |-> path.name]

\* The other spelling of a path on Docker Hub.
Twin(path) == [path EXCEPT !.space = IF @ = None THEN "library" ELSE None]

LEMMA TwinFields ==
  ASSUME NEW path, IsPath(path)
  PROVE  /\ Twin(path) = [space |-> IF path.space = None THEN "library" ELSE None, name |-> path.name]
         /\ IsPath(Twin(path))
  <1> DEFINE other == IF path.space = None THEN "library" ELSE None
  <1>1. Twin(path) = [path EXCEPT !.space = other]
    BY DEF Twin
  <1>2. [path EXCEPT !.space = other] = [space |-> other, name |-> path.name]
    <2> DEFINE a == path.space
               b == path.name
    <2>1. path = [space |-> a, name |-> b]
      BY DEF IsPath
    <2>2. [[space |-> a, name |-> b] EXCEPT !.space = other] = [space |-> other, name |-> b]
      <3> HIDE DEF a, b, other
      <3> QED OBVIOUS
    <2> HIDE DEF other
    <2> QED BY <2>1, <2>2
  <1>3. IsPath([space |-> other, name |-> path.name])
    BY DEF IsPath
  <1> QED BY <1>1, <1>2, <1>3

LEMMA TwinOfTwin ==
  ASSUME NEW path, IsPath(path), path.space \in {"library", None}
  PROVE  Twin(path).space \in {"library", None} /\ Twin(Twin(path)) = path
  <1>1. IsPath(Twin(path)) /\ Twin(path).space \in {"library", None}
    BY TwinFields
  <1>2. Twin(Twin(path)) = [space |-> path.space, name |-> path.name]
    <2>1. CASE path.space = None
      BY <1>1, <2>1, TwinFields DEF None
    <2>2. CASE path.space = "library"
      BY <1>1, <2>2, TwinFields DEF None
    <2> QED BY <2>1, <2>2
  <1> QED BY <1>1, <1>2 DEF IsPath

LEMMA OneSpelling ==
  ASSUME NEW host, NEW path, host # DockerHub \/ path.space \notin {"library", None}
  PROVE  Range(RuleLookupKeys(host, path)) = {path}
  <1>1. RuleLookupKeys(host, path) = <<path>>
    BY DEF RuleLookupKeys
  <1> DEFINE keys == <<path>>
  <1>2. DOMAIN keys = {1} /\ keys[1] = path
    OBVIOUS
  <1> HIDE DEF keys
  <1>3. Range(keys) = {path}
    BY <1>2 DEF Range
  <1> QED BY <1>1, <1>3 DEF keys

LEMMA TwoSpellings ==
  ASSUME NEW path, path.space \in {"library", None}
  PROVE  Range(RuleLookupKeys(DockerHub, path)) = {path, Twin(path)}
  <1>1. RuleLookupKeys(DockerHub, path) = <<path, Twin(path)>>
    BY DEF RuleLookupKeys, Twin
  <1> DEFINE keys == <<path, Twin(path)>>
  <1>2. DOMAIN keys = {1, 2} /\ keys[1] = path /\ keys[2] = Twin(path)
    OBVIOUS
  <1> HIDE DEF keys
  <1>3. Range(keys) = {path, Twin(path)}
    BY <1>2 DEF Range
  <1> QED BY <1>1, <1>3 DEF keys

\* Two spellings tried for one reference are claimed together by a rule of either.
LEMMA SpellingsClaimed ==
  ASSUME NEW r \in Refs, r.kind = "tagged",
         NEW p \in Range(RuleLookupKeys(r.host, r.path)),
         NEW q \in Range(RuleLookupKeys(r.host, r.path)), p # q
  PROVE  q \in Range(RuleLookupKeys(DockerHub, q)) /\ q \in Range(RuleLookupKeys(DockerHub, p))
  <1> DEFINE path == r.path
  <1>1. IsPath(path)
    BY RefsAssumption DEF IsPath
  <1>2. /\ path.space \in {"library", None}
        /\ \/ p = path /\ q = Twin(path)
           \/ p = Twin(path) /\ q = path
    <2>1. CASE r.host # DockerHub \/ path.space \notin {"library", None}
      <3>1. Range(RuleLookupKeys(r.host, path)) = {path}
        BY <2>1, OneSpelling
      <3> QED BY <3>1
    <2>2. CASE r.host = DockerHub /\ path.space \in {"library", None}
      <3>1. Range(RuleLookupKeys(DockerHub, path)) = {path, Twin(path)}
        BY <2>2, TwoSpellings
      <3> QED BY <2>2, <3>1
    <2> QED BY <2>1, <2>2
  <1>3. Twin(path).space \in {"library", None} /\ Twin(Twin(path)) = path
    BY <1>1, <1>2, TwinOfTwin
  <1>4. p.space \in {"library", None} /\ q.space \in {"library", None} /\ q = Twin(p)
    BY <1>2, <1>3
  <1> QED BY <1>4, TwoSpellings

\* No image is claimed by two rules that NewApp accepted.
THEOREM NoCompetition == Spec => []RulesNeverCompete
  <1>1. Init => RulesNeverCompete
    <2> SUFFICES ASSUME Init PROVE RulesNeverCompete
      OBVIOUS
    <2>1. DOMAIN byImage = {}
      BY DEF Init
    <2> QED BY <2>1 DEF RulesNeverCompete
  <1>2. ASSUME RulesNeverCompete, [Next]_vars PROVE RulesNeverCompete'
    <2>1. CASE UNCHANGED byImage
      BY <1>2, <2>1 DEF RulesNeverCompete
    <2>2. CASE Load /\ ~UNCHANGED byImage
      <3>1. PICK rules : RulesAccepted(rules) /\ byImage' = Compiled(rules)
        BY <2>2 DEF Load, configVars
      <3> SUFFICES ASSUME NEW r \in Refs, r.kind = "tagged",
                          NEW p \in Range(RuleLookupKeys(r.host, r.path)), p \in DOMAIN byImage',
                          NEW q \in Range(RuleLookupKeys(r.host, r.path)), q \in DOMAIN byImage',
                          p # q
                   PROVE  FALSE
        BY DEF RulesNeverCompete
      <3>2. DOMAIN byImage' = {rule.image : rule \in Range(rules)}
        BY <3>1 DEF Compiled
      <3>3. PICK i \in DOMAIN rules : rules[i].image = p
        BY <3>2 DEF Range
      <3>4. PICK j \in DOMAIN rules : rules[j].image = q
        BY <3>2 DEF Range
      <3>5. q \in Claimed(rules[i]) /\ q \in Claimed(rules[j])
        BY <3>3, <3>4, SpellingsClaimed DEF Claimed
      <3> QED BY <3>1, <3>3, <3>4, <3>5 DEF RulesAccepted
    <2>3. Load \/ UNCHANGED byImage
      BY <1>2 DEF Next, vars, configVars, BeginPass, Listed, EndPass, List, Exclude, Skip,
         CheckTags, CheckDigest
    <2> QED BY <2>1, <2>2, <2>3
  <1> QED BY <1>1, <1>2, PTL DEF Spec

-----------------------------------------------------------------------------
\* A set of numbers has a least one.
LEMMA Least ==
  ASSUME NEW S \in SUBSET Nat, S # {}
  PROVE  \E i \in S : \A j \in S : i <= j
  <1> DEFINE R == OpToRel(<, Nat)
  <1>1. PICK i \in S : \A j \in S : <<j, i>> \notin R
    BY NatLessThanWellFounded, WFMin
  <1>2. ASSUME NEW j \in S PROVE i <= j
    <2>1. i \in Nat /\ j \in Nat /\ <<j, i>> \in Nat \X Nat
      OBVIOUS
    <2>2. ~(j < i)
      BY <1>1, <2>1 DEF OpToRel
    <2> QED BY <2>1, <2>2
  <1> QED BY <1>2

\* LocalDigest is a digest the image has under the path of the reference.
LEMMA LocalDigestIsListed ==
  ASSUME NEW found \in PullLists, NEW r, LocalDigest(found, r) # Absent
  PROVE  \E e \in Range(found) : e.path = r.path /\ e.digest = LocalDigest(found, r)
  <1> DEFINE same == {i \in DOMAIN found : found[i].path = r.path}
             least == CHOOSE i \in same : \A j \in same : i <= j
  <1>1. same # {} /\ LocalDigest(found, r) = found[least].digest
    BY DEF LocalDigest, Earliest
  <1>2. same \in SUBSET Nat
    <2>1. DOMAIN found = 1..Len(found) /\ Len(found) \in Nat
      BY TargetsAssumption
    <2> QED BY <2>1
  <1>3. \E i \in same : \A j \in same : i <= j
    <2> HIDE DEF same
    <2> QED BY <1>1, <1>2, Least
  <1>4. least \in same
    <2> HIDE DEF same
    <2> QED BY <1>3
  <1>5. least \in DOMAIN found /\ found[least].path = r.path
    BY <1>4
  <1> HIDE DEF least
  <1> QED BY <1>1, <1>5 DEF Range

\* A digest reported as new is not the one the image has under that path.
THEOREM NewsIsReal == Spec => []DigestNewsIsReal
  <1>1. IInv => DigestNewsIsReal
    <2> SUFFICES ASSUME IInv, NEW c \in Containers, target[c] = "digestNews",
                        NEW d \in Range(pulled[ImageOf[c]]), d.path = ref[c].path,
                        d.digest = remote[ref[c]]
                 PROVE  \E e \in Range(pulled[ImageOf[c]]) : e.path = ref[c].path /\ e # d
      BY DEF DigestNewsIsReal
    <2>1. /\ pulled[ImageOf[c]] \in PullLists
          /\ LocalDigest(pulled[ImageOf[c]], ref[c]) \notin {Absent, remote[ref[c]]}
      BY DEF IInv, Compared
    <2>2. PICK e \in Range(pulled[ImageOf[c]]) :
            e.path = ref[c].path /\ e.digest = LocalDigest(pulled[ImageOf[c]], ref[c])
      BY <2>1, LocalDigestIsListed
    <2> QED BY <2>1, <2>2
  <1> QED BY <1>1, Invariant, PTL

-----------------------------------------------------------------------------
(* Types, and with them what an accepted configuration is like.            *)

\* What the configuration became, and the labels a pass started from.
Configured ==
  /\ phase \in {"loading", "refused", "resting", "listing", "checking"}
  /\ written \subseteq RawRules
  /\ \A path \in DOMAIN byImage : byImage[path] \in Rules \ {NoRule}
  /\ excluded \subseteq Containers
  /\ PublicHosts \subseteq served
  /\ phase \in {"listing", "checking"} =>
       own \in [Containers -> OwnLabels] /\ stamped \in [Images -> ImageLabels]

\* Each path of an accepted configuration has a rule that says something: a tag
\* pattern that compiles, or digest tracking, or both.
LEMMA CompiledRules ==
  ASSUME NEW rules, RulesAccepted(rules), NEW path \in DOMAIN Compiled(rules)
  PROVE  Compiled(rules)[path] \in Rules \ {NoRule}
  <1> DEFINE rule == CHOOSE r \in Range(rules) : r.image = path
  <1>1. \E r \in Range(rules) : r.image = path
    BY DEF Compiled
  <1>2. rule \in Range(rules)
    BY <1>1
  <1>3. RuleAccepted(rule)
    BY <1>2 DEF RulesAccepted, Range
  <1>4. Compiled(rules)[path] = [include |-> rule.include, track |-> EffectiveTrack(rule)]
    BY <1>1 DEF Compiled
  <1> HIDE DEF rule
  <1>5. [include |-> rule.include, track |-> EffectiveTrack(rule)] \in Rules
    BY <1>3 DEF RuleAccepted, Rules
  <1>6. [include |-> rule.include, track |-> EffectiveTrack(rule)] # NoRule
    BY <1>3 DEF RuleAccepted, NoRule, None
  <1> QED BY <1>4, <1>5, <1>6

\* Every step keeps the configuration as it was accepted.
LEMMA ConfiguredStep ==
  ASSUME Configured, [Next]_vars
  PROVE  Configured'
  <1> USE DEF configVars, fleetVars, digestVars
  <1>1. CASE Load
    <2>1. CASE phase' = "refused" /\ UNCHANGED configVars
      BY <2>1 DEF Configured
    <2>2. CASE ~(phase' = "refused" /\ UNCHANGED configVars)
      <3>1. PICK rules \in {<<>>} \cup {<<r>> : r \in RawRules} \cup (RawRules \X RawRules),
                 names \in ExcludeLists, hosts \in RegistryLists :
              /\ RulesAccepted(rules) /\ phase' = "resting"
              /\ written' = Range(rules) /\ byImage' = Compiled(rules)
              /\ excluded' = names \cap Containers /\ served' = PublicHosts \cup Range(hosts)
        BY <1>1, <2>2 DEF Load
      <3>2. \A path \in DOMAIN byImage' : byImage'[path] \in Rules \ {NoRule}
        BY <3>1, CompiledRules
      <3>3. written' \subseteq RawRules
        BY <3>1 DEF Range
      <3> QED BY <3>1, <3>2, <3>3 DEF Configured
    <2> QED BY <2>1, <2>2
  <1>2. CASE BeginPass
    BY <1>2 DEF BeginPass, Configured
  <1>3. CASE Listed
    BY <1>3 DEF Listed, Configured
  <1>4. CASE EndPass
    BY <1>4 DEF EndPass, Configured
  <1>5. ASSUME NEW c \in Containers,
               List(c) \/ Exclude(c) \/ Skip(c) \/ CheckTags(c) \/ CheckDigest(c)
        PROVE  Configured'
    BY <1>5 DEF List, Exclude, Skip, CheckTags, CheckDigest, Configured
  <1>6. CASE UNCHANGED vars
    BY <1>6 DEF vars, Configured
  <1> QED BY <1>1, <1>2, <1>3, <1>4, <1>5, <1>6 DEF Next

\* The variables keep their types: whatever was written, the rules in force are
\* complete, the public registries are served, and no label is made up when
\* those of image and container are merged.
THEOREM TypeCorrect == Spec => []TypeOK
  <1>1. Init => Configured
    BY DEF Init, Configured
  <1>2. ASSUME IInv, Configured PROVE TypeOK
    <2>1. ASSUME NEW c \in Containers, labels[c] # Absent
          PROVE  DOMAIN labels[c] \subseteq LabelKeys
      <3>1. phase \in {"listing", "checking"}
        BY <1>2, <2>1 DEF IInv, Shape, NoneOf
      <3>2. ImageOf[c] \in Images
        BY TargetsAssumption
      <3>3. own[c] \in OwnLabels /\ stamped[ImageOf[c]] \in ImageLabels
        BY <1>2, <3>1, <3>2 DEF Configured
      <3>4. PICK image \in {stamped[ImageOf[c]], <<>>} : labels[c] = Overlay(image, own[c])
        BY <1>2, <2>1 DEF IInv, Described
      <3>5. DOMAIN image \subseteq LabelKeys /\ DOMAIN own[c] \subseteq LabelKeys
        BY <3>3, <3>4, TargetsAssumption
      <3> QED BY <3>4, <3>5 DEF Overlay
    <2> QED BY <1>2, <2>1 DEF TypeOK, IInv, Shape, Configured
  <1> QED BY <1>1, <1>2, ConfiguredStep, Invariant, PTL DEF Spec

-----------------------------------------------------------------------------
(* A rule that claims an image decides for it.                             *)

\* Another spelling of a path is one of the two on Docker Hub.
LEMMA Respelt ==
  ASSUME NEW path, IsPath(path), path.space \in {"library", None},
         NEW spelling \in {"library", None}
  PROVE  [path EXCEPT !.space = spelling] \in {path, Twin(path)}
  <1>1. CASE spelling = path.space
    <2> DEFINE a == path.space
               b == path.name
    <2>1. [[space |-> a, name |-> b] EXCEPT !.space = a] = [space |-> a, name |-> b]
      <3> HIDE DEF a, b
      <3> QED OBVIOUS
    <2> QED BY <1>1, <2>1 DEF IsPath
  <1>2. CASE spelling # path.space
    <2>1. spelling = IF path.space = None THEN "library" ELSE None
      BY <1>2
    <2> QED BY <2>1 DEF Twin
  <1> QED BY <1>1, <1>2

\* Every path that names the image of a reference is tried for it.
LEMMA NamesAreTried ==
  ASSUME NEW r \in Refs, r.kind = "tagged", NEW path, NamesImage(r, path)
  PROVE  path \in Range(RuleLookupKeys(r.host, r.path))
  <1>1. IsPath(r.path)
    BY RefsAssumption DEF IsPath
  <1>2. CASE r.host # DockerHub \/ r.path.space \notin {"library", None}
    BY <1>2, OneSpelling DEF NamesImage
  <1>3. CASE r.host = DockerHub /\ r.path.space \in {"library", None}
    <2>1. path \in {r.path, Twin(r.path)}
      BY <1>1, <1>3, Respelt DEF NamesImage
    <2> QED BY <1>3, <2>1, TwoSpellings
  <1> QED BY <1>2, <1>3

\* The look-up of a reference finds the one rule that claims its image.
LEMMA ClaimIsFound ==
  ASSUME RulesNeverCompete, NEW r \in Refs, r.kind = "tagged",
         NEW path \in DOMAIN byImage, NamesImage(r, path)
  PROVE  ConfigRule(r) = byImage[path]
  <1> DEFINE keys == RuleLookupKeys(r.host, r.path)
             hits == {i \in DOMAIN keys : keys[i] \in DOMAIN byImage}
  <1>1. path \in Range(keys)
    BY NamesAreTried
  <1>2. hits # {}
    BY <1>1 DEF Range
  <1>3. hits \in SUBSET Nat
    <2>1. DOMAIN keys \in {{1}, {1, 2}}
      BY DEF RuleLookupKeys
    <2> QED BY <2>1
  <1>4. ConfigRule(r) = byImage[keys[Earliest(hits)]]
    BY <1>2 DEF ConfigRule, FirstRule
  <1>5. Earliest(hits) \in hits
    <2> HIDE DEF hits
    <2> QED BY <1>2, <1>3, Least DEF Earliest
  <1>6. keys[Earliest(hits)] \in Range(keys) \cap DOMAIN byImage
    BY <1>5 DEF Range
  <1>7. keys[Earliest(hits)] = path
    BY <1>1, <1>6 DEF RulesNeverCompete
  <1> QED BY <1>4, <1>7

\* The rule kept for an image is the one written for it.
Faithful ==
  \A rule \in written :
    /\ rule.image \in DOMAIN byImage
    /\ byImage[rule.image] = [include |-> rule.include, track |-> EffectiveTrack(rule)]
    /\ RuleAccepted(rule)

\* A rule claims its image as it is written, at least.
LEMMA ClaimsOwn ==
  ASSUME NEW rule
  PROVE  rule.image \in Claimed(rule)
  <1>1. CASE rule.image.space \in {"library", None}
    BY <1>1, TwoSpellings DEF Claimed
  <1>2. CASE rule.image.space \notin {"library", None}
    BY <1>2, OneSpelling DEF Claimed
  <1> QED BY <1>1, <1>2

\* No rule of an accepted configuration takes the place of another.
LEMMA CompiledIsFaithful ==
  ASSUME NEW rules, RulesAccepted(rules), NEW rule \in Range(rules)
  PROVE  /\ rule.image \in DOMAIN Compiled(rules)
         /\ Compiled(rules)[rule.image] = [include |-> rule.include, track |-> EffectiveTrack(rule)]
         /\ RuleAccepted(rule)
  <1> DEFINE chosen == CHOOSE r \in Range(rules) : r.image = rule.image
  <1>1. chosen \in Range(rules) /\ chosen.image = rule.image
    OBVIOUS
  <1>2. rule.image \in {r.image : r \in Range(rules)}
    OBVIOUS
  <1>3. Compiled(rules)[rule.image] = [include |-> chosen.include, track |-> EffectiveTrack(chosen)]
    BY <1>2 DEF Compiled
  <1> HIDE DEF chosen
  <1>4. PICK i \in DOMAIN rules : rules[i] = rule
    BY DEF Range
  <1>5. PICK j \in DOMAIN rules : rules[j] = chosen
    BY <1>1 DEF Range
  <1>6. rule.image \in Claimed(rules[i]) \cap Claimed(rules[j])
    BY <1>1, <1>4, <1>5, ClaimsOwn
  <1>7. chosen = rule
    BY <1>4, <1>5, <1>6 DEF RulesAccepted
  <1>8. rule.image \in DOMAIN Compiled(rules)
    BY <1>2 DEF Compiled
  <1> QED BY <1>3, <1>4, <1>7, <1>8 DEF RulesAccepted

\* What was written stays in force as it was.
LEMMA FaithfulStep ==
  ASSUME Faithful, [Next]_vars
  PROVE  Faithful'
  <1> USE DEF configVars
  <1>1. CASE UNCHANGED <<written, byImage>>
    BY <1>1 DEF Faithful
  <1>2. CASE Load /\ ~UNCHANGED <<written, byImage>>
    <2>1. PICK rules : RulesAccepted(rules) /\ written' = Range(rules) /\ byImage' = Compiled(rules)
      BY <1>2 DEF Load
    <2> QED BY <2>1, CompiledIsFaithful DEF Faithful
  <1>3. Load \/ UNCHANGED <<written, byImage>>
    BY DEF Next, vars, BeginPass, Listed, EndPass, List, Exclude, Skip, CheckTags, CheckDigest
  <1> QED BY <1>1, <1>2, <1>3

\* A rule of the configuration decides for every container of its image, in
\* whichever spelling it is written: no second rule, label or failed inspection
\* interferes.
THEOREM ClaimDecides == Spec => []ClaimIsFollowed
  <1>1. Init => Faithful
    BY DEF Init, Faithful
  <1>2. ASSUME IInv, TypeOK, RulesNeverCompete, Faithful PROVE ClaimIsFollowed
    <2> SUFFICES ASSUME NEW c \in Containers, target[c] \in Tracked, ref[c].kind = "tagged",
                        NEW rule \in written, NamesImage(ref[c], rule.image)
                 PROVE  /\ target[c] \in {"digest", "digestNews"}
                             <=> "digest" \in {rule.track, rule.mode} \/ ref[c].form = "other"
                        /\ RuleFor(ref[c], labels[c]).include = rule.include
      BY DEF ClaimIsFollowed
    <2>1. target[c] # Absent
      BY RefsAssumption DEF Tracked, Outcomes
    <2>2. ref[c] \in Refs
      BY <1>2, <2>1 DEF IInv, Shape, Judged
    <2>3. /\ rule.image \in DOMAIN byImage /\ RuleAccepted(rule)
          /\ byImage[rule.image] = [include |-> rule.include, track |-> EffectiveTrack(rule)]
      BY <1>2 DEF Faithful
    <2>4. RuleFor(ref[c], labels[c]) = [include |-> rule.include, track |-> EffectiveTrack(rule)]
      <3>1. ConfigRule(ref[c]) = byImage[rule.image] /\ byImage[rule.image] # NoRule
        BY <1>2, <2>2, <2>3, ClaimIsFound DEF TypeOK
      <3> QED BY <2>3, <3>1 DEF RuleFor
    <2>5. target[c] \in {"digest", "digestNews"} <=> TrackingMode(ref[c], labels[c]) = "digest"
      BY <1>2, <2>1 DEF IInv, Judged, Tracked
    <2>6. ref[c].form \in {"semver", "numeric", "other"}
      BY <2>2, RefsAssumption
    <2>7. EffectiveTrack(rule) = "digest" <=> "digest" \in {rule.track, rule.mode}
      BY <2>3 DEF RuleAccepted, EffectiveTrack, None
    <2> QED BY <2>4, <2>5, <2>6, <2>7 DEF TrackingMode
  <1> QED BY <1>1, <1>2, FaithfulStep, Invariant, TypeCorrect, NoCompetition, PTL DEF Spec
=============================================================================
