------------------------------ MODULE Targets ------------------------------
(***************************************************************************)
(* What a detection pass looks at: from the configuration and the labels   *)
(* of the running containers to the rule, the tracking mode and the link   *)
(* of each container.  CheckRun takes the result as its `fleet` and        *)
(* TagSelection the tags that are left; how the configuration is accepted, *)
(* how ListRunning puts labels together and what is made of them is here.  *)
(*                                                                         *)
(* A configuration is read once.  Each pass then meets running containers  *)
(* with any references and labels of the given sets, and any inspection of *)
(* an image may fail.                                                      *)
(***************************************************************************)
EXTENDS Sequences, Functions

CONSTANTS
  Containers,      \* running containers, by name
  Images,          \* image IDs
  ImageOf,         \* the image of each container
  RawRules,        \* rules[] entries as written
  ExcludeLists,    \* exclude_containers as written, sets of names
  RegistryLists,   \* hosts of registries[] as written
  Refs,            \* parsed image references
  Fleets,          \* what the containers may run: sets of functions to Refs
  OwnLabels,       \* label maps of containers
  ImageLabels,     \* label maps of images
  PullLists,       \* RepoDigests of images
  Digests,         \* what a registry may answer
  Absent           \* no value (yet)

None        == "none"  \* the empty string
DockerHub   == "index.docker.io"
PublicHosts == {DockerHub, "ghcr.io", "quay.io", "registry.gitlab.com"}

LabelKeys == {"watch", "include", "track", "mode", "source"}

ASSUME TargetsAssumption ==
  /\ ImageOf \in [Containers -> Images]
  /\ Absent \notin Images /\ Absent \notin Digests
  /\ \A found \in PullLists :
       found # Absent /\ Len(found) \in Nat /\ DOMAIN found = 1..Len(found)
  /\ Absent \notin OwnLabels /\ Absent \notin ImageLabels
  /\ \A map \in OwnLabels \cup ImageLabels : DOMAIN map \subseteq LabelKeys

VARIABLES
  phase,      \* what the program is doing
  written,    \* Config.Rules: rules[] of the accepted configuration
  byImage,    \* ConfigRuleResolver.byImage: rules by image path
  excluded,   \* the names of exclude_containers
  served,     \* hosts with a registry
  ref,        \* the image reference of each container
  own,        \* the labels a container was created with
  stamped,    \* the labels of each image
  inspected,  \* imageLabels: what ListRunning knows of each image
  labels,     \* model.Container.Labels
  target,     \* what the pass makes of each container
  pulled,     \* RepoDigests of each image, once a digest check looked
  remote      \* Pass.tagDigests: the registry's digest of each reference

configVars == <<written, byImage, excluded, served>>
fleetVars  == <<ref, own, stamped>>
digestVars == <<pulled, remote>>
vars == <<phase, configVars, fleetVars, inspected, labels, target, digestVars>>

NoRule    == [include |-> None, track |-> None]
Rules     == [include: {None, "regex"}, track: {None, "digest"}]
Outcomes  == {"excluded", "skipped", "semver", "numeric", "digest", "digestNews"}

\* References with a tag are told apart by the form of the tag.
ASSUME RefsAssumption ==
  /\ Absent \notin Outcomes
  /\ Fleets \subseteq [Containers -> Refs]
  /\ \A r \in Refs : r.kind = "tagged" =>
       /\ r.path = [space |-> r.path.space, name |-> r.path.name]
       /\ r.form \in {"semver", "numeric", "other"}

TypeOK ==
  /\ phase \in {"loading", "refused", "resting", "listing", "checking"}
  /\ written \subseteq RawRules
  /\ \A path \in DOMAIN byImage : byImage[path] \in Rules \ {NoRule}
  /\ excluded \subseteq Containers
  /\ PublicHosts \subseteq served
  /\ DOMAIN labels = Containers
  /\ \A c \in Containers : labels[c] # Absent => DOMAIN labels[c] \subseteq LabelKeys
  /\ target \in [Containers -> Outcomes \cup {Absent}]

NoneOf(set) == [x \in set |-> Absent]

Init ==
  /\ phase = "loading"
  /\ written = {} /\ byImage = <<>> /\ excluded = {} /\ served = PublicHosts
  /\ ref = NoneOf(Containers) /\ own = NoneOf(Containers) /\ stamped = NoneOf(Images)
  /\ labels = NoneOf(Containers) /\ target = NoneOf(Containers)
  /\ inspected = NoneOf(Images) /\ pulled = NoneOf(Images) /\ remote = NoneOf(Refs)

-----------------------------------------------------------------------------
(* Configuration.  A path is a namespace and a name; on Docker Hub the     *)
(* namespace "library" may be left out.                                    *)

RuleLookupKeys(host, path) ==
  IF host # DockerHub \/ path.space \notin {"library", None} THEN <<path>>
  ELSE <<path, [path EXCEPT !.space = IF @ = None THEN "library" ELSE None]>>

EffectiveTrack(rule) == IF rule.track # None THEN rule.track ELSE rule.mode

RuleAccepted(rule) ==
  /\ rule.image.name # None
  /\ rule.track = None \/ rule.mode = None
  /\ EffectiveTrack(rule) \in {None, "digest"}
  /\ rule.include \in {None, "regex"}
  /\ rule.include # None \/ EffectiveTrack(rule) = "digest"

\* Mutation of Claimed: a rule claims its image as it is written.
ClaimedAsWritten(rule) == {rule.image}

\* RuleConfigKeys: a rule claims the other spelling of its image as well.
Claimed(rule) == Range(RuleLookupKeys(DockerHub, rule.image))

\* validateRules: each rule by itself, and no path claimed twice.
RulesAccepted(rules) ==
  /\ \A i \in DOMAIN rules : RuleAccepted(rules[i])
  /\ \A i, j \in DOMAIN rules : i # j => Claimed(rules[i]) \cap Claimed(rules[j]) = {}

\* NewConfigRuleResolver, of rules no image has twice.
Compiled(rules) ==
  [path \in {r.image : r \in Range(rules)} |->
     LET rule == CHOOSE r \in Range(rules) : r.image = path
     IN [include |-> rule.include, track |-> EffectiveTrack(rule)]]

\* Load, NewApp and buildRegistries: everything is accepted, or the program does
\* not start.  Public hosts are served without being configured.
Load ==
  /\ phase = "loading"
  /\ \E rules \in {<<>>} \cup {<<r>> : r \in RawRules} \cup (RawRules \X RawRules),
        names \in ExcludeLists, hosts \in RegistryLists :
       IF /\ RulesAccepted(rules)
          /\ None \notin names
          /\ \A i, j \in DOMAIN hosts : i # j => hosts[i] # hosts[j]
       THEN /\ phase' = "resting"
            /\ written' = Range(rules) /\ byImage' = Compiled(rules)
            /\ excluded' = names \cap Containers
            /\ served' = PublicHosts \cup Range(hosts)
       ELSE phase' = "refused" /\ UNCHANGED configVars
  /\ UNCHANGED <<fleetVars, inspected, labels, target, digestVars>>

-----------------------------------------------------------------------------
(* ListRunning: labels, container after container.                         *)

\* A pass begins with whatever runs now.
BeginPass ==
  /\ phase = "resting"
  /\ phase' = "listing"
  /\ ref' \in Fleets
  /\ own' \in [Containers -> OwnLabels]
  /\ stamped' \in [Images -> ImageLabels]
  /\ UNCHANGED <<configVars, inspected, labels, target, digestVars>>

Overlay(image, container) ==
  [k \in DOMAIN image \cup DOMAIN container |->
     IF k \in DOMAIN container THEN container[k] ELSE image[k]]

\* Mutation of Merged: the image wins.
MergedImageLast(image, container) == Overlay(container, image)

\* The container's own labels win over those of its image.
Merged(image, container) == Overlay(image, container)

\* What inspecting the image yields: its labels, or after any error none, which
\* is remembered for the rest of the listing like a success.
Inspected(i) == IF inspected[i] # Absent THEN {inspected[i]} ELSE {stamped[i], <<>>}

\* Mutation of List: the map of the image is filled with the container's labels.
ListSharingMap(c) ==
  /\ phase = "listing" /\ labels[c] = Absent
  /\ \E found \in Inspected(ImageOf[c]) :
       /\ inspected' = [inspected EXCEPT ![ImageOf[c]] = Merged(found, own[c])]
       /\ labels' = [labels EXCEPT ![c] = Merged(found, own[c])]
  /\ UNCHANGED <<phase, configVars, fleetVars, target, digestVars>>

\* labelsForContainer: each image is inspected once in a listing.
List(c) ==
  /\ phase = "listing" /\ labels[c] = Absent
  /\ \E found \in Inspected(ImageOf[c]) :
       /\ inspected' = [inspected EXCEPT ![ImageOf[c]] = found]
       /\ labels' = [labels EXCEPT ![c] = Merged(found, own[c])]
  /\ UNCHANGED <<phase, configVars, fleetVars, target, digestVars>>

Listed ==
  /\ phase = "listing" /\ \A c \in Containers : labels[c] # Absent
  /\ phase' = "checking"
  /\ UNCHANGED <<configVars, fleetVars, inspected, labels, target, digestVars>>

-----------------------------------------------------------------------------
(* Rules, modes and links.                                                 *)

Label(map, k) == IF k \in DOMAIN map THEN map[k] ELSE None

\* ShouldMonitor: either source can only take a container out; a label that is
\* no Boolean does nothing.
ShouldMonitor(c, map) == c \notin excluded /\ Label(map, "watch") # "false"

\* A loop over a list that ends at its first match.
Earliest(positions) == CHOOSE i \in positions : \A j \in positions : i <= j

\* RuleFor of ConfigRuleResolver: the first spelling that has a rule.
FirstRule(rules, r) ==
  LET keys == RuleLookupKeys(r.host, r.path)
      hits == {i \in DOMAIN keys : keys[i] \in DOMAIN rules}
  IN IF hits = {} THEN NoRule ELSE rules[keys[Earliest(hits)]]

ConfigRule(r) == FirstRule(byImage, r)

\* LabelRuleResolver: a label that is not valid counts as missing, and "mode" is
\* an old name of "track".
LabelRule(map) ==
  [include |-> IF Label(map, "include") = "regex" THEN "regex" ELSE None,
   track   |-> IF "digest" \in {Label(map, "track"), Label(map, "mode")} THEN "digest" ELSE None]

\* Mutation of RuleFor: labels are asked first.
RuleForLabelsFirst(r, map) ==
  IF LabelRule(map) # NoRule THEN LabelRule(map) ELSE ConfigRule(r)

\* ChainRuleResolver: a rule of the configuration is taken whole, and labels are
\* not looked at.
RuleFor(r, map) ==
  IF ConfigRule(r) # NoRule THEN ConfigRule(r) ELSE LabelRule(map)

\* resolveTrackingMode.
TrackingMode(r, map) ==
  IF RuleFor(r, map).track = "digest" \/ r.form = "other" THEN "digest" ELSE r.form

\* parseSource: the label counts when it is the address of a repository.
Source(map) ==
  IF Label(map, "source") \in {"github", "elsewhere"} THEN Label(map, "source") ELSE None

RegistryPage(host, map) ==
  CASE host \in {DockerHub, "quay.io"} -> "tags"
    [] host = "ghcr.io" /\ Source(map) = "github" -> "package"
    [] OTHER -> None

\* Mutation of URL: numeric versions fall through to the digest branch.
URLOfSemver(host, map, mode) ==
  IF mode = "semver" /\ Source(map) = "github" THEN "releases"
  ELSE IF RegistryPage(host, map) # None THEN RegistryPage(host, map)
  ELSE IF Source(map) # None THEN "repository" ELSE None

\* imageweb.URL, as the kind of page it names.
URL(host, map, mode) ==
  IF mode \in {"semver", "numeric"} /\ Source(map) = "github" THEN "releases"
  ELSE IF RegistryPage(host, map) # None THEN RegistryPage(host, map)
  ELSE IF Source(map) # None THEN "repository" ELSE None

\* linkRowFor: what `versentry links` shows before there is an update.
Preview(c) == URL(ref[c].host, labels[c], TrackingMode(ref[c], labels[c]))

\* ItemFromEvent: an event says only whether it has a new tag.
News(c) ==
  URL(ref[c].host, labels[c], IF target[c] = "digestNews" THEN "digest" ELSE "semver")

-----------------------------------------------------------------------------
(* checkContainer, up to what is compared.                                 *)

Put(c, outcome) == target' = [target EXCEPT ![c] = outcome]

Due(c) == phase = "checking" /\ target[c] = Absent

Exclude(c) ==
  /\ Due(c) /\ ~ShouldMonitor(c, labels[c])
  /\ Put(c, "excluded")
  /\ UNCHANGED <<phase, configVars, fleetVars, inspected, labels, digestVars>>

Checkable(c) == ref[c].kind = "tagged" /\ ref[c].host \in served

\* Not a reference, pinned to a digest, or of a host without a registry.
Skip(c) ==
  /\ Due(c) /\ ShouldMonitor(c, labels[c]) /\ ~Checkable(c)
  /\ Put(c, "skipped")
  /\ UNCHANGED <<phase, configVars, fleetVars, inspected, labels, digestVars>>

\* Tags are listed and selected as TagSelection does.
CheckTags(c) ==
  /\ Due(c) /\ ShouldMonitor(c, labels[c]) /\ Checkable(c)
  /\ TrackingMode(ref[c], labels[c]) # "digest"
  /\ Put(c, TrackingMode(ref[c], labels[c]))
  /\ UNCHANGED <<phase, configVars, fleetVars, inspected, labels, digestVars>>

\* Mutation of LocalDigest: the first digest of the image, whoever it was pulled
\* from.
LocalDigestAny(found, r) == IF found = <<>> THEN Absent ELSE Head(found).digest

\* LocalDigest: the first digest under the same path; the host is not compared.
LocalDigest(found, r) ==
  LET same == {i \in DOMAIN found : found[i].path = r.path}
  IN IF same = {} THEN Absent
     ELSE found[Earliest(same)].digest

\* checkDigest: without a digest on either side there is nothing to compare.
\* Inspecting the container may fail; the registry is asked once in a pass.
CheckDigest(c) ==
  /\ Due(c) /\ ShouldMonitor(c, labels[c]) /\ Checkable(c)
  /\ TrackingMode(ref[c], labels[c]) = "digest"
  /\ \/ Put(c, "skipped") /\ UNCHANGED digestVars
     \/ \E found \in PullLists, given \in Digests :
          /\ pulled[ImageOf[c]] \in {Absent, found} /\ remote[ref[c]] \in {Absent, given}
          /\ LocalDigest(found, ref[c]) # Absent
          /\ pulled' = [pulled EXCEPT ![ImageOf[c]] = found]
          /\ remote' = [remote EXCEPT ![ref[c]] = given]
          /\ Put(c, IF LocalDigest(found, ref[c]) = given THEN "digest" ELSE "digestNews")
  /\ UNCHANGED <<phase, configVars, fleetVars, inspected, labels>>

\* The results go to the notifier; nothing else of the pass is kept.
EndPass ==
  /\ phase = "checking" /\ \A c \in Containers : target[c] # Absent
  /\ phase' = "resting"
  /\ ref' = NoneOf(Containers) /\ own' = NoneOf(Containers) /\ stamped' = NoneOf(Images)
  /\ labels' = NoneOf(Containers) /\ target' = NoneOf(Containers)
  /\ inspected' = NoneOf(Images) /\ pulled' = NoneOf(Images) /\ remote' = NoneOf(Refs)
  /\ UNCHANGED configVars

Next ==
  \/ Load \/ BeginPass \/ Listed \/ EndPass
  \/ \E c \in Containers : List(c) \/ Exclude(c) \/ Skip(c) \/ CheckTags(c) \/ CheckDigest(c)

Spec == Init /\ [][Next]_vars

-----------------------------------------------------------------------------
\* No image is claimed by two rules of an accepted configuration, however their
\* images are spelled: which rule applies never depends on the order of rules
\* or of the spellings tried.
RulesNeverCompete ==
  \A r \in Refs : r.kind = "tagged" =>
    \A p, q \in Range(RuleLookupKeys(r.host, r.path)) \cap DOMAIN byImage : p = q

\* A container opted out by its name or by a label of its own is never looked at,
\* whatever its image says and whether or not the image could be inspected.
OptOutHolds ==
  \A c \in Containers :
    target[c] \in Outcomes \ {"excluded"} =>
      c \notin excluded /\ Label(own[c], "watch") # "false"

\* A container is left out only by its name, its own labels or those of its image:
\* neither an image that could not be inspected nor the labels of another
\* container of that image, in whatever order they are listed, take it out of the
\* pass and so let its state be pruned.
ExcludedForOwnReason ==
  \A c \in Containers :
    target[c] = "excluded" =>
      ~ShouldMonitor(c, Overlay(stamped[ImageOf[c]], own[c]))

\* A path names the image of a reference: as it is, or on Docker Hub with the
\* official namespace written or left out.
NamesImage(r, path) ==
  \/ path = r.path
  \/ /\ r.host = DockerHub /\ r.path.space \in {"library", None}
     /\ \E spelling \in {"library", None} : path = [r.path EXCEPT !.space = spelling]

Tracked == {"semver", "numeric", "digest", "digestNews"}

\* A rule of the configuration decides for every container of its image, however
\* it is written, on whichever host, whatever the labels say and whichever
\* inspection fails: digests are compared exactly if the rule says so or the tag
\* is no version, and the tags it leaves are the rule's.
ClaimIsFollowed ==
  \A c \in Containers : target[c] \in Tracked /\ ref[c].kind = "tagged" =>
    \A rule \in written : NamesImage(ref[c], rule.image) =>
      /\ target[c] \in {"digest", "digestNews"}
           <=> "digest" \in {rule.track, rule.mode} \/ ref[c].form = "other"
      /\ RuleFor(ref[c], labels[c]).include = rule.include

\* What `versentry links` shows for a container is the kind of page its
\* notification will name, although an event does not carry the mode.  (Docker
\* Hub's page also names a tag: the running one, and in the notification the new.)
LinksAgreeWithNews ==
  \A c \in Containers :
    target[c] \in {"semver", "numeric", "digestNews"} => Preview(c) = News(c)

\* A changed digest is only reported when the image does not have the registry's
\* digest under that path, unless it was pulled under the path more than once.
DigestNewsIsReal ==
  \A c \in Containers : target[c] = "digestNews" =>
    LET same == {d \in Range(pulled[ImageOf[c]]) : d.path = ref[c].path}
    IN \A d \in same : d.digest = remote[ref[c]] => \E e \in same : e # d
=============================================================================
