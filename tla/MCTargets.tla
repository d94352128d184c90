------------------------------ MODULE MCTargets ------------------------------
(* Targets with two containers of one image.  Labels are the maps in which   *)
(* image and container disagree, agree or are wrong.                         *)
EXTENDS Targets, TLC

CONSTANTS c1, c2, i1

Official  == [space |-> "library", name |-> "app"]
Short     == [space |-> None, name |-> "app"]
Team      == [space |-> "team", name |-> "app"]
Unnamed   == [space |-> None, name |-> None]

SameImage == [c \in Containers |-> i1]

MCRules ==
  [image: {Official, Short, Team, Unnamed}, include: {None, "regex", "broken"},
   track: {None, "digest", "other"}, mode: {None, "digest"}]

MCExclude    == {{}, {c1}, {c1, None}}
MCRegistries == {<<"registry.home">>, <<"registry.home", "registry.home">>}

Tagged(host, path, form) == [kind |-> "tagged", host |-> host, path |-> path, form |-> form]

OnHub    == Tagged(DockerHub, Official, "semver")
TeamTool == Tagged(DockerHub, Team, "other")
Mirrored == Tagged("ghcr.io", Official, "numeric")
AtHome   == Tagged("registry.home", Short, "semver")
AtWork   == Tagged("registry.work", Short, "semver")
Pinned   == [kind |-> "pinned"]

MCRefs == {OnHub, TeamTool, Mirrored, AtHome, AtWork, Pinned}

MCFleets ==
  {[c \in Containers |-> r] : r \in {OnHub, TeamTool, Mirrored}}
    \cup {(c1 :> AtHome @@ c2 :> AtWork), (c1 :> OnHub @@ c2 :> Mirrored),
          (c1 :> Pinned @@ c2 :> OnHub)}

MCOwn ==
  {<<>>, ("watch" :> "false"), ("watch" :> "true" @@ "track" :> "digest"),
   ("watch" :> "odd" @@ "source" :> "elsewhere"), ("mode" :> "digest" @@ "track" :> "other")}

MCImage ==
  {<<>>, ("watch" :> "false" @@ "source" :> "github"), ("track" :> "digest" @@ "source" :> "odd"),
   ("include" :> "broken" @@ "mode" :> "other" @@ "source" :> "github" @@ "watch" :> "true")}

MCPulls ==
  {<<>>, <<[path |-> Team, digest |-> "d1"]>>,
   <<[path |-> Official, digest |-> "d2"], [path |-> Team, digest |-> "d1"]>>,
   <<[path |-> Team, digest |-> "d1"], [path |-> Team, digest |-> "d2"]>>,
   <<[path |-> Official, digest |-> "d1"], [path |-> Short, digest |-> "d1"]>>}
=============================================================================
