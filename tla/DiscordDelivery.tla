--------------------------- MODULE DiscordDelivery ---------------------------
(***************************************************************************)
(* Delivery with the bodies Discord's embed format really has.  Before a    *)
(* sendBatch posts anything, one line for each event is collected into      *)
(* embeds (splitDigestLinesIntoEmbeds) and the embeds into messages         *)
(* (packEmbedsIntoMessages); each loop is an action taken once for each     *)
(* round.  Every other notifier, and Discord's content and template         *)
(* formats, are Delivery as it is: `shape` tells the two apart.             *)
(*                                                                         *)
(* Of a line and of the title only the length matters.  In simple mode the  *)
(* one event of a sendBatch goes through the same steps: its embed is the   *)
(* one simpleEmbed builds.                                                  *)
(***************************************************************************)
EXTENDS Delivery, Sequences, Functions

CONSTANTS
  LineLengths,       \* possible lengths of itemLine
  TitleLengths,      \* possible lengths of digestTitle, cut to maxEmbedTitle
  Separator,         \* length of embedItemSeparator
  MaxDescription,    \* maxEmbedDescription
  MaxTitle,          \* maxEmbedTitle
  MaxEmbeds,         \* maxEmbedsPerMessage
  MaxTotal           \* maxEmbedTotalChars

ASSUME EmbedAssumption ==
  /\ LineLengths \subseteq Nat \ {0}
  /\ {Separator, MaxDescription, MaxTitle, MaxTotal} \subseteq Nat
  /\ TitleLengths \subseteq 0..MaxTitle
  /\ MaxEmbeds \in Nat \ {0}
  /\ MaxDescription + MaxTitle <= MaxTotal

VARIABLES
  shape,       \* "embeds", or "other" for bodies with no layout of their own
  lens,        \* the length of each event's line
  title,       \* the length of the title
  stage,       \* what renderBodies is doing
  line,        \* the next line to place
  chunk,       \* the first line of the chunk; line = chunk when it is empty
  chunkLen,    \* its length when joined
  titled,      \* the title has been used
  embeds,      \* embeds not packed yet
  messages     \* messages packed, the last one perhaps not full

inputVars  == <<shape, lens, title>>
layoutVars == <<stage, line, chunk, chunkLen, titled, embeds, messages>>
discordVars == <<vars, inputVars, layoutVars>>

Embeds == [from: Events, to: Events, chars: Nat, whole: BOOLEAN]
Messages == [from: Events, to: Events, chars: Nat, count: Nat]

DiscordTypeOK ==
  /\ TypeOK
  /\ shape \in {"embeds", "other"}
  /\ lens \in [Events -> LineLengths] /\ title \in TitleLengths
  /\ stage \in {"placing", "packing", "packed"}
  /\ line \in 1..(Batch + 1) /\ chunk \in 1..(Batch + 1) /\ chunkLen \in Nat
  /\ titled \in BOOLEAN
  /\ embeds \in Seq(Embeds) /\ messages \in Seq(Messages)

DiscordInit ==
  /\ Init
  /\ lens \in [Events -> LineLengths] /\ title \in TitleLengths
  /\ \/ shape = "embeds"
     \/ shape = "other" /\ \A e \in Events : lens[e] = lens[1]
  /\ stage = "placing" /\ line = 1 /\ chunk = 1 /\ chunkLen = 0 /\ titled = FALSE
  /\ embeds = <<>> /\ messages = <<>>

-----------------------------------------------------------------------------
(* splitDigestLinesIntoEmbeds.                                             *)

Shorter(n, limit) == IF n < limit THEN n ELSE limit

\* flush: a chunk becomes an embed, cut where it is too long; the first one
\* carries the title.
Flushed(from, to, length, heading) ==
  [from |-> from, to |-> to,
   chars |-> Shorter(length, MaxDescription) + heading,
   whole |-> length <= MaxDescription]

\* The title, as long as no embed has it.
Heading == IF titled THEN 0 ELSE title

Placing == shape = "embeds" /\ pc = "rendering" /\ stage = "placing"

\* Mutation of PlaceLine: the chunk is not flushed before a line that does not
\* fit any more.
PlaceLineLate ==
  /\ Placing /\ line <= SliceEnd
  /\ LET candidate == IF chunk = line THEN lens[line] ELSE chunkLen + Separator + lens[line]
     IN IF candidate > MaxDescription
        THEN /\ embeds' = Append(embeds, Flushed(chunk, line, candidate, Heading))
             /\ titled' = TRUE /\ chunk' = line + 1 /\ chunkLen' = 0
        ELSE chunkLen' = candidate /\ UNCHANGED <<embeds, titled, chunk>>
  /\ line' = line + 1
  /\ UNCHANGED <<vars, inputVars, stage, messages>>

\* One line: the chunk is flushed before it when the two do not fit together,
\* and after it when they fill an embed.  The room kept for the title is decided
\* once, before the first flush.
PlaceLine ==
  /\ Placing /\ line <= SliceEnd
  /\ LET room      == MaxDescription - Heading
         candidate == IF chunk = line THEN lens[line] ELSE chunkLen + Separator + lens[line]
         before    == chunk # line /\ candidate > room
         length    == IF before THEN lens[line] ELSE candidate
         start     == IF before THEN line ELSE chunk
         after     == length > room
         kept      == IF before THEN Append(embeds, Flushed(chunk, line - 1, chunkLen, Heading))
                      ELSE embeds
     IN /\ embeds' = IF after THEN Append(kept, Flushed(start, line, length, IF before THEN 0 ELSE Heading))
                     ELSE kept
        /\ titled' = (titled \/ before \/ after)
        /\ chunk' = IF after THEN line + 1 ELSE start
        /\ chunkLen' = IF after THEN 0 ELSE length
  /\ line' = line + 1
  /\ UNCHANGED <<vars, inputVars, stage, messages>>

\* Mutation of LastFlush: what is left in the chunk is forgotten.
NoLastFlush ==
  /\ Placing /\ line > SliceEnd
  /\ stage' = "packing"
  /\ UNCHANGED <<vars, inputVars, line, chunk, chunkLen, titled, embeds, messages>>

\* The lines are used up.
LastFlush ==
  /\ Placing /\ line > SliceEnd
  /\ embeds' = IF chunk = line THEN embeds
               ELSE Append(embeds, Flushed(chunk, line - 1, chunkLen, Heading))
  /\ titled' = TRUE /\ chunk' = line /\ chunkLen' = 0
  /\ stage' = "packing"
  /\ UNCHANGED <<vars, inputVars, line, messages>>

-----------------------------------------------------------------------------
(* packEmbedsIntoMessages.                                                 *)

Packing == shape = "embeds" /\ pc = "rendering" /\ stage = "packing"

\* Mutation of Fits: only the number of embeds is looked at.
FitsByCount(m, e) == m.count < MaxEmbeds

\* There is room for the embed in the message.
Fits(m, e) == m.count < MaxEmbeds /\ m.chars + e.chars <= MaxTotal

\* The message with the embed added, and a message of its own.
Joined(m, e) ==
  [from |-> m.from, to |-> e.to, chars |-> m.chars + e.chars, count |-> m.count + 1]

Alone(e) == [from |-> e.from, to |-> e.to, chars |-> e.chars, count |-> 1]

PackEmbed ==
  /\ Packing /\ embeds # <<>>
  /\ LET e == Head(embeds)
         n == Len(messages)
     IN messages' =
          IF n > 0 /\ Fits(messages[n], e)
          THEN [messages EXCEPT ![n] = Joined(messages[n], e)]
          ELSE Append(messages, Alone(e))
  /\ embeds' = Tail(embeds)
  /\ UNCHANGED <<vars, inputVars, stage, line, chunk, chunkLen, titled>>

Packed ==
  /\ Packing /\ embeds = <<>>
  /\ stage' = "packed"
  /\ UNCHANGED <<vars, inputVars, line, chunk, chunkLen, titled, embeds, messages>>

-----------------------------------------------------------------------------
(* sendBatch.                                                              *)

\* The body at hand after this step is one of the messages.
LaidOut ==
  shape = "embeds" /\ pc' = "trying" =>
    \E m \in Range(messages) : m.from = first' /\ m.to = last'

\* A notifier renders a sendBatch anew.
StartLayout ==
  /\ stage' = "placing" /\ line' = first' /\ chunk' = first' /\ chunkLen' = 0
  /\ titled' = FALSE /\ embeds' = <<>> /\ messages' = <<>>

RenderBodies ==
  /\ Render /\ LaidOut
  /\ shape = "embeds" => stage = "packed"
  /\ UNCHANGED <<inputVars, layoutVars>>

\* Only a template can be blank or fail.
RenderTemplate ==
  /\ shape = "other"
  /\ RenderBlank \/ RenderFails
  /\ UNCHANGED <<inputVars, layoutVars>>

PostBodies ==
  /\ Post \/ Reply \/ SleepEnds \/ GiveUp
  /\ LaidOut
  /\ IF shape = "embeds" /\ pc' = "rendering" THEN StartLayout ELSE UNCHANGED layoutVars
  /\ UNCHANGED inputVars

DiscordStep ==
  \/ PlaceLine \/ LastFlush \/ PackEmbed \/ Packed
  \/ RenderBodies \/ RenderTemplate \/ PostBodies

DiscordNext == DiscordStep \/ (Cancel /\ UNCHANGED <<inputVars, layoutVars>>)

\* As in Delivery; the loops over lines and embeds end by themselves.
DiscordSpec == DiscordInit /\ [][DiscordNext]_discordVars /\ WF_discordVars(DiscordStep)

-----------------------------------------------------------------------------
LaidOutInFull == shape = "embeds" /\ stage = "packed"

\* No message has more embeds or more characters than Discord takes, so none is
\* rejected for its size and ends the call.
WithinLimits ==
  LaidOutInFull => \A m \in Range(messages) : m.count <= MaxEmbeds /\ m.chars <= MaxTotal

\* The messages of a sendBatch tell every event once and in order, whatever the
\* lengths of lines and title.
EveryEventTold ==
  LaidOutInFull =>
    /\ messages # <<>>
    /\ pc = "rendering" => messages[1].from = first
    /\ messages[Len(messages)].to = line - 1
    /\ \A i \in DOMAIN messages :
         /\ messages[i].from <= messages[i].to
         /\ i > 1 => messages[i].from = messages[i - 1].to + 1

\* An embed is only cut when it holds a single event whose line is too long by
\* itself: a long digest never swallows an event.
OnlyLongLinesAreCut ==
  \A i \in DOMAIN embeds :
    ~embeds[i].whole =>
      embeds[i].from = embeds[i].to /\ lens[embeds[i].from] > MaxDescription
=============================================================================
