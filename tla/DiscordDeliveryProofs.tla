------------------------ MODULE DiscordDeliveryProofs ------------------------
(***************************************************************************)
(* Theorems about DiscordDelivery, for any batch, any lengths of lines and *)
(* title and any limits.  It implements Delivery, so what DeliveryProofs    *)
(* proves of a call of Notify holds of it; and the two loops of the layout *)
(* lose nothing.                                                           *)
(***************************************************************************)
EXTENDS DiscordDelivery, DeliveryProofs

\* A step of the layout is none of Delivery; any other is one of it.
LEMMA DiscordStepCases ==
  ASSUME [DiscordNext]_discordVars
  PROVE  \/ PlaceLine \/ LastFlush \/ PackEmbed \/ Packed
         \/ RenderBodies \/ RenderTemplate \/ PostBodies
         \/ Cancel /\ UNCHANGED <<inputVars, layoutVars>>
         \/ UNCHANGED discordVars
  BY DEF DiscordNext, DiscordStep

LEMMA DiscordIsDelivery ==
  ASSUME [DiscordNext]_discordVars
  PROVE  [Next]_vars
  <1>1. CASE PlaceLine \/ LastFlush \/ PackEmbed \/ Packed
    BY <1>1 DEF PlaceLine, LastFlush, PackEmbed, Packed
  <1>2. CASE RenderBodies \/ RenderTemplate \/ PostBodies
    BY <1>2 DEF RenderBodies, RenderTemplate, PostBodies, Next, CallStep
  <1>3. CASE Cancel
    BY <1>3 DEF Next
  <1>4. CASE UNCHANGED discordVars
    BY <1>4 DEF discordVars
  <1> QED BY <1>1, <1>2, <1>3, <1>4, DiscordStepCases

LEMMA DiscordInvariance == DiscordSpec => []IInv
  <1>1. DiscordInit => IInv
    BY InitInvariant DEF DiscordInit
  <1>2. IInv /\ [DiscordNext]_discordVars => IInv'
    BY DiscordIsDelivery, InvariantStep
  <1> QED BY <1>1, <1>2, PTL DEF DiscordSpec

\* With Discord's bodies, too, the first failure is the last message.
THEOREM DiscordFailureIsLast == DiscordSpec => []FailureStopsBatch
  <1>1. IInv => FailureStopsBatch
    BY DEF IInv
  <1> QED BY <1>1, DiscordInvariance, PTL

\* Each message of a digest is posted exactly `retries` times before it fails.
THEOREM DiscordRetriesCounted == DiscordSpec => []RetriesSpentExactly
  <1>1. IInv => RetriesSpentExactly
    BY DEF IInv
  <1> QED BY <1>1, DiscordInvariance, PTL

\* A later message of a digest that fails repeats none that was acknowledged.
THEOREM DiscordAckedNeverResent == DiscordSpec => AcknowledgedOnce
  <1>1. IInv /\ [DiscordNext]_discordVars => [\A e \in settled : received'[e] = received[e]]_vars
    BY DiscordIsDelivery, AckedStep
  <1> QED BY <1>1, DiscordInvariance, PTL DEF DiscordSpec, AcknowledgedOnce

\* Notify of the Discord notifier keeps the contract of notifyAll.
THEOREM DiscordKeepsContract == DiscordSpec => ContractKept
  <1>1. DiscordInit => Contract!Init
    BY DEF DiscordInit, Init, Contract!Init
  <1>2. IInv /\ IInv' /\ [DiscordNext]_discordVars => [Contract!Next]_<<settled, result>>
    BY DiscordIsDelivery, ContractStep
  <1> QED BY <1>1, <1>2, DiscordInvariance, PTL DEF DiscordSpec, ContractKept, Contract!Spec

-----------------------------------------------------------------------------
(* Runs of events: sequences of records that carry on where the one before *)
(* ended.                                                                  *)

Chain(runs) == \A i \in 2..Len(runs) : runs[i].from = runs[i - 1].to + 1

\* The event after a sequence of runs that begins at `start`.
NextAfter(runs, start) == IF runs = <<>> THEN start ELSE runs[Len(runs)].to + 1

LEMMA AppendFacts ==
  ASSUME NEW S, NEW s \in Seq(S), NEW e \in S
  PROVE  /\ Append(s, e) \in Seq(S) /\ Append(s, e) # <<>>
         /\ Len(Append(s, e)) = Len(s) + 1
         /\ Append(s, e)[Len(s) + 1] = e
         /\ \A i \in 1..Len(s) : Append(s, e)[i] = s[i]
  OBVIOUS

LEMMA TailFacts ==
  ASSUME NEW S, NEW s \in Seq(S), s # <<>>
  PROVE  /\ Head(s) \in S /\ Head(s) = s[1]
         /\ Tail(s) \in Seq(S)
         /\ Len(s) \in Nat \ {0} /\ Len(Tail(s)) = Len(s) - 1
         /\ \A i \in 1..(Len(s) - 1) : Tail(s)[i] = s[i + 1]
  OBVIOUS

LEMMA EmptyLength ==
  ASSUME NEW S, NEW s \in Seq(S)
  PROVE  Len(s) \in Nat /\ (s = <<>> <=> Len(s) = 0)
  OBVIOUS

LEMMA AppendChain ==
  ASSUME NEW S, NEW s \in Seq(S), NEW e \in S, NEW start, Chain(s),
         e.from = NextAfter(s, start)
  PROVE  Chain(Append(s, e)) /\ NextAfter(Append(s, e), start) = e.to + 1
  <1> DEFINE t == Append(s, e)
  <1>1. /\ t # <<>> /\ Len(t) = Len(s) + 1 /\ t[Len(s) + 1] = e /\ Len(s) \in Nat
        /\ \A i \in 1..Len(s) : t[i] = s[i]
    BY AppendFacts, EmptyLength
  <1>2. s = <<>> <=> Len(s) = 0
    BY EmptyLength
  <1> HIDE DEF t
  <1>3. ASSUME NEW i \in 2..Len(t) PROVE t[i].from = t[i - 1].to + 1
    <2>1. CASE i \in 2..Len(s)
      BY <1>1, <2>1 DEF Chain
    <2>2. CASE i = Len(s) + 1
      <3>1. s # <<>> /\ i - 1 = Len(s) /\ i - 1 \in 1..Len(s)
        BY <1>1, <1>2, <2>2
      <3> QED BY <1>1, <2>2, <3>1 DEF NextAfter
    <2> QED BY <1>1, <2>1, <2>2
  <1>4. NextAfter(t, start) = e.to + 1
    BY <1>1 DEF NextAfter
  <1> QED BY <1>3, <1>4 DEF Chain, t

LEMMA TailChain ==
  ASSUME NEW S, NEW s \in Seq(S), s # <<>>, Chain(s), NEW start
  PROVE  /\ Chain(Tail(s))
         /\ Tail(s) # <<>> => Tail(s)[1].from = Head(s).to + 1
         /\ NextAfter(Tail(s), Head(s).to + 1) = NextAfter(s, start)
  <1> DEFINE t == Tail(s)
             n == Len(s)
  <1>1. /\ t \in Seq(S) /\ n \in Nat \ {0} /\ Len(t) = n - 1 /\ Head(s) = s[1]
        /\ \A i \in 1..(n - 1) : t[i] = s[i + 1]
    BY TailFacts
  <1>2. t = <<>> <=> Len(t) = 0
    BY <1>1, EmptyLength
  <1>3. \A i \in 2..n : s[i].from = s[i - 1].to + 1
    BY DEF Chain
  <1>4. NextAfter(s, start) = s[n].to + 1
    BY DEF NextAfter
  <1> HIDE DEF t, n
  <1>5. ASSUME NEW i \in 2..Len(t) PROVE t[i].from = t[i - 1].to + 1
    <2>1. i \in 1..(n - 1) /\ i - 1 \in 1..(n - 1) /\ i + 1 \in 2..n /\ (i - 1) + 1 = i /\ (i + 1) - 1 = i
      BY <1>1
    <2>2. t[i] = s[i + 1] /\ t[i - 1] = s[i]
      BY <1>1, <2>1
    <2> QED BY <1>3, <2>1, <2>2
  <1>6. ASSUME t # <<>> PROVE t[1].from = s[1].to + 1
    <2>1. 1 \in 1..(n - 1) /\ 2 \in 2..n
      BY <1>1, <1>2, <1>6
    <2>2. t[1] = s[2] /\ s[2].from = s[1].to + 1
      BY <1>1, <1>3, <2>1
    <2> QED BY <2>2
  <1>7. NextAfter(t, s[1].to + 1) = s[n].to + 1
    <2>1. CASE t = <<>>
      BY <1>1, <1>2, <2>1 DEF NextAfter
    <2>2. CASE t # <<>>
      <3>1. n - 1 \in 1..(n - 1) /\ (n - 1) + 1 = n
        BY <1>1, <1>2, <2>2
      <3>2. t[n - 1] = s[n]
        BY <1>1, <3>1
      <3> QED BY <1>1, <2>2, <3>2 DEF NextAfter
    <2> QED BY <2>1, <2>2
  <1> QED BY <1>1, <1>4, <1>5, <1>6, <1>7 DEF Chain, t

LastReplaced(s, m) == [s EXCEPT ![Len(s)] = m]

LEMMA WidenChain ==
  ASSUME NEW S, NEW s \in Seq(S), s # <<>>, Chain(s), NEW m \in S,
         m.from = s[Len(s)].from, NEW start
  PROVE  /\ LastReplaced(s, m) \in Seq(S) /\ LastReplaced(s, m) # <<>>
         /\ LastReplaced(s, m)[1].from = s[1].from
         /\ Chain(LastReplaced(s, m)) /\ NextAfter(LastReplaced(s, m), start) = m.to + 1
  <1> DEFINE n == Len(s)
             t == LastReplaced(s, m)
  <1>1. n \in Nat \ {0}
    BY TailFacts
  <1>2. t \in Seq(S) /\ Len(t) = n
    BY <1>1 DEF LastReplaced
  <1>3. t[n] = m /\ \A i \in 1..(n - 1) : t[i] = s[i]
    BY <1>1 DEF LastReplaced
  <1>4. t # <<>>
    BY <1>1, <1>2, EmptyLength
  <1>5. \A i \in 2..n : s[i].from = s[i - 1].to + 1
    BY DEF Chain
  <1>s. m.from = s[n].from
    OBVIOUS
  <1> HIDE DEF n, t
  <1>6. \A i \in 1..n : t[i].from = s[i].from
    BY <1>1, <1>3, <1>s
  <1>7. ASSUME NEW i \in 2..n PROVE t[i].from = t[i - 1].to + 1
    <2>1. i \in 1..n /\ i - 1 \in 1..(n - 1)
      BY <1>1
    <2> QED BY <1>3, <1>5, <1>6, <2>1
  <1>8. NextAfter(t, start) = m.to + 1
    BY <1>2, <1>3, <1>4 DEF NextAfter
  <1>9. t[1].from = s[1].from
    BY <1>1, <1>6
  <1>10. Chain(t)
    BY <1>2, <1>7 DEF Chain
  <1> QED BY <1>2, <1>4, <1>8, <1>9, <1>10 DEF t

-----------------------------------------------------------------------------
(* The layout.                                                             *)

\* An embed Discord takes, which is only cut for a line too long by itself.
GoodEmbeds ==
  {e \in Embeds :
     /\ e.from <= e.to /\ e.chars <= MaxDescription + MaxTitle
     /\ ~e.whole => e.from = e.to /\ lens[e.from] > MaxDescription}

GoodMessages ==
  {m \in Messages : m.from <= m.to /\ m.count <= MaxEmbeds /\ m.chars <= MaxTotal}

\* The chunk is a run of lines before `line`, short enough for an embed.
ChunkFits ==
  /\ lens \in [Events -> LineLengths] /\ title \in TitleLengths /\ titled \in BOOLEAN
  /\ line \in 1..(Batch + 1) /\ chunk \in 1..line /\ chunkLen \in Nat
  /\ chunk # line => chunkLen <= MaxDescription

\* Messages, embeds and chunk tell the events from `first` on without a gap.
Cover ==
  shape = "embeds" =>
    /\ Chain(messages) /\ Chain(embeds)
    /\ embeds # <<>> => embeds[1].from = NextAfter(messages, first)
    /\ chunk = NextAfter(embeds, NextAfter(messages, first))
    /\ pc = "rendering" /\ messages # <<>> => messages[1].from = first

Stages ==
  shape = "embeds" =>
    /\ stage \in {"placing", "packing", "packed"}
    /\ pc # "rendering" => stage = "packed"
    /\ stage = "placing" => messages = <<>> /\ first <= line
    /\ stage # "placing" => chunk = line
    /\ stage = "packing" => first < line
    /\ stage = "packed" => embeds = <<>> /\ messages # <<>>

LInv ==
  /\ embeds \in Seq(GoodEmbeds) /\ messages \in Seq(GoodMessages)
  /\ ChunkFits /\ Cover /\ Stages

LEMMA InitLayout == DiscordInit => LInv
  <1> SUFFICES ASSUME DiscordInit PROVE LInv
    OBVIOUS
  <1>1. embeds = <<>> /\ messages = <<>> /\ first = 1
    BY DEF DiscordInit, Init
  <1>2. embeds \in Seq(GoodEmbeds) /\ messages \in Seq(GoodMessages) /\ Len(embeds) = 0 /\ Len(messages) = 0
    BY <1>1
  <1>3. ChunkFits
    <2>1. line = 1 /\ chunk = 1 /\ chunkLen = 0 /\ titled = FALSE
      BY DEF DiscordInit
    <2>2. 1 \in 1..(Batch + 1) /\ 1 \in 1..1 /\ 0 \in Nat
      BY Sizes
    <2>3. lens \in [Events -> LineLengths] /\ title \in TitleLengths
      BY DEF DiscordInit
    <2> QED BY <2>1, <2>2, <2>3 DEF ChunkFits
  <1>4. Cover
    BY <1>1, <1>2 DEF DiscordInit, Cover, Chain, NextAfter
  <1>5. Stages
    BY <1>1 DEF DiscordInit, Init, Stages
  <1> QED BY <1>2, <1>3, <1>4, <1>5 DEF LInv

LEMMA LengthTypes ==
  /\ MaxDescription \in Nat /\ MaxTitle \in Nat /\ MaxTotal \in Nat /\ Separator \in Nat
  /\ \A t \in TitleLengths : t \in Nat /\ t <= MaxTitle
  /\ \A l \in LineLengths : l \in Nat
  BY EmbedAssumption

LEMMA HeadingType ==
  ASSUME ChunkFits
  PROVE  Heading \in Nat /\ Heading <= MaxTitle
  BY LengthTypes DEF ChunkFits, Heading

\* A run of lines becomes a good embed, if it is a single line or short enough.
LEMMA GoodFlush ==
  ASSUME LInv, NEW from \in Events, NEW to \in Events, from <= to, NEW length \in Nat,
         length <= MaxDescription \/ (from = to /\ length = lens[from]), NEW heading \in Nat, heading <= MaxTitle
  PROVE  /\ Flushed(from, to, length, heading) \in GoodEmbeds
         /\ Flushed(from, to, length, heading).from = from
         /\ Flushed(from, to, length, heading).to = to
  <1> DEFINE e == Flushed(from, to, length, heading)
             cut == Shorter(length, MaxDescription)
  <1>2. cut \in Nat /\ cut <= MaxDescription
    BY LengthTypes DEF Shorter
  <1>4. e = [from |-> from, to |-> to, chars |-> cut + heading, whole |-> length <= MaxDescription]
    BY DEF Flushed
  <1> HIDE DEF cut
  <1>5. cut + heading \in Nat /\ cut + heading <= MaxDescription + MaxTitle
    BY <1>2, LengthTypes
  <1>6. (length <= MaxDescription) \in BOOLEAN
    OBVIOUS
  <1>7. ~(length <= MaxDescription) => from = to /\ lens[from] > MaxDescription
    BY LengthTypes
  <1> DEFINE c == cut + heading
             w == length <= MaxDescription
  <1>8. e = [from |-> from, to |-> to, chars |-> c, whole |-> w]
    BY <1>4
  <1>9. c \in Nat /\ c <= MaxDescription + MaxTitle /\ w \in BOOLEAN
        /\ (~w => from = to /\ lens[from] > MaxDescription)
    BY <1>5, <1>6, <1>7
  <1> HIDE DEF e, c, w
  <1> QED BY <1>8, <1>9 DEF GoodEmbeds, Embeds, e

\* A good embed after the embeds so far, told by a step of the layout.
LEMMA AppendEmbed ==
  ASSUME LInv, NEW kept \in Seq(GoodEmbeds), Chain(kept), NEW e \in GoodEmbeds,
         kept # <<>> => kept[1].from = NextAfter(messages, first),
         e.from = NextAfter(kept, NextAfter(messages, first))
  PROVE  /\ Append(kept, e) \in Seq(GoodEmbeds) /\ Append(kept, e) # <<>> /\ Chain(Append(kept, e))
         /\ Append(kept, e)[1].from = NextAfter(messages, first)
         /\ NextAfter(Append(kept, e), NextAfter(messages, first)) = e.to + 1
  <1>1. Chain(Append(kept, e)) /\ NextAfter(Append(kept, e), NextAfter(messages, first)) = e.to + 1
    BY AppendChain
  <1>2. Append(kept, e) \in Seq(GoodEmbeds) /\ Append(kept, e) # <<>>
    BY AppendFacts
  <1>3. CASE kept = <<>>
    <2>1. Append(kept, e)[1] = e
      BY <1>3, AppendFacts, EmptyLength
    <2> QED BY <1>1, <1>2, <1>3, <2>1 DEF NextAfter
  <1>4. CASE kept # <<>>
    <2>1. 1 \in 1..Len(kept)
      BY <1>4, TailFacts
    <2>2. Append(kept, e)[1] = kept[1]
      BY <2>1, AppendFacts
    <2> QED BY <1>1, <1>2, <1>4, <2>2
  <1> QED BY <1>3, <1>4

\* Placing a line keeps the layout: it joins the chunk, follows it in a new one
\* or becomes an embed of its own.
LEMMA PlaceStep ==
  ASSUME LInv, IInv, PlaceLine
  PROVE  LInv'
  <1> DEFINE room      == MaxDescription - Heading
             candidate == IF chunk = line THEN lens[line] ELSE chunkLen + Separator + lens[line]
             before    == chunk # line /\ candidate > room
             length    == IF before THEN lens[line] ELSE candidate
             start     == IF before THEN line ELSE chunk
             after     == length > room
             old       == Flushed(chunk, line - 1, chunkLen, Heading)
             new       == Flushed(start, line, length, IF before THEN 0 ELSE Heading)
             kept      == IF before THEN Append(embeds, old) ELSE embeds
             origin    == NextAfter(messages, first)
  <1>1. /\ embeds' = (IF after THEN Append(kept, new) ELSE kept)
        /\ titled' = (titled \/ before \/ after)
        /\ chunk' = (IF after THEN line + 1 ELSE start)
        /\ chunkLen' = (IF after THEN 0 ELSE length)
        /\ line' = line + 1
        /\ UNCHANGED <<vars, inputVars, stage, messages>>
        /\ shape = "embeds" /\ pc = "rendering" /\ stage = "placing" /\ line <= SliceEnd
    BY DEF PlaceLine, Placing
  <1>2. /\ first \in Nat /\ first >= 1 /\ SliceEnd \in Nat /\ SliceEnd <= Batch /\ first <= line
        /\ line \in Events /\ line \in Nat /\ Batch \in Nat
    <2>1. first \in 1..(Batch + 1) /\ first <= Batch
      BY <1>1 DEF IInv, Position, TypeOK
    <2>2. SliceEnd \in first..Batch /\ SliceEnd \in Events
      BY <2>1, SliceEndType DEF IInv
    <2>3. first <= line
      BY <1>1 DEF LInv, Stages
    <2> QED BY <1>1, <2>1, <2>2, <2>3, Sizes DEF LInv, ChunkFits, Events
  <1>3. /\ chunk \in 1..line /\ chunk \in Events /\ chunkLen \in Nat /\ titled \in BOOLEAN
        /\ title \in Nat /\ lens[line] \in Nat
        /\ chunk # line => chunkLen <= MaxDescription /\ line - 1 \in Events /\ chunk <= line - 1
    BY <1>2, LengthTypes DEF LInv, ChunkFits, Events
  <1>6. Heading \in Nat /\ Heading <= MaxTitle
    BY HeadingType DEF LInv
  <1>4. candidate \in Nat /\ length \in Nat /\ room \in Int /\ room <= MaxDescription
    BY <1>3, <1>6, LengthTypes
  <1>5. /\ start \in Events /\ start <= line
        /\ length <= MaxDescription \/ (start = line /\ length = lens[line])
    BY <1>2, <1>3, <1>4, <1>6, LengthTypes
  <1>7. ASSUME before PROVE old \in GoodEmbeds /\ old.from = chunk /\ old.to = line - 1
    <2> DEFINE prev == line - 1
    <2>1. prev \in Events /\ chunk <= prev /\ chunkLen <= MaxDescription
      BY <1>3, <1>7
    <2> HIDE DEF prev
    <2>2. /\ Flushed(chunk, prev, chunkLen, Heading) \in GoodEmbeds
          /\ Flushed(chunk, prev, chunkLen, Heading).from = chunk
          /\ Flushed(chunk, prev, chunkLen, Heading).to = prev
      BY <1>3, <1>6, <2>1, GoodFlush
    <2> QED BY <2>2 DEF prev
  <1>8. new \in GoodEmbeds /\ new.from = start /\ new.to = line
    <2> DEFINE heading == IF before THEN 0 ELSE Heading
    <2>1. heading \in Nat /\ heading <= MaxTitle
      BY <1>6, LengthTypes
    <2> HIDE DEF heading, start, length
    <2>2. /\ Flushed(start, line, length, heading) \in GoodEmbeds
          /\ Flushed(start, line, length, heading).from = start
          /\ Flushed(start, line, length, heading).to = line
      BY <1>2, <1>4, <1>5, <2>1, GoodFlush
    <2> QED BY <2>2 DEF heading, start, length
  <1>9. /\ embeds \in Seq(GoodEmbeds) /\ Chain(embeds)
        /\ embeds # <<>> => embeds[1].from = origin
        /\ chunk = NextAfter(embeds, origin)
    BY <1>1 DEF LInv, Cover
  <1>10. /\ kept \in Seq(GoodEmbeds) /\ Chain(kept) /\ (kept # <<>> => kept[1].from = origin)
         /\ start = NextAfter(kept, origin)
    <2>1. CASE before
      <3> HIDE DEF old, before
      <3>1. /\ Append(embeds, old) \in Seq(GoodEmbeds) /\ Chain(Append(embeds, old))
            /\ Append(embeds, old)[1].from = origin
            /\ NextAfter(Append(embeds, old), origin) = old.to + 1
        BY <2>1, <1>7, <1>9, AppendEmbed
      <3>2. old.to + 1 = line
        BY <2>1, <1>2, <1>7
      <3> QED BY <2>1, <3>1, <3>2
    <2>2. CASE ~before
      <3> HIDE DEF before
      <3> QED BY <2>2, <1>9
    <2> QED BY <2>1, <2>2
  <1> HIDE DEF kept, start, length, before, after, new, old, room, candidate
  <1>11. /\ embeds' \in Seq(GoodEmbeds) /\ Chain(embeds') /\ (embeds' # <<>> => embeds'[1].from = origin)
         /\ chunk' = NextAfter(embeds', origin)
    <2>1. CASE after
      <3>1. embeds' = Append(kept, new) /\ chunk' = line + 1
        BY <1>1, <2>1
      <3> QED BY <1>8, <1>10, <3>1, AppendEmbed
    <2>2. CASE ~after
      BY <1>1, <1>10, <2>2
    <2> QED BY <2>1, <2>2
  <1>12. UNCHANGED <<messages, first, pc, shape, stage, lens, title>>
    BY <1>1 DEF vars, callVars, inputVars
  <1>13. GoodEmbeds' = GoodEmbeds /\ GoodMessages' = GoodMessages
    BY <1>12 DEF GoodEmbeds, GoodMessages
  <1>14. ChunkFits'
    <2>1. line' \in 1..(Batch + 1) /\ chunk' \in 1..line'
      BY <1>1, <1>2, <1>5 DEF Events
    <2>2. chunkLen' \in Nat /\ (chunk' # line' => chunkLen' <= MaxDescription)
      BY <1>1, <1>4, LengthTypes DEF after
    <2>3. lens' \in [Events -> LineLengths] /\ title' \in TitleLengths
      BY <1>12 DEF LInv, ChunkFits
    <2>4. titled' \in BOOLEAN
      BY <1>1
    <2> QED BY <2>1, <2>2, <2>3, <2>4 DEF ChunkFits
  <1>15. Cover'
    BY <1>1, <1>11, <1>12 DEF LInv, Cover, Stages
  <1>16. Stages'
    BY <1>1, <1>2, <1>12 DEF LInv, Stages
  <1> QED BY <1>11, <1>12, <1>13, <1>14, <1>15, <1>16 DEF LInv

\* The last chunk is told too.
LEMMA FlushStep ==
  ASSUME LInv, IInv, LastFlush
  PROVE  LInv'
  <1> DEFINE last_embed == Flushed(chunk, line - 1, chunkLen, Heading)
             origin == NextAfter(messages, first)
  <1>1. /\ embeds' = (IF chunk = line THEN embeds ELSE Append(embeds, last_embed))
        /\ titled' = TRUE /\ chunk' = line /\ chunkLen' = 0 /\ stage' = "packing"
        /\ UNCHANGED <<vars, inputVars, line, messages>>
        /\ shape = "embeds" /\ pc = "rendering" /\ stage = "placing" /\ line > SliceEnd
    BY DEF LastFlush, Placing
  <1>2. UNCHANGED <<messages, first, pc, shape, lens, title, line>>
    BY <1>1 DEF vars, callVars, inputVars
  <1>3. GoodEmbeds' = GoodEmbeds /\ GoodMessages' = GoodMessages
    BY <1>2 DEF GoodEmbeds, GoodMessages
  <1>4. line \in 1..(Batch + 1) /\ chunk \in 1..line /\ chunkLen \in Nat /\ line \in Nat
    BY Sizes DEF LInv, ChunkFits
  <1>5. first < line
    <2>1. first \in 1..(Batch + 1) /\ first <= Batch
      BY <1>1 DEF IInv, Position, TypeOK
    <2>2. SliceEnd \in first..Batch
      BY <2>1, SliceEndType DEF IInv
    <2> QED BY <1>1, <1>4, <2>1, <2>2, Sizes
  <1>6. /\ embeds \in Seq(GoodEmbeds) /\ Chain(embeds)
        /\ embeds # <<>> => embeds[1].from = origin
        /\ chunk = NextAfter(embeds, origin)
    BY <1>1 DEF LInv, Cover
  <1>7. /\ embeds' \in Seq(GoodEmbeds) /\ Chain(embeds') /\ (embeds' # <<>> => embeds'[1].from = origin)
        /\ line = NextAfter(embeds', origin)
    <2>1. CASE chunk = line
      BY <1>1, <1>6, <2>1
    <2>2. CASE chunk # line
      <3> DEFINE prev == line - 1
      <3>1. prev \in Events /\ chunk \in Events /\ chunk <= prev /\ chunkLen <= MaxDescription /\ prev + 1 = line
        BY <1>4, <2>2, Sizes DEF LInv, ChunkFits, Events
      <3>2. Heading \in Nat /\ Heading <= MaxTitle
        BY HeadingType DEF LInv
      <3> HIDE DEF prev
      <3>3. /\ Flushed(chunk, prev, chunkLen, Heading) \in GoodEmbeds
            /\ Flushed(chunk, prev, chunkLen, Heading).from = chunk
            /\ Flushed(chunk, prev, chunkLen, Heading).to = prev
        BY <1>4, <3>1, <3>2, GoodFlush
      <3>4. last_embed \in GoodEmbeds /\ last_embed.from = chunk /\ last_embed.to + 1 = line
        BY <3>1, <3>3 DEF prev
      <3>5. embeds' = Append(embeds, last_embed)
        BY <1>1, <2>2
      <3> HIDE DEF last_embed
      <3> QED BY <1>6, <3>4, <3>5, AppendEmbed
    <2> QED BY <2>1, <2>2
  <1>8. ChunkFits'
    <2>1. line \in 1..line /\ 0 \in Nat
      BY <1>4
    <2> QED BY <1>1, <1>2, <1>4, <2>1 DEF LInv, ChunkFits
  <1>9. Cover'
    BY <1>1, <1>2, <1>7 DEF LInv, Cover
  <1>10. Stages'
    BY <1>1, <1>2, <1>5 DEF LInv, Stages
  <1> QED BY <1>2, <1>3, <1>7, <1>8, <1>9, <1>10 DEF LInv

\* Packing an embed moves it to the messages.
LEMMA PackStep ==
  ASSUME LInv, IInv, PackEmbed
  PROVE  LInv'
  <1> DEFINE e == Head(embeds)
             n == Len(messages)
             wider == Joined(messages[n], e)
             fresh == Alone(e)
  <1>1. /\ messages' = (IF n > 0 /\ Fits(messages[n], e) THEN [messages EXCEPT ![n] = wider]
                        ELSE Append(messages, fresh))
        /\ embeds' = Tail(embeds) /\ embeds # <<>>
        /\ UNCHANGED <<vars, inputVars, stage, line, chunk, chunkLen, titled>>
        /\ shape = "embeds" /\ pc = "rendering" /\ stage = "packing"
    BY DEF PackEmbed, Packing
  <1>2. UNCHANGED <<first, pc, shape, lens, title, line, chunk, chunkLen, titled, stage>>
    BY <1>1 DEF vars, callVars, inputVars
  <1>3. GoodEmbeds' = GoodEmbeds /\ GoodMessages' = GoodMessages
    BY <1>2 DEF GoodEmbeds, GoodMessages
  <1>4. /\ embeds \in Seq(GoodEmbeds) /\ messages \in Seq(GoodMessages) /\ Chain(embeds) /\ Chain(messages)
        /\ embeds[1].from = NextAfter(messages, first) /\ chunk = NextAfter(embeds, NextAfter(messages, first))
        /\ messages # <<>> => messages[1].from = first
    BY <1>1 DEF LInv, Cover
  <1>5. e \in GoodEmbeds /\ e = embeds[1] /\ n \in Nat /\ (messages = <<>> <=> n = 0)
    BY <1>1, <1>4, TailFacts, EmptyLength
  <1>6. e.from \in Events /\ e.to \in Events /\ e.from <= e.to /\ e.chars \in Nat /\ e.chars <= MaxTotal
    BY <1>5, EmbedAssumption DEF GoodEmbeds, Embeds
  <1>7. /\ messages' \in Seq(GoodMessages) /\ messages' # <<>> /\ Chain(messages')
        /\ NextAfter(messages', first) = e.to + 1 /\ messages'[1].from = first
    <2>1. CASE n > 0 /\ Fits(messages[n], e)
      <3>1. messages[n] \in GoodMessages
        BY <1>4, <1>5, <2>1
      <3>2. messages[n].from <= e.to
        <4>1. messages[n].to + 1 = e.from
          BY <1>4, <1>5, <2>1 DEF NextAfter
        <4> QED BY <1>6, <3>1, <4>1 DEF GoodMessages, Messages, Events
      <3>3. wider \in GoodMessages /\ wider.from = messages[n].from /\ wider.to = e.to
        BY <1>6, <2>1, <3>1, <3>2, EmbedAssumption DEF Joined, Fits, GoodMessages, Messages
      <3>4. messages' = LastReplaced(messages, wider) /\ messages # <<>>
        BY <1>1, <1>5, <2>1 DEF LastReplaced
      <3>5. wider.from = messages[Len(messages)].from
        BY <3>3
      <3> HIDE DEF wider, n
      <3>6. /\ messages' \in Seq(GoodMessages) /\ messages' # <<>> /\ messages'[1].from = messages[1].from
            /\ Chain(messages') /\ NextAfter(messages', first) = wider.to + 1
        BY <1>4, <3>3, <3>4, <3>5, WidenChain
      <3> QED BY <1>4, <3>3, <3>4, <3>6
    <2>2. CASE ~(n > 0 /\ Fits(messages[n], e))
      <3>1. fresh \in GoodMessages /\ fresh.from = e.from /\ fresh.to = e.to
        BY <1>6, EmbedAssumption DEF Alone, GoodMessages, Messages
      <3>2. messages' = Append(messages, fresh)
        BY <1>1, <2>2
      <3> HIDE DEF fresh
      <3>3. fresh.from = NextAfter(messages, first)
        BY <1>4, <1>5, <3>1
      <3>4. messages' \in Seq(GoodMessages) /\ messages' # <<>> /\ messages'[n + 1] = fresh
            /\ \A i \in 1..n : messages'[i] = messages[i]
        BY <1>4, <3>1, <3>2, AppendFacts
      <3>5. Chain(messages') /\ NextAfter(messages', first) = e.to + 1
        BY <1>4, <3>1, <3>2, <3>3, AppendChain
      <3>6. CASE n = 0
        BY <1>5, <3>3, <3>4, <3>5, <3>6 DEF NextAfter
      <3>7. CASE n # 0
        <4>1. 1 \in 1..n
          BY <1>5, <3>7
        <4> QED BY <1>4, <1>5, <3>4, <3>5, <3>7, <4>1
      <3> QED BY <3>6, <3>7
    <2> QED BY <2>1, <2>2
  <1>8. /\ embeds' \in Seq(GoodEmbeds) /\ Chain(embeds')
        /\ embeds' # <<>> => embeds'[1].from = e.to + 1
        /\ NextAfter(embeds', e.to + 1) = chunk
    BY <1>1, <1>4, TailFacts, TailChain
  <1> HIDE DEF e, n, wider, fresh
  <1>9. Cover'
    BY <1>1, <1>2, <1>7, <1>8 DEF Cover
  <1>10. ChunkFits' /\ Stages'
    BY <1>1, <1>2 DEF LInv, ChunkFits, Stages
  <1> QED BY <1>3, <1>7, <1>8, <1>9, <1>10 DEF LInv

\* What is laid out does not change while it is posted.
LEMMA LayoutKept ==
  ASSUME LInv, UNCHANGED layoutVars, UNCHANGED inputVars,
         shape = "embeds" => pc' # "rendering" /\ stage = "packed"
  PROVE  LInv'
  <1>1. UNCHANGED <<stage, line, chunk, chunkLen, titled, embeds, messages, shape, lens, title>>
    BY DEF layoutVars, inputVars
  <1>2. embeds' \in Seq(GoodEmbeds)' /\ messages' \in Seq(GoodMessages)'
    BY <1>1 DEF LInv, GoodEmbeds, GoodMessages
  <1>3. ChunkFits'
    BY <1>1 DEF LInv, ChunkFits
  <1>4. Cover'
    <2> SUFFICES ASSUME shape' = "embeds" PROVE Cover'
      BY DEF Cover
    <2>1. embeds = <<>> /\ messages # <<>> /\ pc' # "rendering"
      BY <1>1 DEF LInv, Stages
    <2>2. NextAfter(messages, first) = NextAfter(messages, first')
      BY <2>1 DEF NextAfter
    <2> QED BY <1>1, <2>1, <2>2 DEF LInv, Cover
  <1>5. Stages'
    BY <1>1 DEF LInv, Stages
  <1> QED BY <1>2, <1>3, <1>4, <1>5 DEF LInv

\* A step that leaves the layout, the place of the call and the event at hand
\* alone.
LEMMA LayoutUntouched ==
  ASSUME LInv, UNCHANGED layoutVars, UNCHANGED inputVars, UNCHANGED <<pc, first>>
  PROVE  LInv'
  <1>1. UNCHANGED <<stage, line, chunk, chunkLen, titled, embeds, messages, shape, lens, title, pc, first>>
    BY DEF layoutVars, inputVars
  <1>2. embeds' \in Seq(GoodEmbeds)' /\ messages' \in Seq(GoodMessages)'
    BY <1>1 DEF LInv, GoodEmbeds, GoodMessages
  <1>3. ChunkFits'
    BY <1>1 DEF LInv, ChunkFits
  <1>4. Cover'
    BY <1>1 DEF LInv, Cover
  <1>5. Stages'
    BY <1>1 DEF LInv, Stages
  <1> QED BY <1>2, <1>3, <1>4, <1>5 DEF LInv

\* The next sendBatch starts from nothing.
LEMMA LayoutRestarts ==
  ASSUME LInv, IInv', StartLayout, UNCHANGED inputVars, pc' = "rendering"
  PROVE  LInv'
  <1>1. /\ stage' = "placing" /\ line' = first' /\ chunk' = first' /\ chunkLen' = 0
        /\ titled' = FALSE /\ embeds' = <<>> /\ messages' = <<>>
        /\ UNCHANGED <<shape, lens, title>>
    BY DEF StartLayout, inputVars
  <1>2. first' \in 1..(Batch + 1) /\ Batch \in Nat
    BY Sizes DEF IInv, TypeOK
  <1>3. embeds' \in Seq(GoodEmbeds)' /\ messages' \in Seq(GoodMessages)' /\ Len(embeds') = 0 /\ Len(messages') = 0
    BY <1>1
  <1>4. ChunkFits'
    <2>1. line' \in 1..(Batch + 1) /\ chunk' \in 1..line' /\ chunkLen' \in Nat
      BY <1>1, <1>2
    <2> QED BY <1>1, <2>1 DEF LInv, ChunkFits
  <1>5. Cover'
    BY <1>1, <1>3 DEF Cover, Chain, NextAfter
  <1>6. Stages'
    BY <1>1, <1>2 DEF Stages
  <1> QED BY <1>3, <1>4, <1>5, <1>6 DEF LInv

\* All embeds are packed: there was one at least.
LEMMA PackedStep ==
  ASSUME LInv, Packed
  PROVE  LInv'
  <1>1. /\ embeds = <<>> /\ stage' = "packed" /\ stage = "packing" /\ shape = "embeds" /\ pc = "rendering"
        /\ UNCHANGED <<line, chunk, chunkLen, titled, embeds, messages, shape, lens, title, pc, first>>
    BY DEF Packed, Packing, vars, callVars, inputVars
  <1>2. embeds' \in Seq(GoodEmbeds)' /\ messages' \in Seq(GoodMessages)'
    BY <1>1 DEF LInv, GoodEmbeds, GoodMessages
  <1>3. ChunkFits'
    BY <1>1 DEF LInv, ChunkFits
  <1>4. Cover'
    BY <1>1 DEF LInv, Cover
  <1>5. messages # <<>>
    <2>1. chunk = line /\ first < line /\ line \in Nat
      BY <1>1, Sizes DEF LInv, Stages, ChunkFits
    <2>2. chunk = NextAfter(messages, first)
      BY <1>1 DEF LInv, Cover, NextAfter
    <2>3. messages = <<>> => first = line
      BY <2>1, <2>2 DEF NextAfter
    <2>4. first \in Int \/ first \notin Int
      OBVIOUS
    <2> QED BY <2>1, <2>3
  <1>6. Stages'
    BY <1>1, <1>5 DEF LInv, Stages
  <1> QED BY <1>2, <1>3, <1>4, <1>6 DEF LInv

LEMMA LayoutStep ==
  ASSUME LInv, IInv, IInv', [DiscordNext]_discordVars
  PROVE  LInv'
  <1>1. CASE PlaceLine
    BY <1>1, PlaceStep
  <1>2. CASE LastFlush
    BY <1>2, FlushStep
  <1>3. CASE PackEmbed
    BY <1>3, PackStep
  <1>4. CASE Packed
    BY <1>4, PackedStep
  <1>5. CASE RenderBodies
    <2>1. pc' # "rendering" /\ (shape = "embeds" => stage = "packed")
      BY <1>5 DEF RenderBodies, Render
    <2>2. UNCHANGED layoutVars /\ UNCHANGED inputVars
      BY <1>5 DEF RenderBodies
    <2> QED BY <2>1, <2>2, LayoutKept
  <1>6. CASE RenderTemplate
    <2>1. shape # "embeds" /\ UNCHANGED layoutVars /\ UNCHANGED inputVars
      BY <1>6 DEF RenderTemplate
    <2> QED BY <2>1, LayoutKept
  <1>7. CASE PostBodies
    <2>1. pc # "rendering" /\ UNCHANGED inputVars
      BY <1>7 DEF PostBodies, Post, Reply, Accepted, Rejected, TimesOut, Interrupted, Troubled, SleepEnds, GiveUp
    <2>2. shape = "embeds" => stage = "packed"
      BY <2>1 DEF LInv, Stages
    <2>3. CASE shape = "embeds" /\ pc' = "rendering"
      <3>1. StartLayout
        BY <1>7, <2>3 DEF PostBodies
      <3> QED BY <2>1, <2>3, <3>1, LayoutRestarts
    <2>4. CASE ~(shape = "embeds" /\ pc' = "rendering")
      <3>1. UNCHANGED layoutVars
        BY <1>7, <2>4 DEF PostBodies
      <3> QED BY <2>1, <2>2, <2>4, <3>1, LayoutKept
    <2> QED BY <2>3, <2>4
  <1>8. CASE Cancel /\ UNCHANGED <<inputVars, layoutVars>>
    <2>1. UNCHANGED <<pc, first>> /\ UNCHANGED inputVars /\ UNCHANGED layoutVars
      BY <1>8 DEF Cancel, callVars
    <2> QED BY <2>1, LayoutUntouched
  <1>9. CASE UNCHANGED discordVars
    <2>1. UNCHANGED <<pc, first>> /\ UNCHANGED inputVars /\ UNCHANGED layoutVars
      BY <1>9 DEF discordVars, vars, callVars
    <2> QED BY <2>1, LayoutUntouched
  <1> QED BY <1>1, <1>2, <1>3, <1>4, <1>5, <1>6, <1>7, <1>8, <1>9, DiscordStepCases

\* The layout is sound in every state: what the messages, the embeds and the
\* chunk tell is the run of events from the first to the line at hand.
THEOREM LayoutInvariance == DiscordSpec => []LInv
  <1>1. LInv /\ IInv /\ IInv' /\ [DiscordNext]_discordVars => LInv'
    BY LayoutStep
  <1> QED BY InitLayout, <1>1, DiscordInvariance, PTL DEF DiscordSpec

\* For any lengths and limits, no message is too large for Discord.
THEOREM MessagesFit == DiscordSpec => []WithinLimits
  <1>1. LInv => WithinLimits
    <2> SUFFICES ASSUME LInv, NEW m \in Range(messages)
                 PROVE  m.count <= MaxEmbeds /\ m.chars <= MaxTotal
      BY DEF WithinLimits
    <2>1. messages \in Seq(GoodMessages)
      BY DEF LInv
    <2>2. PICK i \in DOMAIN messages : m = messages[i]
      BY DEF Range
    <2>3. m \in GoodMessages
      BY <2>1, <2>2
    <2> QED BY <2>3 DEF GoodMessages
  <1> QED BY <1>1, LayoutInvariance, PTL

\* For any digest the messages tell every event once and in order.
THEOREM DigestToldWhole == DiscordSpec => []EveryEventTold
  <1>1. LInv => EveryEventTold
    <2> SUFFICES ASSUME LInv, shape = "embeds", stage = "packed" PROVE EveryEventTold
      BY DEF EveryEventTold, LaidOutInFull
    <2>1. /\ messages \in Seq(GoodMessages) /\ messages # <<>> /\ embeds = <<>> /\ chunk = line
          /\ Chain(messages) /\ (pc = "rendering" => messages[1].from = first)
          /\ line \in Nat
      BY Sizes DEF LInv, Cover, Stages, ChunkFits
    <2>2. line = messages[Len(messages)].to + 1
      BY <2>1 DEF LInv, Cover, NextAfter
    <2>3. Len(messages) \in DOMAIN messages /\ DOMAIN messages = 1..Len(messages) /\ Len(messages) \in Nat
      BY <2>1, TailFacts
    <2>4. \A i \in DOMAIN messages : messages[i] \in GoodMessages
      BY <2>1
    <2>5. messages[Len(messages)].to = line - 1
      BY <2>2, <2>3, <2>4 DEF GoodMessages, Messages, Events
    <2>6. ASSUME NEW i \in DOMAIN messages
          PROVE  /\ messages[i].from <= messages[i].to
                 /\ i > 1 => messages[i].from = messages[i - 1].to + 1
      BY <2>1, <2>3, <2>4, <2>6 DEF GoodMessages, Chain
    <2> QED BY <2>1, <2>5, <2>6 DEF EveryEventTold
  <1> QED BY <1>1, LayoutInvariance, PTL

\* Only a single line that is too long by itself is ever cut.
THEOREM CutsAreForced == DiscordSpec => []OnlyLongLinesAreCut
  <1>1. LInv => OnlyLongLinesAreCut
    <2> SUFFICES ASSUME LInv, NEW i \in DOMAIN embeds, ~embeds[i].whole
                 PROVE  embeds[i].from = embeds[i].to /\ lens[embeds[i].from] > MaxDescription
      BY DEF OnlyLongLinesAreCut
    <2>1. embeds[i] \in GoodEmbeds
      BY DEF LInv
    <2> QED BY <2>1 DEF GoodEmbeds
  <1> QED BY <1>1, LayoutInvariance, PTL

-----------------------------------------------------------------------------
(* sendBatch always finds the next message: the bodies of DiscordDelivery   *)
(* are taken from the layout, and the layout never runs out of them.        *)

\* The lines placed are those of the sendBatch, all of them once packing starts.
SliceLaidOut ==
  shape = "embeds" /\ pc # "returned" =>
    line <= SliceEnd + 1 /\ (stage # "placing" => line = SliceEnd + 1)

\* The body at hand is one of the messages.
AtMessage ==
  shape = "embeds" /\ Active => \E m \in Range(messages) : m.from = first /\ m.to = last

\* A message that begins at an event and stays within the sendBatch.
HasMessage(e) == \E m \in Range(messages) : m.from = e /\ m.to \in e..SliceEnd

NextMessageThere ==
  shape = "embeds" =>
    /\ stage = "packed" /\ pc = "rendering" => HasMessage(first)
    /\ Active /\ last < SliceEnd => HasMessage(last + 1)

LEMMA InitPlaces == DiscordInit => SliceLaidOut /\ AtMessage
  <1> SUFFICES ASSUME DiscordInit PROVE SliceLaidOut /\ AtMessage
    OBVIOUS
  <1>1. pc = "rendering" /\ first = 1 /\ line = 1 /\ stage = "placing" /\ mode \in {"simple", "digest"}
    BY DEF DiscordInit, Init
  <1>2. 1 <= SliceEnd + 1
    BY <1>1, Sizes DEF SliceEnd
  <1> QED BY <1>1, <1>2 DEF SliceLaidOut, AtMessage, Active

\* While the bodies of a sendBatch are posted, its end stays where it is.
LEMMA SliceStays ==
  ASSUME IInv, Post \/ Reply \/ SleepEnds \/ GiveUp, pc' \notin {"rendering", "returned"}
  PROVE  SliceEnd' = SliceEnd /\ Active
  <1>1. CASE Accepted
    <2>1. pc' = "trying" /\ last < SliceEnd /\ first <= last /\ first \in Nat /\ last \in Nat
      BY <1>1, Sizes DEF Accepted, Proceed, IInv, Position, Active, TypeOK
    <2>2. mode = "digest" /\ mode' = mode
      BY <1>1, <2>1 DEF Accepted, SliceEnd, IInv, TypeOK
    <2> QED BY <1>1, <2>2 DEF SliceEnd, Accepted, Active
  <1>2. CASE Post \/ Troubled \/ SleepEnds
    <2>1. UNCHANGED <<mode, first>> /\ Active
      BY <1>2 DEF Post, Troubled, SleepEnds, Fail, callVars, Active
    <2> QED BY <2>1 DEF SliceEnd
  <1>3. CASE Rejected \/ TimesOut \/ Interrupted \/ GiveUp
    BY <1>3 DEF Rejected, TimesOut, Interrupted, GiveUp, Fail
  <1> QED BY <1>1, <1>2, <1>3 DEF Reply

LEMMA SliceStep ==
  ASSUME LInv, IInv, IInv', SliceLaidOut, [DiscordNext]_discordVars
  PROVE  SliceLaidOut'
  <1> SUFFICES ASSUME shape' = "embeds", pc' # "returned"
               PROVE  line' <= SliceEnd' + 1 /\ (stage' # "placing" => line' = SliceEnd' + 1)
    BY DEF SliceLaidOut
  <1>0. first \in Nat /\ first' \in Nat /\ Batch \in Nat /\ line \in Nat
    BY Sizes DEF IInv, TypeOK, LInv, ChunkFits
  <1>1. SliceEnd \in Nat
    BY <1>0 DEF SliceEnd
  <1>2. shape = "embeds"
    BY DiscordStepCases DEF PlaceLine, LastFlush, PackEmbed, Packed, RenderBodies,
       RenderTemplate, PostBodies, discordVars, inputVars
  <1>3. CASE PlaceLine \/ LastFlush \/ PackEmbed \/ Packed
    <2>1. UNCHANGED <<pc, mode, first>> /\ SliceEnd' = SliceEnd
      BY <1>3 DEF PlaceLine, LastFlush, PackEmbed, Packed, vars, callVars, SliceEnd
    <2>2. line <= SliceEnd + 1 /\ (stage # "placing" => line = SliceEnd + 1)
      BY <1>2, <2>1 DEF SliceLaidOut
    <2>3. CASE PlaceLine
      BY <1>0, <1>1, <2>1, <2>3 DEF PlaceLine, Placing
    <2>4. CASE LastFlush
      BY <1>0, <1>1, <2>1, <2>2, <2>4 DEF LastFlush, Placing
    <2>5. CASE PackEmbed \/ Packed
      BY <2>1, <2>2, <2>5 DEF PackEmbed, Packed, Packing
    <2> QED BY <1>3, <2>3, <2>4, <2>5
  <1>4. CASE RenderBodies
    <2>1. UNCHANGED <<mode, first, line, stage>> /\ pc = "rendering" /\ SliceEnd' = SliceEnd
      BY <1>4 DEF RenderBodies, Render, layoutVars, SliceEnd
    <2> QED BY <1>2, <2>1 DEF SliceLaidOut
  <1>5. CASE RenderTemplate
    BY <1>2, <1>5 DEF RenderTemplate
  <1>6. CASE PostBodies
    <2>1. CASE pc' = "rendering"
      <3>1. line' = first' /\ stage' = "placing" /\ first' <= Batch
        BY <1>2, <1>6, <2>1 DEF PostBodies, StartLayout, IInv, Position
      <3>2. first' <= SliceEnd' /\ SliceEnd' \in Nat
        BY <1>0, <3>1 DEF SliceEnd
      <3>3. \A l, e \in Nat : l <= e => l <= e + 1
        OBVIOUS
      <3>4. line' <= SliceEnd' + 1
        BY <1>0, <3>1, <3>2, <3>3
      <3> QED BY <3>1, <3>4
    <2>2. CASE pc' # "rendering"
      <3>1. UNCHANGED <<line, stage>>
        BY <1>6, <2>2 DEF PostBodies, layoutVars
      <3>2. SliceEnd' = SliceEnd /\ pc # "returned"
        BY <1>6, <2>2, SliceStays DEF PostBodies, Active
      <3> QED BY <1>2, <3>1, <3>2 DEF SliceLaidOut
    <2> QED BY <2>1, <2>2
  <1>7. CASE Cancel /\ UNCHANGED <<inputVars, layoutVars>>
    BY <1>2, <1>7 DEF Cancel, callVars, layoutVars, SliceLaidOut, SliceEnd
  <1>8. CASE UNCHANGED discordVars
    BY <1>2, <1>8 DEF discordVars, vars, callVars, layoutVars, SliceLaidOut, SliceEnd
  <1> QED BY <1>3, <1>4, <1>5, <1>6, <1>7, <1>8, DiscordStepCases

LEMMA AtMessageStep ==
  ASSUME IInv, AtMessage, [DiscordNext]_discordVars
  PROVE  AtMessage'
  <1> SUFFICES ASSUME shape' = "embeds", Active'
               PROVE  \E m \in Range(messages') : m.from = first' /\ m.to = last'
    BY DEF AtMessage
  <1>1. shape = "embeds"
    BY DiscordStepCases DEF PlaceLine, LastFlush, PackEmbed, Packed, RenderBodies,
       RenderTemplate, PostBodies, discordVars, inputVars
  <1>2. CASE RenderBodies
    BY <1>1, <1>2 DEF RenderBodies, Render, LaidOut, layoutVars
  <1>3. CASE PostBodies
    <2>1. UNCHANGED messages
      BY <1>1, <1>3 DEF PostBodies, Active, layoutVars
    <2>2. CASE pc' = "trying"
      BY <1>1, <1>3, <2>1, <2>2 DEF PostBodies, LaidOut
    <2>3. CASE pc' # "trying"
      <3>1. Active /\ UNCHANGED <<first, last>>
        <4>1. pc' \in {"posting", "sleeping"}
          BY <2>3 DEF Active
        <4>2. Post \/ Troubled
          BY <1>3, <4>1 DEF PostBodies, Reply, Accepted, Proceed, Rejected, TimesOut, Interrupted,
             SleepEnds, GiveUp, Fail
        <4> QED BY <4>1, <4>2 DEF Post, Troubled, Fail, callVars, Active
      <3> QED BY <1>1, <2>1, <3>1 DEF AtMessage
    <2> QED BY <2>2, <2>3
  <1>4. CASE PlaceLine \/ LastFlush \/ PackEmbed \/ Packed
    BY <1>4 DEF PlaceLine, LastFlush, PackEmbed, Packed, Placing, Packing, vars, Active
  <1>5. CASE RenderTemplate
    BY <1>1, <1>5 DEF RenderTemplate
  <1>6. CASE Cancel /\ UNCHANGED <<inputVars, layoutVars>>
    BY <1>1, <1>6 DEF Cancel, callVars, layoutVars, AtMessage, Active
  <1>7. CASE UNCHANGED discordVars
    BY <1>1, <1>7 DEF discordVars, vars, callVars, layoutVars, AtMessage, Active
  <1> QED BY <1>2, <1>3, <1>4, <1>5, <1>6, <1>7, DiscordStepCases

\* A set of naturals has a least element.
LEMMA LeastNatural ==
  ASSUME NEW T \in SUBSET Nat, T # {}
  PROVE  \E x \in T : \A y \in T : x <= y
  <1>1. PICK x \in T : \A y \in T : ~(<<y, x>> \in OpToRel(<, Nat))
    BY NatLessThanWellFounded, WFMin
  <1>2. \A y \in T : ~(y < x)
    BY <1>1 DEF OpToRel
  <1> QED BY <1>2

\* No run of a chain goes beyond the last one.
LEMMA ChainEnds ==
  ASSUME NEW s \in Seq(GoodMessages), Chain(s), NEW j \in 1..Len(s)
  PROVE  s[j].to <= s[Len(s)].to
  <1> DEFINE n == Len(s)
             Beyond == {k \in 1..n : s[k].to > s[n].to}
             Tails == {k \in Nat : n - k \in Beyond}
  <1>1. n \in Nat /\ n \in 1..n
    OBVIOUS
  <1>2. \A k \in 1..n : s[k].from \in Nat /\ s[k].to \in Nat /\ s[k].from <= s[k].to
    <2>1. \A k \in 1..n : s[k] \in GoodMessages
      OBVIOUS
    <2> QED BY <2>1 DEF GoodMessages, Messages, Events
  <1>3. ASSUME NEW x \in Tails PROVE \E y \in Tails : y < x
    <2> DEFINE k == n - x
    <2>1. k \in 1..n /\ s[k].to > s[n].to /\ x \in Nat /\ k # n
      BY <1>1, <1>2
    <2>2. k + 1 \in 2..n /\ k + 1 \in 1..n /\ (k + 1) - 1 = k
      BY <1>1, <2>1
    <2>3. s[k + 1].from = s[k].to + 1
      BY <2>2 DEF Chain
    <2>4. s[k + 1].to > s[n].to
      <3>1. /\ s[k].to \in Nat /\ s[n].to \in Nat /\ s[k + 1].to \in Nat
            /\ s[k + 1].from <= s[k + 1].to
        BY <1>1, <1>2, <2>1, <2>2
      <3> HIDE DEF k, n
      <3> QED BY <2>1, <2>3, <3>1
    <2>5. x - 1 \in Nat /\ n - (x - 1) = k + 1 /\ x - 1 < x
      BY <1>1, <2>1
    <2> QED BY <2>2, <2>4, <2>5
  <1>4. Tails = {}
    <2>1. Tails \in SUBSET Nat
      OBVIOUS
    <2>2. \A x \in Tails, y \in Tails : y < x => ~(x <= y)
      BY <2>1
    <2> QED BY <1>3, <2>1, <2>2, LeastNatural
  <1>5. n - j \in Nat /\ n - (n - j) = j
    BY <1>1
  <1>6. j \notin Beyond
    BY <1>4, <1>5
  <1> QED BY <1>1, <1>2, <1>6

\* There is always a body to post: once a sendBatch is laid out a message begins
\* at its first event, and after each message but the last another one begins
\* where it ended.
THEOREM NextBodyExists == DiscordSpec => []NextMessageThere
  <1>1. LInv /\ IInv /\ SliceLaidOut /\ AtMessage => NextMessageThere
    <2> SUFFICES ASSUME LInv, IInv, SliceLaidOut, AtMessage, shape = "embeds",
                        stage = "packed" /\ pc # "returned"
                 PROVE  /\ pc = "rendering" => HasMessage(first)
                        /\ Active /\ last < SliceEnd => HasMessage(last + 1)
      BY DEF NextMessageThere, LInv, Stages, Active
    <2>1. /\ messages \in Seq(GoodMessages) /\ messages # <<>> /\ Chain(messages)
          /\ pc = "rendering" => messages[1].from = first
      BY DEF LInv, Cover, Stages
    <2>2. DOMAIN messages = 1..Len(messages) /\ Len(messages) \in Nat /\ Len(messages) >= 1
      BY <2>1, TailFacts
    <2>3. \A i \in 1..Len(messages) :
            /\ messages[i].from \in Nat /\ messages[i].to \in Nat
            /\ messages[i].from <= messages[i].to
            /\ messages[i] \in Range(messages)
      <3>1. \A i \in 1..Len(messages) : messages[i] \in GoodMessages
        BY <2>1
      <3>2. \A i \in 1..Len(messages) : messages[i] \in Range(messages)
        BY <2>2 DEF Range
      <3> QED BY <3>1, <3>2 DEF GoodMessages, Messages, Events
    <2>4. messages[Len(messages)].to = SliceEnd /\ SliceEnd \in Nat
      <3>1. line = messages[Len(messages)].to + 1 /\ line \in Nat
        BY <2>1, Sizes DEF LInv, Cover, Stages, NextAfter, ChunkFits
      <3>2. line = SliceEnd + 1
        BY DEF SliceLaidOut
      <3>3. SliceEnd \in Nat
        BY Sizes DEF SliceEnd, IInv, TypeOK
      <3> QED BY <2>2, <2>3, <3>1, <3>2, <3>3
    <2>5. ASSUME NEW i \in 1..Len(messages)
          PROVE  messages[i].to \in messages[i].from..SliceEnd
      <3>1. messages[i].to <= SliceEnd
        BY <2>1, <2>4, ChainEnds
      <3> QED BY <2>3, <2>4, <3>1
    <2>6. ASSUME pc = "rendering" PROVE HasMessage(first)
      BY <2>1, <2>2, <2>3, <2>5, <2>6 DEF HasMessage
    <2>7. ASSUME Active, last < SliceEnd PROVE HasMessage(last + 1)
      <3>1. PICK i \in 1..Len(messages) : messages[i].to = last
        BY <2>2, <2>7 DEF AtMessage, Range
      <3>2. i + 1 \in 2..Len(messages) /\ i + 1 \in 1..Len(messages) /\ (i + 1) - 1 = i
        BY <2>2, <2>4, <2>7, <3>1
      <3>3. messages[i + 1].from = last + 1
        BY <2>1, <3>1, <3>2 DEF Chain
      <3> QED BY <2>3, <2>5, <3>2, <3>3 DEF HasMessage
    <2> QED BY <2>6, <2>7
  <1>2. SliceLaidOut /\ LInv /\ IInv /\ IInv' /\ [DiscordNext]_discordVars => SliceLaidOut'
    BY SliceStep
  <1>3. AtMessage /\ IInv /\ [DiscordNext]_discordVars => AtMessage'
    BY AtMessageStep
  <1> QED BY <1>1, <1>2, <1>3, InitPlaces, LayoutInvariance, DiscordInvariance, PTL DEF DiscordSpec

-----------------------------------------------------------------------------
(* Types, and the end of the two loops.                                     *)

Labels == shape \in {"embeds", "other"} /\ stage \in {"placing", "packing", "packed"}

LEMMA LabelsStep ==
  ASSUME Labels, [DiscordNext]_discordVars
  PROVE  Labels'
  BY DiscordStepCases DEF Labels, PlaceLine, LastFlush, PackEmbed, Packed, RenderBodies,
     RenderTemplate, PostBodies, StartLayout, discordVars, inputVars, layoutVars

\* A sequence over a set is one over any larger set.
LEMMA WiderSeq ==
  ASSUME NEW S, NEW T, S \subseteq T, NEW s \in Seq(S)
  PROVE  s \in Seq(T)
  OBVIOUS

\* The variables of the layout keep their types.
THEOREM DiscordTypeCorrect == DiscordSpec => []DiscordTypeOK
  <1>1. DiscordInit => Labels
    BY DEF DiscordInit, Labels
  <1>2. IInv /\ LInv /\ Labels => DiscordTypeOK
    <2> SUFFICES ASSUME IInv, LInv, Labels PROVE DiscordTypeOK
      OBVIOUS
    <2>1. embeds \in Seq(Embeds) /\ messages \in Seq(Messages)
      <3>1. GoodEmbeds \subseteq Embeds /\ GoodMessages \subseteq Messages
        BY DEF GoodEmbeds, GoodMessages
      <3> QED BY <3>1, WiderSeq DEF LInv
    <2>2. chunk \in 1..(Batch + 1)
      BY Sizes DEF LInv, ChunkFits
    <2> QED BY <2>1, <2>2 DEF DiscordTypeOK, IInv, LInv, ChunkFits, Labels
  <1> QED BY <1>1, <1>2, LabelsStep, DiscordInvariance, LayoutInvariance, PTL DEF DiscordSpec

\* What is left of a layout: its loops in turn, and the rounds of the one at hand.
LayoutLeft ==
  CASE stage = "placing" -> <<2, Batch + 1 - line>>
    [] stage = "packing" -> <<1, Len(embeds)>>
    [] stage = "packed"  -> <<0, 0>>

LayoutBelow == LexPairOrdering(OpToRel(<, Nat), OpToRel(<, Nat), Nat, Nat)

DiscordBelow == LexPairOrdering(Below, LayoutBelow, Amounts, Nat \X Nat)

LEMMA LayoutLeftType ==
  ASSUME LInv, Labels
  PROVE  LayoutLeft \in Nat \X Nat
  <1>1. Batch + 1 - line \in Nat
    BY Sizes DEF LInv, ChunkFits
  <1>2. Len(embeds) \in Nat
    BY DEF LInv
  <1> QED BY <1>1, <1>2 DEF LayoutLeft, Labels

LEMMA LayoutLeftFalls ==
  ASSUME LInv, LInv', PlaceLine \/ LastFlush \/ PackEmbed \/ Packed
  PROVE  <<LayoutLeft', LayoutLeft>> \in LayoutBelow
  <1>1. /\ Batch + 1 - line \in Nat /\ Batch + 1 - line' \in Nat
        /\ Len(embeds) \in Nat /\ Len(embeds') \in Nat
    <2>1. \A l \in 1..(Batch + 1) : Batch + 1 - l \in Nat
      BY Sizes
    <2>2. line \in 1..(Batch + 1) /\ line' \in 1..(Batch + 1)
      BY DEF LInv, ChunkFits
    <2> QED BY <2>1, <2>2 DEF LInv
  <1>2. \A a, b, x, y \in Nat :
          a < x \/ (a = x /\ b < y) => <<<<a, b>>, <<x, y>>>> \in LayoutBelow
    BY DEF LayoutBelow, LexPairOrdering, OpToRel
  <1>3. CASE PlaceLine
    <2>1. stage = "placing" /\ stage' = "placing" /\ line' = line + 1
      BY <1>3 DEF PlaceLine, Placing
    <2>2. \A l \in 1..(Batch + 1) : Batch + 1 - (l + 1) < Batch + 1 - l
      BY Sizes
    <2>3. Batch + 1 - line' < Batch + 1 - line
      BY <2>1, <2>2 DEF LInv, ChunkFits
    <2>4. <<<<2, Batch + 1 - line'>>, <<2, Batch + 1 - line>>>> \in LayoutBelow
      BY <1>1, <1>2, <2>3
    <2> QED BY <2>1, <2>4 DEF LayoutLeft
  <1>4. CASE LastFlush
    <2>1. stage = "placing" /\ stage' = "packing"
      BY <1>4 DEF LastFlush, Placing
    <2>2. <<<<1, Len(embeds')>>, <<2, Batch + 1 - line>>>> \in LayoutBelow
      BY <1>1, <1>2
    <2> QED BY <2>1, <2>2 DEF LayoutLeft
  <1>5. CASE PackEmbed
    <2>1. stage = "packing" /\ stage' = "packing" /\ embeds # <<>> /\ embeds' = Tail(embeds)
      BY <1>5 DEF PackEmbed, Packing
    <2>2. Len(embeds') < Len(embeds)
      BY <2>1, TailFacts DEF LInv
    <2>3. <<<<1, Len(embeds')>>, <<1, Len(embeds)>>>> \in LayoutBelow
      BY <1>1, <1>2, <2>2
    <2> QED BY <2>1, <2>3 DEF LayoutLeft
  <1>6. CASE Packed
    <2>1. stage = "packing" /\ stage' = "packed"
      BY <1>6 DEF Packed, Packing
    <2>2. <<<<0, 0>>, <<1, Len(embeds)>>>> \in LayoutBelow
      BY <1>1, <1>2
    <2> QED BY <2>1, <2>2 DEF LayoutLeft
  <1> QED BY <1>3, <1>4, <1>5, <1>6

LEMMA DiscordLeftFalls ==
  ASSUME IInv, IInv', LInv, LInv', Labels, Labels', DiscordNext
  PROVE  <<<<Left', LayoutLeft'>>, <<Left, LayoutLeft>>>> \in DiscordBelow
  <1>1. Left \in Amounts /\ LayoutLeft \in Nat \X Nat
    BY LeftType, LayoutLeftType DEF IInv
  <1>2. TypeOK' => Left' \in Amounts
    <2>1. \A f \in 1..(Batch + 1), t \in 1..MaxAttempts :
            Batch + 1 - f \in Nat /\ MaxAttempts - t \in Nat
      BY Sizes
    <2>2. TypeOK' => Rank[pc'] \in Nat
      BY DEF TypeOK, Rank
    <2> QED BY <2>1, <2>2 DEF TypeOK, Left, Amounts
  <1>3. LayoutLeft' \in Nat \X Nat
    <2>1. \A l \in 1..(Batch + 1) : Batch + 1 - l \in Nat
      BY Sizes
    <2>2. line' \in 1..(Batch + 1) /\ Len(embeds') \in Nat
      BY DEF LInv, ChunkFits
    <2> QED BY <2>1, <2>2 DEF LayoutLeft, Labels
  <1>4. Left' \in Amounts
    BY <1>2 DEF IInv
  <1>5. <<Left', Left>> \in Below \/ (Left' = Left /\ <<LayoutLeft', LayoutLeft>> \in LayoutBelow)
    <2>1. CASE PlaceLine \/ LastFlush \/ PackEmbed \/ Packed
      <3>1. Left' = Left
        BY <2>1 DEF PlaceLine, LastFlush, PackEmbed, Packed, vars, callVars, Left
      <3> QED BY <2>1, <3>1, LayoutLeftFalls
    <2>2. CASE ~(PlaceLine \/ LastFlush \/ PackEmbed \/ Packed)
      <3>1. Next
        BY <2>2 DEF DiscordNext, DiscordStep, RenderBodies, RenderTemplate, PostBodies, Next, CallStep
      <3> QED BY <3>1, LeftFalls
    <2> QED BY <2>1, <2>2
  <1> QED BY <1>1, <1>3, <1>4, <1>5 DEF DiscordBelow, LexPairOrdering

DiscordLowered == <<<<Left', LayoutLeft'>>, <<Left, LayoutLeft>>>> \in DiscordBelow

\* Discord's Notify, too, comes nearer to its return with every step, whatever
\* lengths the layout has to deal with and however often posts fail.
THEOREM DiscordNotifyIsFinite ==
  /\ IsWellFoundedOn(DiscordBelow, Amounts \X (Nat \X Nat))
  /\ DiscordSpec => [][DiscordLowered]_discordVars
  <1>1. IsWellFoundedOn(LayoutBelow, Nat \X Nat)
    BY NatLessThanWellFounded, WFLexPairOrdering DEF LayoutBelow
  <1>2. IsWellFoundedOn(DiscordBelow, Amounts \X (Nat \X Nat))
    BY <1>1, BelowWellFounded, WFLexPairOrdering DEF DiscordBelow
  <1>3. DiscordInit => Labels
    BY DEF DiscordInit, Labels
  <1>4. IInv /\ IInv' /\ LInv /\ LInv' /\ Labels /\ Labels' /\ [DiscordNext]_discordVars
          => [DiscordLowered]_discordVars
    BY DiscordLeftFalls DEF DiscordLowered
  <1> QED BY <1>2, <1>3, <1>4, LabelsStep, DiscordInvariance, LayoutInvariance, PTL DEF DiscordSpec
=============================================================================
