------------------------ MODULE NotificationPromise -------------------------
(***************************************************************************)
(* What the daemon promises about update notifications, whatever it is     *)
(* made of: it announces what it does not remember (or everything, when    *)
(* forced), it remembers an announcement only once every recipient has     *)
(* been told, and it may forget, which costs a repetition and never a      *)
(* silence.                                                                *)
(***************************************************************************)
CONSTANTS
  Keys,         \* what an announcement is about
  Targets,      \* what can be announced about a key
  Recipients,   \* whom announcements go to
  Nothing       \* nothing is remembered about a key

VARIABLES
  up,           \* there is a process
  forced,       \* everything found is announced, remembered or not
  announcing,   \* the announcements now going out
  told,         \* for each recipient, the announcements it has been given
  remembered    \* for each key, the target taken as announced

promiseVars == <<up, forced, announcing, told, remembered>>

Memories == [Keys -> Targets \cup {Nothing}]

\* Whatever is remembered has been told to every recipient.
Justified(memory) ==
  \A k \in Keys, r \in Recipients :
    memory[k] # Nothing => <<k, memory[k]>> \in told[r]

Init ==
  /\ up = FALSE /\ forced = FALSE /\ announcing = {}
  /\ told = [r \in Recipients |-> {}]
  /\ remembered = [k \in Keys |-> Nothing]

\* A start finds the memory again, or finds it lost.
Begin ==
  /\ ~up /\ up' = TRUE
  /\ remembered' \in {remembered, [k \in Keys |-> Nothing]}
  /\ UNCHANGED <<forced, announcing, told>>

Toggle ==
  /\ up /\ announcing = {}
  /\ forced' = ~forced
  /\ UNCHANGED <<up, announcing, told, remembered>>

Announce ==
  /\ up /\ announcing = {}
  /\ announcing' \in SUBSET (Keys \X Targets)
  /\ \A a \in announcing' : forced \/ remembered[a[1]] # a[2]
  /\ UNCHANGED <<up, forced, told, remembered>>

\* One recipient is given some or all of the announcements.
Tell(r) ==
  /\ announcing # {}
  /\ \E given \in SUBSET announcing :
       told' = [told EXCEPT ![r] = @ \cup given]
  /\ announcing' \in {announcing, {}}
  /\ UNCHANGED <<up, forced, remembered>>

Settle ==
  /\ up /\ ~forced /\ announcing = {}
  /\ remembered' \in Memories
  /\ Justified(remembered')
  /\ UNCHANGED <<up, forced, announcing, told>>

\* The process ends at any moment; what it remembers falls back to what a later
\* start can find.
End ==
  /\ up /\ up' = FALSE
  /\ forced' = FALSE /\ announcing' = {}
  /\ remembered' \in Memories
  /\ Justified(remembered')
  /\ UNCHANGED told

Next ==
  \/ Begin \/ Toggle \/ Announce \/ Settle \/ End
  \/ \E r \in Recipients : Tell(r)

Spec == Init /\ [][Next]_promiseVars
=============================================================================
