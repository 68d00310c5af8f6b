----------------------------- MODULE KnowledgeSources -----------------------------
(***************************************************************************)
(* The knowledge sources of the settings: read once, enabled or paused,    *)
(* synchronized again and deleted row by row, and gone with all other      *)
(* local data when that is cleared.                                        *)
(***************************************************************************)
EXTENDS ScreenCalls

CONSTANT Sources  \* the ids of the sources

VARIABLES
  kept, enabled,         \* at the service: its sources, and those that are enabled
  listed, shownEnabled,  \* on the screen
  asking,            \* what the open dialog asks about
  crossed                \* history variable: a press crossed an answer that contradicts it

sourceVars == <<kept, enabled, listed, shownEnabled, asking, crossed>>

NoSource == "none"
AllData  == "all data"

-----------------------------------------------------------------------------
\* The service.
Switched(set, c) == IF c.arg.on THEN set \cup {c.arg.id} ELSE set \ {c.arg.id}
Acts(c) ==
  /\ kept'    = CASE c.op = "clear" -> {} [] c.op = "remove" -> kept \ {c.arg.id} [] OTHER -> kept
  /\ enabled' = IF c.op # "enable" THEN enabled \cap kept' ELSE Switched(enabled, c)
\* A source that is gone is deleted again without complaint.
Refused(c) == c.op \in {"enable", "resync"} /\ c.arg.id \notin kept
Serve(c) == /\ IF Refused(c) THEN Serves(c, Failed) /\ UNCHANGED <<kept, enabled>>
                             ELSE Serves(c, Ok([kept |-> kept, enabled |-> enabled])) /\ Acts(c)
            /\ UNCHANGED <<listed, shownEnabled, asking, crossed>>
Lose(c)  == /\ Fails(c)
            /\ UNCHANGED <<kept, enabled>> \/ (~Refused(c) /\ Acts(c))
            /\ UNCHANGED <<listed, shownEnabled, asking, crossed>>

-----------------------------------------------------------------------------
SourcesListed(c) ==
  /\ c.op = "sources" /\ Heard(c, {})
  /\ IF c.ans.ok THEN listed' = c.ans.data.kept /\ shownEnabled' = c.ans.data.enabled
                 ELSE UNCHANGED <<listed, shownEnabled>>
  /\ UNCHANGED <<kept, enabled, asking, crossed>>

\* The dialogs, one at a time.
Open(what) == /\ asking = NoSource /\ asking' = what
              /\ UNCHANGED <<callVars, kept, enabled, listed, shownEnabled, crossed>>
Close      == /\ asking # NoSource /\ asking' = NoSource
              /\ UNCHANGED <<callVars, kept, enabled, listed, shownEnabled, crossed>>

\* The buttons of a row; a deletion is confirmed.
PressSource(op, id) ==
  /\ id \in listed
  /\ IF op = "remove" THEN asking = id ELSE asking = NoSource
  /\ Press({Call(op, [id |-> id, on |-> id \notin shownEnabled])})
  /\ crossed' = (crossed \/ (op = "enable" /\ \E d \in Of("enable") :
                                d.arg.id = id /\ d.arg.on = (id \in shownEnabled)))
  /\ UNCHANGED <<kept, enabled, listed, shownEnabled, asking>>
AlwaysEnables(c) ==   \* mutant
  /\ c.op \in {"enable", "resync", "remove"} /\ Heard(c, {})
  /\ shownEnabled' = IF c.ans.ok /\ c.op = "enable" THEN shownEnabled \cup {c.arg.id} ELSE shownEnabled
  /\ listed' = IF c.ans.ok /\ c.op = "remove" THEN listed \ {c.arg.id} ELSE listed
  /\ asking' = IF c.op = "remove" /\ asking # AllData THEN NoSource ELSE asking
  /\ UNCHANGED <<kept, enabled, crossed>>
SourceChanged(c) ==
  /\ c.op \in {"enable", "resync", "remove"} /\ Heard(c, {})
  /\ shownEnabled' = IF c.ans.ok /\ c.op = "enable" THEN Switched(shownEnabled, c) ELSE shownEnabled
  /\ listed' = IF c.ans.ok /\ c.op = "remove" THEN listed \ {c.arg.id} ELSE listed
  /\ asking' = IF c.op = "remove" /\ asking # AllData THEN NoSource ELSE asking
  /\ UNCHANGED <<kept, enabled, crossed>>

\* The data of the service, then the recordings and pictures taken.
HandleClearAllData ==
  /\ asking = AllData /\ Press({Call("clear", <<>>)})
  /\ crossed' = (crossed \/ Of("sources") # {})
  /\ UNCHANGED <<kept, enabled, listed, shownEnabled, asking>>
Cleared(c) ==
  /\ c.op \in {"clear", "media"}
  /\ Heard(c, IF c.op = "clear" /\ c.ans.ok THEN {Call("media", <<>>)} ELSE {})
  /\ listed' = IF c.op = "media" /\ c.ans.ok THEN {} ELSE listed
  /\ asking' = IF asking = AllData /\ (c.op = "media" \/ ~c.ans.ok) THEN NoSource ELSE asking
  /\ UNCHANGED <<kept, enabled, shownEnabled, crossed>>

-----------------------------------------------------------------------------
ScreenInit ==
        /\ kept = Sources /\ enabled = Sources /\ listed = {} /\ shownEnabled = {}
        /\ asking = NoSource /\ crossed = FALSE
FirstCalls == {Call("sources", <<>>)}
Init == ScreenInit /\ CallsInit(FirstCalls)

Next ==
  \/ (\E what \in listed \cup {AllData} : Open(what)) \/ Close \/ HandleClearAllData
  \/ (\E id \in Sources, op \in {"enable", "resync", "remove"} : PressSource(op, id))
  \/ (\E c \in calls : Serve(c) \/ Lose(c) \/ SourcesListed(c) \/ SourceChanged(c) \/ Cleared(c))

Spec == Init /\ [][Next]_<<callVars, sourceVars>>

-----------------------------------------------------------------------------
\* Nothing keeps two presses on one source apart.  When nothing is under way and nothing has failed,
\* each source on the screen is one the service has, enabled or paused as shown, unless it was
\* enabled while a pause was under way or the reverse, which takes three presses, or the data was
\* cleared while the sources were read (Settings.tsx:170-186, 296-366).
SourcesAgree ==
  calls = {} /\ faults = 0 /\ ~crossed =>
    listed \subseteq kept /\ \A id \in listed : id \in enabled <=> id \in shownEnabled
=============================================================================
