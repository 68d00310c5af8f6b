------------------------------ MODULE MemoryList ------------------------------
(***************************************************************************)
(* MemoryPanel: the long-term memories the service keeps, read once for    *)
(* each choice of the filters, and changed row by row without a single     *)
(* button being disabled; and the types that are not to be remembered.     *)
(***************************************************************************)
EXTENDS ScreenCalls

CONSTANTS
  MemoryTypes, \* the type of each memory, newest first
  RulesBefore  \* the types ignored before the panel is opened

VARIABLES
  memories, rules,     \* at the service: [id, type, marks], and the types it ignores
  filter, readingNo,     \* the type filter, and the number of the reading whose answer counts
  rows, ignored,       \* what the panel shows of them
  editing, asked,      \* the row being edited; and what a dialog asks about: [op, id]
  overlapped           \* history variable, see the property

shownVars  == <<filter, readingNo, rows, ignored, editing, asked>>
memoryVars == <<memories, rules, shownVars, overlapped>>

Types   == ToSet(MemoryTypes)
NoRow   == 0
Nothing == [op |-> "none", id |-> NoRow]

\* "edited" stands for a new content.
Patched(row, c) == [row EXCEPT !.marks = IF c.arg.on THEN @ \cup {c.op} ELSE @ \ {c.op}]
Patches   == {"pinned", "disabled", "confirmed", "edited"}
Deletions == {"reject", "delete", "permanent"}
RuleCalls == {"ignore", "rules", "unignore"}

-----------------------------------------------------------------------------
\* The service.
Row(id)     == CHOOSE m \in ToSet(memories) : m.id = id
Accepts(c)  == CASE c.op \in Patches \cup Deletions -> c.arg.id \in Ids(memories)
                 [] c.op = "unignore" -> c.arg.type \in rules
                 [] OTHER -> TRUE
Acts(c) ==
  /\ memories' = CASE c.op \in Patches -> [n \in DOMAIN memories |->
                                            IF memories[n].id = c.arg.id THEN Patched(memories[n], c) ELSE memories[n]]
                   [] c.op \in Deletions -> Without(memories, c.arg.id)
                   [] c.op = "clear" -> <<>>
                   [] OTHER -> memories
  /\ rules' = CASE c.op = "ignore" -> rules \cup {c.arg.type}
                [] c.op = "unignore" -> rules \ {c.arg.type}
                [] OTHER -> rules
Reply(c) == CASE c.op = "list"  -> Select(memories, {n \in DOMAIN memories : c.arg.filter \in {"all", memories[n].type}})
              [] c.op = "rules" -> rules
              [] c.op \in Patches -> Patched(Row(c.arg.id), c)
              [] OTHER -> <<>>
Serve(c) == /\ IF Accepts(c) THEN Acts(c) /\ Serves(c, Ok(Reply(c)))
                             ELSE UNCHANGED <<memories, rules>> /\ Serves(c, Failed)
            /\ UNCHANGED <<shownVars, overlapped>>
Lose(c)  == /\ Fails(c)
            /\ (Accepts(c) /\ Acts(c)) \/ UNCHANGED <<memories, rules>>
            /\ UNCHANGED <<shownVars, overlapped>>

-----------------------------------------------------------------------------
\* What a request is about, and what of it is already being asked about.
Touches(c) == CASE c.op \in {"list", "clear"} -> DOMAIN MemoryTypes
                [] c.op \in RuleCalls -> {NoRow}
                [] OTHER -> {c.arg.id}
Sends(c)   == /\ Press({c})
              /\ overlapped' = overlapped \cup UNION {Touches(c) \cap Touches(d) : d \in calls}
              /\ UNCHANGED <<memories, rules>>

\* The effect of a change of the filters, which are disabled while their list is read.
Reading == \E c \in Of("list") : c.arg.n = readingNo
Filter(type) ==
  /\ ~Reading /\ filter # type /\ filter' = type /\ readingNo' = readingNo + 1
  /\ Sends(Call("list", [filter |-> type, n |-> readingNo + 1]))
  /\ UNCHANGED <<rows, ignored, editing, asked>>
MemoriesListed(c) ==
  /\ c.op = "list" /\ Heard(c, {})
  /\ rows' = IF c.ans.ok /\ c.arg.n = readingNo THEN c.ans.data ELSE rows
  /\ UNCHANGED <<memories, rules, filter, readingNo, ignored, editing, asked, overlapped>>

\* The buttons of a row send at once; what was asked for a second time is in the dialog.  The
\* editor and the dialog are only opened while a press is left.
PressRow(op, row) ==
  /\ op = "confirmed" => "confirmed" \notin row.marks
  /\ op = "reject"    => "confirmed" \notin row.marks
  /\ op = "edited"    => editing = row.id
  /\ Sends(Call(op, [id |-> row.id, on |-> op \in {"confirmed", "edited"} \/ op \notin row.marks]))
  /\ UNCHANGED shownVars
Edit(row) == /\ editing # row.id /\ editing' = row.id /\ presses < MaxPresses
             /\ UNCHANGED <<callVars, memories, rules, filter, readingNo, rows, ignored, asked, overlapped>>
Ask(what) == /\ asked = Nothing /\ asked' = what /\ presses < MaxPresses
             /\ UNCHANGED <<callVars, memories, rules, filter, readingNo, rows, ignored, editing, overlapped>>
Leave     == /\ asked # Nothing /\ asked' = Nothing
             /\ UNCHANGED <<callVars, memories, rules, filter, readingNo, rows, ignored, editing, overlapped>>
Agree ==
  /\ asked # Nothing /\ (asked.op = "clear" \/ asked.id \in Ids(rows))
  /\ Sends(Call(asked.op, [id |-> asked.id, on |-> TRUE]))
  /\ UNCHANGED shownVars

\* A pinned or disabled row is replaced by the service's; of the others the mark is set.
Replaced(row, c) == IF c.op \in {"pinned", "disabled"} THEN c.ans.data ELSE Patched(row, c)
RowPatched(c) ==
  /\ c.op \in Patches /\ Heard(c, {})
  /\ rows' = IF c.ans.ok THEN [n \in DOMAIN rows |-> IF rows[n].id = c.arg.id THEN Replaced(rows[n], c) ELSE rows[n]]
             ELSE rows
  /\ editing' = IF c.ans.ok /\ c.op = "edited" THEN NoRow ELSE editing
  /\ UNCHANGED <<memories, rules, filter, readingNo, ignored, asked, overlapped>>
RowDeleted(c) ==
  /\ c.op \in Deletions /\ Heard(c, {})
  /\ rows' = IF c.ans.ok THEN Without(rows, c.arg.id) ELSE rows
  /\ asked' = IF c.ans.ok /\ asked.op = c.op THEN Nothing ELSE asked
  /\ UNCHANGED <<memories, rules, filter, readingNo, ignored, editing, overlapped>>
Cleared(c) ==
  /\ c.op = "clear" /\ Heard(c, {})
  /\ rows' = IF c.ans.ok THEN <<>> ELSE rows
  /\ asked' = IF c.ans.ok /\ asked.op = "clear" THEN Nothing ELSE asked
  /\ UNCHANGED <<memories, rules, filter, readingNo, ignored, editing, overlapped>>

-----------------------------------------------------------------------------
\* The types that are not remembered: read again after one is added, not after one is removed.
IgnoreType(row) == Sends(Call("ignore", [type |-> row.type])) /\ UNCHANGED shownVars
Unignore(type)  == type \in ignored /\ Sends(Call("unignore", [type |-> type])) /\ UNCHANGED shownVars
NotReadAgain(c) ==   \* mutant
  /\ c.op \in RuleCalls
  /\ Heard(c, {})
  /\ ignored' = CASE c.ans.ok /\ c.op = "rules"    -> c.ans.data
                  [] c.ans.ok /\ c.op = "unignore" -> ignored \ {c.arg.type}
                  [] OTHER -> ignored
  /\ UNCHANGED <<memories, rules, filter, readingNo, rows, editing, asked, overlapped>>
RulesChanged(c) ==
  /\ c.op \in RuleCalls
  /\ Heard(c, IF c.op = "ignore" /\ c.ans.ok THEN {Call("rules", [type |-> c.arg.type])} ELSE {})
  /\ ignored' = CASE c.ans.ok /\ c.op = "rules"    -> c.ans.data
                  [] c.ans.ok /\ c.op = "unignore" -> ignored \ {c.arg.type}
                  [] OTHER -> ignored
  /\ UNCHANGED <<memories, rules, filter, readingNo, rows, editing, asked, overlapped>>

-----------------------------------------------------------------------------
ScreenInit ==
  /\ memories = [n \in DOMAIN MemoryTypes |-> [id |-> n, type |-> MemoryTypes[n], marks |-> {}]] /\ rules = RulesBefore
  /\ filter = "all" /\ readingNo = 0 /\ rows = <<>> /\ ignored = {} /\ editing = NoRow /\ asked = Nothing
  /\ overlapped = {}
FirstCalls == {Call("list", [filter |-> "all", n |-> 0]), Call("rules", [type |-> "all"])}
Init == ScreenInit /\ CallsInit(FirstCalls)

Next ==
  \/ (\E type \in Types \cup {"all"} : Filter(type) \/ Unignore(type))
  \/ (\E row \in ToSet(rows) : \/ Edit(row) \/ IgnoreType(row)
                               \/ \E op \in Patches \cup {"reject"} : PressRow(op, row)
                               \/ \E op \in {"delete", "permanent"} : Ask([op |-> op, id |-> row.id]))
  \/ Ask([op |-> "clear", id |-> NoRow]) \/ Leave \/ Agree
  \/ (\E c \in calls : Serve(c) \/ Lose(c) \/ MemoriesListed(c) \/ RowPatched(c) \/ RowDeleted(c)
                       \/ Cleared(c) \/ RulesChanged(c))

Spec == Init /\ [][Next]_<<callVars, memoryVars>>

-----------------------------------------------------------------------------
\* Once every request has been answered and none was lost, the panel shows each memory, and the
\* ignored types, as the service keeps them, unless requests about the same thing overlapped: the
\* answer of a pin replaces the row, that of a reading the list, whatever was heard since
\* (MemoryPanel.tsx:58-76, 150-178, 202-223).
MemoryAgrees ==
  calls = {} /\ faults = 0 =>
    /\ \A row \in ToSet(rows) : row.id \in overlapped \/ row \in ToSet(memories)
    /\ NoRow \in overlapped \/ ignored = rules
=============================================================================
