-------------------------------- MODULE Screens --------------------------------
(***************************************************************************)
(* The management screens, each with the part of the service or the shell  *)
(* it works on.  They share no state: only how their requests are under    *)
(* way (ScreenCalls).  A behaviour opens one of them and stays with it.    *)
(***************************************************************************)
EXTENDS ScreenCalls

CONSTANTS
  FewPresses,            \* bound: MaxPresses for the screens with many buttons
  Found, PageSize,       \* see ConversationList
  HumansShown,           \* see HumanList
  RulesBefore,           \* see MemoryList
  Secrets, Granted,      \* see SettingsForm
  Sources,               \* see KnowledgeSources
  Versions               \* see UpdateManager

ASSUME ScreenConstants ==
  /\ FewPresses \in Nat /\ PageSize \in Nat \ {0} /\ HumansShown \in Nat \ {0} /\ Versions \in Nat \ {0}
  /\ Granted \subseteq Secrets

VARIABLES
  screen,                \* the screen that is open
  store, query, debounced, tab, items, itemsRef, hasMore, loading, listError, loadingMore, searchSeq,
  dialog, confirming, again, told, astray, back,
  order, default, jobOf, humans, humansRef, known, moreHumans, reading, readingMore, busy,
  target, job, result, deleting, reused,
  memories, rules, filter, readingNo, rows, ignored, editing, asked, overlapped,
  stored, keychain, running, form, savedForm, secretFlags, typed, discovered, saving, scanning, resetting,
  kept, enabled, listed, shownEnabled, asking, crossed,
  published, staged, panel, configured, u, strange

listVars   == <<store, query, debounced, tab, items, itemsRef, hasMore, loading, listError, loadingMore,
                searchSeq, dialog, confirming, again, told, astray, back>>
humanVars  == <<order, default, jobOf, humans, humansRef, known, moreHumans, reading, readingMore, busy,
                target, job, result, deleting, reused>>
memoryVars == <<memories, rules, filter, readingNo, rows, ignored, editing, asked, overlapped>>
formVars   == <<stored, keychain, running, form, savedForm, secretFlags, typed, discovered, saving,
                scanning, resetting>>
sourceVars == <<kept, enabled, listed, shownEnabled, asking, crossed>>
updateVars == <<published, staged, panel, configured, u, strange>>
vars == <<callVars, screen, listVars, humanVars, memoryVars, formVars, sourceVars, updateVars>>

-----------------------------------------------------------------------------
\* What there is when a screen is opened: two conversations; a human that is being built, one
\* without remote resources and one whose build has failed; two memories; and settings with every secret.
Conversations == INSTANCE ConversationList WITH Stored <- <<FALSE, FALSE>>
DigitalHumans == INSTANCE HumanList
  WITH Humans <- <<[remote |-> TRUE, job |-> "running"], [remote |-> FALSE, job |-> "none"],
                   [remote |-> TRUE, job |-> "failed"]>>
Memory        == INSTANCE MemoryList WITH MemoryTypes <- <<"goal", "habit">>, MaxPresses <- FewPresses
Settings      == INSTANCE SettingsForm
  WITH SavedBefore <- [settings |-> [url |-> "local", model |-> "m"], secrets |-> Secrets],
       MaxPresses <- FewPresses
Knowledge     == INSTANCE KnowledgeSources
Update        == INSTANCE UpdateManager WITH MaxPresses <- MaxPresses + 1

-----------------------------------------------------------------------------
FirstCalls(s) == CASE s = "conversations"  -> Conversations!FirstCalls
                   [] s = "humans" -> DigitalHumans!FirstCalls
                   [] s = "memory"         -> Memory!FirstCalls
                   [] s = "settings"       -> Settings!FirstCalls
                   [] s = "knowledge"      -> Knowledge!FirstCalls
                   [] s = "update"         -> Update!FirstCalls
Init ==
  /\ Conversations!ScreenInit /\ DigitalHumans!ScreenInit /\ Memory!ScreenInit
  /\ Settings!ScreenInit /\ Knowledge!ScreenInit /\ Update!ScreenInit
  /\ screen \in {"conversations", "humans", "memory", "settings", "knowledge", "update"}
  /\ CallsInit(FirstCalls(screen))

Next ==
  \/ /\ screen = "conversations" /\ Conversations!Next
     /\ UNCHANGED <<screen, humanVars, memoryVars, formVars, sourceVars, updateVars>>
  \/ /\ screen = "humans" /\ DigitalHumans!Next
     /\ UNCHANGED <<screen, listVars, memoryVars, formVars, sourceVars, updateVars>>
  \/ /\ screen = "memory" /\ Memory!Next
     /\ UNCHANGED <<screen, listVars, humanVars, formVars, sourceVars, updateVars>>
  \/ /\ screen = "settings" /\ Settings!Next
     /\ UNCHANGED <<screen, listVars, humanVars, memoryVars, sourceVars, updateVars>>
  \/ /\ screen = "knowledge" /\ Knowledge!Next
     /\ UNCHANGED <<screen, listVars, humanVars, memoryVars, formVars, updateVars>>
  \/ /\ screen = "update" /\ Update!Next
     /\ UNCHANGED <<screen, listVars, humanVars, memoryVars, formVars, sourceVars>>

Spec == Init /\ [][Next]_vars

-----------------------------------------------------------------------------
\* A late answer never overwrites newer rows (ConversationManagement.tsx:125-126).
ListIsOfView == screen = "conversations" => Conversations!ListIsOfView

\* A conversation that was deleted is not listed again (ConversationManagement.tsx:343-366).
DeletedStaysAway == screen = "conversations" => Conversations!DeletedStaysAway

\* What the dialog says is about the human it names (DigitalHumanManagement.tsx:330-366).
ResultIsOfTarget == screen = "humans" => DigitalHumans!ResultIsOfTarget

\* A clean-up that failed leaves the human in place (DigitalHumanManagement.tsx:99-101).
FailedCleanupKeeps == screen = "humans" => DigitalHumans!FailedCleanupKeeps

\* The panel ends up showing what the service keeps (MemoryPanel.tsx:58-76, 150-223).
MemoryAgrees == screen = "memory" => Memory!MemoryAgrees

\* What is stored ends up in effect (Settings.tsx:221-294, 376-395).
StoredTakesEffect == screen = "settings" => Settings!StoredTakesEffect

\* The sources end up shown as the service has them (Settings.tsx:170-186, 296-366).
SourcesAgree == screen = "knowledge" => Knowledge!SourcesAgree

\* What the update panel says is under way, or offers, is backed by a call and by the staged package
\* (updateStateMachine.ts:160-204, useUpdateManager.ts:76-136).
PanelIsBacked == screen = "update" => Update!PanelIsBacked

\* "已保存，留空表示不修改" (saved, leave empty to keep it: RemoteServicePanel.tsx:113).
EmptyKeepsSecret == Settings!EmptyKeepsSecret
=============================================================================
