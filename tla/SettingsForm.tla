------------------------------ MODULE SettingsForm ------------------------------
(***************************************************************************)
(* Settings: a form over the settings and secrets the shell stores, whose  *)
(* saving is followed by a restart of the sidecar that makes them take     *)
(* effect; and the fields that a scan of the local services, or an         *)
(* authorization, fills in.                                                *)
(***************************************************************************)
EXTENDS ScreenCalls

CONSTANTS
  Secrets,      \* the kinds of secrets
  Granted,      \* those an authorization yields
  SavedBefore   \* [settings, secrets] in the shell when the form is opened

VARIABLES
  stored, keychain,    \* in the shell: the settings, and the secrets that are set
  running,             \* what the sidecar was started with
  form, savedForm, secretFlags, typed,  \* typed: the secret fields that are not empty
  discovered,          \* the models a scan has found
  saving, scanning,
  resetting           \* the dialog of the reset is open

shellVars   == <<stored, keychain, running>>
formVars    == <<form, savedForm, secretFlags, typed, discovered, saving, scanning>>
settingVars == <<shellVars, formVars, resetting>>

EmptySettings == [url |-> "", model |-> ""]
Models == {"m"}    \* those of the first local service that answers a scan

\* A local service needs a model, one of those the scan has found if it found any.
ValidateSettings(s) == /\ s.url # "" => s.model # ""
                       /\ s.model # "" /\ discovered # {} => s.model \in discovered

-----------------------------------------------------------------------------
\* The shell and the service.  An empty secret is deleted, an absent one is left alone; a
\* deletion the keychain refuses is passed over, and the secret is left.
ApplySecrets(secrets) == {k \in Secrets : IF k \in DOMAIN secrets THEN secrets[k] # "" ELSE k \in keychain}
Acts(c) ==
  /\ stored'   = CASE c.op = "save" -> c.arg.settings [] c.op = "reset" -> EmptySettings [] OTHER -> stored
  /\ \E left \in SUBSET keychain :
       keychain' = CASE c.op = "save" -> ApplySecrets(c.arg.secrets) \cup left [] c.op = "reset" -> left
                     [] OTHER -> keychain
  /\ running'  = IF c.op = "restart" THEN [settings |-> stored, secrets |-> keychain] ELSE running
Reply(c) == IF c.op = "load" THEN [settings |-> stored, secrets |-> keychain] ELSE <<>>
Serve(c) == Serves(c, Ok(Reply(c))) /\ Acts(c) /\ UNCHANGED <<formVars, resetting>>

\* What fails may have been done; the settings file is written before the keychain.
Lose(c) == /\ Fails(c)
           /\ \/ UNCHANGED shellVars
              \/ Acts(c)
              \/ c.op = "save" /\ stored' = c.arg.settings /\ UNCHANGED <<keychain, running>>
           /\ UNCHANGED <<formVars, resetting>>

-----------------------------------------------------------------------------
Loaded(c) ==
  /\ c.op = "load" /\ Heard(c, {})
  /\ IF c.ans.ok THEN form' = c.ans.data.settings /\ savedForm' = form' /\ secretFlags' = c.ans.data.secrets
                 ELSE UNCHANGED <<form, savedForm, secretFlags>>
  /\ UNCHANGED <<shellVars, typed, discovered, saving, scanning, resetting>>

\* The fields.
Update(field, value) ==
  /\ ~resetting
  /\ form[field] # value /\ form' = [form EXCEPT ![field] = value]
  /\ UNCHANGED <<callVars, shellVars, savedForm, secretFlags, typed, discovered, saving,
                 scanning, resetting>>
TypeSecret(k) ==
  /\ ~resetting
  /\ typed' = (IF k \in typed THEN typed \ {k} ELSE typed \cup {k})
  /\ UNCHANGED <<callVars, shellVars, form, savedForm, secretFlags, discovered, saving,
                 scanning, resetting>>

\* A scan fills in the address unless there was one when it began.
HandleScan ==
  /\ ~resetting
  /\ ~scanning /\ scanning' = TRUE /\ Press({Call("scan", [empty |-> form.url = ""])})
  /\ UNCHANGED <<shellVars, form, savedForm, secretFlags, typed, discovered, saving, resetting>>
Scanned(c) ==
  /\ c.op = "scan" /\ Heard(c, {}) /\ scanning' = FALSE
  /\ IF c.ans.ok
     THEN /\ discovered' = Models
          /\ form' = IF c.arg.empty THEN [form EXCEPT !.url = "local"] ELSE form
     ELSE discovered' = {} /\ UNCHANGED form
  /\ UNCHANGED <<shellVars, savedForm, secretFlags, typed, saving, resetting>>

\* An authorization fills in its secrets; the app's own id and secret, which it needs, are left out.
Authorize == /\ ~resetting /\ Press({Call("authorize", <<>>)})
             /\ UNCHANGED settingVars
Authorized(c) ==
  /\ c.op = "authorize" /\ Heard(c, {})
  /\ typed' = IF c.ans.ok THEN typed \cup Granted ELSE typed
  /\ UNCHANGED <<shellVars, form, savedForm, secretFlags, discovered, saving, scanning, resetting>>

-----------------------------------------------------------------------------
\* Saving: every secret field is sent, an empty one as empty.
Field(k) == IF k \in typed THEN "typed" ELSE ""
HandleSave ==
  /\ ~resetting
  /\ ~saving /\ ValidateSettings(form)
  /\ saving' = TRUE
  /\ Press({Call("save", [settings |-> form, secrets |-> [k \in Secrets |-> Field(k)],
                          back |-> savedForm, by |-> "save"])})
  /\ UNCHANGED <<shellVars, form, savedForm, secretFlags, typed, discovered, scanning, resetting>>
HandleClearSecret(k) ==
  /\ ~resetting
  /\ k \in secretFlags
  /\ Press({Call("save", [settings |-> form, secrets |-> [i \in {k} |-> ""], back |-> savedForm, by |-> k])})
  /\ UNCHANGED settingVars
HandleResetSettings ==
  /\ resetting /\ Press({Call("reset", [by |-> "reset"])})
  /\ UNCHANGED settingVars

RestartOf(c) == Call("restart", [by |-> c.arg.by])
NoRestart(c) ==   \* mutant
  /\ c.op \in {"save", "reset"}
  /\ Heard(c, IF c.ans.ok /\ c.arg.by \in {"save", "reset"} THEN {RestartOf(c)} ELSE {})
  /\ form'  = IF c.arg.by = "save" /\ ~c.ans.ok THEN c.arg.back ELSE form
  /\ savedForm' = IF c.arg.by = "save" /\ c.ans.ok THEN c.arg.settings ELSE savedForm
  /\ saving' = IF c.arg.by = "save" /\ ~c.ans.ok THEN FALSE ELSE saving
  /\ resetting' = IF c.op = "reset" /\ ~c.ans.ok THEN FALSE ELSE resetting
  /\ UNCHANGED <<shellVars, secretFlags, typed, discovered, scanning>>
\* What was stored takes effect with a restart; a form whose saving failed is rolled back.
Stored(c) ==
  /\ c.op \in {"save", "reset"} /\ Heard(c, IF c.ans.ok THEN {RestartOf(c)} ELSE {})
  /\ form'  = IF c.arg.by = "save" /\ ~c.ans.ok THEN c.arg.back ELSE form
  /\ savedForm' = IF c.arg.by = "save" /\ c.ans.ok THEN c.arg.settings ELSE savedForm
  /\ saving' = IF c.arg.by = "save" /\ ~c.ans.ok THEN FALSE ELSE saving
  /\ resetting' = IF c.op = "reset" /\ ~c.ans.ok THEN FALSE ELSE resetting
  /\ UNCHANGED <<shellVars, secretFlags, typed, discovered, scanning>>
Restarted(c) ==
  /\ c.op = "restart" /\ Heard(c, {})
  /\ typed' = IF c.ans.ok /\ c.arg.by \in {"save", "reset"} THEN {} ELSE typed
  /\ form'  = IF c.ans.ok /\ c.arg.by = "reset" THEN EmptySettings ELSE form
  /\ secretFlags' = IF ~c.ans.ok THEN secretFlags
                    ELSE IF c.arg.by = "reset" THEN {} ELSE secretFlags \ {c.arg.by}
  /\ saving' = IF c.arg.by = "save" THEN FALSE ELSE saving
  /\ resetting' = IF c.arg.by = "reset" THEN FALSE ELSE resetting
  /\ UNCHANGED <<shellVars, savedForm, discovered, scanning>>

OpenResetSettings  == /\ ~resetting /\ resetting' = TRUE
                      /\ UNCHANGED <<callVars, shellVars, formVars>>
CloseResetSettings == /\ resetting /\ resetting' = FALSE
                      /\ UNCHANGED <<callVars, shellVars, formVars>>

-----------------------------------------------------------------------------
ScreenInit ==
  /\ stored = SavedBefore.settings /\ keychain = SavedBefore.secrets /\ running = SavedBefore
  /\ form = EmptySettings /\ savedForm = EmptySettings /\ secretFlags = {} /\ typed = {}
  /\ discovered = {} /\ saving = FALSE /\ scanning = FALSE /\ resetting = FALSE
FirstCalls == {Call("load", <<>>)}
Init == ScreenInit /\ CallsInit(FirstCalls)

Next ==
  \/ (\E url \in {"", "local"} : Update("url", url)) \/ (\E model \in {""} \cup Models : Update("model", model))
  \/ (\E k \in Secrets : TypeSecret(k) \/ HandleClearSecret(k))
  \/ HandleScan \/ Authorize \/ HandleSave \/ HandleResetSettings
  \/ OpenResetSettings \/ CloseResetSettings
  \/ (\E c \in calls : Serve(c) \/ Lose(c) \/ Loaded(c) \/ Scanned(c) \/ Authorized(c) \/ Stored(c) \/ Restarted(c))

Spec == Init /\ [][Next]_<<callVars, settingVars>>

-----------------------------------------------------------------------------
\* Whatever order the answers came in, those of the shell included: when nothing is under way and
\* nothing has failed, the sidecar runs with what is stored (Settings.tsx:221-294, 376-395).
StoredTakesEffect ==
  calls = {} /\ faults = 0 => running = [settings |-> stored, secrets |-> keychain]

\* "已保存，留空表示不修改" (saved, leave empty to keep it: RemoteServicePanel.tsx:113,
\* FeishuKnowledgePanel.tsx:238, 252): a stored secret goes only when it is cleared or all is reset.
EmptyKeepsSecret ==
  [][\A k \in secretFlags \cap (keychain \ keychain') : \E c \in calls : c.op \in {"save", "reset"} /\ c.arg.by \in {k, "reset"}]_<<callVars, settingVars>>
=============================================================================
