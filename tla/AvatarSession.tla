--------------------------- MODULE AvatarSession ---------------------------
(***************************************************************************)
(* useAvatarSession with its client: the live-stream session of the human  *)
(* that is selected.  App.tsx owns it and passes no preset, so that a      *)
(* session is only ever started by the effect on the identity.  The ids of *)
(* the sessions are the numbers of the starts.                             *)
(***************************************************************************)
EXTENDS Integers, FiniteSets

CONSTANTS
  Humans,      \* the digital humans, each with an avatar and a voice of its own
  NoHuman,     \* no identity: nothing is selected
  MaxStarts    \* bound: session starts

ASSUME SessionConstants == NoHuman \notin Humans /\ MaxStarts \in Nat

Starts == 1..MaxStarts

VARIABLES
  human,       \* the identity the hook is given
  start,       \* start[i]: [human, client, server], a request and its promise
  controller,  \* controllerRef: the start that can be aborted, or 0
  session,     \* the session that is shown, or 0
  starting,    \* the flag the hook returns
  remote,      \* the sessions that are open at the sidecar
  stopping,    \* the sessions whose DELETE is under way
  unstopped    \* history variable: sessions forgotten, or whose DELETE failed

sessionVars == <<human, start, controller, session, starting, remote, stopping, unstopped>>

SessionInit ==
  /\ human = NoHuman
  /\ start = [i \in Starts |-> [human |-> NoHuman, client |-> "none", server |-> "none"]]
  /\ controller = 0 /\ session = 0 /\ starting = FALSE
  /\ remote = {} /\ stopping = {} /\ unstopped = {}

Playable(s) == s # 0 /\ start[s].server = "made"

Abort(starts, i) ==
  [j \in Starts |-> IF j = i THEN [starts[j] EXCEPT !.client = "aborted"] ELSE starts[j]]

\* start: whatever was being started is aborted.
StartFor(h, i) ==
  /\ start[i].client = "none" /\ \A j \in 1..(i - 1) : start[j].client # "none"
  /\ start' = [Abort(start, controller) EXCEPT
                 ![i] = [human |-> h, client |-> "waiting", server |-> "asked"]]
  /\ controller' = i
  /\ starting' = TRUE

\* The effect on a new identity: the session of the other human is stopped, one is started.
Switch(h, i) ==
  /\ StartFor(h, i)
  /\ stopping' = IF session = 0 THEN stopping ELSE stopping \cup {session}
  /\ session' = 0
  /\ UNCHANGED unstopped

\* Without an identity the session is forgotten, and not stopped.
Deselect ==
  /\ start' = Abort(start, controller)
  /\ controller' = 0
  /\ session' = 0
  /\ unstopped' = unstopped \cup {session}
  /\ UNCHANGED <<starting, stopping>>

ChangeIdentity(h) ==
  /\ h # human
  /\ human' = h
  /\ IF h = NoHuman THEN Deselect ELSE \E i \in Starts : Switch(h, i)
  /\ UNCHANGED remote

-----------------------------------------------------------------------------
\* The sidecar, and a request that a client gave up may still be served.
Serve(i) ==
  /\ start[i].server = "asked"
  /\ \/ /\ \E answer \in {"made", "silent"} : start' = [start EXCEPT ![i].server = answer]
        /\ remote' = remote \cup {i}
     \/ start' = [start EXCEPT ![i].server = "refused"] /\ UNCHANGED remote
  /\ UNCHANGED <<human, controller, session, starting, stopping, unstopped>>

\* The promise resolves, for whoever still waits for it.
CreatedLate(i) ==   \* mutant
  /\ start[i].client \in {"waiting", "aborted"} /\ start[i].server \in {"made", "silent"}
  /\ start' = [start EXCEPT ![i].client = "settled"]
  /\ controller' = IF controller = i THEN 0 ELSE controller
  /\ session' = i
  /\ starting' = FALSE
  /\ UNCHANGED <<human, remote, stopping, unstopped>>
Created(i) ==
  /\ start[i].client = "waiting" /\ start[i].server \in {"made", "silent"}
  /\ start' = [start EXCEPT ![i].client = "settled"]
  /\ controller' = IF controller = i THEN 0 ELSE controller
  /\ session' = i
  /\ starting' = FALSE
  /\ UNCHANGED <<human, remote, stopping, unstopped>>

FailsOnlyIfRefused(i) ==   \* mutant
  /\ start[i].client = "waiting" /\ start[i].server = "refused"
  /\ start' = [start EXCEPT ![i].client = "failed"]
  /\ controller' = IF controller = i THEN 0 ELSE controller
  /\ starting' = FALSE
  /\ UNCHANGED <<human, session, remote, stopping, unstopped>>
\* It is rejected: an error, a lost connection, or the deadline, which does not abort the request.
StartFails(i) ==
  /\ start[i].client = "waiting"
  /\ start' = [start EXCEPT ![i].client = "failed"]
  /\ controller' = IF controller = i THEN 0 ELSE controller
  /\ starting' = FALSE
  /\ UNCHANGED <<human, session, remote, stopping, unstopped>>

\* stopAvatarSession: a failure is swallowed.
Stopped(i) ==
  /\ i \in stopping
  /\ stopping' = stopping \ {i}
  /\ \/ remote' = remote \ {i} /\ UNCHANGED unstopped
     \/ unstopped' = unstopped \cup {i} /\ UNCHANGED remote
  /\ UNCHANGED <<human, start, controller, session, starting>>
=============================================================================
