---------------------------- MODULE BuildRecovery ----------------------------
(***************************************************************************)
(* What the app restores when it starts, and the recovery card of an       *)
(* unfinished build: useRestoreState, BuildRecoveryCard and its scheduler  *)
(* useBuildJobPolling, which sends one poll at a time, backs off when one  *)
(* fails, and ends for good when the job has stopped, is gone, or was      *)
(* cancelled here.  When the job it watches changes, the poll it aborts    *)
(* clears the flag of the one that took its place: from then on two polls  *)
(* may be under way.                                                       *)
(***************************************************************************)
EXTENDS JobServer, AsideScreens, Lists

CONSTANTS
  Keys,         \* the materials of the jobs
  Left,         \* the material of the job that an earlier run of the app has left
  MaxElsewhere, \* bound: jobs created, cancelled, opened again or cleaned up elsewhere
  MaxTroubles   \* bound: these, requests that fail and visits of other screens, all together

ASSUME RecoveryConstants ==
  Left \in Keys /\ NoKey \notin Keys /\ MaxElsewhere \in Nat /\ MaxTroubles \in Nat

Card  == 0   \* by whom a request is made: the card, the card beside a poll of its own,
Again == -3  \* the app that restores, and a screen that is gone
App   == -1
Gone  == -2

VARIABLES
  resumable,   \* the unfinished job that was restored
  restored,    \* a human is ready: the workspace has the place of card and wizard
  card,        \* [up, key, of, shown, ended, timer, flying, active, twice, busy]: the job that
               \* is polled, the one that is shown and its status; flying and active are
               \* inFlightRef and activeControllerRef, twice is bookkeeping
  elsewhere    \* bookkeeping: bounded by MaxElsewhere

Troubled == faults + visits + elsewhere >= MaxTroubles

cardVars     == <<resumable, restored, card, asideVars, elsewhere>>
recoveryVars == <<serverVars, cardVars>>
CardOnly     == UNCHANGED <<resumable, restored, asideVars, elsewhere>>

NoCard == [up |-> FALSE, key |-> NoKey, of |-> NoKey, shown |-> "none", ended |-> FALSE, timer |-> FALSE,
           flying |-> FALSE, active |-> Gone, twice |-> FALSE, busy |-> "no"]
CardEnds == {"succeeded", "failed", "cancelled", "cleanup_pending", "cleanup_failed"}

CardOps    == {"poll", "cancel", "retry", "cleanup"}
IsPoll(r)  == r.by \in {Card, Again} /\ r.op = "poll"
Flies(by)  == \E r \in Waiting(by) : IsPoll(r)
Free       == IF Flies(Card) THEN Again ELSE Card
PollOf(by, key) == Request(by, "poll", key)
Restore    == Request(App, "restore", NoKey)

\* The answers that somebody still waits for.
Without(given) == Select(inbox, {n \in DOMAIN inbox : inbox[n] \notin given})

\* Requests that are given up, and those that are sent in their place.
Redirect(given, rs) ==
  /\ sent' = (sent \ given) \cup rs
  /\ inbox' = Without(given)
  /\ UNCHANGED <<jobs, first, faults>>

\* The card goes: its polls are aborted, what else it asked for is done without it.
LeaveToItself(given) ==
  /\ sent' = {IF r.by = Card THEN [r EXCEPT !.by = Gone] ELSE r : r \in {q \in sent : ~IsPoll(q)}}
  /\ inbox' = Without(given \cup Waiting(Card) \cup Waiting(Again))
  /\ UNCHANGED <<jobs, first, faults>>

\* The card is rendered with the job that was restored, and polls at once.
CardShown(key, status) == [NoCard EXCEPT !.up = TRUE, !.key = key, !.of = key, !.shown = status,
                                         !.flying = TRUE, !.active = Card]

-----------------------------------------------------------------------------
\* request(): not when the polling has ended, nor when the flag says that a poll is under way.
RequestPollAnyway(next) ==   \* mutant
  /\ card' = [next EXCEPT !.timer = FALSE, !.flying = TRUE, !.active = Free]
  /\ Room /\ Redirect({}, {PollOf(Free, next.key)})
RequestPoll(next) ==
  LET now == ~next.ended /\ ~next.flying IN
  /\ card' = [next EXCEPT !.timer = FALSE, !.flying = @ \/ now,
                          !.active = IF now THEN Free ELSE @]
  /\ now => Room
  /\ Redirect({}, IF now THEN {PollOf(Free, next.key)} ELSE {})

CardTick == card.timer /\ RequestPoll(card) /\ CardOnly

\* The user asks for a check, or the window is shown again.
CardRefresh ==
  /\ card.up
  /\ RequestPoll(card)
  /\ CardOnly

Offered(op) ==
  CASE op = "cancel" -> card.shown \in {"pending", "running", "cleanup_pending"}
    [] op = "retry"  -> card.shown = "failed"
    [] OTHER         -> card.shown \in {"cancelled", "failed", "cleanup_pending", "cleanup_failed"}
CardAction(op) ==
  /\ card.up /\ card.busy = "no" /\ Offered(op)
  /\ Room /\ Redirect({}, {Request(Card, op, card.of)})
  /\ card' = [card EXCEPT !.busy = op]
  /\ CardOnly

-----------------------------------------------------------------------------
\* stop(): the latest poll is aborted, unless it is the one that is being answered.
Stop(c) == [c EXCEPT !.ended = TRUE, !.timer = FALSE, !.flying = FALSE, !.active = Gone]
Active == {q \in Waiting(card.active) : IsPoll(q)}

ReschedulesUnlessLost(r) == ~card.ended /\ r.ans # "lost"   \* mutant
Reschedules(r) == ~card.ended
Restores(r) == IF r.ans \in CardEnds THEN {Restore} ELSE {}

\* A poll is answered: the next one is scheduled, sooner or later, unless the job has stopped
\* (the app then looks again what there is to restore) or the app is refused.
CardPolled(n, r) ==
  LET seen == IF r.ans \in {"lost", "denied"} THEN card
              ELSE [card EXCEPT !.shown = r.ans, !.of = r.key]
      idle == [seen EXCEPT !.flying = FALSE, !.active = IF @ = r.by THEN Gone ELSE @]
  IN /\ r.op = "poll"
     /\ IF r.ans \in CardEnds \cup {"denied"}
        THEN /\ card' = Stop(idle)
             /\ Redirect({r} \cup Active \cup IF Restores(r) # {} THEN Waiting(App) ELSE {},
                         Restores(r))
        ELSE /\ card' = [idle EXCEPT !.timer = @ \/ Reschedules(r)]
             /\ Redirect({r}, {})

\* handleCancel: the local loop stops with the request.
CardCancelled(n, r) ==
  /\ r.op = "cancel"
  /\ IF r.ans \in {"lost", "denied", "refused"}
     THEN card' = [card EXCEPT !.busy = "no"] /\ Redirect({r}, {})
     ELSE card' = [Stop(card) EXCEPT !.busy = "no"] /\ Redirect({r} \cup Active, {})

\* runAction: a check follows, which does nothing once the polling has ended.
CardActed(n, r) ==
  LET done  == r.ans \notin {"lost", "denied", "refused"}
      polls == done /\ ~card.ended /\ ~card.flying
  IN /\ r.op \in {"retry", "cleanup"}
     /\ card' = [card EXCEPT !.busy = "no", !.timer = @ /\ ~done, !.flying = @ \/ polls,
                             !.active = IF polls THEN Free ELSE @]
     /\ Redirect({r}, IF polls THEN {PollOf(Free, card.key)} ELSE {})

CardAnswer(n) ==
  LET r == inbox[n] IN
  /\ r.by \in {Card, Again} /\ card.up
  /\ CardPolled(n, r) \/ CardCancelled(n, r) \/ CardActed(n, r)
  /\ CardOnly

Unheard(n) == inbox[n].by = Gone /\ Redirect({inbox[n]}, {}) /\ UNCHANGED cardVars

-----------------------------------------------------------------------------
\* The card gets the job that was found.  One that is up restarts for it; the poll this aborts
\* then takes itself for timed out, schedules another, and clears the flag of the new one.
ShowJob(found, r) ==
  LET aborts == Active # {}
      by == IF aborts THEN card.active ELSE Free IN
  /\ card' = IF ~card.up THEN CardShown(found, r.ans)
             ELSE [card EXCEPT !.key = found, !.ended = FALSE, !.timer = aborts,
                               !.flying = ~aborts, !.active = by, !.twice = @ \/ aborts]
  /\ Redirect({r} \cup Active, {PollOf(by, found)})

\* useRestoreState has its answers.  A ready human gives the workspace the card's place for
\* good; a failure leaves nothing to resume.
Restored(n) ==
  LET r == inbox[n]
      found == IF r.ans \in {"lost", "denied", "none", "ready"} THEN NoKey ELSE r.key
      shows == found # NoKey /\ ~restored /\ ~aside
  IN /\ r.by = App
     /\ resumable' = found
     /\ restored' = (restored \/ r.ans = "ready")
     /\ IF shows /\ card.key # found
        THEN ShowJob(found, r)
        ELSE IF shows \/ ~card.up THEN UNCHANGED card /\ Redirect({r}, {})
        ELSE card' = NoCard /\ LeaveToItself({r})
     /\ UNCHANGED <<asideVars, elsewhere>>

\* The header's buttons: the card goes, and comes back as what was once restored.
CardGoes ==
  /\ ~Troubled /\ GoAside
  /\ IF card.up THEN card' = NoCard /\ LeaveToItself({}) ELSE UNCHANGED <<card, serverVars>>
  /\ UNCHANGED <<resumable, restored, elsewhere>>

CardComesBack ==
  /\ ComeBack
  /\ IF resumable # NoKey /\ ~restored
     THEN /\ Room /\ Redirect({}, {PollOf(Card, resumable)})
          /\ \E status \in {"running", "cancelling"} : card' = CardShown(resumable, status)
     ELSE UNCHANGED <<card, serverVars>>
  /\ UNCHANGED <<resumable, restored, elsewhere>>

\* The creation wizard, which may be on screen too, does as it likes.
Elsewhere(op, key) ==
  /\ ~Troubled /\ elsewhere < MaxElsewhere /\ elsewhere' = elsewhere + 1
  /\ op # "create" => Known(key)
  /\ Apply(Request(Gone, op, key))
  /\ UNCHANGED <<sent, inbox, faults, resumable, restored, card, asideVars>>

-----------------------------------------------------------------------------
\* The app starts with a job of an earlier run, in whatever state it was left.
RecoveryInit ==
  /\ \E status \in {"running", "cancelling", "failed", "cleanup_pending"} :
       jobs = [k \in {Left} |-> [status |-> status, retries |-> 0, mode |-> "new"]]
  /\ first = Left
  /\ sent = {Restore} /\ inbox = <<>> /\ faults = 0
  /\ resumable = NoKey /\ restored = FALSE /\ card = NoCard
  /\ AsideInit /\ elsewhere = 0

Service == UNCHANGED cardVars
ServeCard(op) == \E r \in sent : r.by \in {Card, Again} /\ r.op = op /\ Serve(r) /\ Service
ServeRest == \E r \in sent : r.by \notin {Card, Again} /\ Serve(r) /\ Service
Fail      == /\ ~Troubled /\ Service
             /\ \E r \in sent : (\E how \in {"lost", "denied"} : LoseRequest(r, how)) \/ ReadFirst(r)
AnswerArrives(n) == CardAnswer(n) \/ Unheard(n) \/ Restored(n)
JobMoves  == \E key \in DOMAIN jobs : JobAdvances(key) /\ Service
Act(op)   == CardAction(op)

RecoveryNext ==
  \/ CardTick \/ CardRefresh \/ (\E op \in DOMAIN Accepts : Act(op))
  \/ (\E n \in DOMAIN inbox : AnswerArrives(n))
  \/ (\E op \in CardOps : ServeCard(op)) \/ ServeRest \/ Fail \/ JobMoves
  \/ CardGoes \/ CardComesBack
  \/ (\E op \in {"create", "cancel", "retry", "cleanup"}, key \in Keys : Elsewhere(op, key))

\* The card's timer fires, its requests and those of the app are answered and the answers
\* arrive; nobody has to press a button, and no job has to end.  (Strong fairness for the timer:
\* what disables it again and again is only the bound MaxRequests.)
RecoverySpec ==
  /\ RecoveryInit /\ [][RecoveryNext]_recoveryVars
  /\ SF_recoveryVars(CardTick) /\ (\A op \in CardOps : WF_recoveryVars(ServeCard(op))) /\ WF_recoveryVars(ServeRest)
  /\ WF_recoveryVars(1 \in DOMAIN inbox /\ AnswerArrives(1))

-----------------------------------------------------------------------------
\* The scheduler of the card has one poll at a time, or two after it was restarted
\* (useBuildJobPolling.ts:208-212 and 321-325), and until it has ended it has one, or a timer
\* that will send one (useBuildJobPolling.ts:194-206).
CardKeepsWatching ==
  /\ Flies(Card) /\ Flies(Again) => card.twice
  /\ card.up /\ ~card.ended => card.timer \/ Flies(Card) \/ Flies(Again)

\* A card whose job has stopped says so, or is taken away, unless the job is taken up again
\* meanwhile (useBuildJobPolling.ts:208-326).
Overdue == card.up /\ ~card.ended /\ Known(card.key) /\ Stopped(card.key)
CardSettles == Overdue ~> ~Overdue

\* When the card has seen the first human become ready, the app is on its way to the workspace,
\* unless a request was lost or overtaken inside the service (BuildRecoveryCard onSettled, App.tsx:50-54 and 197-204).
SeenReadyIsRestored ==
  card.up /\ card.of = first /\ card.shown = "succeeded" => Waiting(App) # {} \/ faults > 0

\* The card watches its job until the end, and hands the user over when the job ends well
\* (useBuildJobPolling.ts:194-326, App.tsx:193-204).
CardIsAttentive == CardKeepsWatching /\ SeenReadyIsRestored
=============================================================================
