------------------------------ MODULE HumanList ------------------------------
(***************************************************************************)
(* DigitalHumanManagement: the list of digital humans, and the deletion of *)
(* one with what it owns at the provider.  The remote clean-up is a build  *)
(* job of the service, which only accepts it for a job that was cancelled  *)
(* or has failed, and the service keeps a human whose remote resources are *)
(* not known to be gone.                                                   *)
(***************************************************************************)
EXTENDS ScreenCalls

CONSTANTS
  Humans,      \* [remote, job]: has it remote resources, and the state of its last build job
  HumansShown  \* the size of a page

VARIABLES
  order, default, jobOf,  \* at the service: the humans, newest first, and their jobs
  humans, humansRef, known,  \* the rows [id, default]; and the humans whose job the screen knows
  moreHumans, reading, readingMore,
  busy,        \* busyId
  target, job, result, deleting,  \* the dialog: deleteTarget, deleteJob, deleteResult
  reused  \* history variable, see the property

serviceVars == <<order, default, jobOf>>
tableVars   == <<humans, humansRef, known, moreHumans, reading, readingMore>>
removalVars == <<target, job, result, deleting, reused>>
humanVars   == <<serviceVars, tableVars, busy, removalVars>>

Nobody   == 0
NoResult == [id |-> Nobody, kind |-> "none"]
HasRemote(id) == Humans[id].remote
HasJob(id)    == Humans[id].job # "none"

-----------------------------------------------------------------------------
\* The service.
Exists(id) == id \in ToSet(order)
Listing(offset) ==
  Page([n \in DOMAIN order |-> [id |-> order[n], default |-> order[n] = default]], offset, HumansShown)
Others(seq, id) == Select(seq, {n \in DOMAIN seq : seq[n] # id})
Newest(id) == <<id>> \o Others(order, id)
DefaultFirst(seq, id) == IF id \in ToSet(seq) THEN <<id>> \o Others(seq, id) ELSE seq
Deletable(id) == ~HasRemote(id) \/ jobOf[id] \in {"none", "clean"}
Accepted(c) ==
  CASE c.op \in {"default", "rename"} -> Exists(c.arg.id)
    [] c.op = "delete"  -> Exists(c.arg.id) /\ Deletable(c.arg.id)
    [] c.op = "cleanup" -> jobOf[c.arg.id] \in {"failed", "cleaning", "clean"}
    [] c.op = "retry"   -> jobOf[c.arg.id] = "failed"
    [] OTHER -> TRUE
Does(c) ==
  /\ order' = CASE c.op = "rename" -> DefaultFirst(Newest(c.arg.id), default)
                [] c.op = "default" -> DefaultFirst(order, c.arg.id)
                [] c.op = "delete" -> Others(order, c.arg.id)
                [] OTHER -> order
  /\ default' = IF c.op = "default" THEN c.arg.id ELSE default
  /\ jobOf' = CASE c.op = "cleanup" /\ jobOf[c.arg.id] = "failed" -> [jobOf EXCEPT ![c.arg.id] = "cleaning"]
                [] c.op = "retry" -> [jobOf EXCEPT ![c.arg.id] = "running"]
                [] OTHER -> jobOf
Serve(c) ==
  /\ IF Accepted(c) THEN Does(c) /\ Serves(c, Ok(IF c.op \in {"list", "more"} THEN Listing(c.arg.offset) ELSE <<>>))
     ELSE UNCHANGED serviceVars /\ Serves(c, Failed)
  /\ UNCHANGED <<tableVars, busy, removalVars>>
Lose(c) ==
  /\ Fails(c)
  /\ IF Accepted(c) THEN Does(c) \/ UNCHANGED serviceVars ELSE UNCHANGED serviceVars
  /\ UNCHANGED <<tableVars, busy, removalVars>>

\* The job's driver.
Drive(id) ==
  /\ \E s \in (CASE jobOf[id] = "cleaning" -> {"clean", "failed"}
                 [] jobOf[id] = "running"  -> {"succeeded", "failed"}
                 [] OTHER -> {}) : jobOf' = [jobOf EXCEPT ![id] = s]
  /\ UNCHANGED <<callVars, order, default, tableVars, busy, removalVars>>

-----------------------------------------------------------------------------
\* load() and loadMore().  Nothing numbers the readings; the jobs of a further page are read
\* after its rows are shown.
Load == /\ ~reading /\ reading' = TRUE
        /\ Press({Call("list", [offset |-> 0])})
        /\ UNCHANGED <<serviceVars, humans, humansRef, known, moreHumans, readingMore, busy, removalVars>>
Loaded(c) ==
  /\ c.op = "list" /\ Heard(c, {}) /\ reading' = FALSE
  /\ IF c.ans.ok
     THEN /\ humans' = c.ans.data.items /\ humansRef' = humans' /\ moreHumans' = c.ans.data.more
          /\ known' = {id \in Ids(humans') : HasJob(id)}
     ELSE UNCHANGED <<humans, humansRef, moreHumans, known>>
  /\ UNCHANGED <<serviceVars, readingMore, busy, removalVars>>

LoadMore ==
  /\ ~reading /\ moreHumans /\ ~readingMore /\ readingMore' = TRUE
  /\ Press({Call("more", [offset |-> Len(humansRef)])})
  /\ UNCHANGED <<serviceVars, humans, humansRef, known, moreHumans, reading, busy, removalVars>>
MoreLoaded(c) ==
  /\ c.op = "more"
  /\ IF c.ans.ok
     THEN /\ Heard(c, {Call("jobs", [ids |-> Ids(c.ans.data.items)])})
          /\ humans' = humansRef \o c.ans.data.items /\ humansRef' = humans'
          /\ moreHumans' = c.ans.data.more /\ UNCHANGED readingMore
     ELSE /\ Heard(c, {}) /\ readingMore' = FALSE
          /\ UNCHANGED <<humans, humansRef, moreHumans>>
  /\ UNCHANGED <<serviceVars, known, reading, busy, removalVars>>
JobsLoaded(c) ==
  /\ c.op = "jobs" /\ Heard(c, {}) /\ readingMore' = FALSE
  /\ known' = IF c.ans.ok THEN known \cup {id \in c.arg.ids : HasJob(id)} ELSE known
  /\ UNCHANGED <<serviceVars, humans, humansRef, moreHumans, reading, busy, removalVars>>

-----------------------------------------------------------------------------
\* The buttons of a row, disabled only while an action of the same row is the latest.
RowAction(op, id) ==
  /\ id \in Ids(humans) /\ busy # id
  /\ op = "default" => \E row \in ToSet(humans) : row.id = id /\ ~row.default
  /\ op \in {"retry", "cleanup"} => id \in known
  /\ Press({Call(op, [id |-> id, choice |-> "row"])}) /\ busy' = id
  /\ UNCHANGED <<serviceVars, tableVars, removalVars>>

\* The mirror that pages are added to does not learn of the new default.
RowActionEnds(c) ==
  /\ c.op \in {"default", "rename", "retry", "cleanup"} /\ c.arg.choice = "row"
  /\ Heard(c, {}) /\ busy' = Nobody
  /\ humans' = IF c.op = "default" /\ c.ans.ok
               THEN [n \in DOMAIN humans |-> [humans[n] EXCEPT !.default = humans[n].id = c.arg.id]]
               ELSE humans
  /\ UNCHANGED <<serviceVars, humansRef, known, moreHumans, reading, readingMore, removalVars>>

-----------------------------------------------------------------------------
\* The dialog.
OpenKeepsResult(id) ==   \* mutant
  /\ target = Nobody /\ id \in Ids(humans) /\ busy # id /\ presses < MaxPresses
  /\ target' = id /\ job' = (id \in known) /\ reused' = deleting
  /\ UNCHANGED <<callVars, serviceVars, tableVars, busy, result, deleting>>
OpenDelete(id) ==
  /\ target = Nobody /\ id \in Ids(humans) /\ busy # id /\ presses < MaxPresses
  /\ target' = id /\ job' = (id \in known) /\ result' = NoResult
  /\ reused' = deleting
  /\ UNCHANGED <<callVars, serviceVars, tableVars, busy, deleting>>

\* Escape closes the dialog at any time.
CloseDelete ==
  /\ target # Nobody
  /\ target' = Nobody /\ job' = FALSE /\ result' = NoResult
  /\ UNCHANGED <<callVars, serviceVars, tableVars, busy, deleting, reused>>

\* deleteDigitalHumanWithCleanup(): the remote resources first, if that was chosen.
ConfirmDelete(choice) ==
  /\ target # Nobody /\ result = NoResult /\ ~deleting
  /\ choice = "cleanup" => HasRemote(target) /\ job
  /\ Press({Call(IF choice = "cleanup" THEN "cleanup" ELSE "delete",
                 [id |-> target, choice |-> choice, gone |-> ~Exists(target)])})
  /\ deleting' = TRUE
  /\ UNCHANGED <<serviceVars, tableVars, busy, target, job, result, reused>>

DeletesAnyway(c) ==   \* mutant
  /\ c.op = "cleanup" /\ c.arg.choice = "cleanup"
  /\ Heard(c, {[c EXCEPT !.op = "delete", !.ans = Unanswered]})
  /\ IF c.ans.ok THEN UNCHANGED <<result, deleting>>
     ELSE result' = [id |-> c.arg.id, kind |-> "failed", gone |-> c.arg.gone] /\ deleting' = FALSE
  /\ UNCHANGED <<serviceVars, tableVars, busy, target, job, reused>>
\* A clean-up that was not accepted leaves the local record in place.
CleanedUp(c) ==
  /\ c.op = "cleanup" /\ c.arg.choice = "cleanup"
  /\ IF c.ans.ok
     THEN /\ Heard(c, {[c EXCEPT !.op = "delete", !.ans = Unanswered]})
          /\ UNCHANGED <<result, deleting>>
     ELSE /\ Heard(c, {}) /\ deleting' = FALSE
          /\ result' = [id |-> c.arg.id, kind |-> "failed", gone |-> c.arg.gone]
  /\ UNCHANGED <<serviceVars, tableVars, busy, target, job, reused>>

\* The row goes, though not from the mirror; or the screen shows why not.
Deleted(c) ==
  /\ c.op = "delete" /\ Heard(c, {}) /\ deleting' = FALSE
  /\ IF c.ans.ok
     THEN /\ result' = [id |-> c.arg.id, kind |-> IF HasRemote(c.arg.id) THEN "pending" ELSE "none",
                        gone |-> c.arg.gone]
          /\ humans' = Without(humans, c.arg.id)
     ELSE UNCHANGED <<result, humans>>
  /\ UNCHANGED <<serviceVars, humansRef, known, moreHumans, reading, readingMore, busy,
                 target, job, reused>>

-----------------------------------------------------------------------------
ScreenInit ==
  /\ order = [n \in DOMAIN Humans |-> n] /\ default = 1
  /\ jobOf = [n \in DOMAIN Humans |-> Humans[n].job]
  /\ humans = <<>> /\ humansRef = <<>> /\ known = {} /\ moreHumans = FALSE
  /\ reading = TRUE /\ readingMore = FALSE
  /\ busy = Nobody /\ target = Nobody /\ job = FALSE /\ result = NoResult /\ deleting = FALSE
  /\ reused = FALSE
FirstCalls == {Call("list", [offset |-> 0])}
Init == ScreenInit /\ CallsInit(FirstCalls)

Next ==
  \/ Load \/ LoadMore \/ CloseDelete \/ (\E choice \in {"cleanup", "skip"} : ConfirmDelete(choice))
  \/ (\E id \in DOMAIN Humans : \/ OpenDelete(id) \/ Drive(id)
                                \/ \E op \in {"default", "rename", "retry", "cleanup"} : RowAction(op, id))
  \/ (\E c \in calls : \/ Serve(c) \/ Lose(c) \/ Loaded(c) \/ MoreLoaded(c) \/ JobsLoaded(c)
                       \/ RowActionEnds(c) \/ CleanedUp(c) \/ Deleted(c))

Spec == Init /\ [][Next]_<<callVars, humanVars>>

-----------------------------------------------------------------------------
\* What the dialog says of a deletion is about the human it names, unless the dialog was
\* opened for another one while the deletion was under way
\* (DigitalHumanManagement.tsx:330-366).
ResultIsOfTarget == target # Nobody /\ result # NoResult => result.id = target \/ reused

\* "A failed cleanup leaves the local record in place so the user can retry"
\* (DigitalHumanManagement.tsx:99-101): a human whose clean-up was not accepted is still there,
\* unless it was gone before, or the answer of an earlier deletion was lost.
FailedCleanupKeeps ==
  result # NoResult /\ result.kind = "failed" => Exists(result.id) \/ result.gone \/ faults > 0
=============================================================================
