--------------------------- MODULE ConversationList ---------------------------
(***************************************************************************)
(* ConversationManagement: the list of conversations beside the workspace. *)
(* It is read again whenever the debounced search, the tab or an action    *)
(* asks for it, each reading aborting the one before; further pages are    *)
(* neither numbered nor aborted, a deletion removes its row before it is   *)
(* answered, and what an action reads of the screen is what it saw when    *)
(* its button was pressed.                                                 *)
(***************************************************************************)
EXTENDS ScreenCalls

CONSTANTS
  Stored,      \* archived or not, of the conversations there are, newest first
  Found,       \* the ids the search finds
  PageSize

VARIABLES
  store,       \* at the service, newest first: [id, archived, deleted]
  query, debounced, tab,
  items, itemsRef,  \* the rows [id, archived, view], the view they were read for; and their mirror
  hasMore, loading, listError, loadingMore, searchSeq,
  dialog, confirming,  \* the row to delete or clear, and what was confirmed and is under way
  again,       \* the action that failed and is offered again
  told, astray, back   \* history variables, see the properties

viewVars   == <<query, debounced, tab>>
rowVars    == <<items, itemsRef, astray, back>>
pageVars   == <<hasMore, loading, listError, loadingMore, searchSeq>>
dialogVars == <<dialog, confirming, again, told>>
listVars   == <<store, viewVars, rowVars, pageVars, dialogVars>>

None == [op |-> "none"]
View == IF debounced THEN "search" ELSE tab

-----------------------------------------------------------------------------
\* The service.  Whatever is changed becomes the newest; nothing is an error.
Matches(c, view) == ~c.deleted /\ CASE view = "search"   -> c.id \in Found
                                    [] view = "archived" -> c.archived
                                    [] OTHER             -> ~c.archived
Listing(view, offset) ==
  LET page == Page(Select(store, {n \in DOMAIN store : Matches(store[n], view)}), offset, PageSize)
  IN [more |-> page.more,
      rows |-> [n \in DOMAIN page.items |-> [id |-> page.items[n].id, archived |-> page.items[n].archived,
                                             view |-> view]]]
Touched(id) == CHOOSE c \in ToSet(store) : c.id = id
Effect(c) ==
  CASE c.op = "create" -> <<[id |-> Len(store) + 1, archived |-> FALSE, deleted |-> FALSE]>> \o store
    [] c.op \in {"rename", "clear"} -> <<Touched(c.arg.id)>> \o Without(store, c.arg.id)
    [] c.op = "archive" -> <<[Touched(c.arg.id) EXCEPT !.archived = ~c.arg.archived]>> \o Without(store, c.arg.id)
    [] c.op = "delete"  -> [n \in DOMAIN store |-> [store[n] EXCEPT !.deleted = @ \/ store[n].id = c.arg.id]]
    [] OTHER -> store

Serve(c) == /\ store' = Effect(c)
            /\ Serves(c, Ok(IF c.op \in {"list", "more"} THEN Listing(c.arg.view, c.arg.offset) ELSE <<>>))
            /\ UNCHANGED <<viewVars, rowVars, pageVars, dialogVars>>
Lose(c)  == /\ store' \in {store, Effect(c)} /\ Fails(c)
            /\ UNCHANGED <<viewVars, rowVars, pageVars, dialogVars>>

-----------------------------------------------------------------------------
\* load(): the reading under way is aborted and will fail.
Abort(cs) == {IF c.op = "list" THEN [c EXCEPT !.ans = Failed] ELSE c : c \in cs}
Load(view, others) ==
  /\ calls' = Abort(others) \cup {Call("list", [view |-> view, offset |-> 0, seq |-> searchSeq + 1])}
  /\ searchSeq' = searchSeq + 1 /\ loading' = TRUE /\ listError' = FALSE
  /\ UNCHANGED <<hasMore, loadingMore>>

MayPress == presses < MaxPresses /\ presses' = presses + 1 /\ UNCHANGED faults

\* The search is typed or emptied; the list follows 250 ms later.
Type == /\ MayPress /\ query' = ~query
        /\ UNCHANGED <<calls, store, debounced, tab, rowVars, pageVars, dialogVars>>
Debounce == /\ query # debounced /\ debounced' = query /\ UNCHANGED <<query, tab>>
            /\ Load(View', calls)
            /\ UNCHANGED <<presses, faults, store, rowVars, dialogVars>>

HandleFilterChange(next) ==
  /\ tab # next /\ MayPress /\ tab' = next /\ UNCHANGED <<query, debounced>>
  /\ Load(View', calls)
  /\ UNCHANGED <<store, rowVars, dialogVars>>

\* Only the latest reading is shown.
ListedAnyway(c) ==   \* mutant
  /\ c.op = "list"
  /\ Heard(c, {}) /\ loading' = FALSE
  /\ IF c.ans.ok
     THEN /\ items' = c.ans.data.rows /\ itemsRef' = items' /\ hasMore' = c.ans.data.more
          /\ astray' = (c.arg.view # View) /\ back' = back \cup (told \cap Ids(items'))
          /\ UNCHANGED listError
     ELSE listError' = (listError \/ c.arg.seq = searchSeq) /\ UNCHANGED <<rowVars, hasMore>>
  /\ UNCHANGED <<store, viewVars, loadingMore, searchSeq, dialogVars>>
Listed(c) ==
  /\ c.op = "list" /\ Heard(c, {})
  /\ IF c.arg.seq # searchSeq THEN UNCHANGED <<rowVars, hasMore, loading, listError>>
     ELSE /\ loading' = FALSE
          /\ IF c.ans.ok
             THEN /\ items' = c.ans.data.rows /\ itemsRef' = items' /\ hasMore' = c.ans.data.more
                  /\ astray' = (c.arg.view # View) /\ back' = back \cup (told \cap Ids(items'))
                  /\ UNCHANGED listError
             ELSE listError' = TRUE /\ UNCHANGED <<rowVars, hasMore>>
  /\ UNCHANGED <<store, viewVars, loadingMore, searchSeq, dialogVars>>

\* loadMore(): the next page of what the mirror holds.
LoadMore ==
  /\ ~loading /\ hasMore /\ ~loadingMore
  /\ Press({Call("more", [view |-> View, offset |-> Len(itemsRef)])})
  /\ loadingMore' = TRUE /\ listError' = FALSE
  /\ astray' = (astray \/ listError)   \* the rows of the view before are shown again
  /\ UNCHANGED <<store, viewVars, items, itemsRef, back, hasMore, loading, searchSeq, dialogVars>>

\* The first row of each id.
Dedupe(rows) == Select(rows, {n \in DOMAIN rows : \A m \in 1..(n - 1) : rows[m].id # rows[n].id})
MoreListed(c) ==
  /\ c.op = "more" /\ Heard(c, {}) /\ loadingMore' = FALSE
  /\ IF c.ans.ok
     THEN /\ items' = Dedupe(itemsRef \o c.ans.data.rows) /\ itemsRef' = items'
          /\ hasMore' = c.ans.data.more
          /\ astray' = (astray \/ c.arg.view # View)
          /\ back' = back \cup (told \cap Ids(c.ans.data.rows))
          /\ UNCHANGED listError
     ELSE listError' = TRUE /\ UNCHANGED <<rowVars, hasMore>>
  /\ UNCHANGED <<store, viewVars, loading, searchSeq, dialogVars>>

-----------------------------------------------------------------------------
\* Creating, renaming and archiving: the list is then read for the view the button was pressed in.
Shown == ~loading /\ ~listError
Change(op, row) ==
  /\ op = "create" \/ (Shown /\ row \in ToSet(items))
  /\ Press({Call(op, [id |-> row.id, archived |-> row.archived, view |-> View])})
  /\ UNCHANGED listVars
Changed(c) ==
  /\ c.op \in {"create", "rename", "archive"} /\ c \in calls /\ c.ans.done
  /\ IF c.ans.ok THEN Load(c.arg.view, calls \ {c}) /\ again' = None
     ELSE calls' = calls \ {c} /\ again' = [op |-> c.op, arg |-> c.arg] /\ UNCHANGED pageVars
  /\ UNCHANGED <<presses, faults, store, viewVars, rowVars, dialog, confirming, told>>

\* The dialogs: Escape closes one even while its deletion is under way.
OpenDialog(op, row) ==
  /\ dialog = None /\ Shown /\ row \in ToSet(items) /\ presses < MaxPresses
  /\ dialog' = [op |-> op, id |-> row.id]
  /\ UNCHANGED <<callVars, store, viewVars, rowVars, pageVars, confirming, again, told>>
CloseDialog ==
  /\ dialog # None /\ dialog' = None
  /\ UNCHANGED <<callVars, store, viewVars, rowVars, pageVars, confirming, again, told>>

ForgetsMirror(id, seen) == items' = Without(items, id) /\ UNCHANGED itemsRef   \* mutant
\* confirmDelete(): "seen" are the rows when the button was pressed, now or before the failure.
RemoveRow(id, seen) == items' = Without(items, id) /\ itemsRef' = Without(seen, id)
ConfirmDelete(id, seen) ==
  /\ Press({Call("delete", [id |-> id, was |-> seen])})
  /\ RemoveRow(id, seen)
  /\ confirming' = confirming \cup {"delete"}
Confirm ==
  /\ dialog # None /\ dialog.op \notin confirming
  /\ IF dialog.op = "delete" THEN ConfirmDelete(dialog.id, items) /\ UNCHANGED <<astray, back>>
     ELSE /\ Press({Call("clear", [id |-> dialog.id])})
          /\ confirming' = confirming \cup {"clear"} /\ UNCHANGED rowVars
  /\ UNCHANGED <<store, viewVars, pageVars, dialog, again, told>>

\* A deletion that failed brings back the rows of then.
Elsewhere(seen) == \E row \in ToSet(seen) : row.view # View
Confirmed(c) ==
  /\ c.op \in {"delete", "clear"} /\ Heard(c, {})
  /\ confirming' = confirming \ {c.op}
  /\ dialog' = IF dialog # None /\ dialog.op = c.op THEN None ELSE dialog
  /\ again' = IF c.ans.ok THEN None ELSE [op |-> c.op, arg |-> c.arg]
  /\ told' = IF c.ans.ok /\ c.op = "delete" THEN told \cup {c.arg.id} ELSE told
  /\ IF c.op = "delete" /\ ~c.ans.ok
     THEN /\ items' = c.arg.was /\ itemsRef' = c.arg.was
          /\ astray' = (astray \/ Elsewhere(c.arg.was))
          /\ back' = back \cup (told \cap Ids(c.arg.was))
     ELSE /\ back' = back \cup (told' \cap Ids(items)) /\ UNCHANGED <<items, itemsRef, astray>>
  /\ UNCHANGED <<store, viewVars, pageVars>>

\* The retry of the error notice: the action of then, as it was; the mirror gets the rows of then.
RetryAction ==
  /\ again # None
  /\ IF again.op = "delete"
     THEN /\ ConfirmDelete(again.arg.id, again.arg.was)
          /\ astray' = (astray \/ Elsewhere(again.arg.was))
          /\ back' = back \cup ((told \cup {d.arg.id : d \in Of("delete")}) \cap Ids(again.arg.was))
     ELSE /\ Press({Call(again.op, again.arg)}) /\ UNCHANGED rowVars
          /\ confirming' = IF again.op = "clear" THEN confirming \cup {"clear"} ELSE confirming
  /\ UNCHANGED <<store, viewVars, pageVars, dialog, again, told>>
RetryList == listError /\ MayPress /\ Load(View, calls)
             /\ UNCHANGED <<store, viewVars, rowVars, dialogVars>>

-----------------------------------------------------------------------------
ScreenInit ==
  /\ store = [n \in DOMAIN Stored |-> [id |-> n, archived |-> Stored[n], deleted |-> FALSE]]
  /\ query = FALSE /\ debounced = FALSE /\ tab = "active"
  /\ items = <<>> /\ itemsRef = <<>> /\ hasMore = FALSE
  /\ loading = TRUE /\ listError = FALSE /\ loadingMore = FALSE /\ searchSeq = 1
  /\ dialog = None /\ confirming = {} /\ again = None
  /\ told = {} /\ astray = FALSE /\ back = {}
FirstCalls == {Call("list", [view |-> "active", offset |-> 0, seq |-> 1])}
Init == ScreenInit /\ CallsInit(FirstCalls)

NewRow == [id |-> 0, archived |-> FALSE, view |-> View]
Next ==
  \/ Type \/ Debounce \/ (\E next \in {"active", "archived"} : HandleFilterChange(next))
  \/ LoadMore \/ RetryList \/ RetryAction \/ CloseDialog \/ Confirm
  \/ Change("create", NewRow)
  \/ (\E row \in ToSet(items) : \/ \E op \in {"rename", "archive"} : Change(op, row)
                                \/ \E op \in {"delete", "clear"} : OpenDialog(op, row))
  \/ (\E c \in calls : \/ Serve(c) \/ Lose(c)
                       \/ Listed(c) \/ MoreListed(c) \/ Changed(c) \/ Confirmed(c))

Spec == Init /\ [][Next]_<<callVars, listVars>>

-----------------------------------------------------------------------------
\* "A late-returning stale request can never overwrite newer results"
\* (ConversationManagement.tsx:125-126): what is listed was read for the tab and the search it
\* is listed under, unless a page or an action of another view came in, a deletion was rolled
\* back to another view's rows, or a page was asked for under rows that could not be replaced.
ListIsOfView == Shown => astray \/ \A row \in ToSet(items) : row.view = View

\* A conversation whose deletion was confirmed is not listed again, unless a page that was
\* read before, or the rows of an earlier failure, bring it back
\* (ConversationManagement.tsx:343-366).
DeletedStaysAway == Ids(items) \cap told \subseteq back
=============================================================================
