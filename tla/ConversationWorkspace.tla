----------------------- MODULE ConversationWorkspace -----------------------
(***************************************************************************)
(* The text side of the conversation workspace, composed with the service  *)
(* it talks to: useConversationController with useStreamingReply and       *)
(* useConversationRestore, the stream client, and the buttons of the       *)
(* composer, the timeline, the recovery banner and the side bar.           *)
(*                                                                         *)
(* One action is one callback of the event loop, up to its next await.     *)
(* The text of an answer is the set of the replies it was put together     *)
(* from; what a message says, the composer's text and scrolling are left   *)
(* out, and the presence is in AvatarPresentation.                         *)
(***************************************************************************)
EXTENDS ConversationService, ConversationStateMachine

CONSTANTS
  PageStep,    \* messages on a page
  Saved,       \* the conversations the sidecar knows of when the app starts
  MaxLoads,    \* bound: pages asked for
  MaxMoves     \* bound: what the user does, and what goes wrong

ASSUME WorkspaceConstants ==
  PageStep \in Nat \ {0} /\ Saved \subseteq Conversations /\ MaxLoads \in Nat /\ MaxMoves \in Nat

VARIABLES
  conversation,  \* conversationId
  messages,      \* [id, role, by, of, text, whole]: of is the conversation it was written for
  generation,    \* the generation dimension of the state machine
  streaming, editing,
  retryable,     \* the error shown, if any, offers to ask again
  lastQuery,     \* lastQueryRef: a question, or 0
  needsTitle,    \* needsTitleRef
  stream,        \* stream[s]: the send coroutine: [pc, aborted, generating]
  refs,          \* the refs the coroutines share
  load,          \* load[l]: a request for a page: [pc, conv, kind, before]
  page,          \* the refs of useConversationRestore: [controller, cursor, id]
  posts,         \* requests under way that no coroutine above waits for
  told,          \* history variable: the generations the service was asked to stop
  overlapped,    \* history variable: a reply was asked for while another was under way
  moves          \* bookkeeping: bounded by MaxMoves

clientVars == <<conversation, messages, generation, streaming, retryable, editing, lastQuery,
                needsTitle, stream, refs, load, page, posts, told, overlapped>>
vars == <<serviceVars, clientVars, moves>>

Loads == 1..MaxLoads
Live(s) == stream[s].pc \in {"connecting", "open"}
NoRefs == [abort |-> 0, generation |-> 0, building |-> {}, assistant |-> 0,
           flush |-> FALSE, nextId |-> 0]
NoPage == [controller |-> 0, cursor |-> 0, id |-> 0]
NoRequest == [conv |-> NoConversation, question |-> 0, regenerate |-> FALSE]

Message(id, role, by, of, text, whole) ==
  [id |-> id, role |-> role, by |-> by, of |-> of, text |-> text, whole |-> whole]
Rewrite(id, text, whole) ==
  [i \in DOMAIN messages |->
     IF messages[i].id = id THEN [messages[i] EXCEPT !.text = text, !.whole = whole]
     ELSE messages[i]]
Dispatch(a) == generation' = GenerationNext(generation, a)

StaleRefs(s, id) == [refs EXCEPT !.abort = s, !.nextId = id]   \* mutant
FreshRefs(s, id) == [NoRefs EXCEPT !.abort = s, !.nextId = id]

-----------------------------------------------------------------------------
\* send: the refs are those of the new reply from here on, whoever else still uses them.
\* The thread it starts from is the one its caller has left, shown with the question.
Send(s, q, thread, appendUser, regenerate) ==
  LET id == IF appendUser THEN refs.nextId + 1 ELSE refs.nextId IN
  /\ stream[s].pc = "none" /\ \A t \in 1..(s - 1) : stream[t].pc # "none"
  /\ retryable' = FALSE
  /\ streaming' = TRUE
  /\ lastQuery' = q
  /\ messages' = IF appendUser
                 THEN Append(thread, Message(id, "user", q, conversation, {}, TRUE)) ELSE thread
  /\ Dispatch("GENERATION_START")
  /\ needsTitle' = FALSE
  /\ posts' = IF needsTitle /\ conversation # NoConversation
              THEN posts \cup {<<"rename", conversation>>} ELSE posts
  /\ stream' = [stream EXCEPT ![s].pc = "connecting"]
  /\ request' = [request EXCEPT ![s] = [conv |-> conversation, question |-> q,
                                        regenerate |-> regenerate]]
  /\ refs' = FreshRefs(s, id)
  /\ overlapped' = (overlapped \/ \E t \in Replies : Live(t))
  /\ UNCHANGED <<history, title, task, active, stopped, wire, conversation, load, page, told>>

\* What the composer, the banner and the timeline offer.
CanAsk == ~streaming
CanRetry == retryable
CanRegenerate == ~streaming /\ messages # <<>> /\ Last(messages).role = "assistant"
CanEdit(i) == ~streaming /\ messages[i].role = "user"
\* The form is shown in the place of the question that has the id, whichever it is by now.
InForm(i) == messages[i].id = editing /\ messages[i].role = "user"

\* handleSend
Ask(s) == CanAsk /\ Send(s, s, messages, TRUE, FALSE) /\ UNCHANGED editing

\* handleRetry, whatever the error was about.
Retry(s) ==
  /\ CanRetry /\ lastQuery # 0
  /\ Send(s, lastQuery, messages, TRUE, FALSE)
  /\ UNCHANGED editing

\* handleRegenerate: keeps the thread up to the last question.
Regenerate(s) ==
  LET users == {i \in DOMAIN messages : messages[i].role = "user"} IN
  /\ CanRegenerate /\ lastQuery # 0
  /\ Send(s, lastQuery,
          IF users = {} THEN messages
          ELSE SubSeq(messages, 1, CHOOSE i \in users : \A j \in users : j <= i), FALSE, TRUE)
  /\ UNCHANGED editing

BeginEdit(i) ==
  /\ CanEdit(i)
  /\ editing' = messages[i].id
  /\ UNCHANGED <<serviceVars, conversation, messages, generation, streaming, retryable, lastQuery,
                 needsTitle, stream, refs, load, page, posts, told, overlapped>>
CancelEdit ==
  /\ \E i \in DOMAIN messages : InForm(i)
  /\ editing' = 0
  /\ UNCHANGED <<serviceVars, conversation, messages, generation, streaming, retryable, lastQuery,
                 needsTitle, stream, refs, load, page, posts, told, overlapped>>

\* handleSaveEdit, which a streaming reply does not prevent.
SaveEdit(s) ==
  /\ editing' = 0
  /\ \E i \in DOMAIN messages :
       InForm(i) /\ Send(s, s, Append(SubSeq(messages, 1, i - 1), [messages[i] EXCEPT !.by = s]),
                         FALSE, TRUE)

-----------------------------------------------------------------------------
CloseBusy(s) ==   \* mutant
  /\ stream' = [stream EXCEPT ![s].pc = "closed"]
  /\ refs' = [refs EXCEPT !.abort = IF @ = s THEN 0 ELSE @]
  /\ wire' = [wire EXCEPT ![s] = NoReader]
  /\ UNCHANGED streaming
\* The finally clause of send, after which the reply is over.
Close(s) ==
  /\ stream' = [stream EXCEPT ![s].pc = "closed"]
  /\ streaming' = FALSE
  /\ refs' = [refs EXCEPT !.abort = IF @ = s THEN 0 ELSE @]
  /\ wire' = [wire EXCEPT ![s] = NoReader]

ServiceUnchanged == UNCHANGED <<history, title, request, task, active, stopped>>
RestUnchanged == UNCHANGED <<conversation, editing, lastQuery, needsTitle, load, page, posts,
                             told, overlapped>>

\* The request reaches the service, even one that is aborted on the way.
Arrive(s) == Live(s) /\ stream[s].pc = "connecting" /\ Register(s) /\ UNCHANGED clientVars

\* fetch is refused, or aborted: an error, and nothing is dispatched.
Refuse(s) ==
  /\ stream[s].pc = "connecting"
  /\ retryable' \in IF stream[s].aborted THEN {FALSE} ELSE BOOLEAN
  /\ Close(s)
  /\ ServiceUnchanged /\ RestUnchanged /\ UNCHANGED <<messages, generation>>

Open(s) ==
  /\ stream[s].pc = "connecting" /\ ~stream[s].aborted /\ task[s].pc # "none"
  /\ stream' = [stream EXCEPT ![s].pc = "open"]
  /\ ServiceUnchanged /\ RestUnchanged
  /\ UNCHANGED <<wire, messages, generation, streaming, retryable, refs>>

\* onError of a stream that breaks: an HTTP error, a lost connection, or the user's abort.
Break(s) ==
  /\ \/ stream[s].pc = "open"
     \/ stream[s].pc = "connecting" /\ ~stream[s].aborted
  /\ retryable' \in IF stream[s].aborted THEN {FALSE} ELSE BOOLEAN
  /\ Dispatch("GENERATION_ERROR")
  /\ Close(s)
  /\ ServiceUnchanged /\ RestUnchanged /\ UNCHANGED messages

Reading(s, event) ==
  /\ stream[s].pc = "open" /\ ~stream[s].aborted
  /\ wire[s] # <<>> /\ Head(wire[s]) = event
  /\ ServiceUnchanged /\ RestUnchanged
Consume(s) == wire' = [wire EXCEPT ![s] = Tail(@)]

\* onGenerationStarted, and the stages that follow at once.
OnStarted(s) ==
  /\ Reading(s, "started") /\ Consume(s)
  /\ refs' = [refs EXCEPT !.generation = s]
  /\ Dispatch("STAGE_retrieving")
  /\ UNCHANGED <<messages, streaming, retryable, stream>>

OnFoundSources(s) ==
  /\ Reading(s, "sources") /\ Consume(s)
  /\ Dispatch("SOURCES_FOUND")
  /\ UNCHANGED <<messages, streaming, retryable, refs, stream>>

\* onToken: the first token of a bubble appends it, the others wait for a frame.
OnToken(s) ==
  /\ Reading(s, "token") /\ Consume(s)
  /\ stream' = [stream EXCEPT ![s].generating = TRUE]
  /\ IF stream[s].generating THEN UNCHANGED generation ELSE Dispatch("TOKEN_STARTED")
  /\ IF refs.assistant = 0
     THEN /\ refs' = [refs EXCEPT !.building = @ \cup {s}, !.nextId = @ + 1,
                                  !.assistant = refs.nextId + 1]
          /\ messages' = Append(messages, Message(refs.nextId + 1, "assistant", s,
                                  request[s].conv, refs.building \cup {s}, FALSE))
     ELSE refs' = [refs EXCEPT !.building = @ \cup {s}, !.flush = TRUE] /\ UNCHANGED messages
  /\ UNCHANGED <<streaming, retryable>>

\* onDone: the composed answer takes the place of the tokens.
OnDone(s) ==
  /\ Reading(s, "done") /\ Consume(s)
  /\ refs' = [refs EXCEPT !.flush = FALSE]
  /\ Dispatch("GENERATION_DONE")
  /\ messages' = Rewrite(refs.assistant, {s}, TRUE)
  /\ UNCHANGED <<streaming, retryable, stream>>

\* onError of an error event, and the end of the stream.
OnError(s) ==
  /\ Reading(s, "error") /\ Consume(s)
  /\ retryable' = FALSE
  /\ Dispatch("GENERATION_ERROR")
  /\ UNCHANGED <<messages, streaming, refs, stream>>
OnEnd(s) ==
  /\ Reading(s, "end")
  /\ Close(s)
  /\ UNCHANGED <<messages, generation, retryable>>

\* flushTokenBuffer, in an animation frame.
Flush ==
  /\ refs.flush
  /\ refs' = [refs EXCEPT !.flush = FALSE]
  /\ messages' = Rewrite(refs.assistant, refs.building, FALSE)
  /\ UNCHANGED <<serviceVars, generation, streaming, retryable, stream>> /\ RestUnchanged

\* The service learns that a client is gone.
Gone(s) ==
  /\ stream[s].pc = "closed" \/ stream[s].aborted
  /\ Cancel(s)
  /\ UNCHANGED clientVars

-----------------------------------------------------------------------------
Aborted(s) == [t \in Replies |-> [stream[t] EXCEPT !.aborted = @ \/ t = s]]

\* stop: without the name of the generation there is nothing to ask the service.
Stop ==
  LET g == refs.generation IN
  /\ streaming
  /\ stream' = Aborted(refs.abort)
  /\ IF g = 0
     THEN retryable' = FALSE /\ UNCHANGED <<generation, posts, told>>
     ELSE /\ Dispatch("GENERATION_STOPPED")
          /\ posts' = posts \cup {<<"stop", g>>}
          /\ told' = told \cup {g}
          /\ UNCHANGED retryable
  /\ UNCHANGED <<serviceVars, conversation, messages, streaming, editing, lastQuery, needsTitle,
                 refs, load, page, overlapped>>

\* The answer to a request for a stop.
StopAnswered(g) ==
  /\ <<"stop", g>> \in posts
  /\ posts' = posts \ {<<"stop", g>>}
  /\ StopGeneration(g) /\ retryable' = ~CanStop(g)
  /\ UNCHANGED <<conversation, messages, generation, streaming, editing, lastQuery, needsTitle,
                 stream, refs, load, page, told, overlapped>>

StopFails(g) ==
  /\ <<"stop", g>> \in posts
  /\ posts' = posts \ {<<"stop", g>>}
  /\ retryable' = TRUE
  /\ UNCHANGED <<serviceVars, conversation, messages, generation, streaming, editing, lastQuery,
                 needsTitle, stream, refs, load, page, told, overlapped>>

\* The effect on humanId: abortInFlight, RESET.  The thread stays.
ChangeHuman ==
  /\ stream' = Aborted(refs.abort)
  /\ refs' = [refs EXCEPT !.abort = 0]
  /\ streaming' = FALSE
  /\ Dispatch("RESET")
  /\ retryable' = FALSE
  /\ UNCHANGED <<serviceVars, conversation, messages, editing, lastQuery, needsTitle, load, page,
                 posts, told, overlapped>>

-----------------------------------------------------------------------------
\* listConversationMessages: the last PageStep rows before the cursor, and a cursor for the
\* rows before those.
Rows(c, before) ==
  {i \in DOMAIN history : history[i].conv = c /\ (before = 0 \/ i < before)}
PageRows(c, before) ==
  {i \in Rows(c, before) : Cardinality({j \in Rows(c, before) : j > i}) < PageStep}
NextCursor(c, before) ==
  IF PageRows(c, before) = Rows(c, before) THEN 0
  ELSE CHOOSE i \in PageRows(c, before) : \A j \in PageRows(c, before) : i <= j
ServerMessages(c, before, id) ==
  LET rows == Select(history, PageRows(c, before)) IN
  [k \in DOMAIN rows |->
     LET r == rows[k] IN
     Message(id - k, r.role, r.by, c, IF r.role = "user" THEN {} ELSE {r.by}, TRUE)]

RequestBeside(l, c, kind, before) ==   \* mutant
  /\ load[l].pc = "none" /\ \A k \in 1..(l - 1) : load[k].pc # "none"
  /\ load' = [load EXCEPT ![l] = [pc |-> "pending", conv |-> c, kind |-> kind, before |-> before]]
  /\ page' = [page EXCEPT !.controller = l]
Request(l, c, kind, before) ==
  /\ load[l].pc = "none" /\ \A k \in 1..(l - 1) : load[k].pc # "none"
  /\ load' = [k \in Loads |->
                IF k = l THEN [pc |-> "pending", conv |-> c, kind |-> kind, before |-> before]
                ELSE IF k = page.controller THEN [load[k] EXCEPT !.pc = "aborted"] ELSE load[k]]
  /\ page' = [page EXCEPT !.controller = l]

\* loadConversation: the thread and the pagination stay until the page arrives.
SelectConversation(l, c) ==
  /\ title[c] \notin {"none", "deleted"}
  /\ conversation' = c
  /\ retryable' = FALSE
  /\ Dispatch("RESET")
  /\ Request(l, c, "switch", 0)
  /\ UNCHANGED <<serviceVars, messages, streaming, editing, lastQuery, needsTitle, stream, refs,
                 posts, told, overlapped>>

\* loadMoreMessages, with the cursor of the last page.
LoadMore(l) ==
  /\ conversation # NoConversation /\ page.cursor # 0 /\ messages # <<>>
  /\ Request(l, conversation, "more", page.cursor)
  /\ UNCHANGED <<serviceVars, conversation, messages, generation, streaming, retryable, editing,
                 lastQuery, needsTitle, stream, refs, posts, told, overlapped>>

Settle(l) == load' = [load EXCEPT ![l].pc = "settled"]
Released(l) == IF page.controller = l THEN 0 ELSE page.controller

\* A page arrives: the first one of a conversation takes the place of the thread.
PageArrives(l) ==
  LET c == load[l].conv
      first == load[l].kind # "more"
      before == load[l].before
      id == IF first THEN 0 ELSE page.id
      rows == ServerMessages(c, before, id)
  IN /\ load[l].pc = "pending"
     /\ messages' = IF first THEN rows ELSE rows \o messages
     /\ page' = [controller |-> Released(l), cursor |-> NextCursor(c, before),
                 id |-> id - Len(rows)]
     /\ Settle(l)
     /\ UNCHANGED <<serviceVars, conversation, generation, streaming, retryable, editing, lastQuery,
                    needsTitle, stream, refs, posts, told, overlapped>>

PageFails(l) ==
  /\ load[l].pc = "pending"
  /\ retryable' \in BOOLEAN
  /\ page' = [page EXCEPT !.controller = Released(l)]
  /\ Settle(l)
  /\ UNCHANGED <<serviceVars, conversation, messages, generation, streaming, editing, lastQuery,
                 needsTitle, stream, refs, posts, told, overlapped>>

-----------------------------------------------------------------------------
EmptyThread == messages' = <<>> /\ page' = [page EXCEPT !.cursor = 0, !.id = 0]

\* handleCreated: a new conversation is selected, and waits for its first question.
Create(c) ==
  /\ title[c] = "none"
  /\ title' = [title EXCEPT ![c] = "default"]
  /\ conversation' = c
  /\ EmptyThread
  /\ retryable' = FALSE
  /\ Dispatch("RESET")
  /\ needsTitle' = TRUE
  /\ UNCHANGED <<history, request, task, active, stopped, wire, streaming, editing, lastQuery,
                 stream, refs, load, posts, told, overlapped>>

\* performClear and the side bar's confirmClear: a dialog, and a request.
BeginClear(c, via) ==
  /\ title[c] \notin {"none", "deleted"} /\ (via = "header" => c = conversation /\ messages # <<>>)
  /\ ~\E p \in posts : p[1] \in {"header", "sidebar"}
  /\ posts' = posts \cup {<<via, c>>}
  /\ UNCHANGED <<serviceVars, conversation, messages, generation, streaming, retryable, editing,
                 lastQuery, needsTitle, stream, refs, load, page, told, overlapped>>

\* Whatever conversation is selected by then, its thread is emptied (handleCleared).
ClearReturns(c, via) ==
  /\ <<via, c>> \in posts
  /\ posts' = posts \ {<<via, c>>}
  /\ \/ /\ ClearConversation(c)
        /\ EmptyThread
        /\ retryable' = (retryable /\ via # "header")
     \/ /\ retryable' = (retryable \/ via = "header")
        /\ UNCHANGED <<serviceVars, messages, page>>
  /\ UNCHANGED <<conversation, generation, streaming, editing, lastQuery, needsTitle, stream,
                 refs, load, told, overlapped>>

\* confirmDelete and handleDeleted, behind a dialog that blocks the rest.
Delete(c) ==
  /\ title[c] \notin {"none", "deleted"}
  /\ title' = [title EXCEPT ![c] = "deleted"]
  /\ IF c = conversation
     THEN conversation' = NoConversation /\ messages' = <<>>
     ELSE UNCHANGED <<conversation, messages>>
  /\ UNCHANGED <<history, request, task, active, stopped, wire, generation, streaming, retryable,
                 editing, lastQuery, needsTitle, stream, refs, load, page, posts, told, overlapped>>

\* The title of a first question reaches the service, which knows nothing of a first question.
TitleArrives(c) ==
  /\ <<"rename", c>> \in posts
  /\ posts' = posts \ {<<"rename", c>>}
  /\ (Rename(c) /\ title[c] # "deleted") \/ UNCHANGED serviceVars
  /\ UNCHANGED <<conversation, messages, generation, streaming, retryable, editing, lastQuery,
                 needsTitle, stream, refs, load, page, told, overlapped>>

-----------------------------------------------------------------------------
\* The sidecar knows of earlier questions with their answers, and the app may have restored
\* one of their conversations: it asks for its first page, outside loadControllerRef.
Earlier(c) == <<Row(c, "user", 0, 0), Row(c, "assistant", 0, 0)>>
Unsent == [pc |-> "none", aborted |-> FALSE, generating |-> FALSE]

Init ==
  /\ title = [c \in Conversations |-> IF c \in Saved THEN "chosen" ELSE "none"]
  /\ \E old \in Saved : history = Earlier(old) \o Earlier(old)
  /\ request = [g \in Replies |-> NoRequest]
  /\ task = [g \in Replies |-> [pc |-> "none", sent |-> 0]]
  /\ active = {} /\ stopped = {} /\ wire = [g \in Replies |-> <<>>]
  /\ conversation \in Saved \cup {NoConversation}
  /\ load = [l \in Loads |->
       [pc |-> IF l = 1 /\ conversation # NoConversation THEN "pending" ELSE "none",
        conv |-> conversation, kind |-> "initial", before |-> 0]]
  /\ messages = <<>> /\ page = NoPage /\ moves = 0
  /\ generation = "idle" /\ streaming = FALSE /\ retryable = FALSE /\ editing = 0
  /\ lastQuery = 0 /\ needsTitle = FALSE /\ stream = [s \in Replies |-> Unsent]
  /\ refs = NoRefs /\ posts = {} /\ told = {} /\ overlapped = FALSE

Reads(s) ==
  \/ Open(s) \/ OnStarted(s) \/ OnFoundSources(s) \/ OnToken(s) \/ OnDone(s) \/ OnError(s)
  \/ OnEnd(s)
Serves(g) == ServiceStep(g) /\ UNCHANGED clientVars
ServiceFails(g) == (Fail(g) \/ ForgetQuestion(g) \/ ForgetAnswer(g)) /\ UNCHANGED clientVars
Ends(s) == Refuse(s) \/ Break(s)

Progress(s) ==
  Arrive(s) \/ Reads(s) \/ Serves(s) \/ Gone(s) \/ (stream[s].aborted /\ Ends(s))

\* What goes on by itself.
Going ==
  \/ \E s \in Replies : Progress(s) \/ StopAnswered(s)
  \/ \E l \in Loads : PageArrives(l)
  \/ \E c \in Conversations :
       TitleArrives(c) \/ \E via \in {"header", "sidebar"} : ClearReturns(c, via)
  \/ Flush

\* What the user does, and what goes wrong.
Moving ==
  \/ \E s \in Replies :
       \/ Ask(s) \/ Retry(s) \/ Regenerate(s) \/ SaveEdit(s)
       \/ ServiceFails(s) \/ StopFails(s) \/ (~stream[s].aborted /\ Ends(s))
  \/ \E i \in DOMAIN messages : BeginEdit(i)
  \/ \E l \in Loads :
       LoadMore(l) \/ PageFails(l) \/ \E c \in Conversations : SelectConversation(l, c)
  \/ \E c \in Conversations :
       Create(c) \/ Delete(c) \/ \E via \in {"header", "sidebar"} : BeginClear(c, via)
  \/ CancelEdit \/ Stop \/ ChangeHuman

Next ==
  \/ Going /\ UNCHANGED moves
  \/ Moving /\ moves < MaxMoves /\ moves' = moves + 1

Spec == Init /\ [][Next]_vars

-----------------------------------------------------------------------------
\* Without overlapping sends, an answer on screen is made of its own reply's text alone, and
\* a whole one of nothing less, although the bubble and its text are refs that every reply
\* shares and a frame may still be due (useStreamingReply.ts:121-230).
WholeAnswers ==
  overlapped \/ \A i \in DOMAIN messages :
    LET m == messages[i] IN
    m.role = "assistant" => m.text \subseteq {m.by} /\ (m.whole => m.text = {m.by})

\* Without overlapping sends, the generation a stop names to the service is the one whose
\* stream it aborts, never one that has ended before (useStreamingReply.ts:263-286).
StopNamesItsStream == overlapped \/ \A g \in told : stream[g].aborted

\* The composer is closed only while a reply is under way, and without overlapping sends it
\* stays closed until the reply has ended or is aborted (useStreamingReply.ts:254-259).
BusyIsLive ==
  /\ streaming => \E s \in Replies : Live(s)
  /\ overlapped \/ \A s \in Replies : Live(s) /\ ~stream[s].aborted => streaming

\* Of the pages asked for by a switch or for older messages only the last one can still
\* arrive; the page of the restored conversation is not among them
\* (useConversationRestore.ts:108-176).
OnlyTheLatestLoadLands ==
  \A l \in Loads : load[l].pc = "pending" /\ load[l].kind # "initial" =>
    \A k \in Loads : k > l => load[k].pc = "none"

\* A generation that is being produced is registered, so that it can be stopped, and a mark
\* to stop never outlives its generation (routes/conversation.py:228-262).
RegistryHoldsWhatRuns ==
  /\ {g \in Replies : task[g].pc \notin {"none", "ended"}} \subseteq active
  /\ stopped \subseteq active

\* A stop reaches the reply it was pressed for, from the button to the service's registry
\* (useStreamingReply.ts:263-286, routes/conversation.py:213-250).
StopReachesItsReply == StopNamesItsStream /\ RegistryHoldsWhatRuns

\* What regenerating a reply deletes is a reply to the question that is asked again
\* (docs/development.md: it "removes only that reply").  An edited question is a new one.
RegenerateRemovesOnlyThatReply ==
  [][\A g \in Replies :
       /\ task[g].pc = "registered" /\ task'[g].pc = "retrieving" /\ history' # history
       /\ request[g].question # g
       => history[LastAnswer(request[g].conv)].question = request[g].question]_vars
=============================================================================
