------------------------ MODULE ConversationService ------------------------
(***************************************************************************)
(* The sidecar's side of a reply: the table of messages, the registry of   *)
(* generations, and the coroutine of POST /v1/conversation/replies/stream. *)
(* A step ends where the code awaits or yields.  Left out: the text, the   *)
(* citations, the prompt, and the long-term memory written after a reply.  *)
(***************************************************************************)
EXTENDS Integers, Sequences, FiniteSets, SequencesExt, Lists

CONSTANTS
  Conversations,   \* the ids of conversations
  NoConversation,  \* null: a request without a conversation_id
  MaxReplies,      \* bound: requests for a reply
  MaxTokens,       \* bound: tokens of a reply
  MaxUnread        \* bound: events on their way to a client

ASSUME ServiceConstants ==
  MaxReplies \in Nat /\ MaxTokens \in Nat /\ MaxUnread \in Nat \ {0} /\ NoConversation \notin Conversations

VARIABLES
  history,  \* conversation_messages: rows [conv, role, question, by], oldest first
  title,    \* title[c]: "default", "question" (taken from a question) or "chosen"
  request,  \* request[g]: what the client posted: [conv, question, regenerate]
  task,     \* task[g]: the coroutine that answers it: [pc, sent]
  active,   \* GenerationRegistry._active
  stopped,  \* GenerationRegistry._stopped
  wire      \* wire[g]: the events the client has yet to read, or NoReader

serviceVars == <<history, title, request, task, active, stopped, wire>>

Replies == 1..MaxReplies
Row(c, role, q, g) == [conv |-> c, role |-> role, question |-> q, by |-> g]
RowsOf(c) == Select(history, {i \in DOMAIN history : history[i].conv = c})

\* Where a query says nothing of the conversation, it is about all of them.
InScope(row, c) == c \in {NoConversation, row.conv}

\* The index of the row delete_last_assistant deletes; 0 when there is none.
LastAnswer(c) ==
  LET S == {i \in DOMAIN history : history[i].role = "assistant" /\ InScope(history[i], c)}
  IN IF S = {} THEN 0 ELSE CHOOSE i \in S : \A j \in S : j <= i

-----------------------------------------------------------------------------
At(g, pc) == task[g].pc = pc
Goto(g, pc) == task' = [task EXCEPT ![g].pc = pc]
NoReader == <<"nobody">>   \* a client that has closed its end
Yield(g, events) ==
  IF wire[g] = NoReader THEN UNCHANGED wire
  ELSE Len(wire[g]) < MaxUnread /\ wire' = [wire EXCEPT ![g] = @ \o events]
Unregister(g) == active' = active \ {g} /\ stopped' = stopped \ {g}

\* reply_stream: the generation is registered before its stream is started.
Register(g) ==
  /\ At(g, "none")
  /\ Goto(g, "registered")
  /\ active' = active \cup {g}
  /\ UNCHANGED <<history, title, request, stopped, wire>>

\* A regeneration first deletes the last answer.  The stages follow the first event at once.
Start(g) ==
  /\ At(g, "registered")
  /\ Goto(g, "retrieving")
  /\ LET i == LastAnswer(request[g].conv) IN
     history' = IF request[g].regenerate /\ i > 0 THEN RemoveAt(history, i) ELSE history
  /\ Yield(g, <<"started">>)
  /\ UNCHANGED <<title, request, active, stopped>>

Retrieve(g) ==
  /\ At(g, "retrieving")
  /\ Goto(g, "answering")
  /\ Yield(g, <<"sources">>)
  /\ UNCHANGED <<history, title, request, active, stopped>>

\* A token of a generation that was stopped is dropped, and ends the answer.
Token(g) ==
  /\ At(g, "answering") /\ task[g].sent < MaxTokens /\ g \notin stopped
  /\ task' = [task EXCEPT ![g].sent = @ + 1]
  /\ Yield(g, <<"token">>)
  /\ UNCHANGED <<history, title, request, active, stopped>>

Compose(g) ==
  /\ At(g, "answering")
  /\ Goto(g, IF request[g].regenerate THEN "answer" ELSE "question")
  /\ Yield(g, <<"done">>)
  /\ UNCHANGED <<history, title, request, active, stopped>>

\* The search or the model fails: an error event ends the stream.
Fail(g) ==
  /\ At(g, "retrieving") \/ At(g, "answering")
  /\ Goto(g, "ended")
  /\ Yield(g, <<"error", "end">>)
  /\ Unregister(g)
  /\ UNCHANGED <<history, title, request>>

\* _remember: question, title, answer.  What fails ends it, and is swallowed.
RememberQuestion(g) ==
  LET r == request[g] IN
  /\ At(g, "question")
  /\ Goto(g, "answer")
  /\ history' = Append(history, Row(r.conv, "user", r.question, g))
  /\ title' = IF r.conv # NoConversation /\ title[r.conv] = "default" /\ RowsOf(r.conv) = <<>>
              THEN [title EXCEPT ![r.conv] = "question"] ELSE title
  /\ UNCHANGED <<request, active, stopped, wire>>
ForgetQuestion(g) ==
  /\ At(g, "question") /\ Goto(g, "voice")
  /\ UNCHANGED <<history, title, request, active, stopped, wire>>

\* append refuses an empty text.
RememberAnswer(g) ==
  LET r == request[g] IN
  /\ At(g, "answer")
  /\ Goto(g, "voice")
  /\ history' = IF task[g].sent = 0 THEN history
                ELSE Append(history, Row(r.conv, "assistant", r.question, g))
  /\ UNCHANGED <<title, request, active, stopped, wire>>
ForgetAnswer(g) ==
  /\ At(g, "answer") /\ Goto(g, "voice")
  /\ UNCHANGED <<history, title, request, active, stopped, wire>>

\* After the speech the generator ends and its generation is unregistered.
Speak(g) ==
  /\ At(g, "voice")
  /\ Goto(g, "ended")
  /\ Yield(g, <<"end">>)
  /\ Unregister(g)
  /\ UNCHANGED <<history, title, request>>

\* The client has gone: the response is cancelled where it is.  A stream whose body
\* was never started does not run the clause that unregisters it.
Cancel(g) ==
  /\ task[g].pc \notin {"none", "ended"}
  /\ Goto(g, "ended")
  /\ IF At(g, "registered") THEN UNCHANGED <<active, stopped>> ELSE Unregister(g)
  /\ UNCHANGED <<history, title, request, wire>>

ServiceStep(g) ==
  \/ Start(g) \/ Retrieve(g) \/ Token(g) \/ Compose(g)
  \/ RememberQuestion(g) \/ RememberAnswer(g) \/ Speak(g)

-----------------------------------------------------------------------------
\* POST replies/stop answers whether there was something to stop.
CanStop(g) == g \in active \ stopped
StopGeneration(g) ==
  /\ stopped' = IF CanStop(g) THEN stopped \cup {g} ELSE stopped
  /\ UNCHANGED <<history, title, request, task, active, wire>>

ClearConversation(c) ==
  /\ history' = Select(history, {i \in DOMAIN history : history[i].conv # c})
  /\ UNCHANGED <<title, request, task, active, stopped, wire>>

Rename(c) ==
  /\ title' = [title EXCEPT ![c] = "question"]
  /\ UNCHANGED <<history, request, task, active, stopped, wire>>
=============================================================================
