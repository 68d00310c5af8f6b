---------------------- MODULE ConversationWorkspaceProofs ----------------------
(***************************************************************************)
(* What holds of the workspace and the service in every reachable state,   *)
(* for any conversations, replies, tokens, pages and moves.  The invariant *)
(* has one part for each group of variables that the steps change          *)
(* together, so that a step need only be looked at where it acts.          *)
(***************************************************************************)
EXTENDS ConversationWorkspace, FiniteSetTheorems, TLAPS

-----------------------------------------------------------------------------
\* Lists: the places that are kept of one are ranked without a gap, so each of them has its item.

\* A set of places is finite.
LEMMA PlacesFinite ==
  ASSUME NEW n \in Nat, NEW I \in SUBSET (1..n)
  PROVE  IsFiniteSet(I) /\ Cardinality(I) \in Nat
<1>1. IsFiniteSet(1..n)
  BY FS_Interval
<1>2. IsFiniteSet(I)
  BY <1>1, FS_Subset
<1> QED BY <1>2, FS_CardinalityType

\* A later place has a higher rank.
LEMMA RankGrows ==
  ASSUME NEW n \in Nat, NEW I \in SUBSET (1..n), NEW i \in I, NEW j \in I, i < j
  PROVE  Rank(I, i) # Rank(I, j)
<1> DEFINE S == {k \in I : k <= i}
           T == {k \in I : k <= j}
<1>1. i \in Nat /\ j \in Nat /\ \A k \in I : k \in Nat
  OBVIOUS
<1>2. T \in SUBSET I
  OBVIOUS
<1>3. S \in SUBSET T
  <2>1. \A k \in I : k <= i => k <= j
    BY <1>1
  <2> QED BY <2>1
<1>4. j \in T /\ j \notin S
  BY <1>1
<1>5. IsFiniteSet(T)
  BY <1>2, PlacesFinite, FS_Subset
<1>6. Cardinality(S) # Cardinality(T)
  <2> HIDE DEF S, T
  <2> QED BY <1>3, <1>4, <1>5, FS_Subset
<1> QED BY <1>6 DEF Rank

\* The rank of a place is at most the number of places.
LEMMA RankRange ==
  ASSUME NEW n \in Nat, NEW I \in SUBSET (1..n), NEW i \in I
  PROVE  Rank(I, i) \in 1..Cardinality(I)
<1> DEFINE S == {k \in I : k <= i}
<1>1. IsFiniteSet(I) /\ Cardinality(I) \in Nat
  BY PlacesFinite
<1>2. S \in SUBSET I /\ i \in S
  OBVIOUS
<1>3. IsFiniteSet(S) /\ Cardinality(S) <= Cardinality(I)
  <2> HIDE DEF S
  <2> QED BY <1>1, <1>2, FS_Subset
<1>4. Cardinality(S) \in Nat /\ Cardinality(S) # 0
  <2> HIDE DEF S
  <2> QED BY <1>2, <1>3, FS_EmptySet, FS_CardinalityType
<1>5. Cardinality(S) \in 1..Cardinality(I)
  <2> HIDE DEF S
  <2> QED BY <1>1, <1>3, <1>4
<1> QED BY <1>5 DEF Rank

\* Every rank is that of a place.
LEMMA NthExists ==
  ASSUME NEW n \in Nat, NEW I \in SUBSET (1..n), NEW k \in 1..Cardinality(I)
  PROVE  Nth(I, k) \in I /\ Rank(I, Nth(I, k)) = k
<1> DEFINE N == 1..Cardinality(I)
           f == [i \in I |-> Rank(I, i)]
<1>1. IsFiniteSet(I) /\ Cardinality(I) \in Nat
  BY PlacesFinite
<1>2. IsFiniteSet(N) /\ Cardinality(N) = Cardinality(I)
  BY <1>1, FS_Interval
<1>3. f \in [I -> N]
  BY RankRange
<1>4. \A i, j \in I : i # j => f[i] # f[j]
  <2> SUFFICES ASSUME NEW i \in I, NEW j \in I, i # j PROVE Rank(I, i) # Rank(I, j)
    OBVIOUS
  <2>1. i < j \/ j < i
    OBVIOUS
  <2> QED BY <2>1, RankGrows
<1>5. f \in Injection(I, N)
  <2> HIDE DEF f, N
  <2> QED BY <1>3, <1>4 DEF Injection, IsInjective
<1>6. f \in Surjection(I, N)
  <2> HIDE DEF f, N
  <2> QED BY <1>2, <1>5, FS_Injection
<1>7. \E i \in I : f[i] = k
  <2> HIDE DEF f
  <2> QED BY <1>6 DEF Surjection
<1>8. \E i \in I : Rank(I, i) = k
  BY <1>7
<1> QED BY <1>8 DEF Nth

\* There is a last place.
LEMMA LastPlace ==
  ASSUME NEW n \in Nat, NEW I \in SUBSET (1..n), I # {}
  PROVE  \E i \in I : \A j \in I : j <= i
<1> DEFINE k == Cardinality(I)
           i == Nth(I, k)
           S == {j \in I : j <= i}
<1>1. IsFiniteSet(I) /\ k \in Nat /\ k # 0
  BY PlacesFinite, FS_EmptySet
<1>2. k \in 1..k
  BY <1>1
<1>3. i \in I /\ Cardinality(S) = k
  BY <1>2, NthExists DEF Rank
<1>4. S = I
  <2>1. S \in SUBSET I
    OBVIOUS
  <2> HIDE DEF S, i
  <2> QED BY <1>1, <1>3, <2>1, FS_Subset
<1>5. \A j \in I : j <= i
  BY <1>4
<1> QED BY <1>3, <1>5

\* There is a first place.
LEMMA FirstPlace ==
  ASSUME NEW n \in Nat, NEW I \in SUBSET (1..n), I # {}
  PROVE  \E i \in I : \A j \in I : i <= j
<1> DEFINE J == {m \in 1..n : (n + 1) - m \in I}
<1>1. PICK j : j \in I
  OBVIOUS
<1>2. (n + 1) - j \in 1..n /\ (n + 1) - ((n + 1) - j) = j
  BY <1>1
<1>3. J # {}
  BY <1>1, <1>2
<1>4. PICK m \in J : \A o \in J : o <= m
  <2> HIDE DEF J
  <2>1. J \in SUBSET (1..n)
    BY DEF J
  <2> QED BY <1>3, <2>1, LastPlace
<1>5. ASSUME NEW o \in I PROVE (n + 1) - m <= o
  <2>1. (n + 1) - o \in 1..n /\ (n + 1) - ((n + 1) - o) = o
    OBVIOUS
  <2>2. (n + 1) - o <= m
    BY <1>4, <2>1
  <2> QED BY <2>1, <2>2
<1> QED BY <1>4, <1>5

\* What Select keeps of a sequence is a sequence, of its items.
LEMMA SelectIsSeq ==
  ASSUME NEW S, NEW list \in Seq(S), NEW I \in SUBSET DOMAIN list
  PROVE  Select(list, I) \in Seq(S)
<1>1. Len(list) \in Nat /\ DOMAIN list = 1..Len(list) /\ \A i \in DOMAIN list : list[i] \in S
  OBVIOUS
<1>2. I \in SUBSET (1..Len(list))
  BY <1>1
<1>3. Cardinality(I) \in Nat
  BY <1>1, <1>2, PlacesFinite
<1>4. \A k \in 1..Cardinality(I) : list[Nth(I, k)] \in S
  BY <1>1, <1>2, NthExists
<1>5. [k \in 1..Cardinality(I) |-> list[Nth(I, k)]] \in Seq(S)
  BY <1>3, <1>4
<1> QED BY <1>5 DEF Select

\* The items of two lists one after the other.
LEMMA ConcatItems ==
  ASSUME NEW S, NEW s \in Seq(S), NEW t \in Seq(S)
  PROVE  s \o t \in Seq(S) /\ ToSet(s \o t) = ToSet(s) \cup ToSet(t)
<1>1. s \o t \in Seq(S) /\ Len(s \o t) = Len(s) + Len(t)
  OBVIOUS
<1>2. ToSet(s \o t) \subseteq ToSet(s) \cup ToSet(t)
  BY <1>1 DEF ToSet
<1>3. ToSet(s) \subseteq ToSet(s \o t)
  BY <1>1 DEF ToSet
<1>4. ToSet(t) \subseteq ToSet(s \o t)
  <2> SUFFICES ASSUME NEW n \in 1..Len(t) PROVE \E m \in 1..Len(s \o t) : (s \o t)[m] = t[n]
    <3>1. DOMAIN (s \o t) = 1..Len(s \o t) /\ DOMAIN t = 1..Len(t)
      BY <1>1
    <3> QED BY <3>1 DEF ToSet
  <2>1. Len(s) \in Nat /\ Len(t) \in Nat
    OBVIOUS
  <2>2. PICK m : m = Len(s) + n
    OBVIOUS
  <2>3. m \in 1..(Len(s) + Len(t)) /\ m > Len(s) /\ m - Len(s) = n
    BY <2>1, <2>2
  <2>4. (s \o t)[m] = t[m - Len(s)]
    BY <2>1, <2>3
  <2> QED BY <1>1, <2>3, <2>4
<1> QED BY <1>1, <1>2, <1>3, <1>4

-----------------------------------------------------------------------------
Anywhere == Conversations \cup {NoConversation}
Roles    == {"user", "assistant"}
Numbers  == 0..MaxReplies   \* of replies, and 0
TableRows   == [conv : Anywhere, role : Roles, question : Numbers, by : Numbers]
ChatMessages == [id : Int, role : Roles, by : Numbers, of : Anywhere, text : SUBSET Numbers, whole : BOOLEAN]
Events   == {"nobody", "started", "sources", "token", "done", "error", "end"}
Posts    == ({"rename", "header", "sidebar"} \X Conversations) \cup ({"stop"} \X Replies)

\* The service: what is produced is registered.
ServiceOK ==
  /\ history \in Seq(TableRows)
  /\ title \in [Conversations -> {"none", "default", "question", "chosen", "deleted"}]
  /\ request \in [Replies -> [conv : Anywhere, question : Numbers, regenerate : BOOLEAN]]
  /\ task \in [Replies -> [pc : {"none", "registered", "retrieving", "answering", "question", "answer",
                                 "voice", "ended"}, sent : 0..MaxTokens]]
  /\ wire \in [Replies -> Seq(Events)]
  /\ active \in SUBSET Replies /\ stopped \in SUBSET Replies
  /\ RegistryHoldsWhatRuns

\* As long as no send overlaps another, the reply under way is the last one sent, and the refs are its own.
RefsAreOfReply ==
  /\ \A s \in Replies : Live(s) =>
       /\ \A t \in Replies : s < t => stream[t].pc = "none"
       /\ ~stream[s].aborted => streaming /\ refs.abort = s
       /\ refs.building \subseteq {s}
  /\ streaming /\ refs.generation # 0 => refs.abort = refs.generation
  /\ \A g \in told : stream[g].aborted

StreamOK ==
  /\ stream \in [Replies -> [pc : {"none", "connecting", "open", "closed"}, aborted : BOOLEAN,
                             generating : BOOLEAN]]
  /\ refs \in [abort : Numbers, generation : Numbers, building : SUBSET Replies, assistant : Nat,
               flush : BOOLEAN, nextId : Nat]
  /\ streaming \in BOOLEAN /\ overlapped \in BOOLEAN /\ told \in SUBSET Replies
  /\ \A s, t \in Replies : t < s /\ stream[s].pc # "none" => stream[t].pc # "none"
  /\ streaming => \E s \in Replies : Live(s)
  /\ overlapped \/ RefsAreOfReply

\* The bubble that is written to is of the reply under way, and all other messages have other ids: those
\* from the service are negative, those of the app are counted.
BubbleIsOfReply ==
  \A i \in DOMAIN messages :
    messages[i].id = refs.assistant =>
      refs.building \subseteq {messages[i].by} /\ \A s \in Replies : Live(s) => messages[i].by = s

ThreadOK ==
  /\ messages \in Seq(ChatMessages)
  /\ refs.assistant <= refs.nextId
  /\ \A i \in DOMAIN messages : messages[i].id # 0 /\ messages[i].id <= refs.nextId
  /\ overlapped \/ BubbleIsOfReply
  /\ WholeAnswers

\* Pages are asked for in turn, and the last one, but for the restored one, has the controller.
PageOK ==
  /\ load \in [Loads -> [pc : {"none", "pending", "aborted", "settled"}, conv : Anywhere,
                         kind : {"initial", "switch", "more"}, before : Nat]]
  /\ page \in [controller : 0..MaxLoads, cursor : Nat, id : Int] /\ page.id <= 0
  /\ \A l, k \in Loads : k < l /\ load[l].pc # "none" => load[k].pc # "none"
  /\ page.controller # 0 => /\ load[page.controller].pc = "pending"
                            /\ \A k \in Loads : page.controller < k => load[k].pc = "none"
  /\ \A l \in Loads : load[l].pc = "pending" /\ load[l].kind # "initial" => page.controller = l

ClientOK ==
  /\ conversation \in Anywhere /\ generation \in Generations
  /\ retryable \in BOOLEAN /\ needsTitle \in BOOLEAN
  /\ editing \in Int /\ lastQuery \in Numbers /\ posts \in SUBSET Posts

WInv == ServiceOK /\ StreamOK /\ ThreadOK /\ PageOK /\ ClientOK

-----------------------------------------------------------------------------
\* What a step leaves alone stays right.
LEMMA ServiceFrame == ServiceOK /\ UNCHANGED serviceVars => ServiceOK'
BY DEF ServiceOK, RegistryHoldsWhatRuns, serviceVars

\* The replies and their refs.
LEMMA StreamFrame ==
  StreamOK /\ UNCHANGED <<stream, refs, streaming, overlapped, told>> => StreamOK'
BY DEF StreamOK, RefsAreOfReply, Live

\* The thread: the replies may also end, and the controller and the generation change.
LEMMA ThreadFrame ==
  ASSUME ThreadOK, UNCHANGED <<messages, overlapped>>,
         refs'.assistant = refs.assistant, refs'.nextId = refs.nextId,
         refs'.building = refs.building, \A s \in Replies : Live(s)' => Live(s)
  PROVE  ThreadOK'
BY DEF ThreadOK, BubbleIsOfReply, WholeAnswers

\* The pages.
LEMMA PageFrame == PageOK /\ UNCHANGED <<load, page>> => PageOK'
BY DEF PageOK

-----------------------------------------------------------------------------
\* Events are sent to who still reads them.
LEMMA YieldWire ==
  ASSUME ServiceOK, NEW g \in Replies, NEW events \in Seq(Events), Yield(g, events)
  PROVE  wire' \in [Replies -> Seq(Events)]
<1>1. wire \in [Replies -> Seq(Events)]
  BY DEF ServiceOK, Events
<1>2. wire[g] \o events \in Seq(Events)
  BY <1>1
<1> QED BY <1>1, <1>2 DEF Yield

\* The last answer is a row of the table.
LEMMA LastAnswerIsRow ==
  ASSUME ServiceOK, NEW c
  PROVE  LastAnswer(c) = 0 \/ LastAnswer(c) \in 1..Len(history)
<1> DEFINE S == {i \in DOMAIN history : history[i].role = "assistant" /\ InScope(history[i], c)}
<1>1. Len(history) \in Nat /\ DOMAIN history = 1..Len(history)
  BY DEF ServiceOK
<1>2. S \in SUBSET (1..Len(history))
  BY <1>1
<1>3. CASE S = {}
  BY <1>3 DEF LastAnswer
<1>4. CASE S # {}
  <2>1. \E i \in S : \A j \in S : j <= i
    <3> HIDE DEF S
    <3> QED BY <1>1, <1>2, <1>4, LastPlace
  <2>2. LastAnswer(c) = CHOOSE i \in S : \A j \in S : j <= i
    BY <1>4 DEF LastAnswer
  <2>3. LastAnswer(c) \in S
    <3> HIDE DEF S
    <3> QED BY <2>1, <2>2
  <2> QED BY <1>2, <2>3
<1> QED BY <1>3, <1>4

\* The table without one of its rows is a table.
LEMMA RowRemoved ==
  ASSUME NEW S, NEW rows \in Seq(S), NEW i \in 1..Len(rows)
  PROVE  RemoveAt(rows, i) \in Seq(S)
<1>1. SubSeq(rows, 1, i - 1) \in Seq(S) /\ SubSeq(rows, i + 1, Len(rows)) \in Seq(S)
  OBVIOUS
<1> QED BY <1>1 DEF RemoveAt

\* A request reaches the service.
LEMMA RegisterService == ASSUME ServiceOK, NEW g \in Replies, Register(g) PROVE ServiceOK'
BY DEF ServiceOK, RegistryHoldsWhatRuns, Register, At, Goto

\* Its coroutine starts, and deletes the answer that is asked for again.
LEMMA StartService == ASSUME ServiceOK, NEW g \in Replies, Start(g) PROVE ServiceOK'
<1>1. history' \in Seq(TableRows)
  <2>1. PICK i : i = LastAnswer(request[g].conv)
    OBVIOUS
  <2>2. i = 0 \/ i \in 1..Len(history)
    BY <2>1, LastAnswerIsRow
  <2>3. history' = IF request[g].regenerate /\ i > 0 THEN RemoveAt(history, i) ELSE history
    BY <2>1 DEF Start
  <2>4. history \in Seq(TableRows)
    BY DEF ServiceOK
  <2>5. i \in 1..Len(history) => RemoveAt(history, i) \in Seq(TableRows)
    BY <2>4, RowRemoved
  <2> QED BY <2>2, <2>3, <2>4, <2>5
<1>2. wire' \in [Replies -> Seq(Events)]
  <2>1. <<"started">> \in Seq(Events)
    BY DEF Events
  <2> QED BY <2>1, YieldWire DEF Start
<1> QED BY <1>1, <1>2 DEF ServiceOK, RegistryHoldsWhatRuns, Start, At, Goto, Events

\* The search is over.
LEMMA RetrieveService == ASSUME ServiceOK, NEW g \in Replies, Retrieve(g) PROVE ServiceOK'
<1>1. wire' \in [Replies -> Seq(Events)]
  <2>1. <<"sources">> \in Seq(Events)
    BY DEF Events
  <2> QED BY <2>1, YieldWire DEF Retrieve
<1> QED BY <1>1 DEF ServiceOK, RegistryHoldsWhatRuns, Retrieve, At, Goto, Events

\* A token is sent.
LEMMA TokenService == ASSUME ServiceOK, NEW g \in Replies, Token(g) PROVE ServiceOK'
<1>1. wire' \in [Replies -> Seq(Events)]
  <2>1. <<"token">> \in Seq(Events)
    BY DEF Events
  <2> QED BY <2>1, YieldWire DEF Token
<1>2. task[g].sent + 1 \in 0..MaxTokens
  BY ServiceConstants DEF ServiceOK, Token
<1> QED BY <1>1, <1>2 DEF ServiceOK, RegistryHoldsWhatRuns, Token, At, Events

\* The answer is composed.
LEMMA ComposeService == ASSUME ServiceOK, NEW g \in Replies, Compose(g) PROVE ServiceOK'
<1>1. wire' \in [Replies -> Seq(Events)]
  <2>1. <<"done">> \in Seq(Events)
    BY DEF Events
  <2> QED BY <2>1, YieldWire DEF Compose
<1> QED BY <1>1 DEF ServiceOK, RegistryHoldsWhatRuns, Compose, At, Goto, Events

\* The generation fails and is unregistered.
LEMMA FailService == ASSUME ServiceOK, NEW g \in Replies, Fail(g) PROVE ServiceOK'
<1>1. wire' \in [Replies -> Seq(Events)]
  <2>1. <<"error", "end">> \in Seq(Events)
    BY DEF Events
  <2> QED BY <2>1, YieldWire DEF Fail
<1> QED BY <1>1 DEF ServiceOK, RegistryHoldsWhatRuns, Fail, At, Goto, Unregister, Events

\* Question and answer are kept, or are not.
LEMMA RememberService ==
  ASSUME ServiceOK, NEW g \in Replies,
         RememberQuestion(g) \/ ForgetQuestion(g) \/ RememberAnswer(g) \/ ForgetAnswer(g)
  PROVE  ServiceOK'
<1>1. ASSUME NEW role \in Roles
      PROVE  Append(history, Row(request[g].conv, role, request[g].question, g)) \in Seq(TableRows)
  <2>1. Row(request[g].conv, role, request[g].question, g) \in TableRows
    BY DEF ServiceOK, Row, TableRows, Numbers, Replies
  <2> QED BY <2>1 DEF ServiceOK
<1>2. CASE RememberQuestion(g)
  <2>1. history' \in Seq(TableRows)
    BY <1>1, <1>2 DEF RememberQuestion, Roles
  <2>2. title' \in [Conversations -> {"none", "default", "question", "chosen", "deleted"}]
    BY <1>2 DEF RememberQuestion, ServiceOK
  <2> QED BY <1>2, <2>1, <2>2 DEF RememberQuestion, ServiceOK, RegistryHoldsWhatRuns, At, Goto
<1>3. CASE RememberAnswer(g)
  <2>1. history' \in Seq(TableRows)
    BY <1>1, <1>3 DEF RememberAnswer, Roles, ServiceOK
  <2> QED BY <1>3, <2>1 DEF RememberAnswer, ServiceOK, RegistryHoldsWhatRuns, At, Goto
<1>4. CASE ForgetQuestion(g) \/ ForgetAnswer(g)
  BY <1>4 DEF ForgetQuestion, ForgetAnswer, ServiceOK, RegistryHoldsWhatRuns, At, Goto
<1> QED BY <1>2, <1>3, <1>4

\* The generator ends.
LEMMA SpeakService == ASSUME ServiceOK, NEW g \in Replies, Speak(g) PROVE ServiceOK'
<1>1. wire' \in [Replies -> Seq(Events)]
  <2>1. <<"end">> \in Seq(Events)
    BY DEF Events
  <2> QED BY <2>1, YieldWire DEF Speak
<1> QED BY <1>1 DEF ServiceOK, RegistryHoldsWhatRuns, Speak, At, Goto, Unregister, Events

\* The client is gone: an entry may be left in the registry, but no mark without an entry.
LEMMA CancelService == ASSUME ServiceOK, NEW g \in Replies, Cancel(g) PROVE ServiceOK'
BY DEF ServiceOK, RegistryHoldsWhatRuns, Cancel, At, Goto, Unregister

\* A stop marks what is registered only.
LEMMA StopService == ASSUME ServiceOK, NEW g \in Replies, StopGeneration(g) PROVE ServiceOK'
BY DEF ServiceOK, RegistryHoldsWhatRuns, StopGeneration, CanStop

\* What a step of the service changes, failures included.
LEMMA ServesService ==
  ASSUME ServiceOK, NEW g \in Replies, ServiceStep(g) \/ Fail(g) \/ ForgetQuestion(g) \/ ForgetAnswer(g)
  PROVE  ServiceOK'
BY StartService, RetrieveService, TokenService, ComposeService, FailService, RememberService, SpeakService
   DEF ServiceStep

\* The rows of a conversation are deleted.
LEMMA ClearService == ASSUME ServiceOK, NEW c, ClearConversation(c) PROVE ServiceOK'
<1> DEFINE I == {i \in DOMAIN history : history[i].conv # c}
<1>1. history \in Seq(TableRows) /\ I \in SUBSET DOMAIN history
  BY DEF ServiceOK
<1>2. Select(history, I) \in Seq(TableRows)
  <2> HIDE DEF I
  <2> QED BY <1>1, SelectIsSeq
<1>3. history' \in Seq(TableRows)
  BY <1>2 DEF ClearConversation
<1> QED BY <1>3 DEF ClearConversation, ServiceOK, RegistryHoldsWhatRuns

\* Titles, requests and what is on its way change by themselves.
LEMMA OtherService ==
  ASSUME ServiceOK, UNCHANGED <<history, task, active, stopped>>,
         title' \in [Conversations -> {"none", "default", "question", "chosen", "deleted"}],
         request' \in [Replies -> [conv : Anywhere, question : Numbers, regenerate : BOOLEAN]],
         wire' \in [Replies -> Seq(Events)]
  PROVE  ServiceOK'
BY DEF ServiceOK, RegistryHoldsWhatRuns, Events

-----------------------------------------------------------------------------
\* The numbers of replies, and 0.
LEMMA NumbersOfReplies ==
  0 \in Numbers /\ 0 \notin Replies /\ Replies \subseteq Numbers /\ \A g \in Numbers : g = 0 \/ g \in Replies
BY ServiceConstants DEF Numbers, Replies

StreamType == [pc : {"none", "connecting", "open", "closed"}, aborted : BOOLEAN, generating : BOOLEAN]
RefsType   == [abort : Numbers, generation : Numbers, building : SUBSET Replies, assistant : Nat,
               flush : BOOLEAN, nextId : Nat]

\* A send takes the refs; unless it overlaps another, no other reply is under way.
LEMMA SendStream ==
  ASSUME StreamOK, NEW s \in Replies, NEW q, NEW thread, NEW appendUser \in BOOLEAN, NEW regenerate,
         Send(s, q, thread, appendUser, regenerate)
  PROVE  StreamOK' /\ refs'.assistant = 0 /\ (~overlapped' => ~overlapped)
<1>1. PICK id : id = IF appendUser THEN refs.nextId + 1 ELSE refs.nextId
  OBVIOUS
<1>2. id \in Nat
  BY <1>1 DEF StreamOK
<1>3. refs' = [abort |-> s, generation |-> 0, building |-> {}, assistant |-> 0, flush |-> FALSE, nextId |-> id]
  BY <1>1 DEF Send, FreshRefs, NoRefs
<1>4. refs' \in RefsType
  <2>1. s \in Numbers /\ 0 \in Numbers
    BY NumbersOfReplies
  <2> QED BY <1>2, <1>3, <2>1 DEF RefsType
<1>5. /\ stream[s].pc = "none" /\ \A t \in 1..(s - 1) : stream[t].pc # "none"
      /\ stream' = [stream EXCEPT ![s].pc = "connecting"]
      /\ streaming' = TRUE /\ told' = told
      /\ overlapped' = (overlapped \/ \E t \in Replies : Live(t))
  BY DEF Send
<1>6. /\ stream' \in [Replies -> StreamType]
      /\ stream'[s].pc = "connecting" /\ \A t \in Replies : t # s => stream'[t] = stream[t]
      /\ \A t \in Replies : stream'[t].aborted = stream[t].aborted
  BY <1>5 DEF StreamOK, StreamType
<1>7. \A t, u \in Replies : u < t /\ stream'[t].pc # "none" => stream'[u].pc # "none"
  <2>1. \A t \in Replies : t < s => stream[t].pc # "none"
    BY <1>5 DEF Replies
  <2> QED BY <1>5, <1>6, <2>1 DEF StreamOK
<1>8. \E t \in Replies : Live(t)'
  BY <1>6 DEF Live
<1>9. ASSUME ~overlapped' PROVE RefsAreOfReply'
  <2>1. ~overlapped /\ \A t \in Replies : ~Live(t)
    BY <1>5, <1>9 DEF StreamOK
  <2>2. \A t \in Replies : Live(t)' => t = s
    BY <1>6, <2>1 DEF Live
  <2>3. \A t \in Replies : s < t => stream'[t].pc = "none"
    BY <1>5, <1>6 DEF StreamOK, Replies
  <2>4. \A g \in told' : stream'[g].aborted
    BY <1>5, <1>6, <2>1 DEF StreamOK, RefsAreOfReply
  <2> QED BY <1>3, <1>5, <2>2, <2>3, <2>4 DEF RefsAreOfReply
<1>10. overlapped' \in BOOLEAN /\ told' \in SUBSET Replies
  BY <1>5 DEF StreamOK
<1> QED BY <1>3, <1>4, <1>5, <1>6, <1>7, <1>8, <1>9, <1>10 DEF StreamOK, StreamType, RefsType

\* A reply that is over leaves the composer open; there is no other one unless sends overlapped.
LEMMA CloseStream ==
  ASSUME StreamOK, NEW s \in Replies, Live(s), Close(s), UNCHANGED <<overlapped, told>>
  PROVE  /\ StreamOK' /\ \A t \in Replies : Live(t)' => Live(t)
         /\ refs'.assistant = refs.assistant /\ refs'.nextId = refs.nextId /\ refs'.building = refs.building
<1>1. /\ stream' = [stream EXCEPT ![s].pc = "closed"] /\ streaming' = FALSE
      /\ refs' = [refs EXCEPT !.abort = IF @ = s THEN 0 ELSE @]
  BY DEF Close
<1>2. /\ stream' \in [Replies -> StreamType]
      /\ stream'[s].pc = "closed" /\ \A t \in Replies : t # s => stream'[t] = stream[t]
      /\ \A t \in Replies : stream'[t].aborted = stream[t].aborted
  BY <1>1 DEF StreamOK, StreamType
<1>3. /\ refs' \in RefsType /\ refs'.building = refs.building
      /\ refs'.assistant = refs.assistant /\ refs'.nextId = refs.nextId
  BY <1>1, NumbersOfReplies DEF StreamOK, RefsType
<1>4. \A t \in Replies : Live(t)' => Live(t) /\ t # s
  BY <1>2 DEF Live
<1>5. \A t, u \in Replies : u < t /\ stream'[t].pc # "none" => stream'[u].pc # "none"
  BY <1>2 DEF StreamOK, Live
<1>6. ASSUME ~overlapped PROVE RefsAreOfReply'
  <2>1. RefsAreOfReply
    BY <1>6 DEF StreamOK
  <2>2. \A t \in Replies : Live(t) => t = s
    <3> SUFFICES ASSUME NEW t \in Replies, Live(t), t # s PROVE FALSE
      OBVIOUS
    <3>1. t < s \/ s < t
      BY DEF Replies
    <3> QED BY <2>1, <3>1 DEF RefsAreOfReply, Live
  <2>3. \A t \in Replies : ~Live(t)'
    BY <1>4, <2>2
  <2> QED BY <1>1, <1>2, <2>1, <2>3 DEF RefsAreOfReply, StreamOK
<1> QED BY <1>1, <1>2, <1>3, <1>4, <1>5, <1>6 DEF StreamOK, StreamType, RefsType

\* A change of the refs that keeps what the invariant says of them.
LEMMA ReadStream ==
  ASSUME StreamOK, NEW s \in Numbers, UNCHANGED <<streaming, overlapped, told>>,
         stream' \in [Replies -> StreamType],
         \A t \in Replies : /\ stream'[t].aborted = stream[t].aborted
                            /\ stream'[t].pc = stream[t].pc \/ (Live(t) /\ Live(t)'),
         refs' \in RefsType, refs'.abort = refs.abort,
         refs'.generation = refs.generation \/ (refs'.generation = s /\ s \in Replies /\ Live(s) /\ ~stream[s].aborted),
         refs'.building \subseteq refs.building \/ (refs'.building = refs.building \cup {s} /\ s \in Replies /\ Live(s))
  PROVE  StreamOK'
<1>1. \A t \in Replies : Live(t)' <=> Live(t)
  BY DEF Live
<1>2. \A t \in Replies : stream'[t].pc = "none" <=> stream[t].pc = "none"
  BY DEF Live
<1>3. ASSUME ~overlapped PROVE RefsAreOfReply'
  <2>1. RefsAreOfReply
    BY <1>3 DEF StreamOK
  <2>2. s \in Replies /\ Live(s) => \A t \in Replies : Live(t) => t = s
    <3> SUFFICES ASSUME s \in Replies, Live(s), NEW t \in Replies, Live(t), t # s PROVE FALSE
      OBVIOUS
    <3>1. t < s \/ s < t
      BY DEF Replies
    <3> QED BY <2>1, <3>1 DEF RefsAreOfReply, Live
  <2>3. \A t \in Replies : Live(t) => refs'.building \subseteq {t}
    BY <2>1, <2>2 DEF RefsAreOfReply
  <2>4. streaming /\ refs'.generation # 0 => refs'.abort = refs'.generation
    BY <2>1 DEF RefsAreOfReply
  <2>5. \A g \in told' : stream'[g].aborted
    BY <2>1 DEF RefsAreOfReply, StreamOK
  <2>6. \A t \in Replies : Live(t)' =>
          /\ \A u \in Replies : t < u => stream'[u].pc = "none"
          /\ ~stream'[t].aborted => streaming' /\ refs'.abort = t
    BY <1>1, <1>2, <2>1 DEF RefsAreOfReply
  <2> QED BY <1>1, <2>3, <2>4, <2>5, <2>6 DEF RefsAreOfReply
<1> QED BY <1>1, <1>2, <1>3 DEF StreamOK, StreamType, RefsType

\* abort(): nothing else changes.
LEMMA AbortedStream ==
  ASSUME StreamOK, NEW s \in Numbers
  PROVE  /\ Aborted(s) \in [Replies -> StreamType]
         /\ \A t \in Replies : /\ Aborted(s)[t].pc = stream[t].pc
                               /\ Aborted(s)[t].generating = stream[t].generating
                               /\ stream[t].aborted \/ t = s <=> Aborted(s)[t].aborted
<1>1. \A t \in Replies : stream[t] \in StreamType
  BY DEF StreamOK, StreamType
<1>2. ASSUME NEW t \in Replies
      PROVE  LET r == [stream[t] EXCEPT !.aborted = stream[t].aborted \/ t = s]
             IN  r \in StreamType /\ r.pc = stream[t].pc /\ r.generating = stream[t].generating
                 /\ (stream[t].aborted \/ t = s <=> r.aborted)
  <2>1. PICK b \in BOOLEAN : b = (stream[t].aborted \/ t = s)
    BY <1>1 DEF StreamType
  <2>2. [stream[t] EXCEPT !.aborted = b] \in StreamType
    BY <1>1, <2>1 DEF StreamType
  <2> QED BY <1>1, <2>1, <2>2 DEF StreamType
<1> QED BY <1>2 DEF Aborted

\* A stop names the generation whose stream it aborts.
LEMMA StopStream == ASSUME StreamOK, Stop PROVE StreamOK' /\ \A t \in Replies : Live(t)' => Live(t)
<1> DEFINE g == refs.generation
<1>1. refs \in RefsType /\ g \in Numbers /\ refs.abort \in Numbers
  BY DEF StreamOK, RefsType
<1>2. /\ streaming /\ stream' = Aborted(refs.abort) /\ UNCHANGED <<refs, streaming, overlapped>>
      /\ told' = IF g = 0 THEN told ELSE told \cup {g}
  BY DEF Stop
<1>3. /\ stream' \in [Replies -> StreamType]
      /\ \A t \in Replies : /\ stream'[t].pc = stream[t].pc
                            /\ stream[t].aborted \/ t = refs.abort <=> stream'[t].aborted
  BY <1>1, <1>2, AbortedStream
<1>4. \A t \in Replies : Live(t)' <=> Live(t)
  BY <1>3 DEF Live
<1>5. told' \in SUBSET Replies
  BY <1>1, <1>2, NumbersOfReplies DEF StreamOK
<1>6. ASSUME ~overlapped PROVE RefsAreOfReply'
  <2>1. RefsAreOfReply
    BY <1>6 DEF StreamOK
  <2>2. \A h \in told' : stream'[h].aborted
    <3> SUFFICES ASSUME NEW h \in told' PROVE stream'[h].aborted
      OBVIOUS
    <3>1. h \in told \/ (h = g /\ g # 0)
      BY <1>2
    <3>2. h \in Replies
      BY <1>5
    <3> QED BY <1>2, <1>3, <2>1, <3>1, <3>2 DEF RefsAreOfReply
  <2>3. \A t \in Replies : Live(t) => \A u \in Replies : t < u => stream'[u].pc = "none"
    BY <1>3, <2>1 DEF RefsAreOfReply
  <2> QED BY <1>2, <1>3, <1>4, <2>1, <2>2, <2>3 DEF RefsAreOfReply
<1> QED BY <1>1, <1>2, <1>3, <1>4, <1>5, <1>6 DEF StreamOK, StreamType, RefsType

\* A change of human aborts the reply it leaves.
LEMMA ChangeHumanStream ==
  ASSUME StreamOK, ChangeHuman
  PROVE  StreamOK' /\ \A t \in Replies : Live(t)' => Live(t)
<1>1. refs \in RefsType /\ refs.abort \in Numbers
  BY DEF StreamOK, RefsType
<1>2. /\ stream' = Aborted(refs.abort) /\ refs' = [refs EXCEPT !.abort = 0] /\ streaming' = FALSE
      /\ UNCHANGED <<overlapped, told>>
  BY DEF ChangeHuman
<1>3. /\ stream' \in [Replies -> StreamType]
      /\ \A t \in Replies : /\ stream'[t].pc = stream[t].pc
                            /\ stream[t].aborted \/ t = refs.abort <=> stream'[t].aborted
  BY <1>1, <1>2, AbortedStream
<1>4. \A t \in Replies : Live(t)' <=> Live(t)
  BY <1>3 DEF Live
<1>5. refs' \in RefsType /\ refs'.building = refs.building
  BY <1>1, <1>2, NumbersOfReplies DEF RefsType
<1>6. ASSUME ~overlapped PROVE RefsAreOfReply'
  <2>1. RefsAreOfReply
    BY <1>6 DEF StreamOK
  <2>2. \A t \in Replies : Live(t) => stream'[t].aborted
    BY <1>3, <2>1 DEF RefsAreOfReply
  <2>3. \A h \in told' : stream'[h].aborted
    BY <1>2, <1>3, <2>1 DEF RefsAreOfReply, StreamOK
  <2>4. \A t \in Replies : Live(t) => \A u \in Replies : t < u => stream'[u].pc = "none"
    BY <1>3, <2>1 DEF RefsAreOfReply
  <2>5. \A t \in Replies : Live(t) => refs'.building \subseteq {t}
    BY <1>5, <2>1 DEF RefsAreOfReply
  <2> QED BY <1>2, <1>4, <2>2, <2>3, <2>4, <2>5 DEF RefsAreOfReply
<1>7. streaming' \in BOOLEAN /\ (streaming' => \E t \in Replies : Live(t)')
  BY <1>2
<1>8. overlapped' \in BOOLEAN /\ told' \in SUBSET Replies /\ (overlapped' \/ RefsAreOfReply')
  BY <1>2, <1>6 DEF StreamOK
<1>9. \A t, u \in Replies : u < t /\ stream'[t].pc # "none" => stream'[u].pc # "none"
  BY <1>3 DEF StreamOK
<1>10. StreamOK'
  BY <1>3, <1>5, <1>7, <1>8, <1>9 DEF StreamOK, StreamType, RefsType
<1> QED BY <1>4, <1>10

-----------------------------------------------------------------------------
\* A message that can be shown: it has a number, and an answer is made of its own reply.
Whole(m) == m.role = "assistant" => m.text \subseteq {m.by} /\ (m.whole => m.text = {m.by})
Fits(m)  == m.id # 0 /\ m.id <= refs.nextId /\ (overlapped \/ Whole(m))

\* What ThreadOK says of each message.
LEMMA ThreadFits == ThreadOK => messages \in Seq(ChatMessages) /\ \A i \in DOMAIN messages : Fits(messages[i])
BY DEF ThreadOK, WholeAnswers, Whole, Fits

\* The messages of a thread have numbers.
LEMMA ThreadHasNumbers ==
  ASSUME NEW thread \in Seq(ChatMessages)
  PROVE  \A i \in DOMAIN thread : thread[i] \in ChatMessages /\ thread[i].id \in Int
<1>1. \A i \in DOMAIN thread : thread[i] \in ChatMessages
  OBVIOUS
<1> QED BY <1>1 DEF ChatMessages

\* A send shows the thread it starts from with its question, if it is a new one, under a new number.
LEMMA SendThread ==
  ASSUME StreamOK, ClientOK, NEW s \in Replies, NEW q \in Numbers, NEW thread \in Seq(ChatMessages),
         NEW appendUser \in BOOLEAN, NEW regenerate, \A i \in DOMAIN thread : Fits(thread[i]),
         Send(s, q, thread, appendUser, regenerate)
  PROVE  ThreadOK'
<1> DEFINE id == IF appendUser THEN refs.nextId + 1 ELSE refs.nextId
           question == Message(id, "user", q, conversation, {}, TRUE)
<1>1. refs.nextId \in Nat /\ id \in Nat /\ refs.nextId <= id
  BY DEF StreamOK
<1>2. refs'.nextId = id /\ refs'.assistant = 0
  BY DEF Send, FreshRefs, NoRefs
<1>3. ~overlapped' => ~overlapped
  BY SendStream
<1>4. question \in ChatMessages /\ question.id = id /\ question.role = "user"
  BY <1>1 DEF ChatMessages, Roles, Message, ClientOK
<1>5. messages' = IF appendUser THEN Append(thread, question) ELSE thread
  BY DEF Send
<1>6. messages' \in Seq(ChatMessages)
  <2> HIDE DEF question
  <2> QED BY <1>4, <1>5
<1>7. ASSUME NEW i \in DOMAIN messages'
      PROVE  (i \in DOMAIN thread /\ messages'[i] = thread[i]) \/ (appendUser /\ messages'[i] = question)
  <2> HIDE DEF question
  <2> QED BY <1>4, <1>5, <1>7
<1>8. \A i \in DOMAIN messages' : messages'[i].id # 0 /\ messages'[i].id <= refs'.nextId
  <2> SUFFICES ASSUME NEW i \in DOMAIN messages'
               PROVE  messages'[i].id # 0 /\ messages'[i].id <= refs'.nextId
    OBVIOUS
  <2>1. CASE i \in DOMAIN thread /\ messages'[i] = thread[i]
    <3>1. thread[i].id \in Int /\ thread[i].id # 0 /\ thread[i].id <= refs.nextId
      BY <2>1, ThreadHasNumbers DEF Fits
    <3> QED BY <1>1, <1>2, <2>1, <3>1
  <2>2. CASE appendUser /\ messages'[i] = question
    <3> HIDE DEF question
    <3> QED BY <1>1, <1>2, <1>4, <2>2
  <2> QED BY <1>7, <2>1, <2>2
<1>9. overlapped' \/ WholeAnswers'
  <2> SUFFICES ASSUME ~overlapped', NEW i \in DOMAIN messages' PROVE Whole(messages'[i])
    BY DEF WholeAnswers, Whole
  <2> HIDE DEF question
  <2> QED BY <1>3, <1>4, <1>7 DEF Fits, Whole
<1> QED BY <1>1, <1>2, <1>6, <1>8, <1>9 DEF ThreadOK, BubbleIsOfReply, WholeAnswers

\* A message that is rewritten keeps its number, its role and the reply it is of.
LEMMA RewriteKeeps ==
  ASSUME messages \in Seq(ChatMessages), NEW id, NEW text \in SUBSET Numbers, NEW whole \in BOOLEAN
  PROVE  /\ Rewrite(id, text, whole) \in Seq(ChatMessages)
         /\ DOMAIN Rewrite(id, text, whole) = DOMAIN messages
         /\ \A i \in DOMAIN messages :
              LET m == Rewrite(id, text, whole)[i] IN
              /\ m.id = messages[i].id /\ m.role = messages[i].role /\ m.by = messages[i].by
              /\ m = messages[i] \/ (m.id = id /\ m.text = text /\ m.whole = whole)
<1> DEFINE New(i) == IF messages[i].id = id THEN [messages[i] EXCEPT !.text = text, !.whole = whole]
                     ELSE messages[i]
           f == [i \in DOMAIN messages |-> New(i)]
<1>1. /\ Len(messages) \in Nat /\ DOMAIN messages = 1..Len(messages)
      /\ \A i \in DOMAIN messages : messages[i] \in ChatMessages
  OBVIOUS
<1>2. ASSUME NEW i \in DOMAIN messages
      PROVE  /\ New(i) \in ChatMessages
             /\ New(i).id = messages[i].id /\ New(i).role = messages[i].role /\ New(i).by = messages[i].by
             /\ New(i) = messages[i] \/ (New(i).id = id /\ New(i).text = text /\ New(i).whole = whole)
  BY <1>1 DEF ChatMessages
<1>3. f \in Seq(ChatMessages) /\ DOMAIN f = DOMAIN messages /\ \A i \in DOMAIN messages : f[i] = New(i)
  <2> HIDE DEF New
  <2> QED BY <1>1, <1>2
<1>4. Rewrite(id, text, whole) = f
  BY DEF Rewrite
<1> HIDE DEF New, f
<1> QED BY <1>2, <1>3, <1>4

\* The bubble is rewritten with what belongs in it.
LEMMA RewriteThread ==
  ASSUME StreamOK, ThreadOK, NEW text \in SUBSET Numbers, NEW whole \in BOOLEAN,
         messages' = Rewrite(refs.assistant, text, whole), overlapped' = overlapped,
         refs'.assistant = refs.assistant, refs'.nextId = refs.nextId,
         refs'.building = refs.building, \A s \in Replies : Live(s)' => Live(s),
         ~overlapped => \A i \in DOMAIN messages :
           messages[i].id = refs.assistant =>
             text \subseteq {messages[i].by} /\ (whole => text = {messages[i].by})
  PROVE  ThreadOK'
<1>1. /\ messages \in Seq(ChatMessages) /\ refs.assistant <= refs.nextId
      /\ \A i \in DOMAIN messages : messages[i].id # 0 /\ messages[i].id <= refs.nextId
  BY DEF ThreadOK
<1>2. /\ messages' \in Seq(ChatMessages) /\ DOMAIN messages' = DOMAIN messages
      /\ \A i \in DOMAIN messages :
           /\ messages'[i].id = messages[i].id /\ messages'[i].role = messages[i].role
           /\ messages'[i].by = messages[i].by
           /\ \/ messages'[i] = messages[i]
              \/ messages'[i].id = refs.assistant /\ messages'[i].text = text /\ messages'[i].whole = whole
  BY <1>1, RewriteKeeps
<1>3. overlapped' \/ BubbleIsOfReply'
  BY <1>2 DEF ThreadOK, BubbleIsOfReply
<1>4. WholeAnswers'
  <2> SUFFICES ASSUME ~overlapped, NEW i \in DOMAIN messages, messages[i].role = "assistant"
               PROVE  /\ messages'[i].text \subseteq {messages'[i].by}
                      /\ messages'[i].whole => messages'[i].text = {messages'[i].by}
    BY <1>2 DEF WholeAnswers
  <2>1. CASE messages'[i] = messages[i]
    BY <2>1 DEF ThreadOK, WholeAnswers
  <2>2. CASE messages'[i].id = refs.assistant /\ messages'[i].text = text /\ messages'[i].whole = whole
    BY <1>2, <2>2
  <2> QED BY <1>2, <2>1, <2>2
<1> QED BY <1>1, <1>2, <1>3, <1>4 DEF ThreadOK

\* A token goes into a bubble of its own reply.
LEMMA TokenThread == ASSUME StreamOK, ThreadOK, ServiceOK, NEW s \in Replies, OnToken(s) PROVE ThreadOK'
<1>1. /\ Live(s) /\ overlapped' = overlapped /\ \A t \in Replies : Live(t)' <=> Live(t)
  <2>1. stream[s].pc = "open" /\ stream' = [stream EXCEPT ![s].generating = TRUE] /\ overlapped' = overlapped
    BY DEF OnToken, Reading, RestUnchanged
  <2>2. \A t \in Replies : stream'[t].pc = stream[t].pc
    BY <2>1 DEF StreamOK
  <2> QED BY <2>1, <2>2 DEF Live
<1>2. refs \in RefsType /\ refs.nextId \in Nat /\ refs.building \in SUBSET Replies
  BY DEF StreamOK, RefsType
<1>3. ~overlapped => refs.building \subseteq {s} /\ \A t \in Replies : Live(t) => t = s
  <2> SUFFICES ASSUME ~overlapped, NEW t \in Replies, Live(t), t # s PROVE FALSE
    BY <1>1 DEF StreamOK, RefsAreOfReply
  <2>1. t < s \/ s < t
    BY DEF Replies
  <2> QED BY <1>1, <2>1 DEF StreamOK, RefsAreOfReply, Live
<1>4. /\ messages \in Seq(ChatMessages) /\ refs.assistant <= refs.nextId
      /\ \A i \in DOMAIN messages : messages[i].id # 0 /\ messages[i].id <= refs.nextId
  BY DEF ThreadOK
<1>5. CASE refs.assistant = 0
  <2> DEFINE n == refs.nextId + 1
             bubble == Message(n, "assistant", s, request[s].conv, refs.building \cup {s}, FALSE)
  <2>1. refs' = [refs EXCEPT !.building = @ \cup {s}, !.nextId = @ + 1, !.assistant = refs.nextId + 1]
    BY <1>5 DEF OnToken
  <2>2. refs'.building = refs.building \cup {s} /\ refs'.nextId = n /\ refs'.assistant = n
    BY <1>2, <2>1 DEF RefsType
  <2>3. messages' = Append(messages, bubble)
    BY <1>5 DEF OnToken
  <2>4. bubble \in ChatMessages
    BY <1>2, NumbersOfReplies DEF ChatMessages, Message, Roles, ServiceOK
  <2>5. /\ bubble.id = n /\ bubble.by = s /\ bubble.text = refs.building \cup {s} /\ bubble.whole = FALSE
    BY DEF Message
  <2>6. messages' \in Seq(ChatMessages)
    <3> HIDE DEF bubble
    <3> QED BY <1>4, <2>3, <2>4
  <2>7. \A i \in DOMAIN messages' : (i \in DOMAIN messages /\ messages'[i] = messages[i]) \/ messages'[i] = bubble
    <3> HIDE DEF bubble
    <3> QED BY <1>4, <2>3, <2>4
  <2>8. \A i \in DOMAIN messages : messages[i].id \in Int
    BY <1>4, ThreadHasNumbers
  <2>9. \A i \in DOMAIN messages' : messages'[i].id # 0 /\ messages'[i].id <= refs'.nextId
    <3> HIDE DEF bubble
    <3> QED BY <1>2, <1>4, <2>2, <2>5, <2>7, <2>8
  <2>10. \A i \in DOMAIN messages' : messages'[i].id = refs'.assistant => messages'[i] = bubble
    <3> HIDE DEF bubble
    <3> QED BY <1>2, <1>4, <2>2, <2>7, <2>8
  <2>11. overlapped' \/ BubbleIsOfReply'
    <3> HIDE DEF bubble
    <3> QED BY <1>1, <1>3, <2>2, <2>5, <2>10 DEF BubbleIsOfReply
  <2>12. WholeAnswers'
    <3> SUFFICES ASSUME ~overlapped, NEW i \in DOMAIN messages' PROVE Whole(messages'[i])
      BY <1>1 DEF WholeAnswers, Whole
    <3>1. Whole(bubble)
      BY <1>3, <2>5 DEF Whole
    <3>2. \A j \in DOMAIN messages : Whole(messages[j])
      BY DEF ThreadOK, WholeAnswers, Whole
    <3> HIDE DEF bubble
    <3> QED BY <2>7, <3>1, <3>2
  <2> QED BY <1>2, <2>2, <2>6, <2>9, <2>11, <2>12 DEF ThreadOK
<1>6. CASE refs.assistant # 0
  <2>1. messages' = messages /\ refs' = [refs EXCEPT !.building = @ \cup {s}, !.flush = TRUE]
    BY <1>6 DEF OnToken
  <2>2. /\ refs'.building = refs.building \cup {s}
        /\ refs'.nextId = refs.nextId /\ refs'.assistant = refs.assistant
    BY <1>2, <2>1 DEF RefsType
  <2>3. overlapped' \/ BubbleIsOfReply'
    BY <1>1, <2>1, <2>2 DEF ThreadOK, BubbleIsOfReply
  <2> QED BY <1>1, <1>4, <2>1, <2>2, <2>3 DEF ThreadOK, WholeAnswers
<1> QED BY <1>5, <1>6

\* A thread without messages shows nothing wrong.
LEMMA EmptyThreadFits ==
  ASSUME ThreadOK, messages' = <<>>, refs'.assistant = refs.assistant, refs'.nextId = refs.nextId
  PROVE  ThreadOK'
BY DEF ThreadOK, BubbleIsOfReply, WholeAnswers

-----------------------------------------------------------------------------
\* The rows of a page are rows of the table.
LEMMA PageRowsAreRows ==
  ASSUME ServiceOK, NEW c, NEW before
  PROVE  PageRows(c, before) \in SUBSET DOMAIN history /\ Select(history, PageRows(c, before)) \in Seq(TableRows)
<1>1. PageRows(c, before) \in SUBSET DOMAIN history
  BY DEF PageRows, Rows
<1>2. history \in Seq(TableRows)
  BY DEF ServiceOK
<1> QED BY <1>1, <1>2, SelectIsSeq

\* A page from the service has numbers below those there are, and whole answers.
LEMMA ServerPage ==
  ASSUME ServiceOK, NEW c \in Anywhere, NEW before, NEW id \in Int, id <= 0
  PROVE  /\ ServerMessages(c, before, id) \in Seq(ChatMessages)
         /\ \A k \in DOMAIN ServerMessages(c, before, id) :
              ServerMessages(c, before, id)[k].id < 0 /\ Whole(ServerMessages(c, before, id)[k])
<1> DEFINE rows == Select(history, PageRows(c, before))
           New(k) == LET r == rows[k] IN
                     Message(id - k, r.role, r.by, c, IF r.role = "user" THEN {} ELSE {r.by}, TRUE)
           f == [k \in DOMAIN rows |-> New(k)]
<1>1. rows \in Seq(TableRows)
  BY PageRowsAreRows
<1>2. /\ Len(rows) \in Nat /\ DOMAIN rows = 1..Len(rows)
      /\ \A k \in DOMAIN rows : rows[k] \in TableRows
  <2> HIDE DEF rows
  <2> QED BY <1>1
<1>3. ASSUME NEW k \in DOMAIN rows
      PROVE  New(k) \in ChatMessages /\ New(k).id < 0 /\ Whole(New(k))
  <2>1. k \in Nat /\ 1 <= k
    <3> HIDE DEF rows
    <3> QED BY <1>2
  <2>2. PICK r \in TableRows : r = rows[k]
    BY <1>2
  <2>3. id - k \in Int /\ id - k < 0
    BY <2>1
  <2>4. LET m == Message(id - k, r.role, r.by, c, IF r.role = "user" THEN {} ELSE {r.by}, TRUE)
        IN  m \in ChatMessages /\ m.id < 0 /\ Whole(m)
    <3> HIDE DEF rows
    <3> QED BY <2>3 DEF TableRows, ChatMessages, Message, Whole, Roles
  <2> HIDE DEF rows
  <2> QED BY <2>2, <2>4
<1>4. f \in Seq(ChatMessages) /\ DOMAIN f = DOMAIN rows /\ \A k \in DOMAIN rows : f[k] = New(k)
  <2> HIDE DEF New, rows
  <2> QED BY <1>2, <1>3
<1>5. ServerMessages(c, before, id) = f
  BY DEF ServerMessages
<1> HIDE DEF New, f, rows
<1> QED BY <1>3, <1>4, <1>5

\* A page that is not all there is has a first row.
LEMMA CursorIsPlace ==
  ASSUME ServiceOK, NEW c, NEW before
  PROVE  NextCursor(c, before) \in Nat
<1> DEFINE R == Rows(c, before)
           P == PageRows(c, before)
<1>1. Len(history) \in Nat /\ DOMAIN history = 1..Len(history)
  BY DEF ServiceOK
<1>2. R \in SUBSET (1..Len(history)) /\ P \in SUBSET R
  BY <1>1 DEF Rows, PageRows
<1>3. CASE P = R
  BY <1>3 DEF NextCursor
<1>4. CASE P # R
  <2>1. R # {}
    BY <1>2, <1>4
  <2>2. PICK i \in R : \A j \in R : j <= i
    <3> HIDE DEF R, P
    <3> QED BY <1>1, <1>2, <2>1, LastPlace
  <2>3. {j \in R : j > i} = {}
    BY <1>2, <2>2
  <2>4. i \in P
    BY <2>2, <2>3, FS_EmptySet, WorkspaceConstants DEF PageRows
  <2>5. \E k \in P : \A j \in P : k <= j
    <3> HIDE DEF R, P
    <3> QED BY <1>1, <1>2, <2>4, FirstPlace
  <2>6. NextCursor(c, before) = CHOOSE k \in P : \A j \in P : k <= j
    BY <1>4 DEF NextCursor
  <2>7. NextCursor(c, before) \in P
    <3> HIDE DEF R, P
    <3> QED BY <2>5, <2>6
  <2> QED BY <1>2, <2>7
<1> QED BY <1>3, <1>4

PageType == [controller : 0..MaxLoads, cursor : Nat, id : Int]
LoadType == [pc : {"none", "pending", "aborted", "settled"}, conv : Anywhere,
             kind : {"initial", "switch", "more"}, before : Nat]

\* A page that is asked for takes the controller from the one before.
LEMMA RequestPage ==
  ASSUME PageOK, NEW l \in Loads, NEW c \in Anywhere, NEW kind \in {"switch", "more"}, NEW before \in Nat,
         Request(l, c, kind, before)
  PROVE  PageOK'
<1>1. /\ load[l].pc = "none" /\ \A k \in 1..(l - 1) : load[k].pc # "none"
      /\ load' = [k \in Loads |->
                    IF k = l THEN [pc |-> "pending", conv |-> c, kind |-> kind, before |-> before]
                    ELSE IF k = page.controller THEN [load[k] EXCEPT !.pc = "aborted"] ELSE load[k]]
      /\ page' = [page EXCEPT !.controller = l]
  BY DEF Request
<1>2. page' \in PageType /\ page'.controller = l /\ page'.id = page.id
  <2>1. l \in 0..MaxLoads
    BY WorkspaceConstants DEF Loads
  <2> QED BY <1>1, <2>1 DEF PageOK, PageType
<1>3. \A k \in Loads : load[k] \in LoadType /\ [load[k] EXCEPT !.pc = "aborted"] \in LoadType
  BY DEF PageOK, LoadType
<1>4. /\ load' \in [Loads -> LoadType] /\ load'[l].pc = "pending"
      /\ \A k \in Loads : k # l =>
           /\ k = page.controller => load'[k].pc = "aborted"
           /\ k # page.controller => load'[k] = load[k]
  BY <1>1, <1>3 DEF LoadType
<1>5. \A k \in Loads : l < k => load[k].pc = "none" /\ k # page.controller
  <2>1. \A k \in Loads : l < k => load[k].pc = "none"
    BY <1>1 DEF PageOK
  <2>2. \A k \in Loads : k = page.controller => load[k].pc = "pending"
    BY DEF PageOK, Loads
  <2> QED BY <2>1, <2>2
<1> QED BY <1>1, <1>2, <1>4, <1>5 DEF PageOK, PageType, LoadType, Loads

\* A load that is over gives the controller back.
LEMMA SettlePage ==
  ASSUME PageOK, NEW l \in Loads, load[l].pc = "pending", Settle(l),
         page' \in PageType, page'.id <= 0, page'.controller = Released(l)
  PROVE  PageOK'
<1>1. /\ load' \in [Loads -> LoadType] /\ load'[l].pc = "settled"
      /\ \A k \in Loads : k # l => load'[k] = load[k]
  BY DEF Settle, PageOK, LoadType
<1> QED BY <1>1 DEF PageOK, PageType, LoadType, Released, Loads

\* A page arrives: the pages after it may be asked for.
LEMMA ArrivesPage ==
  ASSUME PageOK, ServiceOK, NEW l \in Loads, PageArrives(l)
  PROVE  /\ PageOK'
         /\ LET c == load[l].conv
                before == load[l].before
                id == IF load[l].kind = "more" THEN page.id ELSE 0
            IN  /\ c \in Anywhere /\ id \in Int /\ id <= 0
                /\ messages' = IF load[l].kind = "more" THEN ServerMessages(c, before, id) \o messages
                               ELSE ServerMessages(c, before, id)
<1> DEFINE c == load[l].conv
           before == load[l].before
           id == IF load[l].kind = "more" THEN page.id ELSE 0
<1>1. c \in Anywhere /\ before \in Nat /\ id \in Int /\ id <= 0
  BY DEF PageOK
<1>2. PICK rows : rows = ServerMessages(c, before, id)
  OBVIOUS
<1>3. rows \in Seq(ChatMessages)
  <2> HIDE DEF c, before, id
  <2> QED BY <1>1, <1>2, ServerPage
<1>4. PICK cursor \in Nat : cursor = NextCursor(c, before)
  BY CursorIsPlace
<1>5. /\ load[l].pc = "pending" /\ Settle(l)
      /\ page' = [controller |-> Released(l), cursor |-> cursor, id |-> id - Len(rows)]
      /\ messages' = IF load[l].kind = "more" THEN rows \o messages ELSE rows
  BY <1>2, <1>4 DEF PageArrives
<1>6. Len(rows) \in Nat
  BY <1>3
<1>7. Released(l) \in 0..MaxLoads
  BY WorkspaceConstants DEF PageOK, Released
<1>8. page' \in PageType /\ page'.id <= 0 /\ page'.controller = Released(l)
  <2> HIDE DEF id, c, before
  <2> QED BY <1>1, <1>5, <1>6, <1>7 DEF PageType
<1>9. PageOK'
  BY <1>5, <1>8, SettlePage
<1> QED BY <1>1, <1>2, <1>5, <1>9

\* A page arrives: it goes before the thread, or takes its place.
LEMMA ArrivesThread ==
  ASSUME PageOK, ServiceOK, StreamOK, ThreadOK, NEW l \in Loads, PageArrives(l)
  PROVE  ThreadOK'
<1>1. PICK rows \in Seq(ChatMessages) :
        /\ \A k \in DOMAIN rows : rows[k].id < 0 /\ Whole(rows[k])
        /\ messages' = rows \o messages \/ messages' = rows
  BY ArrivesPage, ServerPage
<1>2. UNCHANGED <<stream, refs, streaming, overlapped>>
  BY DEF PageArrives
<1>3. messages \in Seq(ChatMessages) /\ refs.nextId \in Nat /\ refs.assistant \in Nat
  BY DEF ThreadOK, StreamOK
<1>4. messages' \in Seq(ChatMessages)
  <2>1. rows \o messages \in Seq(ChatMessages)
    BY <1>1, <1>3, ConcatItems
  <2> QED BY <1>1, <2>1
<1>5. ASSUME NEW i \in DOMAIN messages'
      PROVE  (\E k \in DOMAIN rows : messages'[i] = rows[k]) \/ (\E k \in DOMAIN messages : messages'[i] = messages[k])
  <2>1. CASE messages' = rows
    BY <2>1
  <2>2. CASE messages' = rows \o messages
    <3>1. ToSet(messages') = ToSet(rows) \cup ToSet(messages)
      BY <1>1, <1>3, <2>2, ConcatItems
    <3>2. messages'[i] \in ToSet(messages')
      BY <1>5 DEF ToSet
    <3> QED BY <3>1, <3>2 DEF ToSet
  <2> QED BY <1>1, <2>1, <2>2
<1>6. \A k \in DOMAIN rows : rows[k].id \in Int /\ rows[k].id # 0 /\ rows[k].id <= refs.nextId
                              /\ rows[k].id # refs.assistant
  BY <1>1, <1>3, ThreadHasNumbers
<1>7. \A i \in DOMAIN messages' : messages'[i].id # 0 /\ messages'[i].id <= refs.nextId
  BY <1>5, <1>6 DEF ThreadOK
<1>8. overlapped \/ BubbleIsOfReply'
  BY <1>2, <1>5, <1>6 DEF ThreadOK, BubbleIsOfReply, Live
<1>9. WholeAnswers'
  <2> SUFFICES ASSUME ~overlapped, NEW i \in DOMAIN messages' PROVE Whole(messages'[i])
    BY <1>2 DEF WholeAnswers, Whole
  <2>1. \A k \in DOMAIN messages : Whole(messages[k])
    BY DEF ThreadOK, WholeAnswers, Whole
  <2> QED BY <1>1, <1>5, <2>1
<1> QED BY <1>2, <1>4, <1>7, <1>8, <1>9 DEF ThreadOK

\* The cursor of an emptied thread is gone; who has the controller keeps it.
LEMMA EmptyPage == ASSUME PageOK, EmptyThread, UNCHANGED load PROVE PageOK'
<1>1. page' = [controller |-> page.controller, cursor |-> 0, id |-> 0]
  BY DEF EmptyThread, PageOK
<1>2. page.controller \in 0..MaxLoads
  BY DEF PageOK
<1>3. page' \in PageType /\ page'.controller = page.controller /\ page'.id = 0
  BY <1>1, <1>2 DEF PageType
<1> QED BY <1>3 DEF PageOK, PageType

-----------------------------------------------------------------------------
\* The generation dimension stays in its values.
LEMMA GenerationStays ==
  ASSUME NEW g \in Generations, NEW a PROVE GenerationNext(g, a) \in Generations
BY DEF GenerationNext, Generations

\* Asking, however it is done.
LEMMA SendKeeps ==
  ASSUME WInv, NEW s \in Replies, NEW q \in Numbers, NEW thread \in Seq(ChatMessages),
         NEW appendUser \in BOOLEAN, NEW regenerate \in BOOLEAN, \A i \in DOMAIN thread : Fits(thread[i]),
         Send(s, q, thread, appendUser, regenerate), editing' \in Int
  PROVE  WInv'
<1>1. StreamOK' /\ ThreadOK'
  BY SendStream, SendThread DEF WInv
<1>2. PageOK'
  BY PageFrame DEF WInv, Send
<1>3. ServiceOK'
  <2>1. [conv |-> conversation, question |-> q, regenerate |-> regenerate]
          \in [conv : Anywhere, question : Numbers, regenerate : BOOLEAN]
    BY DEF WInv, ClientOK
  <2>2. request' \in [Replies -> [conv : Anywhere, question : Numbers, regenerate : BOOLEAN]]
    BY <2>1 DEF WInv, ServiceOK, Send
  <2> QED BY <2>2, OtherService DEF WInv, ServiceOK, Send
<1>4. ClientOK'
  <2>1. posts' \in SUBSET Posts
    <3>1. conversation # NoConversation => <<"rename", conversation>> \in Posts
      BY DEF WInv, ClientOK, Posts, Anywhere
    <3> QED BY <3>1 DEF WInv, ClientOK, Send
  <2>2. generation' \in Generations
    BY GenerationStays DEF WInv, ClientOK, Send, Dispatch
  <2>3. /\ conversation' = conversation /\ retryable' = FALSE /\ needsTitle' = FALSE /\ lastQuery' = q
    BY DEF Send
  <2> QED BY <2>1, <2>2, <2>3 DEF WInv, ClientOK
<1> QED BY <1>1, <1>2, <1>3, <1>4 DEF WInv

\* The beginning of a thread fits where the thread did.
LEMMA ThreadBeginning ==
  ASSUME ThreadOK, NEW n \in Nat, n <= Len(messages)
  PROVE  SubSeq(messages, 1, n) \in Seq(ChatMessages)
         /\ \A i \in DOMAIN SubSeq(messages, 1, n) : Fits(SubSeq(messages, 1, n)[i])
<1>1. messages \in Seq(ChatMessages) /\ \A i \in DOMAIN messages : Fits(messages[i])
  BY ThreadFits
<1>2. SubSeq(messages, 1, n) \in Seq(ChatMessages) /\ DOMAIN SubSeq(messages, 1, n) = 1..n
      /\ \A i \in 1..n : i \in DOMAIN messages /\ SubSeq(messages, 1, n)[i] = messages[i]
  BY <1>1
<1> QED BY <1>1, <1>2

\* A question is sent, or the last one again.
LEMMA AskKeeps == ASSUME WInv, NEW s \in Replies, Ask(s) \/ Retry(s) PROVE WInv'
<1>1. PICK q \in Numbers : Send(s, q, messages, TRUE, FALSE) /\ editing' = editing
  BY NumbersOfReplies DEF Ask, Retry, WInv, ClientOK
<1>2. editing' \in Int
  BY <1>1 DEF WInv, ClientOK
<1> QED BY <1>1, <1>2, ThreadFits, SendKeeps DEF WInv

\* What follows the last question is cut off, and it is asked again.
LEMMA RegenerateKeeps == ASSUME WInv, NEW s \in Replies, Regenerate(s) PROVE WInv'
<1> DEFINE users == {i \in DOMAIN messages : messages[i].role = "user"}
           last == CHOOSE i \in users : \A j \in users : j <= i
<1>1. messages \in Seq(ChatMessages) /\ Len(messages) \in Nat /\ DOMAIN messages = 1..Len(messages)
  BY DEF WInv, ThreadOK
<1>2. /\ Send(s, lastQuery, IF users = {} THEN messages ELSE SubSeq(messages, 1, last), FALSE, TRUE)
      /\ editing' \in Int /\ lastQuery \in Numbers
  BY DEF Regenerate, WInv, ClientOK
<1>3. CASE users = {}
  BY <1>1, <1>2, <1>3, ThreadFits, SendKeeps DEF WInv
<1>4. CASE users # {}
  <2>1. users \in SUBSET (1..Len(messages))
    BY <1>1
  <2>2. last \in users
    <3>1. \E i \in users : \A j \in users : j <= i
      <4> HIDE DEF users
      <4> QED BY <1>1, <1>4, <2>1, LastPlace
    <3> HIDE DEF users
    <3> QED BY <3>1
  <2>3. last \in Nat /\ last <= Len(messages)
    <3> HIDE DEF users, last
    <3> QED BY <1>1, <2>1, <2>2
  <2>4. Send(s, lastQuery, SubSeq(messages, 1, last), FALSE, TRUE)
    BY <1>2, <1>4
  <2> HIDE DEF users, last
  <2> QED BY <1>2, <2>3, <2>4, ThreadBeginning, SendKeeps DEF WInv
<1> QED BY <1>3, <1>4

\* An edited question is sent: the thread below it is cut off.
LEMMA SaveEditKeeps == ASSUME WInv, NEW s \in Replies, SaveEdit(s) PROVE WInv'
<1>1. messages \in Seq(ChatMessages) /\ Len(messages) \in Nat /\ DOMAIN messages = 1..Len(messages)
  BY DEF WInv, ThreadOK
<1>2. PICK i \in DOMAIN messages :
        /\ messages[i].role = "user"
        /\ Send(s, s, Append(SubSeq(messages, 1, i - 1), [messages[i] EXCEPT !.by = s]), FALSE, TRUE)
  BY DEF SaveEdit, InForm
<1>3. i - 1 \in Nat /\ i - 1 <= Len(messages)
  BY <1>1
<1> DEFINE start == SubSeq(messages, 1, i - 1)
           question == [messages[i] EXCEPT !.by = s]
<1>4. Send(s, s, Append(start, question), FALSE, TRUE)
  BY <1>2, Zenon
<1>6. editing' \in Int
  <2>1. editing' = 0
    BY DEF SaveEdit
  <2> QED BY <2>1
<1>5. start \in Seq(ChatMessages) /\ \A k \in DOMAIN start : Fits(start[k])
  BY <1>3, ThreadBeginning DEF WInv
<1>7. messages[i] \in ChatMessages /\ Fits(messages[i]) /\ s \in Numbers
  BY <1>1, ThreadFits, NumbersOfReplies DEF WInv
<1>8. question \in ChatMessages /\ question.id = messages[i].id /\ question.role = "user"
  BY <1>2, <1>7 DEF ChatMessages
<1> HIDE DEF start, question
<1>9. Fits(question)
  BY <1>7, <1>8 DEF Fits, Whole
<1>10. Append(start, question) \in Seq(ChatMessages)
       /\ \A k \in DOMAIN Append(start, question) : Fits(Append(start, question)[k])
  BY <1>5, <1>8, <1>9
<1> QED BY <1>4, <1>6, <1>7, <1>10, SendKeeps

\* A question is opened for editing, or the editing is given up.
LEMMA EditKeeps == ASSUME WInv, (\E i \in DOMAIN messages : BeginEdit(i)) \/ CancelEdit PROVE WInv'
<1>1. editing' \in Int
  BY ThreadHasNumbers DEF BeginEdit, CancelEdit, WInv, ThreadOK
<1>2. UNCHANGED <<serviceVars, conversation, messages, generation, streaming, retryable, lastQuery,
                  needsTitle, stream, refs, load, page, posts, told, overlapped>>
  BY DEF BeginEdit, CancelEdit
<1>3. ClientOK'
  BY <1>1, <1>2 DEF WInv, ClientOK
<1>4. \A s \in Replies : Live(s)' => Live(s)
  BY <1>2 DEF Live
<1> QED BY <1>2, <1>3, <1>4, ServiceFrame, StreamFrame, ThreadFrame, PageFrame DEF WInv

-----------------------------------------------------------------------------
\* The ends of a reply, however it ends: an error may be shown, the refs stay as they are.
LEMMA CloseKeeps ==
  ASSUME WInv, NEW s \in Replies, Live(s), Close(s), ServiceUnchanged, RestUnchanged,
         UNCHANGED messages, generation' \in Generations, retryable' \in BOOLEAN
  PROVE  WInv'
<1>1. StreamOK' /\ ThreadOK'
  BY CloseStream, ThreadFrame DEF WInv, RestUnchanged
<1>2. PageOK'
  BY PageFrame DEF WInv, RestUnchanged
<1>3. ServiceOK'
  <2>1. NoReader \in Seq(Events)
    BY DEF NoReader, Events
  <2>2. wire' \in [Replies -> Seq(Events)]
    BY <2>1 DEF Close, WInv, ServiceOK
  <2> QED BY <2>2, OtherService DEF WInv, ServiceOK, ServiceUnchanged
<1>4. ClientOK'
  BY DEF WInv, ClientOK, RestUnchanged
<1> QED BY <1>1, <1>2, <1>3, <1>4 DEF WInv

\* The stream is refused, breaks off or ends: the refs are cleared by the reply that owns them.
LEMMA EndKeeps == ASSUME WInv, NEW s \in Replies, Refuse(s) \/ Break(s) \/ OnEnd(s) PROVE WInv'
<1>1. Live(s) /\ Close(s) /\ ServiceUnchanged /\ RestUnchanged /\ UNCHANGED messages
  BY DEF Refuse, Break, OnEnd, Reading, Live
<1>2. generation' \in Generations
  BY GenerationStays DEF Refuse, Break, OnEnd, Dispatch, WInv, ClientOK
<1>3. retryable' \in BOOLEAN
  BY DEF Refuse, Break, OnEnd, WInv, ClientOK
<1> QED BY <1>1, <1>2, <1>3, CloseKeeps

\* What is read of the stream is gone from it.
LEMMA ConsumeService ==
  ASSUME ServiceOK, NEW s \in Replies, wire[s] # <<>>, Consume(s), ServiceUnchanged
  PROVE  ServiceOK'
<1>1. wire[s] \in Seq(Events)
  BY DEF ServiceOK
<1>2. Tail(wire[s]) \in Seq(Events)
  BY <1>1
<1>3. wire' \in [Replies -> Seq(Events)]
  BY <1>2 DEF Consume, ServiceOK
<1> QED BY <1>3, OtherService DEF ServiceOK, ServiceUnchanged

\* An event of the stream that does not touch the thread.
LEMMA EventKeeps ==
  ASSUME WInv, NEW s \in Replies, OnStarted(s) \/ OnFoundSources(s) \/ OnError(s)
  PROVE  WInv'
<1>1. /\ stream[s].pc = "open" /\ ~stream[s].aborted /\ wire[s] # <<>>
      /\ ServiceUnchanged /\ RestUnchanged /\ Consume(s)
      /\ UNCHANGED <<messages, streaming, stream>>
      /\ refs' = refs \/ refs' = [refs EXCEPT !.generation = s]
  BY DEF OnStarted, OnFoundSources, OnError, Reading
<1>2. /\ refs' \in RefsType /\ refs'.abort = refs.abort /\ refs'.building = refs.building
      /\ refs'.generation \in {refs.generation, s}
      /\ refs'.assistant = refs.assistant /\ refs'.nextId = refs.nextId
  BY <1>1, NumbersOfReplies DEF WInv, StreamOK, RefsType
<1>3. /\ overlapped' = overlapped /\ told' = told /\ Live(s) /\ \A t \in Replies : Live(t)' <=> Live(t)
  BY <1>1 DEF RestUnchanged, Live
<1>4. StreamOK'
  <2>1. stream' \in [Replies -> StreamType]
    BY <1>1 DEF WInv, StreamOK, StreamType
  <2> QED BY <1>1, <1>2, <1>3, <2>1, ReadStream, NumbersOfReplies DEF WInv
<1>5. ThreadOK'
  BY <1>1, <1>2, <1>3, ThreadFrame DEF WInv
<1>6. ServiceOK'
  BY <1>1, ConsumeService DEF WInv
<1>7. PageOK'
  BY <1>1, PageFrame DEF WInv, RestUnchanged
<1>8. ClientOK'
  <2>1. generation' \in Generations
    BY GenerationStays DEF OnStarted, OnFoundSources, OnError, Dispatch, WInv, ClientOK
  <2>2. retryable' \in BOOLEAN
    BY DEF OnStarted, OnFoundSources, OnError, WInv, ClientOK
  <2> QED BY <1>1, <2>1, <2>2 DEF WInv, ClientOK, RestUnchanged
<1> QED BY <1>4, <1>5, <1>6, <1>7, <1>8 DEF WInv

\* A part of the answer arrives: it waits in the buffer, or opens the bubble.
LEMMA TokenKeeps == ASSUME WInv, NEW s \in Replies, OnToken(s) PROVE WInv'
<1>1. /\ stream[s].pc = "open" /\ wire[s] # <<>> /\ ServiceUnchanged /\ RestUnchanged /\ Consume(s)
      /\ stream' = [stream EXCEPT ![s].generating = TRUE] /\ UNCHANGED <<streaming, retryable>>
  BY DEF OnToken, Reading
<1>2. /\ refs' \in RefsType /\ refs'.abort = refs.abort /\ refs'.generation = refs.generation
      /\ refs'.building = refs.building \cup {s}
  <2>1. refs \in RefsType /\ refs.building \cup {s} \in SUBSET Replies /\ refs.nextId + 1 \in Nat
    BY DEF WInv, StreamOK, RefsType
  <2>2. CASE refs.assistant = 0
    <3>1. refs' = [refs EXCEPT !.building = @ \cup {s}, !.nextId = @ + 1, !.assistant = refs.nextId + 1]
      BY <2>2 DEF OnToken
    <3> QED BY <2>1, <3>1 DEF RefsType
  <2>3. CASE refs.assistant # 0
    <3>1. refs' = [refs EXCEPT !.building = @ \cup {s}, !.flush = TRUE]
      BY <2>3 DEF OnToken
    <3> QED BY <2>1, <3>1 DEF RefsType
  <2> QED BY <2>2, <2>3
<1>3. /\ stream' \in [Replies -> StreamType]
      /\ \A t \in Replies : stream'[t].pc = stream[t].pc /\ stream'[t].aborted = stream[t].aborted
  BY <1>1 DEF WInv, StreamOK, StreamType
<1>4. StreamOK'
  <2>1. Live(s) /\ overlapped' = overlapped /\ told' = told
    BY <1>1 DEF Live, RestUnchanged
  <2> QED BY <1>1, <1>2, <1>3, <2>1, ReadStream, NumbersOfReplies DEF WInv
<1>5. ThreadOK'
  BY TokenThread DEF WInv
<1>6. ServiceOK'
  BY <1>1, ConsumeService DEF WInv
<1>7. PageOK'
  BY <1>1, PageFrame DEF WInv, RestUnchanged
<1>8. ClientOK'
  <2>1. generation' \in Generations
    BY GenerationStays DEF OnToken, Dispatch, WInv, ClientOK
  <2> QED BY <1>1, <2>1 DEF WInv, ClientOK, RestUnchanged
<1> QED BY <1>4, <1>5, <1>6, <1>7, <1>8 DEF WInv

\* The answer is written into the bubble of its own reply, or the tokens that are there so far.
LEMMA WriteKeeps ==
  ASSUME WInv, NEW text \in SUBSET Numbers, NEW whole \in BOOLEAN,
         messages' = Rewrite(refs.assistant, text, whole), refs' = [refs EXCEPT !.flush = FALSE],
         UNCHANGED <<stream, streaming>>, RestUnchanged,
         ~overlapped => \A i \in DOMAIN messages :
           messages[i].id = refs.assistant =>
             text \subseteq {messages[i].by} /\ (whole => text = {messages[i].by})
  PROVE  StreamOK' /\ ThreadOK' /\ PageOK'
<1>1. /\ refs' \in RefsType /\ refs'.abort = refs.abort /\ refs'.building = refs.building
      /\ refs'.generation = refs.generation
      /\ refs'.assistant = refs.assistant /\ refs'.nextId = refs.nextId
  BY DEF WInv, StreamOK, RefsType
<1>2. overlapped' = overlapped /\ told' = told /\ \A t \in Replies : Live(t)' <=> Live(t)
  BY DEF RestUnchanged, Live
<1>3. stream' \in [Replies -> StreamType]
  BY DEF WInv, StreamOK, StreamType
<1>4. StreamOK'
  BY <1>1, <1>2, <1>3, ReadStream, NumbersOfReplies DEF WInv
<1>5. ThreadOK'
  BY <1>1, <1>2, RewriteThread DEF WInv
<1> QED BY <1>4, <1>5, PageFrame DEF WInv, RestUnchanged

\* The answer is complete: the bubble takes the whole text.
LEMMA DoneKeeps == ASSUME WInv, NEW s \in Replies, OnDone(s) PROVE WInv'
<1>1. /\ Live(s) /\ wire[s] # <<>> /\ ServiceUnchanged /\ RestUnchanged /\ Consume(s)
      /\ refs' = [refs EXCEPT !.flush = FALSE] /\ messages' = Rewrite(refs.assistant, {s}, TRUE)
      /\ UNCHANGED <<streaming, retryable, stream>>
  BY DEF OnDone, Reading, Live
<1>2. ~overlapped => \A i \in DOMAIN messages : messages[i].id = refs.assistant => messages[i].by = s
  BY <1>1 DEF WInv, ThreadOK, BubbleIsOfReply
<1>3. {s} \in SUBSET Numbers
  BY NumbersOfReplies
<1>4. StreamOK' /\ ThreadOK' /\ PageOK'
  BY <1>1, <1>2, <1>3, WriteKeeps
<1>5. ServiceOK'
  BY <1>1, ConsumeService DEF WInv
<1>6. ClientOK'
  <2>1. generation' \in Generations
    BY GenerationStays DEF OnDone, Dispatch, WInv, ClientOK
  <2> QED BY <1>1, <2>1 DEF WInv, ClientOK, RestUnchanged
<1> QED BY <1>4, <1>5, <1>6 DEF WInv

\* The buffer is shown.
LEMMA FlushKeeps == ASSUME WInv, Flush PROVE WInv'
<1>1. /\ refs' = [refs EXCEPT !.flush = FALSE]
      /\ messages' = Rewrite(refs.assistant, refs.building, FALSE)
      /\ UNCHANGED <<serviceVars, generation, streaming, retryable, stream>> /\ RestUnchanged
  BY DEF Flush
<1>2. ~overlapped => \A i \in DOMAIN messages :
        messages[i].id = refs.assistant => refs.building \subseteq {messages[i].by}
  BY DEF WInv, ThreadOK, BubbleIsOfReply
<1>3. refs.building \in SUBSET Numbers
  BY NumbersOfReplies DEF WInv, StreamOK
<1>4. StreamOK' /\ ThreadOK' /\ PageOK'
  BY <1>1, <1>2, <1>3, WriteKeeps
<1>5. ServiceOK'
  BY <1>1, ServiceFrame DEF WInv
<1>6. ClientOK'
  BY <1>1 DEF WInv, ClientOK, RestUnchanged
<1> QED BY <1>4, <1>5, <1>6 DEF WInv

\* The stream opens, and names its generation.
LEMMA OpenKeeps == ASSUME WInv, NEW s \in Replies, Open(s) PROVE WInv'
<1>1. /\ stream[s].pc = "connecting" /\ stream' = [stream EXCEPT ![s].pc = "open"]
      /\ ServiceUnchanged /\ RestUnchanged
      /\ UNCHANGED <<wire, messages, generation, streaming, retryable, refs>>
  BY DEF Open
<1>2. /\ stream' \in [Replies -> StreamType] /\ stream'[s].pc = "open"
      /\ \A t \in Replies : stream'[t].aborted = stream[t].aborted /\ (t # s => stream'[t] = stream[t])
  BY <1>1 DEF WInv, StreamOK, StreamType
<1>3. Live(s) /\ Live(s)' /\ \A t \in Replies : Live(t)' <=> Live(t)
  BY <1>1, <1>2 DEF Live
<1>4. refs' \in RefsType /\ overlapped' = overlapped /\ told' = told
  BY <1>1 DEF WInv, StreamOK, RefsType, RestUnchanged
<1>5. StreamOK'
  BY <1>1, <1>2, <1>3, <1>4, ReadStream, NumbersOfReplies DEF WInv
<1>6. ThreadOK'
  BY <1>1, <1>3, <1>4, ThreadFrame DEF WInv
<1>7. ServiceOK' /\ PageOK'
  BY <1>1, ServiceFrame, PageFrame DEF WInv, ServiceUnchanged, RestUnchanged, serviceVars
<1>8. ClientOK'
  BY <1>1 DEF WInv, ClientOK, RestUnchanged
<1> QED BY <1>5, <1>6, <1>7, <1>8 DEF WInv

\* A step of the service alone.
LEMMA ServiceKeeps == ASSUME WInv, ServiceOK', UNCHANGED clientVars PROVE WInv'
<1>1. UNCHANGED <<conversation, messages, generation, streaming, retryable, editing, lastQuery, needsTitle,
                  stream, refs, load, page, posts, told, overlapped>>
  BY DEF clientVars
<1>2. \A s \in Replies : Live(s)' => Live(s)
  BY <1>1 DEF Live
<1>3. StreamOK' /\ ThreadOK' /\ PageOK'
  BY <1>1, <1>2, StreamFrame, ThreadFrame, PageFrame DEF WInv
<1>4. ClientOK'
  BY <1>1 DEF WInv, ClientOK
<1> QED BY <1>3, <1>4 DEF WInv

\* The service takes a step: no client variable changes.
LEMMA ServesKeeps ==
  ASSUME WInv, NEW s \in Replies, Arrive(s) \/ Serves(s) \/ ServiceFails(s) \/ Gone(s)
  PROVE  WInv'
<1>1. UNCHANGED clientVars
  BY DEF Arrive, Serves, ServiceFails, Gone
<1>2. ServiceOK'
  BY RegisterService, ServesService, CancelService DEF WInv, Arrive, Serves, ServiceFails, Gone
<1> QED BY <1>1, <1>2, ServiceKeeps

-----------------------------------------------------------------------------
\* Stop is pressed: the generation of the refs is posted, the stream aborted.
LEMMA StopKeeps == ASSUME WInv, Stop PROVE WInv'
<1>1. UNCHANGED <<serviceVars, conversation, messages, streaming, editing, lastQuery, needsTitle, refs,
                  load, page, overlapped>>
  BY DEF Stop
<1>2. StreamOK' /\ \A t \in Replies : Live(t)' => Live(t)
  BY StopStream DEF WInv
<1>3. ThreadOK' /\ ServiceOK' /\ PageOK'
  BY <1>1, <1>2, ThreadFrame, ServiceFrame, PageFrame DEF WInv
<1>4. ClientOK'
  <2>1. posts' \in SUBSET Posts
    <3>1. refs.generation # 0 => <<"stop", refs.generation>> \in Posts
      BY NumbersOfReplies DEF WInv, StreamOK, Posts
    <3> QED BY <3>1 DEF Stop, WInv, ClientOK
  <2>2. generation' \in Generations
    BY GenerationStays DEF Stop, Dispatch, WInv, ClientOK
  <2>3. retryable' \in BOOLEAN
    BY DEF Stop, WInv, ClientOK
  <2> QED BY <1>1, <2>1, <2>2, <2>3 DEF WInv, ClientOK
<1> QED BY <1>2, <1>3, <1>4 DEF WInv

\* What changes the service, the posts and the error only.
LEMMA PostKeeps ==
  ASSUME WInv, ServiceOK', posts' \in SUBSET Posts, retryable' \in BOOLEAN,
         UNCHANGED <<conversation, messages, generation, streaming, editing, lastQuery, needsTitle, stream,
                     refs, load, page, told, overlapped>>
  PROVE  WInv'
<1>1. \A s \in Replies : Live(s)' => Live(s)
  BY DEF Live
<1>2. StreamOK' /\ ThreadOK' /\ PageOK'
  BY <1>1, StreamFrame, ThreadFrame, PageFrame DEF WInv
<1>3. ClientOK'
  BY DEF WInv, ClientOK
<1> QED BY <1>2, <1>3 DEF WInv

\* The answer of a stop arrives.
LEMMA AnswersKeep ==
  ASSUME WInv, NEW g \in Replies, StopAnswered(g) \/ StopFails(g)
  PROVE  WInv'
<1>1. ServiceOK'
  BY StopService, ServiceFrame DEF StopAnswered, StopFails, WInv
<1>2. posts' \in SUBSET Posts
  BY DEF StopAnswered, StopFails, WInv, ClientOK
<1>3. retryable' \in BOOLEAN
  BY DEF StopAnswered, StopFails, CanStop
<1> QED BY <1>1, <1>2, <1>3, PostKeeps DEF StopAnswered, StopFails

\* The title is written after the first exchange.
LEMMA TitleKeeps == ASSUME WInv, NEW c \in Conversations, TitleArrives(c) PROVE WInv'
<1>1. ServiceOK'
  <2>1. CASE Rename(c)
    <3>1. title' \in [Conversations -> {"none", "default", "question", "chosen", "deleted"}]
      BY <2>1 DEF Rename, WInv, ServiceOK
    <3> QED BY <2>1, <3>1, OtherService DEF Rename, WInv, ServiceOK
  <2>2. CASE UNCHANGED serviceVars
    BY <2>2, ServiceFrame DEF WInv
  <2> QED BY <2>1, <2>2 DEF TitleArrives
<1>2. posts' \in SUBSET Posts /\ retryable' \in BOOLEAN
  BY DEF TitleArrives, WInv, ClientOK
<1> QED BY <1>1, <1>2, PostKeeps DEF TitleArrives

\* A clearing is posted.
LEMMA BeginClearKeeps ==
  ASSUME WInv, NEW c \in Conversations, NEW via \in {"header", "sidebar"}, BeginClear(c, via)
  PROVE  WInv'
<1>1. posts' \in SUBSET Posts /\ retryable' \in BOOLEAN
  BY DEF BeginClear, WInv, ClientOK, Posts
<1>2. ServiceOK'
  BY ServiceFrame DEF BeginClear, WInv
<1> QED BY <1>1, <1>2, PostKeeps DEF BeginClear

\* Another digital human is chosen: the thread, the page and the reply go.
LEMMA ChangeHumanKeeps == ASSUME WInv, ChangeHuman PROVE WInv'
<1>1. UNCHANGED <<serviceVars, conversation, messages, editing, lastQuery, needsTitle, load, page, posts,
                  told, overlapped>>
  BY DEF ChangeHuman
<1>2. StreamOK' /\ \A t \in Replies : Live(t)' => Live(t)
  BY ChangeHumanStream DEF WInv
<1>3. refs'.assistant = refs.assistant /\ refs'.nextId = refs.nextId /\ refs'.building = refs.building
  BY DEF ChangeHuman, WInv, StreamOK
<1>4. ThreadOK' /\ ServiceOK' /\ PageOK'
  BY <1>1, <1>2, <1>3, ThreadFrame, ServiceFrame, PageFrame DEF WInv
<1>5. ClientOK'
  <2>1. generation' \in Generations
    BY GenerationStays DEF ChangeHuman, Dispatch, WInv, ClientOK
  <2>2. retryable' \in BOOLEAN
    BY DEF ChangeHuman
  <2> QED BY <1>1, <2>1, <2>2 DEF WInv, ClientOK
<1> QED BY <1>2, <1>4, <1>5 DEF WInv

\* What the pages and the thread are left out of: the replies go on.
LEMMA RepliesGoOn ==
  ASSUME WInv, UNCHANGED <<streaming, stream, refs, told, overlapped>>
  PROVE  StreamOK' /\ \A s \in Replies : Live(s)' => Live(s)
BY StreamFrame DEF WInv, Live

\* A conversation is selected, or older messages are asked for: the page before is aborted.
LEMMA LoadKeeps ==
  ASSUME WInv, NEW l \in Loads, LoadMore(l) \/ \E c \in Conversations : SelectConversation(l, c)
  PROVE  WInv'
<1>1. UNCHANGED <<serviceVars, messages, streaming, editing, lastQuery, needsTitle, stream, refs, posts,
                  told, overlapped>>
  BY DEF LoadMore, SelectConversation
<1>2. StreamOK' /\ ThreadOK' /\ ServiceOK'
  BY <1>1, RepliesGoOn, ThreadFrame, ServiceFrame DEF WInv
<1>3. PageOK'
  <2>1. CASE LoadMore(l)
    <3>1. Request(l, conversation, "more", page.cursor)
      BY <2>1 DEF LoadMore
    <3>2. conversation \in Anywhere /\ page.cursor \in Nat
      BY DEF WInv, ClientOK, PageOK
    <3> QED BY <3>1, <3>2, RequestPage DEF WInv
  <2>2. ASSUME NEW c \in Conversations, SelectConversation(l, c) PROVE PageOK'
    <3>1. Request(l, c, "switch", 0) /\ c \in Anywhere /\ 0 \in Nat
      BY <2>2 DEF SelectConversation, Anywhere
    <3> QED BY <3>1, RequestPage DEF WInv
  <2> QED BY <2>1, <2>2
<1>4. ClientOK'
  <2>1. generation' \in Generations
    BY GenerationStays DEF LoadMore, SelectConversation, Dispatch, WInv, ClientOK
  <2>2. conversation' \in Anywhere /\ retryable' \in BOOLEAN
    BY DEF LoadMore, SelectConversation, WInv, ClientOK, Anywhere
  <2> QED BY <1>1, <2>1, <2>2 DEF WInv, ClientOK
<1> QED BY <1>2, <1>3, <1>4 DEF WInv

\* A page arrives, or fails.
LEMMA PageKeeps == ASSUME WInv, NEW l \in Loads, PageArrives(l) \/ PageFails(l) PROVE WInv'
<1>1. UNCHANGED <<serviceVars, conversation, generation, streaming, editing, lastQuery, needsTitle, stream,
                  refs, posts, told, overlapped>>
  BY DEF PageArrives, PageFails
<1>2. StreamOK' /\ ServiceOK' /\ \A s \in Replies : Live(s)' => Live(s)
  BY <1>1, RepliesGoOn, ServiceFrame DEF WInv
<1>3. ThreadOK'
  <2>1. CASE PageArrives(l)
    BY <2>1, ArrivesThread DEF WInv
  <2>2. CASE PageFails(l)
    <3>1. messages' = messages
      BY <2>2 DEF PageFails
    <3> QED BY <1>1, <1>2, <3>1, ThreadFrame DEF WInv
  <2> QED BY <2>1, <2>2
<1>4. PageOK'
  <2>1. CASE PageArrives(l)
    BY <2>1, ArrivesPage DEF WInv
  <2>2. CASE PageFails(l)
    <3>1. /\ load[l].pc = "pending" /\ Settle(l)
          /\ page' = [page EXCEPT !.controller = Released(l)]
      BY <2>2 DEF PageFails
    <3>2. Released(l) \in 0..MaxLoads
      BY WorkspaceConstants DEF WInv, PageOK, Released
    <3>3. page' \in PageType /\ page'.id <= 0 /\ page'.controller = Released(l)
      BY <3>1, <3>2 DEF WInv, PageOK, PageType
    <3> QED BY <3>1, <3>3, SettlePage DEF WInv
  <2> QED BY <2>1, <2>2
<1>5. ClientOK'
  <2>1. retryable' \in BOOLEAN
    BY DEF PageArrives, PageFails, WInv, ClientOK
  <2> QED BY <1>1, <2>1 DEF WInv, ClientOK
<1> QED BY <1>2, <1>3, <1>4, <1>5 DEF WInv

\* A conversation is begun.
LEMMA CreateKeeps == ASSUME WInv, NEW c \in Conversations, Create(c) PROVE WInv'
<1>1. /\ EmptyThread
      /\ UNCHANGED <<history, request, task, active, stopped, wire, streaming, editing, lastQuery, stream,
                     refs, load, posts, told, overlapped>>
      /\ title' = [title EXCEPT ![c] = "default"]
  BY DEF Create
<1>2. StreamOK' /\ ThreadOK' /\ PageOK'
  BY <1>1, RepliesGoOn, EmptyThreadFits, EmptyPage DEF WInv, EmptyThread
<1>3. ServiceOK'
  <2>1. title' \in [Conversations -> {"none", "default", "question", "chosen", "deleted"}]
    BY <1>1 DEF WInv, ServiceOK
  <2> QED BY <1>1, <2>1, OtherService DEF WInv, ServiceOK
<1>4. ClientOK'
  <2>1. generation' \in Generations
    BY GenerationStays DEF Create, Dispatch, WInv, ClientOK
  <2>2. conversation' \in Anywhere /\ retryable' \in BOOLEAN /\ needsTitle' \in BOOLEAN
    BY DEF Create, Anywhere
  <2> QED BY <1>1, <2>1, <2>2 DEF WInv, ClientOK
<1> QED BY <1>2, <1>3, <1>4 DEF WInv

\* A clearing has been answered: the thread is emptied, whatever is on screen, unless it failed.
LEMMA ClearKeeps ==
  ASSUME WInv, NEW c \in Conversations, NEW via \in {"header", "sidebar"}, ClearReturns(c, via)
  PROVE  WInv'
<1>1. UNCHANGED <<conversation, generation, streaming, editing, lastQuery, needsTitle, stream, refs, load,
                  told, overlapped>>
  BY DEF ClearReturns
<1>2. StreamOK' /\ \A s \in Replies : Live(s)' => Live(s)
  BY <1>1, RepliesGoOn
<1>3. \/ ClearConversation(c) /\ EmptyThread
      \/ UNCHANGED <<serviceVars, messages, page>>
  BY DEF ClearReturns
<1>4. ServiceOK'
  BY <1>3, ClearService, ServiceFrame DEF WInv
<1>5. ThreadOK' /\ PageOK'
  BY <1>1, <1>2, <1>3, EmptyThreadFits, ThreadFrame, EmptyPage, PageFrame DEF WInv, EmptyThread
<1>6. ClientOK'
  <2>1. posts' \in SUBSET Posts
    BY DEF ClearReturns, WInv, ClientOK
  <2>2. retryable' \in BOOLEAN
    BY DEF ClearReturns
  <2> QED BY <1>1, <2>1, <2>2 DEF WInv, ClientOK
<1> QED BY <1>2, <1>4, <1>5, <1>6 DEF WInv

\* A conversation is deleted: the thread goes when it is the one on screen.
LEMMA DeleteKeeps == ASSUME WInv, NEW c \in Conversations, Delete(c) PROVE WInv'
<1>1. /\ title' = [title EXCEPT ![c] = "deleted"]
      /\ UNCHANGED <<history, request, task, active, stopped, wire, generation, streaming, retryable, editing,
                     lastQuery, needsTitle, stream, refs, load, page, posts, told, overlapped>>
      /\ messages' = <<>> \/ messages' = messages
      /\ conversation' \in {NoConversation, conversation}
  BY DEF Delete
<1>2. StreamOK' /\ PageOK' /\ \A s \in Replies : Live(s)' => Live(s)
  BY <1>1, RepliesGoOn, PageFrame DEF WInv
<1>3. ThreadOK'
  BY <1>1, <1>2, EmptyThreadFits, ThreadFrame DEF WInv
<1>4. ServiceOK'
  <2>1. title' \in [Conversations -> {"none", "default", "question", "chosen", "deleted"}]
    BY <1>1 DEF WInv, ServiceOK
  <2> QED BY <1>1, <2>1, OtherService DEF WInv, ServiceOK
<1>5. ClientOK'
  BY <1>1 DEF WInv, ClientOK, Anywhere
<1> QED BY <1>2, <1>3, <1>4, <1>5 DEF WInv

-----------------------------------------------------------------------------
\* No reply, no page and no message is there at first.
LEMMA WorkspaceOpens == Init => WInv
<1> SUFFICES ASSUME Init PROVE WInv
  OBVIOUS
<1>1. ServiceOK
  <2>1. PICK old \in Saved : history = Earlier(old) \o Earlier(old)
    BY DEF Init
  <2>2. Row(old, "user", 0, 0) \in TableRows /\ Row(old, "assistant", 0, 0) \in TableRows
    BY WorkspaceConstants, NumbersOfReplies DEF Row, TableRows, Anywhere, Roles
  <2>3. Earlier(old) \in Seq(TableRows)
    BY <2>2 DEF Earlier
  <2>4. history \in Seq(TableRows)
    BY <2>1, <2>3, ConcatItems
  <2>5. title \in [Conversations -> {"none", "default", "question", "chosen", "deleted"}]
    BY DEF Init
  <2>6. NoRequest \in [conv : Anywhere, question : Numbers, regenerate : BOOLEAN]
    BY NumbersOfReplies DEF NoRequest, Anywhere
  <2>7. request \in [Replies -> [conv : Anywhere, question : Numbers, regenerate : BOOLEAN]]
    BY <2>6 DEF Init
  <2>8. 0 \in 0..MaxTokens
    BY ServiceConstants
  <2> QED BY <2>4, <2>5, <2>7, <2>8 DEF Init, ServiceOK, RegistryHoldsWhatRuns
<1>2. StreamOK
  <2>1. stream \in [Replies -> StreamType] /\ \A s \in Replies : stream[s].pc = "none"
    BY DEF Init, Unsent, StreamType
  <2>2. refs \in RefsType /\ refs.generation = 0
    BY NumbersOfReplies DEF Init, NoRefs, RefsType
  <2> QED BY <2>1, <2>2 DEF Init, StreamOK, StreamType, RefsType, RefsAreOfReply, Live
<1>3. ThreadOK
  BY DEF Init, NoRefs, ThreadOK, BubbleIsOfReply, WholeAnswers
<1>4. conversation \in Anywhere
  BY WorkspaceConstants DEF Init, Anywhere
<1>5. PageOK
  <2>1. /\ load \in [Loads -> LoadType]
        /\ \A l \in Loads : load[l].kind = "initial" /\ (load[l].pc # "none" => l = 1)
    BY <1>4 DEF Init, LoadType
  <2>2. page \in PageType /\ page.controller = 0 /\ page.id = 0
    BY WorkspaceConstants DEF Init, NoPage, PageType
  <2> QED BY <2>1, <2>2 DEF PageOK, PageType, LoadType, Loads
<1>6. ClientOK
  <2>1. generation = "idle" /\ retryable = FALSE /\ needsTitle = FALSE /\ editing = 0
        /\ lastQuery = 0 /\ posts = {}
    BY DEF Init
  <2>2. generation \in Generations
    BY <2>1 DEF Generations
  <2>3. retryable \in BOOLEAN /\ needsTitle \in BOOLEAN
    BY <2>1, Zenon
  <2>4. editing \in Int /\ lastQuery \in Numbers /\ posts \in SUBSET Posts
    BY <2>1, NumbersOfReplies, SMT
  <2> QED BY <1>4, <2>2, <2>3, <2>4 DEF ClientOK
<1> QED BY <1>1, <1>2, <1>3, <1>5, <1>6 DEF WInv

\* Every step keeps it.
LEMMA WorkspaceStep == WInv /\ [Next]_vars => WInv'
<1> SUFFICES ASSUME WInv, [Next]_vars PROVE WInv'
  OBVIOUS
<1>1. ASSUME NEW s \in Replies, Progress(s) \/ StopAnswered(s) PROVE WInv'
  BY <1>1, ServesKeeps, OpenKeeps, EventKeeps, TokenKeeps, DoneKeeps, EndKeeps, AnswersKeep
     DEF Progress, Reads, Ends
<1>2. CASE Going
  <2>1. ASSUME NEW l \in Loads, PageArrives(l) PROVE WInv'
    BY <2>1, PageKeeps
  <2>2. ASSUME NEW c \in Conversations, TitleArrives(c) PROVE WInv'
    BY <2>2, TitleKeeps
  <2>3. ASSUME NEW c \in Conversations, NEW via \in {"header", "sidebar"}, ClearReturns(c, via) PROVE WInv'
    BY <2>3, ClearKeeps
  <2> QED BY <1>1, <1>2, <2>1, <2>2, <2>3, FlushKeeps DEF Going
<1>3. CASE Moving
  <2>1. ASSUME NEW s \in Replies,
               \/ Ask(s) \/ Retry(s) \/ Regenerate(s) \/ SaveEdit(s)
               \/ ServiceFails(s) \/ StopFails(s) \/ (~stream[s].aborted /\ Ends(s))
        PROVE  WInv'
    BY <2>1, AskKeeps, RegenerateKeeps, SaveEditKeeps, ServesKeeps, AnswersKeep, EndKeeps DEF Ends
  <2>2. ASSUME NEW l \in Loads,
               LoadMore(l) \/ PageFails(l) \/ \E c \in Conversations : SelectConversation(l, c)
        PROVE  WInv'
    BY <2>2, LoadKeeps, PageKeeps
  <2>3. ASSUME NEW c \in Conversations,
               Create(c) \/ Delete(c) \/ \E via \in {"header", "sidebar"} : BeginClear(c, via)
        PROVE  WInv'
    BY <2>3, CreateKeeps, DeleteKeeps, BeginClearKeeps
  <2> QED BY <1>3, <2>1, <2>2, <2>3, EditKeeps, StopKeeps, ChangeHumanKeeps DEF Moving
<1>4. CASE UNCHANGED vars
  <2>1. UNCHANGED <<serviceVars, clientVars>>
    BY <1>4 DEF vars
  <2> QED BY <2>1, ServiceFrame, ServiceKeeps DEF WInv
<1> QED BY <1>2, <1>3, <1>4 DEF Next

\* The invariant holds throughout.
LEMMA WorkspaceInvariant == Spec => []WInv
BY WorkspaceOpens, WorkspaceStep, PTL DEF Spec

\* An answer on screen is made of its own reply's text, unless sends overlapped
\* (useStreamingReply.ts:121-230).
THEOREM AnswersStayWhole == Spec => []WholeAnswers
<1>1. WInv => WholeAnswers
  BY DEF WInv, ThreadOK
<1> QED BY <1>1, WorkspaceInvariant, PTL

\* A stop is of the reply it was pressed for, up to the service's registry
\* (useStreamingReply.ts:263-286, routes/conversation.py:213-250).
THEOREM StopsReachTheirReply == Spec => []StopReachesItsReply
<1>1. WInv => StopReachesItsReply
  BY DEF WInv, StreamOK, RefsAreOfReply, ServiceOK, StopReachesItsReply, StopNamesItsStream
<1> QED BY <1>1, WorkspaceInvariant, PTL

\* The composer is closed while a reply is under way, and only then
\* (useStreamingReply.ts:254-259).
THEOREM BusyStaysLive == Spec => []BusyIsLive
<1>1. WInv => BusyIsLive
  BY DEF WInv, StreamOK, RefsAreOfReply, BusyIsLive
<1> QED BY <1>1, WorkspaceInvariant, PTL

\* Of the pages asked for only the last can still arrive (useConversationRestore.ts:108-176).
THEOREM LatestLoadLands == Spec => []OnlyTheLatestLoadLands
<1>1. WInv => OnlyTheLatestLoadLands
  <2> SUFFICES ASSUME WInv, NEW l \in Loads, load[l].pc = "pending", load[l].kind # "initial",
                      NEW k \in Loads, k > l
               PROVE  load[k].pc = "none"
    BY DEF OnlyTheLatestLoadLands
  <2>1. page.controller = l /\ l # 0 /\ l < k
    BY DEF WInv, PageOK, Loads
  <2> QED BY <2>1 DEF WInv, PageOK
<1> QED BY <1>1, WorkspaceInvariant, PTL
=============================================================================
