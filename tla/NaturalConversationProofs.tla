----------------------- MODULE NaturalConversationProofs -----------------------
(***************************************************************************)
(* That the exchanges of the natural conversation are kept apart, and that *)
(* a cancelled one never acts.                                             *)
(***************************************************************************)
EXTENDS NaturalConversation, FiniteSetTheorems, TLAPS

-----------------------------------------------------------------------------
\* The reducer: an action moves the machine where it is legal, and nowhere else.
LEMMA Moves ==
  ASSUME NEW from, NEW action, NEW p \in Phases, <<from, action>> \in Into[p],
         \A q \in Phases : <<from, action>> \in Into[q] => q = p
  PROVE  Dispatch(from, action) = p
BY DEF Dispatch

LEMMA Stays ==
  ASSUME NEW from, NEW action, \A q \in Phases : <<from, action>> \notin Into[q]
  PROVE  Dispatch(from, action) = from
BY DEF Dispatch

LEMMA Legal ==
  ASSUME NEW from, NEW action
  PROVE  /\ <<from, action>> \notin Into["idle"]
         /\ <<from, action>> \in Into["transcribing"] <=> from = "listening" /\ action = "SPEECH_END"
         /\ <<from, action>> \in Into["speaking"] <=> from = "thinking" /\ action = "ASSISTANT_STARTED"
         /\ <<from, action>> \in Into["reconnecting"] <=>
              from \in Engaged \cup {"interrupted"} /\ action = "NETWORK_RECONNECTING"
         /\ <<from, action>> \in Into["listening"] <=>
              \/ from \in {"idle", "error"} /\ action \in {"START", "RETRY"}
              \/ from = "transcribing" /\ action = "TRANSCRIPT_CLEARED"
              \/ from = "speaking" /\ action = "ASSISTANT_ENDED"
              \/ from = "interrupted" /\ action = "INTERRUPT_RESOLVED"
              \/ from = "reconnecting" /\ action = "NETWORK_RECONNECTED"
         /\ <<from, action>> \in Into["thinking"] <=>
              \/ from = "transcribing" /\ action = "TRANSCRIPT_CONFIRMED"
              \/ from \in {"listening", "transcribing", "reconnecting"} /\ action = "REPLY_START"
         /\ <<from, action>> \in Into["interrupted"] <=>
              \/ from \in {"thinking", "speaking"} /\ action = "SPEECH_START"
              \/ from \in Engaged /\ action = "INTERRUPT"
         /\ <<from, action>> \in Into["error"] <=>
              \/ from \in Engaged \cup {"interrupted", "reconnecting"} /\ action = "ERROR"
              \/ from = "reconnecting" /\ action = "RECONNECT_FAILED"
BY DEF Into, Engaged

\* One action of the reducer: where it leads, and from where.
LEMMA Leads ==
  ASSUME NEW from, NEW action, NEW legal, NEW target, target \in Phases,
         \A p \in Phases : <<from, action>> \in Into[p] <=> p = target /\ from \in legal
  PROVE  Dispatch(from, action) = IF from \in legal THEN target ELSE from
<1>1. CASE from \in legal
  <2>1. <<from, action>> \in Into[target] /\ \A q \in Phases : <<from, action>> \in Into[q] => q = target
    BY <1>1
  <2> QED BY <1>1, <2>1, Moves
<1>2. CASE from \notin legal
  BY <1>2, Stays
<1> QED BY <1>1, <1>2

\* Where each action leads, and the phases it is legal in.
Target == [START |-> "listening",
           RETRY |-> "listening",
           TRANSCRIPT_CLEARED |-> "listening",
           ASSISTANT_ENDED |-> "listening",
           INTERRUPT_RESOLVED |-> "listening",
           SPEECH_END |-> "transcribing",
           TRANSCRIPT_CONFIRMED |-> "thinking",
           REPLY_START |-> "thinking",
           ASSISTANT_STARTED |-> "speaking",
           SPEECH_START |-> "interrupted",
           INTERRUPT |-> "interrupted",
           NETWORK_RECONNECTING |-> "reconnecting",
           ERROR |-> "error"]
Sources == [START |-> {"idle", "error"},
            RETRY |-> {"idle", "error"},
            TRANSCRIPT_CLEARED |-> {"transcribing"},
            ASSISTANT_ENDED |-> {"speaking"},
            INTERRUPT_RESOLVED |-> {"interrupted"},
            SPEECH_END |-> {"listening"},
            TRANSCRIPT_CONFIRMED |-> {"transcribing"},
            REPLY_START |-> {"listening", "transcribing", "reconnecting"},
            ASSISTANT_STARTED |-> {"thinking"},
            SPEECH_START |-> {"thinking", "speaking"},
            INTERRUPT |-> Engaged,
            NETWORK_RECONNECTING |-> Engaged \cup {"interrupted"},
            ERROR |-> Engaged \cup {"interrupted", "reconnecting"}]

\* The reducer as the engine uses it.
LEMMA Reduced ==
  ASSUME NEW action \in DOMAIN Target, NEW from
  PROVE  Dispatch(from, action) = IF from \in Sources[action] THEN Target[action] ELSE from
<1>1. Target[action] \in Phases
  BY DEF Target, Phases
<1>2. \A p \in Phases : <<from, action>> \in Into[p] <=> p = Target[action] /\ from \in Sources[action]
  BY Legal DEF Target, Sources, Phases
<1> QED BY <1>1, <1>2, Leads

LEMMA DispatchTable ==
  \A from :
    /\ Dispatch(from, "START") = (IF from \in {"idle", "error"} THEN "listening" ELSE from)
    /\ Dispatch(from, "RETRY") = (IF from \in {"idle", "error"} THEN "listening" ELSE from)
    /\ Dispatch(from, "TRANSCRIPT_CLEARED") = (IF from \in {"transcribing"} THEN "listening" ELSE from)
    /\ Dispatch(from, "ASSISTANT_ENDED") = (IF from \in {"speaking"} THEN "listening" ELSE from)
    /\ Dispatch(from, "INTERRUPT_RESOLVED") = (IF from \in {"interrupted"} THEN "listening" ELSE from)
    /\ Dispatch(from, "SPEECH_END") = (IF from \in {"listening"} THEN "transcribing" ELSE from)
    /\ Dispatch(from, "TRANSCRIPT_CONFIRMED") = (IF from \in {"transcribing"} THEN "thinking" ELSE from)
    /\ Dispatch(from, "REPLY_START") = (IF from \in {"listening", "transcribing", "reconnecting"} THEN "thinking" ELSE from)
    /\ Dispatch(from, "ASSISTANT_STARTED") = (IF from \in {"thinking"} THEN "speaking" ELSE from)
    /\ Dispatch(from, "SPEECH_START") = (IF from \in {"thinking", "speaking"} THEN "interrupted" ELSE from)
    /\ Dispatch(from, "INTERRUPT") = (IF from \in Engaged THEN "interrupted" ELSE from)
    /\ Dispatch(from, "NETWORK_RECONNECTING") = (IF from \in Engaged \cup {"interrupted"} THEN "reconnecting" ELSE from)
    /\ Dispatch(from, "ERROR") = (IF from \in Engaged \cup {"interrupted", "reconnecting"} THEN "error" ELSE from)
BY Reduced DEF Target, Sources

-----------------------------------------------------------------------------
\* The playback queue holds chunks of exchanges after s, and no more than it may.
Queues == [current : Epochs \cup {Nobody}, starting : BOOLEAN, pending : Seq(Epochs), late : Nat]
HoldsAfter(q, s) ==
  /\ q \in Queues /\ Len(q.pending) <= MaxQueueLength
  /\ Playing(q) => q.current > s
  /\ \A i \in 1..Len(q.pending) : q.pending[i] > s

LEMMA EpochsAreNaturals == Epochs \subseteq Nat /\ Nobody \notin Epochs /\ MaxEpoch \in Nat
BY LimitsAreNaturals, NobodyIsNoEpoch DEF Epochs

\* The rest of a list that is not empty.
LEMMA RestOfList ==
  ASSUME NEW S, NEW list \in Seq(S), list # <<>>
  PROVE  /\ Len(list) \in Nat \ {0} /\ Head(list) = list[1] /\ Head(list) \in S
         /\ Tail(list) \in Seq(S) /\ Len(Tail(list)) = Len(list) - 1
         /\ \A i \in 1..(Len(list) - 1) : Tail(list)[i] = list[i + 1]
OBVIOUS

\* The next chunk comes from the queue.
LEMMA PlayNextHolds ==
  ASSUME NEW s \in Nat, NEW q, HoldsAfter(q, s)
  PROVE  HoldsAfter(PlayNext(q), s)
<1>1. CASE Playing(q) \/ q.pending = <<>>
  BY <1>1 DEF PlayNext
<1>2. CASE ~(Playing(q) \/ q.pending = <<>>)
  <2>1. q.pending \in Seq(Epochs) /\ q.pending # <<>> /\ q.late \in Nat
    BY <1>2 DEF HoldsAfter, Queues
  <2>2. PICK list \in Seq(Epochs) : list = q.pending
    BY <2>1
  <2>3. /\ Len(list) \in Nat \ {0} /\ Head(list) = list[1] /\ Head(list) \in Epochs
        /\ Tail(list) \in Seq(Epochs) /\ Len(Tail(list)) = Len(list) - 1
        /\ \A i \in 1..(Len(list) - 1) : Tail(list)[i] = list[i + 1]
    BY <2>1, <2>2, RestOfList
  <2>4. PICK head, tail : head = Head(list) /\ tail = Tail(list)
    OBVIOUS
  <2>5. PICK next : next = [q EXCEPT !.current = head, !.starting = TRUE, !.pending = tail]
    OBVIOUS
  <2>6. \A i \in 1..Len(list) : list[i] > s
    BY <2>2 DEF HoldsAfter
  <2>7. \A i \in 1..(Len(list) - 1) : Tail(list)[i] > s
    BY <2>3, <2>6
  <2>8. Head(list) > s /\ Len(Tail(list)) <= MaxQueueLength
    BY <2>2, <2>3, <2>6, QueueHoldsSomething DEF HoldsAfter
  <2>9. next \in Queues /\ next.current = head /\ next.pending = tail
    <3>1. q \in Queues /\ head \in Epochs /\ tail \in Seq(Epochs)
      BY <2>3, <2>4 DEF HoldsAfter
    <3> QED BY <2>5, <3>1 DEF Queues
  <2>10. HoldsAfter(next, s)
    BY <2>3, <2>4, <2>7, <2>8, <2>9 DEF HoldsAfter
  <2>11. PlayNext(q) = next
    BY <1>2, <2>2, <2>4, <2>5 DEF PlayNext
  <2> QED BY <2>10, <2>11
<1> QED BY <1>1, <1>2

\* What is finished leaves what waits.
LEMMA FinishFields ==
  ASSUME NEW q \in Queues
  PROVE  /\ FinishCurrent(q) \in Queues
         /\ FinishCurrent(q).current = Nobody /\ FinishCurrent(q).pending = q.pending
<1>1. PICK late \in Nat : late = IF Playing(q) /\ q.starting THEN q.late + 1 ELSE q.late
  BY DEF Queues
<1>2. PICK next : next = [q EXCEPT !.current = Nobody, !.starting = FALSE, !.late = late]
  OBVIOUS
<1>3. next \in Queues /\ next.current = Nobody /\ next.pending = q.pending
  BY <1>2 DEF Queues
<1>4. FinishCurrent(q) = next
  BY <1>1, <1>2 DEF FinishCurrent
<1> QED BY <1>3, <1>4

LEMMA FinishHolds ==
  ASSUME NEW s \in Nat, NEW q, HoldsAfter(q, s)
  PROVE  HoldsAfter(FinishCurrent(q), s)
BY FinishFields DEF HoldsAfter, Playing

\* What is cleared holds nothing, so nothing that is too old.
LEMMA ClearHolds ==
  ASSUME NEW s \in Nat, NEW t \in Nat, NEW q, HoldsAfter(q, s)
  PROVE  HoldsAfter(Clear(q), t)
<1>1. PICK none \in Seq(Epochs) : none = <<>> /\ Len(none) = 0
  <2>1. <<>> \in Seq(Epochs) /\ Len(<<>>) = 0
    OBVIOUS
  <2> QED BY <2>1
<1>2. PICK bare : bare = [q EXCEPT !.pending = none]
  OBVIOUS
<1>3. bare \in Queues /\ bare.pending = none
  BY <1>2 DEF HoldsAfter, Queues
<1>4. Clear(q) = FinishCurrent(bare)
  BY <1>1, <1>2 DEF Clear
<1>5. Clear(q) \in Queues /\ Clear(q).current = Nobody /\ Clear(q).pending = none
  BY <1>3, <1>4, FinishFields
<1> QED BY <1>1, <1>5, QueueHoldsSomething DEF HoldsAfter, Playing

\* A chunk of a later exchange may join the queue.
LEMMA EnqueueHolds ==
  ASSUME NEW s \in Nat, NEW q, HoldsAfter(q, s), NEW e \in Epochs, e > s
  PROVE  HoldsAfter(Enqueue(q, e), s)
<1>1. q.pending \in Seq(Epochs)
  BY DEF HoldsAfter, Queues
<1>2. PICK list \in Seq(Epochs) : list = q.pending
  BY <1>1
<1>3. Len(list) \in Nat /\ Len(list) <= MaxQueueLength /\ MaxQueueLength \in Nat /\ MaxQueueLength # 0
  BY <1>2, QueueHoldsSomething DEF HoldsAfter
<1>4. \A i \in 1..Len(list) : list[i] > s
  BY <1>2 DEF HoldsAfter
<1>5. PICK rest : rest = IF Len(list) >= MaxQueueLength THEN Tail(list) ELSE list
  OBVIOUS
<1>6. /\ rest \in Seq(Epochs) /\ Len(rest) \in Nat /\ Len(rest) < MaxQueueLength
      /\ \A i \in 1..Len(rest) : rest[i] > s
  <2>1. CASE Len(list) >= MaxQueueLength
    <3>1. list # <<>>
      BY <1>3, <2>1
    <3>2. /\ Tail(list) \in Seq(Epochs) /\ Len(Tail(list)) = Len(list) - 1
          /\ \A i \in 1..(Len(list) - 1) : Tail(list)[i] = list[i + 1]
      BY <3>1, RestOfList
    <3>3. \A i \in 1..(Len(list) - 1) : i + 1 \in 1..Len(list)
      BY <1>3
    <3>4. \A i \in 1..(Len(list) - 1) : Tail(list)[i] > s
      BY <1>4, <3>2, <3>3
    <3>5. rest = Tail(list)
      BY <1>5, <2>1
    <3> QED BY <1>3, <2>1, <3>2, <3>4, <3>5
  <2>2. CASE ~(Len(list) >= MaxQueueLength)
    BY <1>3, <1>4, <1>5, <2>2
  <2> QED BY <2>1, <2>2
<1>7. PICK more : more = Append(rest, e)
  OBVIOUS
<1>8. more \in Seq(Epochs) /\ Len(more) = Len(rest) + 1 /\ \A i \in 1..(Len(rest) + 1) : more[i] > s
  BY <1>6, <1>7
<1>9. PICK full : full = [q EXCEPT !.pending = more]
  OBVIOUS
<1>10. full \in Queues /\ full.pending = more /\ full.current = q.current
  BY <1>8, <1>9 DEF HoldsAfter, Queues
<1>11. HoldsAfter(full, s)
  BY <1>3, <1>6, <1>8, <1>10 DEF HoldsAfter, Playing
<1>12. Enqueue(q, e) = PlayNext(full)
  BY <1>2, <1>5, <1>7, <1>9 DEF Enqueue
<1> QED BY <1>11, <1>12, PlayNextHolds

\* The callbacks of the audio element.
LEMMA CallbacksHold ==
  ASSUME NEW s \in Nat, NEW q, HoldsAfter(q, s)
  PROVE  /\ HoldsAfter(Begins(q), s) /\ HoldsAfter(Ends(q), s) /\ HoldsAfter(Refused(q), s)
         /\ q.late > 0 => HoldsAfter(RejectsLate(q), s)
<1>1. HoldsAfter(Begins(q), s)
  BY DEF HoldsAfter, Queues, Begins, Playing
<1>2. HoldsAfter(Ends(q), s)
  BY FinishHolds, PlayNextHolds DEF Ends
<1>3. HoldsAfter(Refused(q), s)
  <2>1. HoldsAfter(FinishCurrent(Begins(q)), s)
    BY <1>1, FinishHolds
  <2> QED BY <2>1, PlayNextHolds DEF Refused
<1>4. ASSUME q.late > 0 PROVE HoldsAfter(RejectsLate(q), s)
  <2>1. PICK less : less = [q EXCEPT !.late = @ - 1]
    OBVIOUS
  <2>2. HoldsAfter(less, s)
    BY <1>4, <2>1 DEF HoldsAfter, Queues, Playing
  <2>3. HoldsAfter(FinishCurrent(less), s)
    BY <2>2, FinishHolds
  <2>4. HoldsAfter(PlayNext(FinishCurrent(less)), s)
    BY <2>3, PlayNextHolds
  <2> QED BY <2>1, <2>4 DEF RejectsLate
<1> QED BY <1>1, <1>2, <1>3, <1>4

-----------------------------------------------------------------------------
\* The inductive invariant.  An exchange of the present epoch that is at work was begun after the
\* last silence, one of a later epoch is not there yet, and only the present one can have thrown:
\* so what its stream still delivers cannot sound too late, and nothing changes when it is told
\* that it was superseded.
Replies == [pc : {"none", "stream", "delay", "thrown"}, attempts : 0..MaxReconnect, audio : BOOLEAN]
Mics == [asking : [{"enable", "retry"} -> 0..MaxStreams], open : 0..MaxStreams,
         held : BOOLEAN, pumping : BOOLEAN, speech : BOOLEAN, closing : 0..MaxEpoch]

EngineOK ==
  /\ phase \in Phases \ {"interrupted"} /\ mode \in {"natural", "push_to_talk"}
  /\ epoch \in Epochs /\ silenced \in 0..epoch
FlagsOK == stt \in BOOLEAN /\ audible \in BOOLEAN /\ delivered \in BOOLEAN
ListensOK == recog \in [Epochs -> 0..MaxUtterances]
RepliesOK ==
  /\ reply \in [Epochs -> Replies]
  /\ \A e \in Epochs : (e > epoch => reply[e].pc = "none") /\ (e # epoch => reply[e].pc # "thrown")
  /\ reply[epoch].pc \in {"stream", "delay"} => epoch > silenced
MicHolds(m, n) ==
  /\ m \in Mics
  /\ m.open + m.asking["enable"] + m.asking["retry"] <= MaxStreams
  /\ m.held => m.open > 0
  /\ m.closing <= n
MicOK == MicHolds(mic, epoch)
QueueOK == HoldsAfter(queue, silenced)

NInv == EngineOK /\ FlagsOK /\ ListensOK /\ RepliesOK /\ MicOK /\ QueueOK /\ PhaseHasExchange

LEMMA Starts == Init => NInv
<1> SUFFICES ASSUME Init PROVE NInv
  OBVIOUS
<1> USE LimitsAreNaturals DEF Init
<1>1. EngineOK
  BY DEF EngineOK, Phases, Epochs
<1>2. ListensOK /\ FlagsOK
  <2>1. ListensOK
    BY DEF ListensOK
  <2> QED BY <2>1 DEF FlagsOK
<1>3. RepliesOK
  BY DEF RepliesOK, Replies, NoReply, Epochs
<1>4. MicOK
  BY DEF MicOK, MicHolds, Mics
<1>5. QueueOK
  <2>1. <<>> \in Seq(Epochs) /\ Len(<<>>) = 0
    OBVIOUS
  <2>2. PICK none \in Seq(Epochs) : none = <<>> /\ Len(none) = 0
    BY <2>1
  <2>3. queue = [current |-> Nobody, starting |-> FALSE, pending |-> none, late |-> 0]
    BY <2>2 DEF EmptyQueue
  <2> QED BY <2>2, <2>3, QueueHoldsSomething DEF QueueOK, HoldsAfter, Queues, Playing
<1>6. PhaseHasExchange
  BY DEF PhaseHasExchange
<1> QED BY <1>1, <1>2, <1>3, <1>4, <1>5, <1>6 DEF NInv

LEMMA Implied == NInv => ExchangesAreApart
<1> SUFFICES ASSUME NInv PROVE ExchangesAreApart
  OBVIOUS
<1>1. NaturalTypeOK
  <2>1. EngineOK /\ FlagsOK /\ ListensOK /\ RepliesOK /\ MicOK /\ QueueOK
    BY DEF NInv
  <2> QED BY <2>1 DEF NaturalTypeOK, EngineOK, FlagsOK, ListensOK, RepliesOK, Replies,
                    MicOK, MicHolds, Mics, QueueOK, HoldsAfter, Queues
<1>2. NothingOldSounds
  BY DEF NInv, QueueOK, HoldsAfter, NothingOldSounds
<1> QED BY <1>1, <1>2 DEF NInv, ExchangesAreApart

-----------------------------------------------------------------------------
\* What the epoch does to the exchanges when it moves on.
LEMMA SupersededOnes ==
  ASSUME NInv, Supersede
  PROVE  /\ epoch \in Nat /\ epoch' = epoch + 1 /\ epoch' \in Epochs /\ silenced < epoch' /\ silenced \in Nat
         /\ Superseded \in [Epochs -> Replies]
         /\ \A e \in Epochs : Superseded[e].pc = (IF reply[e].pc = "thrown" THEN "none" ELSE reply[e].pc)
         /\ Superseded[epoch'].pc = "none"
<1>1. epoch \in Nat /\ epoch' = epoch + 1 /\ epoch' \in Epochs /\ silenced < epoch' /\ silenced \in Nat
  BY LimitsAreNaturals DEF NInv, EngineOK, Epochs, Supersede
<1>2. reply \in [Epochs -> Replies] /\ NoReply \in Replies
  BY LimitsAreNaturals DEF NInv, RepliesOK, NoReply, Replies
<1>3. \A e \in Epochs : /\ Superseded[e] \in Replies
                        /\ Superseded[e].pc = IF reply[e].pc = "thrown" THEN "none" ELSE reply[e].pc
  <2> SUFFICES ASSUME NEW e \in Epochs
               PROVE  /\ Superseded[e] \in Replies
                      /\ Superseded[e].pc = IF reply[e].pc = "thrown" THEN "none" ELSE reply[e].pc
    OBVIOUS
  <2>1. reply[e].pc \in {"none", "stream", "delay", "thrown"}
    BY <1>2 DEF Replies
  <2>2. Superseded[e] = IF reply[e].pc \in {"stream", "delay"}
                         THEN [NoReply EXCEPT !.pc = reply[e].pc] ELSE NoReply
    BY DEF Superseded
  <2> QED BY <1>2, <2>1, <2>2 DEF NoReply, Replies
<1>4. reply[epoch'].pc = "none"
  BY <1>1 DEF NInv, RepliesOK
<1>5. Superseded \in [Epochs -> Replies]
  BY <1>3 DEF Superseded
<1> QED BY <1>1, <1>3, <1>4, <1>5

\* A reply is begun: the exchange of the new epoch is the one that streams.
LEMMA BegunKeeps ==
  ASSUME NInv, BeginReply, ListensOK'
  PROVE  NInv'
<1> USE DEF BeginReply
<1>1. /\ epoch \in Nat /\ epoch' = epoch + 1 /\ epoch' \in Epochs /\ silenced < epoch' /\ silenced \in Nat
      /\ Superseded \in [Epochs -> Replies]
      /\ \A e \in Epochs : Superseded[e].pc = (IF reply[e].pc = "thrown" THEN "none" ELSE reply[e].pc)
      /\ Superseded[epoch'].pc = "none"
  BY SupersededOnes
<1>2. phase' \in Phases \ {"interrupted"} /\ phase' # "reconnecting"
  BY DispatchTable DEF NInv, EngineOK, Phases
<1>3. EngineOK' /\ FlagsOK'
  <2>1. FlagsOK'
    BY DEF NInv, FlagsOK, Supersede
  <2>2. EngineOK'
    BY <1>1, <1>2 DEF NInv, EngineOK
  <2> QED BY <2>1, <2>2
<1>4. reply'[epoch'].pc = "stream" /\ reply' \in [Epochs -> Replies]
      /\ \A e \in Epochs : e # epoch' => reply'[e] = Superseded[e]
  BY <1>1 DEF Replies
<1>5. RepliesOK'
  <2>1. \A e \in Epochs : e # epoch' => reply'[e].pc # "thrown"
    BY <1>1, <1>4
  <2>2. \A e \in Epochs : e > epoch' => reply'[e].pc = "none"
    <3>1. \A e \in Epochs : e > epoch' => e > epoch /\ e # epoch'
      BY <1>1, EpochsAreNaturals
    <3> QED BY <1>1, <1>4, <3>1 DEF NInv, RepliesOK
  <2> QED BY <1>1, <1>4, <2>1, <2>2 DEF RepliesOK
<1>6. MicOK'
  <2>1. mic.closing \in Nat /\ mic.closing <= epoch
    BY DEF NInv, MicOK, MicHolds, Mics
  <2>2. mic.closing <= epoch'
    BY <1>1, <2>1
  <2> QED BY <2>2 DEF NInv, MicOK, MicHolds
<1>7. QueueOK'
  BY DEF NInv, QueueOK
<1>8. PhaseHasExchange'
  BY <1>2, <1>4 DEF PhaseHasExchange
<1> QED BY <1>3, <1>5, <1>6, <1>7, <1>8 DEF NInv

\* Whatever runs is superseded, and silent: nothing is at work in the new epoch.
LEMMA SilencedKeeps ==
  ASSUME NInv, Silence
  PROVE  /\ FlagsOK' /\ RepliesOK' /\ QueueOK'
         /\ epoch \in Nat /\ epoch' = epoch + 1 /\ epoch' \in Epochs /\ silenced' \in 0..epoch'
<1> USE DEF Silence
<1>1. /\ epoch \in Nat /\ epoch' = epoch + 1 /\ epoch' \in Epochs /\ silenced < epoch' /\ silenced \in Nat
      /\ Superseded \in [Epochs -> Replies]
      /\ \A e \in Epochs : Superseded[e].pc = (IF reply[e].pc = "thrown" THEN "none" ELSE reply[e].pc)
      /\ Superseded[epoch'].pc = "none"
  BY SupersededOnes
<1>2. FlagsOK'
  BY DEF FlagsOK, Supersede
<1>3. RepliesOK'
  <2>1. \A e \in Epochs : e # epoch' => reply'[e].pc # "thrown"
    BY <1>1
  <2>2. \A e \in Epochs : e > epoch' => reply'[e].pc = "none"
    <3>1. \A e \in Epochs : e > epoch' => e > epoch /\ e # epoch'
      BY <1>1, EpochsAreNaturals
    <3> QED BY <1>1, <3>1 DEF NInv, RepliesOK
  <2> QED BY <1>1, <2>1, <2>2 DEF RepliesOK
<1>4. QueueOK'
  <2>1. HoldsAfter(queue, silenced)
    BY DEF NInv, QueueOK
  <2>2. HoldsAfter(Clear(queue), epoch')
    BY <1>1, <2>1, ClearHolds
  <2> QED BY <2>2 DEF QueueOK
<1>5. silenced' \in 0..epoch'
  BY <1>1
<1> QED BY <1>1, <1>2, <1>3, <1>4, <1>5

\* The microphone stays as it is while the epoch moves on.
LEMMA MicWaits ==
  ASSUME NInv, epoch \in Nat, epoch' = epoch + 1, mic' = mic
  PROVE  MicOK'
<1>1. mic.closing \in Nat /\ mic.closing <= epoch
  BY DEF NInv, MicOK, MicHolds, Mics
<1>2. mic.closing <= epoch'
  BY <1>1
<1> QED BY <1>2 DEF NInv, MicOK, MicHolds

\* From here on one lemma for each action: it keeps the invariant.
LEMMA PressInterruptKeeps == ASSUME NInv, PressInterrupt PROVE NInv'
<1> USE DEF PressInterrupt, Interrupt
<1>1. /\ FlagsOK' /\ RepliesOK' /\ QueueOK'
      /\ epoch \in Nat /\ epoch' = epoch + 1 /\ epoch' \in Epochs /\ silenced' \in 0..epoch'
  BY SilencedKeeps
<1>2. phase' = "listening"
  BY DispatchTable DEF Engaged
<1>3. EngineOK' /\ PhaseHasExchange'
  BY <1>1, <1>2 DEF NInv, EngineOK, PhaseHasExchange, Phases
<1>4. ListensOK'
  BY DEF NInv, ListensOK
<1>5. MicOK'
  BY <1>1, MicWaits
<1> QED BY <1>1, <1>3, <1>4, <1>5 DEF NInv

LEMMA ConfirmKeeps == ASSUME NInv, Confirm PROVE NInv'
<1>1. ListensOK'
  BY DEF NInv, ListensOK, Confirm
<1> QED BY <1>1, BegunKeeps DEF Confirm

\* What only the microphone and the session notice.
LEMMA SpeechKeepsMic ==
  ASSUME NInv, mic' = [mic EXCEPT !.speech = TRUE] \/ mic' = [mic EXCEPT !.speech = FALSE],
         epoch' \in Nat, epoch' >= epoch
  PROVE  MicOK' /\ mic'.closing = mic.closing
<1>1. mic \in Mics /\ epoch \in Nat
  BY EpochsAreNaturals DEF NInv, MicOK, MicHolds, EngineOK
<1>2. /\ mic' \in Mics /\ mic'.open = mic.open /\ mic'.asking = mic.asking
      /\ mic'.held = mic.held /\ mic'.closing = mic.closing
  BY <1>1 DEF Mics
<1>3. mic.closing \in Nat /\ mic.closing <= epoch
  BY <1>1 DEF NInv, MicOK, MicHolds, Mics
<1>4. mic'.closing <= epoch'
  BY <1>1, <1>2, <1>3
<1> QED BY <1>2, <1>4 DEF NInv, MicOK, MicHolds

LEMMA SpeechStartKeeps == ASSUME NInv, SpeechStart PROVE NInv'
<1>0. epoch \in Nat /\ mic' = [mic EXCEPT !.speech = TRUE]
  BY EpochsAreNaturals DEF NInv, EngineOK, SpeechStart
<1>1. CASE audible /\ UNCHANGED <<phase, mode, epoch, silenced, stt, recog, reply, delivered, audible, queue>>
  <2>1. MicOK' /\ mic'.closing = mic.closing
    <3>1. epoch' \in Nat /\ epoch' >= epoch
      BY <1>0, <1>1
    <3> QED BY <1>0, <3>1, SpeechKeepsMic
  <2>2. EngineOK' /\ FlagsOK' /\ ListensOK' /\ RepliesOK' /\ QueueOK'
    BY <1>1 DEF NInv, EngineOK, FlagsOK, ListensOK, RepliesOK, QueueOK
  <2>3. PhaseHasExchange'
    BY <1>1, <2>1 DEF NInv, PhaseHasExchange
  <2> QED BY <2>1, <2>2, <2>3 DEF NInv
<1>2. CASE phase \in {"speaking", "thinking"} /\ Interrupt
  <2> USE DEF Interrupt
  <2>1. /\ FlagsOK' /\ RepliesOK' /\ QueueOK'
        /\ epoch \in Nat /\ epoch' = epoch + 1 /\ epoch' \in Epochs /\ silenced' \in 0..epoch'
    BY <1>2, SilencedKeeps
  <2>2. phase' = "listening"
    BY <1>2, DispatchTable DEF Engaged
  <2>3. EngineOK' /\ PhaseHasExchange'
    BY <1>2, <2>1, <2>2 DEF NInv, EngineOK, PhaseHasExchange, Phases
  <2>4. ListensOK'
    BY <1>2 DEF NInv, ListensOK
  <2>5. MicOK'
    <3>1. epoch' \in Nat /\ epoch' >= epoch
      BY <2>1
    <3> QED BY <1>0, <3>1, SpeechKeepsMic
  <2> QED BY <2>1, <2>3, <2>4, <2>5 DEF NInv
<1>3. CASE /\ phase \notin {"speaking", "thinking"} /\ phase' = Dispatch(phase, "SPEECH_START") /\ stt' = TRUE
           /\ UNCHANGED <<mode, epoch, silenced, recog, reply, delivered, audible, queue>>
  <2>1. MicOK' /\ mic'.closing = mic.closing
    <3>1. epoch' \in Nat /\ epoch' >= epoch
      BY <1>0, <1>3
    <3> QED BY <1>0, <3>1, SpeechKeepsMic
  <2>2. phase' = phase
    BY <1>3, DispatchTable
  <2>3. EngineOK' /\ ListensOK' /\ RepliesOK' /\ QueueOK'
    BY <1>3, <2>2 DEF NInv, EngineOK, ListensOK, RepliesOK, QueueOK
  <2>4. FlagsOK'
    BY <1>3 DEF NInv, FlagsOK
  <2>5. PhaseHasExchange'
    BY <1>3, <2>1, <2>2 DEF NInv, PhaseHasExchange
  <2> QED BY <2>1, <2>3, <2>4, <2>5 DEF NInv
<1> QED BY <1>1, <1>2, <1>3 DEF SpeechStart

\* While fewer utterances wait than may, one more may join those of any epoch.
LEMMA RoomForOne ==
  ASSUME ListensOK, NEW e \in Epochs, Cardinality(Utterances) < MaxUtterances
  PROVE  recog[e] + 1 \in 0..MaxUtterances
<1> DEFINE all == Epochs \X (1..MaxUtterances)
           mine == {e} \X (1..recog[e])
<1>1. \A o \in Epochs : recog[o] \in Nat /\ recog[o] <= MaxUtterances
  BY LimitsAreNaturals DEF ListensOK
<1>2. IsFiniteSet(all)
  <2>1. IsFiniteSet(Epochs) /\ IsFiniteSet(1..MaxUtterances)
    BY LimitsAreNaturals, FS_Interval DEF Epochs
  <2> QED BY <2>1, FS_Product
<1>3. Utterances \subseteq all
  BY DEF Utterances
<1>4. mine \subseteq Utterances
  <2> SUFFICES ASSUME NEW n \in 1..recog[e] PROVE <<e, n>> \in Utterances
    OBVIOUS
  <2>1. n \in 1..MaxUtterances /\ n <= recog[e]
    BY <1>1, LimitsAreNaturals
  <2> QED BY <2>1 DEF Utterances
<1>5. IsFiniteSet(mine) /\ Cardinality(mine) = recog[e]
  <2>1. IsFiniteSet(1..recog[e]) /\ Cardinality(1..recog[e]) = recog[e]
    <3>1. PICK n \in Nat : n = recog[e]
      BY <1>1
    <3>2. IsFiniteSet(1..n) /\ Cardinality(1..n) = IF 1 > n THEN 0 ELSE n - 1 + 1
      BY FS_Interval
    <3>3. (IF 1 > n THEN 0 ELSE n - 1 + 1) = n
      OBVIOUS
    <3> QED BY <3>1, <3>2, <3>3
  <2>2. IsFiniteSet({e}) /\ Cardinality({e}) = 1
    BY FS_Singleton
  <2>3. IsFiniteSet(mine) /\ Cardinality(mine) = Cardinality({e}) * Cardinality(1..recog[e])
    BY <2>1, <2>2, FS_Product
  <2> QED BY <1>1, <2>1, <2>2, <2>3
<1>6. IsFiniteSet(Utterances)
  BY <1>2, <1>3, FS_Subset
<1>7. Cardinality(mine) <= Cardinality(Utterances) /\ Cardinality(Utterances) \in Nat
  <2> HIDE DEF mine
  <2> QED BY <1>4, <1>6, FS_Subset, FS_CardinalityType
<1> QED BY <1>1, <1>5, <1>7, LimitsAreNaturals

LEMMA SpeechEndKeeps == ASSUME NInv, SpeechEnd PROVE NInv'
<1>0. epoch \in Nat /\ epoch' = epoch /\ mic' = [mic EXCEPT !.speech = FALSE]
  BY EpochsAreNaturals DEF NInv, EngineOK, SpeechEnd
<1>1. MicOK' /\ mic'.closing = mic.closing
  BY <1>0, SpeechKeepsMic
<1>2. ListensOK'
  <2>1. epoch \in Epochs /\ recog \in [Epochs -> 0..MaxUtterances]
    BY DEF NInv, EngineOK, ListensOK
  <2>2. CASE recog' = recog
    BY <2>1, <2>2 DEF ListensOK
  <2>3. CASE Cardinality(Utterances) < MaxUtterances /\ recog' = [recog EXCEPT ![epoch] = @ + 1]
    BY <2>1, <2>3, RoomForOne DEF NInv, ListensOK
  <2> QED BY <2>2, <2>3 DEF SpeechEnd
<1>3. /\ phase' \in Phases \ {"interrupted"}
      /\ phase' \in {"thinking", "reconnecting"} => phase' = phase
  <2>1. phase' \in {Dispatch(phase, "SPEECH_END"),
                    Dispatch(Dispatch(phase, "SPEECH_END"), "TRANSCRIPT_CLEARED")}
    BY DEF SpeechEnd
  <2> QED BY <2>1, DispatchTable DEF NInv, EngineOK, Phases
<1>4. EngineOK' /\ RepliesOK' /\ QueueOK'
  BY <1>3 DEF SpeechEnd, NInv, EngineOK, RepliesOK, QueueOK
<1>5. FlagsOK'
  BY DEF SpeechEnd, NInv, FlagsOK
<1>6. PhaseHasExchange'
  BY <1>1, <1>3 DEF SpeechEnd, NInv, PhaseHasExchange
<1> QED BY <1>1, <1>2, <1>4, <1>5, <1>6 DEF NInv

LEMMA TranscribeKeeps == ASSUME NInv, NEW e \in Epochs, Transcribe(e) PROVE ListensOK'
<1>1. recog \in [Epochs -> 0..MaxUtterances] /\ recog[e] > 0 /\ recog' = [recog EXCEPT ![e] = @ - 1]
  BY DEF NInv, ListensOK, Transcribe
<1>2. recog[e] - 1 \in 0..MaxUtterances
  BY <1>1, LimitsAreNaturals
<1> QED BY <1>1, <1>2 DEF ListensOK

LEMMA RecognizedKeeps == ASSUME NInv, NEW e \in Epochs, Recognized(e) PROVE NInv'
BY TranscribeKeeps, BegunKeeps DEF Recognized

LEMMA NotRecognizedKeeps == ASSUME NInv, NEW e \in Epochs, NotRecognized(e) PROVE NInv'
<1>1. ListensOK'
  BY TranscribeKeeps DEF NotRecognized
<1>2. /\ phase' \in Phases \ {"interrupted"}
      /\ phase' \in {"thinking", "reconnecting"} => phase' = phase
  <2>1. phase' = phase \/ phase' = Dispatch(phase, "TRANSCRIPT_CLEARED")
    BY DEF NotRecognized
  <2> QED BY <2>1, DispatchTable DEF NInv, EngineOK, Phases
<1>3. EngineOK' /\ RepliesOK' /\ QueueOK' /\ MicOK'
  BY <1>2 DEF NotRecognized, NInv, EngineOK, RepliesOK, QueueOK, MicOK, MicHolds
<1>4. FlagsOK'
  BY DEF NotRecognized, NInv, FlagsOK
<1>5. PhaseHasExchange'
  BY <1>2 DEF NotRecognized, NInv, PhaseHasExchange
<1> QED BY <1>1, <1>3, <1>4, <1>5 DEF NInv

-----------------------------------------------------------------------------
\* What is left of an exchange that is over.
LEMMA OverOnes ==
  ASSUME NInv, NEW e \in Epochs, Over(e), epoch' = epoch, silenced' = silenced
  PROVE  /\ RepliesOK' /\ \A o \in Epochs \ {e} : reply'[o] = reply[o]
<1>1. reply \in [Epochs -> Replies] /\ NoReply \in Replies /\ NoReply.pc = "none"
  BY LimitsAreNaturals DEF NInv, RepliesOK, NoReply, Replies
<1>2. reply' \in [Epochs -> Replies] /\ reply'[e].pc = "none" /\ \A o \in Epochs \ {e} : reply'[o] = reply[o]
  BY <1>1 DEF Over
<1>3. epoch \in Epochs
  BY DEF NInv, EngineOK
<1> QED BY <1>2, <1>3 DEF NInv, RepliesOK

\* What stays as it is while a stream delivers.
LEMMA RestKeeps ==
  ASSUME NInv, UNCHANGED <<recog, mic, epoch>>
  PROVE  ListensOK' /\ MicOK'
BY DEF NInv, ListensOK, MicOK, MicHolds

LEMMA AudioKeeps == ASSUME NInv, NEW e \in Epochs, Audio(e) PROVE NInv'
<1> USE DEF Audio
<1>1. e = epoch /\ reply[e].pc = "stream" /\ epoch > silenced /\ silenced \in Nat
  BY EpochsAreNaturals DEF Streaming, NInv, RepliesOK, EngineOK
<1>2. reply' \in [Epochs -> Replies] /\ \A o \in Epochs : reply'[o].pc = reply[o].pc
  BY DEF NInv, RepliesOK, Replies
<1>3. RepliesOK'
  BY <1>1, <1>2 DEF NInv, RepliesOK
<1>4. /\ phase' \in Phases \ {"interrupted"}
      /\ phase' \in {"thinking", "reconnecting"} => phase' = phase
  BY DispatchTable DEF NInv, EngineOK, Phases
<1>5. EngineOK' /\ PhaseHasExchange'
  BY <1>1, <1>2, <1>4 DEF NInv, EngineOK, PhaseHasExchange
<1>6. FlagsOK'
  BY DEF NInv, FlagsOK
<1>7. QueueOK'
  <2>1. HoldsAfter(Enqueue(queue, e), silenced)
    BY <1>1, EnqueueHolds DEF NInv, QueueOK
  <2> QED BY <2>1 DEF QueueOK
<1>8. ListensOK' /\ MicOK'
  BY RestKeeps
<1> QED BY <1>3, <1>5, <1>6, <1>7, <1>8 DEF NInv

LEMMA RepliedKeeps == ASSUME NInv, NEW e \in Epochs, Replied(e) PROVE NInv'
<1> USE DEF Replied
<1>1. RepliesOK' /\ \A o \in Epochs \ {e} : reply'[o] = reply[o]
  BY OverOnes
<1>2. epoch \in Epochs /\ epoch' = epoch /\ silenced' = silenced /\ phase \in Phases \ {"interrupted"}
  BY DEF NInv, EngineOK
<1>3. FlagsOK'
  BY DEF NInv, FlagsOK
<1>4. phase' \in Phases \ {"interrupted"} /\ PhaseHasExchange'
  <2>1. CASE e = epoch
    <3>1. phase' \in {Dispatch(phase, "ASSISTANT_STARTED"),
                      Dispatch(Dispatch(phase, "ASSISTANT_STARTED"), "ASSISTANT_ENDED")}
      BY <2>1
    <3>2. /\ phase' \in Phases \ {"interrupted"} /\ phase' # "thinking"
          /\ (phase' = "reconnecting" => phase = "reconnecting")
      BY <1>2, <3>1, DispatchTable DEF Phases
    <3>3. mic.closing = 0 => phase # "reconnecting"
      BY <2>1 DEF NInv, PhaseHasExchange, Streaming
    <3> QED BY <3>2, <3>3 DEF PhaseHasExchange
  <2>2. CASE e # epoch
    BY <1>1, <1>2, <2>2 DEF NInv, PhaseHasExchange
  <2> QED BY <2>1, <2>2
<1>5. EngineOK' /\ QueueOK'
  BY <1>4 DEF NInv, EngineOK, QueueOK
<1>6. ListensOK' /\ MicOK'
  BY RestKeeps
<1> QED BY <1>1, <1>3, <1>4, <1>5, <1>6 DEF NInv

LEMMA ReplyFailsKeeps == ASSUME NInv, NEW e \in Epochs, ReplyFails(e) PROVE NInv'
<1>1. epoch \in Epochs /\ epoch' = epoch /\ silenced' = silenced /\ phase \in Phases \ {"interrupted"}
  BY DEF NInv, EngineOK, ReplyFails
<1>2. /\ RepliesOK' /\ phase' \in Phases \ {"interrupted"} /\ PhaseHasExchange'
  <2>1. CASE /\ e = epoch /\ reply[e].attempts < MaxReconnect
             /\ reply' = [reply EXCEPT ![e].pc = "delay", ![e].attempts = @ + 1]
             /\ phase' = Dispatch(phase, "NETWORK_RECONNECTING")
    <3>1. reply \in [Epochs -> Replies] /\ reply[e].attempts + 1 \in 0..MaxReconnect
      BY <2>1, LimitsAreNaturals DEF NInv, RepliesOK, Replies
    <3>2. reply'[e] = [reply[e] EXCEPT !.pc = "delay", !.attempts = @ + 1]
      BY <2>1, <3>1
    <3>3. reply'[e] \in Replies /\ reply'[e].pc = "delay"
      BY <3>1, <3>2 DEF Replies
    <3>4. reply' \in [Epochs -> Replies] /\ \A o \in Epochs \ {e} : reply'[o] = reply[o]
      BY <2>1, <3>1, <3>3
    <3>5. epoch > silenced
      BY <2>1 DEF ReplyFails, Streaming, NInv, RepliesOK
    <3>6. RepliesOK'
      <4>1. \A o \in Epochs : o > epoch => o # e
        BY <1>1, <2>1, EpochsAreNaturals
      <4> QED BY <1>1, <2>1, <3>3, <3>4, <3>5, <4>1 DEF NInv, RepliesOK
    <3>7. phase' \in Phases \ {"interrupted"} /\ phase' # "thinking"
      BY <1>1, <2>1, DispatchTable DEF Phases, Engaged
    <3>8. PhaseHasExchange'
      BY <1>1, <2>1, <3>3, <3>7 DEF PhaseHasExchange
    <3> QED BY <3>6, <3>7, <3>8
  <2>2. CASE e = epoch /\ Over(e) /\ phase' = Dispatch(phase, "ERROR")
    <3>1. RepliesOK'
      BY <1>1, <2>2, OverOnes
    <3>2. phase' \in Phases \ {"interrupted", "thinking", "reconnecting"}
      BY <1>1, <2>2, DispatchTable DEF Phases, Engaged
    <3> QED BY <3>1, <3>2 DEF PhaseHasExchange
  <2>3. CASE e # epoch /\ Over(e) /\ UNCHANGED phase
    <3>1. RepliesOK' /\ \A o \in Epochs \ {e} : reply'[o] = reply[o]
      BY <1>1, <2>3, OverOnes
    <3>2. mic' = mic
      BY DEF ReplyFails
    <3> QED BY <1>1, <2>3, <3>1, <3>2 DEF NInv, PhaseHasExchange
  <2> QED BY <2>1, <2>2, <2>3 DEF ReplyFails
<1>3. EngineOK' /\ QueueOK'
  BY <1>2 DEF NInv, EngineOK, QueueOK, ReplyFails
<1>4. FlagsOK'
  BY DEF NInv, FlagsOK, ReplyFails
<1>5. ListensOK' /\ MicOK'
  BY RestKeeps DEF ReplyFails
<1> QED BY <1>2, <1>3, <1>4, <1>5 DEF NInv

LEMMA RequestThrowsKeeps == ASSUME NInv, NEW e \in Epochs, RequestThrows(e) PROVE NInv'
<1>1. epoch \in Epochs /\ epoch \in Nat /\ reply \in [Epochs -> Replies] /\ reply[e].pc = "stream"
  BY EpochsAreNaturals DEF NInv, EngineOK, RepliesOK, Streaming, RequestThrows
<1>2. /\ reply' \in [Epochs -> Replies] /\ \A o \in Epochs \ {e} : reply'[o] = reply[o]
      /\ reply'[e].pc = IF e = epoch THEN "thrown" ELSE "none"
  <2>1. PICK none \in Replies : none = NoReply /\ none.pc = "none"
    <3>1. NoReply \in Replies /\ NoReply.pc = "none"
      BY LimitsAreNaturals DEF NoReply, Replies
    <3> QED BY <3>1
  <2>2. PICK thrown : thrown = [none EXCEPT !.pc = "thrown"]
    OBVIOUS
  <2>3. thrown \in Replies /\ thrown.pc = "thrown"
    BY <2>2 DEF Replies
  <2>4. reply' = [reply EXCEPT ![e] = IF e = epoch THEN thrown ELSE none]
    BY <2>1, <2>2 DEF RequestThrows
  <2> QED BY <1>1, <2>1, <2>3, <2>4
<1>3. RepliesOK'
  <2>1. \A o \in Epochs : o > epoch => o # epoch
    BY <1>1, EpochsAreNaturals
  <2> QED BY <1>1, <1>2, <2>1 DEF NInv, RepliesOK, RequestThrows
<1>4. EngineOK' /\ QueueOK'
  BY DEF NInv, EngineOK, QueueOK, RequestThrows
<1>5. FlagsOK'
  BY DEF NInv, FlagsOK, RequestThrows
<1>6. ListensOK' /\ MicOK'
  BY RestKeeps DEF RequestThrows
<1>7. PhaseHasExchange'
  <2>1. CASE e = epoch
    BY <1>1, <1>2, <2>1 DEF NInv, PhaseHasExchange, RequestThrows
  <2>2. CASE e # epoch
    BY <1>1, <1>2, <2>2 DEF NInv, PhaseHasExchange, RequestThrows
  <2> QED BY <2>1, <2>2
<1> QED BY <1>3, <1>4, <1>5, <1>6, <1>7 DEF NInv

LEMMA DelayEndsKeeps == ASSUME NInv, NEW e \in Epochs, DelayEnds(e) PROVE NInv'
<1>1. epoch \in Epochs /\ epoch' = epoch /\ silenced' = silenced /\ phase \in Phases \ {"interrupted"}
  BY DEF NInv, EngineOK, DelayEnds
<1>2. RepliesOK' /\ phase' \in Phases \ {"interrupted"} /\ PhaseHasExchange'
  <2>1. CASE /\ e = epoch /\ reply' = [reply EXCEPT ![e].pc = "stream", ![e].audio = FALSE]
             /\ phase' = Dispatch(phase, "REPLY_START")
    <3>1. reply \in [Epochs -> Replies]
      BY DEF NInv, RepliesOK
    <3>2. reply'[e] = [reply[e] EXCEPT !.pc = "stream", !.audio = FALSE]
      BY <2>1, <3>1
    <3>3. reply'[e] \in Replies /\ reply'[e].pc = "stream"
      BY <3>1, <3>2 DEF Replies
    <3>4. reply' \in [Epochs -> Replies] /\ \A o \in Epochs \ {e} : reply'[o] = reply[o]
      BY <2>1, <3>1, <3>3
    <3>5. epoch > silenced
      BY <2>1 DEF DelayEnds, NInv, RepliesOK
    <3>6. RepliesOK'
      <4>1. \A o \in Epochs : o > epoch => o # e
        BY <1>1, <2>1, EpochsAreNaturals
      <4> QED BY <1>1, <2>1, <3>3, <3>4, <3>5, <4>1 DEF NInv, RepliesOK
    <3>7. phase' \in Phases \ {"interrupted", "reconnecting"}
      BY <1>1, <2>1, DispatchTable DEF Phases
    <3> QED BY <1>1, <2>1, <3>3, <3>6, <3>7 DEF PhaseHasExchange
  <2>2. CASE e # epoch /\ Over(e) /\ UNCHANGED phase
    <3>1. RepliesOK' /\ \A o \in Epochs \ {e} : reply'[o] = reply[o]
      BY <1>1, <2>2, OverOnes
    <3>2. mic' = mic
      BY DEF DelayEnds
    <3> QED BY <1>1, <2>2, <3>1, <3>2 DEF NInv, PhaseHasExchange
  <2> QED BY <2>1, <2>2 DEF DelayEnds
<1>3. EngineOK' /\ QueueOK'
  BY <1>2 DEF NInv, EngineOK, QueueOK, DelayEnds
<1>4. FlagsOK'
  BY DEF NInv, FlagsOK, DelayEnds
<1>5. ListensOK' /\ MicOK'
  BY RestKeeps DEF DelayEnds
<1> QED BY <1>2, <1>3, <1>4, <1>5 DEF NInv

-----------------------------------------------------------------------------
\* The callbacks of the playback queue.
LEMMA PlaybackKeeps ==
  ASSUME NInv, HoldsAfter(queue', silenced),
         phase' \in {phase, Dispatch(phase, "ASSISTANT_ENDED")}, audible' = audible \/ audible' = FALSE,
         UNCHANGED <<mode, epoch, silenced, stt, recog, reply, delivered, mic>>
  PROVE  NInv'
<1>1. /\ phase' \in Phases \ {"interrupted"}
      /\ phase' \in {"thinking", "reconnecting"} => phase' = phase
  BY DispatchTable DEF NInv, EngineOK, Phases
<1>2. FlagsOK'
  BY DEF NInv, FlagsOK
<1>3. EngineOK' /\ ListensOK' /\ RepliesOK' /\ MicOK' /\ QueueOK'
  BY <1>1 DEF NInv, EngineOK, ListensOK, RepliesOK, MicOK, QueueOK
<1>4. PhaseHasExchange'
  BY <1>1 DEF NInv, PhaseHasExchange
<1> QED BY <1>2, <1>3, <1>4 DEF NInv

LEMMA SoundKeeps == ASSUME NInv, Sound PROVE NInv'
<1>1. silenced \in Nat /\ HoldsAfter(queue, silenced)
  BY EpochsAreNaturals DEF NInv, EngineOK, QueueOK
<1>2. /\ HoldsAfter(Begins(queue), silenced) /\ HoldsAfter(Ends(queue), silenced)
      /\ HoldsAfter(Refused(queue), silenced)
      /\ queue.late > 0 => HoldsAfter(RejectsLate(queue), silenced)
  BY <1>1, CallbacksHold
<1>3. HoldsAfter(queue', silenced)
  BY <1>2 DEF Sound, ChunkBegins, ChunkEnds, ChunkFails, PlayRefused, LateRejection, Playback
<1>4. /\ phase' \in {phase, Dispatch(phase, "ASSISTANT_ENDED")} /\ (audible' = audible \/ audible' = FALSE)
      /\ UNCHANGED <<mode, epoch, silenced, stt, recog, reply, delivered, mic>>
  BY DEF Sound, ChunkBegins, ChunkEnds, ChunkFails, PlayRefused, LateRejection, Playback
<1> QED BY <1>3, <1>4, PlaybackKeeps

-----------------------------------------------------------------------------
\* The microphone is asked for, granted, released.
LEMMA AskHolds ==
  ASSUME NInv, NEW caller \in {"enable", "retry"}, Ask(caller), epoch' = epoch
  PROVE  MicOK' /\ mic'.closing = mic.closing
<1>1. MicHolds(mic, epoch)
  BY DEF NInv, MicOK
<1>2. CASE mic' = mic
  BY <1>1, <1>2 DEF MicOK
<1>3. CASE /\ mic.open + mic.asking["enable"] + mic.asking["retry"] < MaxStreams
           /\ mic' = [mic EXCEPT !.asking[caller] = @ + 1]
  <2>1. PICK asking : asking = [mic.asking EXCEPT ![caller] = @ + 1]
    OBVIOUS
  <2>2. mic' = [mic EXCEPT !.asking = asking]
    BY <1>3, <2>1
  <2>3. /\ mic \in Mics /\ mic.asking \in [{"enable", "retry"} -> 0..MaxStreams] /\ mic.open \in 0..MaxStreams
    BY <1>1 DEF MicHolds, Mics
  <2>4. /\ asking \in [{"enable", "retry"} -> 0..MaxStreams]
        /\ mic.open + asking["enable"] + asking["retry"] <= MaxStreams
    BY <1>3, <2>1, <2>3, LimitsAreNaturals
  <2>5. /\ mic' \in Mics /\ mic'.asking = asking /\ mic'.open = mic.open
        /\ mic'.held = mic.held /\ mic'.closing = mic.closing
    BY <2>2, <2>3, <2>4 DEF Mics
  <2> QED BY <1>1, <2>4, <2>5 DEF MicOK, MicHolds
<1> QED BY <1>2, <1>3 DEF Ask

LEMMA EnableKeeps == ASSUME NInv, Enable PROVE NInv'
<1>1. MicOK' /\ mic'.closing = mic.closing
  <2>1. CASE Ask("enable")
    BY <2>1, AskHolds DEF Enable
  <2>2. CASE UNCHANGED mic
    BY <2>2 DEF Enable, NInv, MicOK
  <2> QED BY <2>1, <2>2 DEF Enable
<1>2. phase' = "listening" /\ mode' \in {"natural", "push_to_talk"}
  BY DispatchTable DEF Enable
<1>3. EngineOK' /\ ListensOK' /\ RepliesOK' /\ QueueOK'
  BY <1>2 DEF Enable, NInv, EngineOK, ListensOK, RepliesOK, QueueOK, Phases
<1>4. FlagsOK'
  BY DEF Enable, NInv, FlagsOK
<1>5. PhaseHasExchange'
  BY <1>2 DEF PhaseHasExchange
<1> QED BY <1>1, <1>3, <1>4, <1>5 DEF NInv

LEMMA RetryKeeps == ASSUME NInv, Retry PROVE NInv'
<1>1. MicOK' /\ mic'.closing = mic.closing
  <2>1. CASE Ask("retry")
    BY <2>1, AskHolds DEF Retry
  <2>2. CASE UNCHANGED mic
    BY <2>2 DEF Retry, NInv, MicOK
  <2> QED BY <2>1, <2>2 DEF Retry
<1>2. phase' = "listening"
  BY DispatchTable DEF Retry
<1>3. EngineOK' /\ ListensOK' /\ RepliesOK' /\ QueueOK'
  BY <1>2 DEF Retry, NInv, EngineOK, ListensOK, RepliesOK, QueueOK, Phases
<1>4. FlagsOK'
  BY DEF Retry, NInv, FlagsOK
<1>5. PhaseHasExchange'
  BY <1>2 DEF PhaseHasExchange
<1> QED BY <1>1, <1>3, <1>4, <1>5 DEF NInv

\* One caller is answered, well or not.
LEMMA AnsweredHolds ==
  ASSUME NInv, NEW caller \in {"enable", "retry"}, mic.asking[caller] > 0,
         NEW m, m = [mic EXCEPT !.asking[caller] = @ - 1]
  PROVE  /\ MicHolds(m, epoch) /\ m.closing = mic.closing /\ m.open = mic.open
         /\ m.open + m.asking["enable"] + m.asking["retry"] < MaxStreams
<1>1. MicHolds(mic, epoch)
  BY DEF NInv, MicOK
<1>2. PICK asking : asking = [mic.asking EXCEPT ![caller] = @ - 1]
  OBVIOUS
<1>3. m = [mic EXCEPT !.asking = asking]
  BY <1>2
<1>4. mic \in Mics /\ mic.asking \in [{"enable", "retry"} -> 0..MaxStreams] /\ mic.open \in 0..MaxStreams
  BY <1>1 DEF MicHolds, Mics
<1>5. /\ asking \in [{"enable", "retry"} -> 0..MaxStreams]
      /\ mic.open + asking["enable"] + asking["retry"] < MaxStreams
  BY <1>1, <1>2, <1>4, LimitsAreNaturals DEF MicHolds
<1>6. /\ m \in Mics /\ m.asking = asking /\ m.open = mic.open /\ m.held = mic.held /\ m.closing = mic.closing
  BY <1>3, <1>4, <1>5 DEF Mics
<1>7. m.open + m.asking["enable"] + m.asking["retry"] <= MaxStreams
  BY <1>4, <1>5, <1>6, LimitsAreNaturals
<1> QED BY <1>1, <1>5, <1>6, <1>7 DEF MicHolds

LEMMA GrantedKeeps == ASSUME NInv, NEW caller \in {"enable", "retry"}, Granted(caller) PROVE NInv'
<1>1. PICK m : m = [mic EXCEPT !.asking[caller] = @ - 1]
  OBVIOUS
<1>2. /\ MicHolds(m, epoch) /\ m.closing = mic.closing /\ m.open = mic.open
      /\ m.open + m.asking["enable"] + m.asking["retry"] < MaxStreams
  BY <1>1, AnsweredHolds DEF Granted
<1>3. PICK open : open = mic.open + 1
  OBVIOUS
<1>4. mic' = [m EXCEPT !.open = open, !.held = TRUE, !.pumping = TRUE, !.speech = FALSE]
  BY <1>1, <1>3 DEF Granted
<1>5. m \in Mics /\ m.open \in 0..MaxStreams /\ m.asking \in [{"enable", "retry"} -> 0..MaxStreams]
  BY <1>2 DEF MicHolds, Mics
<1>6. open \in 0..MaxStreams /\ open > 0 /\ open + m.asking["enable"] + m.asking["retry"] <= MaxStreams
  BY <1>2, <1>3, <1>5, LimitsAreNaturals
<1>7. mic' \in Mics /\ mic'.open = open /\ mic'.asking = m.asking /\ mic'.closing = m.closing
  BY <1>4, <1>5, <1>6 DEF Mics
<1>8. MicOK'
  BY <1>2, <1>6, <1>7 DEF MicOK, MicHolds, Granted
<1>9. EngineOK' /\ ListensOK' /\ RepliesOK' /\ QueueOK'
  BY DEF Granted, NInv, EngineOK, ListensOK, RepliesOK, QueueOK
<1>10. FlagsOK'
  BY DEF Granted, NInv, FlagsOK
<1>11. PhaseHasExchange'
  BY <1>2, <1>7 DEF Granted, NInv, PhaseHasExchange
<1> QED BY <1>8, <1>9, <1>10, <1>11 DEF NInv

\* The tracks of the stream that is held are stopped.
LEMMA ReleasedHolds ==
  ASSUME NEW n \in Nat, NEW m, MicHolds(m, n)
  PROVE  MicHolds(Released(m), n) /\ Released(m).closing = m.closing
<1>1. PICK open : open = IF m.held THEN m.open - 1 ELSE m.open
  OBVIOUS
<1>2. m \in Mics /\ m.open \in 0..MaxStreams /\ m.asking \in [{"enable", "retry"} -> 0..MaxStreams]
  BY DEF MicHolds, Mics
<1>3. open \in 0..MaxStreams /\ open + m.asking["enable"] + m.asking["retry"] <= MaxStreams
  BY <1>1, <1>2, LimitsAreNaturals DEF MicHolds
<1>4. PICK r : r = [m EXCEPT !.open = open, !.held = FALSE, !.pumping = FALSE, !.speech = FALSE]
  OBVIOUS
<1>5. r \in Mics /\ r.open = open /\ r.asking = m.asking /\ r.held = FALSE /\ r.closing = m.closing
  BY <1>2, <1>3, <1>4 DEF Mics
<1>6. Released(m) = r
  BY <1>1, <1>4 DEF Released
<1> QED BY <1>3, <1>5, <1>6 DEF MicHolds

\* disable(), with the microphone as its caller has left it.
LEMMA DisableKeeps ==
  ASSUME NInv, NEW m, MicHolds(m, epoch), DisableWith(m)
  PROVE  NInv'
<1>1. /\ FlagsOK' /\ RepliesOK' /\ QueueOK'
      /\ epoch \in Nat /\ epoch' = epoch + 1 /\ epoch' \in Epochs /\ silenced' \in 0..epoch'
  BY SilencedKeeps DEF DisableWith
<1>2. m \in Mics /\ m.closing \in 0..MaxEpoch /\ m.closing <= epoch /\ epoch' <= MaxEpoch
  BY <1>1 DEF MicHolds, Mics, Epochs
<1>3. MicOK' /\ phase' \in Phases \ {"interrupted"} /\ PhaseHasExchange'
  <2>1. CASE mic' = [m EXCEPT !.pumping = FALSE, !.closing = @ + 1] /\ UNCHANGED phase
    <3>1. PICK closing : closing = m.closing + 1
      OBVIOUS
    <3>2. closing \in 0..MaxEpoch /\ closing <= epoch' /\ closing # 0
      BY <1>1, <1>2, <3>1, LimitsAreNaturals
    <3>3. mic' = [m EXCEPT !.pumping = FALSE, !.closing = closing]
      BY <2>1, <3>1
    <3>4. /\ mic' \in Mics /\ mic'.open = m.open /\ mic'.asking = m.asking /\ mic'.held = m.held
          /\ mic'.closing = closing
      BY <1>2, <3>2, <3>3 DEF Mics
    <3>5. MicOK'
      BY <3>2, <3>4 DEF MicOK, MicHolds
    <3> QED BY <2>1, <3>2, <3>4, <3>5 DEF NInv, EngineOK, PhaseHasExchange
  <2>2. CASE mic' = Released(m) /\ phase' = "idle"
    <3>1. MicHolds(m, epoch')
      <4>1. m.closing <= epoch'
        BY <1>1, <1>2
      <4> QED BY <4>1 DEF MicHolds
    <3>2. MicHolds(Released(m), epoch')
      BY <1>1, <3>1, ReleasedHolds
    <3> QED BY <2>2, <3>2 DEF MicOK, PhaseHasExchange, Phases
  <2> QED BY <2>1, <2>2 DEF DisableWith
<1>4. EngineOK' /\ ListensOK'
  BY <1>1, <1>3 DEF DisableWith, NInv, EngineOK, ListensOK
<1> QED BY <1>1, <1>3, <1>4 DEF NInv

LEMMA RefuseKeeps == ASSUME NInv, NEW caller \in {"enable", "retry"}, Refuse(caller) PROVE NInv'
<1>1. PICK m : m = [mic EXCEPT !.asking[caller] = @ - 1]
  OBVIOUS
<1>2. MicHolds(m, epoch) /\ m.closing = mic.closing
  BY <1>1, AnsweredHolds DEF Refuse
<1>3. CASE DisableWith(m)
  BY <1>2, <1>3, DisableKeeps
<1>4. CASE mic' = m /\ UNCHANGED <<phase, mode, epoch, silenced, stt, recog, reply, delivered, audible, queue>>
  <2>1. MicOK' /\ PhaseHasExchange'
    BY <1>2, <1>4 DEF MicOK, NInv, PhaseHasExchange
  <2>2. EngineOK' /\ ListensOK' /\ RepliesOK' /\ QueueOK'
    BY <1>4 DEF NInv, EngineOK, ListensOK, RepliesOK, QueueOK
  <2>3. FlagsOK'
    BY <1>4 DEF NInv, FlagsOK
  <2> QED BY <2>1, <2>2, <2>3 DEF NInv
<1> QED BY <1>1, <1>3, <1>4 DEF Refuse

LEMMA ClosedKeeps == ASSUME NInv, Closed PROVE NInv'
<1>1. MicHolds(mic, epoch) /\ epoch \in Nat
  BY EpochsAreNaturals DEF NInv, MicOK, EngineOK
<1>2. PICK closing : closing = mic.closing - 1
  OBVIOUS
<1>3. PICK m : m = [mic EXCEPT !.closing = closing]
  OBVIOUS
<1>4. MicHolds(m, epoch)
  <2>1. mic \in Mics /\ mic.closing \in 0..MaxEpoch /\ mic.closing <= epoch /\ mic.closing > 0
    BY <1>1 DEF MicHolds, Mics, Closed
  <2>2. closing \in 0..MaxEpoch /\ closing <= epoch
    BY <1>1, <1>2, <2>1, LimitsAreNaturals
  <2>3. m \in Mics /\ m.open = mic.open /\ m.asking = mic.asking /\ m.held = mic.held /\ m.closing = closing
    BY <1>3, <2>1, <2>2 DEF Mics
  <2> QED BY <1>1, <2>2, <2>3 DEF MicHolds
<1>5. MicOK'
  <2>1. mic' = Released(m)
    BY <1>2, <1>3 DEF Closed
  <2> QED BY <1>1, <1>4, <2>1, ReleasedHolds DEF MicOK, Closed
<1>6. EngineOK' /\ ListensOK' /\ RepliesOK' /\ QueueOK' /\ PhaseHasExchange'
  BY DEF Closed, NInv, EngineOK, ListensOK, RepliesOK, QueueOK, PhaseHasExchange, Phases
<1>7. FlagsOK'
  BY DEF Closed, NInv, FlagsOK
<1> QED BY <1>5, <1>6, <1>7 DEF NInv

-----------------------------------------------------------------------------
\* Every action keeps the invariant.
LEMMA StepKeeps == ASSUME NInv, [Next]_vars PROVE NInv'
<1>1. CASE User
  <2>1. CASE Disable
    BY <2>1, DisableKeeps DEF Disable, NInv, MicOK
  <2> QED BY <1>1, <2>1, EnableKeeps, RetryKeeps, PressInterruptKeeps, ConfirmKeeps DEF User
<1>2. CASE Voice
  BY <1>2, SpeechStartKeeps, SpeechEndKeeps, RecognizedKeeps, NotRecognizedKeeps DEF Voice
<1>3. CASE \E e \in Epochs : Stream(e)
  BY <1>3, AudioKeeps, RepliedKeeps, ReplyFailsKeeps, RequestThrowsKeeps, DelayEndsKeeps DEF Stream
<1>4. CASE Sound
  BY <1>4, SoundKeeps
<1>5. CASE Microphone
  BY <1>5, ClosedKeeps, GrantedKeeps, RefuseKeeps DEF Microphone
<1>6. CASE UNCHANGED vars
  <2>1. EngineOK' /\ ListensOK' /\ RepliesOK' /\ MicOK' /\ QueueOK' /\ PhaseHasExchange'
    BY <1>6 DEF vars, NInv, EngineOK, ListensOK, RepliesOK, MicOK, QueueOK, PhaseHasExchange
  <2>2. FlagsOK'
    BY <1>6 DEF vars, NInv, FlagsOK
  <2> QED BY <2>1, <2>2 DEF NInv
<1> QED BY <1>1, <1>2, <1>3, <1>4, <1>5, <1>6 DEF Next

\* The invariant holds of the natural conversation.
THEOREM Invariance == Spec => []NInv
<1>1. Init => NInv
  BY Starts
<1>2. NInv /\ [Next]_vars => NInv'
  BY StepKeeps
<1> QED BY <1>1, <1>2, PTL DEF Spec

\* Nothing of an earlier exchange sounds after an interrupt or a stop, and what the machine
\* waits for is at work, with any number of exchanges, streams and chunks in the queue
\* (naturalConversationCore.ts:150-420, ttsPlaybackQueue.ts:10).
THEOREM ExchangesStayApart == Spec => []ExchangesAreApart
BY Invariance, Implied, PTL

-----------------------------------------------------------------------------
\* A step in which no exchange but the present one ends, and none but its utterances are
\* transcribed, is nobody's who was cancelled.
Minds(e) == reply[e].pc \in {"none", reply'[e].pc} /\ ~(recog'[e] < recog[e])
Acted == UNCHANGED <<delivered, queue, phase, epoch, audible>>
Obeys == (\E e \in Epochs : CancelledStep(e)) => Acted

LEMMA NobodyCancelled == ASSUME \A e \in Epochs : e # epoch => Minds(e) PROVE Obeys
BY DEF Minds, Obeys, CancelledStep

LEMMA SameCounts == ASSUME NInv, recog' = recog PROVE \A e \in Epochs : ~(recog'[e] < recog[e])
<1>1. \A e \in Epochs : recog[e] \in Nat
  BY LimitsAreNaturals DEF NInv, ListensOK
<1> QED BY <1>1

\* Superseding leaves every exchange but the one that has thrown where it was.
LEMMA SupersedingMinds ==
  ASSUME NInv, Supersede, \A e \in Epochs : e # epoch => ~(recog'[e] < recog[e]),
         reply' = Superseded \/ reply' = [Superseded EXCEPT ![epoch'].pc = "stream"]
  PROVE  Obeys
<1>1. /\ epoch' = epoch + 1 /\ epoch \in Nat /\ epoch' \in Epochs
      /\ Superseded \in [Epochs -> Replies]
      /\ \A e \in Epochs : Superseded[e].pc = (IF reply[e].pc = "thrown" THEN "none" ELSE reply[e].pc)
  BY SupersededOnes
<1>2. ASSUME NEW e \in Epochs, e # epoch PROVE Minds(e)
  <2>1. reply[e].pc # "thrown" /\ (e = epoch' => reply[e].pc = "none")
    BY <1>1, <1>2 DEF NInv, RepliesOK
  <2>2. e # epoch' => reply'[e] = Superseded[e]
    BY <1>1
  <2>3. reply[e].pc \in {"none", reply'[e].pc}
    BY <1>1, <2>1, <2>2
  <2> QED BY <1>2, <2>3 DEF Minds
<1> QED BY <1>2, NobodyCancelled

LEMMA BegunObeys == ASSUME NInv, BeginReply, \A e \in Epochs : e # epoch => ~(recog'[e] < recog[e]) PROVE Obeys
BY SupersedingMinds DEF BeginReply

LEMMA SilencedObeys == ASSUME NInv, Silence, recog' = recog PROVE Obeys
BY SupersedingMinds, SameCounts DEF Silence

\* A transcript of another epoch is dropped.
LEMMA TranscribeMinds ==
  ASSUME NInv, NEW e \in Epochs, Transcribe(e)
  PROVE  \A o \in Epochs \ {e} : ~(recog'[o] < recog[o])
<1>1. \A o \in Epochs : recog[o] \in Nat
  BY LimitsAreNaturals DEF NInv, ListensOK
<1>2. \A o \in Epochs \ {e} : recog'[o] = recog[o]
  BY DEF NInv, ListensOK, Transcribe
<1> QED BY <1>1, <1>2

LEMMA NotRecognizedObeys == ASSUME NInv, NEW e \in Epochs, NotRecognized(e) PROVE Obeys
<1>1. CASE e = epoch
  <2>1. \A o \in Epochs : o # epoch => Minds(o)
    BY <1>1, TranscribeMinds DEF NotRecognized, Minds
  <2> QED BY <2>1, NobodyCancelled
<1>2. CASE e # epoch
  BY <1>2 DEF NotRecognized, Obeys, Acted
<1> QED BY <1>1, <1>2

LEMMA SpeechEndObeys == ASSUME NInv, SpeechEnd PROVE Obeys
<1>1. \A e \in Epochs : recog[e] \in Nat /\ (e # epoch => recog'[e] = recog[e])
  BY LimitsAreNaturals DEF NInv, EngineOK, ListensOK, SpeechEnd
<1>2. \A e \in Epochs : e # epoch => Minds(e)
  BY <1>1 DEF SpeechEnd, Minds
<1> QED BY <1>2, NobodyCancelled

\* What a stream does to its own exchange: the present one may act, another one has no effect.
LEMMA StreamObeys == ASSUME NInv, NEW e \in Epochs, Stream(e) PROVE Obeys
<1>1. recog' = recog
  BY DEF Stream, Audio, Replied, ReplyFails, RequestThrows, DelayEnds
<1>2. \A o \in Epochs \ {e} : reply'[o] = reply[o]
  <2>1. reply \in [Epochs -> Replies]
    BY DEF NInv, RepliesOK
  <2>2. CASE Audio(e)
    BY <2>1, <2>2 DEF Audio
  <2>3. CASE Replied(e)
    BY <2>1, <2>3 DEF Replied, Over
  <2>4. CASE ReplyFails(e)
    BY <2>1, <2>4 DEF ReplyFails, Over
  <2>5. CASE RequestThrows(e)
    BY <2>1, <2>5 DEF RequestThrows
  <2>6. CASE DelayEnds(e)
    BY <2>1, <2>6 DEF DelayEnds, Over
  <2> QED BY <2>2, <2>3, <2>4, <2>5, <2>6 DEF Stream
<1>3. CASE e = epoch
  <2>1. \A o \in Epochs : o # epoch => Minds(o)
    BY <1>1, <1>2, <1>3, SameCounts DEF Minds
  <2> QED BY <2>1, NobodyCancelled
<1>4. CASE e # epoch
  <2>1. Acted
    BY <1>4 DEF Acted, Stream, Audio, Replied, ReplyFails, RequestThrows, DelayEnds
  <2> QED BY <2>1 DEF Obeys
<1> QED BY <1>3, <1>4

LEMMA StepObeys == ASSUME NInv, [Next]_vars PROVE [Obeys]_<<reply, recog>>
<1>1. CASE User
  <2>1. CASE Confirm
    BY <2>1, SameCounts, BegunObeys DEF Confirm
  <2>2. CASE PressInterrupt
    BY <2>2, SilencedObeys DEF PressInterrupt, Interrupt
  <2>3. CASE Disable
    BY <2>3, SilencedObeys DEF Disable, DisableWith
  <2>4. CASE Enable \/ Retry
    BY <2>4 DEF Enable, Retry
  <2> QED BY <1>1, <2>1, <2>2, <2>3, <2>4 DEF User
<1>2. CASE Voice
  <2>1. CASE SpeechStart
    <3>1. CASE Interrupt
      BY <3>1, SilencedObeys DEF Interrupt
    <3>2. CASE UNCHANGED <<reply, recog>>
      BY <3>2
    <3> QED BY <2>1, <3>1, <3>2 DEF SpeechStart
  <2>2. CASE SpeechEnd
    BY <2>2, SpeechEndObeys
  <2>3. ASSUME NEW e \in Epochs, Recognized(e) PROVE Obeys
    <3>1. \A o \in Epochs : o # epoch => ~(recog'[o] < recog[o])
      BY <2>3, TranscribeMinds DEF Recognized
    <3> QED BY <2>3, <3>1, BegunObeys DEF Recognized
  <2>4. ASSUME NEW e \in Epochs, NotRecognized(e) PROVE Obeys
    BY <2>4, NotRecognizedObeys
  <2> QED BY <1>2, <2>1, <2>2, <2>3, <2>4 DEF Voice
<1>3. CASE \E e \in Epochs : Stream(e)
  BY <1>3, StreamObeys
<1>4. CASE Sound
  BY <1>4 DEF Sound, ChunkBegins, ChunkEnds, ChunkFails, PlayRefused, LateRejection, Playback
<1>5. CASE Microphone
  <2>1. CASE Closed
    BY <2>1 DEF Closed
  <2>2. ASSUME NEW c \in {"enable", "retry"}, Granted(c) PROVE UNCHANGED <<reply, recog>>
    BY <2>2 DEF Granted
  <2>3. ASSUME NEW c \in {"enable", "retry"}, Refuse(c) PROVE Obeys \/ UNCHANGED <<reply, recog>>
    <3>1. PICK m : DisableWith(m) \/ UNCHANGED <<reply, recog>>
      BY <2>3 DEF Refuse
    <3> QED BY <3>1, SilencedObeys DEF DisableWith
  <2> QED BY <1>5, <2>1, <2>2, <2>3 DEF Microphone
<1>6. CASE UNCHANGED vars
  BY <1>6 DEF vars
<1> QED BY <1>1, <1>2, <1>3, <1>4, <1>5, <1>6 DEF Next

\* "A cancelled task can never (a) write a message, (b) auto-play audio, (c) advance the machine,
\* or (d) clobber a newer turn" (naturalConversationCore.ts:21).
THEOREM CancelledStaysOut == Spec => CancelledNeverActs
<1>1. NInv /\ [Next]_vars => [(\E e \in Epochs : CancelledStep(e))
                                 => UNCHANGED <<delivered, queue, phase, epoch, audible>>]_<<reply, recog>>
  BY StepObeys DEF Obeys, Acted
<1>2. Spec => []NInv
  BY Invariance
<1> QED BY <1>1, <1>2, PTL DEF Spec, CancelledNeverActs

=============================================================================
