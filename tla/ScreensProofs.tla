----------------------------- MODULE ScreensProofs -----------------------------
(***************************************************************************)
(* Proofs about the management screens: for each, the invariant that       *)
(* relates what it shows to the requests under way, and the property that  *)
(* follows from it.                                                        *)
(***************************************************************************)
EXTENDS Screens, FiniteSetTheorems, SequenceTheorems, TLAPS

-----------------------------------------------------------------------------
\* Lists: the places that are kept of one are ranked without a gap, so each of them has its item, and
\* no other is kept.

\* A set of places is finite.
LEMMA PlacesFinite ==
  ASSUME NEW n \in Nat, NEW I \in SUBSET (1..n)
  PROVE  IsFiniteSet(I) /\ Cardinality(I) \in Nat
<1>1. IsFiniteSet(1..n)
  BY FS_Interval
<1>2. IsFiniteSet(I)
  BY <1>1, FS_Subset
<1> QED BY <1>2, FS_CardinalityType

\* A later place has a higher rank.
LEMMA RankGrows ==
  ASSUME NEW n \in Nat, NEW I \in SUBSET (1..n), NEW i \in I, NEW j \in I, i < j
  PROVE  Rank(I, i) # Rank(I, j)
<1> DEFINE S == {k \in I : k <= i}
           T == {k \in I : k <= j}
<1>1. i \in Nat /\ j \in Nat /\ \A k \in I : k \in Nat
  OBVIOUS
<1>2. T \in SUBSET I
  OBVIOUS
<1>3. S \in SUBSET T
  <2>1. \A k \in I : k <= i => k <= j
    BY <1>1
  <2> QED BY <2>1
<1>4. j \in T /\ j \notin S
  BY <1>1
<1>5. IsFiniteSet(T)
  BY <1>2, PlacesFinite, FS_Subset
<1>6. Cardinality(S) # Cardinality(T)
  <2> HIDE DEF S, T
  <2> QED BY <1>3, <1>4, <1>5, FS_Subset
<1> QED BY <1>6 DEF Rank

\* The rank of a place is at most the number of places.
LEMMA RankRange ==
  ASSUME NEW n \in Nat, NEW I \in SUBSET (1..n), NEW i \in I
  PROVE  Rank(I, i) \in 1..Cardinality(I)
<1> DEFINE S == {k \in I : k <= i}
<1>1. IsFiniteSet(I) /\ Cardinality(I) \in Nat
  BY PlacesFinite
<1>2. S \in SUBSET I /\ i \in S
  OBVIOUS
<1>3. IsFiniteSet(S) /\ Cardinality(S) <= Cardinality(I)
  <2> HIDE DEF S
  <2> QED BY <1>1, <1>2, FS_Subset
<1>4. Cardinality(S) \in Nat /\ Cardinality(S) # 0
  <2> HIDE DEF S
  <2> QED BY <1>2, <1>3, FS_EmptySet, FS_CardinalityType
<1>5. Cardinality(S) \in 1..Cardinality(I)
  <2> HIDE DEF S
  <2> QED BY <1>1, <1>3, <1>4
<1> QED BY <1>5 DEF Rank

\* Every rank is that of a place.
LEMMA NthExists ==
  ASSUME NEW n \in Nat, NEW I \in SUBSET (1..n), NEW k \in 1..Cardinality(I)
  PROVE  Nth(I, k) \in I /\ Rank(I, Nth(I, k)) = k
<1> DEFINE N == 1..Cardinality(I)
           f == [i \in I |-> Rank(I, i)]
<1>1. IsFiniteSet(I) /\ Cardinality(I) \in Nat
  BY PlacesFinite
<1>2. IsFiniteSet(N) /\ Cardinality(N) = Cardinality(I)
  BY <1>1, FS_Interval
<1>3. f \in [I -> N]
  BY RankRange
<1>4. \A i, j \in I : i # j => f[i] # f[j]
  <2> SUFFICES ASSUME NEW i \in I, NEW j \in I, i # j PROVE Rank(I, i) # Rank(I, j)
    OBVIOUS
  <2>1. i < j \/ j < i
    OBVIOUS
  <2> QED BY <2>1, RankGrows
<1>5. f \in Injection(I, N)
  <2> HIDE DEF f, N
  <2> QED BY <1>3, <1>4 DEF Injection, IsInjective
<1>6. f \in Surjection(I, N)
  <2> HIDE DEF f, N
  <2> QED BY <1>2, <1>5, FS_Injection
<1>7. \E i \in I : f[i] = k
  <2> HIDE DEF f
  <2> QED BY <1>6 DEF Surjection
<1>8. \E i \in I : Rank(I, i) = k
  BY <1>7
<1> QED BY <1>8 DEF Nth

\* What Select keeps of a list: the items at the places, and nothing else.
THEOREM SelectKeeps ==
  ASSUME NEW n \in Nat, NEW I \in SUBSET (1..n), NEW list
  PROVE  /\ ToSet(Select(list, I)) = {list[i] : i \in I}
         /\ Cardinality(I) \in Nat
         /\ DOMAIN Select(list, I) = 1..Cardinality(I)
<1>1. Cardinality(I) \in Nat
  BY PlacesFinite
<1>2. \A k \in 1..Cardinality(I) : Nth(I, k) \in I
  BY NthExists
<1>3. \A i \in I : \E k \in 1..Cardinality(I) : Nth(I, k) = i
  <2> SUFFICES ASSUME NEW i \in I PROVE Rank(I, i) \in 1..Cardinality(I) /\ Nth(I, Rank(I, i)) = i
    OBVIOUS
  <2>1. Rank(I, i) \in 1..Cardinality(I)
    BY RankRange
  <2>2. PICK j : j = Nth(I, Rank(I, i))
    OBVIOUS
  <2>3. j \in I /\ Rank(I, j) = Rank(I, i)
    BY <2>1, <2>2, NthExists
  <2>4. ~(i < j) /\ ~(j < i)
    BY <2>3, RankGrows
  <2> QED BY <2>1, <2>2, <2>3, <2>4
<1>4. ToSet(Select(list, I)) = {list[Nth(I, k)] : k \in 1..Cardinality(I)}
  BY DEF Select, ToSet
<1> QED BY <1>1, <1>2, <1>3, <1>4 DEF Select

\* ... in particular what it keeps of a sequence.
LEMMA SelectIsSeq ==
  ASSUME NEW S, NEW list \in Seq(S), NEW I \in SUBSET DOMAIN list
  PROVE  /\ Select(list, I) \in Seq(S)
         /\ ToSet(Select(list, I)) = {list[i] : i \in I}
<1>1. Len(list) \in Nat /\ DOMAIN list = 1..Len(list) /\ \A i \in DOMAIN list : list[i] \in S
  OBVIOUS
<1>2. I \in SUBSET (1..Len(list))
  BY <1>1
<1>3. /\ ToSet(Select(list, I)) = {list[i] : i \in I}
      /\ Cardinality(I) \in Nat
  BY <1>1, <1>2, SelectKeeps
<1>4. \A k \in 1..Cardinality(I) : list[Nth(I, k)] \in S
  BY <1>1, <1>2, NthExists
<1>5. [k \in 1..Cardinality(I) |-> list[Nth(I, k)]] \in Seq(S)
  BY <1>3, <1>4
<1> QED BY <1>3, <1>5 DEF Select

\* The items of two lists one after the other.
LEMMA ConcatItems ==
  ASSUME NEW S, NEW s \in Seq(S), NEW t \in Seq(S)
  PROVE  s \o t \in Seq(S) /\ ToSet(s \o t) = ToSet(s) \cup ToSet(t)
<1>1. s \o t \in Seq(S) /\ Len(s \o t) = Len(s) + Len(t)
  OBVIOUS
<1>2. ToSet(s \o t) \subseteq ToSet(s) \cup ToSet(t)
  BY <1>1 DEF ToSet
<1>3. ToSet(s) \subseteq ToSet(s \o t)
  BY <1>1 DEF ToSet
<1>4. ToSet(t) \subseteq ToSet(s \o t)
  <2> SUFFICES ASSUME NEW n \in 1..Len(t) PROVE \E m \in 1..Len(s \o t) : (s \o t)[m] = t[n]
    <3>1. DOMAIN (s \o t) = 1..Len(s \o t) /\ DOMAIN t = 1..Len(t)
      BY <1>1
    <3> QED BY <3>1 DEF ToSet
  <2>1. Len(s) \in Nat /\ Len(t) \in Nat
    OBVIOUS
  <2>2. PICK m : m = Len(s) + n
    OBVIOUS
  <2>3. m \in 1..(Len(s) + Len(t)) /\ m > Len(s) /\ m - Len(s) = n
    BY <2>1, <2>2
  <2>4. (s \o t)[m] = t[m - Len(s)]
    BY <2>1, <2>3
  <2> QED BY <1>1, <2>3, <2>4
<1> QED BY <1>1, <1>2, <1>3, <1>4

\* Lists, whatever their items.
IsList(s) == s \in Seq(ToSet(s))

\* A sequence is a list, of a length.
LEMMA SeqIsList ==
  ASSUME NEW S, NEW s \in Seq(S)
  PROVE  IsList(s) /\ ToSet(s) \subseteq S
<1>1. Len(s) \in Nat /\ s \in [1..Len(s) -> S]
  OBVIOUS
<1>2. s \in [1..Len(s) -> ToSet(s)]
  BY <1>1 DEF ToSet
<1> QED BY <1>1, <1>2 DEF IsList, ToSet

\* What a condition keeps of a list is a list, of some of its items.
LEMMA KeptOfList ==
  ASSUME NEW s, IsList(s), NEW I \in SUBSET DOMAIN s
  PROVE  IsList(Select(s, I)) /\ ToSet(Select(s, I)) = {s[i] : i \in I} /\ ToSet(Select(s, I)) \subseteq ToSet(s)
<1>1. Select(s, I) \in Seq(ToSet(s)) /\ ToSet(Select(s, I)) = {s[i] : i \in I}
  BY SelectIsSeq DEF IsList
<1> QED BY <1>1, SeqIsList

\* Two lists, one after the other.
LEMMA JoinedLists ==
  ASSUME NEW s, NEW t, IsList(s), IsList(t)
  PROVE  IsList(s \o t) /\ ToSet(s \o t) = ToSet(s) \cup ToSet(t)
<1> DEFINE S == ToSet(s) \cup ToSet(t)
<1>1. s \in Seq(S) /\ t \in Seq(S)
  <2>1. ToSet(s) \subseteq S /\ ToSet(t) \subseteq S
    OBVIOUS
  <2>2. Seq(ToSet(s)) \subseteq Seq(S) /\ Seq(ToSet(t)) \subseteq Seq(S)
    <3> HIDE DEF S
    <3> QED BY <2>1
  <2> QED BY <2>2 DEF IsList
<1>2. s \o t \in Seq(S) /\ ToSet(s \o t) = ToSet(s) \cup ToSet(t)
  <2> HIDE DEF S
  <2> QED BY <1>1, ConcatItems
<1> QED BY <1>2, SeqIsList

\* A list written out by the places of its items.
LEMMA WrittenList ==
  ASSUME NEW n \in Nat, NEW s, DOMAIN s = 1..n, s = [i \in DOMAIN s |-> s[i]]
  PROVE  IsList(s)
<1>1. s \in [1..n -> ToSet(s)]
  BY DEF ToSet
<1> QED BY <1>1 DEF IsList

-----------------------------------------------------------------------------
\* Requests.
WellFormed(c) == c = [op |-> c.op, arg |-> c.arg, ans |-> c.ans, n |-> c.n]
WithAnswer(c, ans) == [op |-> c.op, arg |-> c.arg, ans |-> ans, n |-> c.n]
Sent(op, arg, n) == [op |-> op, arg |-> arg, ans |-> Unanswered, n |-> n]

\* The answer is all that changes of a request that is answered.
LEMMA AnsweredForm ==
  ASSUME NEW c, WellFormed(c), NEW ans
  PROVE  [c EXCEPT !.ans = ans] = WithAnswer(c, ans)
BY DEF WellFormed, WithAnswer

\* A request that is sent has a number and no answer.
LEMMA SentForm ==
  ASSUME NEW op, NEW arg, NEW n
  PROVE  {[c EXCEPT !.n = n] : c \in {[op |-> op, arg |-> arg, ans |-> Unanswered, n |-> 0]}} = {Sent(op, arg, n)}
BY DEF Sent

-----------------------------------------------------------------------------
\* Settings: while the sidecar does not run with what is stored, a change that asks for its restart,
\* or the restart, is under way.
InEffect == running = [settings |-> stored, secrets |-> keychain]
TakesEffect(c) == \/ c.op \in {"save", "reset"} /\ c.ans.done
                  \/ c.op = "restart" /\ ~c.ans.done
SettingsInv ==
  /\ faults \in Nat /\ \A c \in calls : WellFormed(c)
  /\ faults = 0 => /\ \A c \in calls : c.ans.done => c.ans.ok
                   /\ InEffect \/ \E c \in calls : TakesEffect(c)

\* A button only adds requests.
LEMMA SettingsPress ==
  ASSUME SettingsInv, NEW op, NEW arg, Settings!Press({Settings!Call(op, arg)}), UNCHANGED <<stored, keychain, running>>
  PROVE  SettingsInv'
<1>1. /\ calls' = calls \cup {Sent(op, arg, presses')} /\ faults' = faults
  BY SentForm DEF Settings!Press, Settings!By, Settings!Call, Settings!Unanswered, Unanswered
<1> DEFINE c0 == Sent(op, arg, presses')
<1>2. WellFormed(c0) /\ ~c0.ans.done
  BY DEF WellFormed, Sent, Unanswered
<1> HIDE DEF c0
<1> QED BY <1>1, <1>2 DEF SettingsInv, InEffect, TakesEffect, c0

\* The service or the shell acts on a request, or does not.
LEMMA SettingsServe == ASSUME SettingsInv, NEW c \in calls, Settings!Serve(c) PROVE SettingsInv'
<1> DEFINE ans == Settings!Ok(Settings!Reply(c))
           d == WithAnswer(c, ans)
<1>1. ~c.ans.done /\ calls' = (calls \ {c}) \cup {d} /\ faults' = faults
  BY AnsweredForm DEF SettingsInv, Settings!Serve, Settings!Serves, Settings!Answered
<1>2. WellFormed(d) /\ d.ans.done /\ d.ans.ok /\ d.op = c.op
  BY DEF WellFormed, WithAnswer, Settings!Ok
<1>3. CASE c.op = "restart"
  <2>1. InEffect'
    BY <1>3 DEF Settings!Serve, Settings!Acts, InEffect
  <2> HIDE DEF d
  <2> QED BY <1>1, <1>2, <2>1 DEF SettingsInv
<1>4. CASE c.op \in {"save", "reset"}
  <2> HIDE DEF d
  <2> QED BY <1>1, <1>2, <1>4 DEF SettingsInv, TakesEffect
<1>5. CASE c.op \notin {"restart", "save", "reset"}
  <2>1. UNCHANGED <<stored, keychain, running>>
    BY <1>5 DEF Settings!Serve, Settings!Acts
  <2> HIDE DEF d
  <2> QED BY <1>1, <1>2, <1>5, <2>1 DEF SettingsInv, InEffect, TakesEffect
<1> QED BY <1>3, <1>4, <1>5

\* A request that fails is counted.
LEMMA SettingsLose == ASSUME SettingsInv, NEW c \in calls, Settings!Lose(c) PROVE SettingsInv'
<1> DEFINE d == WithAnswer(c, Settings!Failed)
<1>1. calls' = (calls \ {c}) \cup {d} /\ faults' = faults + 1
  BY AnsweredForm DEF SettingsInv, Settings!Lose, Settings!Fails, Settings!Answered
<1>2. WellFormed(d)
  BY DEF WellFormed, WithAnswer
<1> HIDE DEF d
<1> QED BY <1>1, <1>2 DEF SettingsInv

\* An answer that neither stores nor restarts anything.
LEMMA SettingsHeard ==
  ASSUME SettingsInv, NEW c \in calls, c.op \notin {"save", "reset"}, Settings!Heard(c, {}),
         UNCHANGED <<stored, keychain, running>>
  PROVE  SettingsInv'
<1>1. c.ans.done /\ calls' = calls \ {c} /\ faults' = faults
  BY DEF Settings!Heard, Settings!By
<1> QED BY <1>1 DEF SettingsInv, InEffect, TakesEffect

\* What was stored is followed by a restart.
LEMMA SettingsStored == ASSUME SettingsInv, NEW c \in calls, Settings!Stored(c) PROVE SettingsInv'
<1> DEFINE r == Sent("restart", [by |-> c.arg.by], c.n)
<1>1. /\ faults' = faults /\ c.ans.done
      /\ calls' = (calls \ {c}) \cup (IF c.ans.ok THEN {r} ELSE {})
  BY SentForm DEF Settings!Stored, Settings!Heard, Settings!By, Settings!RestartOf, Settings!Call,
     Settings!Unanswered, Unanswered
<1>2. WellFormed(r) /\ ~r.ans.done /\ r.op = "restart"
  BY DEF WellFormed, Sent, Unanswered
<1>3. UNCHANGED <<stored, keychain, running>>
  BY DEF Settings!Stored, Settings!shellVars
<1> HIDE DEF r
<1> QED BY <1>1, <1>2, <1>3 DEF SettingsInv, InEffect, TakesEffect

\* Each step of the settings keeps their invariant.
LEMMA SettingsNext == ASSUME SettingsInv, Settings!Next PROVE SettingsInv'
<1>1. ASSUME NEW field, NEW value, Settings!Update(field, value) PROVE SettingsInv'
  BY <1>1 DEF Settings!Update, Settings!callVars, Settings!shellVars, SettingsInv, InEffect, TakesEffect
<1>2. ASSUME NEW k, Settings!TypeSecret(k) PROVE SettingsInv'
  BY <1>2 DEF Settings!TypeSecret, Settings!callVars, Settings!shellVars, SettingsInv, InEffect, TakesEffect
<1>3. ASSUME NEW k, Settings!HandleClearSecret(k) PROVE SettingsInv'
  BY <1>3, SettingsPress DEF Settings!HandleClearSecret, Settings!settingVars, Settings!shellVars
<1>4. ASSUME Settings!HandleScan PROVE SettingsInv'
  BY <1>4, SettingsPress DEF Settings!HandleScan, Settings!shellVars
<1>5. ASSUME Settings!Authorize PROVE SettingsInv'
  BY <1>5, SettingsPress DEF Settings!Authorize, Settings!settingVars, Settings!shellVars
<1>6. ASSUME Settings!HandleSave PROVE SettingsInv'
  BY <1>6, SettingsPress DEF Settings!HandleSave, Settings!shellVars
<1>7. ASSUME Settings!HandleResetSettings PROVE SettingsInv'
  BY <1>7, SettingsPress DEF Settings!HandleResetSettings, Settings!settingVars, Settings!shellVars
<1>8. ASSUME Settings!OpenResetSettings \/ Settings!CloseResetSettings PROVE SettingsInv'
  BY <1>8 DEF Settings!OpenResetSettings, Settings!CloseResetSettings, Settings!callVars, Settings!shellVars,
     SettingsInv, InEffect, TakesEffect
<1>9. ASSUME NEW c \in calls, Settings!Loaded(c) \/ Settings!Scanned(c) \/ Settings!Authorized(c) \/ Settings!Restarted(c)
      PROVE  SettingsInv'
  BY <1>9, SettingsHeard DEF Settings!Loaded, Settings!Scanned, Settings!Authorized, Settings!Restarted, Settings!shellVars
<1> QED BY <1>1, <1>2, <1>3, <1>4, <1>5, <1>6, <1>7, <1>8, <1>9, SettingsServe, SettingsLose, SettingsStored DEF Settings!Next

-----------------------------------------------------------------------------
\* Knowledge.  A source that is shown though it is gone is about to go from the screen; one shown
\* enabled or paused though it is not has an answer on its way; requests about one source agree.
SourceOps == {"sources", "enable", "resync", "remove", "clear", "media"}
Going(c, id) == \/ c.op = "remove" /\ c.arg.id = id /\ c.ans.done /\ c.ans.ok
                \/ c.op = "clear" /\ c.ans.done
                \/ c.op = "media"
SourcesFollow ==
  /\ \A c \in calls : (c.ans.done /\ ~c.ans.ok) => (c.op \in {"enable", "resync", "remove"} /\ c.arg.id \notin kept)
  /\ \A id \in listed \ kept : \E c \in calls : Going(c, id)
SourcesFirst ==
  \A c \in calls : c.op = "sources" =>
    calls = {c} /\ listed = {} /\ (c.ans.done => c.ans.data = [kept |-> kept, enabled |-> enabled])
EnablesAgree ==
  /\ \A c, d \in calls : (c.op = "enable" /\ d.op = "enable" /\ c.arg.id = d.arg.id) => c.arg.on = d.arg.on
  /\ \A c \in calls : (c.op = "enable" /\ c.ans.done /\ c.arg.id \in kept) => (c.arg.id \in enabled <=> c.arg.on)
  /\ \A id \in listed \cap kept :
        \/ id \in enabled <=> id \in shownEnabled
        \/ \E c \in calls : c.op = "enable" /\ c.arg.id = id /\ c.ans.done
KnowledgeInv ==
  /\ faults \in Nat /\ crossed \in BOOLEAN
  /\ \A c \in calls : WellFormed(c) /\ c.op \in SourceOps /\ c.ans.done \in BOOLEAN
                      /\ (c.op = "enable" => c.arg.on \in BOOLEAN)
  /\ enabled \subseteq kept
  /\ (faults = 0 /\ ~crossed) => SourcesFollow /\ SourcesFirst /\ EnablesAgree

\* What the service does to its sources, by the kind of request.
LEMMA KnowledgeActs ==
  ASSUME enabled \subseteq kept, NEW c, Knowledge!Acts(c)
  PROVE  /\ c.op = "clear" => kept' = {}
         /\ c.op = "remove" => kept' = kept \ {c.arg.id}
         /\ c.op \notin {"clear", "remove"} => kept' = kept
         /\ c.op # "enable" => enabled' = enabled \cap kept'
         /\ c.op = "enable" => enabled' = IF c.arg.on THEN enabled \cup {c.arg.id} ELSE enabled \ {c.arg.id}
<1>1. CASE c.op = "clear"
  <2>1. kept' = {}
    BY <1>1 DEF Knowledge!Acts
  <2>2. enabled' = enabled \cap kept'
    BY <1>1 DEF Knowledge!Acts
  <2> QED BY <1>1, <2>1, <2>2
<1>2. CASE c.op = "remove"
  <2>1. kept' = kept \ {c.arg.id}
    BY <1>2 DEF Knowledge!Acts
  <2>2. enabled' = enabled \cap kept'
    BY <1>2 DEF Knowledge!Acts
  <2> QED BY <1>2, <2>1, <2>2
<1>3. CASE c.op = "enable"
  <2>1. CASE c.arg.on
    BY <1>3, <2>1 DEF Knowledge!Acts, Knowledge!Switched
  <2>2. CASE ~c.arg.on
    BY <1>3, <2>2 DEF Knowledge!Acts, Knowledge!Switched
  <2> QED BY <2>1, <2>2
<1>4. CASE c.op \notin {"clear", "remove", "enable"}
  <2>1. kept' = kept
    BY <1>4 DEF Knowledge!Acts
  <2>2. enabled' = enabled \cap kept'
    BY <1>4 DEF Knowledge!Acts
  <2> QED BY <1>4, <2>1, <2>2
<1> QED BY <1>1, <1>2, <1>3, <1>4

\* The service acts on a request, or refuses it.
LEMMA KnowledgeServe == ASSUME KnowledgeInv, NEW c \in calls, Knowledge!Serve(c) PROVE KnowledgeInv'
<1> DEFINE now == [kept |-> kept, enabled |-> enabled]
           ans == IF Knowledge!Refused(c) THEN Failed ELSE Ok(now)
<1>a. /\ ~c.ans.done /\ calls' = (calls \ {c}) \cup {[c EXCEPT !.ans = ans]} /\ faults' = faults
      /\ IF Knowledge!Refused(c) THEN UNCHANGED <<kept, enabled>> ELSE Knowledge!Acts(c)
  BY DEF Knowledge!Serve, Knowledge!Serves, Knowledge!Answered, Knowledge!Ok, Knowledge!Failed, Ok, Failed
<1>b. WellFormed(c) /\ enabled \subseteq kept
  BY DEF KnowledgeInv
<1>c. calls' = (calls \ {c}) \cup {WithAnswer(c, ans)}
  BY <1>a, <1>b, AnsweredForm
<1>d. /\ ans.done /\ (ans.ok <=> ~Knowledge!Refused(c)) /\ ans.done \in BOOLEAN
      /\ ~Knowledge!Refused(c) => ans.data = now
  BY DEF Ok, Failed
<1> HIDE DEF ans
<1>1. /\ ~c.ans.done /\ calls' = (calls \ {c}) \cup {WithAnswer(c, ans)} /\ faults' = faults
      /\ ans.done /\ (ans.ok <=> ~Knowledge!Refused(c))
      /\ ~Knowledge!Refused(c) => ans.data = now
      /\ ans.done \in BOOLEAN
  BY <1>a, <1>c, <1>d
<1>e. Knowledge!Refused(c) => kept' = kept /\ enabled' = enabled
  BY <1>a
<1>f. ~Knowledge!Refused(c) =>
        /\ c.op = "clear" => kept' = {}
        /\ c.op = "remove" => kept' = kept \ {c.arg.id}
        /\ c.op \notin {"clear", "remove"} => kept' = kept
        /\ c.op # "enable" => enabled' = enabled \cap kept'
        /\ c.op = "enable" => enabled' = IF c.arg.on THEN enabled \cup {c.arg.id} ELSE enabled \ {c.arg.id}
  BY <1>a, <1>b, KnowledgeActs
<1> DEFINE d == WithAnswer(c, ans)
<1>2. WellFormed(d) /\ d.ans = ans /\ d.op = c.op /\ d.arg = c.arg
  BY DEF WellFormed, WithAnswer
<1>3. UNCHANGED <<listed, shownEnabled, crossed>>
  BY DEF Knowledge!Serve
<1>4. kept' \subseteq kept /\ enabled' \subseteq kept'
  BY <1>b, <1>e, <1>f DEF Knowledge!Refused
<1>5. \A e \in calls' : WellFormed(e) /\ e.op \in SourceOps /\ e.ans.done \in BOOLEAN
                        /\ (e.op = "enable" => e.arg.on \in BOOLEAN)
  <2> HIDE DEF d
  <2> QED BY <1>1, <1>2 DEF KnowledgeInv, d
<1>6. ASSUME faults = 0, ~crossed PROVE SourcesFollow' /\ SourcesFirst' /\ EnablesAgree'
  <2>1. SourcesFollow /\ SourcesFirst /\ EnablesAgree
    BY <1>6 DEF KnowledgeInv
  <2>2. SourcesFollow'
    <3>1. \A e \in calls' : (e.ans.done /\ ~e.ans.ok) => (e.op \in {"enable", "resync", "remove"} /\ e.arg.id \notin kept')
      <4>1. ans.ok \/ (c.op \in {"enable", "resync", "remove"} /\ c.arg.id \notin kept)
        BY <1>1 DEF Knowledge!Refused
      <4> HIDE DEF d
      <4> QED BY <1>1, <1>2, <1>4, <2>1, <4>1 DEF SourcesFollow, d
    <3>2. \A id \in listed \ kept' : \E e \in calls' : Going(e, id)
      <4> SUFFICES ASSUME NEW id \in listed \ kept' PROVE \E e \in calls' : Going(e, id)
        OBVIOUS
      <4>1. CASE id \in kept
        <5>1. ~Knowledge!Refused(c) /\ (c.op = "clear" \/ (c.op = "remove" /\ c.arg.id = id))
          BY <1>e, <1>f, <4>1
        <5>2. Going(d, id)
          BY <1>1, <1>2, <5>1 DEF Going
        <5> QED BY <1>1, <5>2
      <4>2. CASE id \notin kept
        <5>1. PICK e \in calls : Going(e, id)
          BY <2>1, <4>2 DEF SourcesFollow
        <5>2. e = c => Going(d, id)
          BY <1>1, <1>2, <5>1 DEF Going
        <5> QED BY <1>1, <5>1, <5>2
      <4> QED BY <4>1, <4>2
    <3> QED BY <1>3, <3>1, <3>2 DEF SourcesFollow
  <2>3. SourcesFirst'
    <3> SUFFICES ASSUME NEW e \in calls', e.op = "sources"
                 PROVE  /\ calls' = {e} /\ listed = {}
                        /\ e.ans.done => e.ans.data = [kept |-> kept', enabled |-> enabled']
      BY <1>3 DEF SourcesFirst
    <3>1. calls = {c} /\ listed = {} /\ c.op = "sources"
      BY <1>1, <1>2, <2>1 DEF SourcesFirst
    <3>2. e = d
      BY <1>1, <3>1
    <3>3. kept' = kept /\ enabled' = enabled /\ ans.data = [kept |-> kept, enabled |-> enabled]
      BY <1>1, <1>b, <1>f, <3>1 DEF Knowledge!Refused
    <3> HIDE DEF d
    <3> QED BY <1>1, <1>2, <3>1, <3>2, <3>3
  <2>4. EnablesAgree'
    <3>1. \A e, f \in calls' : (e.op = "enable" /\ f.op = "enable" /\ e.arg.id = f.arg.id) => e.arg.on = f.arg.on
      <4> HIDE DEF d
      <4> QED BY <1>1, <1>2, <2>1 DEF EnablesAgree, d
    <3>2. \A e \in calls' : (e.op = "enable" /\ e.ans.done /\ e.arg.id \in kept') => (e.arg.id \in enabled' <=> e.arg.on)
      <4> SUFFICES ASSUME NEW e \in calls', e.op = "enable", e.ans.done, e.arg.id \in kept'
                   PROVE  e.arg.id \in enabled' <=> e.arg.on
        OBVIOUS
      <4>1. CASE c.op = "enable" /\ e.arg.id = c.arg.id
        <5>1. e.arg.on = c.arg.on
          BY <1>1, <1>2, <2>1, <4>1 DEF EnablesAgree
        <5>2. ~Knowledge!Refused(c)
          BY <1>4, <4>1 DEF Knowledge!Refused
        <5> QED BY <1>5, <1>f, <4>1, <5>1, <5>2
      <4>2. CASE ~(c.op = "enable" /\ e.arg.id = c.arg.id)
        <5>1. e \in calls
          BY <1>1, <1>2, <4>2
        <5>2. e.arg.id \in enabled <=> e.arg.on
          BY <1>4, <2>1, <5>1 DEF EnablesAgree
        <5> QED BY <1>e, <1>f, <4>2, <5>2
      <4> QED BY <4>1, <4>2
    <3>3. \A id \in listed \cap kept' :
            \/ id \in enabled' <=> id \in shownEnabled
            \/ \E e \in calls' : e.op = "enable" /\ e.arg.id = id /\ e.ans.done
      <4> SUFFICES ASSUME NEW id \in listed \cap kept'
                   PROVE  \/ id \in enabled' <=> id \in shownEnabled
                          \/ \E e \in calls' : e.op = "enable" /\ e.arg.id = id /\ e.ans.done
        OBVIOUS
      <4>1. CASE c.op = "enable" /\ c.arg.id = id
        BY <1>1, <1>2, <4>1
      <4>2. CASE ~(c.op = "enable" /\ c.arg.id = id)
        <5>1. id \in enabled' <=> id \in enabled
          BY <1>e, <1>f, <4>2
        <5> QED BY <1>1, <1>2, <1>4, <2>1, <4>2, <5>1 DEF EnablesAgree
      <4> QED BY <4>1, <4>2
    <3> QED BY <1>3, <3>1, <3>2, <3>3 DEF EnablesAgree
  <2> QED BY <2>2, <2>3, <2>4
<1> QED BY <1>1, <1>3, <1>4, <1>5, <1>6 DEF KnowledgeInv

\* A request that fails is counted.
LEMMA KnowledgeLose == ASSUME KnowledgeInv, NEW c \in calls, Knowledge!Lose(c) PROVE KnowledgeInv'
<1> DEFINE d == WithAnswer(c, Failed)
<1>1. /\ calls' = (calls \ {c}) \cup {[c EXCEPT !.ans = Failed]} /\ faults' = faults + 1 /\ crossed' = crossed
      /\ UNCHANGED <<kept, enabled>> \/ Knowledge!Acts(c)
  BY DEF Knowledge!Lose, Knowledge!Fails, Knowledge!Answered, Knowledge!Failed, Failed
<1>2. enabled \subseteq kept /\ WellFormed(c)
  BY DEF KnowledgeInv
<1>3. calls' = (calls \ {c}) \cup {d}
  BY <1>1, <1>2, AnsweredForm
<1>4. enabled' \subseteq kept'
  <2>1. CASE UNCHANGED <<kept, enabled>>
    BY <1>2, <2>1
  <2>2. CASE Knowledge!Acts(c) /\ c.op # "enable"
    BY <1>2, <2>2, KnowledgeActs
  <2>3. CASE Knowledge!Acts(c) /\ c.op = "enable" /\ Knowledge!Refused(c)
    BY <1>2, <2>3, KnowledgeActs DEF Knowledge!Lose
  <2>4. CASE Knowledge!Acts(c) /\ c.op = "enable" /\ ~Knowledge!Refused(c)
    BY <1>2, <2>4, KnowledgeActs DEF Knowledge!Refused
  <2> QED BY <1>1, <2>1, <2>2, <2>3, <2>4
<1>5. WellFormed(d) /\ d.op = c.op /\ d.arg = c.arg /\ d.ans.done
  BY DEF WellFormed, WithAnswer, Failed
<1>6. d.ans.done \in BOOLEAN
  BY DEF WithAnswer, Failed
<1> HIDE DEF d
<1>7. \A e \in calls' : WellFormed(e) /\ e.op \in SourceOps /\ e.ans.done \in BOOLEAN
                        /\ (e.op = "enable" => e.arg.on \in BOOLEAN)
  BY <1>3, <1>5, <1>6 DEF KnowledgeInv
<1>8. faults' \in Nat /\ faults' # 0 /\ crossed' \in BOOLEAN
  BY <1>1 DEF KnowledgeInv
<1> QED BY <1>4, <1>7, <1>8 DEF KnowledgeInv

\* The sources are listed.
LEMMA KnowledgeListed == ASSUME KnowledgeInv, NEW c \in calls, Knowledge!SourcesListed(c) PROVE KnowledgeInv'
<1>1. /\ c.op = "sources" /\ c.ans.done /\ calls' = calls \ {c} /\ faults' = faults
      /\ UNCHANGED <<kept, enabled, crossed>>
      /\ c.ans.ok => listed' = c.ans.data.kept /\ shownEnabled' = c.ans.data.enabled
  BY DEF Knowledge!SourcesListed, Knowledge!Heard, Knowledge!By
<1>2. ASSUME faults = 0, ~crossed PROVE SourcesFollow' /\ SourcesFirst' /\ EnablesAgree'
  <2>1. SourcesFollow /\ SourcesFirst
    BY <1>2 DEF KnowledgeInv
  <2>2. c.ans.ok /\ calls = {c} /\ c.ans.data = [kept |-> kept, enabled |-> enabled]
    BY <1>1, <2>1 DEF SourcesFollow, SourcesFirst
  <2>3. calls' = {} /\ listed' = kept /\ shownEnabled' = enabled
    BY <1>1, <2>2
  <2> QED BY <1>1, <2>3 DEF SourcesFollow, SourcesFirst, EnablesAgree
<1> QED BY <1>1, <1>2 DEF KnowledgeInv

\* A button of a row is pressed.
LEMMA KnowledgePress ==
  ASSUME KnowledgeInv, NEW id, NEW op \in {"enable", "resync", "remove"}, Knowledge!PressSource(op, id)
  PROVE  KnowledgeInv'
<1> DEFINE on == id \notin shownEnabled
           d == Sent(op, [id |-> id, on |-> on], presses')
<1>1. /\ calls' = calls \cup {d} /\ faults' = faults /\ id \in listed
      /\ UNCHANGED <<kept, enabled, listed, shownEnabled>>
  BY SentForm DEF Knowledge!PressSource, Knowledge!Press, Knowledge!By, Knowledge!Call, Knowledge!Unanswered, Unanswered
<1>2. WellFormed(d) /\ d.op = op /\ d.arg.id = id /\ d.arg.on = on /\ ~d.ans.done
  BY DEF WellFormed, Sent, Unanswered
<1>3. on \in BOOLEAN /\ d.ans.done \in BOOLEAN
  BY DEF Sent, Unanswered
<1>4. /\ crossed' \in BOOLEAN
      /\ ~crossed' => /\ ~crossed
                      /\ op = "enable" => ~ \E e \in calls : e.op = "enable" /\ e.arg.id = id /\ e.arg.on = (id \in shownEnabled)
  BY DEF Knowledge!PressSource, Knowledge!Of, KnowledgeInv
<1>5. ASSUME faults = 0, ~crossed' PROVE SourcesFollow' /\ SourcesFirst' /\ EnablesAgree'
  <2>1. SourcesFollow /\ SourcesFirst /\ EnablesAgree
    BY <1>4, <1>5 DEF KnowledgeInv
  <2>2. SourcesFollow'
    <3> HIDE DEF d
    <3> QED BY <1>1, <1>2, <2>1 DEF SourcesFollow
  <2>3. SourcesFirst'
    <3>1. \A e \in calls' : e.op # "sources"
      BY <1>1, <1>2, <2>1 DEF SourcesFirst
    <3> QED BY <3>1 DEF SourcesFirst
  <2>4. \A e \in calls : (op = "enable" /\ e.op = "enable" /\ e.arg.id = id) => (e.arg.on = on)
    <3> SUFFICES ASSUME NEW e \in calls, op = "enable", e.op = "enable", e.arg.id = id PROVE e.arg.on = on
      OBVIOUS
    <3>1. e.arg.on \in BOOLEAN
      BY DEF KnowledgeInv
    <3>2. e.arg.on # (id \in shownEnabled)
      <4>1. ~ \E f \in calls : f.op = "enable" /\ f.arg.id = id /\ f.arg.on = (id \in shownEnabled)
        BY <1>4, <1>5
      <4> QED BY <4>1, Zenon
    <3> QED BY <3>1, <3>2
  <2>5. EnablesAgree'
    <3>1. \A e, f \in calls' : (e.op = "enable" /\ f.op = "enable" /\ e.arg.id = f.arg.id) => e.arg.on = f.arg.on
      <4> HIDE DEF d, on
      <4> QED BY <1>1, <1>2, <2>1, <2>4 DEF EnablesAgree
    <3>2. \A e \in calls' : e.ans.done => e \in calls
      BY <1>1, <1>2
    <3> QED BY <1>1, <2>1, <3>1, <3>2 DEF EnablesAgree
  <2> QED BY <2>2, <2>3, <2>5
<1>6. \A e \in calls' : WellFormed(e) /\ e.op \in SourceOps /\ e.ans.done \in BOOLEAN
                        /\ (e.op = "enable" => e.arg.on \in BOOLEAN)
  <2> HIDE DEF d, on
  <2> QED BY <1>1, <1>2, <1>3 DEF KnowledgeInv, SourceOps
<1> QED BY <1>1, <1>4, <1>5, <1>6 DEF KnowledgeInv

\* All data is to be cleared.
LEMMA KnowledgeClear == ASSUME KnowledgeInv, Knowledge!HandleClearAllData PROVE KnowledgeInv'
<1> DEFINE d == Sent("clear", <<>>, presses')
<1>1. /\ calls' = calls \cup {d} /\ faults' = faults
      /\ UNCHANGED <<kept, enabled, listed, shownEnabled>>
  BY SentForm DEF Knowledge!HandleClearAllData, Knowledge!Press, Knowledge!By, Knowledge!Call, Knowledge!Unanswered, Unanswered
<1>2. WellFormed(d) /\ d.op = "clear" /\ ~d.ans.done
  BY DEF WellFormed, Sent, Unanswered
<1>3. d.ans.done \in BOOLEAN
  BY DEF Sent, Unanswered
<1>4. crossed' \in BOOLEAN /\ (~crossed' => ~crossed /\ \A e \in calls : e.op # "sources")
  BY DEF Knowledge!HandleClearAllData, Knowledge!Of, KnowledgeInv
<1> HIDE DEF d
<1>5. ASSUME faults = 0, ~crossed' PROVE SourcesFollow' /\ SourcesFirst' /\ EnablesAgree'
  <2>1. SourcesFollow /\ SourcesFirst /\ EnablesAgree
    BY <1>4, <1>5 DEF KnowledgeInv
  <2>2. SourcesFollow'
    BY <1>1, <1>2, <2>1 DEF SourcesFollow
  <2>3. SourcesFirst'
    BY <1>1, <1>2, <1>4, <1>5 DEF SourcesFirst
  <2>4. EnablesAgree'
    BY <1>1, <1>2, <2>1 DEF EnablesAgree
  <2> QED BY <2>2, <2>3, <2>4
<1>6. \A e \in calls' : WellFormed(e) /\ e.op \in SourceOps /\ e.ans.done \in BOOLEAN
                        /\ (e.op = "enable" => e.arg.on \in BOOLEAN)
  BY <1>1, <1>2, <1>3 DEF KnowledgeInv, SourceOps
<1> QED BY <1>1, <1>4, <1>5, <1>6 DEF KnowledgeInv

\* A row changes as the answer says.
LEMMA KnowledgeChanged == ASSUME KnowledgeInv, NEW c \in calls, Knowledge!SourceChanged(c) PROVE KnowledgeInv'
<1>1. /\ c.op \in {"enable", "resync", "remove"} /\ c.ans.done /\ calls' = calls \ {c} /\ faults' = faults
      /\ UNCHANGED <<kept, enabled, crossed>>
      /\ listed' = IF c.ans.ok /\ c.op = "remove" THEN listed \ {c.arg.id} ELSE listed
  BY DEF Knowledge!SourceChanged, Knowledge!Heard, Knowledge!By
<1>2. /\ ~(c.ans.ok /\ c.op = "enable") => shownEnabled' = shownEnabled
      /\ \A id : id # c.arg.id => (id \in shownEnabled' <=> id \in shownEnabled)
      /\ (c.ans.ok /\ c.op = "enable") => (c.arg.id \in shownEnabled' <=> c.arg.on)
  BY DEF Knowledge!SourceChanged, Knowledge!Switched
<1>3. ASSUME faults = 0, ~crossed PROVE SourcesFollow' /\ SourcesFirst' /\ EnablesAgree'
  <2>1. SourcesFollow /\ SourcesFirst /\ EnablesAgree
    BY <1>3 DEF KnowledgeInv
  <2>2. SourcesFollow'
    BY <1>1, <2>1 DEF SourcesFollow, Going
  <2>3. SourcesFirst'
    BY <1>1, <2>1 DEF SourcesFirst
  <2>4. \A id \in listed' \cap kept :
          \/ id \in enabled <=> id \in shownEnabled'
          \/ \E e \in calls' : e.op = "enable" /\ e.arg.id = id /\ e.ans.done
    <3> SUFFICES ASSUME NEW id \in listed' \cap kept
                 PROVE  \/ id \in enabled <=> id \in shownEnabled'
                        \/ \E e \in calls' : e.op = "enable" /\ e.arg.id = id /\ e.ans.done
      OBVIOUS
    <3>1. CASE c.op = "enable" /\ c.arg.id = id
      <4>1. c.ans.ok /\ (id \in enabled <=> c.arg.on)
        BY <1>1, <2>1, <3>1 DEF SourcesFollow, EnablesAgree
      <4> QED BY <1>2, <3>1, <4>1
    <3>2. CASE ~(c.op = "enable" /\ c.arg.id = id)
      <4>1. id \in shownEnabled' <=> id \in shownEnabled
        BY <1>2, <3>2
      <4>2. id \in listed
        BY <1>1
      <4> QED BY <1>1, <2>1, <3>2, <4>1, <4>2 DEF EnablesAgree
    <3> QED BY <3>1, <3>2
  <2>5. EnablesAgree'
    BY <1>1, <2>1, <2>4 DEF EnablesAgree
  <2> QED BY <2>2, <2>3, <2>5
<1> QED BY <1>1, <1>3 DEF KnowledgeInv

\* All data is cleared, at the service and then in the folders.
LEMMA KnowledgeCleared == ASSUME KnowledgeInv, NEW c \in calls, Knowledge!Cleared(c) PROVE KnowledgeInv'
<1> DEFINE d == Sent("media", <<>>, c.n)
<1>1. /\ c.op \in {"clear", "media"} /\ c.ans.done /\ faults' = faults
      /\ calls' = (calls \ {c}) \cup (IF c.op = "clear" /\ c.ans.ok THEN {d} ELSE {})
      /\ UNCHANGED <<kept, enabled, shownEnabled, crossed>>
      /\ listed' = IF c.op = "media" /\ c.ans.ok THEN {} ELSE listed
  BY SentForm DEF Knowledge!Cleared, Knowledge!Heard, Knowledge!By, Knowledge!Call, Knowledge!Unanswered, Unanswered
<1>2. WellFormed(d) /\ d.op = "media" /\ ~d.ans.done
  BY DEF WellFormed, Sent, Unanswered
<1>3. d.ans.done \in BOOLEAN
  BY DEF Sent, Unanswered
<1> HIDE DEF d
<1>4. ASSUME faults = 0, ~crossed PROVE SourcesFollow' /\ SourcesFirst' /\ EnablesAgree'
  <2>1. SourcesFollow /\ SourcesFirst /\ EnablesAgree
    BY <1>4 DEF KnowledgeInv
  <2>2. c.ans.ok
    BY <1>1, <2>1 DEF SourcesFollow
  <2>3. SourcesFollow'
    <3>1. \A e \in calls' : (e.ans.done /\ ~e.ans.ok) => (e.op \in {"enable", "resync", "remove"} /\ e.arg.id \notin kept')
      BY <1>1, <1>2, <2>1 DEF SourcesFollow
    <3>2. CASE c.op = "clear"
      BY <1>1, <1>2, <2>2, <3>1, <3>2 DEF SourcesFollow, Going
    <3>3. CASE c.op = "media"
      BY <1>1, <2>2, <3>1, <3>3 DEF SourcesFollow
    <3> QED BY <1>1, <3>2, <3>3
  <2>4. SourcesFirst'
    <3>1. \A e \in calls' : e.op # "sources"
      BY <1>1, <1>2, <2>1 DEF SourcesFirst
    <3> QED BY <3>1 DEF SourcesFirst
  <2>5. EnablesAgree'
    <3>1. listed' \subseteq listed
      BY <1>1
    <3> QED BY <1>1, <1>2, <2>1, <3>1 DEF EnablesAgree
  <2> QED BY <2>3, <2>4, <2>5
<1>5. \A e \in calls' : WellFormed(e) /\ e.op \in SourceOps /\ e.ans.done \in BOOLEAN
                        /\ (e.op = "enable" => e.arg.on \in BOOLEAN)
  BY <1>1, <1>2, <1>3 DEF KnowledgeInv, SourceOps
<1> QED BY <1>1, <1>4, <1>5 DEF KnowledgeInv

\* Each step of the knowledge settings keeps their invariant.
LEMMA KnowledgeNext == ASSUME KnowledgeInv, Knowledge!Next PROVE KnowledgeInv'
<1>1. ASSUME NEW what, Knowledge!Open(what) \/ Knowledge!Close PROVE KnowledgeInv'
  <2>1. UNCHANGED <<calls, faults, kept, enabled, listed, shownEnabled, crossed>>
    BY <1>1 DEF Knowledge!Open, Knowledge!Close, Knowledge!callVars
  <2> QED BY <2>1 DEF KnowledgeInv, SourcesFollow, SourcesFirst, EnablesAgree, Going
<1> QED BY <1>1, KnowledgeServe, KnowledgeLose, KnowledgeListed, KnowledgePress, KnowledgeClear, KnowledgeChanged,
           KnowledgeCleared DEF Knowledge!Next

-----------------------------------------------------------------------------
\* The update panel.  Each phase that runs has its call; an installation runs alone and belongs to the
\* panel; and the download of the panel has staged what it is about to offer.
IsState(s) == s = [phase |-> s.phase, channel |-> s.channel, available |-> s.available, total |-> s.total,
                   verified |-> s.verified, backup |-> s.backup, error |-> s.error]
PhaseHasCall ==
  /\ u.phase = "checking"    => \E c \in calls : c.op = "check" /\ c.arg = panel
  /\ u.phase = "downloading" => \E c \in calls : c.op = "download" /\ c.arg = panel
  /\ u.phase = "installing"  => \E c \in calls : c.op = "install" /\ c.arg = panel
  /\ u.phase # "verifying_signature"
InstallsAlone ==
  /\ \A c \in calls : c.op = "install" => c.arg = panel /\ u.phase = "installing"
  /\ \A c, d \in calls : c.op = "install" /\ d.op = "install" => c = d
DownloadStages ==
  /\ \A c \in calls : (c.op = "download" /\ c.arg = panel) =>
        u.phase = "downloading" /\ ((c.ans.done /\ c.ans.ok) => staged # 0)
  /\ \A c, d \in calls : (c.op = "download" /\ d.op = "download" /\ c.arg = panel /\ d.arg = panel) => c = d
  /\ u.phase = "ready" => staged # 0 /\ u.verified
UpdateInv ==
  /\ panel \in Nat /\ strange \in BOOLEAN /\ published \in Nat /\ IsState(u)
  /\ \A c \in calls : WellFormed(c) /\ c.arg \in 0..panel
  /\ ~strange => PhaseHasCall /\ InstallsAlone /\ DownloadStages

\* A call is answered: what is staged goes only with an installation, and comes with a download.
LEMMA UpdateAnswers ==
  ASSUME UpdateInv, NEW c \in calls, NEW ans, ans.done, calls' = (calls \ {c}) \cup {[c EXCEPT !.ans = ans]}, ~c.ans.done,
         UNCHANGED <<published, panel, u, strange>>,
         staged' # 0 \/ staged' = staged \/ c.op = "install",
         (c.op = "download" /\ ans.ok) => staged' # 0
  PROVE  UpdateInv'
<1> DEFINE d == WithAnswer(c, ans)
<1>1. calls' = (calls \ {c}) \cup {d}
  BY AnsweredForm DEF UpdateInv
<1>2. WellFormed(d) /\ d.op = c.op /\ d.arg = c.arg /\ d.ans = ans
  BY DEF WellFormed, WithAnswer
<1> HIDE DEF d
<1>3. \A e \in calls' : WellFormed(e) /\ e.arg \in 0..panel
  BY <1>1, <1>2 DEF UpdateInv
<1>4. ASSUME ~strange PROVE PhaseHasCall' /\ InstallsAlone' /\ DownloadStages'
  <2>1. PhaseHasCall /\ InstallsAlone /\ DownloadStages
    BY <1>4 DEF UpdateInv
  <2>2. PhaseHasCall'
    BY <1>1, <1>2, <2>1 DEF PhaseHasCall
  <2>3. InstallsAlone'
    BY <1>1, <1>2, <2>1 DEF InstallsAlone
  <2>4. DownloadStages'
    <3>1. c.op = "install" => u.phase = "installing"
      BY <2>1 DEF InstallsAlone
    <3> QED BY <1>1, <1>2, <2>1, <3>1 DEF DownloadStages
  <2> QED BY <2>2, <2>3, <2>4
<1> QED BY <1>3, <1>4 DEF UpdateInv

\* The shell answers.
LEMMA UpdateServe == ASSUME UpdateInv, NEW c \in calls, Update!Serve(c) PROVE UpdateInv'
<1>1. UNCHANGED <<published, panel, u, strange>>
  BY DEF Update!Serve
<1>2. CASE c.op = "check"
  <2>1. ~c.ans.done /\ calls' = (calls \ {c}) \cup {[c EXCEPT !.ans = Ok([version |-> published])]} /\ staged' = staged
    BY <1>2 DEF Update!Serve, Update!Serves, Update!Answered, Update!Ok, Ok
  <2>2. Ok([version |-> published]).done
    BY DEF Ok
  <2> QED BY <1>1, <1>2, <2>1, <2>2, UpdateAnswers
<1>3. CASE c.op = "download"
  <2>1. CASE published = 0
    <3>1. ~c.ans.done /\ calls' = (calls \ {c}) \cup {[c EXCEPT !.ans = Failed]} /\ staged' = staged
      BY <1>3, <2>1 DEF Update!Serve, Update!Serves, Update!Answered, Update!Failed, Failed, Update!NoVersion
    <3>2. Failed.done /\ ~Failed.ok
      BY DEF Failed
    <3> QED BY <1>1, <1>3, <3>1, <3>2, UpdateAnswers
  <2>2. CASE published # 0
    <3>1. ~c.ans.done /\ calls' = (calls \ {c}) \cup {[c EXCEPT !.ans = Ok(<<>>)]} /\ staged' = published
      BY <1>3, <2>2 DEF Update!Serve, Update!Serves, Update!Answered, Update!Ok, Ok, Update!NoVersion
    <3>2. Ok(<<>>).done
      BY DEF Ok
    <3> QED BY <1>1, <1>3, <2>2, <3>1, <3>2, UpdateAnswers
  <2> QED BY <2>1, <2>2
<1>4. CASE c.op = "install"
  <2>1. PICK ans \in {Failed, Ok(<<>>)} : ~c.ans.done /\ calls' = (calls \ {c}) \cup {[c EXCEPT !.ans = ans]}
    BY <1>4 DEF Update!Serve, Update!Serves, Update!Answered, Update!Failed, Failed, Update!Ok, Ok
  <2>2. ans.done
    BY DEF Failed, Ok
  <2> QED BY <1>1, <1>4, <2>1, <2>2, UpdateAnswers
<1>5. CASE c.op \notin {"check", "download", "install"}
  <2>1. ~c.ans.done /\ calls' = (calls \ {c}) \cup {[c EXCEPT !.ans = Ok(<<>>)]} /\ staged' = staged
    BY <1>5 DEF Update!Serve, Update!Serves, Update!Answered, Update!Ok, Ok
  <2>2. Ok(<<>>).done
    BY DEF Ok
  <2> QED BY <1>1, <1>5, <2>1, <2>2, UpdateAnswers
<1> QED BY <1>2, <1>3, <1>4, <1>5

\* A call fails; an installation that does may have used up the package.
LEMMA UpdateLose == ASSUME UpdateInv, NEW c \in calls, Update!Lose(c) PROVE UpdateInv'
<1>1. ~c.ans.done /\ calls' = (calls \ {c}) \cup {[c EXCEPT !.ans = Failed]} /\ UNCHANGED <<published, panel, u, strange>>
      /\ (c.op # "install" => staged' = staged)
  BY DEF Update!Lose, Update!Fails, Update!Answered, Update!Failed, Failed
<1>2. Failed.done /\ ~Failed.ok
  BY DEF Failed
<1> QED BY <1>1, <1>2, UpdateAnswers

\* The answer to a panel that is no longer open is dropped.
LEMMA UpdateForget == ASSUME UpdateInv, NEW c \in calls, Update!Forget(c) PROVE UpdateInv'
<1>1. c.arg # panel /\ calls' = calls \ {c} /\ UNCHANGED <<published, staged, panel, u, strange>>
  BY DEF Update!Forget, Update!Mine, Update!Heard, Update!By, Update!updateVars
<1> QED BY <1>1 DEF UpdateInv, PhaseHasCall, InstallsAlone, DownloadStages

\* Another panel is opened.
LEMMA UpdateOpen == ASSUME UpdateInv, Update!OpenPanel PROVE UpdateInv'
<1> DEFINE d == Update!Call("config", panel')
<1>1. /\ calls' = calls \cup {d} /\ panel' = panel + 1 /\ u' = Update!InitialUpdateState /\ published' = published
      /\ strange' = (strange \/ Update!Of("install") # {})
  BY DEF Update!OpenPanel
<1>2. WellFormed(d) /\ d.op = "config" /\ d.arg = panel'
  BY DEF WellFormed, Update!Call
<1> HIDE DEF d
<1>3. IsState(u') /\ u'.phase = "idle"
  BY <1>1 DEF IsState, Update!InitialUpdateState
<1>4. panel' \in Nat /\ \A e \in calls : e.arg \in 0..panel' /\ e.arg # panel'
  BY <1>1 DEF UpdateInv
<1>5. ASSUME ~strange' PROVE PhaseHasCall' /\ InstallsAlone' /\ DownloadStages'
  <2>1. \A e \in calls : e.op # "install"
    BY <1>1, <1>5 DEF Update!Of
  <2> QED BY <1>1, <1>2, <1>3, <1>4, <2>1 DEF PhaseHasCall, InstallsAlone, DownloadStages
<1>6. \A e \in calls' : WellFormed(e) /\ e.arg \in 0..panel'
  BY <1>1, <1>2, <1>4 DEF UpdateInv
<1>7. strange' \in BOOLEAN
  BY <1>1 DEF UpdateInv
<1> QED BY <1>1, <1>3, <1>4, <1>5, <1>6, <1>7 DEF UpdateInv

\* A step that sends nothing and leaves the phase as it is, or in one that needs nothing.
LEMMA UpdateRests ==
  ASSUME UpdateInv, UNCHANGED <<calls, published, staged, panel, strange>>, IsState(u'),
         \/ u'.phase = u.phase /\ u'.verified = u.verified
         \/ ~Update!Running(u) /\ u'.phase \in {"idle", "rolled_back", "error"}
  PROVE  UpdateInv'
BY DEF UpdateInv, PhaseHasCall, InstallsAlone, DownloadStages, Update!Running

\* The channel is chosen, a failure rolled back or the panel reset; a download reports its progress.
LEMMA UpdateChooses ==
  ASSUME UpdateInv,
         \/ \E channel : Update!PressChannel(channel)
         \/ Update!PressRollback \/ Update!PressReset
         \/ \E c, sized : Update!Progress(c, sized)
  PROVE  UpdateInv'
<1>1. IsState(u)
  BY DEF UpdateInv
<1>2. ASSUME NEW channel, Update!PressChannel(channel) PROVE UpdateInv'
  <2>1. IsState(u') /\ u'.phase = u.phase /\ u'.verified = u.verified
    BY <1>1, <1>2 DEF IsState, Update!PressChannel, Update!SetChannel
  <2> QED BY <1>2, <2>1, UpdateRests DEF Update!PressChannel, Update!callVars
<1>3. ASSUME Update!PressRollback PROVE UpdateInv'
  <2>1. IsState(u') /\ u'.phase = "rolled_back" /\ ~Update!Running(u)
    BY <1>1, <1>3 DEF IsState, Update!PressRollback, Update!RolledBack, Update!Running
  <2> QED BY <1>3, <2>1, UpdateRests DEF Update!PressRollback, Update!callVars
<1>4. ASSUME Update!PressReset PROVE UpdateInv'
  <2>1. IsState(u') /\ u'.phase = "idle" /\ ~Update!Running(u)
    BY <1>1, <1>4 DEF IsState, Update!PressReset, Update!Reset, Update!InitialUpdateState
  <2> QED BY <1>4, <2>1, UpdateRests DEF Update!PressReset, Update!callVars
<1>5. ASSUME NEW c, NEW sized, Update!Progress(c, sized) PROVE UpdateInv'
  <2>1. IsState(u') /\ u'.phase = u.phase /\ u'.verified = u.verified
    BY <1>1, <1>5 DEF IsState, Update!Progress, Update!DownloadProgress
  <2> QED BY <1>5, <2>1, UpdateRests DEF Update!Progress, Update!callVars
<1> QED BY <1>2, <1>3, <1>4, <1>5

\* Nobody checks after a retry, which the history variable tells.
LEMMA UpdateRetry == ASSUME UpdateInv, Update!PressRetry PROVE UpdateInv'
<1>1. IsState(u) /\ u.phase = "error" /\ u' = Update!Retry(u) /\ strange' = (strange \/ u' # u)
      /\ UNCHANGED <<calls, published, staged, panel>>
  BY DEF UpdateInv, Update!PressRetry, Update!callVars
<1>2. IsState(u') /\ strange' \in BOOLEAN
  BY <1>1 DEF IsState, Update!Retry, UpdateInv
<1>3. CASE u' = u
  BY <1>1, <1>2, <1>3 DEF UpdateInv, PhaseHasCall, InstallsAlone, DownloadStages
<1>4. CASE u' # u
  BY <1>1, <1>2, <1>4 DEF UpdateInv
<1> QED BY <1>3, <1>4

\* A button of the panel starts a call.
LEMMA UpdatePress ==
  ASSUME UpdateInv, NEW op \in {"check", "download", "install"},
         Update!Press({Update!Call(op, panel)}), UNCHANGED <<published, staged, panel, strange>>, IsState(u'),
         op = "check" => ~Update!Running(u) /\ u'.phase \in {u.phase, "checking"} /\ u'.verified = u.verified,
         op = "download" => u.phase = "available" /\ u'.phase = "downloading",
         op = "install" => u.phase = "ready" /\ (u.verified => u'.phase = "installing")
  PROVE  UpdateInv'
<1> DEFINE d == Sent(op, panel, presses')
<1>1. calls' = calls \cup {d}
  BY SentForm DEF Update!Press, Update!By, Update!Call, Update!Unanswered, Unanswered
<1>2. WellFormed(d) /\ d.op = op /\ d.arg = panel /\ ~d.ans.done
  BY DEF WellFormed, Sent, Unanswered
<1> HIDE DEF d
<1>3. \A e \in calls' : WellFormed(e) /\ e.arg \in 0..panel
  BY <1>1, <1>2 DEF UpdateInv
<1>4. ASSUME ~strange PROVE PhaseHasCall' /\ InstallsAlone' /\ DownloadStages'
  <2>1. PhaseHasCall /\ InstallsAlone /\ DownloadStages
    BY <1>4 DEF UpdateInv
  <2>2. CASE op = "check"
    BY <1>1, <1>2, <2>1, <2>2 DEF PhaseHasCall, InstallsAlone, DownloadStages, Update!Running
  <2>3. CASE op = "download"
    <3>1. \A e \in calls : ~(e.op = "download" /\ e.arg = panel) /\ e.op # "install"
      BY <2>1, <2>3 DEF InstallsAlone, DownloadStages
    <3> QED BY <1>1, <1>2, <2>3, <3>1 DEF PhaseHasCall, InstallsAlone, DownloadStages
  <2>4. CASE op = "install"
    <3>1. \A e \in calls : ~(e.op = "download" /\ e.arg = panel) /\ e.op # "install"
      BY <2>1, <2>4 DEF InstallsAlone, DownloadStages
    <3>2. u'.phase = "installing"
      BY <2>1, <2>4 DEF DownloadStages
    <3> QED BY <1>1, <1>2, <2>4, <3>1, <3>2 DEF PhaseHasCall, InstallsAlone, DownloadStages
  <2> QED BY <2>2, <2>3, <2>4
<1> QED BY <1>3, <1>4 DEF UpdateInv

\* The three buttons.
LEMMA UpdatePresses ==
  ASSUME UpdateInv, Update!PressCheck \/ Update!PressDownload \/ Update!PressInstall PROVE UpdateInv'
<1>1. IsState(u)
  BY DEF UpdateInv
<1>2. ASSUME Update!PressCheck PROVE UpdateInv'
  <2>1. IsState(u') /\ u'.phase \in {u.phase, "checking"} /\ u'.verified = u.verified
    BY <1>1, <1>2 DEF IsState, Update!PressCheck, Update!CheckStart
  <2> QED BY <1>2, <2>1, UpdatePress DEF Update!PressCheck
<1>3. ASSUME Update!PressDownload PROVE UpdateInv'
  <2>1. IsState(u') /\ u'.phase = "downloading"
    BY <1>1, <1>3 DEF IsState, Update!PressDownload, Update!DownloadStart
  <2> QED BY <1>3, <2>1, UpdatePress DEF Update!PressDownload
<1>4. ASSUME Update!PressInstall PROVE UpdateInv'
  <2> DEFINE v == Update!InstallStart(u)
  <2>1. IsState(v) /\ v.phase \in {"ready", "installing"} /\ (u.verified => v.phase = "installing")
    BY <1>1, <1>4 DEF IsState, Update!PressInstall, Update!InstallStart
  <2>2. u' = Update!BackupMade(v)
    BY <1>4 DEF Update!PressInstall
  <2> HIDE DEF v
  <2>3. IsState(u') /\ u'.phase = v.phase
    BY <2>1, <2>2 DEF IsState, Update!BackupMade
  <2> QED BY <1>4, <2>1, <2>3, UpdatePress DEF Update!PressInstall
<1> QED BY <1>2, <1>3, <1>4

\* An answer that is heard ends the phase it belongs to; a download that ends well leaves its package.
LEMMA UpdateHears ==
  ASSUME UpdateInv, NEW c \in calls, c.arg = panel, calls' = calls \ {c}, c.ans.done,
         UNCHANGED <<published, staged, panel>>, IsState(u'), strange' \in BOOLEAN, ~strange' => ~strange,
         ~strange' => \/ u' = u /\ ~(c.op = "check" /\ u.phase = "checking") /\ c.op \notin {"download", "install"}
                      \/ u' = u /\ c.op = "download" /\ u.phase # "downloading"
                      \/ u' = u /\ c.op = "install" /\ u.phase # "installing"
                      \/ c.op = "check" /\ u.phase = "checking" /\ u'.phase \in {"idle", "available", "error"}
                      \/ c.op = "install" /\ u.phase = "installing" /\ u'.phase \in {"idle", "error"}
                      \/ c.op = "download" /\ u.phase = "downloading" /\ u'.phase = "error"
                      \/ c.op = "download" /\ u.phase = "downloading" /\ u'.phase = "ready" /\ u'.verified /\ c.ans.ok
  PROVE  UpdateInv'
<1>1. ASSUME ~strange' PROVE PhaseHasCall' /\ InstallsAlone' /\ DownloadStages'
  <2>1. PhaseHasCall /\ InstallsAlone /\ DownloadStages
    BY <1>1 DEF UpdateInv
  <2>2. CASE u' = u
    BY <1>1, <2>1, <2>2 DEF PhaseHasCall, InstallsAlone, DownloadStages
  <2>3. CASE c.op = "check" /\ u.phase = "checking" /\ u'.phase \in {"idle", "available", "error"}
    BY <1>1, <2>1, <2>3 DEF PhaseHasCall, InstallsAlone, DownloadStages
  <2>4. CASE c.op = "install" /\ u.phase = "installing" /\ u'.phase \in {"idle", "error"}
    BY <1>1, <2>1, <2>4 DEF PhaseHasCall, InstallsAlone, DownloadStages
  <2>5. CASE c.op = "download" /\ u.phase = "downloading" /\ (u'.phase = "error" \/ (u'.phase = "ready" /\ u'.verified /\ c.ans.ok))
    BY <1>1, <2>1, <2>5 DEF PhaseHasCall, InstallsAlone, DownloadStages
  <2> QED BY <1>1, <2>2, <2>3, <2>4, <2>5
<1>2. \A e \in calls' : WellFormed(e) /\ e.arg \in 0..panel
  BY DEF UpdateInv
<1> QED BY <1>1, <1>2 DEF UpdateInv

\* The answers to the panel.
LEMMA UpdateHeard ==
  ASSUME UpdateInv, NEW c \in calls,
         Update!Configured(c) \/ Update!Checked(c) \/ Update!Downloaded(c) \/ Update!Installed(c)
  PROVE  UpdateInv'
<1>1. IsState(u) /\ strange \in BOOLEAN
  BY DEF UpdateInv
<1>2. c.arg = panel /\ calls' = calls \ {c} /\ c.ans.done /\ UNCHANGED <<published, staged, panel>>
  BY DEF Update!Configured, Update!Checked, Update!Downloaded, Update!Installed, Update!Mine, Update!Heard, Update!By
<1>3. ASSUME Update!Configured(c) PROVE UpdateInv'
  BY <1>1, <1>2, <1>3, UpdateHears DEF Update!Configured
<1>4. ASSUME Update!Checked(c) PROVE UpdateInv'
  <2>1. /\ IsState(u') /\ c.op = "check" /\ strange' = strange
        /\ u.phase # "checking" => u' = u
        /\ u.phase = "checking" => u'.phase \in {"idle", "available", "error"}
    BY <1>1, <1>4 DEF IsState, Update!Checked, Update!CheckEnds, Update!InError
  <2> QED BY <1>1, <1>2, <2>1, UpdateHears
<1>5. ASSUME Update!Installed(c) PROVE UpdateInv'
  <2>1. /\ IsState(u') /\ c.op = "install" /\ strange' = strange
        /\ u.phase # "installing" => u' = u
        /\ u.phase = "installing" => u'.phase \in {"idle", "error"}
    BY <1>1, <1>5 DEF IsState, Update!Installed, Update!InstallEnds, Update!InError
  <2> QED BY <1>1, <1>2, <2>1, UpdateHears
<1>6. ASSUME Update!Downloaded(c) PROVE UpdateInv'
  <2>1. c.op = "download" /\ strange' = (strange \/ (c.ans.ok /\ u.phase = "downloading" /\ ~u.total))
    BY <1>6 DEF Update!Downloaded
  <2>2. CASE ~c.ans.ok
    <3>1. /\ IsState(u')
          /\ u.phase # "downloading" => u' = u
          /\ u.phase = "downloading" => u'.phase = "error"
      BY <1>1, <1>6, <2>2 DEF IsState, Update!Downloaded, Update!DownloadFail, Update!InError
    <3> QED BY <1>1, <1>2, <2>1, <2>2, <3>1, UpdateHears
  <2>3. CASE c.ans.ok
    <3> DEFINE v == Update!DownloadComplete(u)
    <3>1. /\ IsState(v)
          /\ ~(u.phase = "downloading" /\ u.total) => v = u
          /\ (u.phase = "downloading" /\ u.total) => v.phase = "verifying_signature"
      BY <1>1 DEF IsState, Update!DownloadComplete
    <3>2. u' = Update!SignatureOk(v)
      BY <1>6, <2>3 DEF Update!Downloaded
    <3> HIDE DEF v
    <3>3. /\ IsState(u')
          /\ v.phase # "verifying_signature" => u' = v
          /\ v.phase = "verifying_signature" => u'.phase = "ready" /\ u'.verified
      BY <3>1, <3>2 DEF IsState, Update!SignatureOk
    <3>4. ~strange => u.phase # "verifying_signature"
      BY DEF UpdateInv, PhaseHasCall
    <3> QED BY <1>1, <1>2, <2>1, <2>3, <3>1, <3>3, <3>4, UpdateHears
  <2> QED BY <2>2, <2>3
<1> QED BY <1>3, <1>4, <1>5, <1>6

\* Each step of the update panel keeps its invariant.
LEMMA UpdateNext == ASSUME UpdateInv, Versions \in Nat, Update!Next PROVE UpdateInv'
<1>1. ASSUME Update!Publish PROVE UpdateInv'
  <2>1. published' \in Nat /\ UNCHANGED <<calls, staged, panel, u, strange>>
    BY <1>1 DEF Update!Publish, Update!callVars, UpdateInv
  <2> QED BY <2>1 DEF UpdateInv, PhaseHasCall, InstallsAlone, DownloadStages
<1> QED BY <1>1, UpdateServe, UpdateLose, UpdateForget, UpdateOpen, UpdateChooses, UpdateRetry, UpdatePresses,
           UpdateHeard DEF Update!Next

-----------------------------------------------------------------------------
\* Digital humans.  One deletion is under way at a time, for the human the dialog was opened for; and
\* as long as it has only asked for the clean-up, the human is there.
Deletion(c) == c.op = "delete" \/ (c.op = "cleanup" /\ c.arg.choice = "cleanup")
OneDeletion == \A c, d \in calls : Deletion(c) /\ Deletion(d) => c = d
DeletionFits(c) ==
  /\ deleting /\ result = DigitalHumans!NoResult
  /\ (~reused /\ target # 0) => c.arg.id = target
  /\ (c.op = "cleanup" /\ faults = 0) => (c.arg.id \in ToSet(order) \/ c.arg.gone)
HumanInv ==
  /\ faults \in Nat /\ order \in Seq(Nat) /\ \A c \in calls : WellFormed(c)
  /\ OneDeletion /\ \A c \in calls : Deletion(c) => DeletionFits(c)
  /\ DigitalHumans!ResultIsOfTarget /\ DigitalHumans!FailedCleanupKeeps

\* A list without one of its humans.
LEMMA OthersItems ==
  ASSUME NEW seq \in Seq(Nat), NEW id
  PROVE  DigitalHumans!Others(seq, id) \in Seq(Nat) /\ ToSet(DigitalHumans!Others(seq, id)) = ToSet(seq) \ {id}
<1> DEFINE I == {n \in DOMAIN seq : seq[n] # id}
<1>1. I \in SUBSET DOMAIN seq
  OBVIOUS
<1>2. Select(seq, I) \in Seq(Nat) /\ ToSet(Select(seq, I)) = {seq[n] : n \in I}
  <2> HIDE DEF I
  <2> QED BY <1>1, SelectIsSeq
<1>3. {seq[n] : n \in I} = ToSet(seq) \ {id}
  BY DEF ToSet
<1>4. DigitalHumans!Others(seq, id) = Select(seq, I)
  BY DEF DigitalHumans!Others, DigitalHumans!Select, DigitalHumans!Nth, DigitalHumans!Rank, Select, Nth, Rank,
         DigitalHumans!Cardinality, Cardinality
<1> QED BY <1>2, <1>3, <1>4

\* What the service does to its humans: only a deletion takes one away.
LEMMA HumanOrder ==
  ASSUME order \in Seq(Nat), NEW c, DigitalHumans!Accepted(c), DigitalHumans!Does(c)
  PROVE  /\ order' \in Seq(Nat)
         /\ c.op # "delete" => ToSet(order') = ToSet(order)
<1>1. ASSUME NEW seq \in Seq(Nat), NEW id \in ToSet(seq)
      PROVE  /\ (<<id>> \o DigitalHumans!Others(seq, id)) \in Seq(Nat)
             /\ ToSet(<<id>> \o DigitalHumans!Others(seq, id)) = ToSet(seq)
  <2>0. PICK one : one = <<id>>
    OBVIOUS
  <2>1. one \in Seq(Nat) /\ ToSet(one) = {id}
    BY <2>0 DEF ToSet
  <2> DEFINE t == DigitalHumans!Others(seq, id)
  <2>2. t \in Seq(Nat) /\ ToSet(t) = ToSet(seq) \ {id}
    BY OthersItems
  <2> HIDE DEF t
  <2>3. one \o t \in Seq(Nat) /\ ToSet(one \o t) = ToSet(one) \cup ToSet(t)
    BY <2>1, <2>2, ConcatItems
  <2>4. ToSet(one \o t) = ToSet(seq)
    BY <2>1, <2>2, <2>3
  <2> QED BY <2>0, <2>3, <2>4 DEF t
<1>2. ASSUME NEW seq \in Seq(Nat), NEW id
      PROVE  /\ DigitalHumans!DefaultFirst(seq, id) \in Seq(Nat)
             /\ ToSet(DigitalHumans!DefaultFirst(seq, id)) = ToSet(seq)
  BY <1>1 DEF DigitalHumans!DefaultFirst, DigitalHumans!ToSet, ToSet
<1>3. CASE c.op = "rename"
  <2>1. c.arg.id \in ToSet(order)
    BY <1>3 DEF DigitalHumans!Accepted, DigitalHumans!Exists, DigitalHumans!ToSet, ToSet
  <2> DEFINE seq == DigitalHumans!Newest(c.arg.id)
  <2>2. seq \in Seq(Nat) /\ ToSet(seq) = ToSet(order)
    BY <1>1, <2>1 DEF DigitalHumans!Newest
  <2>3. order' = DigitalHumans!DefaultFirst(seq, default)
    BY <1>3 DEF DigitalHumans!Does
  <2> HIDE DEF seq
  <2> QED BY <1>2, <2>2, <2>3
<1>4. CASE c.op = "default"
  <2>1. order' = DigitalHumans!DefaultFirst(order, c.arg.id)
    BY <1>4 DEF DigitalHumans!Does
  <2> QED BY <1>2, <2>1
<1>5. CASE c.op = "delete"
  <2>1. order' = DigitalHumans!Others(order, c.arg.id)
    BY <1>5 DEF DigitalHumans!Does
  <2> QED BY <1>5, <2>1, OthersItems
<1>6. CASE c.op \notin {"rename", "default", "delete"}
  BY <1>6 DEF DigitalHumans!Does
<1> QED BY <1>3, <1>4, <1>5, <1>6

\* An answer: nobody goes but by a deletion, which is then alone.
LEMMA HumanAnswers ==
  ASSUME HumanInv, NEW c \in calls, NEW ans, calls' = (calls \ {c}) \cup {[c EXCEPT !.ans = ans]},
         faults' \in {faults, faults + 1}, UNCHANGED <<target, result, deleting, reused>>,
         \/ order' = order
         \/ order' \in Seq(Nat) /\ (c.op # "delete" => ToSet(order') = ToSet(order))
  PROVE  HumanInv'
<1> DEFINE d == WithAnswer(c, ans)
<1>1. calls' = (calls \ {c}) \cup {d}
  BY AnsweredForm DEF HumanInv
<1>2. WellFormed(d) /\ d.op = c.op /\ d.arg = c.arg
  BY DEF WellFormed, WithAnswer
<1> HIDE DEF d
<1>3. faults' \in Nat /\ (faults' = 0 => faults = 0) /\ order' \in Seq(Nat)
  BY DEF HumanInv
<1>4. (\A e \in calls' : WellFormed(e)) /\ OneDeletion'
  BY <1>1, <1>2 DEF HumanInv, OneDeletion, Deletion
<1>5. CASE c.op = "delete"
  <2>1. DeletionFits(c)
    BY <1>5 DEF HumanInv, Deletion
  <2>2. \A e \in calls' : Deletion(e) => e.op = "delete" /\ e.arg = c.arg
    BY <1>1, <1>2, <1>5 DEF HumanInv, OneDeletion, Deletion
  <2>3. \A e \in calls' : Deletion(e) => DeletionFits(e)'
    BY <2>1, <2>2 DEF DeletionFits
  <2>4. result' = DigitalHumans!NoResult
    BY <2>1 DEF DeletionFits
  <2> QED BY <1>3, <1>4, <2>3, <2>4 DEF HumanInv, DigitalHumans!ResultIsOfTarget, DigitalHumans!FailedCleanupKeeps
<1>6. CASE c.op # "delete"
  <2>1. ToSet(order') = ToSet(order)
    BY <1>6
  <2>2. \A e \in calls : Deletion(e) => DeletionFits(e)
    BY DEF HumanInv
  <2>3. \A e \in calls' : Deletion(e) => DeletionFits(e)'
    BY <1>1, <1>2, <1>3, <2>1, <2>2 DEF Deletion, DeletionFits
  <2>4. DigitalHumans!FailedCleanupKeeps'
    <3>1. faults = 0 => DigitalHumans!FailedCleanupKeeps
      BY DEF HumanInv
    <3>2. /\ DigitalHumans!Exists(result.id) <=> result.id \in ToSet(order)
          /\ DigitalHumans!Exists(result.id)' <=> result.id \in ToSet(order')
      BY DEF DigitalHumans!Exists, DigitalHumans!ToSet, ToSet
    <3>3. faults' = 0 \/ faults' > 0
      BY <1>3
    <3> QED BY <1>3, <2>1, <3>1, <3>2, <3>3 DEF DigitalHumans!FailedCleanupKeeps
  <2>5. DigitalHumans!ResultIsOfTarget'
    BY DEF HumanInv, DigitalHumans!ResultIsOfTarget
  <2> QED BY <1>3, <1>4, <2>3, <2>4, <2>5 DEF HumanInv
<1> QED BY <1>5, <1>6

\* The service answers, or a request fails.
LEMMA HumanServe ==
  ASSUME HumanInv, NEW c \in calls, DigitalHumans!Serve(c) \/ DigitalHumans!Lose(c) PROVE HumanInv'
<1>1. order \in Seq(Nat)
  BY DEF HumanInv
<1>2. UNCHANGED <<target, result, deleting, reused>>
  BY DEF DigitalHumans!Serve, DigitalHumans!Lose, DigitalHumans!removalVars
<1>3. \/ order' = order
      \/ order' \in Seq(Nat) /\ (c.op # "delete" => ToSet(order') = ToSet(order))
  BY <1>1, HumanOrder DEF DigitalHumans!Serve, DigitalHumans!Lose, DigitalHumans!serviceVars
<1>4. CASE DigitalHumans!Serve(c)
  <2>1. PICK ans : calls' = (calls \ {c}) \cup {[c EXCEPT !.ans = ans]} /\ faults' = faults
    BY <1>4 DEF DigitalHumans!Serve, DigitalHumans!Serves, DigitalHumans!Answered
  <2> QED BY <1>2, <1>3, <2>1, HumanAnswers
<1>5. CASE DigitalHumans!Lose(c)
  <2>1. calls' = (calls \ {c}) \cup {[c EXCEPT !.ans = DigitalHumans!Failed]} /\ faults' = faults + 1
    BY <1>5 DEF DigitalHumans!Lose, DigitalHumans!Fails, DigitalHumans!Answered
  <2> QED BY <1>2, <1>3, <2>1, HumanAnswers
<1> QED BY <1>4, <1>5

\* A step that has nothing to do with a deletion: it may send one other request.
LEMMA HumanRests ==
  ASSUME HumanInv, NEW d, WellFormed(d), ~Deletion(d), calls' \subseteq calls \cup {d},
         UNCHANGED <<faults, order, target, result, deleting, reused>>
  PROVE  HumanInv'
BY DEF HumanInv, OneDeletion, DeletionFits, DigitalHumans!ResultIsOfTarget, DigitalHumans!FailedCleanupKeeps,
       DigitalHumans!Exists

\* Reading the list, its pages and its jobs; and the actions of a row.
LEMMA HumanReads ==
  ASSUME HumanInv,
         \/ DigitalHumans!Load \/ DigitalHumans!LoadMore
         \/ \E id : \E op \in {"default", "rename", "retry", "cleanup"} : DigitalHumans!RowAction(op, id)
         \/ \E id : DigitalHumans!Drive(id)
         \/ \E c \in calls : \/ DigitalHumans!Loaded(c) \/ DigitalHumans!MoreLoaded(c)
                             \/ DigitalHumans!JobsLoaded(c) \/ DigitalHumans!RowActionEnds(c)
  PROVE  HumanInv'
<1>1. ASSUME NEW op, NEW arg, NEW n, op # "delete", op = "cleanup" => arg.choice = "row"
      PROVE  WellFormed(Sent(op, arg, n)) /\ ~Deletion(Sent(op, arg, n))
  BY <1>1 DEF WellFormed, Deletion, Sent
<1>2. ASSUME NEW op, NEW arg, op # "delete", op = "cleanup" => arg.choice = "row",
             DigitalHumans!Press({DigitalHumans!Call(op, arg)}), UNCHANGED <<order, target, result, deleting, reused>>
      PROVE  HumanInv'
  <2>1. calls' \subseteq calls \cup {Sent(op, arg, presses')} /\ faults' = faults
    BY <1>2, SentForm DEF DigitalHumans!Press, DigitalHumans!By, DigitalHumans!Call, DigitalHumans!Unanswered, Unanswered
  <2> QED BY <1>1, <1>2, <2>1, HumanRests
<1>3. ASSUME NEW c, DigitalHumans!Heard(c, {}), UNCHANGED <<order, target, result, deleting, reused>>
      PROVE  HumanInv'
  <2>1. calls' \subseteq calls /\ faults' = faults
    BY <1>3 DEF DigitalHumans!Heard, DigitalHumans!By
  <2> QED BY <1>1, <1>3, <2>1, HumanRests
<1>4. ASSUME DigitalHumans!Load \/ DigitalHumans!LoadMore PROVE HumanInv'
  <2>1. UNCHANGED <<order, target, result, deleting, reused>>
    BY <1>4 DEF DigitalHumans!Load, DigitalHumans!LoadMore, DigitalHumans!serviceVars, DigitalHumans!removalVars
  <2>2. \/ DigitalHumans!Press({DigitalHumans!Call("list", [offset |-> 0])})
        \/ DigitalHumans!Press({DigitalHumans!Call("more", [offset |-> Len(humansRef)])})
    BY <1>4 DEF DigitalHumans!Load, DigitalHumans!LoadMore
  <2> QED BY <1>2, <2>1, <2>2
<1>5. ASSUME NEW id, NEW op \in {"default", "rename", "retry", "cleanup"}, DigitalHumans!RowAction(op, id) PROVE HumanInv'
  <2>1. UNCHANGED <<order, target, result, deleting, reused>>
    BY <1>5 DEF DigitalHumans!RowAction, DigitalHumans!serviceVars, DigitalHumans!removalVars
  <2>2. DigitalHumans!Press({DigitalHumans!Call(op, [id |-> id, choice |-> "row"])})
    BY <1>5 DEF DigitalHumans!RowAction
  <2> QED BY <1>2, <2>1, <2>2
<1>6. ASSUME NEW id, DigitalHumans!Drive(id) PROVE HumanInv'
  <2>1. UNCHANGED <<calls, faults, order, target, result, deleting, reused>>
    BY <1>6 DEF DigitalHumans!Drive, DigitalHumans!callVars, DigitalHumans!removalVars
  <2> QED BY <1>1, <2>1, HumanRests
<1>7. ASSUME NEW c \in calls, DigitalHumans!Loaded(c) \/ DigitalHumans!JobsLoaded(c) \/ DigitalHumans!RowActionEnds(c)
      PROVE  HumanInv'
  BY <1>3, <1>7 DEF DigitalHumans!Loaded, DigitalHumans!JobsLoaded, DigitalHumans!RowActionEnds,
     DigitalHumans!serviceVars, DigitalHumans!removalVars
<1>8. ASSUME NEW c \in calls, DigitalHumans!MoreLoaded(c) PROVE HumanInv'
  <2>1. UNCHANGED <<order, target, result, deleting, reused>>
    BY <1>8 DEF DigitalHumans!MoreLoaded, DigitalHumans!serviceVars, DigitalHumans!removalVars
  <2>2. CASE ~c.ans.ok
    BY <1>3, <1>8, <2>1, <2>2 DEF DigitalHumans!MoreLoaded
  <2>3. CASE c.ans.ok
    <3> DEFINE arg == [ids |-> DigitalHumans!Ids(c.ans.data.items)]
    <3>1. calls' \subseteq calls \cup {Sent("jobs", arg, c.n)} /\ faults' = faults
      BY <1>8, <2>3, SentForm DEF DigitalHumans!MoreLoaded, DigitalHumans!Heard, DigitalHumans!By, DigitalHumans!Call,
         DigitalHumans!Unanswered, Unanswered
    <3> HIDE DEF arg
    <3> QED BY <1>1, <2>1, <3>1, HumanRests
  <2> QED BY <2>2, <2>3
<1> QED BY <1>4, <1>5, <1>6, <1>7, <1>8

\* The dialog is opened and closed.
LEMMA HumanDialog ==
  ASSUME HumanInv, DigitalHumans!CloseDelete \/ \E id : DigitalHumans!OpenDelete(id) PROVE HumanInv'
<1>1. UNCHANGED <<calls, faults, order, deleting>> /\ result' = DigitalHumans!NoResult
      /\ (target' = 0 \/ reused' = deleting)
  BY DEF DigitalHumans!CloseDelete, DigitalHumans!OpenDelete, DigitalHumans!callVars, DigitalHumans!serviceVars,
     DigitalHumans!Nobody
<1> QED BY <1>1 DEF HumanInv, OneDeletion, DeletionFits, DigitalHumans!ResultIsOfTarget, DigitalHumans!FailedCleanupKeeps

\* The deletion of the human the dialog names begins.
LEMMA HumanConfirm ==
  ASSUME HumanInv, NEW choice \in {"cleanup", "skip"}, DigitalHumans!ConfirmDelete(choice) PROVE HumanInv'
<1> DEFINE op == IF choice = "cleanup" THEN "cleanup" ELSE "delete"
           arg == [id |-> target, choice |-> choice, gone |-> ~DigitalHumans!Exists(target)]
           d == Sent(op, arg, presses')
<1>1. /\ calls' = calls \cup {d} /\ deleting' = TRUE /\ ~deleting /\ result = DigitalHumans!NoResult
      /\ UNCHANGED <<faults, order, target, result, reused>>
  BY SentForm DEF DigitalHumans!ConfirmDelete, DigitalHumans!Press, DigitalHumans!By, DigitalHumans!Call,
     DigitalHumans!Unanswered, Unanswered, DigitalHumans!serviceVars
<1>2. WellFormed(d) /\ d.arg.id = target /\ d.arg.gone = ~DigitalHumans!Exists(target)
  BY DEF WellFormed, Sent
<1> HIDE DEF d
<1>3. \A e \in calls : ~Deletion(e)
  BY <1>1 DEF HumanInv, DeletionFits
<1>4. DigitalHumans!Exists(target) <=> target \in ToSet(order)
  BY DEF DigitalHumans!Exists, DigitalHumans!ToSet, ToSet
<1>5. \A e \in calls' : Deletion(e) => DeletionFits(e)'
  BY <1>1, <1>2, <1>3, <1>4 DEF DeletionFits
<1>6. (\A e \in calls' : WellFormed(e)) /\ OneDeletion'
  BY <1>1, <1>2, <1>3 DEF HumanInv, OneDeletion
<1> QED BY <1>1, <1>5, <1>6 DEF HumanInv, DigitalHumans!ResultIsOfTarget, DigitalHumans!FailedCleanupKeeps

\* The clean-up is answered: the deletion follows, or the screen says that it failed.
LEMMA HumanCleaned == ASSUME HumanInv, NEW c \in calls, DigitalHumans!CleanedUp(c) PROVE HumanInv'
<1> DEFINE d == Sent("delete", c.arg, c.n)
<1>1. /\ Deletion(c) /\ c.op = "cleanup" /\ faults' = faults /\ UNCHANGED <<order, target, reused>>
      /\ c.ans.ok => calls' = (calls \ {c}) \cup {[[c EXCEPT !.op = "delete", !.ans = Unanswered] EXCEPT !.n = c.n]}
                     /\ UNCHANGED <<result, deleting>>
      /\ ~c.ans.ok => calls' = calls \ {c} /\ result' = [id |-> c.arg.id, kind |-> "failed", gone |-> c.arg.gone]
  BY DEF DigitalHumans!CleanedUp, DigitalHumans!Heard, DigitalHumans!By, DigitalHumans!Unanswered, Unanswered, Deletion,
     DigitalHumans!serviceVars
<1>2. [[c EXCEPT !.op = "delete", !.ans = Unanswered] EXCEPT !.n = c.n] = d
  <2>1. PICK o, a, s, n : c = [op |-> o, arg |-> a, ans |-> s, n |-> n]
    BY DEF HumanInv, WellFormed
  <2>2. [c EXCEPT !.op = "delete"] = [op |-> "delete", arg |-> a, ans |-> s, n |-> n]
    BY <2>1
  <2> DEFINE r == [c EXCEPT !.op = "delete"]
  <2>3. [r EXCEPT !.ans = Unanswered] = Sent("delete", a, n)
    <3>1. r = [op |-> "delete", arg |-> a, ans |-> s, n |-> n]
      BY <2>2
    <3> HIDE DEF r
    <3> QED BY <3>1 DEF Sent
  <2>4. [Sent("delete", a, n) EXCEPT !.n = n] = Sent("delete", a, n)
    BY DEF Sent
  <2>5. c.arg = a /\ c.n = n
    BY <2>1
  <2> QED BY <2>3, <2>4, <2>5
<1>3. WellFormed(d) /\ d.op = "delete" /\ d.arg = c.arg
  BY DEF WellFormed, Sent
<1> HIDE DEF d
<1>4. DeletionFits(c) /\ \A e \in calls : e # c => ~Deletion(e)
  BY <1>1 DEF HumanInv, OneDeletion
<1>5. CASE c.ans.ok
  <2>1. \A e \in calls' : Deletion(e) => DeletionFits(e)'
    BY <1>1, <1>2, <1>3, <1>4, <1>5 DEF DeletionFits
  <2>2. (\A e \in calls' : WellFormed(e)) /\ OneDeletion'
    BY <1>1, <1>2, <1>3, <1>4, <1>5 DEF HumanInv, OneDeletion
  <2>3. result' = DigitalHumans!NoResult
    BY <1>1, <1>4, <1>5 DEF DeletionFits
  <2> QED BY <1>1, <2>1, <2>2, <2>3 DEF HumanInv, DigitalHumans!ResultIsOfTarget, DigitalHumans!FailedCleanupKeeps
<1>6. CASE ~c.ans.ok
  <2>1. \A e \in calls' : ~Deletion(e) /\ WellFormed(e)
    BY <1>1, <1>4, <1>6 DEF HumanInv
  <2>2. result'.id = c.arg.id /\ result'.gone = c.arg.gone
    BY <1>1, <1>6
  <2>3. DigitalHumans!ResultIsOfTarget'
    BY <1>1, <1>4, <2>2 DEF DeletionFits, DigitalHumans!ResultIsOfTarget, DigitalHumans!Nobody
  <2>4. DigitalHumans!FailedCleanupKeeps'
    <3>1. faults = 0 \/ faults' > 0
      BY <1>1 DEF HumanInv
    <3>2. DigitalHumans!Exists(c.arg.id)' <=> c.arg.id \in ToSet(order)
      BY <1>1 DEF DigitalHumans!Exists, DigitalHumans!ToSet, ToSet
    <3> QED BY <1>1, <1>4, <2>2, <3>1, <3>2 DEF DeletionFits, DigitalHumans!FailedCleanupKeeps
  <2> QED BY <1>1, <2>1, <2>3, <2>4 DEF HumanInv, OneDeletion
<1> QED BY <1>5, <1>6

\* The deletion is answered.
LEMMA HumanDeleted == ASSUME HumanInv, NEW c \in calls, DigitalHumans!Deleted(c) PROVE HumanInv'
<1>1. /\ Deletion(c) /\ faults' = faults /\ calls' = calls \ {c} /\ UNCHANGED <<order, target, reused>>
      /\ \/ result' = result
         \/ result'.id = c.arg.id /\ result'.kind \in {"pending", "none"}
  BY DEF DigitalHumans!Deleted, DigitalHumans!Heard, DigitalHumans!By, Deletion, DigitalHumans!serviceVars
<1>2. DeletionFits(c) /\ \A e \in calls' : ~Deletion(e) /\ WellFormed(e)
  BY <1>1 DEF HumanInv, OneDeletion
<1>3. DigitalHumans!ResultIsOfTarget'
  BY <1>1, <1>2 DEF DeletionFits, DigitalHumans!ResultIsOfTarget, DigitalHumans!Nobody
<1>4. DigitalHumans!FailedCleanupKeeps'
  BY <1>1, <1>2 DEF DeletionFits, DigitalHumans!FailedCleanupKeeps
<1> QED BY <1>1, <1>2, <1>3, <1>4 DEF HumanInv, OneDeletion

\* Each step of the digital humans keeps their invariant.
LEMMA HumanNext == ASSUME HumanInv, DigitalHumans!Next PROVE HumanInv'
<1>1. CASE DigitalHumans!Load \/ DigitalHumans!LoadMore
  BY <1>1, HumanReads
<1>2. CASE DigitalHumans!CloseDelete
  BY <1>2, HumanDialog
<1>3. ASSUME NEW choice \in {"cleanup", "skip"}, DigitalHumans!ConfirmDelete(choice) PROVE HumanInv'
  BY <1>3, HumanConfirm
<1>4. ASSUME NEW id, DigitalHumans!OpenDelete(id) PROVE HumanInv'
  BY <1>4, HumanDialog
<1>5. ASSUME NEW id, \/ DigitalHumans!Drive(id)
                    \/ \E op \in {"default", "rename", "retry", "cleanup"} : DigitalHumans!RowAction(op, id)
      PROVE  HumanInv'
  BY <1>5, HumanReads
<1>6. ASSUME NEW c \in calls, DigitalHumans!Serve(c) \/ DigitalHumans!Lose(c) PROVE HumanInv'
  BY <1>6, HumanServe
<1>7. ASSUME NEW c \in calls, \/ DigitalHumans!Loaded(c) \/ DigitalHumans!MoreLoaded(c)
                             \/ DigitalHumans!JobsLoaded(c) \/ DigitalHumans!RowActionEnds(c)
      PROVE  HumanInv'
  BY <1>7, HumanReads
<1>8. ASSUME NEW c \in calls, DigitalHumans!CleanedUp(c) \/ DigitalHumans!Deleted(c) PROVE HumanInv'
  BY <1>8, HumanCleaned, HumanDeleted
<1> QED BY <1>1, <1>2, <1>3, <1>4, <1>5, <1>6, <1>7, <1>8 DEF DigitalHumans!Next

-----------------------------------------------------------------------------
\* The conversation list: rows without those of one conversation.
LEMMA WithoutRows ==
  ASSUME NEW s, IsList(s), NEW id
  PROVE  /\ IsList(Conversations!Without(s, id)) /\ ToSet(Conversations!Without(s, id)) \subseteq ToSet(s)
         /\ Conversations!Ids(Conversations!Without(s, id)) = Conversations!Ids(s) \ {id}
<1> DEFINE I == {n \in DOMAIN s : s[n].id # id}
<1>1. /\ IsList(Select(s, I)) /\ ToSet(Select(s, I)) = {s[n] : n \in I} /\ ToSet(Select(s, I)) \subseteq ToSet(s)
  <2>1. I \in SUBSET DOMAIN s
    OBVIOUS
  <2> HIDE DEF I
  <2> QED BY <2>1, KeptOfList
<1>2. Conversations!Without(s, id) = Select(s, I)
  BY DEF Conversations!Without, Conversations!Select, Conversations!Nth, Conversations!Rank, Select, Nth, Rank,
         Conversations!Cardinality, Cardinality
<1>3. Conversations!Ids(Select(s, I)) = {row.id : row \in {s[n] : n \in I}}
  <2>1. Conversations!Ids(Select(s, I)) = {row.id : row \in ToSet(Select(s, I))}
    BY DEF Conversations!Ids, ToSet
  <2> QED BY <1>1, <2>1
<1>4. {row.id : row \in {s[n] : n \in I}} = Conversations!Ids(s) \ {id}
  BY DEF Conversations!Ids
<1> QED BY <1>1, <1>2, <1>3, <1>4

\* Rows without a second one of any conversation.
LEMMA DedupeRows ==
  ASSUME NEW s, IsList(s)
  PROVE  IsList(Conversations!Dedupe(s)) /\ ToSet(Conversations!Dedupe(s)) \subseteq ToSet(s)
<1> DEFINE I == {n \in DOMAIN s : \A m \in 1..(n - 1) : s[m].id # s[n].id}
<1>1. IsList(Select(s, I)) /\ ToSet(Select(s, I)) \subseteq ToSet(s)
  <2>1. I \in SUBSET DOMAIN s
    OBVIOUS
  <2> HIDE DEF I
  <2> QED BY <2>1, KeptOfList
<1>2. Conversations!Dedupe(s) = Select(s, I)
  BY DEF Conversations!Dedupe, Conversations!Select, Conversations!Nth, Conversations!Rank, Select, Nth, Rank,
         Conversations!Cardinality, Cardinality
<1> QED BY <1>1, <1>2

\* The conversations of some rows.
LEMMA IdsOfRows ==
  ASSUME NEW s
  PROVE  Conversations!Ids(s) = {row.id : row \in ToSet(s)}
BY DEF Conversations!Ids, ToSet

\* What the service lists was read for the view it was asked for.
LEMMA ListingRows ==
  ASSUME IsList(store), NEW view, NEW offset \in Nat, PageSize \in Nat
  PROVE  /\ IsList(Conversations!Listing(view, offset).rows)
         /\ \A row \in ToSet(Conversations!Listing(view, offset).rows) : row.view = view
<1> DEFINE I == {n \in DOMAIN store : Conversations!Matches(store[n], view)}
           all == Conversations!Select(store, I)
           page == Conversations!Page(all, offset, PageSize)
           rs == Conversations!Listing(view, offset).rows
<1>1. IsList(all)
  <2>1. I \in SUBSET DOMAIN store
    OBVIOUS
  <2>2. Conversations!Select(store, I) = Select(store, I)
    BY DEF Conversations!Select, Conversations!Nth, Conversations!Rank, Select, Nth, Rank,
           Conversations!Cardinality, Cardinality
  <2> HIDE DEF I
  <2> QED BY <2>1, <2>2, KeptOfList
<1>2. page.items \in Seq(ToSet(all))
  <2> HIDE DEF all
  <2>1. Len(all) \in Nat /\ all \in Seq(ToSet(all))
    BY <1>1 DEF IsList
  <2> DEFINE top == IF offset + PageSize < Len(all) THEN offset + PageSize ELSE Len(all)
  <2>2. top \in Nat /\ top <= Len(all)
    BY <2>1
  <2>3. SubSeq(all, offset + 1, top) \in Seq(ToSet(all))
    <3> HIDE DEF top
    <3>1. \A n \in (offset + 1)..top : all[n] \in ToSet(all)
      BY <2>1, <2>2 DEF ToSet
    <3> QED BY <2>2, <3>1, SubSeqProperties
  <2> QED BY <2>3 DEF Conversations!Page
<1>3. rs = [n \in DOMAIN page.items |-> [id |-> page.items[n].id, archived |-> page.items[n].archived, view |-> view]]
  BY DEF Conversations!Listing
<1>4. Len(page.items) \in Nat /\ DOMAIN page.items = 1..Len(page.items)
  <2> HIDE DEF page
  <2> QED BY <1>2
<1> HIDE DEF page, rs
<1>5. DOMAIN rs = 1..Len(page.items) /\ rs = [n \in DOMAIN rs |-> rs[n]]
  BY <1>3, <1>4
<1>6. \A n \in DOMAIN rs : rs[n].view = view
  BY <1>3
<1>7. IsList(rs)
  BY <1>4, <1>5, WrittenList
<1> QED BY <1>6, <1>7 DEF rs, ToSet

\* While rows are shown they are of the view, in the mirror too, unless it was recorded that they
\* may not be; no row is told to be deleted, in the mirror neither, unless it is known to be back;
\* and what the mirror alone has of a deletion under way is known to be back.
RequestFits(c) ==
  /\ WellFormed(c)
  /\ c.op = "delete" => IsList(c.arg.was)
  /\ c.op \in {"list", "more"} =>
       /\ c.arg.offset \in Nat
       /\ c.ans.ok => IsList(c.ans.data.rows) /\ \A row \in ToSet(c.ans.data.rows) : row.view = c.arg.view
DataFits ==
  /\ IsList(store) /\ IsList(items) /\ IsList(itemsRef)
  /\ \A c \in calls : RequestFits(c)
  /\ again.op \notin {"list", "more"} /\ (again.op = "delete" => IsList(again.arg.was))
ViewFits == (~loading /\ ~listError) =>
  astray \/ \A row \in ToSet(items) \cup ToSet(itemsRef) : row.view = Conversations!View
ToldFits ==
  /\ (Conversations!Ids(items) \cup Conversations!Ids(itemsRef)) \cap told \subseteq back
  /\ \A d \in calls : d.op = "delete" /\ d.arg.id \in Conversations!Ids(itemsRef) =>
       d.arg.id \in Conversations!Ids(items) \cup back
ListInv == DataFits /\ ViewFits /\ ToldFits

\* What the service does keeps its list.
LEMMA EffectRows ==
  ASSUME IsList(store), NEW c
  PROVE  IsList(Conversations!Effect(c))
<1>1. ASSUME NEW x PROVE IsList(<<x>> \o store) /\ IsList(<<x>> \o Conversations!Without(store, c.arg.id))
  <2>1. IsList(<<x>>)
    BY DEF IsList, ToSet
  <2>2. IsList(Conversations!Without(store, c.arg.id))
    BY WithoutRows
  <2> QED BY <2>1, <2>2, JoinedLists
<1>2. IsList([n \in DOMAIN store |-> [store[n] EXCEPT !.deleted = @ \/ store[n].id = c.arg.id]])
  <2> DEFINE t == [n \in DOMAIN store |-> [store[n] EXCEPT !.deleted = @ \/ store[n].id = c.arg.id]]
  <2>1. Len(store) \in Nat /\ DOMAIN store = 1..Len(store)
    BY DEF IsList
  <2>2. DOMAIN t = DOMAIN store /\ t = [n \in DOMAIN t |-> t[n]]
    OBVIOUS
  <2> HIDE DEF t
  <2>3. IsList(t)
    BY <2>1, <2>2, WrittenList
  <2> QED BY <2>3 DEF t
<1>3. CASE c.op = "create"
  BY <1>1, <1>3 DEF Conversations!Effect
<1>4. CASE c.op \in {"rename", "clear"}
  BY <1>1, <1>4 DEF Conversations!Effect
<1>5. CASE c.op = "archive"
  BY <1>1, <1>5 DEF Conversations!Effect
<1>6. CASE c.op = "delete"
  BY <1>2, <1>6 DEF Conversations!Effect
<1>7. CASE c.op \notin {"create", "rename", "clear", "archive", "delete"}
  BY <1>7 DEF Conversations!Effect
<1> QED BY <1>3, <1>4, <1>5, <1>6, <1>7

\* A step that changes no row: deletions under way are those that were, and what is shown then
\* was shown before in the same view.
LEMMA ListRests ==
  ASSUME ListInv, UNCHANGED <<items, itemsRef, back, told>>, DataFits',
         \A d \in calls' : d.op = "delete" => \E e \in calls : e.op = "delete" /\ e.arg = d.arg,
         \/ loading' \/ listError' \/ astray'
         \/ ~loading /\ ~listError /\ ~astray /\ UNCHANGED Conversations!View
  PROVE  ListInv'
<1>1. ToldFits'
  <2>1. Conversations!Ids(items)' = Conversations!Ids(items) /\ Conversations!Ids(itemsRef)' = Conversations!Ids(itemsRef)
    OBVIOUS
  <2> QED BY <2>1 DEF ListInv, ToldFits
<1>2. ViewFits'
  BY DEF ListInv, ViewFits
<1> QED BY <1>1, <1>2 DEF ListInv

\* The service answers, or a request fails.
LEMMA ListServe ==
  ASSUME ListInv, NEW c \in calls, Conversations!Serve(c) \/ Conversations!Lose(c) PROVE ListInv'
<1>1. PICK ans : /\ Conversations!Answered(c, ans)
                 /\ \/ ans = Conversations!Failed
                    \/ /\ c.op \in {"list", "more"}
                       /\ ans = Conversations!Ok(Conversations!Listing(c.arg.view, c.arg.offset))
                    \/ c.op \notin {"list", "more"}
  BY DEF Conversations!Serve, Conversations!Lose, Conversations!Serves, Conversations!Fails
<1>2. /\ store' = store \/ store' = Conversations!Effect(c)
      /\ UNCHANGED <<debounced, tab, items, itemsRef, astray, back, loading, listError, again, told>>
  BY DEF Conversations!Serve, Conversations!Lose, Conversations!viewVars, Conversations!rowVars,
     Conversations!pageVars, Conversations!dialogVars
<1>3. RequestFits(c) /\ WellFormed(c)
  BY DEF ListInv, DataFits, RequestFits
<1> DEFINE d == WithAnswer(c, ans)
<1>4. calls' = (calls \ {c}) \cup {d}
  BY <1>1, <1>3, AnsweredForm DEF Conversations!Answered
<1>5. WellFormed(d) /\ d.op = c.op /\ d.arg = c.arg /\ d.ans = ans
  BY DEF WellFormed, WithAnswer
<1> HIDE DEF d
<1>6. RequestFits(d)
  <2>1. ans = Conversations!Failed => ~ans.ok
    BY DEF Conversations!Failed
  <2>2. ASSUME c.op \in {"list", "more"}, ans = Conversations!Ok(Conversations!Listing(c.arg.view, c.arg.offset))
        PROVE  IsList(ans.data.rows) /\ \A row \in ToSet(ans.data.rows) : row.view = c.arg.view
    <3>1. ans.data = Conversations!Listing(c.arg.view, c.arg.offset)
      BY <2>2 DEF Conversations!Ok
    <3>2. c.arg.offset \in Nat /\ IsList(store) /\ PageSize \in Nat
      BY <1>3, <2>2, ScreenConstants DEF ListInv, DataFits, RequestFits
    <3> QED BY <3>1, <3>2, ListingRows
  <2> QED BY <1>1, <1>3, <1>5, <2>1, <2>2 DEF RequestFits
<1>7. DataFits'
  <2>1. IsList(store')
    BY <1>2, EffectRows DEF ListInv, DataFits
  <2> QED BY <1>2, <1>4, <1>6, <2>1 DEF ListInv, DataFits
<1>8. \A e \in calls' : e.op = "delete" => \E f \in calls : f.op = "delete" /\ f.arg = e.arg
  BY <1>4, <1>5
<1>9. UNCHANGED Conversations!View
  BY <1>2 DEF Conversations!View
<1>10. CASE ~(loading \/ listError \/ astray)
  BY <1>2, <1>7, <1>8, <1>9, <1>10, ListRests
<1>11. CASE loading \/ listError \/ astray
  BY <1>2, <1>7, <1>8, <1>11, ListRests
<1> QED BY <1>10, <1>11

\* The list is read again: nothing is shown until the answer comes.
LEMMA ListLoads ==
  ASSUME ListInv, NEW view, NEW others \in SUBSET calls, Conversations!Load(view, others),
         UNCHANGED <<store, items, itemsRef, back, told>>, again'.op \notin {"delete", "list", "more"} \/ again' = again
  PROVE  ListInv'
<1> DEFINE new == Sent("list", [view |-> view, offset |-> 0, seq |-> searchSeq + 1], 0)
<1>1. calls' = Conversations!Abort(others) \cup {new} /\ loading' = TRUE
  BY DEF Conversations!Load, Conversations!Call, Conversations!Unanswered, Unanswered, Sent
<1>2. RequestFits(new) /\ new.op = "list"
  BY DEF RequestFits, WellFormed, Sent, Unanswered
<1> HIDE DEF new
<1>3. \A c \in Conversations!Abort(others) : c \in calls \/ (c.op = "list" /\ RequestFits(c))
  <2> SUFFICES ASSUME NEW e \in others, e.op = "list" PROVE LET c == [e EXCEPT !.ans = Conversations!Failed]
                                                            IN c.op = "list" /\ RequestFits(c)
    BY DEF Conversations!Abort
  <2> DEFINE d == WithAnswer(e, Conversations!Failed)
  <2>1. RequestFits(e)
    BY DEF ListInv, DataFits
  <2>2. [e EXCEPT !.ans = Conversations!Failed] = d
    BY <2>1, AnsweredForm DEF RequestFits
  <2>3. d.op = "list" /\ d.arg = e.arg /\ WellFormed(d) /\ ~d.ans.ok
    BY DEF WithAnswer, WellFormed, Conversations!Failed
  <2>4. RequestFits(d)
    <3> HIDE DEF d
    <3> QED BY <2>1, <2>3 DEF RequestFits
  <2> QED BY <2>2, <2>3, <2>4
<1>4. DataFits'
  <2>1. \A c \in calls' : RequestFits(c)
    BY <1>1, <1>2, <1>3 DEF ListInv, DataFits
  <2> QED BY <2>1 DEF ListInv, DataFits
<1>5. \A d \in calls' : d.op = "delete" => \E e \in calls : e.op = "delete" /\ e.arg = d.arg
  BY <1>1, <1>2, <1>3
<1> QED BY <1>1, <1>4, <1>5, ListRests

\* The tab, the search, a change that was answered, and the retry of the list have it read again.
LEMMA ListReloads ==
  ASSUME ListInv,
         \/ Conversations!Debounce \/ Conversations!RetryList
         \/ \E next : Conversations!HandleFilterChange(next)
  PROVE  ListInv'
<1>1. /\ Conversations!Load(Conversations!View', calls) \/ Conversations!Load(Conversations!View, calls)
      /\ UNCHANGED <<store, items, itemsRef, back, told, again>>
  BY DEF Conversations!Debounce, Conversations!RetryList, Conversations!HandleFilterChange,
     Conversations!rowVars, Conversations!dialogVars
<1>2. PICK view : Conversations!Load(view, calls)
  BY <1>1
<1> QED BY <1>1, <1>2, ListLoads

\* A change is answered: the list is read again, or the error is shown.
LEMMA ListChanged ==
  ASSUME ListInv, NEW c \in calls, Conversations!Changed(c) PROVE ListInv'
<1>1. UNCHANGED <<store, debounced, tab, items, itemsRef, astray, back, told>> /\ c.op \notin {"delete", "list", "more"}
  BY DEF Conversations!Changed, Conversations!viewVars, Conversations!rowVars
<1>2. CASE c.ans.ok
  <2>1. Conversations!Load(c.arg.view, calls \ {c}) /\ again' = Conversations!None
    BY <1>2 DEF Conversations!Changed
  <2>2. again'.op \notin {"delete", "list", "more"} /\ calls \ {c} \in SUBSET calls
    BY <2>1 DEF Conversations!None
  <2> QED BY <1>1, <2>1, <2>2, ListLoads
<1>3. CASE ~c.ans.ok
  <2>1. /\ calls' = calls \ {c} /\ again' = [op |-> c.op, arg |-> c.arg]
        /\ UNCHANGED <<loading, listError>>
    BY <1>3 DEF Conversations!Changed, Conversations!pageVars
  <2>2. DataFits'
    BY <1>1, <2>1 DEF ListInv, DataFits
  <2>3. \A d \in calls' : d.op = "delete" => \E e \in calls : e.op = "delete" /\ e.arg = d.arg
    BY <2>1
  <2>4. UNCHANGED Conversations!View
    BY <1>1 DEF Conversations!View
  <2>5. CASE loading \/ listError \/ astray
    BY <1>1, <2>1, <2>2, <2>3, <2>5, ListRests
  <2>6. CASE ~(loading \/ listError \/ astray)
    BY <1>1, <2>1, <2>2, <2>3, <2>4, <2>6, ListRests
  <2> QED BY <2>5, <2>6
<1> QED BY <1>2, <1>3

\* A request that is no deletion is sent, and no row changes.
LEMMA ListSends ==
  ASSUME ListInv, NEW op, NEW arg, Conversations!Press({Conversations!Call(op, arg)}),
         op # "delete", op \in {"list", "more"} => arg.offset \in Nat,
         UNCHANGED <<store, items, itemsRef, back, told, again, debounced, tab, loading>>,
         astray' = astray \/ (astray' <=> (astray \/ listError)),
         listError' = listError \/ (listError' = FALSE /\ (astray' <=> (astray \/ listError)))
  PROVE  ListInv'
<1> DEFINE new == Sent(op, arg, presses')
<1>1. calls' = calls \cup {new}
  BY SentForm DEF Conversations!Press, Conversations!By, Conversations!Call, Conversations!Unanswered, Unanswered
<1>2. RequestFits(new) /\ new.op = op
  BY DEF RequestFits, WellFormed, Sent, Unanswered
<1> HIDE DEF new
<1>3. DataFits'
  BY <1>1, <1>2 DEF ListInv, DataFits
<1>4. \A d \in calls' : d.op = "delete" => \E e \in calls : e.op = "delete" /\ e.arg = d.arg
  BY <1>1, <1>2
<1>5. UNCHANGED Conversations!View
  BY DEF Conversations!View
<1>6. CASE loading \/ astray \/ listError
  <2>1. loading' \/ listError' \/ astray'
    BY <1>6
  <2> QED BY <1>3, <1>4, <2>1, ListRests
<1>7. CASE ~(loading \/ astray \/ listError)
  <2>1. ~loading /\ ~listError /\ ~astray
    BY <1>7
  <2> QED BY <1>3, <1>4, <1>5, <2>1, ListRests
<1> QED BY <1>6, <1>7

\* A further page is asked for; the list is changed from its rows; a dialog clears a conversation;
\* and a change that failed is tried again.
LEMMA ListPresses ==
  ASSUME ListInv,
         \/ Conversations!LoadMore
         \/ \E row : \E op \in {"create", "rename", "archive"} : Conversations!Change(op, row)
         \/ Conversations!Confirm /\ dialog.op # "delete"
         \/ Conversations!RetryAction /\ again.op # "delete"
  PROVE  ListInv'
<1>1. CASE Conversations!LoadMore
  <2>1. PICK view : Conversations!Press({Conversations!Call("more", [view |-> view, offset |-> Len(itemsRef)])})
    BY <1>1 DEF Conversations!LoadMore
  <2>2. Len(itemsRef) \in Nat
    BY DEF ListInv, DataFits, IsList
  <2>3. /\ UNCHANGED <<store, items, itemsRef, back, told, again, debounced, tab, loading>>
        /\ astray' <=> (astray \/ listError)
        /\ listError' = FALSE
    BY <1>1 DEF Conversations!LoadMore, Conversations!viewVars, Conversations!dialogVars
  <2> QED BY <2>1, <2>2, <2>3, ListSends
<1>2. ASSUME NEW op \in {"create", "rename", "archive"}, NEW row, Conversations!Change(op, row) PROVE ListInv'
  <2>1. PICK arg : Conversations!Press({Conversations!Call(op, arg)})
    BY <1>2 DEF Conversations!Change
  <2>2. UNCHANGED <<store, items, itemsRef, back, told, again, debounced, tab, loading, astray, listError>>
    BY <1>2 DEF Conversations!Change, Conversations!listVars, Conversations!viewVars, Conversations!rowVars,
       Conversations!pageVars, Conversations!dialogVars
  <2> QED BY <2>1, <2>2, ListSends
<1>3. CASE Conversations!Confirm /\ dialog.op # "delete"
  <2>1. PICK arg : Conversations!Press({Conversations!Call("clear", arg)})
    BY <1>3 DEF Conversations!Confirm
  <2>2. UNCHANGED <<store, items, itemsRef, back, told, again, debounced, tab, loading, astray, listError>>
    BY <1>3 DEF Conversations!Confirm, Conversations!viewVars, Conversations!rowVars, Conversations!pageVars
  <2> QED BY <2>1, <2>2, ListSends
<1>4. CASE Conversations!RetryAction /\ again.op # "delete"
  <2>1. Conversations!Press({Conversations!Call(again.op, again.arg)})
    BY <1>4 DEF Conversations!RetryAction
  <2>2. UNCHANGED <<store, items, itemsRef, back, told, again, debounced, tab, loading, astray, listError>>
    BY <1>4 DEF Conversations!RetryAction, Conversations!viewVars, Conversations!rowVars, Conversations!pageVars
  <2>3. again.op \notin {"list", "more"}
    BY DEF ListInv, DataFits
  <2> QED BY <1>4, <2>1, <2>2, <2>3, ListSends
<1> QED BY <1>1, <1>2, <1>3, <1>4

\* What the list does not read of the screen.
LEMMA ListIdles ==
  ASSUME ListInv,
         \/ Conversations!Type \/ Conversations!CloseDialog
         \/ \E row : \E op \in {"delete", "clear"} : Conversations!OpenDialog(op, row)
  PROVE  ListInv'
<1>1. UNCHANGED <<calls, store, items, itemsRef, astray, back, told, again, debounced, tab, loading, listError>>
  BY DEF Conversations!Type, Conversations!CloseDialog, Conversations!OpenDialog, Conversations!callVars,
     Conversations!viewVars, Conversations!rowVars, Conversations!pageVars, Conversations!dialogVars
<1>2. DataFits'
  BY <1>1 DEF ListInv, DataFits
<1>3. UNCHANGED Conversations!View
  BY <1>1 DEF Conversations!View
<1>4. CASE loading \/ listError \/ astray
  BY <1>1, <1>2, <1>4, ListRests
<1>5. CASE ~(loading \/ listError \/ astray)
  BY <1>1, <1>2, <1>3, <1>5, ListRests
<1> QED BY <1>4, <1>5

\* A reading is answered.
LEMMA ListListed ==
  ASSUME ListInv, NEW c \in calls, Conversations!Listed(c) PROVE ListInv'
<1>1. /\ c.op = "list" /\ calls' = calls \ {c}
      /\ UNCHANGED <<store, debounced, tab, told, again>>
  BY DEF Conversations!Listed, Conversations!Heard, Conversations!By, Conversations!viewVars, Conversations!dialogVars
<1>2. RequestFits(c)
  BY DEF ListInv, DataFits
<1>3. \A d \in calls' : d.op = "delete" => \E e \in calls : e.op = "delete" /\ e.arg = d.arg
  BY <1>1
<1>4. UNCHANGED Conversations!View
  BY <1>1 DEF Conversations!View
<1>5. CASE c.arg.seq = searchSeq /\ c.ans.ok
  <2> DEFINE page == c.ans.data.rows
  <2>1. /\ items' = page /\ itemsRef' = page
        /\ back' = back \cup (told \cap Conversations!Ids(page))
        /\ astray' = (c.arg.view # Conversations!View)
    BY <1>5 DEF Conversations!Listed
  <2>2. IsList(page) /\ \A row \in ToSet(page) : row.view = c.arg.view
    BY <1>1, <1>2, <1>5 DEF RequestFits
  <2> HIDE DEF page
  <2>3. DataFits'
    BY <1>1, <2>1, <2>2 DEF ListInv, DataFits
  <2>4. c.arg.view # Conversations!View => astray'
    BY <2>1
  <2>5. ViewFits'
    BY <1>4, <2>1, <2>2, <2>4 DEF ViewFits
  <2>6. ToldFits'
    <3>1. Conversations!Ids(items)' = Conversations!Ids(page) /\ Conversations!Ids(itemsRef)' = Conversations!Ids(page)
      BY <2>1
    <3> QED BY <1>1, <2>1, <3>1 DEF ListInv, ToldFits
  <2> QED BY <2>3, <2>5, <2>6 DEF ListInv
<1>6. CASE ~(c.arg.seq = searchSeq /\ c.ans.ok)
  <2>1. /\ UNCHANGED <<items, itemsRef, astray, back>>
        /\ listError' \/ UNCHANGED <<loading, listError>>
    BY <1>6 DEF Conversations!Listed, Conversations!rowVars
  <2>2. DataFits'
    BY <1>1, <2>1 DEF ListInv, DataFits
  <2>3. CASE loading \/ listError \/ astray
    BY <1>1, <1>3, <2>1, <2>2, <2>3, ListRests
  <2>4. CASE ~(loading \/ listError \/ astray)
    BY <1>1, <1>3, <1>4, <2>1, <2>2, <2>4, ListRests
  <2> QED BY <2>3, <2>4
<1> QED BY <1>5, <1>6

\* A further page is answered: the mirror's rows with those of the page.
LEMMA ListMoreListed ==
  ASSUME ListInv, NEW c \in calls, Conversations!MoreListed(c) PROVE ListInv'
<1>1. /\ c.op = "more" /\ calls' = calls \ {c}
      /\ UNCHANGED <<store, debounced, tab, told, again, loading>>
  BY DEF Conversations!MoreListed, Conversations!Heard, Conversations!By, Conversations!viewVars, Conversations!dialogVars
<1>2. RequestFits(c)
  BY DEF ListInv, DataFits
<1>3. \A d \in calls' : d.op = "delete" => \E e \in calls : e.op = "delete" /\ e.arg = d.arg
  BY <1>1
<1>4. UNCHANGED Conversations!View
  BY <1>1 DEF Conversations!View
<1>5. CASE c.ans.ok
  <2> DEFINE page == c.ans.data.rows
             all == itemsRef \o page
  <2>1. /\ items' = Conversations!Dedupe(all) /\ itemsRef' = items'
        /\ back' = back \cup (told \cap Conversations!Ids(page))
        /\ astray' = (astray \/ c.arg.view # Conversations!View) /\ listError' = listError
    BY <1>5 DEF Conversations!MoreListed
  <2>2. IsList(page) /\ \A row \in ToSet(page) : row.view = c.arg.view
    BY <1>1, <1>2, <1>5 DEF RequestFits
  <2>3. IsList(all) /\ ToSet(all) = ToSet(itemsRef) \cup ToSet(page)
    <3> HIDE DEF page
    <3> QED BY <2>2, JoinedLists DEF ListInv, DataFits
  <2> HIDE DEF page, all
  <2>4. IsList(items') /\ ToSet(items') \subseteq ToSet(itemsRef) \cup ToSet(page)
    BY <2>1, <2>3, DedupeRows
  <2>5. DataFits'
    BY <1>1, <2>1, <2>4 DEF ListInv, DataFits
  <2>6. (astray \/ c.arg.view # Conversations!View) => astray'
    BY <2>1
  <2>7. ViewFits'
    BY <1>1, <1>4, <2>1, <2>2, <2>4, <2>6 DEF ListInv, ViewFits
  <2>8. ToldFits'
    <3>1. /\ Conversations!Ids(items)' = {row.id : row \in ToSet(items')}
          /\ Conversations!Ids(itemsRef)' = {row.id : row \in ToSet(items')}
      BY <2>1, IdsOfRows
    <3>2. /\ Conversations!Ids(itemsRef) = {row.id : row \in ToSet(itemsRef)}
          /\ Conversations!Ids(page) = {row.id : row \in ToSet(page)}
      BY IdsOfRows
    <3>3. {row.id : row \in ToSet(items')} \subseteq Conversations!Ids(itemsRef) \cup Conversations!Ids(page)
      BY <2>4, <3>2
    <3> QED BY <1>1, <2>1, <3>1, <3>3 DEF ListInv, ToldFits
  <2> QED BY <2>5, <2>7, <2>8 DEF ListInv
<1>6. CASE ~c.ans.ok
  <2>1. UNCHANGED <<items, itemsRef, astray, back>> /\ listError' = TRUE
    BY <1>6 DEF Conversations!MoreListed, Conversations!rowVars
  <2>2. DataFits'
    BY <1>1, <2>1 DEF ListInv, DataFits
  <2> QED BY <1>1, <1>3, <2>1, <2>2, ListRests
<1> QED BY <1>5, <1>6

\* A deletion is sent: its row goes, and the mirror gets the rows that were seen.
LEMMA ListDeletes ==
  ASSUME ListInv, NEW id, NEW seen, IsList(seen), Conversations!ConfirmDelete(id, seen),
         UNCHANGED <<store, debounced, tab, told, again, loading, listError>>,
         (astray \/ Conversations!Elsewhere(seen)) => (astray' \/ loading \/ listError),
         back \cup ((told \cup {d.arg.id : d \in Conversations!Of("delete")}) \cap Conversations!Ids(seen)) \subseteq back'
           \/ (seen = items /\ back' = back)
  PROVE  ListInv'
<1> DEFINE new == Sent("delete", [id |-> id, was |-> seen], presses')
<1>1. /\ calls' = calls \cup {new}
      /\ items' = Conversations!Without(items, id) /\ itemsRef' = Conversations!Without(seen, id)
  BY SentForm DEF Conversations!ConfirmDelete, Conversations!RemoveRow, Conversations!Press, Conversations!By,
     Conversations!Call, Conversations!Unanswered, Unanswered
<1>2. RequestFits(new) /\ new.op = "delete" /\ new.arg.id = id
  BY DEF RequestFits, WellFormed, Sent
<1> HIDE DEF new
<1>3. /\ IsList(items') /\ ToSet(items') \subseteq ToSet(items)
      /\ Conversations!Ids(items)' = Conversations!Ids(items) \ {id}
  BY <1>1, WithoutRows DEF ListInv, DataFits
<1>4. /\ IsList(itemsRef') /\ ToSet(itemsRef') \subseteq ToSet(seen)
      /\ Conversations!Ids(itemsRef)' = Conversations!Ids(seen) \ {id}
  BY <1>1, WithoutRows
<1>5. DataFits'
  BY <1>1, <1>2, <1>3, <1>4 DEF ListInv, DataFits
<1>6. ViewFits'
  <2>1. UNCHANGED Conversations!View
    BY DEF Conversations!View
  <2>2. ~Conversations!Elsewhere(seen) => \A row \in ToSet(seen) : row.view = Conversations!View
    BY DEF Conversations!Elsewhere, Conversations!ToSet, ToSet
  <2> QED BY <1>3, <1>4, <2>1, <2>2 DEF ListInv, ViewFits
<1>7. ToldFits'
  <2>1. back \subseteq back'
    OBVIOUS
  <2>2. \A d \in calls : d.op = "delete" => d.arg.id \in {e.arg.id : e \in Conversations!Of("delete")}
    BY DEF Conversations!Of
  <2>3. CASE seen = items /\ back' = back
    BY <1>1, <1>2, <1>3, <1>4, <2>3 DEF ListInv, ToldFits
  <2>4. CASE back \cup ((told \cup {d.arg.id : d \in Conversations!Of("delete")}) \cap Conversations!Ids(seen)) \subseteq back'
    <3>1. (Conversations!Ids(items)' \cup Conversations!Ids(itemsRef)') \cap told \subseteq back'
      BY <1>3, <1>4, <2>1, <2>4 DEF ListInv, ToldFits
    <3>2. ASSUME NEW d \in calls', d.op = "delete", d.arg.id \in Conversations!Ids(itemsRef)' PROVE d.arg.id \in back'
      BY <1>1, <1>2, <1>4, <2>2, <2>4, <3>2
    <3> QED BY <3>1, <3>2 DEF ToldFits
  <2> QED BY <2>3, <2>4
<1> QED BY <1>5, <1>6, <1>7 DEF ListInv

\* The dialog's deletion, and the deletion that is tried again.
LEMMA ListDeletions ==
  ASSUME ListInv,
         \/ Conversations!Confirm /\ dialog.op = "delete"
         \/ Conversations!RetryAction /\ again.op = "delete"
  PROVE  ListInv'
<1>1. CASE Conversations!Confirm /\ dialog.op = "delete"
  <2>1. /\ Conversations!ConfirmDelete(dialog.id, items)
        /\ UNCHANGED <<store, debounced, tab, told, again, loading, listError, astray, back>>
    BY <1>1 DEF Conversations!Confirm, Conversations!viewVars, Conversations!pageVars
  <2>2. IsList(items)
    BY DEF ListInv, DataFits
  <2>3. Conversations!Elsewhere(items) => (astray \/ loading \/ listError)
    BY DEF Conversations!Elsewhere, Conversations!ToSet, ToSet, ListInv, ViewFits
  <2> QED BY <2>1, <2>2, <2>3, ListDeletes
<1>2. CASE Conversations!RetryAction /\ again.op = "delete"
  <2> DEFINE seen == again.arg.was
  <2>1. /\ Conversations!ConfirmDelete(again.arg.id, seen)
        /\ astray' = (astray \/ Conversations!Elsewhere(seen))
        /\ back' = back \cup ((told \cup {d.arg.id : d \in Conversations!Of("delete")}) \cap Conversations!Ids(seen))
        /\ UNCHANGED <<store, debounced, tab, told, again, loading, listError>>
    BY <1>2 DEF Conversations!RetryAction, Conversations!viewVars, Conversations!pageVars
  <2>2. IsList(seen)
    BY <1>2 DEF ListInv, DataFits
  <2> HIDE DEF seen
  <2>3. (astray \/ Conversations!Elsewhere(seen)) => astray'
    BY <2>1
  <2>4. back \cup ((told \cup {d.arg.id : d \in Conversations!Of("delete")}) \cap Conversations!Ids(seen)) \subseteq back'
    BY <2>1
  <2> QED BY <2>1, <2>2, <2>3, <2>4, ListDeletes
<1> QED BY <1>1, <1>2

\* A deletion, or the clearing of a conversation, is answered.
LEMMA ListConfirmed ==
  ASSUME ListInv, NEW c \in calls, Conversations!Confirmed(c) PROVE ListInv'
<1>1. /\ c.op \in {"delete", "clear"} /\ calls' = calls \ {c}
      /\ UNCHANGED <<store, debounced, tab, loading, listError>>
      /\ again' = (IF c.ans.ok THEN Conversations!None ELSE [op |-> c.op, arg |-> c.arg])
      /\ told' = (IF c.ans.ok /\ c.op = "delete" THEN told \cup {c.arg.id} ELSE told)
  BY DEF Conversations!Confirmed, Conversations!Heard, Conversations!By, Conversations!viewVars, Conversations!pageVars
<1>2. RequestFits(c)
  BY DEF ListInv, DataFits
<1>3. UNCHANGED Conversations!View
  BY <1>1 DEF Conversations!View
<1>4. again'.op \notin {"list", "more"} /\ (again'.op = "delete" => IsList(again'.arg.was))
  BY <1>1, <1>2 DEF RequestFits, Conversations!None
<1>5. CASE c.op = "delete" /\ ~c.ans.ok
  <2> DEFINE was == c.arg.was
  <2>1. /\ items' = was /\ itemsRef' = was
        /\ astray' = (astray \/ Conversations!Elsewhere(was))
        /\ back' = back \cup (told \cap Conversations!Ids(was))
    BY <1>5 DEF Conversations!Confirmed
  <2>2. IsList(was)
    BY <1>2, <1>5 DEF RequestFits
  <2> HIDE DEF was
  <2>3. (astray \/ Conversations!Elsewhere(was)) => astray'
    BY <2>1
  <2>4. ~Conversations!Elsewhere(was) => \A row \in ToSet(was) : row.view = Conversations!View
    BY DEF Conversations!Elsewhere, Conversations!ToSet, ToSet
  <2>5. ViewFits'
    BY <1>3, <2>1, <2>3, <2>4 DEF ViewFits
  <2>6. DataFits'
    BY <1>1, <1>4, <2>1, <2>2 DEF ListInv, DataFits
  <2>7. ToldFits'
    <3>1. Conversations!Ids(items)' = Conversations!Ids(was) /\ Conversations!Ids(itemsRef)' = Conversations!Ids(was)
      BY <2>1
    <3> QED BY <1>1, <1>5, <2>1, <3>1 DEF ListInv, ToldFits
  <2> QED BY <2>5, <2>6, <2>7 DEF ListInv
<1>6. CASE ~(c.op = "delete" /\ ~c.ans.ok)
  <2>1. /\ UNCHANGED <<items, itemsRef, astray>>
        /\ back' = back \cup (told' \cap Conversations!Ids(items))
    BY <1>6 DEF Conversations!Confirmed
  <2>2. ViewFits'
    BY <1>1, <1>3, <2>1 DEF ListInv, ViewFits
  <2>3. DataFits'
    BY <1>1, <1>4, <2>1 DEF ListInv, DataFits
  <2>4. ToldFits'
    <3>1. Conversations!Ids(items)' = Conversations!Ids(items) /\ Conversations!Ids(itemsRef)' = Conversations!Ids(itemsRef)
      BY <2>1
    <3>2. told' = told \/ (c.op = "delete" /\ told' = told \cup {c.arg.id})
      BY <1>1
    <3> QED BY <1>1, <2>1, <3>1, <3>2 DEF ListInv, ToldFits
  <2> QED BY <2>2, <2>3, <2>4 DEF ListInv
<1> QED BY <1>5, <1>6

\* Each step of the conversation list keeps its invariant.
LEMMA ListNext == ASSUME ListInv, Conversations!Next PROVE ListInv'
<1>1. CASE Conversations!Type \/ Conversations!CloseDialog
  BY <1>1, ListIdles
<1>2. CASE Conversations!Debounce \/ Conversations!RetryList
  BY <1>2, ListReloads
<1>3. ASSUME NEW next, Conversations!HandleFilterChange(next) PROVE ListInv'
  BY <1>3, ListReloads
<1>4. CASE Conversations!LoadMore
  BY <1>4, ListPresses
<1>5. CASE Conversations!RetryAction
  BY <1>5, ListPresses, ListDeletions
<1>6. CASE Conversations!Confirm
  BY <1>6, ListPresses, ListDeletions
<1>7. ASSUME NEW op \in {"create", "rename", "archive"}, NEW row, Conversations!Change(op, row) PROVE ListInv'
  BY <1>7, ListPresses
<1>8. ASSUME NEW op \in {"delete", "clear"}, NEW row, Conversations!OpenDialog(op, row) PROVE ListInv'
  BY <1>8, ListIdles
<1>9. ASSUME NEW c \in calls, Conversations!Serve(c) \/ Conversations!Lose(c) PROVE ListInv'
  BY <1>9, ListServe
<1>10. ASSUME NEW c \in calls, Conversations!Listed(c) PROVE ListInv'
  BY <1>10, ListListed
<1>11. ASSUME NEW c \in calls, Conversations!MoreListed(c) PROVE ListInv'
  BY <1>11, ListMoreListed
<1>12. ASSUME NEW c \in calls, Conversations!Changed(c) PROVE ListInv'
  BY <1>12, ListChanged
<1>13. ASSUME NEW c \in calls, Conversations!Confirmed(c) PROVE ListInv'
  BY <1>13, ListConfirmed
<1> QED BY <1>1, <1>2, <1>3, <1>4, <1>5, <1>6, <1>7, <1>8, <1>9, <1>10, <1>11, <1>12, <1>13 DEF Conversations!Next

-----------------------------------------------------------------------------
\* Long-term memory.  Rows are records of one form; the requests are those the panel sends.
RowForm(r) == r = [id |-> r.id, type |-> r.type, marks |-> r.marks] /\ r.id \in {1, 2}
RowsFit(s) == IsList(s) /\ \A r \in ToSet(s) : RowForm(r)
MemoryRequest(c) ==
  /\ WellFormed(c) /\ (c.ans.ok => c.ans.done)
  /\ c.op \in {"list", "clear"} \cup Memory!RuleCalls \cup Memory!Patches \cup Memory!Deletions
  /\ c.op \in Memory!Patches \cup Memory!Deletions => c.arg.id \in {1, 2}
  /\ c.op = "list" /\ c.ans.ok => RowsFit(c.ans.data)
  /\ c.op \in Memory!Patches /\ c.ans.ok => RowForm(c.ans.data) /\ c.ans.data.id = c.arg.id
MemoryData ==
  /\ faults \in Nat
  /\ RowsFit(rows) /\ RowsFit(memories)
  /\ \A a, b \in ToSet(memories) : a.id = b.id => a = b
  /\ \A c \in calls : MemoryRequest(c)

\* Unless requests about it overlapped, one request at most is about a memory; the row of the memory
\* is as the service keeps it while that request has changed nothing, and will be once it is heard.
About(c, id) == id \in Memory!Touches(c)
Alone(id) == \A c, d \in calls : About(c, id) /\ About(d, id) => c = d
Agrees(id) == \A r \in ToSet(rows) : r.id = id => r \in ToSet(memories)
Outcome(c, id) ==
  /\ c.op = "list" => \A m \in ToSet(c.ans.data) : m.id = id => m \in ToSet(memories)
  /\ c.op \in {"pinned", "disabled"} => c.ans.data \in ToSet(memories)
  /\ c.op \in {"confirmed", "edited"} =>
       \A r \in ToSet(rows) : r.id = id => Memory!Patched(r, c) \in ToSet(memories)
RowKept(id) ==
  /\ Alone(id)
  /\ (\A c \in calls : About(c, id) => ~c.ans.ok \/ c.op = "list") => Agrees(id)
  /\ \A c \in calls : About(c, id) /\ c.ans.ok => Outcome(c, id)

\* The same of the ignored types.
RulesAgree(c) ==
  /\ c.op = "ignore" => IF c.ans.done THEN c.ans.ok ELSE ignored = rules
  /\ c.op = "rules" /\ c.ans.done => c.ans.ok /\ c.ans.data = rules
  /\ c.op = "unignore" => IF c.ans.ok THEN ignored \ {c.arg.type} = rules ELSE ignored = rules
RulesKept ==
  /\ Alone(0)
  /\ (\A c \in calls : ~About(c, 0)) => ignored = rules
  /\ \A c \in calls : About(c, 0) => RulesAgree(c)
AskedFits == asked = Memory!Nothing \/ asked.op \in {"clear", "delete", "permanent"}
MemoryInv ==
  /\ MemoryData /\ AskedFits
  /\ faults = 0 => /\ \A id \in {1, 2} \ overlapped : RowKept(id)
                   /\ 0 \notin overlapped => RulesKept

\* What a request is about.
LEMMA AboutWhat ==
  ASSUME NEW c, c.op \in {"list", "clear"} \cup Memory!RuleCalls \cup Memory!Patches \cup Memory!Deletions,
         c.op \in Memory!Patches \cup Memory!Deletions => c.arg.id \in {1, 2}
  PROVE  /\ c.op \in {"list", "clear"} => \A id : About(c, id) <=> id \in {1, 2}
         /\ c.op \in Memory!RuleCalls => \A id : About(c, id) <=> id = 0
         /\ c.op \in Memory!Patches \cup Memory!Deletions => \A id : About(c, id) <=> id = c.arg.id
         /\ About(c, 0) <=> c.op \in Memory!RuleCalls
<1>1. DOMAIN <<"goal", "habit">> = {1, 2}
  OBVIOUS
<1> QED BY <1>1 DEF About, Memory!Touches, Memory!RuleCalls, Memory!Patches, Memory!Deletions, Memory!NoRow

\* A row that is patched keeps its form, its memory and its type.
LEMMA PatchedForm ==
  ASSUME NEW r, RowForm(r), NEW c
  PROVE  RowForm(Memory!Patched(r, c)) /\ Memory!Patched(r, c).id = r.id
<1>1. PICK i, t, k : r = [id |-> i, type |-> t, marks |-> k] /\ i \in {1, 2}
  BY DEF RowForm
<1>2. PICK new : Memory!Patched(r, c) = [r EXCEPT !.marks = new]
  BY DEF Memory!Patched
<1>3. [r EXCEPT !.marks = new] = [id |-> i, type |-> t, marks |-> new]
  BY <1>1
<1> QED BY <1>1, <1>2, <1>3 DEF RowForm

\* Rows without those of one memory.
LEMMA MemoryWithout ==
  ASSUME NEW s, RowsFit(s), NEW id
  PROVE  RowsFit(Memory!Without(s, id)) /\ ToSet(Memory!Without(s, id)) = {r \in ToSet(s) : r.id # id}
<1> DEFINE I == {n \in DOMAIN s : s[n].id # id}
<1>1. /\ IsList(Select(s, I)) /\ ToSet(Select(s, I)) = {s[n] : n \in I}
  <2>1. I \in SUBSET DOMAIN s /\ IsList(s)
    BY DEF RowsFit
  <2> HIDE DEF I
  <2> QED BY <2>1, KeptOfList
<1>2. Memory!Without(s, id) = Select(s, I)
  BY DEF Memory!Without, Memory!Select, Memory!Nth, Memory!Rank, Select, Nth, Rank, Memory!Cardinality, Cardinality
<1>3. {s[n] : n \in I} = {r \in ToSet(s) : r.id # id}
  BY DEF ToSet
<1> HIDE DEF I
<1> QED BY <1>1, <1>2, <1>3 DEF RowsFit

\* Rows that are rewritten in their places.
LEMMA RowsRewritten ==
  ASSUME NEW s, RowsFit(s), NEW t, DOMAIN t = DOMAIN s, t = [n \in DOMAIN t |-> t[n]],
         \A n \in DOMAIN s : RowForm(t[n])
  PROVE  RowsFit(t)
<1>1. Len(s) \in Nat /\ DOMAIN s = 1..Len(s)
  BY DEF RowsFit, IsList
<1>2. IsList(t)
  BY <1>1, WrittenList
<1> QED BY <1>2 DEF RowsFit, ToSet

\* Rows of which those of one memory are patched.
LEMMA MemoryPatched ==
  ASSUME NEW s, RowsFit(s), NEW c
  PROVE  LET t == [n \in DOMAIN s |-> IF s[n].id = c.arg.id THEN Memory!Patched(s[n], c) ELSE s[n]]
         IN  RowsFit(t) /\ ToSet(t) = {IF r.id = c.arg.id THEN Memory!Patched(r, c) ELSE r : r \in ToSet(s)}
<1> DEFINE t == [n \in DOMAIN s |-> IF s[n].id = c.arg.id THEN Memory!Patched(s[n], c) ELSE s[n]]
<1>1. \A n \in DOMAIN s : RowForm(s[n]) /\ RowForm(Memory!Patched(s[n], c))
  <2>1. \A n \in DOMAIN s : RowForm(s[n])
    BY DEF RowsFit, ToSet
  <2> QED BY <2>1, PatchedForm
<1>2. /\ DOMAIN t = DOMAIN s /\ t = [n \in DOMAIN t |-> t[n]]
      /\ \A n \in DOMAIN s : t[n] = IF s[n].id = c.arg.id THEN Memory!Patched(s[n], c) ELSE s[n]
  OBVIOUS
<1>3. ToSet(t) = {IF r.id = c.arg.id THEN Memory!Patched(r, c) ELSE r : r \in ToSet(s)}
  BY <1>2 DEF ToSet
<1>4. RowsFit(t)
  <2> HIDE DEF t
  <2> QED BY <1>1, <1>2, RowsRewritten
<1> QED BY <1>3, <1>4

\* A step that has nothing to do with a memory keeps what is known of it.
LEMMA RowRests ==
  ASSUME NEW id, RowKept(id), \A c \in calls' : MemoryRequest(c),
         \A c : About(c, id) => (c \in calls' <=> c \in calls),
         \A r \in ToSet(rows) \cup ToSet(rows') \cup ToSet(memories) : RowForm(r),
         \A r : r.id = id => /\ r \in ToSet(rows') <=> r \in ToSet(rows)
                             /\ r \in ToSet(memories) => r \in ToSet(memories')
  PROVE  RowKept(id)'
<1>1. Alone(id)'
  BY DEF RowKept, Alone, About
<1>2. ASSUME \A c \in calls' : About(c, id) => ~c.ans.ok \/ c.op = "list" PROVE Agrees(id)'
  <2>1. \A c \in calls : About(c, id) => ~c.ans.ok \/ c.op = "list"
    BY <1>2
  <2>2. Agrees(id)
    BY <2>1 DEF RowKept
  <2> QED BY <2>2 DEF Agrees
<1>3. ASSUME NEW c \in calls', About(c, id), c.ans.ok PROVE Outcome(c, id)'
  <2>1. c \in calls /\ Outcome(c, id) /\ MemoryRequest(c)
    BY <1>3 DEF RowKept
  <2>2. c.op = "list" => \A m \in ToSet(c.ans.data) : m.id = id => m \in ToSet(memories')
    BY <2>1 DEF Outcome
  <2>3. c.op \in {"pinned", "disabled"} => c.ans.data \in ToSet(memories')
    <3>1. c.op \in {"pinned", "disabled"} => c.ans.data.id = id
      BY <1>3, <2>1, AboutWhat DEF MemoryRequest, Memory!Patches
    <3> QED BY <2>1, <3>1 DEF Outcome
  <2>4. ASSUME c.op \in {"confirmed", "edited"}, NEW r \in ToSet(rows'), r.id = id PROVE Memory!Patched(r, c) \in ToSet(memories')
    <3>1. r \in ToSet(rows) /\ Memory!Patched(r, c).id = id
      BY <2>4, PatchedForm
    <3>2. Memory!Patched(r, c) \in ToSet(memories)
      BY <2>1, <2>4, <3>1 DEF Outcome
    <3> QED BY <3>1, <3>2
  <2> QED BY <2>2, <2>3, <2>4 DEF Outcome
<1>4. (\A c \in calls' : About(c, id) => ~c.ans.ok \/ c.op = "list") => Agrees(id)'
  BY <1>2
<1>5. \A c \in calls' : About(c, id) /\ c.ans.ok => Outcome(c, id)'
  BY <1>3
<1> QED BY <1>1, <1>4, <1>5 DEF RowKept, About

\* A step that has nothing to do with the ignored types.
LEMMA RulesRest ==
  ASSUME RulesKept, UNCHANGED <<ignored, rules>>, \A c : About(c, 0) => (c \in calls' <=> c \in calls)
  PROVE  RulesKept'
BY DEF RulesKept, RulesAgree, Alone, About

\* What the service does to its memories.
LEMMA MemoryActs ==
  ASSUME MemoryData, NEW c \in calls, Memory!Acts(c)
  PROVE  /\ RowsFit(memories') /\ \A a, b \in ToSet(memories') : a.id = b.id => a = b
         /\ c.op \in Memory!Patches =>
              ToSet(memories') = {IF m.id = c.arg.id THEN Memory!Patched(m, c) ELSE m : m \in ToSet(memories)}
         /\ c.op \in Memory!Deletions => ToSet(memories') = {m \in ToSet(memories) : m.id # c.arg.id}
         /\ c.op \in {"list"} \cup Memory!RuleCalls => memories' = memories
<1>1. MemoryRequest(c) /\ RowsFit(memories) /\ \A a, b \in ToSet(memories) : a.id = b.id => a = b
  BY DEF MemoryData
<1>2. CASE c.op \in Memory!Patches
  <2>1. memories' = [n \in DOMAIN memories |->
                       IF memories[n].id = c.arg.id THEN Memory!Patched(memories[n], c) ELSE memories[n]]
    <3>1. c.op \notin Memory!Deletions /\ c.op # "clear"
      BY <1>2 DEF Memory!Patches, Memory!Deletions
    <3> QED BY <1>2, <3>1, Zenon DEF Memory!Acts
  <2>2. /\ RowsFit(memories')
        /\ ToSet(memories') = {IF m.id = c.arg.id THEN Memory!Patched(m, c) ELSE m : m \in ToSet(memories)}
    BY <1>1, <2>1, MemoryPatched
  <2>3. \A m \in ToSet(memories) : Memory!Patched(m, c).id = m.id
    BY <1>1, PatchedForm DEF RowsFit
  <2>4. \A a, b \in ToSet(memories') : a.id = b.id => a = b
    BY <1>1, <2>2, <2>3
  <2>5. c.op \notin Memory!Deletions /\ c.op \notin {"list"} \cup Memory!RuleCalls
    BY <1>2 DEF Memory!Patches, Memory!Deletions, Memory!RuleCalls
  <2> QED BY <2>2, <2>4, <2>5
<1>3. CASE c.op \in Memory!Deletions
  <2>1. c.op \notin Memory!Patches /\ c.op \notin {"list"} \cup Memory!RuleCalls
    BY <1>3 DEF Memory!Patches, Memory!Deletions, Memory!RuleCalls
  <2>2. memories' = Memory!Without(memories, c.arg.id)
    <3>1. c.op # "clear"
      BY <1>3 DEF Memory!Deletions
    <3> QED BY <1>3, <2>1, <3>1, Zenon DEF Memory!Acts
  <2>3. RowsFit(memories') /\ ToSet(memories') = {m \in ToSet(memories) : m.id # c.arg.id}
    BY <1>1, <2>2, MemoryWithout
  <2> QED BY <1>1, <2>1, <2>3
<1>4. CASE c.op = "clear"
  <2>1. c.op \notin Memory!Patches \cup Memory!Deletions \cup {"list"} \cup Memory!RuleCalls
    BY <1>4 DEF Memory!Patches, Memory!Deletions, Memory!RuleCalls
  <2>2. memories' = <<>>
    BY <1>4, <2>1 DEF Memory!Acts
  <2>3. ToSet(memories') = {} /\ IsList(memories')
    BY <2>2 DEF ToSet, IsList
  <2> QED BY <2>1, <2>3 DEF RowsFit
<1>5. CASE c.op \in {"list"} \cup Memory!RuleCalls
  <2>1. c.op \notin Memory!Patches \cup Memory!Deletions \cup {"clear"}
    BY <1>5 DEF Memory!Patches, Memory!Deletions, Memory!RuleCalls
  <2>2. memories' = memories
    BY <2>1 DEF Memory!Acts
  <2> QED BY <1>1, <2>1, <2>2
<1> QED BY <1>1, <1>2, <1>3, <1>4, <1>5 DEF MemoryRequest

\* What the service answers.
LEMMA MemoryReplies ==
  ASSUME MemoryData, NEW c \in calls, Memory!Accepts(c)
  PROVE  /\ c.op = "list" => RowsFit(Memory!Reply(c)) /\ ToSet(Memory!Reply(c)) \subseteq ToSet(memories)
         /\ c.op = "rules" => Memory!Reply(c) = rules
         /\ c.op \in Memory!Patches =>
              \E m \in ToSet(memories) : m.id = c.arg.id /\ Memory!Reply(c) = Memory!Patched(m, c)
<1>1. RowsFit(memories)
  BY DEF MemoryData
<1>2. ASSUME c.op = "list" PROVE RowsFit(Memory!Reply(c)) /\ ToSet(Memory!Reply(c)) \subseteq ToSet(memories)
  <2> DEFINE I == {n \in DOMAIN memories : c.arg.filter \in {"all", memories[n].type}}
  <2>1. Memory!Reply(c) = Memory!Select(memories, I)
    <3>1. c.op \notin Memory!Patches /\ c.op # "rules"
      BY <1>2 DEF Memory!Patches
    <3> QED BY <1>2, <3>1, Zenon DEF Memory!Reply
  <2>2. Memory!Select(memories, I) = Select(memories, I)
    BY DEF Memory!Select, Memory!Nth, Memory!Rank, Select, Nth, Rank, Memory!Cardinality, Cardinality
  <2>3. IsList(Select(memories, I)) /\ ToSet(Select(memories, I)) \subseteq ToSet(memories)
    <3>1. I \in SUBSET DOMAIN memories /\ IsList(memories)
      BY <1>1 DEF RowsFit
    <3> HIDE DEF I
    <3> QED BY <3>1, KeptOfList
  <2> HIDE DEF I
  <2> QED BY <1>1, <2>1, <2>2, <2>3 DEF RowsFit
<1>3. c.op = "rules" => Memory!Reply(c) = rules
  BY DEF Memory!Reply, Memory!Patches
<1>4. ASSUME c.op \in Memory!Patches
      PROVE  \E m \in ToSet(memories) : m.id = c.arg.id /\ Memory!Reply(c) = Memory!Patched(m, c)
  <2>1. Memory!Reply(c) = Memory!Patched(Memory!Row(c.arg.id), c)
    <3>1. c.op # "list" /\ c.op # "rules"
      BY <1>4 DEF Memory!Patches
    <3> QED BY <1>4, <3>1, Zenon DEF Memory!Reply
  <2>2. c.arg.id \in Memory!Ids(memories)
    <3>1. c.op \in Memory!Patches \cup Memory!Deletions /\ c.op # "unignore"
      BY <1>4 DEF Memory!Patches
    <3> QED BY <3>1, Zenon DEF Memory!Accepts
  <2>3. \E m \in ToSet(memories) : m.id = c.arg.id
    BY <2>2 DEF Memory!Ids, ToSet
  <2>4. Memory!Row(c.arg.id) = CHOOSE m \in ToSet(memories) : m.id = c.arg.id
    BY DEF Memory!Row, Memory!ToSet, ToSet
  <2>5. Memory!Row(c.arg.id) \in ToSet(memories) /\ Memory!Row(c.arg.id).id = c.arg.id
    BY <2>3, <2>4
  <2> QED BY <2>1, <2>5
<1> QED BY <1>2, <1>3, <1>4

\* A request that is answered: the answer the service gives, or that it was not carried out.
LEMMA MemoryAnswered ==
  ASSUME MemoryData, NEW c \in calls, NEW ans, Memory!Answered(c, ans),
         \/ ans = Memory!Failed /\ memories' = memories
         \/ ans = Memory!Failed /\ Memory!Acts(c)
         \/ ans = Memory!Ok(Memory!Reply(c)) /\ Memory!Accepts(c) /\ Memory!Acts(c),
         UNCHANGED rows, faults' \in Nat
  PROVE  /\ MemoryData'
         /\ calls' = (calls \ {c}) \cup {WithAnswer(c, ans)}
<1> DEFINE d == WithAnswer(c, ans)
<1>1. MemoryRequest(c) /\ WellFormed(c)
  BY DEF MemoryData, MemoryRequest
<1>2. calls' = (calls \ {c}) \cup {d}
  BY <1>1, AnsweredForm DEF Memory!Answered
<1>3. WellFormed(d) /\ d.op = c.op /\ d.arg = c.arg /\ d.ans = ans
  BY DEF WellFormed, WithAnswer
<1> HIDE DEF d
<1>4. RowsFit(memories') /\ \A a, b \in ToSet(memories') : a.id = b.id => a = b
  BY MemoryActs DEF MemoryData
<1>5. MemoryRequest(d)
  <2>1. CASE ans = Memory!Failed
    <3>1. ~ans.ok
      BY <2>1 DEF Memory!Failed
    <3> QED BY <1>1, <1>3, <3>1 DEF MemoryRequest
  <2>2. CASE ans = Memory!Ok(Memory!Reply(c)) /\ Memory!Accepts(c)
    <3>1. ans.done /\ ans.data = Memory!Reply(c)
      BY <2>2 DEF Memory!Ok
    <3>2. c.op = "list" => RowsFit(ans.data)
      BY <2>2, <3>1, MemoryReplies
    <3>3. ASSUME c.op \in Memory!Patches PROVE RowForm(ans.data) /\ ans.data.id = c.arg.id
      <4>1. PICK m \in ToSet(memories) : m.id = c.arg.id /\ ans.data = Memory!Patched(m, c)
        BY <2>2, <3>1, <3>3, MemoryReplies
      <4>2. RowForm(m)
        BY DEF MemoryData, RowsFit
      <4> QED BY <4>1, <4>2, PatchedForm
    <3> QED BY <1>1, <1>3, <3>1, <3>2, <3>3 DEF MemoryRequest
  <2> QED BY <2>1, <2>2
<1> QED BY <1>2, <1>4, <1>5 DEF MemoryData, d

\* The service answers about the memories.
LEMMA MemoryServe ==
  ASSUME MemoryInv, NEW c \in calls, Memory!Serve(c) PROVE MemoryInv'
<1>1. /\ UNCHANGED <<rows, ignored, overlapped, asked, faults>> /\ ~c.ans.done
      /\ \/ /\ Memory!Accepts(c) /\ Memory!Acts(c) /\ Memory!Answered(c, Memory!Ok(Memory!Reply(c)))
         \/ /\ ~Memory!Accepts(c) /\ UNCHANGED <<memories, rules>> /\ Memory!Answered(c, Memory!Failed)
  BY DEF Memory!Serve, Memory!Serves, Memory!shownVars
<1>2. MemoryData /\ MemoryRequest(c) /\ ~c.ans.ok
  BY <1>1 DEF MemoryInv, MemoryData, MemoryRequest
<1>3. PICK ans : /\ \/ ans = Memory!Ok(Memory!Reply(c)) /\ Memory!Accepts(c) /\ Memory!Acts(c)
                    \/ ans = Memory!Failed /\ ~Memory!Accepts(c) /\ UNCHANGED <<memories, rules>>
                 /\ Memory!Answered(c, ans)
  BY <1>1
<1> DEFINE d == WithAnswer(c, ans)
<1>4. MemoryData' /\ calls' = (calls \ {c}) \cup {d}
  BY <1>1, <1>2, <1>3, MemoryAnswered DEF MemoryData
<1>5. d.op = c.op /\ d.arg = c.arg /\ d.ans = ans
  BY DEF WithAnswer
<1> HIDE DEF d
<1>6. \A id : About(d, id) <=> About(c, id)
  BY <1>5 DEF About, Memory!Touches
<1>7. \A m : Memory!Patched(m, d) = Memory!Patched(m, c)
  BY <1>5 DEF Memory!Patched
<1>8. /\ \A m \in ToSet(rows) \cup ToSet(rows') \cup ToSet(memories) : RowForm(m)
      /\ \A e \in calls' : MemoryRequest(e)
  BY <1>1, <1>2, <1>4 DEF MemoryData, RowsFit
<1>9. ASSUME faults = 0, NEW id \in {1, 2} \ overlapped PROVE RowKept(id)'
  <2>1. RowKept(id)
    BY <1>9 DEF MemoryInv
  <2>2. CASE ~About(c, id)
    <3>1. ASSUME NEW m \in ToSet(memories), m.id = id PROVE m \in ToSet(memories')
      <4>1. CASE memories' = memories
        BY <3>1, <4>1
      <4>2. CASE Memory!Acts(c)
        <5>1. c.op \notin {"list", "clear"} /\ (c.op \in Memory!Patches \cup Memory!Deletions => c.arg.id # id)
          BY <1>2, <2>2, AboutWhat DEF MemoryRequest
        <5>2. \/ c.op \in Memory!RuleCalls
              \/ c.op \in Memory!Patches
              \/ c.op \in Memory!Deletions
          BY <1>2, <5>1 DEF MemoryRequest
        <5> QED BY <1>2, <3>1, <4>2, <5>1, <5>2, MemoryActs
      <4> QED BY <1>3, <4>1, <4>2
    <3>2. \A e : About(e, id) => (e \in calls' <=> e \in calls)
      BY <1>4, <1>6, <2>2
    <3> QED BY <1>1, <1>8, <2>1, <3>1, <3>2, RowRests
  <2>3. CASE About(c, id)
    <3>1. /\ \A e \in calls : About(e, id) => e = c
          /\ Agrees(id)
      BY <1>2, <2>1, <2>3 DEF RowKept, Alone
    <3>2. \A e \in calls' : About(e, id) => e = d
      BY <1>4, <3>1
    <3>3. CASE ans = Memory!Failed /\ memories' = memories
      <4>1. ~d.ans.ok
        BY <1>5, <3>3 DEF Memory!Failed
      <4> QED BY <1>1, <3>1, <3>2, <3>3, <4>1 DEF RowKept, Alone, Agrees, About
    <3>4. CASE ans = Memory!Ok(Memory!Reply(c)) /\ Memory!Accepts(c) /\ Memory!Acts(c)
      <4>1. d.ans.ok /\ d.ans.data = Memory!Reply(c)
        BY <1>5, <3>4 DEF Memory!Ok
      <4>2. ASSUME c.op = "list" PROVE Agrees(id)' /\ \A m \in ToSet(d.ans.data) : m \in ToSet(memories')
        <5>1. memories' = memories
          BY <1>2, <3>4, <4>2, MemoryActs
        <5> QED BY <1>1, <1>2, <3>1, <3>4, <4>1, <4>2, <5>1, MemoryReplies DEF Agrees
      <4>3. ASSUME c.op \in Memory!Patches
            PROVE  /\ d.ans.data \in ToSet(memories')
                   /\ \A r \in ToSet(rows) : r.id = id => Memory!Patched(r, d) \in ToSet(memories')
        <5>1. PICK m \in ToSet(memories) : m.id = c.arg.id /\ d.ans.data = Memory!Patched(m, c)
          BY <1>2, <3>4, <4>1, <4>3, MemoryReplies
        <5>2. ToSet(memories') = {IF x.id = c.arg.id THEN Memory!Patched(x, c) ELSE x : x \in ToSet(memories)}
          BY <1>2, <3>4, <4>3, MemoryActs
        <5>3. id = c.arg.id
          BY <1>2, <2>3, <4>3, AboutWhat DEF MemoryRequest
        <5> QED BY <1>7, <3>1, <5>1, <5>2, <5>3 DEF Agrees
      <4>4. Outcome(d, id)'
        BY <1>1, <1>5, <4>2, <4>3 DEF Outcome, Memory!Patches
      <4>5. d \in calls' /\ About(d, id) /\ (d.op = "list" => Agrees(id)')
        BY <1>4, <1>5, <1>6, <2>3, <4>2
      <4> QED BY <3>2, <4>1, <4>4, <4>5 DEF RowKept, Alone, About
    <3> QED BY <1>3, <3>3, <3>4
  <2> QED BY <2>2, <2>3
<1>10. ASSUME faults = 0, 0 \notin overlapped PROVE RulesKept'
  <2>1. RulesKept
    BY <1>10 DEF MemoryInv
  <2>2. CASE ~About(c, 0)
    <3>1. c.op \notin Memory!RuleCalls
      BY <1>2, <2>2, AboutWhat DEF MemoryRequest
    <3>2. rules' = rules
      BY <1>3, <3>1 DEF Memory!Acts, Memory!RuleCalls
    <3>3. \A e : About(e, 0) => (e \in calls' <=> e \in calls)
      BY <1>4, <1>6, <2>2
    <3> QED BY <1>1, <2>1, <3>2, <3>3, RulesRest
  <2>3. CASE About(c, 0)
    <3>1. c.op \in {"ignore", "rules", "unignore"}
      BY <1>2, <2>3, AboutWhat DEF MemoryRequest, Memory!RuleCalls
    <3>2. (\A e \in calls : About(e, 0) => e = c) /\ RulesAgree(c)
      BY <2>1, <2>3 DEF RulesKept, Alone
    <3>3. \A e \in calls' : About(e, 0) => e = d
      BY <1>4, <3>2
    <3>4. RulesAgree(d)'
      <4>1. CASE ans = Memory!Failed /\ ~Memory!Accepts(c) /\ UNCHANGED <<memories, rules>>
        <5>1. c.op = "unignore"
          BY <3>1, <4>1 DEF Memory!Accepts, Memory!Patches, Memory!Deletions
        <5>2. ~d.ans.ok
          BY <1>5, <4>1 DEF Memory!Failed
        <5> QED BY <1>1, <1>2, <1>5, <3>2, <4>1, <5>1, <5>2 DEF RulesAgree
      <4>2. CASE ans = Memory!Ok(Memory!Reply(c)) /\ Memory!Accepts(c) /\ Memory!Acts(c)
        <5>1. d.ans.ok /\ d.ans.done /\ d.ans.data = Memory!Reply(c)
          BY <1>5, <4>2 DEF Memory!Ok
        <5>2. CASE c.op = "ignore"
          BY <1>5, <5>1, <5>2 DEF RulesAgree
        <5>3. CASE c.op = "rules"
          <6>1. rules' = rules /\ Memory!Reply(c) = rules
            BY <1>2, <4>2, <5>3, MemoryReplies DEF Memory!Acts
          <6> QED BY <1>5, <5>1, <5>3, <6>1 DEF RulesAgree
        <5>4. CASE c.op = "unignore"
          <6>1. rules' = rules \ {c.arg.type} /\ ignored = rules
            BY <1>2, <3>2, <4>2, <5>4 DEF Memory!Acts, RulesAgree
          <6> QED BY <1>1, <1>5, <5>1, <5>4, <6>1 DEF RulesAgree
        <5> QED BY <3>1, <5>2, <5>3, <5>4
      <4> QED BY <1>3, <4>1, <4>2
    <3>5. About(d, 0) /\ d \in calls'
      BY <1>4, <1>6, <2>3
    <3> QED BY <3>3, <3>4, <3>5 DEF RulesKept, Alone, About
  <2> QED BY <2>2, <2>3
<1> QED BY <1>1, <1>4, <1>9, <1>10 DEF MemoryInv, AskedFits

\* A request fails.
LEMMA MemoryLose ==
  ASSUME MemoryInv, NEW c \in calls, Memory!Lose(c) PROVE MemoryInv'
<1>1. /\ faults' = faults + 1 /\ Memory!Answered(c, Memory!Failed) /\ UNCHANGED <<rows, asked>>
      /\ memories' = memories \/ Memory!Acts(c)
  BY DEF Memory!Lose, Memory!Fails, Memory!shownVars
<1>2. faults' \in Nat /\ faults' # 0
  BY <1>1 DEF MemoryInv, MemoryData
<1>3. MemoryData'
  BY <1>1, <1>2, MemoryAnswered DEF MemoryInv
<1> QED BY <1>1, <1>2, <1>3 DEF MemoryInv, AskedFits

\* A button sends a request: what it shares with one under way is recorded.
LEMMA MemorySends ==
  ASSUME MemoryInv, NEW op, NEW arg, Memory!Sends(Memory!Call(op, arg)), UNCHANGED <<rows, ignored, asked>>,
         op \in {"list", "clear"} \cup Memory!RuleCalls \cup Memory!Patches \cup Memory!Deletions, op # "rules",
         op \in Memory!Patches \cup Memory!Deletions => arg.id \in {1, 2}
  PROVE  MemoryInv'
<1> DEFINE c0 == Memory!Call(op, arg)
<1>0. PICK d : d = Sent(op, arg, presses')
  OBVIOUS
<1>1. /\ calls' = calls \cup {d} /\ UNCHANGED <<memories, rules, faults>>
      /\ overlapped' = overlapped \cup UNION {Memory!Touches(c0) \cap Memory!Touches(e) : e \in calls}
  BY <1>0, SentForm DEF Memory!Sends, Memory!Press, Memory!By, Memory!Call, Memory!Unanswered, Unanswered
<1>2. Memory!Touches(d) = Memory!Touches(c0)
  BY <1>0 DEF Memory!Touches, Sent, Memory!Call
<1>3. WellFormed(d) /\ d.op = op /\ d.arg = arg /\ ~d.ans.ok /\ ~d.ans.done
  BY <1>0 DEF WellFormed, Sent, Unanswered
<1> HIDE DEF c0
<1>4. MemoryRequest(d)
  BY <1>3 DEF MemoryRequest
<1>5. MemoryData'
  BY <1>1, <1>4 DEF MemoryInv, MemoryData
<1>6. \A id, e : id \notin overlapped' /\ About(d, id) /\ About(e, id) => e \notin calls
  BY <1>1, <1>2 DEF About
<1>7. ASSUME faults = 0, NEW id \in {1, 2} \ overlapped' PROVE RowKept(id)'
  <2>1. RowKept(id)
    BY <1>1, <1>7 DEF MemoryInv
  <2>2. CASE ~About(d, id)
    <3>1. \A e : About(e, id) => (e \in calls' <=> e \in calls)
      BY <1>1, <2>2
    <3>2. /\ \A m \in ToSet(rows) \cup ToSet(rows') \cup ToSet(memories) : RowForm(m)
          /\ \A e \in calls' : MemoryRequest(e)
      BY <1>1, <1>4 DEF MemoryInv, MemoryData, RowsFit
    <3> QED BY <1>1, <2>1, <3>1, <3>2, RowRests
  <2>3. CASE About(d, id)
    <3>1. \A e \in calls : ~About(e, id)
      BY <1>6, <1>7, <2>3
    <3>2. Agrees(id)
      BY <2>1, <3>1 DEF RowKept
    <3>3. \A e \in calls' : About(e, id) => e = d
      BY <1>1, <3>1
    <3> QED BY <1>1, <1>3, <3>2, <3>3 DEF RowKept, Alone, Agrees, About
  <2> QED BY <2>2, <2>3
<1>8. ASSUME faults = 0, 0 \notin overlapped' PROVE RulesKept'
  <2>1. RulesKept
    BY <1>1, <1>8 DEF MemoryInv
  <2>2. CASE ~About(d, 0)
    <3>1. \A e : About(e, 0) => (e \in calls' <=> e \in calls)
      BY <1>1, <2>2
    <3> QED BY <1>1, <2>1, <3>1, RulesRest
  <2>3. CASE About(d, 0)
    <3>1. \A e \in calls : ~About(e, 0)
      BY <1>6, <1>8, <2>3
    <3>2. ignored = rules
      BY <2>1, <3>1 DEF RulesKept
    <3>3. \A e \in calls' : About(e, 0) => e = d
      BY <1>1, <3>1
    <3>4. RulesAgree(d)'
      BY <1>1, <1>3, <3>2 DEF RulesAgree
    <3>5. d \in calls'
      BY <1>1
    <3> QED BY <2>3, <3>3, <3>4, <3>5 DEF RulesKept, Alone, About
  <2> QED BY <2>2, <2>3
<1> QED BY <1>1, <1>5, <1>7, <1>8 DEF MemoryInv, AskedFits

\* An answer about the memories is heard: the rows of those it is about are as the service keeps them.
LEMMA MemoryHeard ==
  ASSUME MemoryInv, NEW c \in calls, Memory!Heard(c, {}), UNCHANGED <<memories, rules, ignored, overlapped>>,
         ~About(c, 0), RowsFit(rows'), asked' = asked \/ asked' = Memory!Nothing,
         \A id, r : ~About(c, id) /\ r.id = id => (r \in ToSet(rows') <=> r \in ToSet(rows)),
         \A id \in {1, 2} : faults = 0 /\ About(c, id) /\ RowKept(id) => Agrees(id)'
  PROVE  MemoryInv'
<1>1. calls' = calls \ {c} /\ UNCHANGED faults
  BY DEF Memory!Heard, Memory!By
<1>2. MemoryData'
  BY <1>1 DEF MemoryInv, MemoryData
<1>3. ASSUME faults = 0, NEW id \in {1, 2} \ overlapped PROVE RowKept(id)'
  <2>1. RowKept(id)
    BY <1>3 DEF MemoryInv
  <2>2. CASE ~About(c, id)
    <3>1. \A e : About(e, id) => (e \in calls' <=> e \in calls)
      BY <1>1, <2>2
    <3>2. /\ \A m \in ToSet(rows) \cup ToSet(rows') \cup ToSet(memories) : RowForm(m)
          /\ \A e \in calls' : MemoryRequest(e)
      BY <1>1 DEF MemoryInv, MemoryData, RowsFit
    <3> QED BY <2>1, <2>2, <3>1, <3>2, RowRests
  <2>3. CASE About(c, id)
    <3>1. \A e \in calls' : ~About(e, id)
      BY <1>1, <2>1, <2>3 DEF RowKept, Alone
    <3> QED BY <1>3, <2>1, <2>3, <3>1 DEF RowKept, Alone, About
  <2> QED BY <2>2, <2>3
<1>4. ASSUME faults = 0, 0 \notin overlapped PROVE RulesKept'
  <2>1. RulesKept
    BY <1>4 DEF MemoryInv
  <2>2. \A e : About(e, 0) => (e \in calls' <=> e \in calls)
    BY <1>1
  <2> QED BY <2>1, <2>2, RulesRest
<1> QED BY <1>1, <1>2, <1>3, <1>4 DEF MemoryInv, AskedFits

\* The buttons.
LEMMA MemoryPresses ==
  ASSUME MemoryInv,
         \/ \E type : Memory!Filter(type) \/ Memory!Unignore(type)
         \/ \E row \in ToSet(rows) : \/ Memory!IgnoreType(row)
                                     \/ \E op \in Memory!Patches \cup {"reject"} : Memory!PressRow(op, row)
         \/ Memory!Agree
  PROVE  MemoryInv'
<1>1. ASSUME NEW type, Memory!Filter(type) PROVE MemoryInv'
  <2>1. PICK arg : Memory!Sends(Memory!Call("list", arg))
    BY <1>1 DEF Memory!Filter
  <2> QED BY <1>1, <2>1, MemorySends DEF Memory!Filter, Memory!Patches, Memory!Deletions
<1>2. ASSUME NEW type, Memory!Unignore(type) PROVE MemoryInv'
  <2>1. Memory!Sends(Memory!Call("unignore", [type |-> type]))
    BY <1>2 DEF Memory!Unignore
  <2> QED BY <1>2, <2>1, MemorySends DEF Memory!Unignore, Memory!shownVars, Memory!Patches, Memory!Deletions, Memory!RuleCalls
<1>3. ASSUME NEW row, Memory!IgnoreType(row) PROVE MemoryInv'
  <2>1. Memory!Sends(Memory!Call("ignore", [type |-> row.type]))
    BY <1>3 DEF Memory!IgnoreType
  <2> QED BY <1>3, <2>1, MemorySends DEF Memory!IgnoreType, Memory!shownVars, Memory!Patches, Memory!Deletions, Memory!RuleCalls
<1>4. ASSUME NEW row \in ToSet(rows), NEW op \in Memory!Patches \cup {"reject"}, Memory!PressRow(op, row)
      PROVE  MemoryInv'
  <2>1. PICK on : Memory!Sends(Memory!Call(op, [id |-> row.id, on |-> on]))
    BY <1>4 DEF Memory!PressRow
  <2>2. row.id \in {1, 2}
    BY <1>4 DEF MemoryInv, MemoryData, RowsFit, RowForm
  <2>3. op \in Memory!Patches \cup Memory!Deletions /\ op # "rules"
    BY <1>4 DEF Memory!Patches, Memory!Deletions
  <2>4. UNCHANGED <<rows, ignored, asked>>
    BY <1>4 DEF Memory!PressRow, Memory!shownVars
  <2> QED BY <2>1, <2>2, <2>3, <2>4, MemorySends
<1>5. CASE Memory!Agree
  <2>1. /\ Memory!Sends(Memory!Call(asked.op, [id |-> asked.id, on |-> TRUE])) /\ UNCHANGED <<rows, ignored, asked>>
        /\ asked.op \in {"clear", "delete", "permanent"}
    BY <1>5 DEF Memory!Agree, Memory!shownVars, MemoryInv, AskedFits
  <2>2. asked.op \in Memory!Patches \cup Memory!Deletions => asked.id \in {1, 2}
    <3>1. asked.op \in Memory!Patches \cup Memory!Deletions => asked.id \in Memory!Ids(rows)
      BY <1>5 DEF Memory!Agree, Memory!Patches, Memory!Deletions
    <3>2. Memory!Ids(rows) = {r.id : r \in ToSet(rows)}
      BY DEF Memory!Ids, ToSet
    <3> QED BY <3>1, <3>2 DEF MemoryInv, MemoryData, RowsFit, RowForm
  <2>3. asked.op \in {"list", "clear"} \cup Memory!RuleCalls \cup Memory!Patches \cup Memory!Deletions
    BY <2>1 DEF Memory!Deletions
  <2> QED BY <2>1, <2>2, <2>3, MemorySends
<1> QED BY <1>1, <1>2, <1>3, <1>4, <1>5

\* The editor and the dialogs.
LEMMA MemoryIdles ==
  ASSUME MemoryInv,
         \/ \E row : Memory!Edit(row)
         \/ \E op \in {"clear", "delete", "permanent"} : \E id : Memory!Ask([op |-> op, id |-> id])
         \/ Memory!Leave
  PROVE  MemoryInv'
<1>1. UNCHANGED <<calls, faults, memories, rules, rows, ignored, overlapped>>
  BY DEF Memory!Edit, Memory!Ask, Memory!Leave, Memory!callVars
<1>2. AskedFits'
  BY DEF MemoryInv, AskedFits, Memory!Edit, Memory!Ask, Memory!Leave
<1>3. MemoryData'
  BY <1>1 DEF MemoryInv, MemoryData
<1>4. \A id \in {1, 2} : RowKept(id) => RowKept(id)'
  BY <1>1 DEF RowKept, Alone, Agrees, Outcome, About
<1>5. RulesKept => RulesKept'
  BY <1>1, RulesRest
<1> QED BY <1>1, <1>2, <1>3, <1>4, <1>5 DEF MemoryInv

\* The reading of the memories is answered.
LEMMA MemoryListed ==
  ASSUME MemoryInv, NEW c \in calls, Memory!MemoriesListed(c) PROVE MemoryInv'
<1>1. /\ c.op = "list" /\ Memory!Heard(c, {})
      /\ UNCHANGED <<memories, rules, ignored, overlapped, asked>>
      /\ rows' = rows \/ (c.ans.ok /\ rows' = c.ans.data)
  BY DEF Memory!MemoriesListed
<1>2. /\ MemoryRequest(c) /\ RowsFit(rows) /\ RowsFit(rows')
      /\ ~About(c, 0) /\ \A id : About(c, id) <=> id \in {1, 2}
  <2>1. MemoryRequest(c) /\ RowsFit(rows) /\ RowsFit(rows')
    BY <1>1 DEF MemoryInv, MemoryData, MemoryRequest
  <2> QED BY <1>1, <2>1, AboutWhat DEF MemoryRequest
<1>3. \A id, r : ~About(c, id) /\ r.id = id => (r \in ToSet(rows') <=> r \in ToSet(rows))
  BY <1>2 DEF RowsFit, RowForm
<1>4. ASSUME NEW id \in {1, 2}, About(c, id), RowKept(id) PROVE Agrees(id)'
  <2>1. CASE rows' = rows
    <3>1. \A e \in calls : About(e, id) => e.op = "list"
      BY <1>1, <1>4 DEF RowKept, Alone
    <3> QED BY <1>1, <1>4, <2>1, <3>1 DEF RowKept, Agrees
  <2>2. CASE c.ans.ok /\ rows' = c.ans.data
    BY <1>1, <1>4, <2>2 DEF RowKept, Outcome, Agrees
  <2> QED BY <1>1, <2>1, <2>2
<1> QED BY <1>1, <1>2, <1>3, <1>4, MemoryHeard

\* A change of a row is answered.
LEMMA MemoryRowPatched ==
  ASSUME MemoryInv, NEW c \in calls, Memory!RowPatched(c) PROVE MemoryInv'
<1>1. /\ c.op \in Memory!Patches /\ Memory!Heard(c, {})
      /\ UNCHANGED <<memories, rules, ignored, overlapped, asked>>
      /\ c.ans.ok => rows' = [n \in DOMAIN rows |-> IF rows[n].id = c.arg.id THEN Memory!Replaced(rows[n], c) ELSE rows[n]]
      /\ ~c.ans.ok => rows' = rows
  BY DEF Memory!RowPatched
<1>2. /\ MemoryRequest(c) /\ RowsFit(rows)
      /\ ~About(c, 0) /\ \A id : About(c, id) <=> id = c.arg.id
  <2>1. MemoryRequest(c) /\ RowsFit(rows) /\ c.op \notin Memory!RuleCalls
    BY <1>1 DEF MemoryInv, MemoryData, Memory!Patches, Memory!RuleCalls
  <2> QED BY <1>1, <2>1, AboutWhat DEF MemoryRequest
<1>3. CASE ~c.ans.ok
  <2>1. ASSUME NEW id \in {1, 2}, About(c, id), RowKept(id) PROVE Agrees(id)'
    <3>1. \A e \in calls : About(e, id) => ~e.ans.ok
      BY <1>3, <2>1 DEF RowKept, Alone
    <3> QED BY <1>1, <1>3, <2>1, <3>1 DEF RowKept, Agrees
  <2> QED BY <1>1, <1>2, <1>3, <2>1, MemoryHeard
<1>4. CASE c.ans.ok
  <2>1. ASSUME NEW r, RowForm(r), r.id = c.arg.id
        PROVE  RowForm(Memory!Replaced(r, c)) /\ Memory!Replaced(r, c).id = c.arg.id
    <3>1. RowForm(c.ans.data) /\ c.ans.data.id = c.arg.id
      BY <1>1, <1>2, <1>4 DEF MemoryRequest
    <3>2. RowForm(Memory!Patched(r, c)) /\ Memory!Patched(r, c).id = c.arg.id
      BY <2>1, PatchedForm
    <3> QED BY <3>1, <3>2 DEF Memory!Replaced
  <2>2. \A n \in DOMAIN rows : RowForm(rows[n])
    BY <1>2 DEF RowsFit, ToSet
  <2>3. /\ DOMAIN rows' = DOMAIN rows /\ rows' = [n \in DOMAIN rows' |-> rows'[n]]
        /\ \A n \in DOMAIN rows : rows'[n] = IF rows[n].id = c.arg.id THEN Memory!Replaced(rows[n], c) ELSE rows[n]
    BY <1>1, <1>4
  <2>4. RowsFit(rows')
    <3>1. \A n \in DOMAIN rows : RowForm(rows'[n])
      BY <2>1, <2>2, <2>3
    <3> QED BY <1>2, <2>3, <3>1, RowsRewritten
  <2>5. ToSet(rows') = {IF r.id = c.arg.id THEN Memory!Replaced(r, c) ELSE r : r \in ToSet(rows)}
    BY <2>3 DEF ToSet
  <2>6. \A r \in ToSet(rows) : RowForm(r)
    BY <1>2 DEF RowsFit
  <2>7. \A id, r : ~About(c, id) /\ r.id = id => (r \in ToSet(rows') <=> r \in ToSet(rows))
    BY <1>2, <2>1, <2>5, <2>6
  <2>8. ASSUME NEW id \in {1, 2}, About(c, id), RowKept(id) PROVE Agrees(id)'
    <3>1. Outcome(c, id) /\ id = c.arg.id
      BY <1>2, <1>4, <2>8 DEF RowKept
    <3>2. \A r \in ToSet(rows) : r.id = id => Memory!Replaced(r, c) \in ToSet(memories)
      BY <1>1, <3>1 DEF Outcome, Memory!Replaced, Memory!Patches
    <3> QED BY <1>1, <2>5, <3>1, <3>2 DEF Agrees
  <2> QED BY <1>1, <1>2, <2>4, <2>7, <2>8, MemoryHeard
<1> QED BY <1>3, <1>4

\* A deletion is answered, or that everything is deleted.
LEMMA MemoryRowDeleted ==
  ASSUME MemoryInv, NEW c \in calls, Memory!RowDeleted(c) \/ Memory!Cleared(c) PROVE MemoryInv'
<1>1. /\ c.op \in Memory!Deletions \cup {"clear"} /\ Memory!Heard(c, {})
      /\ UNCHANGED <<memories, rules, ignored, overlapped>>
      /\ asked' = asked \/ asked' = Memory!Nothing
      /\ c.ans.ok => \/ c.op \in Memory!Deletions /\ rows' = Memory!Without(rows, c.arg.id)
                     \/ c.op = "clear" /\ rows' = <<>>
      /\ ~c.ans.ok => rows' = rows
  BY DEF Memory!RowDeleted, Memory!Cleared
<1>2. /\ MemoryRequest(c) /\ RowsFit(rows) /\ ~About(c, 0)
      /\ c.op \in Memory!Deletions => \A id : About(c, id) <=> id = c.arg.id
      /\ c.op = "clear" => \A id : About(c, id) <=> id \in {1, 2}
  <2>1. MemoryRequest(c) /\ RowsFit(rows) /\ c.op \notin Memory!RuleCalls
    BY <1>1 DEF MemoryInv, MemoryData, Memory!Deletions, Memory!RuleCalls
  <2> QED BY <1>1, <2>1, AboutWhat DEF MemoryRequest
<1>3. CASE ~c.ans.ok
  <2>1. ASSUME NEW id \in {1, 2}, About(c, id), RowKept(id) PROVE Agrees(id)'
    <3>1. \A e \in calls : About(e, id) => ~e.ans.ok
      BY <1>3, <2>1 DEF RowKept, Alone
    <3> QED BY <1>1, <1>3, <2>1, <3>1 DEF RowKept, Agrees
  <2> QED BY <1>1, <1>2, <1>3, <2>1, MemoryHeard
<1>4. CASE c.ans.ok /\ c.op \in Memory!Deletions /\ rows' = Memory!Without(rows, c.arg.id)
  <2>1. RowsFit(rows') /\ ToSet(rows') = {r \in ToSet(rows) : r.id # c.arg.id}
    BY <1>2, <1>4, MemoryWithout
  <2>2. \A id, r : ~About(c, id) /\ r.id = id => (r \in ToSet(rows') <=> r \in ToSet(rows))
    BY <1>2, <1>4, <2>1
  <2>3. \A id \in {1, 2} : About(c, id) => Agrees(id)'
    BY <1>2, <1>4, <2>1 DEF Agrees
  <2> QED BY <1>1, <1>2, <2>1, <2>2, <2>3, MemoryHeard
<1>5. CASE c.ans.ok /\ c.op = "clear" /\ rows' = <<>>
  <2>1. RowsFit(rows') /\ ToSet(rows') = {}
    BY <1>5 DEF RowsFit, IsList, ToSet
  <2>2. \A id, r : ~About(c, id) /\ r.id = id => (r \in ToSet(rows') <=> r \in ToSet(rows))
    BY <1>2, <1>5, <2>1 DEF RowsFit, RowForm
  <2>3. \A id \in {1, 2} : Agrees(id)'
    BY <2>1 DEF Agrees
  <2> QED BY <1>1, <1>2, <2>1, <2>2, <2>3, MemoryHeard
<1> QED BY <1>1, <1>3, <1>4, <1>5

\* An answer about the ignored types is heard; they are read again after one was added.
LEMMA MemoryRulesChanged ==
  ASSUME MemoryInv, NEW c \in calls, Memory!RulesChanged(c) PROVE MemoryInv'
<1>1. /\ c.op \in Memory!RuleCalls /\ c.ans.done
      /\ UNCHANGED <<faults, memories, rules, rows, overlapped, asked>>
  BY DEF Memory!RulesChanged, Memory!Heard
<1>2. MemoryRequest(c) /\ About(c, 0) /\ \A id : About(c, id) <=> id = 0
  <2>1. MemoryRequest(c)
    BY DEF MemoryInv, MemoryData
  <2> QED BY <1>1, <2>1, AboutWhat DEF MemoryRequest
<1>3. PICK d : d = Sent("rules", [type |-> c.arg.type], c.n)
  OBVIOUS
<1>4. WellFormed(d) /\ d.op = "rules" /\ ~d.ans.ok /\ ~d.ans.done
  BY <1>3 DEF WellFormed, Sent, Unanswered
<1>5. MemoryRequest(d) /\ About(d, 0) /\ \A id : About(d, id) <=> id = 0
  <2>1. MemoryRequest(d)
    BY <1>4 DEF MemoryRequest, Memory!RuleCalls, Memory!Patches, Memory!Deletions
  <2> QED BY <1>4, <2>1, AboutWhat DEF MemoryRequest, Memory!RuleCalls
<1>6. \/ c.op = "ignore" /\ c.ans.ok /\ calls' = (calls \ {c}) \cup {d}
      \/ ~(c.op = "ignore" /\ c.ans.ok) /\ calls' = calls \ {c}
  <2>1. CASE c.op = "ignore" /\ c.ans.ok
    BY <1>3, <2>1, SentForm DEF Memory!RulesChanged, Memory!Heard, Memory!By, Memory!Call, Memory!Unanswered, Unanswered
  <2>2. CASE ~(c.op = "ignore" /\ c.ans.ok)
    BY <2>2 DEF Memory!RulesChanged, Memory!Heard, Memory!By
  <2> QED BY <2>1, <2>2
<1>7. MemoryData'
  BY <1>1, <1>5, <1>6 DEF MemoryInv, MemoryData
<1>8. ASSUME faults = 0, NEW id \in {1, 2} \ overlapped PROVE RowKept(id)'
  <2>1. RowKept(id)
    BY <1>8 DEF MemoryInv
  <2>2. \A e : About(e, id) => (e \in calls' <=> e \in calls)
    BY <1>2, <1>5, <1>6
  <2>3. /\ \A m \in ToSet(rows) \cup ToSet(rows') \cup ToSet(memories) : RowForm(m)
        /\ \A e \in calls' : MemoryRequest(e)
    BY <1>1, <1>7 DEF MemoryInv, MemoryData, RowsFit
  <2> QED BY <1>1, <2>1, <2>2, <2>3, RowRests
<1>9. ASSUME faults = 0, 0 \notin overlapped PROVE RulesKept'
  <2>1. RulesKept
    BY <1>9 DEF MemoryInv
  <2>2. RulesAgree(c) /\ \A e \in calls : About(e, 0) => e = c
    BY <1>2, <2>1 DEF RulesKept, Alone
  <2>3. CASE c.op = "ignore"
    <3>1. calls' = (calls \ {c}) \cup {d}
      BY <1>1, <1>6, <2>2, <2>3 DEF RulesAgree
    <3>2. \A e \in calls' : About(e, 0) => e = d
      BY <2>2, <3>1
    <3>3. RulesAgree(d)'
      BY <1>4 DEF RulesAgree
    <3> QED BY <1>5, <3>1, <3>2, <3>3 DEF RulesKept, Alone, About
  <2>4. CASE c.op # "ignore"
    <3>1. \A e \in calls' : ~About(e, 0)
      BY <1>6, <2>2, <2>4
    <3>2. ignored' = rules
      <4>1. CASE c.op = "rules"
        <5>1. c.ans.ok /\ c.ans.data = rules
          BY <1>1, <2>2, <4>1 DEF RulesAgree
        <5>2. ignored' = c.ans.data
          BY <4>1, <5>1 DEF Memory!RulesChanged
        <5> QED BY <5>1, <5>2
      <4>2. CASE c.op = "unignore" /\ c.ans.ok
        BY <2>2, <4>2 DEF Memory!RulesChanged, RulesAgree
      <4>3. CASE c.op = "unignore" /\ ~c.ans.ok
        BY <2>2, <4>3 DEF Memory!RulesChanged, RulesAgree
      <4> QED BY <1>1, <2>4, <4>1, <4>2, <4>3 DEF Memory!RuleCalls
    <3> QED BY <1>1, <3>1, <3>2 DEF RulesKept, Alone, About
  <2> QED BY <2>3, <2>4
<1> QED BY <1>1, <1>7, <1>8, <1>9 DEF MemoryInv, AskedFits

\* Each step of the memory panel keeps its invariant.
LEMMA MemoryNext == ASSUME MemoryInv, Memory!Next PROVE MemoryInv'
<1>1. ASSUME NEW type, Memory!Filter(type) \/ Memory!Unignore(type) PROVE MemoryInv'
  BY <1>1, MemoryPresses
<1>2. ASSUME NEW row \in ToSet(rows), Memory!IgnoreType(row) PROVE MemoryInv'
  BY <1>2, MemoryPresses
<1>3. ASSUME NEW row \in ToSet(rows), NEW op \in Memory!Patches \cup {"reject"}, Memory!PressRow(op, row)
      PROVE  MemoryInv'
  BY <1>3, MemoryPresses
<1>4. CASE Memory!Agree
  BY <1>4, MemoryPresses
<1>5. ASSUME NEW row, Memory!Edit(row) PROVE MemoryInv'
  BY <1>5, MemoryIdles
<1>6. ASSUME NEW op \in {"clear", "delete", "permanent"}, NEW id, Memory!Ask([op |-> op, id |-> id]) PROVE MemoryInv'
  BY <1>6, MemoryIdles
<1>7. CASE Memory!Leave
  BY <1>7, MemoryIdles
<1>8. ASSUME NEW c \in calls, Memory!Serve(c) PROVE MemoryInv'
  BY <1>8, MemoryServe
<1>9. ASSUME NEW c \in calls, Memory!Lose(c) PROVE MemoryInv'
  BY <1>9, MemoryLose
<1>10. ASSUME NEW c \in calls, Memory!MemoriesListed(c) PROVE MemoryInv'
  BY <1>10, MemoryListed
<1>11. ASSUME NEW c \in calls, Memory!RowPatched(c) PROVE MemoryInv'
  BY <1>11, MemoryRowPatched
<1>12. ASSUME NEW c \in calls, Memory!RowDeleted(c) \/ Memory!Cleared(c) PROVE MemoryInv'
  BY <1>12, MemoryRowDeleted
<1>13. ASSUME NEW c \in calls, Memory!RulesChanged(c) PROVE MemoryInv'
  BY <1>13, MemoryRulesChanged
<1>14. Memory!ToSet(rows) = ToSet(rows)
  BY DEF Memory!ToSet, ToSet
<1> QED BY <1>1, <1>2, <1>3, <1>4, <1>5, <1>6, <1>7, <1>8, <1>9, <1>10, <1>11, <1>12, <1>13, <1>14 DEF Memory!Next

-----------------------------------------------------------------------------
\* The screen that is open keeps its invariant.
ScreenInv ==
  /\ screen = "settings" => SettingsInv
  /\ screen = "knowledge" => KnowledgeInv
  /\ screen = "update" => UpdateInv
  /\ screen = "humans" => HumanInv
  /\ screen = "conversations" => ListInv
  /\ screen = "memory" => MemoryInv

\* The settings are being read, and the sidecar runs with them.
LEMMA SettingsOpens == ASSUME Init, screen = "settings" PROVE SettingsInv
<1>1. calls = {Sent("load", <<>>, 0)} /\ faults = 0 /\ running = [settings |-> stored, secrets |-> keychain]
  BY DEF Init, FirstCalls, CallsInit, Settings!FirstCalls, Settings!Call, Settings!Unanswered, Unanswered, Sent,
     Settings!ScreenInit
<1>2. WellFormed(Sent("load", <<>>, 0)) /\ ~Sent("load", <<>>, 0).ans.done
  BY DEF WellFormed, Sent, Unanswered
<1> QED BY <1>1, <1>2 DEF SettingsInv, InEffect

\* The knowledge screen has its list to read.
LEMMA KnowledgeOpens == ASSUME Init, screen = "knowledge" PROVE KnowledgeInv
<1>1. /\ calls = {Sent("sources", <<>>, 0)} /\ faults = 0 /\ crossed = FALSE
      /\ kept = Sources /\ enabled = Sources /\ listed = {}
  BY DEF Init, FirstCalls, CallsInit, Knowledge!FirstCalls, Knowledge!Call, Knowledge!Unanswered, Unanswered, Sent,
     Knowledge!ScreenInit
<1> DEFINE c == Sent("sources", <<>>, 0)
<1>2. WellFormed(c) /\ c.ans.done = FALSE /\ c.op = "sources"
  BY DEF WellFormed, Sent, Unanswered
<1> HIDE DEF c
<1> QED BY <1>1, <1>2 DEF KnowledgeInv, SourcesFollow, SourcesFirst, EnablesAgree, SourceOps, c

\* The update panel has its settings to read.
LEMMA UpdateOpens == ASSUME Init, screen = "update" PROVE UpdateInv
<1>1. /\ calls = {Sent("config", 0, 0)} /\ panel = 0 /\ strange = FALSE /\ published = 0
      /\ u = Update!InitialUpdateState
  BY DEF Init, FirstCalls, CallsInit, Update!FirstCalls, Update!Call, Update!Unanswered, Unanswered, Sent,
     Update!ScreenInit, Update!NoVersion
<1>2. IsState(u) /\ u.phase = "idle"
  BY <1>1 DEF IsState, Update!InitialUpdateState
<1> DEFINE c == Sent("config", 0, 0)
<1>3. WellFormed(c) /\ c.arg = 0 /\ c.op = "config"
  BY DEF WellFormed, Sent
<1>4. \A e \in calls : e.op = "config" /\ e.arg = 0 /\ WellFormed(e)
  BY <1>1, <1>3
<1>5. PhaseHasCall /\ InstallsAlone /\ DownloadStages
  BY <1>2, <1>4 DEF PhaseHasCall, InstallsAlone, DownloadStages
<1>6. panel \in Nat /\ published \in Nat /\ 0 \in 0..panel
  <2>1. panel = 0 /\ published = 0
    BY <1>1
  <2> QED BY <2>1
<1>7. strange \in BOOLEAN
  BY <1>1, Zenon
<1> QED BY <1>2, <1>4, <1>5, <1>6, <1>7 DEF UpdateInv

\* The digital humans have no deletion under way.
LEMMA HumanOpens == ASSUME Init, screen = "humans" PROVE HumanInv
<1>1. /\ calls = {Sent("list", [offset |-> 0], 0)} /\ faults = 0 /\ order \in Seq(Nat)
      /\ target = 0 /\ result = DigitalHumans!NoResult
  <2>1. order = [n \in DOMAIN <<[remote |-> TRUE, job |-> "running"], [remote |-> FALSE, job |-> "none"],
                               [remote |-> TRUE, job |-> "failed"]>> |-> n]
    BY DEF Init, DigitalHumans!ScreenInit
  <2>2. order = [n \in 1..3 |-> n]
    BY <2>1
  <2>3. order \in Seq(Nat)
    BY <2>2
  <2> QED BY <2>3 DEF Init, FirstCalls, CallsInit, DigitalHumans!FirstCalls, DigitalHumans!Call, DigitalHumans!Unanswered,
     Unanswered, Sent, DigitalHumans!ScreenInit, DigitalHumans!Nobody
<1> DEFINE c == Sent("list", [offset |-> 0], 0)
<1>2. WellFormed(c) /\ ~Deletion(c)
  BY DEF WellFormed, Sent, Deletion
<1> HIDE DEF c
<1> QED BY <1>1, <1>2 DEF HumanInv, OneDeletion, DigitalHumans!ResultIsOfTarget, DigitalHumans!FailedCleanupKeeps,
           DigitalHumans!Nobody, c

\* The conversation list is being read.
LEMMA ListOpens == ASSUME Init, screen = "conversations" PROVE ListInv
<1>1. /\ calls = {Sent("list", [view |-> "active", offset |-> 0, seq |-> 1], 0)}
      /\ items = <<>> /\ itemsRef = <<>> /\ loading = TRUE /\ again = Conversations!None /\ told = {}
  BY DEF Init, FirstCalls, CallsInit, Conversations!FirstCalls, Conversations!Call, Conversations!Unanswered,
     Unanswered, Sent, Conversations!ScreenInit
<1>2. IsList(store)
  <2>1. store = [n \in 1..2 |-> [id |-> n, archived |-> <<FALSE, FALSE>>[n], deleted |-> FALSE]]
    BY DEF Init, Conversations!ScreenInit
  <2>2. DOMAIN store = 1..2 /\ store = [n \in DOMAIN store |-> store[n]]
    BY <2>1
  <2> QED BY <2>2, WrittenList
<1>3. IsList(<<>>) /\ Conversations!Ids(<<>>) = {}
  BY DEF IsList, Conversations!Ids
<1> DEFINE c == Sent("list", [view |-> "active", offset |-> 0, seq |-> 1], 0)
<1>4. RequestFits(c) /\ c.op = "list"
  BY DEF RequestFits, WellFormed, Sent, Unanswered
<1> HIDE DEF c
<1>5. DataFits
  BY <1>1, <1>2, <1>3, <1>4 DEF DataFits, Conversations!None, c
<1> QED BY <1>1, <1>3, <1>5 DEF ListInv, ViewFits, ToldFits

\* The memory panel reads the memories and the ignored types.
LEMMA MemoryOpens == ASSUME Init, screen = "memory" PROVE MemoryInv
<1> DEFINE c == Sent("list", [filter |-> "all", n |-> 0], 0)
           d == Sent("rules", [type |-> "all"], 0)
<1>1. /\ calls = {c, d} /\ faults = 0 /\ rows = <<>> /\ overlapped = {} /\ asked = Memory!Nothing
  BY DEF Init, FirstCalls, CallsInit, Memory!FirstCalls, Memory!Call, Memory!Unanswered, Unanswered, Sent, Memory!ScreenInit
<1>2. memories = [n \in 1..2 |-> [id |-> n, type |-> <<"goal", "habit">>[n], marks |-> {}]]
  BY DEF Init, Memory!ScreenInit
<1>3. /\ WellFormed(c) /\ c.op = "list" /\ ~c.ans.ok /\ ~c.ans.done
      /\ WellFormed(d) /\ d.op = "rules" /\ ~d.ans.ok /\ ~d.ans.done
  BY DEF WellFormed, Sent, Unanswered
<1> HIDE DEF c, d
<1>4. MemoryRequest(c) /\ MemoryRequest(d)
  BY <1>3 DEF MemoryRequest, Memory!RuleCalls, Memory!Patches, Memory!Deletions
<1>5. (\A id : About(c, id) <=> id \in {1, 2}) /\ (\A id : About(d, id) <=> id = 0)
  BY <1>3, <1>4, AboutWhat DEF MemoryRequest, Memory!RuleCalls
<1>6. RowsFit(memories) /\ \A a, b \in ToSet(memories) : a.id = b.id => a = b
  <2>1. DOMAIN memories = 1..2 /\ memories = [n \in DOMAIN memories |-> memories[n]]
    BY <1>2
  <2>2. IsList(memories)
    BY <2>1, WrittenList
  <2>3. ToSet(memories) = {[id |-> n, type |-> <<"goal", "habit">>[n], marks |-> {}] : n \in 1..2}
    BY <1>2 DEF ToSet
  <2>4. \A n \in 1..2 : n \in {1, 2}
    OBVIOUS
  <2> QED BY <2>2, <2>3, <2>4 DEF RowsFit, RowForm
<1>7. RowsFit(rows) /\ ToSet(rows) = {}
  BY <1>1 DEF RowsFit, IsList, ToSet
<1>8. MemoryData
  BY <1>1, <1>4, <1>6, <1>7 DEF MemoryData
<1>9. \A id \in {1, 2} : RowKept(id)
  BY <1>1, <1>3, <1>5, <1>7 DEF RowKept, Alone, Agrees
<1>10. RulesKept
  BY <1>1, <1>3, <1>5 DEF RulesKept, Alone, RulesAgree
<1> QED BY <1>1, <1>8, <1>9, <1>10 DEF MemoryInv, AskedFits

\* Whatever screen is opened is opened in its invariant.
LEMMA ScreenOpens == Init => ScreenInv
BY SettingsOpens, KnowledgeOpens, UpdateOpens, HumanOpens, ListOpens, MemoryOpens DEF ScreenInv

\* A step is one of the open screen, which stays open.
LEMMA ScreenStep == ASSUME ScreenInv, [Next]_vars PROVE ScreenInv'
<1>1. CASE Next
  <2>1. Versions \in Nat
    BY ScreenConstants
  <2>2. CASE screen = "conversations" /\ Conversations!Next
    BY <1>1, <2>2, ListNext DEF ScreenInv, Next
  <2>3. CASE screen = "humans" /\ DigitalHumans!Next
    BY <1>1, <2>3, HumanNext DEF ScreenInv, Next
  <2>4. CASE screen = "memory" /\ Memory!Next
    BY <1>1, <2>4, MemoryNext DEF ScreenInv, Next
  <2>5. CASE screen = "settings" /\ Settings!Next
    BY <1>1, <2>5, SettingsNext DEF ScreenInv, Next
  <2>6. CASE screen = "knowledge" /\ Knowledge!Next
    BY <1>1, <2>6, KnowledgeNext DEF ScreenInv, Next
  <2>7. CASE screen = "update" /\ Update!Next
    BY <1>1, <2>1, <2>7, UpdateNext DEF ScreenInv, Next
  <2> QED BY <1>1, <2>2, <2>3, <2>4, <2>5, <2>6, <2>7 DEF Next
<1>2. CASE UNCHANGED vars
  <2>1. UNCHANGED <<calls, faults, screen>>
    BY <1>2 DEF vars, callVars
  <2>2. SettingsInv => SettingsInv'
    BY <1>2, <2>1 DEF vars, formVars, SettingsInv, InEffect, TakesEffect
  <2>3. KnowledgeInv => KnowledgeInv'
    BY <1>2, <2>1 DEF vars, sourceVars, KnowledgeInv, SourcesFollow, SourcesFirst, EnablesAgree
  <2>4. UpdateInv => UpdateInv'
    BY <1>2, <2>1 DEF vars, updateVars, UpdateInv, PhaseHasCall, InstallsAlone, DownloadStages
  <2>5. HumanInv => HumanInv'
    BY <1>2, <2>1 DEF vars, humanVars, HumanInv, OneDeletion, DeletionFits, DigitalHumans!ResultIsOfTarget,
       DigitalHumans!FailedCleanupKeeps, DigitalHumans!Exists
  <2>6. ListInv => ListInv'
    BY <1>2, <2>1 DEF vars, listVars, ListInv, DataFits, ViewFits, ToldFits, Conversations!View
  <2>7. MemoryInv => MemoryInv'
    <3>1. UNCHANGED memoryVars
      BY <1>2 DEF vars
    <3>2. (AskedFits => AskedFits') /\ (MemoryData => MemoryData')
      BY <2>1, <3>1 DEF memoryVars, AskedFits, MemoryData
    <3>3. \A id : RowKept(id) => RowKept(id)'
      BY <2>1, <3>1 DEF memoryVars, RowKept, Alone, Agrees, Outcome, About
    <3>4. RulesKept => RulesKept'
      BY <2>1, <3>1, RulesRest DEF memoryVars
    <3> QED BY <2>1, <3>1, <3>2, <3>3, <3>4 DEF MemoryInv, memoryVars
  <2> QED BY <2>1, <2>2, <2>3, <2>4, <2>5, <2>6, <2>7 DEF ScreenInv
<1> QED BY <1>1, <1>2

\* In every behaviour the open screen is in its invariant.
LEMMA ScreenInvariant == Spec => []ScreenInv
BY ScreenOpens, ScreenStep, PTL DEF Spec

\* A late answer never overwrites the rows of another view, except as recorded: what is listed is of
\* the tab and the search it is listed under (ConversationManagement.tsx:125-126).
THEOREM ListStaysOfView == Spec => []ListIsOfView
<1>1. ScreenInv => ListIsOfView
  BY DEF ScreenInv, ListInv, ViewFits, ListIsOfView, Conversations!ListIsOfView, Conversations!Shown,
     Conversations!ToSet, ToSet
<1> QED BY <1>1, ScreenInvariant, PTL

\* A conversation that was deleted stays off the list, except as recorded
\* (ConversationManagement.tsx:343-366).
THEOREM DeletionsStay == Spec => []DeletedStaysAway
<1>1. ScreenInv => DeletedStaysAway
  BY DEF ScreenInv, ListInv, ToldFits, DeletedStaysAway, Conversations!DeletedStaysAway
<1> QED BY <1>1, ScreenInvariant, PTL

\* What the dialog says of a deletion is about the human it names (DigitalHumanManagement.tsx:330-366).
THEOREM ResultStaysOfTarget == Spec => []ResultIsOfTarget
<1>1. ScreenInv => ResultIsOfTarget
  BY DEF ScreenInv, HumanInv, ResultIsOfTarget
<1> QED BY <1>1, ScreenInvariant, PTL

\* A clean-up that failed leaves the human in place (DigitalHumanManagement.tsx:99-101).
THEOREM FailedCleanupAlwaysKeeps == Spec => []FailedCleanupKeeps
<1>1. ScreenInv => FailedCleanupKeeps
  BY DEF ScreenInv, HumanInv, FailedCleanupKeeps
<1> QED BY <1>1, ScreenInvariant, PTL

\* Once all is answered the memory panel shows what the service keeps (MemoryPanel.tsx:58-76, 150-223).
THEOREM MemoryComesToAgree == Spec => []MemoryAgrees
<1>1. ASSUME MemoryInv, calls = {}, faults = 0
      PROVE  /\ \A row \in ToSet(rows) : row.id \in overlapped \/ row \in ToSet(memories)
             /\ 0 \in overlapped \/ ignored = rules
  <2>1. ASSUME NEW row \in ToSet(rows), row.id \notin overlapped PROVE row \in ToSet(memories)
    <3>1. row.id \in {1, 2}
      BY <1>1 DEF MemoryInv, MemoryData, RowsFit, RowForm
    <3>2. RowKept(row.id)
      BY <1>1, <2>1, <3>1 DEF MemoryInv
    <3> QED BY <1>1, <3>2 DEF RowKept, Agrees
  <2>2. 0 \notin overlapped => ignored = rules
    BY <1>1 DEF MemoryInv, RulesKept
  <2> QED BY <2>1, <2>2
<1>2. ScreenInv => MemoryAgrees
  BY <1>1 DEF ScreenInv, MemoryAgrees, Memory!MemoryAgrees, Memory!NoRow, Memory!ToSet, ToSet
<1> QED BY <1>2, ScreenInvariant, PTL

\* Once all is answered the sidecar runs with what is stored (Settings.tsx:221-294, 376-395).
THEOREM StoredComesToTakeEffect == Spec => []StoredTakesEffect
<1>1. ScreenInv => StoredTakesEffect
  BY DEF ScreenInv, SettingsInv, InEffect, StoredTakesEffect, Settings!StoredTakesEffect
<1> QED BY <1>1, ScreenInvariant, PTL

\* Once all is answered the knowledge sources are shown as the service has them (Settings.tsx:170-186,
\* 296-366).
THEOREM SourcesComeToAgree == Spec => []SourcesAgree
<1>1. ScreenInv => SourcesAgree
  BY DEF ScreenInv, KnowledgeInv, SourcesFollow, EnablesAgree, SourcesAgree, Knowledge!SourcesAgree
<1> QED BY <1>1, ScreenInvariant, PTL

\* What the update panel says is under way has its call, and what it offers is staged
\* (updateStateMachine.ts:160-204, useUpdateManager.ts:76-136).
THEOREM PanelStaysBacked == Spec => []PanelIsBacked
<1>1. ASSUME UpdateInv PROVE Update!PanelIsBacked
  <2>1. ASSUME ~strange, u.phase \in {"checking", "downloading", "verifying_signature", "installing"}
        PROVE  \E c \in calls : c.arg = panel /\ c.op = (CASE u.phase = "checking" -> "check"
                                                           [] u.phase = "installing" -> "install"
                                                           [] OTHER -> "download")
    <3>1. CASE u.phase = "checking"
      BY <1>1, <2>1, <3>1 DEF UpdateInv, PhaseHasCall
    <3>2. CASE u.phase = "downloading"
      BY <1>1, <2>1, <3>2 DEF UpdateInv, PhaseHasCall
    <3>3. CASE u.phase = "installing"
      BY <1>1, <2>1, <3>3 DEF UpdateInv, PhaseHasCall
    <3> QED BY <1>1, <2>1, <3>1, <3>2, <3>3 DEF UpdateInv, PhaseHasCall
  <2>2. ~strange /\ u.phase = "ready" => staged # 0
    BY <1>1 DEF UpdateInv, DownloadStages
  <2> QED BY <2>1, <2>2 DEF Update!PanelIsBacked, Update!Running, Update!Mine, Update!NoVersion
<1>2. ScreenInv => PanelIsBacked
  BY <1>1 DEF ScreenInv, PanelIsBacked
<1> QED BY <1>2, ScreenInvariant, PTL
=============================================================================
