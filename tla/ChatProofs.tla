----------------------------- MODULE ChatProofs -----------------------------
(***************************************************************************)
(* Proofs about Chat, for any finite set of conversations, any number of   *)
(* slots and of turns and any cap: slots are accounted for, a memory is the*)
(* latest answered turns of its own conversation, what the provider was    *)
(* shown is still that memory when its answer is remembered, and neither   *)
(* the table nor the user hears of an answer before that.  And about the   *)
(* image cache those turns pop (ImageCache), for any images of any         *)
(* number of conversations of a sender.                                    *)
(***************************************************************************)
EXTENDS Chat, ImageCache, SequenceTheorems, FiniteSetTheorems, TLAPS

(* A turn is under way exactly when its worker is not idle; it is among the*)
(* answered ones from SaveContext on, and before that it has no outcome yet*)
(* that could be an answer.                                                *)
TurnInv == \A c \in Conv :
  /\ pc[c] # "idle" => turn[c] \in 1 .. MaxTurns
  /\ \A t \in ToSet(answered[c]) : t[1] = c /\ t[2] <= turn[c]
  /\ pc[c] \in {"build", "acquire", "waiting", "chatting", "answered"} => Current(c) \notin ToSet(answered[c])
  /\ pc[c] \in {"idle", "replying"} /\ Current(c) \in ToSet(answered[c]) => outcome[Current(c)] = "answer"

(* Only a remembered turn has the outcome of an answer, and between being  *)
(* remembered and being stored it has no row.                              *)
OutcomeInv ==
  /\ \A t \in Turn : outcome[t] = "answer" => t \in ToSet(answered[t[1]])
  /\ \A c \in Conv : pc[c] = "appended" =>
       Current(c) \in ToSet(answered[c]) /\ Current(c) \notin ToSet(table)

Holders == {c \in Conv : InHandle(c)}
Inv == MemoryIsTrue /\ TurnInv
PastInv == MemoryComesFirst /\ OutcomeInv

Places == {"idle", "build", "acquire", "waiting", "chatting", "answered", "appended", "replying"}
Unanswered == {"build", "acquire", "waiting", "chatting", "answered"}

(* Steps that only move within Handle, and those that return without an    *)
(* answer.                                                                 *)
Moves(c) == BuildMessages(c) \/ AcquireAtOnce(c) \/ SlotsAllTaken(c) \/ AcquireAfterWait(c) \/ ChatAnswers(c)
Returns(c) == LeakKeyword(c) \/ WaitGivesUp(c) \/ ChatFails(c) \/ ChatSaysNothing(c) \/ ChatPanics(c)

-----------------------------------------------------------------------------
(* Sequences of turns, and session keys.                                   *)

LEMMA CapPositive == PairCap \in Nat \ {0}
BY ChatAssumption DEF PairCap

LEMMA LastPairsAre ==
  ASSUME NEW a \in Seq(Turn)
  PROVE  /\ LastPairs(a) \in Seq(Turn)
         /\ Len(a) > PairCap => /\ Len(LastPairs(a)) = PairCap
                                /\ \A i \in 1 .. PairCap : LastPairs(a)[i] = a[Len(a) - PairCap + i]
         /\ Len(a) <= PairCap => LastPairs(a) = a
<1> DEFINE n == Len(a)
<1>1. n \in Nat /\ PairCap \in Nat \ {0} /\ \A i \in 1 .. n : a[i] \in Turn
  BY CapPositive, LenProperties, ElementOfSeq
<1> HIDE DEF n
<1>2. ASSUME NEW f \in 1 .. n + 1
      PROVE  /\ SubSeq(a, f, n) \in Seq(Turn) /\ Len(SubSeq(a, f, n)) = n - f + 1
             /\ \A i \in 1 .. n - f + 1 : SubSeq(a, f, n)[i] = a[f + i - 1]
  <2>1. f \in Int /\ n \in Int /\ \A i \in f .. n : a[i] \in Turn
    BY <1>1
  <2>2. /\ SubSeq(a, f, n) \in Seq(Turn)
        /\ Len(SubSeq(a, f, n)) = IF f <= n THEN n - f + 1 ELSE 0
        /\ \A i \in 1 .. n - f + 1 : SubSeq(a, f, n)[i] = a[f + i - 1]
    BY <2>1, SubSeqProperties
  <2> QED BY <1>1, <2>2
<1>3. CASE n > PairCap
  <2>1. LastPairs(a) = SubSeq(a, n - PairCap + 1, n)
    BY <1>3 DEF LastPairs, n
  <2>2. n - PairCap + 1 \in 1 .. n + 1
    BY <1>1, <1>3
  <2>3. /\ LastPairs(a) \in Seq(Turn) /\ Len(LastPairs(a)) = n - (n - PairCap + 1) + 1
        /\ \A i \in 1 .. n - (n - PairCap + 1) + 1 : LastPairs(a)[i] = a[(n - PairCap + 1) + i - 1]
    BY <1>2, <2>1, <2>2
  <2>4. n - (n - PairCap + 1) + 1 = PairCap /\ \A i \in 1 .. PairCap : (n - PairCap + 1) + i - 1 = n - PairCap + i
    BY <1>1
  <2>5. Len(LastPairs(a)) = PairCap /\ \A i \in 1 .. PairCap : LastPairs(a)[i] = a[n - PairCap + i]
    BY <2>3, <2>4
  <2> QED BY <1>1, <1>3, <2>3, <2>5 DEF n
<1>4. CASE n <= PairCap
  <2>1. LastPairs(a) = SubSeq(a, 1, n)
    <3>1. ~(n > PairCap)
      BY <1>1, <1>4
    <3> QED BY <3>1 DEF LastPairs, n
  <2>2. /\ LastPairs(a) \in Seq(Turn) /\ Len(LastPairs(a)) = n
        /\ \A i \in 1 .. n : LastPairs(a)[i] = a[i]
    <3>1. 1 \in 1 .. n + 1 /\ n - 1 + 1 = n /\ \A i \in 1 .. n : 1 + i - 1 = i
      BY <1>1
    <3> QED BY <1>2, <2>1, <3>1
  <2>3. LastPairs(a) = a
    BY <2>2, SeqEqual DEF n
  <2> QED BY <1>1, <1>4, <2>2, <2>3 DEF n
<1> QED BY <1>1, <1>3, <1>4

(* Session.Append keeps the latest pairs, no more than the cap.            *)
LEMMA AppendKeepsLast ==
  ASSUME NEW a \in Seq(Turn), NEW t \in Turn
  PROVE  LastPairs(a) \in Seq(Turn) /\ AppendPair(LastPairs(a), t) = LastPairs(Append(a, t))
<1> DEFINE b == Append(a, t)
           h == LastPairs(a)
           g == LastPairs(b)
           l == Append(h, t)
<1>1. PairCap \in Nat \ {0}
  BY CapPositive
<1>2. /\ b \in Seq(Turn) /\ Len(a) \in Nat /\ Len(b) = Len(a) + 1
      /\ b[Len(a) + 1] = t /\ \A i \in 1 .. Len(a) : b[i] = a[i]
  BY AppendProperties, LenProperties
<1> HIDE DEF b
<1>3. /\ h \in Seq(Turn) /\ g \in Seq(Turn)
      /\ Len(a) > PairCap => Len(h) = PairCap /\ \A i \in 1 .. PairCap : h[i] = a[Len(a) - PairCap + i]
      /\ Len(a) <= PairCap => h = a
      /\ Len(b) > PairCap => Len(g) = PairCap /\ \A i \in 1 .. PairCap : g[i] = b[Len(b) - PairCap + i]
      /\ Len(b) <= PairCap => g = b
  BY <1>2, LastPairsAre
<1> HIDE DEF h, g
<1>4. /\ l \in Seq(Turn) /\ Len(h) \in Nat /\ Len(l) = Len(h) + 1 /\ l # <<>> /\ l[Len(h) + 1] = t
      /\ \A i \in 1 .. Len(h) : l[i] = h[i]
  BY <1>3, AppendProperties, LenProperties
<1>5. AppendPair(h, t) = IF Len(l) > PairCap THEN Tail(l) ELSE l
  BY <1>1 DEF AppendPair
<1>6. CASE Len(a) >= PairCap
  <2> HIDE DEF l
  <2>1. Len(h) = PairCap /\ \A i \in 1 .. PairCap : h[i] = a[Len(a) - PairCap + i]
    BY <1>1, <1>2, <1>3, <1>6
  <2>2. /\ Tail(l) \in Seq(Turn) /\ Len(Tail(l)) = PairCap
        /\ \A i \in 1 .. PairCap : Tail(l)[i] = l[i + 1]
    BY <1>1, <1>4, <2>1, HeadTailProperties
  <2>3. Len(g) = PairCap /\ \A i \in 1 .. PairCap : g[i] = b[Len(a) + 1 - PairCap + i]
    BY <1>1, <1>2, <1>3, <1>6
  <2>4. ASSUME NEW i \in 1 .. PairCap PROVE l[i + 1] = g[i]
    <3>1. CASE i = PairCap
      BY <1>1, <1>2, <1>4, <2>1, <2>3, <3>1
    <3>2. CASE i # PairCap
      <4>1. i + 1 \in 1 .. PairCap /\ Len(a) - PairCap + (i + 1) = Len(a) + 1 - PairCap + i
        BY <1>1, <1>2, <3>2
      <4>2. Len(a) + 1 - PairCap + i \in 1 .. Len(a)
        BY <1>1, <1>2, <1>6, <3>2
      <4>3. l[i + 1] = a[Len(a) + 1 - PairCap + i]
        BY <1>4, <2>1, <4>1
      <4> QED BY <1>2, <2>3, <4>2, <4>3
    <3> QED BY <3>1, <3>2
  <2>5. Tail(l) = g
    <3> DEFINE r == Tail(l)
    <3>1. r \in Seq(Turn) /\ Len(r) = Len(g) /\ \A i \in 1 .. Len(r) : r[i] = g[i]
      BY <2>2, <2>3, <2>4
    <3> HIDE DEF r
    <3>2. r = g
      BY <1>3, <3>1, SeqEqual
    <3> QED BY <3>2 DEF r
  <2> QED BY <1>1, <1>3, <1>4, <1>5, <2>1, <2>5 DEF h, g, b
<1>7. CASE Len(a) < PairCap
  <2>1. h = a /\ g = b /\ l = b
    BY <1>1, <1>2, <1>3, <1>7 DEF b
  <2> QED BY <1>1, <1>2, <1>3, <1>5, <1>7, <2>1 DEF h, g, b
<1> QED BY <1>1, <1>2, <1>6, <1>7

LEMMA AppendTurn ==
  ASSUME NEW a \in Seq(Turn), NEW t \in Turn
  PROVE  Append(a, t) \in Seq(Turn) /\ ToSet(Append(a, t)) = ToSet(a) \cup {t}
<1> DEFINE b == Append(a, t)
<1>1. /\ b \in Seq(Turn) /\ Len(a) \in Nat /\ DOMAIN a = 1 .. Len(a) /\ DOMAIN b = 1 .. Len(a) + 1
      /\ b[Len(a) + 1] = t /\ \A i \in 1 .. Len(a) : b[i] = a[i]
  BY AppendProperties, LenProperties
<1> HIDE DEF b
<1>2. ToSet(b) = ToSet(a) \cup {t}
  BY <1>1 DEF ToSet
<1> QED BY <1>1, <1>2 DEF b

(* No two conversations share a session.                                   *)
LEMMA KeysDiffer ==
  ASSUME NEW c \in Conv, NEW d \in Conv, SessionKey(c) = SessionKey(d)
  PROVE  c = d
<1>1. CASE c.kind = "group" /\ d.kind = "group"
  BY <1>1, ChatAssumption DEF SessionKey
<1>2. CASE c.kind = "private" /\ d.kind = "private"
  BY <1>2, ChatAssumption DEF SessionKey
<1>3. ASSUME NEW e \in Conv PROVE SessionKey(e)[1] = e.kind
  <2>1. CASE e.kind = "group"
    <3>1. SessionKey(e) = <<"group", e.room, e.uid>>
      BY <2>1, ChatAssumption DEF SessionKey
    <3> QED BY <2>1, <3>1
  <2>2. CASE e.kind # "group"
    <3>1. SessionKey(e) = <<"private", e.uid>>
      BY <2>2 DEF SessionKey
    <3>2. e.kind = "private"
      BY <2>2, ChatAssumption
    <3> QED BY <3>1, <3>2
  <2> QED BY <2>1, <2>2
<1>4. c.kind = d.kind
  BY <1>3
<1>5. c.kind \in {"group", "private"}
  BY ChatAssumption
<1> QED BY <1>1, <1>2, <1>4, <1>5

-----------------------------------------------------------------------------
(* What a step does.                                                       *)

LEMMA Goes ==
  ASSUME TypeOK, NEW c \in Conv, NEW from, NEW to \in Places, Go(c, from, to)
  PROVE  /\ pc[c] = from /\ pc'[c] = to /\ \A d \in Conv \ {c} : pc'[d] = pc[d]
         /\ pc' \in [Conv -> Places]
BY DEF TypeOK, Go, Places

LEMMA MovesDo ==
  ASSUME TypeOK, NEW c \in Conv, Moves(c)
  PROVE  /\ UNCHANGED <<history, turn, outcome, answered>>
         /\ pc[c] \in Unanswered /\ pc'[c] \in Unanswered /\ pc' \in [Conv -> Places]
         /\ \A d \in Conv \ {c} : pc'[d] = pc[d]
         /\ IF BuildMessages(c) THEN context' = [context EXCEPT ![c] = history[SessionKey(c)]]
                                ELSE context' = context /\ (pc[c] = "build" => pc'[c] = "build")
<1>1. CASE BuildMessages(c)
  BY <1>1, Goes DEF BuildMessages, pastVars, Unanswered, Places
<1>2. CASE AcquireAtOnce(c) \/ SlotsAllTaken(c) \/ AcquireAfterWait(c) \/ ChatAnswers(c)
  <2>1. UNCHANGED <<history, turn, outcome, answered, context>>
    BY <1>2 DEF AcquireAtOnce, SlotsAllTaken, AcquireAfterWait, ChatAnswers, pastVars
  <2>2. /\ pc[c] \in Unanswered \ {"build"} /\ pc'[c] \in Unanswered /\ pc' \in [Conv -> Places]
        /\ \A d \in Conv \ {c} : pc'[d] = pc[d]
    BY <1>2, Goes DEF AcquireAtOnce, SlotsAllTaken, AcquireAfterWait, ChatAnswers, Unanswered, Places
  <2>3. ~BuildMessages(c)
    BY <2>2 DEF BuildMessages, Go
  <2> QED BY <2>1, <2>2, <2>3
<1> QED BY <1>1, <1>2 DEF Moves

LEMMA ReturnsDo ==
  ASSUME TypeOK, NEW c \in Conv, Returns(c)
  PROVE  /\ UNCHANGED <<history, turn, context, answered>>
         /\ pc[c] \in Unanswered /\ pc'[c] \in {"replying", "idle"} /\ pc' \in [Conv -> Places]
         /\ \A d \in Conv \ {c} : pc'[d] = pc[d]
         /\ outcome' \in [Turn -> {"none", "answer", "notice", "silent", "panic"}]
         /\ \A t \in Turn \ {Current(c)} : outcome'[t] = outcome[t]
         /\ \A t \in Turn : outcome'[t] = "answer" => outcome[t] = "answer"
<1>1. UNCHANGED <<history, turn, context, answered>>
  BY DEF Returns, LeakKeyword, WaitGivesUp, ChatFails, ChatSaysNothing, ChatPanics, pastVars
<1>2. /\ pc[c] \in Unanswered /\ pc'[c] \in {"replying", "idle"} /\ pc' \in [Conv -> Places]
      /\ \A d \in Conv \ {c} : pc'[d] = pc[d]
  BY Goes DEF Returns, LeakKeyword, WaitGivesUp, ChatFails, ChatSaysNothing, ChatPanics, Unanswered, Places
<1>3. PICK o \in {"notice", "silent", "panic"} : Return(c, o)
  BY DEF Returns, LeakKeyword, WaitGivesUp, ChatFails, ChatSaysNothing, ChatPanics
<1>4. /\ outcome' \in [Turn -> {"none", "answer", "notice", "silent", "panic"}]
      /\ \A t \in Turn \ {Current(c)} : outcome'[t] = outcome[t]
      /\ \A t \in Turn : outcome'[t] = "answer" => outcome[t] = "answer"
  BY <1>3 DEF Return, TypeOK
<1> QED BY <1>1, <1>2, <1>4

\* The others: what they leave alone, and what they store.
LEMMA BeginDoes ==
  ASSUME TypeOK, NEW c \in Conv, Begin(c)
  PROVE  /\ UNCHANGED <<history, context, outcome, answered>>
         /\ pc[c] = "idle" /\ pc'[c] = "build" /\ pc' \in [Conv -> Places]
         /\ \A d \in Conv \ {c} : pc'[d] = pc[d] /\ turn'[d] = turn[d]
         /\ turn[c] \in Nat /\ turn'[c] = turn[c] + 1 /\ turn'[c] \in 1 .. MaxTurns
         /\ turn' \in [Conv -> 0 .. MaxTurns]
<1>1. turn[c] \in Nat /\ turn[c] < MaxTurns /\ turn' = [turn EXCEPT ![c] = @ + 1]
  BY ChatAssumption DEF Begin, TypeOK
<1>2. turn[c] + 1 \in 1 .. MaxTurns
  BY <1>1, ChatAssumption
<1>3. /\ turn'[c] = turn[c] + 1 /\ turn' \in [Conv -> 0 .. MaxTurns]
      /\ \A d \in Conv \ {c} : turn'[d] = turn[d]
  BY <1>1, <1>2 DEF TypeOK
<1>4. /\ pc[c] = "idle" /\ pc'[c] = "build" /\ pc' \in [Conv -> Places]
      /\ \A d \in Conv \ {c} : pc'[d] = pc[d]
  BY Goes DEF Begin, Places
<1> QED BY <1>1, <1>2, <1>3, <1>4 DEF Begin, pastVars

LEMMA SaveDoes ==
  ASSUME TypeOK, MemoryIsRecentAnswers, TurnInv, NEW c \in Conv, SaveContext(c)
  PROVE  /\ UNCHANGED <<turn, context, outcome>>
         /\ pc[c] = "answered" /\ pc'[c] = "appended" /\ pc' \in [Conv -> Places]
         /\ \A d \in Conv \ {c} : pc'[d] = pc[d] /\ answered'[d] = answered[d]
                                  /\ history'[SessionKey(d)] = history[SessionKey(d)]
         /\ Current(c) \in Turn
         /\ ToSet(answered'[c]) = ToSet(answered[c]) \cup {Current(c)}
         /\ history'[SessionKey(c)] = LastPairs(answered'[c])
         /\ history' \in [Session -> Seq(Turn)] /\ answered' \in [Conv -> Seq(Turn)]
<1>1. /\ pc[c] = "answered" /\ pc'[c] = "appended" /\ pc' \in [Conv -> Places]
      /\ \A d \in Conv \ {c} : pc'[d] = pc[d]
  BY Goes DEF SaveContext, Places
<1>2. Current(c) \in Turn
  BY <1>1 DEF TurnInv, Current, Turn
<1>3. /\ answered[c] \in Seq(Turn) /\ SessionKey(c) \in Session
      /\ history[SessionKey(c)] = LastPairs(answered[c])
  BY DEF TypeOK, Session, MemoryIsRecentAnswers
<1>4. /\ Append(answered[c], Current(c)) \in Seq(Turn)
      /\ ToSet(Append(answered[c], Current(c))) = ToSet(answered[c]) \cup {Current(c)}
      /\ AppendPair(history[SessionKey(c)], Current(c)) = LastPairs(Append(answered[c], Current(c)))
      /\ LastPairs(Append(answered[c], Current(c))) \in Seq(Turn)
  BY <1>2, <1>3, AppendTurn, AppendKeepsLast, LastPairsAre
<1>5. /\ answered' = [answered EXCEPT ![c] = Append(answered[c], Current(c))]
      /\ history' = [history EXCEPT ![SessionKey(c)] = AppendPair(history[SessionKey(c)], Current(c))]
      /\ UNCHANGED <<turn, context, outcome>>
  BY DEF SaveContext
<1>6. /\ answered' \in [Conv -> Seq(Turn)] /\ answered'[c] = Append(answered[c], Current(c))
      /\ \A d \in Conv \ {c} : answered'[d] = answered[d]
  BY <1>4, <1>5 DEF TypeOK
<1>7. /\ history' \in [Session -> Seq(Turn)]
      /\ history'[SessionKey(c)] = AppendPair(history[SessionKey(c)], Current(c))
      /\ \A s \in Session \ {SessionKey(c)} : history'[s] = history[s]
  BY <1>3, <1>4, <1>5 DEF TypeOK
<1>8. \A d \in Conv \ {c} : SessionKey(d) \in Session \ {SessionKey(c)}
  BY KeysDiffer DEF Session
<1> QED BY <1>1, <1>2, <1>4, <1>5, <1>6, <1>7, <1>8

LEMMA InsertDoes ==
  ASSUME TypeOK, TurnInv, NEW c \in Conv, InsertMessage(c)
  PROVE  /\ UNCHANGED <<history, turn, context, answered>>
         /\ pc[c] = "appended" /\ pc'[c] = "replying" /\ pc' \in [Conv -> Places]
         /\ \A d \in Conv \ {c} : pc'[d] = pc[d]
         /\ outcome' \in [Turn -> {"none", "answer", "notice", "silent", "panic"}]
         /\ outcome'[Current(c)] = "answer" /\ table' \in Seq(Turn)
         /\ \A t \in Turn \ {Current(c)} : outcome'[t] = outcome[t]
<1>1. /\ pc[c] = "appended" /\ pc'[c] = "replying" /\ pc' \in [Conv -> Places]
      /\ \A d \in Conv \ {c} : pc'[d] = pc[d]
  BY Goes DEF InsertMessage, Places
<1>2. Current(c) \in Turn
  BY <1>1 DEF TurnInv, Current, Turn
<1>3. /\ outcome' \in [Turn -> {"none", "answer", "notice", "silent", "panic"}]
      /\ outcome'[Current(c)] = "answer"
      /\ \A t \in Turn \ {Current(c)} : outcome'[t] = outcome[t]
  BY <1>2 DEF InsertMessage, Return, TypeOK
<1>4. table' \in Seq(Turn)
  BY <1>2, AppendTurn DEF InsertMessage, TypeOK
<1> QED BY <1>1, <1>3, <1>4 DEF InsertMessage

-----------------------------------------------------------------------------
(* The slots.                                                              *)

LEMMA SlotsPreserved ==
  ASSUME TypeOK, SlotsAccountedFor, [Next]_vars
  PROVE  SlotsAccountedFor' /\ sem' \in 0 .. Slots
<1>1. /\ IsFiniteSet(Holders) /\ sem = Cardinality(Holders) /\ sem \in Nat /\ Slots \in Nat /\ sem <= Slots
      /\ SlotsAccountedFor' <=> sem' = Cardinality(Holders') /\ sem' <= Slots
  BY ChatAssumption, FS_Subset DEF TypeOK, SlotsAccountedFor, Holders
<1>2. CASE sem' = sem /\ Holders' = Holders
  BY <1>1, <1>2
<1>3. ASSUME NEW c \in Conv, AcquireAtOnce(c) \/ AcquireAfterWait(c)
      PROVE  SlotsAccountedFor' /\ sem' \in 0 .. Slots
  <2>1. /\ sem < Slots /\ sem' = sem + 1 /\ pc[c] \in {"acquire", "waiting"} /\ pc'[c] = "chatting"
        /\ \A d \in Conv \ {c} : pc'[d] = pc[d]
    BY <1>3, Goes DEF AcquireAtOnce, AcquireAfterWait, TakeSlot, Places
  <2>2. c \notin Holders /\ Holders' = Holders \cup {c}
    BY <2>1 DEF Holders, InHandle
  <2>3. Cardinality(Holders') = Cardinality(Holders) + 1
    BY <1>1, <2>2, FS_AddElement
  <2> QED BY <1>1, <2>1, <2>3
<1>4. ASSUME NEW c \in Conv, ChatFails(c) \/ ChatSaysNothing(c) \/ ChatPanics(c) \/ InsertMessage(c)
      PROVE  SlotsAccountedFor' /\ sem' \in 0 .. Slots
  <2>1. /\ pc[c] \in {"chatting", "appended"} /\ pc'[c] \in {"idle", "replying"}
        /\ \A d \in Conv \ {c} : pc'[d] = pc[d]
    BY <1>4, Goes DEF ChatFails, ChatSaysNothing, ChatPanics, InsertMessage, Places
  <2>2. c \in Holders /\ Holders' = Holders \ {c}
    BY <2>1 DEF Holders, InHandle
  <2>3. Cardinality(Holders') = Cardinality(Holders) - 1 /\ Cardinality(Holders') \in Nat
    BY <1>1, <2>2, FS_RemoveElement, FS_CardinalityType
  <2>4. sem' = sem - 1
    BY <1>1, <1>4, <2>3 DEF ChatFails, ChatSaysNothing, ChatPanics, InsertMessage, ReleaseSlot
  <2> QED BY <1>1, <2>3, <2>4
<1>5. ASSUME NEW c \in Conv, \/ Begin(c) \/ LeakKeyword(c) \/ BuildMessages(c) \/ SlotsAllTaken(c)
                             \/ WaitGivesUp(c) \/ ChatAnswers(c) \/ SaveContext(c) \/ SendReply(c)
      PROVE  sem' = sem /\ Holders' = Holders
  <2>1. sem' = sem
    BY <1>5 DEF Begin, LeakKeyword, BuildMessages, SlotsAllTaken, WaitGivesUp, ChatAnswers, SaveContext,
                SendReply, pastVars
  <2>2. (InHandle(c)' <=> InHandle(c)) /\ \A d \in Conv \ {c} : pc'[d] = pc[d]
    BY <1>5, Goes DEF Begin, LeakKeyword, BuildMessages, SlotsAllTaken, WaitGivesUp, ChatAnswers, SaveContext,
                SendReply, Places, InHandle
  <2> QED BY <2>1, <2>2 DEF Holders, InHandle
<1>6. ASSUME Cancel \/ Quiet \/ UNCHANGED vars PROVE sem' = sem /\ Holders' = Holders
  BY <1>6 DEF Cancel, Quiet, vars, turnVars, Holders, InHandle
<1> QED BY <1>2, <1>3, <1>4, <1>5, <1>6 DEF Next, Handle, ChatEnds

-----------------------------------------------------------------------------
(* Memories and contexts.                                                  *)

\* A turn answered in one conversation is no turn of another.
LEMMA TurnsApart ==
  ASSUME TypeOK, TurnInv, NEW c \in Conv, NEW d \in Conv \ {c}, NEW t \in ToSet(answered[d])
  PROVE  t \in Turn \ {Current(c)}
<1>1. t \in Turn
  BY LenProperties, ElementOfSeq DEF TypeOK, ToSet
<1>2. t[1] = d
  BY DEF TurnInv
<1> QED BY <1>1, <1>2 DEF Current

LEMMA TurnsPreserved ==
  ASSUME TypeOK, MemoryIsRecentAnswers, TurnInv, [Next]_vars
  PROVE  TurnInv' /\ \A c \in Conv : \A t \in ToSet(answered'[c]) \ {Current(c)'} : outcome'[t] = "answer"
<1> DEFINE Fine(c) == \A t \in ToSet(answered[c]) \ {Current(c)} : outcome[t] = "answer"
           Good(c) ==
             /\ pc[c] # "idle" => turn[c] \in 1 .. MaxTurns
             /\ \A t \in ToSet(answered[c]) : t[1] = c /\ t[2] <= turn[c]
             /\ pc[c] \in Unanswered => Current(c) \notin ToSet(answered[c])
             /\ pc[c] \in {"idle", "replying"} /\ Current(c) \in ToSet(answered[c])
                  => outcome[Current(c)] = "answer"
             /\ Fine(c)
<1>0. /\ \A c \in Conv : Good(c)
      /\ (TurnInv' /\ \A c \in Conv : Fine(c)') <=> \A c \in Conv : Good(c)'
  BY DEF TurnInv, MemoryIsRecentAnswers, Unanswered
<1>1. ASSUME NEW c \in Conv, Good(c), pc'[c] = pc[c], turn'[c] = turn[c], answered'[c] = answered[c],
             \A t \in ToSet(answered[c]) : outcome'[t] = outcome[t]
      PROVE  Good(c)'
  BY <1>1 DEF Current
<1>2. ASSUME NEW c \in Conv, Moves(c) \/ Returns(c) PROVE \A d \in Conv : Good(d)'
  <2>1. /\ UNCHANGED <<turn, answered>> /\ pc[c] \in Unanswered
        /\ pc'[c] \in Unanswered \cup {"replying", "idle"} /\ \A d \in Conv \ {c} : pc'[d] = pc[d]
        /\ \A t \in Turn \ {Current(c)} : outcome'[t] = outcome[t]
    BY <1>2, MovesDo, ReturnsDo
  <2>2. Current(c) \notin ToSet(answered[c]) /\ ToSet(answered[c]) \subseteq Turn
    BY <1>0, <2>1, LenProperties, ElementOfSeq DEF TypeOK, ToSet
  <2>3. Good(c)'
    BY <1>0, <2>1, <2>2 DEF Current, Unanswered
  <2>4. \A d \in Conv \ {c} : Good(d)'
    BY <1>0, <1>1, <2>1, TurnsApart
  <2> QED BY <2>3, <2>4
<1>3. ASSUME NEW c \in Conv, Begin(c) PROVE \A d \in Conv : Good(d)'
  <2>1. Good(c)'
    <3>1. /\ outcome' = outcome /\ answered' = answered /\ pc[c] = "idle" /\ pc'[c] = "build"
          /\ turn[c] \in Nat /\ turn'[c] = turn[c] + 1 /\ turn'[c] \in 1 .. MaxTurns
      BY <1>3, BeginDoes
    <3>2. \A t \in ToSet(answered[c]) : t[2] <= turn[c] /\ t[2] \in Nat /\ t[1] = c /\ outcome[t] = "answer"
      <4>1. ToSet(answered[c]) \subseteq Turn
        BY LenProperties, ElementOfSeq DEF TypeOK, ToSet
      <4> QED BY <1>0, <3>1, <4>1, ChatAssumption DEF Turn
    <3>3. Current(c)' \notin ToSet(answered[c])
      BY <3>1, <3>2 DEF Current
    <3> QED BY <3>1, <3>2, <3>3
  <2>2. \A d \in Conv \ {c} : Good(d)'
    BY <1>0, <1>1, <1>3, BeginDoes
  <2> QED BY <2>1, <2>2
<1>4. ASSUME NEW c \in Conv, SaveContext(c) PROVE \A d \in Conv : Good(d)'
  <2>1. /\ UNCHANGED <<turn, outcome>> /\ pc[c] = "answered" /\ pc'[c] = "appended"
        /\ ToSet(answered'[c]) = ToSet(answered[c]) \cup {Current(c)}
        /\ \A d \in Conv \ {c} : pc'[d] = pc[d] /\ answered'[d] = answered[d]
    BY <1>4, SaveDoes
  <2>2. Good(c)'
    <3>1. turn[c] \in 1 .. MaxTurns
      BY <1>0, <2>1
    <3>2. Current(c)[1] = c /\ Current(c)[2] = turn[c] /\ Current(c)' = Current(c)
      BY <2>1 DEF Current
    <3>3. \A t \in ToSet(answered'[c]) : t[1] = c /\ t[2] <= turn[c]
      BY <1>0, <2>1, <3>1, <3>2, ChatAssumption
    <3>4. \A t \in ToSet(answered'[c]) \ {Current(c)} : outcome[t] = "answer"
      BY <1>0, <2>1
    <3> QED BY <2>1, <3>1, <3>2, <3>3, <3>4 DEF Unanswered
  <2>3. \A d \in Conv \ {c} : Good(d)'
    BY <1>0, <1>1, <2>1
  <2> QED BY <2>2, <2>3
<1>5. ASSUME NEW c \in Conv, InsertMessage(c) PROVE \A d \in Conv : Good(d)'
  <2>1. /\ UNCHANGED <<turn, answered>> /\ pc[c] = "appended" /\ pc'[c] = "replying"
        /\ \A d \in Conv \ {c} : pc'[d] = pc[d]
        /\ outcome'[Current(c)] = "answer" /\ \A t \in Turn \ {Current(c)} : outcome'[t] = outcome[t]
    BY <1>5, InsertDoes
  <2>2. Good(c)'
    <3>1. ToSet(answered[c]) \subseteq Turn
      BY LenProperties, ElementOfSeq DEF TypeOK, ToSet
    <3> QED BY <1>0, <2>1, <3>1 DEF Current, Unanswered
  <2>3. \A d \in Conv \ {c} : Good(d)'
    BY <1>0, <1>1, <2>1, TurnsApart
  <2> QED BY <2>2, <2>3
<1>6. ASSUME NEW c \in Conv, SendReply(c) PROVE \A d \in Conv : Good(d)'
  <2>1. /\ UNCHANGED <<turn, answered, outcome>> /\ pc[c] = "replying" /\ pc'[c] = "idle"
        /\ \A d \in Conv \ {c} : pc'[d] = pc[d]
    BY <1>6, Goes DEF SendReply, Places
  <2>2. Good(c)'
    BY <1>0, <2>1 DEF Current, Unanswered
  <2> QED BY <1>0, <1>1, <2>1, <2>2
<1>7. ASSUME Cancel \/ Quiet \/ UNCHANGED vars PROVE \A d \in Conv : Good(d)'
  BY <1>0, <1>7 DEF Cancel, Quiet, vars, turnVars, pastVars, Current
<1> HIDE DEF Good, Fine
<1>8. \A d \in Conv : Good(d)'
  BY <1>2, <1>3, <1>4, <1>5, <1>6, <1>7 DEF Next, Handle, ChatEnds, Moves, Returns
<1> QED BY <1>0, <1>8 DEF Fine

(* Only SaveContext writes a memory, and the worker of that conversation is*)
(* then past the point where its context must still be the memory.         *)
LEMMA MemoriesPreserved ==
  ASSUME TypeOK, MemoryIsRecentAnswers, ContextStillCurrent, TurnInv, [Next]_vars
  PROVE  /\ history' \in [Session -> Seq(Turn)] /\ answered' \in [Conv -> Seq(Turn)]
         /\ context' \in [Conv -> Seq(Turn)]
         /\ \A c \in Conv : history'[SessionKey(c)] = LastPairs(answered'[c])
         /\ ContextStillCurrent'
<1> DEFINE Waits == {"acquire", "waiting", "chatting", "answered"}
           Shown(c) == pc[c] \in Waits => context[c] = history[SessionKey(c)]
           Goal == /\ history' \in [Session -> Seq(Turn)] /\ answered' \in [Conv -> Seq(Turn)]
                   /\ context' \in [Conv -> Seq(Turn)]
                   /\ \A c \in Conv : history'[SessionKey(c)] = LastPairs(answered'[c]) /\ Shown(c)'
<1>0. /\ \A c \in Conv : history[SessionKey(c)] = LastPairs(answered[c]) /\ Shown(c) /\ SessionKey(c) \in Session
      /\ ContextStillCurrent' <=> \A c \in Conv : Shown(c)'
      /\ history \in [Session -> Seq(Turn)] /\ answered \in [Conv -> Seq(Turn)] /\ context \in [Conv -> Seq(Turn)]
  BY DEF MemoryIsRecentAnswers, ContextStillCurrent, TypeOK, Session
<1>1. ASSUME UNCHANGED <<history, answered, context>>, \A d \in Conv : pc'[d] \in Waits => pc[d] \in Waits
      PROVE  Goal
  BY <1>0, <1>1
<1>2. ASSUME NEW c \in Conv, Moves(c) PROVE Goal
  <2>1. /\ UNCHANGED <<history, answered>> /\ pc[c] \in Unanswered
        /\ \A d \in Conv \ {c} : pc'[d] = pc[d]
        /\ IF BuildMessages(c) THEN context' = [context EXCEPT ![c] = history[SessionKey(c)]]
                               ELSE context' = context /\ (pc[c] = "build" => pc'[c] = "build")
    BY <1>2, MovesDo
  <2>2. CASE BuildMessages(c)
    <3>1. /\ context' \in [Conv -> Seq(Turn)] /\ context'[c] = history[SessionKey(c)]
          /\ \A d \in Conv \ {c} : context'[d] = context[d]
      BY <1>0, <2>1, <2>2
    <3> QED BY <1>0, <2>1, <3>1
  <2>3. CASE ~BuildMessages(c)
    <3>1. \A d \in Conv : pc'[d] \in Waits => pc[d] \in Waits
      BY <2>1, <2>3 DEF Unanswered
    <3> QED BY <1>1, <2>1, <2>3, <3>1
  <2> QED BY <2>2, <2>3
<1>3. ASSUME NEW c \in Conv, Returns(c) \/ InsertMessage(c) \/ Begin(c) PROVE Goal
  <2>1. /\ UNCHANGED <<history, answered, context>>
        /\ pc'[c] \in {"replying", "idle", "build"} /\ \A d \in Conv \ {c} : pc'[d] = pc[d]
    BY <1>3, ReturnsDo, InsertDoes, BeginDoes
  <2> QED BY <1>1, <2>1
<1>4. ASSUME NEW c \in Conv, SaveContext(c) PROVE Goal
  <2>1. /\ context' = context /\ pc'[c] = "appended"
        /\ \A d \in Conv \ {c} : pc'[d] = pc[d] /\ answered'[d] = answered[d]
                                 /\ history'[SessionKey(d)] = history[SessionKey(d)]
        /\ history'[SessionKey(c)] = LastPairs(answered'[c])
        /\ history' \in [Session -> Seq(Turn)] /\ answered' \in [Conv -> Seq(Turn)]
    BY <1>4, SaveDoes
  <2>2. LastPairs(answered'[c]) = history'[SessionKey(c)] /\ Shown(c)'
    BY <2>1
  <2>3. ASSUME NEW d \in Conv \ {c} PROVE history'[SessionKey(d)] = LastPairs(answered'[d]) /\ Shown(d)'
    BY <1>0, <2>1
  <2> QED BY <1>0, <2>1, <2>2, <2>3
<1>5. ASSUME NEW c \in Conv, SendReply(c) PROVE Goal
  <2>1. UNCHANGED <<history, answered, context>> /\ pc'[c] = "idle" /\ \A d \in Conv \ {c} : pc'[d] = pc[d]
    BY <1>5, Goes DEF SendReply, Places
  <2> QED BY <1>1, <2>1
<1>6. ASSUME Cancel \/ Quiet \/ UNCHANGED vars PROVE Goal
  <2>1. UNCHANGED <<history, answered, context, pc>>
    BY <1>6 DEF Cancel, Quiet, vars, turnVars, pastVars
  <2> QED BY <1>1, <2>1
<1> HIDE DEF Goal
<1>7. Goal
  BY <1>2, <1>3, <1>4, <1>5, <1>6 DEF Next, Handle, ChatEnds, Moves, Returns
<1> QED BY <1>0, <1>7 DEF Goal

-----------------------------------------------------------------------------
LEMMA TypesPreserved ==
  ASSUME Inv, [Next]_vars
  PROVE  TypeOK'
<1> USE DEF Inv, MemoryIsTrue
<1>1. /\ history' \in [Session -> Seq(Turn)] /\ answered' \in [Conv -> Seq(Turn)]
      /\ context' \in [Conv -> Seq(Turn)] /\ sem' \in 0 .. Slots
  BY MemoriesPreserved, SlotsPreserved
<1> DEFINE Rest == /\ pc' \in [Conv -> Places] /\ turn' \in [Conv -> 0 .. MaxTurns]
                   /\ outcome' \in [Turn -> {"none", "answer", "notice", "silent", "panic"}]
                   /\ cancelled' \in BOOLEAN /\ table' \in Seq(Turn) /\ sent' \in SUBSET Turn
<1>2. /\ pc \in [Conv -> Places] /\ turn \in [Conv -> 0 .. MaxTurns]
      /\ outcome \in [Turn -> {"none", "answer", "notice", "silent", "panic"}]
      /\ cancelled \in BOOLEAN /\ table \in Seq(Turn) /\ sent \in SUBSET Turn
  BY DEF TypeOK, Places
<1>3. ASSUME NEW c \in Conv, Moves(c) PROVE Rest
  <2>1. UNCHANGED <<cancelled, table, sent>>
    BY <1>3 DEF Moves, BuildMessages, AcquireAtOnce, SlotsAllTaken, AcquireAfterWait, ChatAnswers, pastVars
  <2> QED BY <1>2, <1>3, <2>1, MovesDo
<1>4. ASSUME NEW c \in Conv, Returns(c) PROVE Rest
  <2>1. UNCHANGED <<cancelled, table, sent>>
    BY <1>4 DEF Returns, LeakKeyword, WaitGivesUp, ChatFails, ChatSaysNothing, ChatPanics, pastVars
  <2> QED BY <1>2, <1>4, <2>1, ReturnsDo
<1>5. ASSUME NEW c \in Conv, Begin(c) PROVE Rest
  <2>1. UNCHANGED <<cancelled, table, sent>>
    BY <1>5 DEF Begin, pastVars
  <2> QED BY <1>2, <1>5, <2>1, BeginDoes
<1>6. ASSUME NEW c \in Conv, SaveContext(c) PROVE Rest
  <2>1. UNCHANGED <<cancelled, table, sent>>
    BY <1>6 DEF SaveContext
  <2> QED BY <1>2, <1>6, <2>1, SaveDoes
<1>7. ASSUME NEW c \in Conv, InsertMessage(c) PROVE Rest
  <2>1. UNCHANGED <<cancelled, sent>>
    BY <1>7 DEF InsertMessage
  <2> QED BY <1>2, <1>7, <2>1, InsertDoes
<1>8. ASSUME NEW c \in Conv, SendReply(c) PROVE Rest
  <2>1. pc' \in [Conv -> Places] /\ pc[c] = "replying"
    BY <1>8, Goes DEF SendReply, Places
  <2>2. Current(c) \in Turn
    BY <2>1 DEF TurnInv, Current, Turn
  <2>3. sent' \in SUBSET Turn /\ UNCHANGED <<turn, outcome, cancelled, table>>
    BY <1>2, <1>8, <2>2 DEF SendReply
  <2> QED BY <1>2, <2>1, <2>3
<1>9. ASSUME Cancel \/ Quiet \/ UNCHANGED vars PROVE Rest
  BY <1>2, <1>9 DEF Cancel, Quiet, vars, turnVars, pastVars
<1> HIDE DEF Rest
<1>10. Rest
  BY <1>3, <1>4, <1>5, <1>6, <1>7, <1>8, <1>9 DEF Next, Handle, ChatEnds, Moves, Returns
<1> QED BY <1>1, <1>10 DEF Rest, TypeOK, Places

LEMMA InvInitially == Init => Inv
<1> SUFFICES ASSUME Init PROVE Inv
  OBVIOUS
<1>1. <<>> \in Seq(Turn) /\ Len(<<>>) = 0 /\ ToSet(<<>>) = {}
  BY DEF ToSet
<1>2. TypeOK
  <2>1. Slots \in Nat /\ MaxTurns \in Nat
    BY ChatAssumption
  <2>2. /\ sem \in 0 .. Slots /\ turn \in [Conv -> 0 .. MaxTurns]
        /\ cancelled \in BOOLEAN
    <3>1. 0 \in 0 .. Slots /\ 0 \in 0 .. MaxTurns
      BY <2>1
    <3> QED BY <3>1 DEF Init
  <2>5. sent \in SUBSET Turn
    BY DEF Init
  <2>3. /\ history \in [Session -> Seq(Turn)] /\ context \in [Conv -> Seq(Turn)]
        /\ answered \in [Conv -> Seq(Turn)] /\ table \in Seq(Turn)
    BY <1>1 DEF Init
  <2>4. /\ pc \in [Conv -> Places]
        /\ outcome \in [Turn -> {"none", "answer", "notice", "silent", "panic"}]
    BY DEF Init, Places
  <2> QED BY <2>2, <2>3, <2>4, <2>5 DEF TypeOK, Places
<1>3. SlotsAccountedFor
  <2>1. {c \in Conv : InHandle(c)} = {}
    BY DEF Init, InHandle
  <2>2. Cardinality({c \in Conv : InHandle(c)}) = 0
    BY <2>1, FS_EmptySet
  <2>3. sem = 0 /\ 0 <= Slots
    BY ChatAssumption DEF Init
  <2> QED BY <2>2, <2>3 DEF SlotsAccountedFor
<1>4. LastPairs(<<>>) = <<>>
  <2>1. Len(<<>>) <= PairCap
    BY <1>1, CapPositive
  <2> QED BY <1>1, <2>1, LastPairsAre
<1>5. ASSUME NEW c \in Conv PROVE answered[c] = <<>> /\ history[SessionKey(c)] = <<>> /\ pc[c] = "idle"
  BY DEF Init, Session
<1>6. MemoryIsRecentAnswers
  BY <1>1, <1>4, <1>5 DEF MemoryIsRecentAnswers
<1>7. ContextStillCurrent /\ TurnInv
  BY <1>1, <1>5 DEF ContextStillCurrent, TurnInv
<1> QED BY <1>2, <1>3, <1>6, <1>7 DEF Inv, MemoryIsTrue

LEMMA InvInvariant == Spec => []Inv
<1>1. Inv /\ [Next]_vars => Inv'
  <2> SUFFICES ASSUME Inv, [Next]_vars PROVE Inv'
    OBVIOUS
  <2>1. TypeOK'
    BY TypesPreserved
  <2>2. TypeOK /\ SlotsAccountedFor /\ MemoryIsRecentAnswers /\ ContextStillCurrent /\ TurnInv
    BY DEF Inv, MemoryIsTrue
  <2>3. SlotsAccountedFor'
    BY <2>2, SlotsPreserved
  <2>4. TurnInv' /\ MemoryIsRecentAnswers' /\ ContextStillCurrent'
    BY <2>2, TurnsPreserved, MemoriesPreserved DEF MemoryIsRecentAnswers
  <2> QED BY <2>1, <2>3, <2>4 DEF Inv, MemoryIsTrue
<1> QED BY <1>1, InvInitially, PTL DEF Spec

(* Whatever the conversations and the provider do: at most Slots calls run,*)
(* each slot with one turn and given back on every path out of Handle; a   *)
(* conversation's memory is its own latest answers; and an answer is       *)
(* remembered on top of the memory its request was built with.             *)
THEOREM MemoryStaysTrue == Spec => []MemoryIsTrue
<1>1. Inv => MemoryIsTrue
  BY DEF Inv
<1> QED BY <1>1, InvInvariant, PTL
-----------------------------------------------------------------------------
(* What the table and the user know.                                       *)

\* Rows are turns, and the row of a turn that is appended comes last.
LEMMA RowsAppended ==
  ASSUME NEW T \in Seq(Turn), NEW t \in Turn,
         \A i, j \in DOMAIN T : i < j /\ T[i][1] = T[j][1] => T[i][2] < T[j][2],
         \A r \in ToSet(T) : r[1] = t[1] => r[2] < t[2]
  PROVE  \A i, j \in DOMAIN Append(T, t) :
           i < j /\ Append(T, t)[i][1] = Append(T, t)[j][1] => Append(T, t)[i][2] < Append(T, t)[j][2]
<1> DEFINE R == Append(T, t)
<1>1. /\ Len(T) \in Nat /\ DOMAIN T = 1 .. Len(T) /\ DOMAIN R = 1 .. Len(T) + 1
      /\ R[Len(T) + 1] = t /\ \A i \in 1 .. Len(T) : R[i] = T[i] /\ T[i] \in ToSet(T)
  BY AppendProperties, LenProperties DEF ToSet
<1> HIDE DEF R
<1>2. ASSUME NEW i \in DOMAIN R, NEW j \in DOMAIN R, i < j, R[i][1] = R[j][1] PROVE R[i][2] < R[j][2]
  <2>1. i \in DOMAIN T /\ (j \in DOMAIN T \/ j = Len(T) + 1)
    BY <1>1, <1>2
  <2> QED BY <1>1, <1>2, <2>1
<1> QED BY <1>2 DEF R

LEMMA PastPreserved ==
  ASSUME Inv, PastInv, [Next]_vars
  PROVE  PastInv'
<1> USE DEF Inv, MemoryIsTrue
<1>1. /\ \A d \in Conv : ToSet(answered[d]) \subseteq Turn
      /\ ToSet(table) \subseteq Turn /\ sent \subseteq Turn /\ table \in Seq(Turn)
  BY LenProperties, ElementOfSeq DEF TypeOK, ToSet
<1>2. \A t \in Turn : t[1] \in Conv /\ t[2] \in 1 .. MaxTurns
  BY DEF Turn
<1>3. ASSUME table' = table, sent' = sent, \A d \in Conv : ToSet(answered[d]) \subseteq ToSet(answered'[d]),
             \A t \in sent : outcome'[t] = "answer"
      PROVE  MemoryComesFirst'
  BY <1>1, <1>2, <1>3 DEF PastInv, MemoryComesFirst
<1>4. ASSUME table' = table, UNCHANGED <<turn, answered>>, \A d \in Conv : pc'[d] = "appended" => pc[d] = "appended",
             \A t \in Turn : outcome'[t] = "answer" => outcome[t] = "answer"
      PROVE  OutcomeInv'
  BY <1>4 DEF PastInv, OutcomeInv, Current
<1>5. ASSUME NEW c \in Conv, Moves(c) \/ Returns(c) PROVE PastInv'
  <2>1. UNCHANGED <<table, sent>>
    BY <1>5 DEF Moves, BuildMessages, AcquireAtOnce, SlotsAllTaken, AcquireAfterWait, ChatAnswers, Returns,
                LeakKeyword, WaitGivesUp, ChatFails, ChatSaysNothing, ChatPanics, pastVars
  <2>2. /\ UNCHANGED <<turn, answered>> /\ pc[c] \in Unanswered /\ pc'[c] \in Unanswered \cup {"replying", "idle"}
        /\ \A d \in Conv \ {c} : pc'[d] = pc[d]
        /\ \A t \in Turn \ {Current(c)} : outcome'[t] = outcome[t]
        /\ \A t \in Turn : outcome'[t] = "answer" => outcome[t] = "answer"
    BY <1>5, MovesDo, ReturnsDo
  <2>3. Current(c) \notin sent
    <3>1. Current(c) \notin ToSet(answered[c]) /\ Current(c)[1] = c
      BY <2>2 DEF TurnInv, Unanswered, Current
    <3> QED BY <3>1 DEF PastInv, MemoryComesFirst
  <2>4. MemoryComesFirst'
    BY <1>1, <1>3, <2>1, <2>2, <2>3 DEF PastInv, MemoryComesFirst
  <2>5. OutcomeInv'
    BY <1>4, <2>1, <2>2 DEF Unanswered
  <2> QED BY <2>4, <2>5 DEF PastInv
<1>6. ASSUME NEW c \in Conv, Begin(c) PROVE PastInv'
  <2>1. /\ UNCHANGED <<outcome, answered, table, sent>> /\ pc'[c] = "build"
        /\ \A d \in Conv \ {c} : pc'[d] = pc[d] /\ turn'[d] = turn[d]
    BY <1>6, BeginDoes DEF Begin, pastVars
  <2>2. MemoryComesFirst'
    BY <1>3, <2>1 DEF PastInv, MemoryComesFirst
  <2>3. OutcomeInv'
    BY <2>1 DEF PastInv, OutcomeInv, Current
  <2> QED BY <2>2, <2>3 DEF PastInv
<1>7. ASSUME NEW c \in Conv, SaveContext(c) PROVE PastInv'
  <2>1. /\ UNCHANGED <<turn, outcome, table, sent>> /\ pc[c] = "answered" /\ pc'[c] = "appended"
        /\ ToSet(answered'[c]) = ToSet(answered[c]) \cup {Current(c)}
        /\ \A d \in Conv \ {c} : pc'[d] = pc[d] /\ answered'[d] = answered[d]
    BY <1>7, SaveDoes DEF SaveContext
  <2>2. \A d \in Conv : ToSet(answered[d]) \subseteq ToSet(answered'[d])
    BY <2>1
  <2>3. MemoryComesFirst'
    BY <1>3, <2>1, <2>2 DEF PastInv, MemoryComesFirst
  <2>4. Current(c) \notin ToSet(table)
    <3>1. Current(c) \notin ToSet(answered[c]) /\ Current(c)[1] = c
      BY <2>1 DEF TurnInv, Current
    <3> QED BY <3>1 DEF PastInv, MemoryComesFirst
  <2>5. \A t \in Turn : outcome'[t] = "answer" => t \in ToSet(answered'[t[1]])
    BY <1>2, <2>1, <2>2 DEF PastInv, OutcomeInv
  <2>6. \A d \in Conv : pc'[d] = "appended" => Current(d) \in ToSet(answered'[d]) /\ Current(d) \notin ToSet(table)
    BY <2>1, <2>4 DEF PastInv, OutcomeInv
  <2>7. OutcomeInv'
    BY <2>1, <2>5, <2>6 DEF OutcomeInv, Current
  <2> QED BY <2>3, <2>7 DEF PastInv
<1>8. ASSUME NEW c \in Conv, InsertMessage(c) PROVE PastInv'
  <2>1. /\ UNCHANGED <<turn, answered, sent>> /\ pc[c] = "appended" /\ pc'[c] = "replying"
        /\ \A d \in Conv \ {c} : pc'[d] = pc[d]
        /\ outcome'[Current(c)] = "answer" /\ \A t \in Turn \ {Current(c)} : outcome'[t] = outcome[t]
        /\ table' = Append(table, Current(c)) \/ table' = table
    BY <1>8, InsertDoes DEF InsertMessage
  <2>2. /\ Current(c) \in ToSet(answered[c]) /\ Current(c) \notin ToSet(table) /\ Current(c) \in Turn
        /\ Current(c)[1] = c /\ Current(c)[2] = turn[c] /\ turn[c] \in Nat
    BY <1>1, <2>1, ChatAssumption DEF PastInv, OutcomeInv, Current, TypeOK
  <2>3. \A t \in sent : t \in ToSet(answered[t[1]]) /\ outcome'[t] = "answer"
    BY <1>1, <2>1 DEF PastInv, MemoryComesFirst
  <2>4. \A r \in ToSet(table) : r[1] = c => r[2] < turn[c]
    <3> SUFFICES ASSUME NEW r \in ToSet(table), r[1] = c PROVE r[2] < turn[c]
      OBVIOUS
    <3>1. r \in ToSet(answered[c]) /\ r \in Turn /\ r # Current(c)
      BY <1>1, <2>2 DEF PastInv, MemoryComesFirst
    <3>2. r[2] <= turn[c] /\ r[2] \in Nat
      BY <1>2, <3>1, ChatAssumption DEF TurnInv
    <3>3. r[2] # turn[c]
      BY <3>1 DEF Turn, Current
    <3> QED BY <2>2, <3>2, <3>3
  <2>5. /\ \A i, j \in DOMAIN table' : i < j /\ table'[i][1] = table'[j][1] => table'[i][2] < table'[j][2]
        /\ \A t \in ToSet(table') : t \in ToSet(answered[t[1]])
        /\ ToSet(table') \subseteq ToSet(table) \cup {Current(c)}
    <3>1. CASE table' = table
      BY <3>1 DEF PastInv, MemoryComesFirst
    <3>2. CASE table' = Append(table, Current(c))
      <4>1. ToSet(table') = ToSet(table) \cup {Current(c)}
        BY <1>1, <2>2, <3>2, AppendTurn
      <4>2. \A i, j \in DOMAIN table : i < j /\ table[i][1] = table[j][1] => table[i][2] < table[j][2]
        BY DEF PastInv, MemoryComesFirst
      <4>3. \A r \in ToSet(table) : r[1] = Current(c)[1] => r[2] < Current(c)[2]
        BY <2>2, <2>4
      <4> HIDE DEF Inv, MemoryIsTrue
      <4>4. \A i, j \in DOMAIN table' : i < j /\ table'[i][1] = table'[j][1] => table'[i][2] < table'[j][2]
        BY <1>1, <2>2, <3>2, <4>2, <4>3, RowsAppended
      <4> QED BY <2>2, <4>1, <4>4 DEF PastInv, MemoryComesFirst
    <3> QED BY <2>1, <3>1, <3>2
  <2>6. MemoryComesFirst'
    BY <2>1, <2>3, <2>5 DEF MemoryComesFirst
  <2>7. \A t \in Turn : outcome'[t] = "answer" => t \in ToSet(answered[t[1]])
    BY <2>1, <2>2 DEF PastInv, OutcomeInv
  <2>8. \A d \in Conv : pc'[d] = "appended" => Current(d) \in ToSet(answered[d]) /\ Current(d) \notin ToSet(table')
    <3>1. \A d \in Conv \ {c} : Current(d) # Current(c)
      BY DEF Current
    <3> QED BY <2>1, <2>5, <3>1 DEF PastInv, OutcomeInv
  <2>9. OutcomeInv'
    BY <2>1, <2>7, <2>8 DEF OutcomeInv, Current
  <2> QED BY <2>6, <2>9 DEF PastInv
<1>9. ASSUME NEW c \in Conv, SendReply(c) PROVE PastInv'
  <2>1. /\ UNCHANGED <<turn, answered, outcome, table>> /\ pc[c] = "replying" /\ pc'[c] = "idle"
        /\ \A d \in Conv \ {c} : pc'[d] = pc[d]
        /\ sent' = IF outcome[Current(c)] = "answer" THEN sent \cup {Current(c)} ELSE sent
    BY <1>9, Goes DEF SendReply, Places
  <2>2. Current(c) \in Turn
    BY <2>1 DEF TurnInv, Current, Turn
  <2>3. \A t \in sent' : t \in ToSet(answered[t[1]]) /\ outcome[t] = "answer"
    BY <2>1, <2>2 DEF PastInv, MemoryComesFirst, OutcomeInv
  <2>4. MemoryComesFirst'
    BY <2>1, <2>3 DEF PastInv, MemoryComesFirst
  <2>5. OutcomeInv'
    BY <1>4, <2>1
  <2> QED BY <2>4, <2>5 DEF PastInv
<1>10. ASSUME Cancel \/ Quiet \/ UNCHANGED vars PROVE PastInv'
  <2>1. UNCHANGED <<pc, turn, outcome, pastVars>>
    BY <1>10 DEF Cancel, Quiet, vars, turnVars, pastVars
  <2> QED BY <2>1 DEF PastInv, MemoryComesFirst, OutcomeInv, Current, pastVars
<1> QED BY <1>5, <1>6, <1>7, <1>8, <1>9, <1>10 DEF Next, Handle, ChatEnds, Moves, Returns

(* Whatever the provider and the database do, and however the conversations*)
(* interleave: a turn has at most one row, the rows of a conversation are  *)
(* in the order of its turns, and an answer that has a row, or that the    *)
(* user has received, is one the conversation remembered before.           *)
THEOREM MemoryStaysFirst == Spec => []MemoryComesFirst
<1>1. Init => PastInv
  <2>1. ToSet(<<>>) = {} /\ DOMAIN <<>> = {}
    BY DEF ToSet
  <2>2. Init => MemoryComesFirst
    BY <2>1 DEF Init, MemoryComesFirst
  <2>3. Init => OutcomeInv
    BY DEF Init, OutcomeInv
  <2> QED BY <2>2, <2>3 DEF PastInv
<1>2. Inv /\ PastInv /\ [Next]_vars => PastInv'
  BY PastPreserved
<1>3. PastInv => MemoryComesFirst
  BY DEF PastInv
<1> QED BY <1>1, <1>2, <1>3, InvInvariant, PTL DEF Spec
-----------------------------------------------------------------------------
(* The image cache: PopImage runs at the start of a turn, in the worker of *)
(* any conversation of the sender.                                         *)

(* The entry is a downloaded image that no conversation has used.          *)
EntryInv == entry # None =>
  /\ entry.at <= now /\ onImage[entry.image] = "done"
  /\ \A c \in Chats : entry.image \notin Range(used[c])

(* A pop holds an image it has not used, and once it has deleted the entry *)
(* that image is in no entry again: every image is stored once.            *)
LoadedInv == \A c \in Chats :
  /\ pop[c] = "idle" <=> loaded[c] = None
  /\ loaded[c] # None => onImage[loaded[c].image] = "done" /\ loaded[c].image \notin Range(used[c])
  /\ pop[c] = "check" => entry.image # loaded[c].image
  /\ \A i \in Range(used[c]) : onImage[i] = "done"

(* An entry that was not stored inside another's Load and Delete is the one*)
(* the cleaner was shown, and the one each pop has loaded.                 *)
NotRaced == entry # None /\ entry.image \notin raced =>
  /\ sweep # None => Age(entry) > CacheAge
  /\ \A c \in Chats : pop[c] = "delete" => loaded[c] = entry

ImageInv == EveryPictureOnce /\ EntryInv /\ LoadedInv /\ NotRaced

Fate == [how : {"none", "stored", "popped", "replaced", "swept", "expired"}, age : 0 .. MaxNow]

\* None is no image, and an entry's image is one.
LEMMA EntryIsEntry ==
  ASSUME ImageAssumption, NEW e \in Entry \cup {None}
  PROVE  /\ e # None => e.image \in Image /\ e.image \in Nat \ {0} /\ e.at \in 0 .. MaxNow
         /\ e = None <=> e.image = 0
         /\ None.image = 0 /\ None.image \notin Image
<1>1. None.image = 0 /\ 0 \notin Image
  BY DEF ImageAssumption, None
<1>2. e \in Entry => e.image \in Image /\ e.at \in 0 .. MaxNow /\ e.image \in Nat \ {0}
  BY DEF ImageAssumption, Entry
<1> QED BY <1>1, <1>2

LEMMA UsedAppended ==
  ASSUME NEW s \in Seq(Image), NEW i \in Image, i \notin Range(s),
         \A j, k \in DOMAIN s : ~(j < k /\ s[j] = s[k])
  PROVE  /\ Append(s, i) \in Seq(Image) /\ Range(Append(s, i)) = Range(s) \cup {i}
         /\ \A j, k \in DOMAIN Append(s, i) : ~(j < k /\ Append(s, i)[j] = Append(s, i)[k])
<1> DEFINE r == Append(s, i)
<1>1. /\ r \in Seq(Image) /\ Len(s) \in Nat /\ DOMAIN s = 1 .. Len(s) /\ DOMAIN r = 1 .. Len(s) + 1
      /\ r[Len(s) + 1] = i /\ \A j \in 1 .. Len(s) : r[j] = s[j] /\ s[j] \in Range(s)
  BY AppendProperties, LenProperties DEF Range
<1> HIDE DEF r
<1>2. Range(r) = Range(s) \cup {i}
  BY <1>1 DEF Range
<1>3. ASSUME NEW j \in DOMAIN r, NEW k \in DOMAIN r, j < k PROVE r[j] # r[k]
  <2>1. j \in DOMAIN s /\ (k \in DOMAIN s \/ k = Len(s) + 1)
    BY <1>1, <1>3
  <2> QED BY <1>1, <1>3, <2>1
<1> QED BY <1>1, <1>2, <1>3 DEF r

\* What overwriting or deleting the entry writes down.
LEMMA EndsWell ==
  ASSUME ImageAssumption, CacheTypeOK, EntryInv, entry # None, NEW h \in {"popped", "replaced", "swept"}
  PROVE  /\ Ends(h) \in [Image -> Fate] /\ entry.image \in Image
         /\ Ends(h)[entry.image].how = h /\ Ends(h)[entry.image].age = Age(entry)
         /\ \A i \in Image \ {entry.image} : Ends(h)[i] = fate[i]
<1> DEFINE f == [how |-> h, age |-> Age(entry)]
<1>1. entry.image \in Image /\ entry.at \in 0 .. MaxNow /\ entry.at <= now /\ now \in 0 .. MaxNow /\ MaxNow \in Nat
  BY EntryIsEntry DEF CacheTypeOK, EntryInv, ImageAssumption
<1>2. Age(entry) \in 0 .. MaxNow
  BY <1>1 DEF Age
<1>3. f \in Fate /\ f.how = h /\ f.age = Age(entry)
  BY <1>2 DEF Fate
<1>4. fate \in [Image -> Fate]
  BY DEF CacheTypeOK, Fate
<1>5. Ends(h) = [fate EXCEPT ![entry.image] = f]
  BY DEF Ends
<1> HIDE DEF f
<1> QED BY <1>1, <1>3, <1>4, <1>5

(* Steps that leave the entries and what became of the images alone.       *)
LEMMA EntryLeftAlone ==
  ASSUME ImageAssumption, ImageInv,
         \/ Tick \/ FindExpired \/ Over \/ UNCHANGED cacheVars
         \/ \E i \in Image : GetPicture(i) \/ GivesUp(i)
  PROVE  ImageInv'
<1> USE DEF ImageInv, EveryPictureOnce
<1>1. UNCHANGED <<entry, turns, pop, loaded, used, fate, raced>>
  BY DEF Tick, FindExpired, Over, cacheVars, GetPicture, GivesUp
<1>2. /\ now \in 0 .. MaxNow /\ now' \in 0 .. MaxNow /\ now' >= now /\ sweep' \in {sweep, entry}
      /\ onImage' \in [Image -> {"none", "download", "done"}]
      /\ \A i \in Image : onImage[i] = "done" => onImage'[i] = "done"
  <2>1. CASE Tick
    BY <2>1 DEF Tick, CacheTypeOK, ImageAssumption
  <2>2. CASE FindExpired \/ Over \/ UNCHANGED cacheVars
    BY <2>2 DEF FindExpired, Over, cacheVars, CacheTypeOK, ImageAssumption
  <2>3. ASSUME NEW i \in Image, GetPicture(i) \/ GivesUp(i)
        PROVE  /\ now' = now /\ sweep' = sweep
               /\ onImage' \in [Image -> {"none", "download", "done"}]
               /\ \A j \in Image : onImage[j] = "done" => onImage'[j] = "done"
    BY <2>3 DEF GetPicture, GivesUp, CacheTypeOK
  <2>4. now \in 0 .. MaxNow /\ MaxNow \in Nat
    BY DEF CacheTypeOK, ImageAssumption
  <2> QED BY <2>1, <2>2, <2>3, <2>4
<1>3. /\ entry # None => entry.image \in Image /\ entry.at \in Nat
      /\ \A c \in Chats : loaded[c] # None => loaded[c].image \in Image
      /\ \A c \in Chats : Range(used[c]) \subseteq Image
  <2>1. /\ entry \in Entry \cup {None}
        /\ \A c \in Chats : loaded[c] \in Entry \cup {None} /\ used[c] \in Seq(Image)
    BY DEF CacheTypeOK
  <2>2. \A c \in Chats : Range(used[c]) \subseteq Image
    BY <2>1, LenProperties, ElementOfSeq DEF Range
  <2> QED BY <2>1, <2>2, EntryIsEntry
<1>4. CacheTypeOK'
  BY <1>1, <1>2 DEF CacheTypeOK, Entry
<1>5. OncePerConversation'
  BY <1>1 DEF OncePerConversation, Before
<1>9. LostOnlyInRace'
  <2>1. ASSUME NEW i \in Image \ raced
        PROVE  /\ fate'[i].how = "swept" => fate'[i].age > CacheAge
               /\ fate'[i].how = "popped" => \E c \in Chats : i \in Range(used'[c]) \/ loaded'[c].image = i
    BY <1>1 DEF LostOnlyInRace
  <2> QED BY <1>1, <2>1 DEF LostOnlyInRace
<1>6. EntryInv'
  <2>1. now' >= now /\ now \in Nat /\ now' \in Nat
    BY <1>2 DEF ImageAssumption
  <2> SUFFICES ASSUME entry # None
               PROVE  /\ entry.at <= now' /\ onImage'[entry.image] = "done"
                      /\ \A c \in Chats : entry.image \notin Range(used[c])
    BY <1>1 DEF EntryInv
  <2>2. entry.at <= now /\ onImage[entry.image] = "done" /\ \A c \in Chats : entry.image \notin Range(used[c])
    BY DEF EntryInv
  <2>3. entry.at <= now'
    BY <1>3, <2>1, <2>2
  <2> QED BY <1>2, <1>3, <2>2, <2>3
<1>7. LoadedInv'
  BY <1>1, <1>2, <1>3 DEF LoadedInv
<1>8. NotRaced'
  <2>1. sweep' # None /\ entry # None /\ entry.image \notin raced => Age(entry)' > CacheAge
    <3>1. FindExpired => Age(entry) > CacheAge
      BY DEF FindExpired
    <3>2. ~FindExpired => sweep' = sweep
      BY DEF Tick, Over, cacheVars, GetPicture, GivesUp
    <3>3. entry # None => Age(entry)' >= Age(entry) /\ Age(entry) \in Int /\ Age(entry)' \in Int
      BY <1>1, <1>2, <1>3 DEF Age
    <3> QED BY <3>1, <3>2, <3>3 DEF NotRaced, ImageAssumption
  <2> QED BY <1>1, <2>1 DEF NotRaced
<1> QED BY <1>4, <1>5, <1>6, <1>7, <1>8, <1>9

LEMMA ImagesHeld ==
  ASSUME ImageAssumption, CacheTypeOK
  PROVE  /\ entry # None => entry.image \in Image
         /\ entry = None => entry.image = 0
         /\ \A c \in Chats : /\ loaded[c] # None => loaded[c].image \in Image
                             /\ loaded[c] = None => loaded[c].image = 0
                             /\ used[c] \in Seq(Image) /\ Range(used[c]) \subseteq Image
         /\ None.image = 0 /\ 0 \notin Image
<1>1. /\ entry \in Entry \cup {None}
      /\ \A c \in Chats : loaded[c] \in Entry \cup {None} /\ used[c] \in Seq(Image)
  BY DEF CacheTypeOK
<1>2. \A c \in Chats : Range(used[c]) \subseteq Image
  BY <1>1, LenProperties, ElementOfSeq DEF Range
<1> QED BY <1>1, <1>2, EntryIsEntry

(* A stored image: new to every conversation.                              *)
LEMMA ImageCached ==
  ASSUME ImageAssumption, ImageInv, NEW i \in Image, CacheImage(i)
  PROVE  ImageInv'
<1> USE DEF ImageInv, EveryPictureOnce
<1> DEFINE e == [image |-> i, at |-> now]
           f == IF entry # None THEN Ends("replaced") ELSE fate
           g == [how |-> "stored", age |-> 0]
<1>1. /\ UNCHANGED <<now, turns, pop, loaded, sweep, used>> /\ onImage[i] = "download"
      /\ onImage' = [onImage EXCEPT ![i] = "done"] /\ entry' = e /\ fate' = [f EXCEPT ![i] = g]
      /\ raced \subseteq raced' /\ raced' \subseteq raced \cup {i}
      /\ i \notin raced' => sweep = None /\ \A c \in Chats : pop[c] # "delete"
  BY DEF CacheImage
<1>2. e.image = i /\ e.at = now /\ e \in Entry
  BY DEF CacheTypeOK, Entry
<1>3. e # None
  BY <1>2, ImagesHeld
<1>4. /\ f \in [Image -> Fate] /\ g \in Fate /\ g.how = "stored"
      /\ \A j \in Image : f[j].how \in {"swept", "popped"} => f[j] = fate[j]
  <2>1. fate \in [Image -> Fate] /\ g \in Fate /\ g.how = "stored"
    BY DEF CacheTypeOK, Fate, ImageAssumption
  <2>2. CASE entry = None
    BY <2>1, <2>2
  <2>3. CASE entry # None
    <3>1. /\ Ends("replaced") \in [Image -> Fate] /\ Ends("replaced")[entry.image].how = "replaced"
          /\ \A j \in Image \ {entry.image} : Ends("replaced")[j] = fate[j]
      BY <2>3, EndsWell
    <3> QED BY <2>1, <2>3, <3>1
  <2> QED BY <2>2, <2>3
<1> HIDE DEF e, f, g
<1>5. /\ onImage' \in [Image -> {"none", "download", "done"}] /\ onImage'[i] = "done"
      /\ \A j \in Image \ {i} : onImage'[j] = onImage[j]
      /\ fate' \in [Image -> Fate] /\ \A j \in Image : fate'[j].how \in {"swept", "popped"} => fate'[j] = fate[j]
  BY <1>1, <1>4 DEF CacheTypeOK
<1>6. \A c \in Chats : /\ i \notin Range(used[c]) /\ loaded[c].image # i
                       /\ \A j \in Range(used[c]) : onImage'[j] = "done"
                       /\ loaded[c] # None => onImage'[loaded[c].image] = "done"
  BY <1>1, <1>5, ImagesHeld DEF LoadedInv
<1>7. CacheTypeOK'
  BY <1>1, <1>2, <1>5 DEF CacheTypeOK, Entry, Fate
<1>8. OncePerConversation'
  BY <1>1 DEF OncePerConversation, Before
<1>9. LostOnlyInRace'
  <2>1. ASSUME NEW j \in Image \ raced'
        PROVE  /\ fate'[j].how = "swept" => fate'[j].age > CacheAge
               /\ fate'[j].how = "popped" => \E c \in Chats : j \in Range(used'[c]) \/ loaded'[c].image = j
    <3>1. j \in Image \ raced /\ (fate'[j].how \in {"swept", "popped"} => fate'[j] = fate[j])
      BY <1>1, <1>5
    <3> QED BY <1>1, <3>1 DEF LostOnlyInRace
  <2> QED BY <2>1 DEF LostOnlyInRace
<1>10. EntryInv'
  <2>1. now <= now
    BY DEF CacheTypeOK, ImageAssumption
  <2> QED BY <1>1, <1>2, <1>5, <1>6, <2>1 DEF EntryInv
<1>11. LoadedInv'
  BY <1>1, <1>2, <1>6 DEF LoadedInv
<1>12. NotRaced'
  BY <1>1, <1>2 DEF NotRaced
<1> QED BY <1>7, <1>8, <1>9, <1>10, <1>11, <1>12

(* A turn finds nothing, or loads the entry.                               *)
LEMMA ImagePopped ==
  ASSUME ImageAssumption, ImageInv, NEW c \in Chats, PopFindsNothing(c) \/ PopLoad(c)
  PROVE  ImageInv'
<1> USE DEF ImageInv, EveryPictureOnce
<1>1. /\ UNCHANGED <<now, entry, onImage, sweep, used, fate, raced>> /\ pop[c] = "idle"
      /\ turns' \in [Chats -> 0 .. MaxPops]
  <2>1. turns \in [Chats -> 0 .. MaxPops] /\ turns[c] + 1 \in 0 .. MaxPops
    BY DEF PopFindsNothing, PopLoad, CacheTypeOK, ImageAssumption
  <2>2. turns' = [turns EXCEPT ![c] = turns[c] + 1]
    BY DEF PopFindsNothing, PopLoad
  <2>3. turns' \in [Chats -> 0 .. MaxPops]
    BY <2>1, <2>2
  <2> QED BY <2>3 DEF PopFindsNothing, PopLoad
<1>2. /\ pop' \in [Chats -> {"idle", "delete", "check"}] /\ loaded' \in [Chats -> Entry \cup {None}]
      /\ \A d \in Chats : \/ pop'[d] = pop[d] /\ loaded'[d] = loaded[d]
                          \/ d = c /\ entry # None /\ pop'[d] = "delete" /\ loaded'[d] = entry
  <2>1. CASE PopFindsNothing(c)
    BY <2>1 DEF PopFindsNothing, CacheTypeOK
  <2>2. CASE PopLoad(c)
    <3>1. /\ pop \in [Chats -> {"idle", "delete", "check"}] /\ loaded \in [Chats -> Entry \cup {None}]
          /\ entry \in Entry \cup {None}
      BY DEF CacheTypeOK
    <3>2. /\ entry # None /\ pop' = [pop EXCEPT ![c] = "delete"] /\ loaded' = [loaded EXCEPT ![c] = entry]
      BY <2>2 DEF PopLoad
    <3> QED BY <3>1, <3>2
  <2> QED BY <2>1, <2>2
<1>3. CacheTypeOK'
  BY <1>1, <1>2 DEF CacheTypeOK, Entry
<1>4. OncePerConversation'
  BY <1>1 DEF OncePerConversation, Before
<1>5. \A d \in Chats, j \in Image : loaded[d].image = j => loaded'[d].image = j
  <2>1. loaded[c].image \notin Image
    BY <1>1, ImagesHeld DEF LoadedInv
  <2> QED BY <1>2, <2>1
<1>6. LostOnlyInRace'
  <2>1. ASSUME NEW j \in Image \ raced
        PROVE  /\ fate'[j].how = "swept" => fate'[j].age > CacheAge
               /\ fate'[j].how = "popped" => \E d \in Chats : j \in Range(used'[d]) \/ loaded'[d].image = j
    BY <1>1, <1>5 DEF LostOnlyInRace
  <2> QED BY <1>1, <2>1 DEF LostOnlyInRace
<1>7. EntryInv'
  BY <1>1 DEF EntryInv
<1>8. LoadedInv'
  <2>1. ASSUME NEW d \in Chats
        PROVE  /\ pop'[d] = "idle" <=> loaded'[d] = None
               /\ loaded'[d] # None => /\ onImage[loaded'[d].image] = "done"
                                           /\ loaded'[d].image \notin Range(used[d])
               /\ pop'[d] = "check" => entry.image # loaded'[d].image
               /\ \A i \in Range(used[d]) : onImage[i] = "done"
    BY <1>1, <1>2 DEF LoadedInv, EntryInv
  <2> QED BY <1>1, <2>1 DEF LoadedInv
<1>9. NotRaced'
  <2>1. \A d \in Chats : pop'[d] = "delete" => loaded'[d] = entry \/ (pop[d] = "delete" /\ loaded'[d] = loaded[d])
    BY <1>2
  <2>2. Age(entry)' = Age(entry)
    BY <1>1 DEF Age
  <2> QED BY <1>1, <2>1, <2>2 DEF NotRaced
<1> QED BY <1>3, <1>4, <1>6, <1>7, <1>8, <1>9

(* The entry goes, to a pop or to the cleaner.                             *)
LEMMA EntryDeleted ==
  ASSUME ImageAssumption, ImageInv, DeleteExpired \/ \E c \in Chats : PopDelete(c)
  PROVE  ImageInv'
<1> USE DEF ImageInv, EveryPictureOnce
<1>1. PICK how \in {"popped", "swept"} :
        /\ UNCHANGED <<now, onImage, turns, loaded, used, raced>>
        /\ entry' = None /\ fate' = IF entry = None THEN fate ELSE Ends(how)
        /\ pop' \in [Chats -> {"idle", "delete", "check"}] /\ sweep' \in {sweep, None}
        /\ \A d \in Chats : pop'[d] = pop[d] \/ (pop[d] = "delete" /\ pop'[d] = "check")
        /\ how = "swept" => sweep # None
        /\ how = "popped" => \E c \in Chats : pop[c] = "delete"
  <2>0. pop \in [Chats -> {"idle", "delete", "check"}]
    BY DEF CacheTypeOK
  <2>1. CASE DeleteExpired
    <3>1. /\ UNCHANGED <<now, onImage, turns, pop, loaded, used, raced>>
          /\ entry' = None /\ fate' = (IF entry = None THEN fate ELSE Ends("swept"))
          /\ sweep' = None /\ sweep # None
      BY <2>1 DEF DeleteExpired
    <3> QED BY <2>0, <3>1
  <2>2. ASSUME NEW c \in Chats, PopDelete(c)
        PROVE  /\ UNCHANGED <<now, onImage, turns, loaded, used, raced, sweep>>
               /\ entry' = None /\ fate' = IF entry = None THEN fate ELSE Ends("popped")
               /\ pop' \in [Chats -> {"idle", "delete", "check"}] /\ pop[c] = "delete"
               /\ \A d \in Chats : pop'[d] = pop[d] \/ (pop[d] = "delete" /\ pop'[d] = "check")
    <3>1. /\ UNCHANGED <<now, onImage, turns, loaded, used, raced, sweep>>
          /\ entry' = None /\ fate' = (IF entry = None THEN fate ELSE Ends("popped"))
          /\ pop[c] = "delete" /\ pop' = [pop EXCEPT ![c] = "check"]
      BY <2>2 DEF PopDelete
    <3>2. /\ pop' \in [Chats -> {"idle", "delete", "check"}]
          /\ \A d \in Chats : pop'[d] = pop[d] \/ (pop[d] = "delete" /\ pop'[d] = "check")
      BY <2>0, <3>1
    <3> QED BY <3>1, <3>2
  <2> QED BY <2>1, <2>2
<1>2. /\ fate' \in [Image -> Fate]
      /\ \A j \in Image : \/ fate'[j] = fate[j]
                          \/ /\ entry # None /\ j = entry.image
                             /\ fate'[j].how = how /\ fate'[j].age = Age(entry)
  <2>1. CASE entry = None
    BY <1>1, <2>1 DEF CacheTypeOK, Fate
  <2>2. CASE entry # None
    BY <1>1, <2>2, EndsWell
  <2> QED BY <2>1, <2>2
<1>3. CacheTypeOK'
  BY <1>1, <1>2 DEF CacheTypeOK, Entry, Fate
<1>4. OncePerConversation'
  BY <1>1 DEF OncePerConversation, Before
<1>5. LostOnlyInRace'
  <2>1. ASSUME NEW j \in Image \ raced
        PROVE  /\ fate'[j].how = "swept" => fate'[j].age > CacheAge
               /\ fate'[j].how = "popped" => \E c \in Chats : j \in Range(used[c]) \/ loaded[c].image = j
    <3>1. CASE fate'[j] = fate[j]
      BY <3>1 DEF LostOnlyInRace
    <3>2. CASE entry # None /\ j = entry.image /\ fate'[j].how = how /\ fate'[j].age = Age(entry)
      BY <1>1, <3>2 DEF NotRaced
    <3> QED BY <1>2, <3>1, <3>2
  <2> QED BY <1>1, <2>1 DEF LostOnlyInRace
<1>6. EntryInv' /\ NotRaced'
  BY <1>1 DEF EntryInv, NotRaced
<1>7. LoadedInv'
  <2>1. ASSUME NEW d \in Chats
        PROVE  /\ pop'[d] = "idle" <=> loaded[d] = None
               /\ pop'[d] = "check" => None.image # loaded[d].image
    BY <1>1, ImagesHeld DEF LoadedInv
  <2> QED BY <1>1, <2>1 DEF LoadedInv
<1> QED BY <1>3, <1>4, <1>5, <1>6, <1>7

(* A pop looks at the age of what it loaded and deleted.                   *)
LEMMA PopChecked ==
  ASSUME ImageAssumption, ImageInv, NEW c \in Chats, PopCheck(c)
  PROVE  ImageInv'
<1> USE DEF ImageInv, EveryPictureOnce
<1> DEFINE i == loaded[c].image
<1>1. /\ UNCHANGED <<now, entry, onImage, turns, sweep, raced>> /\ pop[c] = "check" /\ pop'[c] = "idle"
      /\ pop' \in [Chats -> {"idle", "delete", "check"}] /\ \A d \in Chats \ {c} : pop'[d] = pop[d]
      /\ loaded' = [loaded EXCEPT ![c] = None]
      /\ \/ used' = used /\ fate' = [fate EXCEPT ![i].how = "expired"]
         \/ used' = [used EXCEPT ![c] = Append(@, i)] /\ fate' = fate
  BY DEF PopCheck, CacheTypeOK
<1>2. /\ loaded' \in [Chats -> Entry \cup {None}] /\ loaded'[c] = None
      /\ \A d \in Chats \ {c} : loaded'[d] = loaded[d]
  BY <1>1 DEF CacheTypeOK
<1>3. /\ i \in Image /\ i \notin Range(used[c]) /\ entry.image # i /\ onImage[i] = "done"
      /\ used \in [Chats -> Seq(Image)] /\ fate \in [Image -> Fate] /\ used[c] \in Seq(Image)
      /\ \A j, k \in DOMAIN used[c] : ~(j < k /\ used[c][j] = used[c][k])
  <2>1. loaded[c] # None
    BY <1>1 DEF LoadedInv
  <2> QED BY <1>1, <2>1, ImagesHeld DEF LoadedInv, CacheTypeOK, Fate, OncePerConversation, Before
<1> HIDE DEF i
<1>4. /\ Append(used[c], i) \in Seq(Image) /\ Range(Append(used[c], i)) = Range(used[c]) \cup {i}
      /\ \A j, k \in DOMAIN Append(used[c], i) :
           ~(j < k /\ Append(used[c], i)[j] = Append(used[c], i)[k])
  BY <1>3, UsedAppended
<1>5. ASSUME fate' = [fate EXCEPT ![i].how = "expired"]
      PROVE  fate' \in [Image -> Fate] /\ fate'[i].how = "expired" /\ \A j \in Image \ {i} : fate'[j] = fate[j]
  <2>1. fate[i] \in Fate
    BY <1>3
  <2>2. [fate[i] EXCEPT !.how = "expired"] \in Fate /\ [fate[i] EXCEPT !.how = "expired"].how = "expired"
    BY <2>1 DEF Fate
  <2> QED BY <1>3, <1>5, <2>2
<1>6. /\ used' \in [Chats -> Seq(Image)] /\ fate' \in [Image -> Fate]
      /\ \A d \in Chats \ {c} : used'[d] = used[d]
      /\ \A j \in Image \ {i} : fate'[j] = fate[j]
      /\ \/ used'[c] = used[c] /\ fate'[i].how = "expired"
         \/ used'[c] = Append(used[c], i) /\ fate' = fate
  BY <1>1, <1>3, <1>4, <1>5
<1>7. /\ Range(used[c]) \subseteq Range(used'[c]) /\ Range(used'[c]) \subseteq Range(used[c]) \cup {i}
      /\ fate'[i].how = "expired" \/ (i \in Range(used'[c]) /\ fate'[i] = fate[i])
  <2>1. CASE used'[c] = used[c] /\ fate'[i].how = "expired"
    BY <2>1
  <2>2. CASE used'[c] = Append(used[c], i) /\ fate' = fate
    BY <1>4, <2>2
  <2> QED BY <1>6, <2>1, <2>2
<1>8. CacheTypeOK'
  BY <1>1, <1>2, <1>6 DEF CacheTypeOK, Entry, Fate
<1>9. OncePerConversation'
  <2>1. ASSUME NEW d \in Chats PROVE \A j, k \in DOMAIN used'[d] : ~(j < k /\ used'[d][j] = used'[d][k])
    <3>1. CASE d = c
      <4>1. CASE used'[c] = used[c]
        BY <1>3, <3>1, <4>1
      <4>2. CASE used'[c] = Append(used[c], i)
        BY <1>4, <3>1, <4>2
      <4> QED BY <1>6, <4>1, <4>2
    <3>2. CASE d # c
      BY <1>6, <3>2 DEF OncePerConversation, Before
    <3> QED BY <3>1, <3>2
  <2> QED BY <2>1 DEF OncePerConversation, Before
<1>10. LostOnlyInRace'
  <2>1. ASSUME NEW j \in Image \ raced
        PROVE  /\ fate'[j].how = "swept" => fate'[j].age > CacheAge
               /\ fate'[j].how = "popped" => \E d \in Chats : j \in Range(used'[d]) \/ loaded'[d].image = j
    <3>1. CASE j = i
      BY <1>6, <1>7, <3>1 DEF LostOnlyInRace
    <3>2. CASE j # i
      <4>1. /\ fate[j].how = "swept" => fate[j].age > CacheAge
            /\ fate[j].how = "popped" => \E d \in Chats : j \in Range(used[d]) \/ loaded[d].image = j
        BY DEF LostOnlyInRace
      <4>2. \A d \in Chats : j \in Range(used[d]) \/ loaded[d].image = j
                              => j \in Range(used'[d]) \/ loaded'[d].image = j
        BY <1>2, <1>6, <1>7, <3>2 DEF i
      <4> QED BY <1>6, <3>2, <4>1, <4>2
    <3> QED BY <3>1, <3>2
  <2> QED BY <1>1, <2>1 DEF LostOnlyInRace
<1>11. EntryInv'
  <2>1. entry # None => \A d \in Chats : entry.image \notin Range(used'[d])
    BY <1>3, <1>6, <1>7 DEF EntryInv
  <2> QED BY <1>1, <2>1 DEF EntryInv
<1>12. LoadedInv'
  <2>1. ASSUME NEW d \in Chats
        PROVE  /\ pop'[d] = "idle" <=> loaded'[d] = None
               /\ loaded'[d] # None => /\ onImage[loaded'[d].image] = "done"
                                           /\ loaded'[d].image \notin Range(used'[d])
               /\ pop'[d] = "check" => entry.image # loaded'[d].image
               /\ \A k \in Range(used'[d]) : onImage[k] = "done"
    <3>1. CASE d = c
      BY <1>1, <1>2, <1>3, <1>7, <3>1 DEF LoadedInv
    <3>2. CASE d # c
      <4>1. pop'[d] = pop[d] /\ loaded'[d] = loaded[d] /\ used'[d] = used[d]
        BY <1>1, <1>2, <1>6, <3>2
      <4> QED BY <4>1 DEF LoadedInv
    <3> QED BY <3>1, <3>2
  <2> QED BY <1>1, <2>1 DEF LoadedInv
<1>13. NotRaced'
  <2>1. \A d \in Chats : pop'[d] = "delete" => pop[d] = "delete" /\ loaded'[d] = loaded[d]
    BY <1>1, <1>2
  <2>2. Age(entry)' = Age(entry)
    BY <1>1 DEF Age
  <2> QED BY <1>1, <2>1, <2>2 DEF NotRaced
<1> QED BY <1>8, <1>9, <1>10, <1>11, <1>12, <1>13

LEMMA ImageInitially ==
  ASSUME ImageAssumption, CacheInit
  PROVE  ImageInv
<1>1. <<>> \in Seq(Image) /\ DOMAIN <<>> = {} /\ Range(<<>>) = {}
  BY DEF Range
<1>2. 0 \in 0 .. MaxNow /\ 0 \in 0 .. MaxPops
  BY DEF ImageAssumption
<1>3. /\ now \in 0 .. MaxNow /\ turns \in [Chats -> 0 .. MaxPops] /\ raced \in SUBSET Image
  BY <1>2 DEF CacheInit
<1>4. /\ fate \in [Image -> Fate] /\ used \in [Chats -> Seq(Image)]
      /\ \A i \in Image : fate[i].how = "none" /\ \A c \in Chats : used[c] = <<>>
  BY <1>1, <1>2 DEF CacheInit, Fate
<1>5. /\ entry \in Entry \cup {None} /\ sweep \in Entry \cup {None}
      /\ loaded \in [Chats -> Entry \cup {None}]
      /\ onImage \in [Image -> {"none", "download", "done"}] /\ pop \in [Chats -> {"idle", "delete", "check"}]
  BY DEF CacheInit
<1>6. CacheTypeOK
  BY <1>3, <1>4, <1>5 DEF CacheTypeOK, Fate
<1>7. \A c \in Chats : used[c] = <<>> /\ loaded[c] = None /\ pop[c] = "idle"
  BY DEF CacheInit
<1>8. EveryPictureOnce
  BY <1>1, <1>4, <1>6, <1>7 DEF EveryPictureOnce, OncePerConversation, LostOnlyInRace
<1>9. EntryInv /\ LoadedInv /\ NotRaced
  BY <1>1, <1>7 DEF CacheInit, EntryInv, LoadedInv, NotRaced
<1> QED BY <1>8, <1>9 DEF ImageInv

(* For any images, conversations, ages and interleaving of downloads, pops *)
(* and the cleaner: a conversation's requests carry no picture twice, and a*)
(* picture is dropped unused only when replaced, too old, or stored inside *)
(* another entry's Load and Delete.                                        *)
THEOREM PicturesStayTrue == CacheSpec => []EveryPictureOnce
<1>1. CacheInit => ImageInv
  BY ImageInitially, ImageAssumption
<1>2. ImageInv /\ [CacheNext]_cacheVars => ImageInv'
  BY ImageAssumption, EntryLeftAlone, ImageCached, ImagePopped, EntryDeleted, PopChecked DEF CacheNext
<1>3. ImageInv => EveryPictureOnce
  BY DEF ImageInv
<1> QED BY <1>1, <1>2, <1>3, PTL DEF CacheSpec
=============================================================================
