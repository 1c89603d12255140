-------------------------------- MODULE Chat --------------------------------
(***************************************************************************)
(* One chat turn, Handler.Handle (src/core/message/handler.go), as the     *)
(* serial worker of each conversation runs it: take the conversation's     *)
(* history, wait for one of the global provider slots, ask the provider,   *)
(* remember the answered pair (core/session), store it (database) and send *)
(* the reply (handleTextTask).  Turns of different conversations           *)
(* interleave at every step; turns of one do not (SessionWorker).  Variants*)
(* are faulty forms of the step they precede, used by no step of Next.     *)
(***************************************************************************)
EXTENDS Integers, Sequences, SequencesExt

CONSTANTS Conv,      \* conversations: records of a kind, a room and a sender
          NoRoom,    \* the room of a private conversation
          MaxPairs,  \* chat.max_context, as configured
          Slots,     \* maxConcurrentChats
          MaxTurns   \* bound: turns of each conversation

(* A conversation is told apart by its kind, its room and its sender.      *)
ASSUME ChatAssumption ==
  /\ IsFiniteSet(Conv)
  /\ \A c \in Conv : c.kind \in {"private", "group"} /\ (c.kind = "group" <=> c.room # NoRoom)
  /\ \A c, d \in Conv : c.kind = d.kind /\ c.room = d.room /\ c.uid = d.uid => c = d
  /\ MaxPairs \in Int /\ Slots \in Nat \ {0} /\ MaxTurns \in Nat

VARIABLES
  history,    \* s.History of each session, as a sequence of answered turns
  sem,        \* tokens in h.Sem
  pc,         \* where the worker of each conversation is
  turn,       \* the number of its turn
  context,    \* the history its request was built with
  outcome,    \* what Handle returned for each turn
  cancelled,  \* the worker's context
  table,      \* rows of the messages table
  answered,   \* history: answered turns of each conversation, in order
  sent        \* history: answers the user has received

turnVars == <<pc, turn, context, outcome>>
pastVars == <<table, answered, sent>>
vars == <<history, sem, turnVars, cancelled, pastVars>>

Turn == Conv \X (1 .. MaxTurns)
Current(c) == <<c, turn[c]>>

(* Variant: the room is left out of the key.                               *)
SessionKeyBySender(c) == <<"private", c.uid>>

(* The isolation key of a conversation, and so of its session.             *)
SessionKey(c) ==
  IF c.kind = "group" /\ c.room # NoRoom THEN <<"group", c.room, c.uid>>
                                         ELSE <<"private", c.uid>>
Session == {SessionKey(c) : c \in Conv}

TypeOK ==
  /\ history \in [Session -> Seq(Turn)]
  /\ sem \in 0 .. Slots
  /\ pc \in [Conv -> {"idle", "build", "acquire", "waiting", "chatting", "answered",
                      "appended", "replying"}]
  /\ turn \in [Conv -> 0 .. MaxTurns]
  /\ context \in [Conv -> Seq(Turn)]
  /\ outcome \in [Turn -> {"none", "answer", "notice", "silent", "panic"}]
  /\ cancelled \in BOOLEAN
  /\ table \in Seq(Turn)
  /\ answered \in [Conv -> Seq(Turn)]
  /\ sent \in SUBSET Turn

Init ==
  /\ history = [s \in Session |-> <<>>]
  /\ sem = 0
  /\ pc = [c \in Conv |-> "idle"]
  /\ turn = [c \in Conv |-> 0]
  /\ context = [c \in Conv |-> <<>>]
  /\ outcome = [t \in Turn |-> "none"]
  /\ cancelled = FALSE
  /\ table = <<>>
  /\ answered = [c \in Conv |-> <<>>]
  /\ sent = {}

-----------------------------------------------------------------------------
(* Manager.Get and SetMax both clamp the cap to at least one pair.         *)
PairCap == IF MaxPairs <= 0 THEN 1 ELSE MaxPairs

(* Session.Append: one pair more, and the oldest dropped past the cap.     *)
AppendPair(h, t) ==
  LET longer == Append(h, t)
  IN  IF PairCap > 0 /\ Len(longer) > PairCap THEN Tail(longer) ELSE longer

Go(c, from, to) == pc[c] = from /\ pc' = [pc EXCEPT ![c] = to]

(* Handle returns o: the deferred releaseSlot runs when a slot was taken.  *)
TakeSlot == sem' = sem + 1
ReleaseSlot == sem' = IF sem > 0 THEN sem - 1 ELSE sem
Return(c, o) == outcome' = [outcome EXCEPT ![Current(c)] = o]

(* The worker runs its next task (not after it has seen the cancel).       *)
Begin(c) ==
  /\ ~cancelled
  /\ turn[c] < MaxTurns
  /\ Go(c, "idle", "build")
  /\ turn' = [turn EXCEPT ![c] = @ + 1]
  /\ UNCHANGED <<history, sem, context, outcome, cancelled, pastVars>>

(* A text with a leak keyword is turned down without asking anyone.        *)
LeakKeyword(c) ==
  /\ Go(c, "build", "replying")
  /\ Return(c, "notice")
  /\ UNCHANGED <<history, sem, turn, context, cancelled, pastVars>>

BuildMessages(c) ==
  /\ Go(c, "build", "acquire")
  /\ context' = [context EXCEPT ![c] = history[SessionKey(c)]]
  /\ UNCHANGED <<history, sem, turn, outcome, cancelled, pastVars>>

(* acquireSlot: a non-blocking attempt, whatever the context's state, and  *)
(* then a wait for a slot, the context or the SemWait timer.               *)
AcquireAtOnce(c) ==
  /\ sem < Slots
  /\ Go(c, "acquire", "chatting")
  /\ TakeSlot
  /\ UNCHANGED <<history, turn, context, outcome, cancelled, pastVars>>

SlotsAllTaken(c) ==
  /\ sem >= Slots
  /\ Go(c, "acquire", "waiting")
  /\ UNCHANGED <<history, sem, turn, context, outcome, cancelled, pastVars>>

AcquireAfterWait(c) ==
  /\ sem < Slots
  /\ Go(c, "waiting", "chatting")
  /\ TakeSlot
  /\ UNCHANGED <<history, turn, context, outcome, cancelled, pastVars>>

(* Variant: a wait without a timer.                                        *)
WaitsForEver(c) == FALSE

WaitGivesUp(c) ==
  /\ Go(c, "waiting", "idle")
  /\ Return(c, "silent")
  /\ UNCHANGED <<history, sem, turn, context, cancelled, pastVars>>

(* provider.Chat.  It ends in a minute at the latest, and at once when the *)
(* context is cancelled: then, as on any error, a notice is the reply.     *)
ChatFails(c) ==
  /\ Go(c, "chatting", "replying")
  /\ Return(c, "notice")
  /\ ReleaseSlot
  /\ UNCHANGED <<history, turn, context, cancelled, pastVars>>

(* Nothing but reasoning blocks in the completion.                         *)
ChatSaysNothing(c) ==
  /\ Go(c, "chatting", "idle")
  /\ Return(c, "silent")
  /\ ReleaseSlot
  /\ UNCHANGED <<history, turn, context, cancelled, pastVars>>

(* A panic unwinds through the deferred release; the task recovers it.     *)
ChatPanics(c) ==
  /\ Go(c, "chatting", "idle")
  /\ Return(c, "panic")
  /\ ReleaseSlot
  /\ UNCHANGED <<history, turn, context, cancelled, pastVars>>

(* Variant: the reply goes out before the pair is remembered.              *)
ChatAnswersFirst(c) ==
  /\ Go(c, "chatting", "replying")
  /\ Return(c, "answer")
  /\ ReleaseSlot
  /\ UNCHANGED <<history, turn, context, cancelled, pastVars>>

ChatAnswers(c) ==
  /\ Go(c, "chatting", "answered")
  /\ UNCHANGED <<history, sem, turn, context, outcome, cancelled, pastVars>>

SaveContext(c) ==
  /\ Go(c, "answered", "appended")
  /\ history' = [history EXCEPT ![SessionKey(c)] = AppendPair(@, Current(c))]
  /\ answered' = [answered EXCEPT ![c] = Append(@, Current(c))]
  /\ UNCHANGED <<sem, turn, context, outcome, cancelled, table, sent>>

(* InsertMessage, whose error is logged and dropped, and Handle's return.  *)
InsertMessage(c) ==
  /\ Go(c, "appended", "replying")
  /\ table' = Append(table, Current(c)) \/ table' = table
  /\ Return(c, "answer")
  /\ ReleaseSlot
  /\ UNCHANGED <<history, turn, context, cancelled, answered, sent>>

(* handleTextTask sends what Handle returned.                              *)
SendReply(c) ==
  /\ Go(c, "replying", "idle")
  /\ sent' = IF outcome[Current(c)] = "answer" THEN sent \cup {Current(c)} ELSE sent
  /\ UNCHANGED <<history, sem, turn, context, outcome, cancelled, table, answered>>

Cancel ==
  /\ ~cancelled
  /\ cancelled' = TRUE
  /\ UNCHANGED <<history, sem, turnVars, pastVars>>

ChatEnds(c) == ChatFails(c) \/ ChatSaysNothing(c) \/ ChatPanics(c) \/ ChatAnswers(c)
Handle(c) ==
  \/ LeakKeyword(c) \/ BuildMessages(c)
  \/ AcquireAtOnce(c) \/ SlotsAllTaken(c) \/ AcquireAfterWait(c)
  \/ WaitGivesUp(c) \/ SaveContext(c) \/ InsertMessage(c) \/ SendReply(c)

(* Every message has been answered or the program is going down.           *)
Quiet ==
  /\ \A c \in Conv : pc[c] = "idle" /\ (cancelled \/ turn[c] = MaxTurns)
  /\ UNCHANGED vars

Next == (\E c \in Conv : Begin(c) \/ Handle(c) \/ ChatEnds(c)) \/ Cancel \/ Quiet

Spec == Init /\ [][Next]_vars

(* The worker goroutines run and SemWait elapses.  FairSpec lets a provider*)
(* call hang; FairCalls says that it obeys its context's deadline.         *)
FairSpec == Spec /\ \A c \in Conv : WF_vars(Handle(c))
FairCalls == \A c \in Conv : WF_vars(ChatEnds(c))
-----------------------------------------------------------------------------
InHandle(c) == pc[c] \in {"chatting", "answered", "appended"}

(* Every slot is held by exactly one turn and given back on every path out *)
(* of Handle (answer, error, empty, panic, gave up), so at most Slots      *)
(* provider calls run at once and none is lost for ever.                   *)
SlotsAccountedFor ==
  /\ sem = Cardinality({c \in Conv : InHandle(c)})
  /\ sem <= Slots

(* A conversation's memory is the most recent answered turns of that very  *)
(* conversation, no more than the cap: notices and silences are never in   *)
(* it, and no turn of another room or sender ever is.                      *)
LastPairs(s) == SubSeq(s, IF Len(s) > PairCap THEN Len(s) - PairCap + 1 ELSE 1, Len(s))
MemoryIsRecentAnswers ==
  \A c \in Conv :
    /\ history[SessionKey(c)] = LastPairs(answered[c])
    /\ \A t \in ToSet(answered[c]) \ {Current(c)} : outcome[t] = "answer"

(* What the provider was shown is still the conversation's memory when its *)
(* answer is remembered, however long the wait for a slot and the call     *)
(* took: no turn's answer is built on a context that lacks an earlier pair.*)
ContextStillCurrent ==
  \A c \in Conv : pc[c] \in {"acquire", "waiting", "chatting", "answered"} =>
    context[c] = history[SessionKey(c)]

(* The handler's bookkeeping: slots, memories and contexts, with the types.*)
MemoryIsTrue ==
  TypeOK /\ SlotsAccountedFor /\ MemoryIsRecentAnswers /\ ContextStillCurrent

(* The table and the user hear of an answer only once the conversation     *)
(* remembers it: a turn has at most one row, in its conversation's order,  *)
(* and each answer sent was remembered, and its insert tried, first.       *)
MemoryComesFirst ==
  /\ \A i, j \in DOMAIN table :
       i < j /\ table[i][1] = table[j][1] => table[i][2] < table[j][2]
  /\ \A t \in ToSet(table) : t \in ToSet(answered[t[1]])
  /\ \A t \in sent : t \in ToSet(answered[t[1]]) /\ outcome[t] = "answer"

(* No turn starves for a slot: whatever the others do, even with every     *)
(* slot held by a hung call, a waiting turn gets one or gives up.  When    *)
(* calls end, every turn does, and leaves its worker free.                 *)
TurnsEnd ==
  /\ \A c \in Conv : pc[c] = "waiting" ~> pc[c] \in {"chatting", "idle"}
  /\ FairCalls => \A c \in Conv : pc[c] # "idle" ~> pc[c] = "idle"
=============================================================================
