------------------------------ MODULE Telegram ------------------------------
(***************************************************************************)
(* The commands of notifications/telegram.notifier.ts: long polling of the *)
(* bot's updates with an offset, the drain of those that waited when the   *)
(* process started, and what the server forgets when it is asked.          *)
(*                                                                         *)
(* The updates are commands of the bot's own chat: one of another chat, or *)
(* of another kind, moves the offset and has no handler.  They are         *)
(* numbered as they arrive.  A session is one life of the process.         *)
(***************************************************************************)
EXTENDS Naturals, Sequences

CONSTANTS
  MaxUpdates,  \* bound: commands sent
  MaxSessions  \* bound: starts of the process

ASSUME TelegramAssumption == MaxUpdates \in Nat /\ MaxSessions \in Nat

VARIABLES
  sent,       \* the last update
  forgotten,  \* the server has dropped the updates up to this one
  session,    \* which start of the process this is
  pc,         \* where the listener stands
  offset,     \* this.offset
  request,    \* where the request is: none, on its way, or answered
  answer,     \* the updates the server has answered with
  timerSet,   \* this.pollTimer is not null
  handled,    \* the updates each session has handled, in order
  waiting,    \* the last update when each session drained
  undrained   \* the sessions whose drain failed

telegramVars == <<sent, forgotten, session, pc, offset, request, answer, timerSet,
                  handled, waiting, undrained>>
listener == <<session, pc, offset, request, answer, timerSet>>
record == <<handled, waiting, undrained>>

Updates == 1..MaxUpdates
Sessions == 1..MaxSessions

TelegramTypeOK ==
  /\ sent \in 0..MaxUpdates /\ forgotten \in 0..MaxUpdates
  /\ session \in 0..MaxSessions
  /\ pc \in {"down", "draining", "waiting", "polling", "handling", "silent"}
  /\ offset \in 0..MaxUpdates + 1
  /\ request \in {"none", "sent", "served"}
  /\ answer \in Seq(Updates)
  /\ timerSet \in BOOLEAN
  /\ handled \in [Sessions -> Seq(Updates)]
  /\ waiting \in [Sessions -> 0..MaxUpdates]
  /\ undrained \in SUBSET Sessions

TelegramInit ==
  /\ sent = 0 /\ forgotten = 0
  /\ session = 0 /\ pc = "down" /\ offset = 0
  /\ request = "none" /\ answer = <<>> /\ timerSet = FALSE
  /\ handled = [k \in Sessions |-> <<>>]
  /\ waiting = [k \in Sessions |-> 0]
  /\ undrained = {}

-----------------------------------------------------------------------------
(* The server *)

UserSends ==
  /\ sent < MaxUpdates
  /\ sent' = sent + 1
  /\ UNCHANGED <<forgotten, listener, record>>

Later(x, y) == IF x > y THEN x ELSE y
Pending(from) == [i \in 1..(sent - from) |-> from + i]

\* getUpdates with offset -1 forgets all updates but the last; with another
\* offset, those before it.  It answers with what is left.
Serve ==
  /\ pc \in {"draining", "polling"} /\ request = "sent"
  /\ request' = "served"
  /\ forgotten' = Later(forgotten, IF pc = "draining" THEN Later(sent, 1) - 1
                                   ELSE Later(offset, 1) - 1)
  /\ answer' = Pending(forgotten')
  /\ pc = "polling" => answer' # <<>>
  /\ waiting' = IF pc = "draining" THEN [waiting EXCEPT ![session] = sent] ELSE waiting
  /\ UNCHANGED <<sent, session, pc, offset, timerSet, handled, undrained>>

-----------------------------------------------------------------------------
(* The listener *)

\* startListening of a new process.
StartListening ==
  /\ pc = "down"
  /\ session < MaxSessions
  /\ session' = session + 1
  /\ pc' = "draining" /\ request' = "sent"
  /\ waiting' = [waiting EXCEPT ![session + 1] = sent]
  /\ UNCHANGED <<sent, forgotten, offset, answer, timerSet, handled, undrained>>

\* The polls start, from the offset the drain has left.
StartPolls ==
  /\ pc' = "waiting" /\ timerSet' = TRUE
  /\ request' = "none" /\ answer' = <<>>

\* A drain that leaves the last update to be polled.
KeepsLast == offset' = answer[Len(answer)]

SkipsAll == offset' = answer[Len(answer)] + 1

Drained ==
  /\ pc = "draining" /\ request = "served"
  /\ IF answer = <<>> THEN offset' = offset ELSE SkipsAll
  /\ StartPolls
  /\ UNCHANGED <<sent, forgotten, session, record>>

\* The request or its answer is lost, or the answer is an error: the polls
\* start all the same.
DrainFails ==
  /\ pc = "draining"
  /\ undrained' = undrained \cup {session}
  /\ StartPolls
  /\ UNCHANGED <<sent, forgotten, session, offset, handled, waiting>>

PollTimer ==
  /\ pc = "waiting"
  /\ pc' = "polling" /\ request' = "sent"
  /\ UNCHANGED <<sent, forgotten, session, offset, answer, timerSet, record>>

\* pollOnce ends, with all of its answer handled or without one: finally sets
\* the timer again, also after stopListening has cleared it.
NextPoll ==
  /\ pc' = "waiting" /\ timerSet' = TRUE
  /\ request' = "none" /\ answer' = <<>>
  /\ UNCHANGED <<sent, forgotten, session, offset, record>>

PollAnswers ==
  /\ pc = "polling" /\ request = "served"
  /\ pc' = "handling"
  /\ request' = "none"
  /\ UNCHANGED <<sent, forgotten, session, offset, answer, timerSet, record>>

\* A failed poll after which none is set up.
PollBreaks ==
  /\ pc = "polling"
  /\ request' = "none" /\ answer' = <<>>
  /\ UNCHANGED <<sent, forgotten, session, pc, offset, timerSet, record>>

\* The request or its answer is lost or an error, or 30 s pass without an
\* update.
PollFails == pc = "polling" /\ NextPoll

\* The offset is past an update before its handler runs.
HandleUpdate ==
  /\ pc = "handling" /\ answer # <<>>
  /\ offset' = Head(answer) + 1
  /\ handled' = [handled EXCEPT ![session] = Append(handled[session], Head(answer))]
  /\ answer' = Tail(answer)
  /\ UNCHANGED <<sent, forgotten, session, pc, request, timerSet, waiting, undrained>>

PollDone == pc = "handling" /\ answer = <<>> /\ NextPoll

\* It clears the pending timer; a poll under way goes on, and sets the next.
StopListening ==
  /\ timerSet
  /\ timerSet' = FALSE
  /\ pc' = IF pc = "waiting" THEN "silent" ELSE pc
  /\ UNCHANGED <<sent, forgotten, session, offset, request, answer, record>>

\* The process ends, as it does after /stop, or dies: a new one starts with
\* the offset 0.
ProcessEnds ==
  /\ pc # "down"
  /\ pc' = "down" /\ offset' = 0 /\ timerSet' = FALSE
  /\ request' = "none" /\ answer' = <<>>
  /\ UNCHANGED <<sent, forgotten, session, record>>

TelegramNext ==
  \/ UserSends \/ Serve
  \/ StartListening \/ Drained \/ DrainFails
  \/ PollTimer \/ PollAnswers \/ PollFails \/ HandleUpdate \/ PollDone
  \/ StopListening \/ ProcessEnds

TelegramSpec == TelegramInit /\ [][TelegramNext]_telegramVars

\* Timers fire, requests end, and polls that are always repeated are answered
\* sometimes: the network is not down for good.
TelegramFairness ==
  /\ WF_telegramVars(Drained \/ DrainFails)
  /\ WF_telegramVars(PollTimer)
  /\ WF_telegramVars(PollAnswers \/ PollFails)
  /\ WF_telegramVars(HandleUpdate \/ PollDone)
  /\ SF_telegramVars(Serve)
  /\ SF_telegramVars(PollAnswers)

-----------------------------------------------------------------------------
(* Properties *)

Handled(k) == {handled[k][i] : i \in 1..Len(handled[k])}

\* A command is handled once: in order and never twice in one session, and
\* one that waited when a session started, as the /stop that ended the session
\* before it and was not confirmed any more, is not handled in it, unless the
\* drain has failed (103-132).
CommandOnce == \A k \in Sessions :
  /\ \A i, j \in 1..Len(handled[k]) : i < j => handled[k][i] < handled[k][j]
  /\ k \notin undrained => \A u \in Handled(k) : u > waiting[k]

\* A command sent to a listening bot is handled, whatever polls fail, unless
\* the bot is stopped or ends first.
CommandHandled == \A u \in Updates :
  (/\ session > 0 /\ pc \in {"waiting", "polling"}
   /\ waiting[session] < u /\ u <= sent)
    ~> (pc \in {"down", "silent"} \/ u \in Handled(session))
=============================================================================
