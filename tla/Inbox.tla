--------------------------------- MODULE Inbox ---------------------------------
(***************************************************************************)
(* How messages reach the bot, over restarts of its process, and the       *)
(* commands that play no game.  The client asks Telegram for updates, with *)
(* an offset it keeps in memory only; Telegram forgets what lies below the *)
(* offset and answers with the rest, again and again.  The client puts     *)
(* each update into the bot's inbox, from which handleInbox takes them.    *)
(* What games make of messages is in Lobby.                                *)
(*                                                                         *)
(* Time runs in ticks, several to the second: Telegram dates a message in  *)
(* whole seconds, startedAt is exact.  The calls of cmdScore to the store  *)
(* and to b.out may each take a while, in which handleInbox does nothing   *)
(* else.  The client's workers empty b.out; of what is put into it, the    *)
(* scores and the broadcasts are recorded.                                 *)
(***************************************************************************)
EXTENDS Integers, Sequences

CONSTANTS
  Chat,          \* the groups, all of which the store names
  StoreFaults,   \* BOOLEAN: a call to the store may fail
  Second,        \* ticks to the second
  CmdRateDelay,  \* ticks before a group's next /score is served
  Batch,         \* how many updates Telegram answers with at most
  InboxCap,      \* telegramInBufferSize
  MaxUpdates, MaxTime, MaxRuns   \* bounds

ASSUME InboxAssumption ==
  /\ StoreFaults \in BOOLEAN
  /\ Second \in Nat \ {0} /\ CmdRateDelay \in Nat
  /\ Batch \in Nat \ {0} /\ InboxCap \in Nat \ {0}
  /\ MaxUpdates \in Nat /\ MaxTime \in Nat /\ MaxRuns \in Nat

\* What handleInbox tells apart: a group's /score, the administrator's /broadcast,
\* and the rest, which Lobby's games take, the administrator gets an answer to or
\* nobody minds.  An update without a message is one of, say, an edited message.
Update(Time) ==
  [kind : {"score"}, chat : Chat, date : Time]
    \cup [kind : {"broadcast", "rest", "edit"}, date : Time]

\* Where cmdScore is: not running, to be told the configuration of the group or, for
\* a request that was let through when it was asked, its ranking.
Serving(Time) ==
  [step : {"none"}]
    \cup [step : {"config"}, to : Chat]
    \cup [step : {"ranking"}, to : Chat, asked : Time]

Idle == [step |-> "none"]

VARIABLES
  now,
  sent,            \* Telegram's updates, by their ID: of what kind, when
  confirmed,       \* Telegram has forgotten the updates up to this one
  running, runs,   \* is there a process, and how many there were
  startedAt, endedAt,
  lastUpdate,      \* the client's
  fetched,         \* the updates of an answer still to be put into the inbox
  inbox,           \* b.in
  lastCmdRequest,  \* when a group's last /score was served
  casts,           \* running broadcasts: by update, the channels still to come
  serving,         \* the /score that handleInbox is in
  (* History *)
  handled,         \* the updates handled, in that order, by whichever process
  scores,          \* the scores put into b.out: [to, asked, at, by], let through
                   \* when and put there when
  casted           \* and how often each channel got each broadcast

clock == <<now, endedAt>>
telegram == <<sent, confirmed>>
process == <<running, runs, startedAt>>
client == <<lastUpdate, fetched>>
memory == <<lastCmdRequest, casts, serving>>
posted == <<scores, casted>>
vars == <<clock, telegram, process, client, inbox, memory, handled, posted>>

Init ==
  /\ now = 0 /\ sent = <<>> /\ confirmed = 0
  /\ running = FALSE /\ runs = 0 /\ startedAt = 0 /\ endedAt = -1
  /\ lastUpdate = 0 /\ fetched = <<>> /\ inbox = <<>>
  /\ lastCmdRequest = <<>> /\ casts = <<>> /\ serving = Idle
  /\ handled = <<>> /\ scores = <<>> /\ casted = [x \in (1..MaxUpdates) \X Chat |-> 0]

\* Telegram's date of a message: whole seconds.
Date(time) == time - (time % Second)

Message(u) == sent[u].kind # "edit"

-----------------------------------------------------------------------------
(* Telegram and the clock *)

Tick ==
  /\ now < MaxTime
  /\ now' = now + 1
  /\ UNCHANGED <<endedAt, telegram, process, client, inbox, memory,
                 handled, posted>>

Send(update) ==
  /\ Len(sent) < MaxUpdates
  /\ sent' = Append(sent, update)
  /\ UNCHANGED <<clock, confirmed, process, client, inbox, memory,
                 handled, posted>>

-----------------------------------------------------------------------------
(* The process *)

Start ==
  /\ ~running /\ runs < MaxRuns /\ now > endedAt
  /\ running' = TRUE /\ runs' = runs + 1 /\ startedAt' = now
  /\ UNCHANGED <<clock, telegram, client, inbox, memory, handled, posted>>

\* A signal, a fatal error or a crash: what is in memory is gone.
Exit ==
  /\ running
  /\ running' = FALSE /\ endedAt' = now
  /\ lastUpdate' = 0 /\ fetched' = <<>> /\ inbox' = <<>>
  /\ lastCmdRequest' = <<>> /\ casts' = <<>> /\ serving' = Idle
  /\ UNCHANGED <<now, telegram, runs, startedAt, handled, posted>>

-----------------------------------------------------------------------------
(* The client *)

\* Faulty: the offset is lastUpdate itself.
AnswerFrom(last) ==
  [i \in 1..(IF Len(sent) - last < Batch THEN Len(sent) - last ELSE Batch) |-> last + i - 1]

\* The updates an offset of last + 1 is answered with.
Answer(last) ==
  [i \in 1..(IF Len(sent) - last < Batch THEN Len(sent) - last ELSE Batch) |-> last + i]

\* What Telegram has forgotten once it is asked for what follows lastUpdate.
Forgotten == IF confirmed < lastUpdate THEN lastUpdate ELSE confirmed

\* getUpdates.  The answer may be lost, or an error.
Poll ==
  /\ running /\ fetched = <<>>
  /\ confirmed' = Forgotten
  /\ fetched' = Answer(confirmed')
  /\ UNCHANGED <<clock, sent, process, lastUpdate, inbox, memory,
                 handled, posted>>

PollFails ==
  /\ running /\ fetched = <<>>
  /\ confirmed' = Forgotten
  /\ UNCHANGED <<clock, sent, process, client, inbox, memory, handled, posted>>

\* Faulty: the first update that has no message ends the answer.
PassOverAll ==
  /\ fetched # <<>> /\ ~Message(Head(fetched))
  /\ fetched' = <<>>
  /\ UNCHANGED <<clock, telegram, process, lastUpdate, inbox, memory,
                 handled, posted>>

\* An update that has no message is passed over, and lastUpdate stays.
PassOver ==
  /\ fetched # <<>> /\ ~Message(Head(fetched))
  /\ fetched' = Tail(fetched)
  /\ UNCHANGED <<clock, telegram, process, lastUpdate, inbox, memory,
                 handled, posted>>

\* Faulty: what finds the inbox full is lost.
ReceiveOrLose ==
  /\ fetched # <<>> /\ Message(Head(fetched))
  /\ lastUpdate' = Head(fetched)
  /\ fetched' = Tail(fetched)
  /\ inbox' = IF Len(inbox) < InboxCap THEN Append(inbox, Head(fetched)) ELSE inbox
  /\ UNCHANGED <<clock, telegram, process, memory, handled, posted>>

\* Handle waits for room in the inbox.
Receive ==
  /\ fetched # <<>> /\ Message(Head(fetched))
  /\ Len(inbox) < InboxCap
  /\ lastUpdate' = Head(fetched)
  /\ fetched' = Tail(fetched)
  /\ inbox' = Append(inbox, Head(fetched))
  /\ UNCHANGED <<clock, telegram, process, memory, handled, posted>>

-----------------------------------------------------------------------------
(* handleInbox *)

Current == Head(inbox)
Asker == sent[Current].chat

\* Faulty: the date is compared with the second in which the process started.
TakeSinceSecond(kind) ==
  /\ serving = Idle
  /\ inbox # <<>> /\ sent[Current].kind = kind
  /\ sent[Current].date >= Date(startedAt)
  /\ inbox' = Tail(inbox)
  /\ handled' = Append(handled, Current)
  /\ UNCHANGED <<clock, telegram, process, client>>

\* The message is taken and is not from before the process started.
Take(kind) ==
  /\ serving = Idle
  /\ inbox # <<>> /\ sent[Current].kind = kind
  /\ sent[Current].date >= startedAt
  /\ inbox' = Tail(inbox)
  /\ handled' = Append(handled, Current)
  /\ UNCHANGED <<clock, telegram, process, client>>

Ignore ==
  /\ serving = Idle
  /\ inbox # <<>> /\ sent[Current].date < startedAt
  /\ inbox' = Tail(inbox)
  /\ UNCHANGED <<clock, telegram, process, client, memory, handled, posted>>

Rest == Take("rest") /\ UNCHANGED <<memory, posted>>

\* rateLimited, which counts a request before it is known to succeed.
RateLimited(ch) ==
  ch \in DOMAIN lastCmdRequest /\ now < lastCmdRequest[ch] + CmdRateDelay

CountRequest(ch) ==
  lastCmdRequest' = [c \in DOMAIN lastCmdRequest \cup {ch} |->
                       IF c = ch THEN now ELSE lastCmdRequest[c]]

\* cmdScore asks for the configuration first ...
TakeScore ==
  /\ Take("score")
  /\ serving' = [step |-> "config", to |-> Asker]
  /\ UNCHANGED <<lastCmdRequest, casts, posted>>

\* The store has answered.
Served(step) ==
  /\ serving.step = step
  /\ UNCHANGED <<clock, telegram, process, client, inbox, casts, handled, casted>>

\* ... which no program writes; it may say that the group is disabled, and the group
\* is not if it cannot be read.
ScoreDisabled ==
  /\ Served("config")
  /\ serving' = Idle /\ UNCHANGED <<lastCmdRequest, scores>>

ScoreLimited ==
  /\ Served("config") /\ RateLimited(serving.to)
  /\ serving' = Idle /\ UNCHANGED <<lastCmdRequest, scores>>

AskRanking == serving' = [step |-> "ranking", to |-> serving.to, asked |-> now]

\* Faulty: the delay is counted from the first request on.
ScoreFromFirst ==
  /\ Served("config") /\ ~RateLimited(serving.to)
  /\ IF serving.to \in DOMAIN lastCmdRequest THEN UNCHANGED lastCmdRequest
                                             ELSE CountRequest(serving.to)
  /\ AskRanking /\ UNCHANGED scores

\* The request is let through, counted, and the ranking asked for ...
Score ==
  /\ Served("config") /\ ~RateLimited(serving.to)
  /\ CountRequest(serving.to)
  /\ AskRanking /\ UNCHANGED scores

\* ... and the scores are posted when the store has given it and b.out has room.
PostScore ==
  /\ Served("ranking")
  /\ scores' = Append(scores,
       [to |-> serving.to, asked |-> serving.asked, at |-> now, by |-> runs])
  /\ serving' = Idle /\ UNCHANGED lastCmdRequest

ScoreFails ==
  /\ StoreFaults /\ Served("ranking")
  /\ serving' = Idle /\ UNCHANGED <<lastCmdRequest, scores>>

\* cmdBroadcast starts a goroutine, with no channels if the store fails.
StartCast(channels) ==
  /\ casts' = [u \in DOMAIN casts \cup {Current} |->
                 IF u = Current THEN channels ELSE casts[u]]
  /\ UNCHANGED <<lastCmdRequest, serving, posted>>

Broadcast ==
  /\ Take("broadcast")
  /\ StartCast(Chat) \/ (StoreFaults /\ StartCast({}))

\* Faulty: a channel that had the text stays in the map while others are to come.
CastToAll(u, ch) ==
  /\ u \in DOMAIN casts /\ casts[u] # {} /\ ch \in Chat
  /\ casts' = [casts EXCEPT ![u] = @ \ {ch}]
  /\ casted' = [casted EXCEPT ![<<u, ch>>] = @ + 1]
  /\ UNCHANGED <<clock, telegram, process, client, inbox, lastCmdRequest, serving,
                 handled, scores>>

\* Faulty: the goroutine ends after its first text.
CastOnce(u, ch) ==
  /\ u \in DOMAIN casts /\ ch \in casts[u]
  /\ casts' = [casts EXCEPT ![u] = {}]
  /\ casted' = [casted EXCEPT ![<<u, ch>>] = @ + 1]
  /\ UNCHANGED <<clock, telegram, process, client, inbox, lastCmdRequest, serving,
                 handled, scores>>

\* The goroutine's next text; it goes round the map in any order.
Cast(u, ch) ==
  /\ u \in DOMAIN casts /\ ch \in casts[u]
  /\ casts' = [casts EXCEPT ![u] = @ \ {ch}]
  /\ casted' = [casted EXCEPT ![<<u, ch>>] = @ + 1]
  /\ UNCHANGED <<clock, telegram, process, client, inbox, lastCmdRequest, serving,
                 handled, scores>>

HandleInbox ==
  \/ Ignore \/ Rest
  \/ TakeScore \/ ScoreDisabled \/ ScoreLimited \/ Score \/ PostScore \/ ScoreFails
  \/ Broadcast

Pool == Poll \/ PassOver \/ Receive

Next ==
  \/ Tick
  \/ \E update \in Update({Date(now)}) : Send(update)
  \/ Start \/ Exit
  \/ Pool \/ PollFails
  \/ HandleInbox
  \/ \E u \in 1..MaxUpdates, ch \in Chat : Cast(u, ch)

Spec == Init /\ [][Next]_vars

\* The goroutines of the client, of handleInbox and of each broadcast run on;
\* requests to Telegram do not fail for ever.
Fairness ==
  /\ WF_vars(Pool) /\ WF_vars(HandleInbox)
  /\ \A u \in 1..MaxUpdates : WF_vars(\E ch \in Chat : Cast(u, ch))

FairSpec == Spec /\ Fairness

-----------------------------------------------------------------------------
(* Properties *)

Ids == 1..Len(sent)
Handled == {handled[i] : i \in DOMAIN handled}
Pending == {inbox[i] : i \in DOMAIN inbox}

TypeOK ==
  /\ now \in Nat /\ startedAt \in 0..now /\ endedAt \in -1..now
  /\ sent \in Seq(Update(0..now))
  /\ confirmed \in 0..Len(sent) /\ lastUpdate \in 0..Len(sent)
  /\ running \in BOOLEAN /\ runs \in Nat
  /\ fetched \in Seq(Ids) /\ inbox \in Seq(Ids) /\ handled \in Seq(Ids)
  /\ DOMAIN lastCmdRequest \subseteq Chat
  /\ \A ch \in DOMAIN lastCmdRequest : lastCmdRequest[ch] \in 0..now
  /\ serving \in Serving(0..now)
  /\ casted \in [(1..MaxUpdates) \X Chat -> Nat]
  /\ DOMAIN casts \subseteq Ids /\ \A u \in DOMAIN casts : casts[u] \subseteq Chat

\* No message is handled twice or after a later one, though a process that ends
\* forgets what it has handled and Telegram sends it again to the next: the date
\* of a message, cut to the second, tells the next one that it is not its own.
HandledInOrder ==
  \A i, j \in DOMAIN handled : i < j => handled[i] < handled[j]

\* Of the messages sent since the process started, a full second of grace aside,
\* each up to lastUpdate was handled or waits in the inbox: asking Telegram to
\* forget them loses none.
NothingSkipped ==
  \A u \in Ids :
    running /\ u <= lastUpdate /\ Message(u) /\ sent[u].date >= startedAt
      => u \in Handled \cup Pending

SameGroup(i, j) == scores[i].to = scores[j].to /\ scores[i].by = scores[j].by

\* A process gives a group its scores no sooner than cmdRateDelay after the request
\* for its last ones was let through, whatever it could not answer in between.  The
\* delay is looked at before the store and b.out are waited for: a slow answer may
\* come closer to the next than the delay, but no three come within one, as
\* handleInbox looks at no request while it answers another.
ScoresApart ==
  /\ \A i, j \in DOMAIN scores :
       i < j /\ SameGroup(i, j) => scores[j].at >= scores[i].asked + CmdRateDelay
  /\ \A i, j, k \in DOMAIN scores :
       i < j /\ j < k /\ SameGroup(i, j) /\ SameGroup(j, k)
         => scores[k].at >= scores[i].at + CmdRateDelay

\* A channel gets a broadcast once at most, also when the process ended in the
\* middle of it and the next one sees the administrator's command again.
BroadcastOnce == \A u \in 1..MaxUpdates, ch \in Chat : casted[<<u, ch>>] <= 1

\* A full answer of updates without a message: the client asks for it for ever.
Deaf ==
  /\ Len(sent) >= Forgotten + Batch
  /\ \A u \in (Forgotten + 1)..(Forgotten + Batch) : ~Message(u)

\* Each message sent to a process, a second after its start, is handled unless
\* the process ends or is deaf.
EventuallyHandled ==
  \A u \in 1..MaxUpdates :
    (/\ running /\ u \in Ids
     /\ Message(u) /\ sent[u].date >= startedAt)
      ~> (u \in Handled \/ ~running \/ Deaf)

\* A broadcast for which the store named the channels reaches all of them unless the
\* process ends first.
BroadcastsEnd ==
  \A u \in 1..MaxUpdates :
    (u \in DOMAIN casts /\ casts[u] = Chat)
      ~> (~running \/ \A ch \in Chat : casted[<<u, ch>>] > 0)
=============================================================================
