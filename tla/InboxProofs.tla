----------------------------- MODULE InboxProofs -----------------------------
(***************************************************************************)
(* What holds of Inbox for every number of updates and processes, all      *)
(* delays and any precision of the clock.                                  *)
(***************************************************************************)
EXTENDS Inbox, TLAPS

\* Sent before the process started.
Old(u) == ~(sent[u].date >= startedAt)

\* Telegram's list, in the order of time.
Dates ==
  /\ \A u \in Ids : sent[u].date \in 0..Date(now)
  /\ \A u, v \in Ids : u <= v => sent[u].date <= sent[v].date

\* Without a process there is nothing on the way, and what was handled or
\* confirmed is from before the last one's end.
Down ==
  ~running =>
    /\ inbox = <<>> /\ fetched = <<>> /\ lastUpdate = 0
    /\ \A u \in Ids : u <= confirmed \/ u \in Handled => sent[u].date <= endedAt

\* What is on the way lies behind what the process has handled; what others have
\* handled is old.
OnTheWay ==
  /\ \A k \in DOMAIN fetched : fetched[k] = fetched[1] + k - 1
  /\ fetched # <<>> => lastUpdate < fetched[1]
  /\ \A k \in DOMAIN inbox : inbox[k] <= lastUpdate
  /\ \A k, l \in DOMAIN inbox : k < l => inbox[k] < inbox[l]
  /\ running => \A u \in Handled :
       Old(u) \/ (u <= lastUpdate /\ \A k \in DOMAIN inbox : u < inbox[k])

\* What is neither on the way nor to be asked for again is old or no message.
Accounted ==
  running => \A u \in Ids :
    /\ u <= confirmed => u <= lastUpdate \/ Old(u)
    /\ fetched # <<>> /\ lastUpdate < u /\ u < fetched[1] => Old(u) \/ ~Message(u)

\* A group's last request is not older than that of its last scores, and each was let
\* through when the one before had long been answered.
Requests ==
  /\ \A i \in DOMAIN scores :
       /\ scores[i].by <= runs /\ scores[i].asked <= scores[i].at /\ scores[i].at <= now
       /\ running /\ scores[i].by = runs =>
            /\ scores[i].to \in DOMAIN lastCmdRequest
            /\ scores[i].asked <= lastCmdRequest[scores[i].to]
  /\ \A i, j \in DOMAIN scores :
       i < j /\ SameGroup(i, j) =>
         /\ scores[j].asked >= scores[i].asked + CmdRateDelay
         /\ scores[j].asked >= scores[i].at

\* And so was the request that is being answered.
InProgress ==
  /\ ~running => serving = Idle
  /\ serving.step = "ranking" =>
       /\ serving.asked <= now
       /\ serving.to \in DOMAIN lastCmdRequest /\ lastCmdRequest[serving.to] = serving.asked
       /\ \A i \in DOMAIN scores :
            scores[i].to = serving.to /\ scores[i].by = runs =>
              /\ serving.asked >= scores[i].asked + CmdRateDelay
              /\ serving.asked >= scores[i].at

\* What a channel is still to get, it has not got.
Casting ==
  \A u \in 1..MaxUpdates, ch \in Chat :
    /\ casted[<<u, ch>>] > 0 \/ u \in DOMAIN casts => u \in Handled
    /\ u \in DOMAIN casts /\ ch \in casts[u] => casted[<<u, ch>>] = 0

Types ==
  /\ now \in Nat /\ startedAt \in 0..now /\ endedAt \in -1..now
  /\ sent \in Seq(Update(Nat)) /\ Len(sent) <= MaxUpdates
  /\ confirmed \in 0..Len(sent) /\ lastUpdate \in 0..Len(sent)
  /\ running \in BOOLEAN /\ runs \in Nat
  /\ fetched \in Seq(Ids) /\ inbox \in Seq(Ids) /\ handled \in Seq(Ids)

Answered == [to : Chat, asked : Nat, at : Nat, by : Nat]

MemoryTypes ==
  /\ DOMAIN lastCmdRequest \subseteq Chat
  /\ \A ch \in DOMAIN lastCmdRequest : lastCmdRequest[ch] \in 0..now
  /\ scores \in Seq(Answered) /\ serving \in Serving(Nat)
  /\ casted \in [(1..MaxUpdates) \X Chat -> Nat]
  /\ DOMAIN casts \subseteq Ids /\ \A u \in DOMAIN casts : casts[u] \subseteq Chat

Delivery == Types /\ Dates /\ Down /\ OnTheWay /\ Accounted

Commands == MemoryTypes /\ Requests /\ InProgress /\ Casting

(***************************************************************************)
(* Delivery.                                                               *)
(***************************************************************************)

LEMMA DatesGrow ==
  ASSUME NEW m \in Nat, NEW n \in Nat, m <= n
  PROVE  Date(m) \in 0..m /\ Date(m) <= Date(n)
<1>1. Second \in Nat /\ Second > 0
  BY InboxAssumption
<1>2. PICK p \in Nat, r \in 0..(Second - 1) : m = p * Second + r /\ r = m % Second
  <2>1. m = (m \div Second) * Second + (m % Second)
    BY <1>1
  <2>2. m \div Second \in Nat /\ m % Second \in 0..(Second - 1)
    BY <1>1
  <2> QED BY <2>1, <2>2
<1>3. PICK q \in Nat, s \in 0..(Second - 1) : n = q * Second + s /\ s = n % Second
  <2>1. n = (n \div Second) * Second + (n % Second)
    BY <1>1
  <2>2. n \div Second \in Nat /\ n % Second \in 0..(Second - 1)
    BY <1>1
  <2> QED BY <2>1, <2>2
<1>4. Date(m) = p * Second /\ Date(n) = q * Second
  BY <1>1, <1>2, <1>3 DEF Date
<1>5. p <= q
  BY <1>1, <1>2, <1>3
<1> QED BY <1>1, <1>2, <1>4, <1>5

\* What handleInbox does to the delivery of messages.
Taken ==
  /\ inbox # <<>> /\ ~Old(Head(inbox))
  /\ inbox' = Tail(inbox) /\ handled' = Append(handled, Head(inbox))
  /\ UNCHANGED <<clock, telegram, process, client>>

Untouched == UNCHANGED <<clock, telegram, process, client, inbox, handled>>

LEMMA DeliveryFirst == Init => Delivery
<1> SUFFICES ASSUME Init PROVE Delivery
  OBVIOUS
<1>1. Ids = {} /\ Handled = {}
  BY DEF Init, Ids, Handled
<1>2. /\ now = 0 /\ startedAt = 0 /\ endedAt = -1 /\ running = FALSE /\ runs = 0
      /\ sent = <<>> /\ confirmed = 0 /\ lastUpdate = 0
      /\ fetched = <<>> /\ inbox = <<>> /\ handled = <<>>
  BY DEF Init
<1>3. sent \in Seq(Update(Nat)) /\ Len(sent) = 0
  BY <1>2
<1>4. fetched \in Seq(Ids) /\ inbox \in Seq(Ids) /\ handled \in Seq(Ids)
  BY <1>2
<1>5. Types
  <2>1. running \in BOOLEAN
    BY <1>2
  <2>2. /\ now \in Nat /\ startedAt \in 0..now /\ endedAt \in -1..now /\ runs \in Nat
        /\ confirmed \in 0..Len(sent) /\ lastUpdate \in 0..Len(sent)
        /\ Len(sent) <= MaxUpdates
    BY <1>2, <1>3, InboxAssumption
  <2> QED BY <1>3, <1>4, <2>1, <2>2 DEF Types
<1> QED BY <1>1, <1>2, <1>5 DEF Delivery, Dates, Down, OnTheWay, Accounted

\* The first of the inbox goes to the handled.
LEMMA TakenMoves ==
  ASSUME Types, Taken
  PROVE  /\ Head(inbox) \in Ids /\ Ids' = Ids
         /\ inbox' \in Seq(Ids) /\ handled' \in Seq(Ids)
         /\ Handled' = Handled \cup {Head(inbox)}
         /\ Pending = Pending' \cup {Head(inbox)}
         /\ 1 \in DOMAIN inbox /\ Head(inbox) = inbox[1]
         /\ \A k \in DOMAIN inbox' : k + 1 \in DOMAIN inbox /\ inbox'[k] = inbox[k + 1]
<1>1. /\ Len(inbox) \in Nat \ {0} /\ inbox' \in Seq(Ids) /\ Len(inbox') = Len(inbox) - 1
      /\ Head(inbox) = inbox[1]
      /\ \A k \in 1..Len(inbox') : inbox'[k] = inbox[k + 1]
      /\ DOMAIN inbox = 1..Len(inbox) /\ DOMAIN inbox' = 1..Len(inbox')
  BY DEF Types, Taken
<1>2. /\ Head(inbox) \in Ids /\ Ids' = Ids
  BY <1>1 DEF Types, Taken, Ids, telegram
<1>3. /\ handled' \in Seq(Ids) /\ DOMAIN handled' = 1..(Len(handled) + 1)
      /\ DOMAIN handled = 1..Len(handled) /\ Len(handled) \in Nat
      /\ handled'[Len(handled) + 1] = Head(inbox)
      /\ \A i \in 1..Len(handled) : handled'[i] = handled[i]
  BY <1>2 DEF Types, Taken
<1>4. Handled' = Handled \cup {Head(inbox)}
  <2>1. ASSUME NEW u \in Handled' PROVE u \in Handled \cup {Head(inbox)}
    <3>1. PICK i \in 1..(Len(handled) + 1) : u = handled'[i]
      BY <1>3, <2>1 DEF Handled
    <3> QED BY <1>3, <3>1 DEF Handled
  <2>2. ASSUME NEW u \in Handled PROVE u \in Handled'
    <3>1. PICK i \in 1..Len(handled) : u = handled[i]
      BY <1>3, <2>2 DEF Handled
    <3>2. i \in DOMAIN handled' /\ u = handled'[i]
      BY <1>3, <3>1
    <3> QED BY <3>2 DEF Handled
  <2>3. Head(inbox) \in Handled'
    BY <1>3 DEF Handled
  <2> QED BY <2>1, <2>2, <2>3
<1>5. Pending = Pending' \cup {Head(inbox)}
  <2>1. ASSUME NEW u \in Pending PROVE u \in Pending' \cup {Head(inbox)}
    <3>1. PICK k \in 1..Len(inbox) : u = inbox[k]
      BY <1>1, <2>1 DEF Pending
    <3>2. CASE k = 1
      BY <1>1, <3>1, <3>2
    <3>3. CASE k # 1
      <4>1. k - 1 \in DOMAIN inbox' /\ u = inbox'[k - 1]
        BY <1>1, <3>1, <3>3
      <4> QED BY <4>1 DEF Pending
    <3> QED BY <3>2, <3>3
  <2>2. ASSUME NEW u \in Pending' PROVE u \in Pending
    <3>1. PICK k \in 1..Len(inbox') : u = inbox'[k]
      BY <1>1, <2>2 DEF Pending
    <3>2. k + 1 \in DOMAIN inbox /\ u = inbox[k + 1]
      BY <1>1, <3>1
    <3> QED BY <3>2 DEF Pending
  <2>3. Head(inbox) \in Pending
    BY <1>1 DEF Pending
  <2> QED BY <2>1, <2>2, <2>3
<1> QED BY <1>1, <1>2, <1>3, <1>4, <1>5

\* Which of its steps touch the delivery of messages, and how.
LEMMA StepsOfDelivery ==
  ASSUME [Next]_vars
  PROVE  \/ Untouched \/ Tick \/ (\E update \in Update({Date(now)}) : Send(update))
         \/ Start \/ Exit \/ Poll \/ PollFails \/ PassOver \/ Receive \/ Ignore \/ Taken
<1>1. \A kind : Take(kind) => Taken
  BY DEF Take, Taken, Current, Old
<1>2. HandleInbox => Ignore \/ Taken \/ Untouched
  <2>1. \A step : Served(step) => Untouched
    BY DEF Served, Untouched
  <2> QED BY <1>1, <2>1 DEF HandleInbox, Rest, TakeScore, ScoreDisabled, ScoreLimited, Score,
                            PostScore, ScoreFails, Broadcast
<1>3. \A u, ch : Cast(u, ch) => Untouched
  BY DEF Cast, Untouched
<1>4. UNCHANGED vars => Untouched
  BY DEF vars, Untouched
<1> QED BY <1>2, <1>3, <1>4 DEF Next, Pool

LEMMA DeliveryNext == Delivery /\ [Next]_vars => Delivery'
<1> SUFFICES ASSUME Delivery, [Next]_vars PROVE Delivery'
  OBVIOUS
<1> USE InboxAssumption DEF Delivery
<1>0. DOMAIN inbox = 1..Len(inbox) /\ DOMAIN fetched = 1..Len(fetched)
      /\ Len(inbox) \in Nat /\ Len(fetched) \in Nat /\ Len(sent) \in Nat
      /\ Handled \subseteq Ids /\ Ids \subseteq Nat
  BY DEF Types, Handled, Ids
<1>1. CASE Untouched
  <2>1. /\ Ids' = Ids /\ Handled' = Handled
        /\ \A u : (Old(u)' <=> Old(u)) /\ (Message(u)' <=> Message(u))
        /\ UNCHANGED <<now, endedAt, sent, confirmed, running, runs, startedAt,
                       lastUpdate, fetched, inbox, handled>>
    BY <1>1 DEF Untouched, clock, telegram, process, client, Ids, Handled, Old, Message
  <2>2. Types' /\ Dates'
    BY <2>1 DEF Types, Dates
  <2>3. OnTheWay' /\ Accounted'
    BY <2>1 DEF OnTheWay, Accounted
  <2>4. Down'
    BY <2>1 DEF Down
  <2> QED BY <2>2, <2>3, <2>4
<1>2. CASE Tick
  <2>1. /\ Ids' = Ids /\ Handled' = Handled
        /\ \A u : (Old(u)' <=> Old(u)) /\ (Message(u)' <=> Message(u))
        /\ UNCHANGED <<endedAt, sent, confirmed, running, runs, startedAt,
                       lastUpdate, fetched, inbox, handled>>
        /\ now' = now + 1
    BY <1>2 DEF Tick, telegram, process, client, Ids, Handled, Old, Message
  <2>2. now \in Nat /\ now' \in Nat /\ now <= now'
    BY <2>1 DEF Types
  <2>3. Types'
    BY <2>1 DEF Types
  <2>4. Dates'
    <3>1. Date(now) \in 0..now /\ Date(now') \in 0..now' /\ Date(now) <= Date(now')
      BY <2>2, DatesGrow
    <3> QED BY <2>1, <2>2, <3>1 DEF Dates, Types
  <2>5. OnTheWay' /\ Accounted'
    BY <2>1 DEF OnTheWay, Accounted
  <2>6. Down'
    BY <2>1 DEF Down
  <2> QED BY <2>3, <2>4, <2>5, <2>6
<1>3. ASSUME NEW update \in Update({Date(now)}), Send(update) PROVE Delivery'
  <2>1. update \in Update(Nat) /\ update.date = Date(now) /\ Date(now) \in Nat
    <3>1. now \in Nat /\ now <= now
      BY DEF Types
    <3>2. Date(now) \in 0..now
      BY <3>1, DatesGrow
    <3> QED BY <3>1, <3>2 DEF Update
  <2>2. /\ sent' \in Seq(Update(Nat)) /\ Len(sent') = Len(sent) + 1
        /\ sent'[Len(sent) + 1] = update
        /\ \A u \in Ids : u \in Ids' /\ sent'[u] = sent[u]
        /\ \A u \in Ids' : u \in Ids \/ u = Len(sent) + 1
        /\ UNCHANGED <<now, endedAt, confirmed, running, runs, startedAt,
                       lastUpdate, fetched, inbox, handled>>
    <3>1. sent' = Append(sent, update) /\ sent \in Seq(Update(Nat))
      BY <1>3 DEF Send, Types
    <3>2. /\ sent' \in Seq(Update(Nat)) /\ Len(sent') = Len(sent) + 1
          /\ sent'[Len(sent) + 1] = update
          /\ \A u \in 1..Len(sent) : sent'[u] = sent[u]
      BY <2>1, <3>1
    <3>3. /\ \A u \in Ids : u \in Ids' /\ sent'[u] = sent[u]
          /\ \A u \in Ids' : u \in Ids \/ u = Len(sent) + 1
      BY <1>0, <3>2 DEF Ids
    <3>4. UNCHANGED <<now, endedAt, confirmed, running, runs, startedAt,
                       lastUpdate, fetched, inbox, handled>>
      BY <1>3 DEF Send, clock, process, client
    <3> QED BY <3>2, <3>3, <3>4
  <2>3. Types'
    <3>1. /\ fetched \in Seq(Ids') /\ inbox \in Seq(Ids') /\ handled \in Seq(Ids')
      BY <2>2 DEF Types
    <3> QED BY <1>3, <2>2, <3>1 DEF Types, Send
  <2>4. Dates'
    BY <2>1, <2>2, <1>0 DEF Dates, Ids
  <2>5. /\ \A u \in Ids : (Old(u)' <=> Old(u)) /\ (Message(u)' <=> Message(u))
        /\ Handled' = Handled
    BY <2>2 DEF Old, Message, Handled
  <2>6. OnTheWay'
    BY <1>0, <2>2, <2>5 DEF OnTheWay
  <2>7. Accounted'
    <3>1. /\ confirmed \in Nat /\ confirmed <= Len(sent)
          /\ fetched # <<>> => fetched[1] \in 1..Len(sent)
      BY <1>0 DEF Types, Ids
    <3>2. ASSUME NEW u \in Ids', running'
          PROVE  /\ u <= confirmed => u <= lastUpdate \/ Old(u)'
                 /\ fetched # <<>> /\ lastUpdate < u /\ u < fetched[1]
                      => Old(u)' \/ ~Message(u)'
      <4>1. CASE u \in Ids
        BY <2>2, <2>5, <3>2, <4>1 DEF Accounted
      <4>2. CASE u = Len(sent) + 1
        BY <1>0, <3>1, <4>2
      <4> QED BY <2>2, <4>1, <4>2
    <3> QED BY <2>2, <3>2 DEF Accounted
  <2>8. Down'
    <3>1. ASSUME ~running, NEW u \in Ids', u <= confirmed \/ u \in Handled
          PROVE  sent'[u] = sent[u] /\ sent[u].date <= endedAt
      <4>1. u \in Ids
        BY <1>0, <2>2, <3>1 DEF Types, Ids
      <4> QED BY <2>2, <3>1, <4>1 DEF Down
    <3> QED BY <2>2, <2>5, <3>1 DEF Down
  <2> QED BY <2>3, <2>4, <2>6, <2>7, <2>8
<1>4. CASE Start
  <2>1. /\ Ids' = Ids /\ Handled' = Handled
        /\ \A u : Message(u)' <=> Message(u)
        /\ UNCHANGED <<now, endedAt, sent, confirmed,
                       lastUpdate, fetched, inbox, handled>>
        /\ ~running /\ running' = TRUE /\ runs' = runs + 1 /\ startedAt' = now
        /\ now > endedAt
    BY <1>4 DEF Start, clock, telegram, client, Ids, Handled, Message
  <2>2. Types' /\ Dates'
    BY <2>1 DEF Types, Dates
  <2>3. /\ inbox = <<>> /\ fetched = <<>> /\ lastUpdate = 0
        /\ \A u \in Ids : u <= confirmed \/ u \in Handled => Old(u)'
    BY <1>0, <2>1 DEF Down, Old, Dates, Types
  <2>4. OnTheWay' /\ Accounted' /\ Down'
    BY <1>0, <2>1, <2>3 DEF OnTheWay, Accounted, Down
  <2> QED BY <2>2, <2>4
<1>5. CASE Exit
  <2>1. /\ Ids' = Ids /\ Handled' = Handled
        /\ UNCHANGED <<now, sent, confirmed, runs, startedAt, handled>>
        /\ running' = FALSE /\ endedAt' = now /\ lastUpdate' = 0
        /\ fetched' = <<>> /\ inbox' = <<>>
    BY <1>5 DEF Exit, telegram, Ids, Handled
  <2>2. Types' /\ Dates'
    <3>1. /\ fetched' \in Seq(Ids') /\ inbox' \in Seq(Ids')
      BY <2>1
    <3>2. endedAt' \in -1..now' /\ lastUpdate' \in 0..Len(sent')
      BY <1>0, <2>1 DEF Types
    <3>3. running' \in BOOLEAN
      BY <2>1
    <3> QED BY <2>1, <3>1, <3>2, <3>3 DEF Types, Dates
  <2>3. \A u \in Ids : sent[u].date <= now
    <3>1. now \in Nat /\ now <= now
      BY DEF Types
    <3>2. Date(now) \in 0..now
      BY <3>1, DatesGrow
    <3> QED BY <3>1, <3>2 DEF Dates
  <2>4. Down' /\ OnTheWay' /\ Accounted'
    BY <2>1, <2>3 DEF Down, OnTheWay, Accounted
  <2> QED BY <2>2, <2>4
<1>6. CASE Poll \/ PollFails
  <2>1. /\ Ids' = Ids /\ Handled' = Handled
        /\ \A u : (Old(u)' <=> Old(u)) /\ (Message(u)' <=> Message(u))
        /\ UNCHANGED <<now, endedAt, sent, running, runs, startedAt,
                       lastUpdate, inbox, handled>>
        /\ running /\ confirmed' = Forgotten /\ fetched' \in {fetched, Answer(Forgotten)}
        /\ fetched = <<>>
    BY <1>6 DEF Poll, PollFails, clock, process, client, Ids, Handled, Old, Message
  <2>2. /\ Forgotten \in 0..Len(sent)
        /\ lastUpdate <= Forgotten /\ Forgotten \in {lastUpdate, confirmed}
    BY DEF Forgotten, Types
  <2>3. /\ fetched' \in Seq(Ids)
        /\ \A k \in DOMAIN fetched' : fetched'[k] = Forgotten + k
        /\ fetched' # <<>> => 1 \in DOMAIN fetched'
    <3>1. CASE fetched' = fetched
      BY <2>1, <3>1
    <3>2. CASE fetched' = Answer(Forgotten)
      <4> DEFINE n == IF Len(sent) - Forgotten < Batch THEN Len(sent) - Forgotten ELSE Batch
      <4>1. n \in Nat /\ Forgotten + n <= Len(sent) /\ Forgotten \in Nat
        BY <1>0, <2>2
      <4>2. fetched' = [k \in 1..n |-> Forgotten + k]
        BY <3>2 DEF Answer
      <4> HIDE DEF n
      <4>3. \A k \in 1..n : Forgotten + k \in Ids
        BY <4>1, <1>0 DEF Ids
      <4> QED BY <4>1, <4>2, <4>3
    <3> QED BY <2>1, <3>1, <3>2
  <2>4. Types' /\ Dates' /\ Down'
    BY <2>1, <2>2, <2>3 DEF Types, Dates, Down
  <2>5. OnTheWay'
    BY <1>0, <2>1, <2>2, <2>3 DEF OnTheWay, Types
  <2>6. Accounted'
    BY <1>0, <2>1, <2>2, <2>3 DEF Accounted, Types
  <2> QED BY <2>4, <2>5, <2>6
<1>7. CASE PassOver \/ Receive
  <2>1. /\ Ids' = Ids /\ Handled' = Handled
        /\ \A u : (Old(u)' <=> Old(u)) /\ (Message(u)' <=> Message(u))
        /\ UNCHANGED <<now, endedAt, sent, confirmed, running, runs, startedAt, handled>>
        /\ fetched # <<>> /\ fetched' = Tail(fetched)
    BY <1>7 DEF PassOver, Receive, clock, telegram, process, Ids, Handled, Old, Message
  <2>2. /\ running /\ Head(fetched) = fetched[1] /\ fetched[1] \in Ids
        /\ fetched' \in Seq(Ids)
        /\ \A k \in DOMAIN fetched' : k \in Nat \ {0} /\ fetched'[k] = fetched[1] + k
        /\ \A k \in DOMAIN fetched' : fetched'[1] = fetched[1] + 1
        /\ fetched' # <<>> => fetched'[1] = fetched[1] + 1
        /\ lastUpdate < fetched[1]
    <3>1. running /\ lastUpdate < fetched[1]
      BY <2>1 DEF Down, OnTheWay, Types
    <3>2. /\ Len(fetched) > 0 /\ Head(fetched) = fetched[1] /\ fetched[1] \in Ids
          /\ fetched' \in Seq(Ids) /\ DOMAIN fetched' = 1..(Len(fetched) - 1)
          /\ \A k \in 1..(Len(fetched) - 1) : fetched'[k] = fetched[k + 1]
      BY <1>0, <2>1 DEF Types
    <3>3. \A k \in DOMAIN fetched' : k \in Nat \ {0} /\ fetched'[k] = fetched[1] + k
      BY <1>0, <3>2 DEF OnTheWay
    <3>4. fetched' # <<>> => 1 \in DOMAIN fetched'
      BY <3>2
    <3> QED BY <3>1, <3>2, <3>3, <3>4
  <2>0. fetched[1] \in Nat /\ lastUpdate \in Nat /\ \A k \in DOMAIN inbox : inbox[k] \in Nat
    <3>1. fetched[1] \in 1..Len(sent) /\ inbox \in Seq(1..Len(sent)) /\ lastUpdate \in 0..Len(sent)
      BY <2>2 DEF Ids, Types
    <3>2. \A k \in DOMAIN inbox : inbox[k] \in 1..Len(sent)
      BY <3>1
    <3> QED BY <1>0, <3>1, <3>2
  <2>3. ASSUME NEW k \in DOMAIN fetched' PROVE fetched'[k] = fetched'[1] + k - 1
    <3>1. fetched'[k] = fetched[1] + k /\ fetched'[1] = fetched[1] + 1 /\ k \in Nat
      BY <2>2
    <3> QED BY <2>0, <3>1
  <2>4. CASE PassOver
    <3>1. ~Message(fetched[1]) /\ UNCHANGED <<lastUpdate, inbox>>
      BY <2>2, <2>4 DEF PassOver
    <3>2. Types' /\ Dates' /\ Down'
      BY <2>1, <2>2, <3>1 DEF Types, Dates, Down
    <3>3. OnTheWay'
      <4>1. fetched' # <<>> => lastUpdate' < fetched'[1]
        BY <2>0, <2>2, <3>1
      <4> QED BY <2>1, <2>3, <3>1, <4>1 DEF OnTheWay
    <3>4. Accounted'
      <4>1. ASSUME NEW u \in Ids, fetched' # <<>>, lastUpdate < u, u < fetched'[1]
            PROVE  Old(u) \/ ~Message(u)
        <5>1. u < fetched[1] \/ u = fetched[1]
          <6>1. fetched'[1] = fetched[1] + 1 /\ u \in Nat
            BY <1>0, <2>2, <4>1
          <6> QED BY <2>0, <4>1, <6>1
        <5> QED BY <2>1, <2>2, <3>1, <4>1, <5>1 DEF Accounted
      <4> QED BY <2>1, <3>1, <4>1 DEF Accounted
    <3> QED BY <3>2, <3>3, <3>4
  <2>5. CASE Receive
    <3>1. lastUpdate' = fetched[1] /\ inbox' = Append(inbox, fetched[1])
      BY <2>2, <2>5 DEF Receive
    <3>2. inbox \in Seq(Ids) /\ fetched[1] \in Ids
      BY <2>2 DEF Types
    <3>3. /\ inbox' \in Seq(Ids) /\ DOMAIN inbox' = 1..(Len(inbox) + 1)
          /\ inbox'[Len(inbox) + 1] = fetched[1]
          /\ \A k \in 1..Len(inbox) : inbox'[k] = inbox[k]
      BY <3>1, <3>2
    <3>5. Types' /\ Dates' /\ Down'
      BY <1>0, <2>1, <2>2, <3>1, <3>3 DEF Types, Dates, Down, Ids
    <3>6. /\ \A k \in DOMAIN inbox : inbox[k] < fetched[1]
          /\ lastUpdate \in Nat /\ fetched[1] \in Nat
      <4>1. \A k \in DOMAIN inbox : inbox[k] <= lastUpdate
        BY DEF OnTheWay
      <4> QED BY <2>0, <2>2, <4>1
    <3>7. OnTheWay'
      <4>1. ASSUME NEW k \in DOMAIN inbox' PROVE inbox'[k] <= lastUpdate'
        BY <1>0, <3>1, <3>3, <2>0, <3>6
      <4>2. ASSUME NEW k \in DOMAIN inbox', NEW l \in DOMAIN inbox', k < l
            PROVE  inbox'[k] < inbox'[l]
        <5>1. k \in DOMAIN inbox /\ inbox'[k] = inbox[k]
          BY <1>0, <3>3, <4>2
        <5>2. CASE l = Len(inbox) + 1
          BY <3>3, <3>6, <5>1, <5>2
        <5>3. CASE l # Len(inbox) + 1
          <6>1. l \in DOMAIN inbox /\ inbox'[l] = inbox[l]
            BY <1>0, <3>3, <5>3
          <6> QED BY <4>2, <5>1, <6>1 DEF OnTheWay
        <5> QED BY <5>2, <5>3
      <4>3. ASSUME NEW u \in Handled, ~Old(u)
            PROVE  u <= fetched[1] /\ \A k \in DOMAIN inbox' : u < inbox'[k]
        <5>1. u \in Nat /\ u <= lastUpdate /\ \A k \in DOMAIN inbox : u < inbox[k]
          BY <1>0, <2>2, <4>3 DEF OnTheWay
        <5>2. u <= fetched[1]
          BY <2>0, <2>2, <5>1
        <5>3. ASSUME NEW k \in DOMAIN inbox' PROVE u < inbox'[k]
          <6>1. CASE k = Len(inbox) + 1
            <7>1. u < fetched[1]
              BY <2>0, <2>2, <5>1
            <7> QED BY <3>3, <6>1, <7>1
          <6>2. CASE k # Len(inbox) + 1
            <7>1. k \in DOMAIN inbox /\ inbox'[k] = inbox[k]
              BY <1>0, <3>3, <6>2
            <7> QED BY <5>1, <7>1
          <6> QED BY <6>1, <6>2
        <5> QED BY <5>2, <5>3
      <4>4. fetched' # <<>> => lastUpdate' < fetched'[1]
        BY <2>2, <3>1, <3>6
      <4> QED BY <2>1, <2>3, <3>1, <4>1, <4>2, <4>3, <4>4 DEF OnTheWay
    <3>8. Accounted'
      <4>1. ASSUME NEW u \in Ids, u <= confirmed PROVE u <= fetched[1] \/ Old(u)
        <5>1. u \in Nat /\ (u <= lastUpdate \/ Old(u))
          BY <1>0, <2>2, <4>1 DEF Accounted
        <5> QED BY <2>2, <3>6, <5>1
      <4>2. ASSUME NEW u \in Ids, fetched' # <<>>, fetched[1] < u, u < fetched'[1]
            PROVE  FALSE
        BY <1>0, <2>2, <3>6, <4>2
      <4> QED BY <2>1, <3>1, <4>1, <4>2 DEF Accounted
    <3> QED BY <3>5, <3>7, <3>8
  <2> QED BY <1>7, <2>4, <2>5
<1>8. CASE Ignore
  <2>1. /\ Ids' = Ids /\ Handled' = Handled
        /\ \A u : (Old(u)' <=> Old(u)) /\ (Message(u)' <=> Message(u))
        /\ UNCHANGED <<now, endedAt, sent, confirmed, running, runs, startedAt,
                       lastUpdate, fetched, handled>>
        /\ inbox # <<>> /\ inbox' = Tail(inbox)
    BY <1>8 DEF Ignore, clock, telegram, process, client, Ids, Handled, Old, Message
  <2>2. /\ inbox' \in Seq(Ids) /\ DOMAIN inbox' = 1..(Len(inbox) - 1)
        /\ \A k \in 1..(Len(inbox) - 1) : k + 1 \in DOMAIN inbox /\ inbox'[k] = inbox[k + 1]
    BY <1>0, <2>1 DEF Types
  <2>3. Types' /\ Dates' /\ Accounted'
    BY <2>1, <2>2 DEF Types, Dates, Accounted
  <2>4. Down'
    BY <2>1 DEF Down, Types
  <2>5. OnTheWay'
    BY <1>0, <2>1, <2>2 DEF OnTheWay
  <2> QED BY <2>3, <2>4, <2>5
<1>9. CASE Taken
  <2>1. /\ Head(inbox) \in Ids /\ Ids' = Ids
        /\ inbox' \in Seq(Ids) /\ handled' \in Seq(Ids)
        /\ Handled' = Handled \cup {Head(inbox)}
        /\ 1 \in DOMAIN inbox /\ Head(inbox) = inbox[1]
        /\ \A k \in DOMAIN inbox' : k + 1 \in DOMAIN inbox /\ inbox'[k] = inbox[k + 1]
                                    /\ k \in Nat \ {0}
    <3>1. inbox' \in Seq(Ids) => \A k \in DOMAIN inbox' : k \in Nat \ {0}
      OBVIOUS
    <3> QED BY <1>9, <3>1, TakenMoves
  <2>2. /\ \A u : (Old(u)' <=> Old(u)) /\ (Message(u)' <=> Message(u))
        /\ UNCHANGED <<now, endedAt, sent, confirmed, running, runs, startedAt,
                       lastUpdate, fetched>>
        /\ inbox # <<>>
    BY <1>9 DEF Taken, clock, telegram, process, client, Old, Message
  <2>3. running
    BY <2>2 DEF Down, Types
  <2>4. Types' /\ Dates' /\ Down' /\ Accounted'
    BY <2>1, <2>2, <2>3 DEF Types, Dates, Down, Accounted
  <2>5. OnTheWay'
    <3>0. \A k, l \in DOMAIN inbox : k < l => inbox[k] < inbox[l]
      BY DEF OnTheWay
    <3>1. ASSUME NEW k \in DOMAIN inbox' PROVE Head(inbox) < inbox'[k]
      <4>1. k + 1 \in DOMAIN inbox /\ 1 \in DOMAIN inbox /\ 1 < k + 1
        BY <2>1
      <4>2. inbox[1] < inbox[k + 1]
        BY <3>0, <4>1
      <4> QED BY <2>1, <4>2
    <3>2. Head(inbox) <= lastUpdate
      BY <2>1 DEF OnTheWay
    <3>3. \A u \in Handled' :
            Old(u)' \/ (u <= lastUpdate' /\ \A k \in DOMAIN inbox' : u < inbox'[k])
      BY <2>1, <2>2, <2>3, <3>1, <3>2 DEF OnTheWay
    <3>4. /\ \A k \in DOMAIN inbox' : inbox'[k] <= lastUpdate'
          /\ \A k, l \in DOMAIN inbox' : k < l => inbox'[k] < inbox'[l]
      BY <1>0, <2>1, <2>2 DEF OnTheWay
    <3> QED BY <2>2, <3>3, <3>4 DEF OnTheWay
  <2> QED BY <2>4, <2>5
<1> QED BY <1>1, <1>2, <1>3, <1>4, <1>5, <1>6, <1>7, <1>8, <1>9, StepsOfDelivery

(***************************************************************************)
(* Theorems on delivery.                                                   *)
(***************************************************************************)

\* Every update on its way is later than all that were handled.
LEMMA LaterThanHandled ==
  ASSUME Delivery, Taken
  PROVE  \A u \in Handled : u < Head(inbox)
<1>1. /\ Head(inbox) \in Ids /\ 1 \in DOMAIN inbox /\ Head(inbox) = inbox[1]
      /\ ~Old(Head(inbox))
  BY TakenMoves DEF Delivery, Taken
<1>2. running
  BY DEF Taken, Delivery, Down, Types
<1>3. Ids \subseteq Nat /\ Handled \subseteq Ids
  BY DEF Delivery, Types, Ids, Handled
<1>4. ASSUME NEW u \in Handled PROVE u < Head(inbox)
  <2>1. CASE ~Old(u)
    BY <1>1, <1>2, <2>1 DEF Delivery, OnTheWay
  <2>2. CASE Old(u)
    <3>1. SUFFICES ASSUME ~(u < Head(inbox)) PROVE FALSE
      OBVIOUS
    <3>2. u \in Ids /\ Head(inbox) \in Ids /\ Head(inbox) <= u
      <4>1. u \in 1..Len(sent) /\ Head(inbox) \in 1..Len(sent)
        BY <1>1, <1>3 DEF Ids
      <4>2. Len(sent) \in Nat
        BY DEF Delivery, Types
      <4> QED BY <1>1, <1>3, <3>1, <4>1, <4>2
    <3>3. /\ sent[Head(inbox)].date <= sent[u].date
          /\ sent[u].date \in Int /\ sent[Head(inbox)].date \in Int /\ startedAt \in Int
      <4>1. now \in Nat /\ now <= now /\ startedAt \in Int
        BY DEF Delivery, Types
      <4>2. Date(now) \in 0..now
        BY <4>1, DatesGrow
      <4> QED BY <3>2, <4>1, <4>2 DEF Delivery, Dates
    <3> QED BY <1>1, <2>2, <3>3 DEF Old
  <2> QED BY <2>1, <2>2
<1> QED BY <1>4

LEMMA InOrderNext ==
  HandledInOrder /\ Delivery /\ [Next]_vars => HandledInOrder'
<1> SUFFICES ASSUME HandledInOrder, Delivery, [Next]_vars PROVE HandledInOrder'
  OBVIOUS
<1>1. CASE UNCHANGED handled
  BY <1>1 DEF HandledInOrder
<1>2. CASE Taken
  <2>1. handled \in Seq(Ids) /\ Head(inbox) \in Ids /\ handled' = Append(handled, Head(inbox))
    BY <1>2, TakenMoves DEF Delivery, Types, Taken
  <2>2. /\ DOMAIN handled = 1..Len(handled) /\ Len(handled) \in Nat
        /\ DOMAIN handled' = 1..(Len(handled) + 1)
        /\ handled'[Len(handled) + 1] = Head(inbox)
        /\ \A i \in 1..Len(handled) : handled'[i] = handled[i]
    BY <2>1
  <2>3. \A i \in DOMAIN handled : handled[i] < Head(inbox)
    BY <1>2, LaterThanHandled DEF Handled
  <2>4. ASSUME NEW i \in DOMAIN handled', NEW j \in DOMAIN handled', i < j
        PROVE  handled'[i] < handled'[j]
    <3>1. i \in DOMAIN handled /\ handled'[i] = handled[i]
      BY <2>2, <2>4
    <3>2. CASE j = Len(handled) + 1
      BY <2>2, <2>3, <3>1, <3>2
    <3>3. CASE j # Len(handled) + 1
      <4>1. j \in DOMAIN handled /\ handled'[j] = handled[j]
        BY <2>2, <3>3
      <4> QED BY <2>4, <3>1, <4>1 DEF HandledInOrder
    <3> QED BY <3>2, <3>3
  <2> QED BY <2>4 DEF HandledInOrder
<1>3. UNCHANGED handled \/ Taken
  BY StepsOfDelivery DEF Untouched, Tick, Send, Start, Exit, Poll, PollFails,
                         PassOver, Receive, Ignore
<1> QED BY <1>1, <1>2, <1>3

LEMMA DeliveryAlways == Spec => []Delivery
BY DeliveryFirst, DeliveryNext, PTL DEF Spec

\* Messages are handled once and in the order in which they were sent, however
\* often the process ends and another one is told of them again.
THEOREM MessagesAreHandledInOrder == Spec => []HandledInOrder
<1>1. Init => HandledInOrder
  BY DEF Init, HandledInOrder
<1> QED BY <1>1, InOrderNext, DeliveryAlways, PTL DEF Spec

LEMMA NothingSkippedNext ==
  NothingSkipped /\ Delivery /\ [Next]_vars => NothingSkipped'
<1> SUFFICES ASSUME NothingSkipped, Delivery, [Next]_vars,
                    NEW u \in Ids', running', u <= lastUpdate', Message(u)', ~Old(u)'
             PROVE  u \in (Handled \cup Pending)'
  BY DEF NothingSkipped, Old
<1>0. Ids = 1..Len(sent) /\ Len(sent) \in Nat /\ lastUpdate \in 0..Len(sent)
      /\ DOMAIN inbox = 1..Len(inbox) /\ Len(inbox) \in Nat
      /\ inbox \in Seq(Ids) /\ fetched \in Seq(Ids)
  BY DEF Delivery, Types, Ids
<1>1. CASE Untouched \/ Tick \/ Poll \/ PollFails \/ PassOver
  <2>1. UNCHANGED <<sent, running, startedAt, lastUpdate, inbox, handled>>
    BY <1>1 DEF Untouched, Tick, Poll, PollFails, PassOver, clock, telegram, process, client
  <2> QED BY <2>1 DEF NothingSkipped, Ids, Handled, Pending, Message, Old
<1>2. ASSUME NEW update \in Update({Date(now)}), Send(update)
      PROVE  u \in (Handled \cup Pending)'
  <2>1. /\ UNCHANGED <<running, startedAt, lastUpdate, inbox, handled>>
        /\ sent' = Append(sent, update)
    BY <1>2 DEF Send, process, client
  <2>2. u \in Ids /\ sent'[u] = sent[u]
    <3>1. u \in Nat /\ u >= 1 /\ u <= Len(sent)
      BY <1>0, <2>1 DEF Ids
    <3> QED BY <1>0, <2>1, <3>1 DEF Delivery, Types
  <2> QED BY <2>1, <2>2 DEF NothingSkipped, Handled, Pending, Message, Old
<1>3. CASE Start
  <2>1. lastUpdate' = 0
    BY <1>3 DEF Start, client, Delivery, Down
  <2> QED BY <1>0, <1>3, <2>1 DEF Start, telegram, Ids
<1>4. CASE Exit
  BY <1>4 DEF Exit
<1>5. CASE Receive
  <2>1. /\ UNCHANGED <<sent, running, startedAt, handled>>
        /\ fetched # <<>> /\ lastUpdate' = Head(fetched)
        /\ inbox' = Append(inbox, Head(fetched))
    BY <1>5 DEF Receive, telegram, process
  <2>2. /\ Head(fetched) = fetched[1] /\ fetched[1] \in Ids /\ u \in Ids
        /\ Message(u) /\ ~Old(u) /\ running
    BY <1>0, <2>1 DEF Ids, Message, Old
  <2>3. u <= lastUpdate \/ u = fetched[1]
    BY <1>0, <2>1, <2>2 DEF Delivery, Accounted
  <2>4. Handled' = Handled /\ Pending \subseteq Pending' /\ fetched[1] \in Pending'
    <3>1. /\ \A k \in DOMAIN inbox : k \in DOMAIN inbox' /\ inbox'[k] = inbox[k]
          /\ Len(inbox) + 1 \in DOMAIN inbox' /\ inbox'[Len(inbox) + 1] = fetched[1]
      BY <1>0, <2>1, <2>2
    <3> QED BY <2>1, <3>1 DEF Handled, Pending
  <2> QED BY <2>2, <2>3, <2>4 DEF NothingSkipped, Old
<1>6. CASE Ignore
  <2>1. /\ UNCHANGED <<sent, running, startedAt, lastUpdate, handled>>
        /\ inbox # <<>> /\ inbox' = Tail(inbox) /\ sent[Head(inbox)].date < startedAt
    BY <1>6 DEF Ignore, Current, telegram, process, client
  <2>2. u \in Handled \cup Pending
    BY <2>1 DEF NothingSkipped, Ids, Message, Old
  <2>3. CASE u \in Handled
    BY <2>1, <2>3 DEF Handled
  <2>4. CASE u \in Pending
    <3>1. PICK k \in 1..Len(inbox) : u = inbox[k]
      BY <1>0, <2>4 DEF Pending
    <3>2. CASE k = 1
      <4>1. u = Head(inbox) /\ u \in Ids
        BY <1>0, <2>1, <3>1, <3>2
      <4>2. sent[u].date \in Int /\ startedAt \in Int
        <5>1. now \in Nat /\ now <= now /\ startedAt \in Int
          BY DEF Delivery, Types
        <5>2. Date(now) \in 0..now
          BY <5>1, DatesGrow
        <5> QED BY <4>1, <5>1, <5>2 DEF Delivery, Dates
      <4> QED BY <2>1, <4>1, <4>2 DEF Old
    <3>3. CASE k # 1
      <4>1. k - 1 \in DOMAIN inbox' /\ u = inbox'[k - 1]
        BY <1>0, <2>1, <3>1, <3>3
      <4> QED BY <4>1 DEF Pending
    <3> QED BY <3>2, <3>3
  <2> QED BY <2>2, <2>3, <2>4
<1>7. CASE Taken
  <2>1. UNCHANGED <<sent, running, startedAt, lastUpdate>>
    BY <1>7 DEF Taken, telegram, process, client
  <2>2. Handled \cup Pending \subseteq Handled' \cup Pending'
    BY <1>7, TakenMoves DEF Delivery
  <2> QED BY <2>1, <2>2 DEF NothingSkipped, Ids, Message, Old
<1> QED BY <1>1, <1>2, <1>3, <1>4, <1>5, <1>6, <1>7, StepsOfDelivery

\* A running process loses no message that was sent to it, whatever updates
\* without a message are among them.
THEOREM RunningProcessSkipsNothing == Spec => []NothingSkipped
<1>1. Init => NothingSkipped
  BY DEF Init, NothingSkipped
<1> QED BY <1>1, NothingSkippedNext, DeliveryAlways, PTL DEF Spec

(***************************************************************************)
(* Theorems on the commands.                                               *)
(***************************************************************************)

LEMMA CommandsFirst == Init => Commands /\ BroadcastOnce
<1> SUFFICES ASSUME Init PROVE Commands /\ BroadcastOnce
  OBVIOUS
<1>1. /\ lastCmdRequest = <<>> /\ casts = <<>> /\ scores = <<>> /\ serving = Idle
      /\ casted = [x \in (1..MaxUpdates) \X Chat |-> 0]
  BY DEF Init
<1>2. MemoryTypes
  BY <1>1 DEF MemoryTypes, Serving, Idle
<1>3. InProgress
  BY <1>1 DEF InProgress, Idle
<1> QED BY <1>1, <1>2, <1>3 DEF Commands, Requests, Casting, BroadcastOnce

\* Which steps touch the commands, and how.
Unserved == UNCHANGED <<lastCmdRequest, casts, serving, scores, casted>>

\* handleInbox is done with a /score.
Done ==
  /\ serving # Idle /\ serving' = Idle
  /\ UNCHANGED <<lastCmdRequest, casts, scores, casted, process>>

LEMMA StepsOfCommands ==
  ASSUME [Next]_vars
  PROVE  \/ Unserved /\ UNCHANGED process
         \/ Start \/ Exit \/ TakeScore \/ Score \/ PostScore \/ Done \/ Broadcast
         \/ \E u \in 1..MaxUpdates, ch \in Chat : Cast(u, ch)
<1>1. ScoreDisabled \/ ScoreLimited \/ ScoreFails => Done
  BY DEF ScoreDisabled, ScoreLimited, ScoreFails, Served, Done, Idle
<1>2. HandleInbox => (Unserved /\ UNCHANGED process) \/ TakeScore \/ Score \/ PostScore
                      \/ Done \/ Broadcast
  BY <1>1 DEF HandleInbox, Ignore, Rest, Take, Unserved, memory, posted
<1>3. Tick \/ (\E update \in Update({Date(now)}) : Send(update)) \/ Pool \/ PollFails
        => Unserved /\ UNCHANGED process
  BY DEF Tick, Send, Pool, Poll, PassOver, Receive, PollFails, Unserved, memory, posted
<1>4. UNCHANGED vars => Unserved /\ UNCHANGED process
  BY DEF vars, Unserved, memory, posted
<1> QED BY <1>2, <1>3, <1>4 DEF Next

\* Time, the updates and the handled only grow.
LEMMA Growing ==
  ASSUME Delivery, [Next]_vars
  PROVE  now \in Nat /\ now' \in Nat /\ now <= now' /\ Ids \subseteq Ids' /\ Handled \subseteq Handled'
<1>1. now \in Nat /\ now' \in Nat /\ Len(sent) \in Nat
  BY DeliveryNext DEF Delivery, Types
<1>2. UNCHANGED <<sent, handled>> => Ids \subseteq Ids' /\ Handled \subseteq Handled'
  BY DEF Ids, Handled
<1>3. ASSUME NEW update \in Update({Date(now)}), Send(update)
      PROVE  Ids \subseteq Ids' /\ Handled \subseteq Handled' /\ now' = now
  <2>1. Len(sent') = Len(sent) + 1 /\ handled' = handled /\ now' = now
    BY <1>3 DEF Send, Delivery, Types, clock
  <2> QED BY <1>1, <2>1 DEF Ids, Handled
<1>4. Taken => Ids \subseteq Ids' /\ Handled \subseteq Handled' /\ now' = now
  BY TakenMoves DEF Delivery, Taken, clock
<1>5. Tick => UNCHANGED <<sent, handled>> /\ now' = now + 1
  BY DEF Tick, telegram
<1>6. Untouched \/ Start \/ Exit \/ Poll \/ PollFails \/ PassOver \/ Receive \/ Ignore
        => UNCHANGED <<sent, handled, now>>
  BY DEF Untouched, Start, Exit, Poll, PollFails, PassOver, Receive, Ignore, telegram, clock
<1>7. /\ Ids \subseteq Ids' /\ Handled \subseteq Handled'
      /\ now' = now \/ now' = now + 1
  BY <1>2, <1>3, <1>4, <1>5, <1>6, StepsOfDelivery
<1> QED BY <1>1, <1>7

\* The parts of the types that the arithmetic needs.
LEMMA CommandFacts ==
  ASSUME Commands, Delivery
  PROVE  /\ scores \in Seq(Answered)
         /\ DOMAIN scores = 1..Len(scores) /\ Len(scores) \in Nat
         /\ \A i \in DOMAIN scores :
              /\ scores[i].to \in Chat /\ scores[i].by \in Nat
              /\ scores[i].asked \in Nat /\ scores[i].at \in Nat
         /\ serving.step = "config" => serving.to \in Chat
         /\ serving.step = "ranking" => serving.to \in Chat /\ serving.asked \in Nat
         /\ serving # Idle => running
         /\ runs \in Nat /\ now \in Nat /\ CmdRateDelay \in Nat
<1>1. scores \in Seq(Answered) /\ serving \in Serving(Nat)
  BY DEF Commands, MemoryTypes
<1>2. DOMAIN scores = 1..Len(scores) /\ Len(scores) \in Nat
  BY <1>1
<1>3. ASSUME NEW i \in DOMAIN scores
      PROVE  /\ scores[i].to \in Chat /\ scores[i].by \in Nat
             /\ scores[i].asked \in Nat /\ scores[i].at \in Nat
  <2>1. scores[i] \in Answered
    BY <1>1, <1>3
  <2> QED BY <2>1 DEF Answered
<1>4. /\ serving.step = "config" => serving.to \in Chat
      /\ serving.step = "ranking" => serving.to \in Chat /\ serving.asked \in Nat
  BY <1>1 DEF Serving
<1>5. serving # Idle => running
  BY DEF Commands, InProgress, Delivery, Types
<1> QED BY <1>1, <1>2, <1>3, <1>4, <1>5, InboxAssumption DEF Delivery, Types

LEMMA CommandsNext ==
  Commands /\ Delivery /\ HandledInOrder /\ BroadcastOnce /\ [Next]_vars
    => Commands' /\ BroadcastOnce'
<1> SUFFICES ASSUME Commands, Delivery, HandledInOrder, BroadcastOnce, [Next]_vars
             PROVE  Commands' /\ BroadcastOnce'
  OBVIOUS
<1> USE InboxAssumption
<1>0. /\ now \in Nat /\ now' \in Nat /\ now <= now'
      /\ Ids \subseteq Ids' /\ Handled \subseteq Handled' /\ runs \in Nat
      /\ DOMAIN scores = 1..Len(scores) /\ Len(scores) \in Nat
      /\ \A i \in DOMAIN scores :
           /\ scores[i].to \in Chat /\ scores[i].by \in Nat
           /\ scores[i].asked \in Nat /\ scores[i].at \in Nat
      /\ MemoryTypes /\ Requests /\ InProgress /\ Casting
  BY CommandFacts, Growing DEF Commands
<1>1. CASE Unserved /\ UNCHANGED process
  <2>1. UNCHANGED <<lastCmdRequest, casts, serving, scores, casted, running, runs>>
    BY <1>1 DEF Unserved, process
  <2>2. MemoryTypes' /\ Requests'
    BY <1>0, <2>1 DEF MemoryTypes, Requests, SameGroup
  <2>3. InProgress'
    <3>1. serving.step = "ranking" => serving.asked \in Nat
      BY CommandFacts
    <3> QED BY <1>0, <2>1, <3>1 DEF InProgress
  <2> QED BY <1>0, <2>1, <2>2, <2>3 DEF Commands, Casting, BroadcastOnce
<1>2. CASE Start
  <2>1. Unserved /\ runs' = runs + 1 /\ ~running
    BY <1>2 DEF Start, Unserved, memory, posted
  <2>2. serving' = Idle /\ Idle.step # "ranking"
    BY <1>0, <2>1 DEF Unserved, InProgress, Idle
  <2>3. MemoryTypes' /\ Requests' /\ InProgress'
    BY <1>0, <2>1, <2>2 DEF Unserved, MemoryTypes, Requests, SameGroup, InProgress
  <2> QED BY <1>0, <2>1, <2>3 DEF Unserved, Commands, Casting, BroadcastOnce
<1>3. CASE Exit
  <2>1. /\ running' = FALSE /\ runs' = runs /\ lastCmdRequest' = <<>> /\ casts' = <<>>
        /\ serving' = Idle /\ UNCHANGED <<scores, casted>>
    BY <1>3 DEF Exit, posted
  <2>2. serving' \in Serving(Nat) /\ serving'.step # "ranking"
    BY <2>1 DEF Serving, Idle
  <2>3. MemoryTypes' /\ Requests' /\ InProgress'
    BY <1>0, <2>1, <2>2 DEF MemoryTypes, Requests, SameGroup, InProgress
  <2> QED BY <1>0, <2>1, <2>3 DEF Commands, Casting, BroadcastOnce
<1>4. CASE TakeScore
  <2>1. /\ Taken /\ serving' = [step |-> "config", to |-> Asker]
        /\ UNCHANGED <<lastCmdRequest, casts, scores, casted, running, runs, now>>
    BY <1>4 DEF TakeScore, Take, Taken, Current, Old, process, clock, posted
  <2>2. Asker \in Chat
    <3>1. Head(inbox) \in Ids
      BY <2>1, TakenMoves DEF Delivery
    <3>2. sent[Head(inbox)] \in Update(Nat) /\ sent[Head(inbox)].kind = "score"
      BY <1>4, <3>1 DEF TakeScore, Take, Current, Delivery, Types, Ids
    <3> QED BY <3>2 DEF Update, Asker, Current
  <2>3. serving' \in Serving(Nat) /\ serving'.step # "ranking"
    BY <2>1, <2>2 DEF Serving
  <2>4. running
    BY <2>1 DEF Taken, Delivery, Down, Types
  <2>5. MemoryTypes' /\ Requests' /\ InProgress'
    BY <1>0, <2>1, <2>3, <2>4 DEF MemoryTypes, Requests, SameGroup, InProgress
  <2> QED BY <1>0, <2>1, <2>5 DEF Commands, Casting, BroadcastOnce
<1>5. CASE Score
  <2> DEFINE ch == serving.to
  <2>1. /\ serving.step = "config" /\ ~RateLimited(ch) /\ CountRequest(ch)
        /\ serving' = [step |-> "ranking", to |-> ch, asked |-> now]
        /\ UNCHANGED <<scores, casts, casted, running, runs, now>>
    BY <1>5 DEF Score, Served, AskRanking, process, clock
  <2>2. ch \in Chat /\ running
    BY <2>1, CommandFacts DEF Idle
  <2>3. serving' \in Serving(Nat) /\ serving'.to = ch /\ serving'.asked = now
    BY <1>0, <2>1, <2>2 DEF Serving
  <2> HIDE DEF ch
  <2>4. /\ DOMAIN lastCmdRequest' = DOMAIN lastCmdRequest \cup {ch}
        /\ lastCmdRequest'[ch] = now
        /\ \A c \in DOMAIN lastCmdRequest : c # ch => lastCmdRequest'[c] = lastCmdRequest[c]
    BY <2>1 DEF CountRequest
  <2>5. ASSUME NEW i \in DOMAIN scores, scores[i].to = ch, scores[i].by = runs
        PROVE  now >= scores[i].asked + CmdRateDelay /\ now >= scores[i].at
    <3>1. ch \in DOMAIN lastCmdRequest /\ scores[i].asked <= lastCmdRequest[ch]
          /\ scores[i].at <= now
      BY <1>0, <2>2, <2>5 DEF Requests
    <3>2. lastCmdRequest[ch] \in Nat /\ lastCmdRequest[ch] <= now
      BY <1>0, <3>1 DEF MemoryTypes
    <3>3. ~(now < lastCmdRequest[ch] + CmdRateDelay)
      BY <2>1, <3>1 DEF RateLimited
    <3> QED BY <1>0, <3>1, <3>2, <3>3
  <2>6. MemoryTypes'
    BY <1>0, <2>1, <2>2, <2>3, <2>4 DEF MemoryTypes
  <2>7. Requests'
    <3>1. ASSUME NEW i \in DOMAIN scores, scores[i].by = runs
          PROVE  /\ scores[i].to \in DOMAIN lastCmdRequest'
                 /\ scores[i].asked <= lastCmdRequest'[scores[i].to]
      <4>1. /\ scores[i].to \in DOMAIN lastCmdRequest
            /\ scores[i].asked <= lastCmdRequest[scores[i].to]
            /\ scores[i].asked <= now
        BY <1>0, <2>2, <3>1 DEF Requests
      <4> QED BY <2>4, <4>1
    <3> QED BY <1>0, <2>1, <3>1 DEF Requests, SameGroup
  <2>8. InProgress'
    BY <1>0, <2>1, <2>2, <2>3, <2>4, <2>5 DEF InProgress
  <2> QED BY <1>0, <2>1, <2>6, <2>7, <2>8 DEF Commands, Casting, BroadcastOnce
<1>6. CASE PostScore
  <2> DEFINE new == [to |-> serving.to, asked |-> serving.asked, at |-> now, by |-> runs]
             n == Len(scores) + 1
  <2>1. /\ serving.step = "ranking" /\ serving' = Idle /\ scores' = Append(scores, new)
        /\ UNCHANGED <<lastCmdRequest, casts, casted, running, runs, now>>
    BY <1>6 DEF PostScore, Served, process, clock
  <2>2. /\ new \in Answered /\ running
        /\ new.to = serving.to /\ new.asked = serving.asked /\ new.at = now /\ new.by = runs
    BY <1>0, <2>1, CommandFacts DEF Idle, Answered
  <2>3. /\ new.asked <= now /\ new.to \in DOMAIN lastCmdRequest
        /\ lastCmdRequest[new.to] = new.asked /\ new.asked \in Nat
        /\ \A i \in DOMAIN scores :
             scores[i].to = new.to /\ scores[i].by = runs =>
               new.asked >= scores[i].asked + CmdRateDelay /\ new.asked >= scores[i].at
    BY <1>0, <2>1, <2>2, CommandFacts DEF InProgress
  <2> HIDE DEF new
  <2>4. /\ scores' \in Seq(Answered) /\ DOMAIN scores' = 1..n /\ scores'[n] = new
        /\ \A i \in 1..n : i # n => i \in DOMAIN scores /\ scores'[i] = scores[i]
    <3>1. scores \in Seq(Answered)
      BY CommandFacts
    <3> QED BY <1>0, <2>1, <2>2, <3>1
  <2>5. serving' \in Serving(Nat) /\ serving'.step # "ranking"
    BY <2>1 DEF Serving, Idle
  <2>6. MemoryTypes' /\ InProgress'
    BY <1>0, <2>1, <2>4, <2>5 DEF MemoryTypes, InProgress
  <2>7. ASSUME NEW i \in DOMAIN scores'
        PROVE  /\ scores'[i].by <= runs /\ scores'[i].asked <= scores'[i].at
               /\ scores'[i].at <= now
               /\ scores'[i].by = runs =>
                    /\ scores'[i].to \in DOMAIN lastCmdRequest
                    /\ scores'[i].asked <= lastCmdRequest[scores'[i].to]
    <3>1. CASE i = n
      BY <1>0, <2>2, <2>3, <2>4, <3>1
    <3>2. CASE i # n
      BY <1>0, <2>2, <2>4, <3>2 DEF Requests
    <3> QED BY <3>1, <3>2
  <2>8. ASSUME NEW i \in DOMAIN scores', NEW j \in DOMAIN scores', i < j,
               scores'[i].to = scores'[j].to, scores'[i].by = scores'[j].by
        PROVE  /\ scores'[j].asked >= scores'[i].asked + CmdRateDelay
               /\ scores'[j].asked >= scores'[i].at
    <3>1. i \in DOMAIN scores /\ scores'[i] = scores[i]
      BY <1>0, <2>4, <2>8
    <3>2. CASE j = n
      BY <2>2, <2>3, <2>4, <2>8, <3>1, <3>2
    <3>3. CASE j # n
      <4>1. j \in DOMAIN scores /\ scores'[j] = scores[j]
        BY <2>4, <3>3
      <4> QED BY <1>0, <2>8, <3>1, <4>1 DEF Requests, SameGroup
    <3> QED BY <3>2, <3>3
  <2>9. Requests'
    BY <2>1, <2>7, <2>8 DEF Requests, SameGroup
  <2> QED BY <1>0, <2>1, <2>6, <2>9 DEF Commands, Casting, BroadcastOnce
<1>7. CASE Done
  <2>1. /\ serving' = Idle
        /\ UNCHANGED <<lastCmdRequest, casts, scores, casted, running, runs>>
    BY <1>7 DEF Done, process
  <2>2. serving' \in Serving(Nat) /\ serving'.step # "ranking"
    BY <2>1 DEF Serving, Idle
  <2>3. MemoryTypes' /\ Requests' /\ InProgress'
    BY <1>0, <2>1, <2>2 DEF MemoryTypes, Requests, SameGroup, InProgress
  <2> QED BY <1>0, <2>1, <2>3 DEF Commands, Casting, BroadcastOnce
<1>8. CASE Broadcast
  <2>1. PICK channels \in {Chat, {}} : Taken /\ StartCast(channels)
                                       /\ UNCHANGED <<running, runs, now>>
    BY <1>8 DEF Broadcast, Take, Taken, Current, Old, process, clock
  <2> DEFINE new == Head(inbox)
  <2>2. /\ casts' = [u \in DOMAIN casts \cup {new} |->
                       IF u = new THEN channels ELSE casts[u]]
        /\ UNCHANGED <<lastCmdRequest, serving, scores, casted>>
    BY <2>1 DEF StartCast, Current, posted
  <2>3. new \in Ids /\ new \in Handled' /\ new \notin Handled
    <3>1. new \in 1..Len(sent) /\ new \in Handled' /\ Len(sent) \in Nat
      BY <2>1, TakenMoves DEF Delivery, Types, Ids
    <3>2. \A u \in Handled : u < new
      BY <2>1, LaterThanHandled
    <3>3. ~(new < new)
      BY <3>1
    <3> QED BY <3>1, <3>2, <3>3 DEF Ids
  <2>4. MemoryTypes'
    BY <1>0, <2>1, <2>2, <2>3 DEF MemoryTypes
  <2>5. Requests' /\ InProgress' /\ BroadcastOnce'
    BY <1>0, <2>1, <2>2 DEF Requests, SameGroup, InProgress, BroadcastOnce
  <2>6. Casting'
    <3>1. ASSUME NEW u \in 1..MaxUpdates, NEW ch \in Chat
          PROVE  /\ casted[<<u, ch>>] > 0 \/ u \in DOMAIN casts' => u \in Handled'
                 /\ u \in DOMAIN casts' /\ ch \in casts'[u] => casted[<<u, ch>>] = 0
      <4>1. casted[<<u, ch>>] \in Nat
        BY <1>0 DEF MemoryTypes
      <4>2. CASE u = new
        BY <1>0, <2>2, <2>3, <4>1, <4>2 DEF Casting
      <4>3. CASE u # new
        BY <1>0, <2>2, <4>3 DEF Casting
      <4> QED BY <4>2, <4>3
    <3> QED BY <2>2, <3>1 DEF Casting
  <2> QED BY <2>4, <2>5, <2>6 DEF Commands
<1>9. ASSUME NEW u \in 1..MaxUpdates, NEW ch \in Chat, Cast(u, ch)
      PROVE  Commands' /\ BroadcastOnce'
  <2>1. /\ u \in DOMAIN casts /\ ch \in casts[u]
        /\ casts' = [casts EXCEPT ![u] = @ \ {ch}]
        /\ casted' = [casted EXCEPT ![<<u, ch>>] = @ + 1]
        /\ UNCHANGED <<lastCmdRequest, serving, scores, running, runs, now>>
    BY <1>9 DEF Cast, process, clock
  <2>2. casted[<<u, ch>>] = 0 /\ u \in Handled'
    BY <1>0, <2>1 DEF Casting
  <2>3. /\ casted \in [(1..MaxUpdates) \X Chat -> Nat]
        /\ casted' \in [(1..MaxUpdates) \X Chat -> Nat]
        /\ \A x \in (1..MaxUpdates) \X Chat :
             casted'[x] = IF x = <<u, ch>> THEN 1 ELSE casted[x]
    BY <1>0, <2>1, <2>2 DEF MemoryTypes
  <2>4. /\ DOMAIN casts' = DOMAIN casts
        /\ \A v \in DOMAIN casts : casts'[v] = IF v = u THEN casts[v] \ {ch} ELSE casts[v]
    BY <2>1
  <2>5. MemoryTypes'
    <3>1. DOMAIN casts' \subseteq Ids' /\ \A v \in DOMAIN casts' : casts'[v] \subseteq Chat
      BY <1>0, <2>4 DEF MemoryTypes
    <3> QED BY <1>0, <2>1, <2>3, <3>1 DEF MemoryTypes
  <2>6. Requests' /\ InProgress'
    BY <1>0, <2>1 DEF Requests, SameGroup, InProgress
  <2>7. Casting' /\ BroadcastOnce'
    <3>1. ASSUME NEW v \in 1..MaxUpdates, NEW c \in Chat
          PROVE  /\ casted'[<<v, c>>] <= 1
                 /\ casted'[<<v, c>>] > 0 \/ v \in DOMAIN casts' => v \in Handled'
                 /\ v \in DOMAIN casts' /\ c \in casts'[v] => casted'[<<v, c>>] = 0
      <4>1. CASE v = u /\ c = ch
        BY <2>2, <2>3, <2>4, <4>1
      <4>2. CASE ~(v = u /\ c = ch)
        <5>1. casted'[<<v, c>>] = casted[<<v, c>>]
          BY <2>3, <4>2
        <5>2. v \in DOMAIN casts' /\ c \in casts'[v] => v \in DOMAIN casts /\ c \in casts[v]
          BY <2>4
        <5> QED BY <1>0, <2>4, <5>1, <5>2 DEF Casting, BroadcastOnce
      <4> QED BY <4>1, <4>2
    <3> QED BY <3>1 DEF Casting, BroadcastOnce
  <2> QED BY <2>5, <2>6, <2>7 DEF Commands
<1> QED BY <1>1, <1>2, <1>3, <1>4, <1>8, <1>9, <1>5, <1>6, <1>7, StepsOfCommands

\* Each request was let through after the one before was answered, so that the third
\* is the delay away from the first answer.
LEMMA ApartFollows == Commands /\ Delivery => ScoresApart
<1> SUFFICES ASSUME Commands, Delivery PROVE ScoresApart
  OBVIOUS
<1>0. Requests
  BY DEF Commands
<1>1. ASSUME NEW i \in DOMAIN scores, NEW j \in DOMAIN scores, i < j, SameGroup(i, j)
      PROVE  scores[j].at >= scores[i].asked + CmdRateDelay
  <2>1. scores[j].at >= scores[j].asked /\ scores[j].asked >= scores[i].asked + CmdRateDelay
    BY <1>0, <1>1, CommandFacts DEF Requests
  <2>2. scores[j].at \in Nat /\ scores[j].asked \in Nat /\ scores[i].asked \in Nat
        /\ CmdRateDelay \in Nat
    BY <1>1, CommandFacts
  <2> QED BY <2>1, <2>2
<1>2. ASSUME NEW i \in DOMAIN scores, NEW j \in DOMAIN scores, NEW k \in DOMAIN scores,
             i < j, j < k, SameGroup(i, j), SameGroup(j, k)
      PROVE  scores[k].at >= scores[i].at + CmdRateDelay
  <2>1. scores[k].at >= scores[j].asked + CmdRateDelay
    BY <1>1, <1>2
  <2>2. scores[j].asked >= scores[i].at
    BY <1>0, <1>2 DEF Requests
  <2>3. scores[k].at \in Nat /\ scores[j].asked \in Nat /\ scores[i].at \in Nat
        /\ CmdRateDelay \in Nat
    BY <1>2, CommandFacts
  <2> QED BY <2>1, <2>2, <2>3
<1> QED BY <1>1, <1>2 DEF ScoresApart

LEMMA CommandsAlways == Spec => []Commands /\ []BroadcastOnce
<1> DEFINE I == Commands /\ BroadcastOnce
<1>1. Init => I
  BY CommandsFirst
<1>2. I /\ Delivery /\ HandledInOrder /\ [Next]_vars => I'
  BY CommandsNext
<1>3. I => Commands /\ BroadcastOnce
  OBVIOUS
<1> HIDE DEF I
<1> QED BY <1>1, <1>2, <1>3, DeliveryAlways, MessagesAreHandledInOrder, PTL DEF Spec

LEMMA TypesFollow == Delivery /\ Commands => TypeOK
<1> SUFFICES ASSUME Delivery, Commands PROVE TypeOK
  OBVIOUS
<1>1. now \in Nat /\ sent \in Seq(Update(Nat))
  BY DEF Delivery, Types
<1>2. Date(now) \in 0..now
  BY <1>1, DatesGrow
<1>3. ASSUME NEW u \in 1..Len(sent)
      PROVE  sent[u] \in Update(0..now)
  <2>1. sent[u] \in Update(Nat)
    BY <1>1
  <2>2. sent[u].date \in 0..now
    <3>1. sent[u].date \in 0..Date(now)
      BY DEF Delivery, Dates, Ids
    <3> QED BY <1>1, <1>2, <3>1
  <2> QED BY <2>1, <2>2 DEF Update
<1>4. sent \in Seq(Update(0..now))
  <2>1. Len(sent) \in Nat /\ sent = [u \in 1..Len(sent) |-> sent[u]]
    BY <1>1
  <2> QED BY <1>3, <2>1
<1>5. serving \in Serving(0..now)
  <2>1. serving \in Serving(Nat) /\ (serving.step = "ranking" => serving.asked <= now)
    BY DEF Commands, MemoryTypes, InProgress
  <2> QED BY <1>1, <2>1 DEF Serving
<1> QED BY <1>4, <1>5 DEF Delivery, Types, Commands, MemoryTypes, TypeOK

\* The types of the inbox, and that no message, request or start is dated ahead of
\* the clock.
THEOREM TypeCorrect == Spec => []TypeOK
BY CommandsAlways, DeliveryAlways, TypesFollow, PTL

\* However long the store and b.out make cmdScore wait: of two answers of a process to
\* a group, the second comes no sooner than the delay after the request for the first
\* was let through, and of three, the third no sooner than the delay after the first
\* answer itself.
THEOREM ScoresStayApart == Spec => []ScoresApart
BY ApartFollows, CommandsAlways, DeliveryAlways, PTL

\* A broadcast reaches no channel twice, whatever becomes of the process.
THEOREM BroadcastsReachOnce == Spec => []BroadcastOnce
BY CommandsAlways, PTL
=============================================================================
