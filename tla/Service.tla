------------------------------- MODULE Service -------------------------------
(***************************************************************************)
(* The processes of a deployment: main with its start and its shutdown,    *)
(* the Kafka consumer, the HTTP server and the notifiers, over one MongoDB *)
(* and one partition of a topic.  What a count does to its series is       *)
(* Ingest's subject; here each count is read, written and announced.  A    *)
(* message that is delivered again is another count of the series.         *)
(***************************************************************************)
EXTENDS MongoDB

CONSTANTS
    Topic,        \* the messages of the partition, in their order
    Malformed,    \* messages that are not JSON
    Announced,    \* the counts whose breach is announced
    Channels,     \* the notifiers main sets up, in their order
    MaxAttempts,  \* maxStatsAttempts
    MaxStops,     \* bound: SIGTERMs
    MaxMoves,     \* bound: rebalances while an instance has the partition
    MaxTrouble,   \* bound: failures, SIGTERMs and rebalances together
    MaxDeliveries \* bound: deliveries of one message

Offset == DOMAIN Topic
Message == {Topic[o] : o \in Offset}
Channel == {Channels[k] : k \in DOMAIN Channels}

ASSUME ServiceAssumption ==
    /\ Count = Message \X (1..MaxDeliveries)
    /\ Topic \in Seq(Message)
    /\ \A o, p \in Offset : Topic[o] = Topic[p] => o = p
    /\ Channels \in Seq(Channel)
    /\ \A j, k \in DOMAIN Channels : Channels[j] = Channels[k] => j = k
    /\ Malformed \subseteq Message
    /\ Announced \subseteq Count
    /\ MaxAttempts \in Nat \ {0}
    /\ {MaxStops, MaxMoves, MaxTrouble, MaxDeliveries} \subseteq Nat

VARIABLES
    server,      \* [Instance -> where main is once Connect has returned]
    open,        \* [Instance -> whether requests were open as its listener stopped]
    owner,       \* the instance the group has given the partition
    position,    \* the offset its reader fetches next
    fetched,     \* [Instance -> the offset ReadMessage is committing, or 0]
    late,        \* the instances that fetched it in an earlier generation
    committed,   \* the group's offset: the last one committed
    strayed,     \* history: whether a commit was performed in a later generation
    unread,      \* history: the messages whose ReadMessage failed
    place,       \* [Count -> the instance that has it in hand, or None]
    step,        \* [Count -> how far it is]
    attempt,     \* [Count -> the attempt analyzeTrend is at]
    telling,     \* [Count -> the position in Channels]
    told,        \* [Count -> the channels that have its alert]
    delivered,   \* [Message -> how often ProcessIngest was called]
    stops, moves

group == <<owner, position, fetched, late, committed, strayed, unread>>
work == <<place, step, attempt, telling, told, delivered>>
vars == <<mongo, server, open, group, work, stops, moves>>

Init ==
    /\ MongoInit
    /\ server = [i \in Instance |-> "off"]
    /\ open = [i \in Instance |-> FALSE]
    /\ owner = None /\ position = 0 /\ committed = 0
    /\ fetched = [i \in Instance |-> 0]
    /\ late = {} /\ strayed = FALSE /\ unread = {}
    /\ place = [c \in Count |-> None]
    /\ step = [c \in Count |-> "none"]
    /\ attempt = [c \in Count |-> 1]
    /\ telling = [c \in Count |-> 1]
    /\ told = [c \in Count |-> {}]
    /\ delivered = [m \in Message |-> 0]
    /\ stops = 0 /\ moves = 0

InHand(c) == place[c] # None
At(i) == {c \in Count : place[c] = i}

Become(c, s) == step' = [step EXCEPT ![c] = s] /\ UNCHANGED <<place, attempt>>

\* ProcessIngest returns.
Leave(c, s) ==
    /\ step' = [step EXCEPT ![c] = s]
    /\ place' = [place EXCEPT ![c] = None]
    /\ attempt' = [attempt EXCEPT ![c] = 1]

-----------------------------------------------------------------------------
(* main *)

\* Connect, at its next call.
Connect(i) ==
    /\ Setup(i)
    /\ UNCHANGED <<server, open, group, work, stops, moves>>

\* Connect has returned: the consumer starts and the server listens.
Serve(i) ==
    /\ phase[i] = "up" /\ server[i] = "off"
    /\ server' = [server EXCEPT ![i] = "serving"]
    /\ UNCHANGED <<mongo, open, group, work, stops, moves>>

\* ReadMessage is over.
Release(i) ==
    /\ fetched' = [fetched EXCEPT ![i] = 0]
    /\ late' = late \ {i}

\* The reader of i leaves the group; the loop's ReadMessage fails from now on.
LeaveGroup(i) ==
    /\ Release(i)
    /\ owner' = IF owner = i THEN None ELSE owner
    /\ position' = IF owner = i THEN 0 ELSE position
    /\ UNCHANGED <<committed, strayed, unread>>

\* The process is gone, and what it was at is cut off.
Gone(i) ==
    /\ server' = [server EXCEPT ![i] = "off"]
    /\ open' = [open EXCEPT ![i] = FALSE]
    /\ LeaveGroup(i)
    /\ step' = [c \in Count |-> IF c \in At(i) THEN "lost" ELSE step[c]]
    /\ place' = [c \in Count |-> IF c \in At(i) THEN None ELSE place[c]]
    /\ attempt' = [c \in Count |-> IF c \in At(i) THEN 1 ELSE attempt[c]]
    /\ UNCHANGED <<telling, told, delivered, stops, moves>>

\* A crash, the listener's log.Fatalf, or a signal before main waits for one.
Crash(i) == Die(i) /\ Gone(i)

Signal(i) ==
    /\ server[i] = "serving"
    /\ stops < MaxStops /\ stops' = stops + 1
    /\ server' = [server EXCEPT ![i] = "closing"]
    /\ UNCHANGED <<mongo, open, group, work, moves>>

\* Defect: the reader is left to the end of the process.
CloseNothing(i) ==
    /\ server[i] = "closing"
    /\ server' = [server EXCEPT ![i] = "draining"]
    /\ UNCHANGED <<mongo, open, group, work, stops, moves>>

\* Consumer.Close, and then Shutdown stops the listener, which until then has
\* accepted requests; some may be open, and their clients take their time.
Close(i) ==
    /\ server[i] = "closing"
    /\ LeaveGroup(i)
    /\ server' = [server EXCEPT ![i] = "draining"]
    /\ \E b \in BOOLEAN : open' = [open EXCEPT ![i] = b]
    /\ UNCHANGED <<mongo, work, stops, moves>>

\* The last request that was open is answered.
Answer(i) ==
    /\ open[i]
    /\ open' = [open EXCEPT ![i] = FALSE]
    /\ UNCHANGED <<mongo, server, group, work, stops, moves>>

\* Shutdown has seen the last request answered. It knows nothing of the
\* consumer: a message that is being processed is cut off.
ShutdownDone(i) ==
    /\ server[i] = "draining"
    /\ ~open[i]
    /\ Exit(i)
    /\ Gone(i)

\* Defect: Shutdown is given a context without a deadline.
ShutdownNeverTimesOut(i) == FALSE /\ Exit(i) /\ Gone(i)

\* The five seconds are over: log.Fatal.
ShutdownTimesOut(i) ==
    /\ server[i] = "draining"
    /\ open[i]
    /\ Exit(i)
    /\ Gone(i)

-----------------------------------------------------------------------------
(* The consumer group and Consumer.Start *)

\* A generation begins: i reads on from the committed offset. What was fetched
\* before and is not committed yet stays with whoever fetched it.
Assign(i) ==
    /\ server[i] = "serving"
    /\ owner' = i /\ position' = committed + 1
    /\ late' = {j \in Instance : fetched[j] # 0}
    /\ UNCHANGED <<mongo, server, open, fetched, committed, strayed, unread, work, stops>>

Join(i) == owner = None /\ Assign(i) /\ UNCHANGED moves

\* The group gives the partition anew, to its owner or to another instance; the
\* owner is alive and may have a message in hand, or one fetched.
Rebalance(i) ==
    /\ owner # None
    /\ moves < MaxMoves /\ moves' = moves + 1
    /\ Assign(i)

\* Defect: each message gets a goroutine of its own.
IdleAlways(i) == fetched[i] = 0

\* The loop is back at ReadMessage.
Idle(i) == fetched[i] = 0 /\ At(i) = {}

\* FetchMessage, inside ReadMessage.
Fetch(i) ==
    /\ server[i] \in {"serving", "closing"} /\ owner = i
    /\ Idle(i)
    /\ position \in Offset
    /\ fetched' = [fetched EXCEPT ![i] = position]
    /\ position' = position + 1
    /\ UNCHANGED <<mongo, server, open, owner, late, committed, strayed, unread,
                   work, stops, moves>>

\* Start decodes the message and hands it to ProcessIngest, or logs it.
Decode(i, m) ==
    \/ m \in Malformed /\ UNCHANGED work
    \/ /\ m \notin Malformed
       /\ delivered[m] < MaxDeliveries
       /\ delivered' = [delivered EXCEPT ![m] = @ + 1]
       /\ place' = [place EXCEPT ![<<m, delivered[m] + 1>>] = i]
       /\ step' = [step EXCEPT ![<<m, delivered[m] + 1>>] = "queued"]
       /\ UNCHANGED <<attempt, telling, told>>

\* The commit that ReadMessage waits for is performed. It names an offset and
\* the group's current generation, whenever the message was fetched: the offset
\* may move back.
Commit(i) ==
    /\ committed' = fetched[i]
    /\ strayed' = (strayed \/ i \in late)

\* Defect: FetchMessage in the place of ReadMessage; nothing is committed.
ReadMessageUncommitted(i) ==
    /\ fetched[i] # 0
    /\ Release(i)
    /\ Decode(i, Topic[fetched[i]])
    /\ UNCHANGED <<mongo, server, open, owner, position, committed, strayed, unread,
                   stops, moves>>

\* Defect: a message that is not JSON holds the loop up.
ReadMessageStuck(i) ==
    /\ fetched[i] # 0
    /\ Topic[fetched[i]] \notin Malformed
    /\ Commit(i)
    /\ Release(i)
    /\ Decode(i, Topic[fetched[i]])
    /\ UNCHANGED <<mongo, server, open, owner, position, unread, stops, moves>>

\* ReadMessage commits and returns.
ReadMessage(i) ==
    /\ fetched[i] # 0
    /\ Commit(i)
    /\ Release(i)
    /\ Decode(i, Topic[fetched[i]])
    /\ UNCHANGED <<mongo, server, open, owner, position, unread, stops, moves>>

\* The commit fails, though it may have been performed. The loop goes on, and
\* the reader with the next message.
ReadMessageFails(i) ==
    /\ fetched[i] # 0
    /\ OtherFault
    /\ Commit(i) \/ UNCHANGED <<committed, strayed>>
    /\ Release(i)
    /\ unread' = unread \cup {Topic[fetched[i]]}
    /\ UNCHANGED <<server, open, owner, position, work, stops, moves>>

\* The commit was sent in the generation of the fetch and came too late: the
\* group refuses it, and ReadMessage fails. The new owner will fetch the message.
CommitRefused(i) ==
    /\ i \in late
    /\ Release(i)
    /\ UNCHANGED <<mongo, server, open, owner, position, committed, strayed, unread,
                   work, stops, moves>>

-----------------------------------------------------------------------------
(* ProcessIngest *)

\* The lock of the series, held to the end of reportTrend.
Holds(c) == step[c] \in {"evaluating", "notifying"}

\* AcquireLock and GetStats, and GetStats again after a conflict.
Evaluate(c) ==
    /\ \/ step[c] = "queued" /\ \A k \in At(place[c]) : ~Holds(k)
       \/ step[c] = "evaluating"
    /\ GetStats(place[c], c)
    /\ Become(c, "evaluating")
    /\ UNCHANGED <<server, open, group, telling, told, delivered, stops, moves>>

Land(c) ==
    /\ step[c] = "evaluating"
    /\ SaveStats(place[c])
    /\ IF c \in Announced /\ Len(Channels) > 0
       THEN Become(c, "notifying") ELSE Leave(c, "done")
    /\ UNCHANGED <<server, open, group, telling, told, delivered, stops, moves>>

\* Another instance was first; the loop of analyzeTrend goes on.
Retry(c) ==
    /\ step[c] = "evaluating"
    /\ StatsConflict(place[c])
    /\ attempt[c] < MaxAttempts
    /\ attempt' = [attempt EXCEPT ![c] = @ + 1]
    /\ UNCHANGED <<server, open, group, place, step, telling, told, delivered, stops, moves>>

\* The loop is over: the count is dropped.
GiveUp(c) ==
    /\ step[c] = "evaluating"
    /\ StatsConflict(place[c])
    /\ attempt[c] = MaxAttempts
    /\ Leave(c, "dropped")
    /\ UNCHANGED <<server, open, group, telling, told, delivered, stops, moves>>

\* Storage fails; the count is given up.
Fail(c) ==
    /\ \/ step[c] = "evaluating"
       \/ step[c] = "queued" /\ \A k \in At(place[c]) : ~Holds(k)
    /\ StatsFail(place[c])
    /\ Leave(c, "failed")
    /\ UNCHANGED <<server, open, group, telling, told, delivered, stops, moves>>

\* MultiNotifier goes on to the next notifier, if there is one.
NextChannel(c) ==
    /\ telling' = [telling EXCEPT ![c] = @ + 1]
    /\ IF telling[c] < Len(Channels) THEN Become(c, "notifying") ELSE Leave(c, "done")

Tell(c) ==
    /\ step[c] = "notifying"
    /\ told' = [told EXCEPT ![c] = @ \cup {Channels[telling[c]]}]
    /\ NextChannel(c)
    /\ UNCHANGED <<mongo, server, open, group, delivered, stops, moves>>

\* Defect: the first error is returned.
TellFailsForAll(c) ==
    /\ step[c] = "notifying"
    /\ OtherFault
    /\ Leave(c, "done")
    /\ UNCHANGED <<server, open, group, telling, told, delivered, stops, moves>>

\* A channel fails: an error, a status that is not 200, or five seconds.
TellFails(c) ==
    /\ step[c] = "notifying"
    /\ OtherFault
    /\ NextChannel(c)
    /\ UNCHANGED <<server, open, group, told, delivered, stops, moves>>

-----------------------------------------------------------------------------

Loop(i) ==
    Join(i) \/ Fetch(i) \/ ReadMessage(i) \/ ReadMessageFails(i) \/ CommitRefused(i)

Shutdown(i) == Close(i) \/ ShutdownDone(i) \/ ShutdownTimesOut(i)

Process(c) ==
    \/ Evaluate(c) \/ Land(c) \/ Retry(c) \/ GiveUp(c) \/ Fail(c)
    \/ Tell(c) \/ TellFails(c)

\* The bound of the model; nothing goes wrong more often.
Bounded == faults' + stops' + moves' <= MaxTrouble

Step ==
    \/ \E i \in Instance :
        \/ Connect(i) \/ Serve(i) \/ Crash(i) \/ Signal(i) \/ Shutdown(i)
        \/ Answer(i) \/ Loop(i) \/ Rebalance(i)
    \/ \E c \in Count : Process(c)

Next == Step /\ Bounded

Spec == Init /\ [][Next]_vars

\* The goroutine of the consumer, with its calls: the group gives it a partition
\* nobody has, and a call returns or fails.
Consumer(i) == Loop(i) \/ \E c \in At(i) : Process(c)

\* The consumer's goroutine and main's go on. Nothing is assumed of clients, nor
\* that a stopped instance starts.
FairSpec ==
    /\ Spec
    /\ \A i \in Instance : WF_vars(Consumer(i)) /\ WF_vars(Shutdown(i))

-----------------------------------------------------------------------------
(* Properties *)

TypeOK ==
    /\ MongoTypeOK
    /\ server \in [Instance -> {"off", "serving", "closing", "draining"}]
    /\ open \in [Instance -> BOOLEAN]
    /\ \A i \in Instance : server[i] # "off" => phase[i] = "up"
    /\ owner \in Instance \cup {None}
    /\ owner # None => server[owner] \in {"serving", "closing"}
    /\ position \in 0..(Len(Topic) + 1)
    /\ fetched \in [Instance -> {0} \cup Offset]
    /\ \A i \in Instance : fetched[i] # 0 =>
        /\ owner = i \/ i \in late
        /\ server[i] \in {"serving", "closing"}
    /\ late \subseteq {i \in Instance : fetched[i] # 0}
    /\ committed \in {0} \cup Offset
    /\ strayed \in BOOLEAN
    /\ unread \subseteq Message
    /\ place \in [Count -> Instance \cup {None}]
    /\ step \in [Count -> {"none", "queued", "evaluating", "notifying",
                          "done", "dropped", "failed", "lost"}]
    /\ \A c \in Count : InHand(c) =>
        /\ step[c] \in {"queued", "evaluating", "notifying"}
        /\ server[place[c]] # "off"
    /\ attempt \in [Count -> 1..MaxAttempts]
    /\ telling \in [Count -> 1..(Len(Channels) + 1)]
    /\ told \in [Count -> SUBSET Channel]
    /\ delivered \in [Message -> 0..MaxDeliveries]
    /\ stops \in 0..MaxStops /\ moves \in 0..MaxMoves

\* "Phield commits an offset as it reads each message, so delivery is at most
\* once": through rebalances, failed and refused commits, crashes and restarts,
\* unless a commit of one generation was performed in a later one.
\* (docs/docs/kafka.md:47; Consumer.Start, ReadMessage.)
AtMostOnce == ~strayed => \A m \in Message : delivered[m] <= 1

\* A delivery of the message is in the baseline, or may still get there.
Accounted(m) ==
    \E c \in Count : c[1] = m /\ (c \in landed \/ InHand(c))

\* The messages passed over: well-formed, at or before the committed offset,
\* not in the baseline and with nobody.
Missing ==
    {Topic[o] : o \in {o \in Offset :
        o <= committed /\ Topic[o] \notin Malformed /\ ~Accounted(Topic[o])}}

\* The counts that lost MaxAttempts writes to other instances.
Dropped == {c \in Count : step[c] = "dropped"}

\* A failure, a shutdown and a count that is given up cost one message each, at
\* most; nothing else does: no malformed message, no rebalance with its commits
\* that come late, are refused or move the offset back. (Consumer.Start, main,
\* analyzeTrend.)
LossesAreBounded ==
    Cardinality(Missing) <= faults + stops + Cardinality(Dropped)

\* A channel that fails costs its own message and no other channel's.
\* (MultiNotifier.Notify.)
ChannelsAreIndependent ==
    Cardinality({cc \in (Announced \cap landed) \X Channel :
        step[cc[1]] = "done" /\ cc[2] \notin told[cc[1]]}) <= faults

\* A process that is told to stop does, though a client may keep a request
\* open. (main, ShutdownTimeout.)
ShutdownEnds ==
    \A i \in Instance : server[i] = "closing" ~> server[i] = "off"

\* While some instance keeps serving, its group reads to the end of the topic,
\* whatever is in the messages and whatever fails. (Consumer.Start.)
TopicDrains ==
    \A i \in Instance :
        <>[](server[i] = "serving") => <>(position > Len(Topic))
=============================================================================
