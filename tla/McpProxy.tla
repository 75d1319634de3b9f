------------------------------ MODULE McpProxy ------------------------------
(* The bridge between the chatbot and 1C: ProxyState (mcp_proxy/state.py)    *)
(* and the handlers of mcp_proxy/app.py that use it.                         *)
(*                                                                           *)
(* A tools/call request queues a command and waits for its outcome; a 1C     *)
(* long poll leases it; 1C posts the result.  All of it is in the memory of  *)
(* one process on one event loop.  The condition's lock is held across no    *)
(* await but wait(), so it is never contended and a step is the stretch of a *)
(* handler between two awaits.                                               *)
(*                                                                           *)
(* Left out, because no decision reads them: tombstones (only ever written), *)
(* heartbeat times (behind /health/ready only) and touch_poll (no caller).   *)
EXTENDS Naturals, Sequences, FiniteSets

CONSTANTS
    Commands,      \* command ids; an id is a uuid and is used once
    Channels,      \* channel names that match the pattern
    Sessions,      \* MCP session ids
    Keys,          \* JSON-RPC request ids
    Polls,         \* 1C long polls that may be open at the same time
    None,          \* no entry
    MaxPending,    \* max_pending_per_channel
    MaxChannels,   \* max_channels
    MaxRestarts    \* bound on process restarts

ASSUME ProxyAssumption ==
    /\ None \notin Commands \cup Channels \cup Sessions \cup Keys
    /\ MaxPending \in Nat \ {0}
    /\ MaxChannels \in Nat \ {0}
    /\ MaxRestarts \in Nat

VARIABLES
    command,   \* BridgeCommand: status, channel, session and key, the future
    active,    \* ChannelState.active
    index,     \* ChannelState.request_index
    queue,     \* ChannelState.queue; ids of ended commands stay in it
    opened,    \* keys of ProxyState._channels
    closed,    \* ProxyState._closed
    poll,      \* GET /1c/poll requests: idle, in wait(), or notified
    call,      \* tools/call requests, by their command; "left": client is gone
    held,      \* commands 1C has received
    restarts

vars == <<command, active, index, queue, opened, closed,
          poll, call, held, restarts>>

Requests == Sessions \X Keys

NoCommand == [status |-> "unused", channel |-> None, request |-> <<None, None>>,
              outcome |-> "none"]
Idle      == [at |-> "idle", channel |-> None]

Init ==
    /\ command  = [c \in Commands |-> NoCommand]
    /\ active   = [ch \in Channels |-> {}]
    /\ index    = [ch \in Channels |-> [r \in Requests |-> None]]
    /\ queue    = [ch \in Channels |-> << >>]
    /\ opened   = {}
    /\ closed   = FALSE
    /\ poll     = [p \in Polls |-> Idle]
    /\ call     = [c \in Commands |-> "none"]
    /\ held     = {}
    /\ restarts = 0

-----------------------------------------------------------------------------
(* Helpers.                                                                  *)

\* _get_or_create_channel: channels are opened on demand and never closed.
Opens(ch) ==
    /\ ch \in opened \/ Cardinality(opened) < MaxChannels
    /\ opened' = opened \cup {ch}

\* Mutant: notify() instead of notify_all().
BadNotified ==
    IF \E p \in Polls : poll[p].at = "waiting"
    THEN LET p == CHOOSE q \in Polls : poll[q].at = "waiting"
         IN  [poll EXCEPT ![p].at = "woken"]
    ELSE poll

\* The one condition is shared by all channels: notify_all wakes every poll.
Notified ==
    [p \in Polls |-> IF poll[p].at = "waiting"
                     THEN [poll[p] EXCEPT !.at = "woken"]
                     ELSE poll[p]]

\* A queued command id that has not been finished.
Live(ch, c) == c \in active[ch] /\ command[c].status = "queued"

\* Mutant: finished commands keep their request index.
BadFinish(ended, status, outcome) ==
    /\ command' = [c \in Commands |->
                     IF c \in ended
                     THEN [command[c] EXCEPT !.status = status,
                             !.outcome = IF @ = "none" THEN outcome ELSE @]
                     ELSE command[c]]
    /\ active' = [ch \in Channels |-> active[ch] \ ended]
    /\ poll' = Notified
    /\ UNCHANGED <<index, queue, held>>

\* _finish for each command of ended, in one stretch: the command leaves active
\* and the index, its future is set unless it is done, every poll is notified.
\* Its id stays in the queue until a poll pops it.
Finish(ended, status, outcome) ==
    /\ command' = [c \in Commands |->
                     IF c \in ended
                     THEN [command[c] EXCEPT !.status = status,
                             !.outcome = IF @ = "none" THEN outcome ELSE @]
                     ELSE command[c]]
    /\ active' = [ch \in Channels |-> active[ch] \ ended]
    /\ index' = [ch \in Channels |-> [r \in Requests |->
                   IF \E c \in ended : command[c].channel = ch
                                       /\ command[c].request = r
                   THEN None ELSE index[ch][r]]]
    /\ poll' = Notified
    /\ UNCHANGED <<queue, held>>

-----------------------------------------------------------------------------
(* POST /mcp: tools/call.                                                    *)

\* Mutant: a proxy that is shutting down still accepts commands.
BadEnqueue(c, ch, r) ==
    /\ command[c].status = "unused"
    /\ Opens(ch)
    /\ Cardinality(active[ch]) < MaxPending
    /\ index[ch][r] = None
    /\ command' = [command EXCEPT ![c] = [status |-> "queued", channel |-> ch,
                                          request |-> r, outcome |-> "none"]]
    /\ active' = [active EXCEPT ![ch] = @ \cup {c}]
    /\ index' = [index EXCEPT ![ch][r] = c]
    /\ queue' = [queue EXCEPT ![ch] = Append(@, c)]
    /\ call' = [call EXCEPT ![c] = "waiting"]
    /\ poll' = Notified
    /\ UNCHANGED <<closed, held, restarts>>

\* enqueue.  A refusal (closed, channel limit, pending limit, request id already
\* active) answers the call with an error and changes nothing: a channel opened
\* for the call has neither pending commands nor requests to refuse it for.
Enqueue(c, ch, r) ==
    /\ ~closed
    /\ command[c].status = "unused"
    /\ Opens(ch)
    /\ Cardinality(active[ch]) < MaxPending
    /\ index[ch][r] = None
    /\ command' = [command EXCEPT ![c] = [status |-> "queued", channel |-> ch,
                                          request |-> r, outcome |-> "none"]]
    /\ active' = [active EXCEPT ![ch] = @ \cup {c}]
    /\ index' = [index EXCEPT ![ch][r] = c]
    /\ queue' = [queue EXCEPT ![ch] = Append(@, c)]
    /\ call' = [call EXCEPT ![c] = "waiting"]
    /\ poll' = Notified
    /\ UNCHANGED <<closed, held, restarts>>

\* The handler of the call is in the loop of _wait_for_outcome.
Waits(c) == call[c] \in {"waiting", "left"}

\* The future is done: the call is answered with its outcome.
CallAnswers(c) ==
    /\ Waits(c)
    /\ command[c].outcome # "none"
    /\ call' = [call EXCEPT ![c] = "answered"]
    /\ UNCHANGED <<command, active, index, queue, opened, closed,
                   poll, held, restarts>>

\* Mutant: only a command that 1C has not taken expires.
BadCallExpires(c) ==
    /\ Waits(c)
    /\ Live(command[c].channel, c)
    /\ Finish({c}, "expired", "error")
    /\ call' = [call EXCEPT ![c] = "answered"]
    /\ UNCHANGED <<opened, closed, restarts>>

\* command_timeout_seconds are over: expire, then the outcome, in one stretch.
CallExpires(c) ==
    /\ Waits(c)
    /\ c \in active[command[c].channel]
    /\ Finish({c}, "expired", "error")
    /\ call' = [call EXCEPT ![c] = "answered"]
    /\ UNCHANGED <<opened, closed, restarts>>

ClientLeaves(c) ==
    /\ call[c] = "waiting"
    /\ call' = [call EXCEPT ![c] = "left"]
    /\ UNCHANGED <<command, active, index, queue, opened, closed,
                   poll, held, restarts>>

\* The call notices that its client has left, or is itself cancelled.
CallCancelled(c) ==
    /\ call[c] = "left"
    /\ c \in active[command[c].channel]
    /\ Finish({c}, "cancelled", "cancelled")
    /\ call' = [call EXCEPT ![c] = "answered"]
    /\ UNCHANGED <<opened, closed, restarts>>

\* notifications/cancelled for request r.
CancelRequest(ch, r) ==
    /\ index[ch][r] # None
    /\ index[ch][r] \in active[ch]
    /\ Finish({index[ch][r]}, "cancelled", "cancelled")
    /\ UNCHANGED <<opened, closed, call, restarts>>

\* DELETE /mcp: every command of the session on that channel.
CancelSession(ch, s) ==
    LET ended == {c \in active[ch] : command[c].request[1] = s}
    IN  /\ ended # {}
        /\ Finish(ended, "cancelled", "cancelled")
        /\ UNCHANGED <<opened, closed, call, restarts>>

-----------------------------------------------------------------------------
(* GET /1c/poll and POST /1c/result.                                         *)

\* Mutant: the id behind the command is popped with it.
BadTakesQueued(p, ch, i) ==
    LET c == queue[ch][i]
    IN  /\ Live(ch, c)
        /\ \A j \in 1 .. (i - 1) : ~Live(ch, queue[ch][j])
        /\ queue' = [queue EXCEPT ![ch] = SubSeq(@, i + 2, Len(@))]
        /\ command' = [command EXCEPT ![c].status = "leased"]
        /\ poll' = [poll EXCEPT ![p] = Idle]
        /\ held' \in {held, held \cup {c}}

\* _take_queued pops ids up to the first live one; the response with the command
\* reaches 1C or is lost with its connection, and nothing tells the proxy which.
TakesQueued(p, ch, i) ==
    LET c == queue[ch][i]
    IN  /\ Live(ch, c)
        /\ \A j \in 1 .. (i - 1) : ~Live(ch, queue[ch][j])
        /\ queue' = [queue EXCEPT ![ch] = SubSeq(@, i + 1, Len(@))]
        /\ command' = [command EXCEPT ![c].status = "leased"]
        /\ poll' = [poll EXCEPT ![p] = Idle]
        /\ held' \in {held, held \cup {c}}

\* One turn of the loop in lease: a command, or 204 on a closed proxy, or wait().
Looks(p, ch) ==
    /\ \/ \E i \in DOMAIN queue[ch] : TakesQueued(p, ch, i)
       \/ /\ \A i \in DOMAIN queue[ch] : ~Live(ch, queue[ch][i])
          /\ queue' = [queue EXCEPT ![ch] = << >>]
          /\ poll' = [poll EXCEPT ![p] = IF closed THEN Idle
                                ELSE [at |-> "waiting", channel |-> ch]]
          /\ UNCHANGED <<command, held>>
    /\ UNCHANGED <<active, index, closed, call, restarts>>

PollArrives(p, ch) ==
    /\ poll[p].at = "idle"
    /\ Opens(ch)
    /\ Looks(p, ch)

PollResumes(p) ==
    /\ poll[p].at = "woken"
    /\ Looks(p, poll[p].channel)
    /\ UNCHANGED opened

\* wait_for gives up after poll_wait_seconds, also on a poll already notified:
\* that one answers 204 without another look at the queue.
PollTimesOut(p) ==
    /\ poll[p].at \in {"waiting", "woken"}
    /\ poll' = [poll EXCEPT ![p] = Idle]
    /\ UNCHANGED <<command, active, index, queue, opened, closed,
                   call, held, restarts>>

\* Mutant: a result is taken for any command that 1C has received.
BadResultArrives(c, ch, outcome) ==
    /\ c \in held
    /\ command[c].channel = ch
    /\ Finish({c}, "completed", outcome)
    /\ UNCHANGED <<opened, closed, call, restarts>>

\* 1C posts a result for a command it has received, on the channel it polled or
\* another, maybe late or again.  A result that does not validate fails the
\* command.  One for a command that is not active and leased is refused, 409.
ResultArrives(c, ch, outcome) ==
    /\ c \in held
    /\ c \in active[ch]
    /\ command[c].status = "leased"
    /\ Finish({c}, "completed", outcome)
    /\ UNCHANGED <<opened, closed, call, restarts>>

-----------------------------------------------------------------------------
(* The process.                                                              *)

\* Mutant: an end that is not in CommandStatus.
BadShutdown ==
    /\ ~closed
    /\ closed' = TRUE
    /\ Finish(UNION {active[ch] : ch \in Channels}, "unavailable", "error")
    /\ UNCHANGED <<opened, call, restarts>>

\* shutdown of the application's lifespan: everything active is finished, every
\* poll is notified, and the proxy stays closed.
Shutdown ==
    /\ ~closed
    /\ closed' = TRUE
    /\ Finish(UNION {active[ch] : ch \in Channels}, "cancelled", "error")
    /\ UNCHANGED <<opened, call, restarts>>

\* The process stops and a new one starts: every connection breaks and nothing
\* of the state survives.  1C keeps what it received and may still answer.
Restart ==
    /\ restarts < MaxRestarts
    /\ restarts' = restarts + 1
    /\ command' = [c \in Commands |->
                     IF \E ch \in Channels : c \in active[ch]
                     THEN [command[c] EXCEPT !.status = "lost"] ELSE command[c]]
    /\ active' = [ch \in Channels |-> {}]
    /\ index' = [ch \in Channels |-> [r \in Requests |-> None]]
    /\ queue' = [ch \in Channels |-> << >>]
    /\ opened' = {}
    /\ closed' = FALSE
    /\ poll' = [p \in Polls |-> Idle]
    /\ call' = [c \in Commands |-> IF Waits(c) THEN "broken" ELSE call[c]]
    /\ UNCHANGED held

-----------------------------------------------------------------------------
CallStep(c) ==
    \/ \E ch \in Channels, r \in Requests : Enqueue(c, ch, r)
    \/ CallAnswers(c) \/ CallExpires(c)
    \/ ClientLeaves(c) \/ CallCancelled(c)

CancelStep(ch) ==
    \/ \E r \in Requests : CancelRequest(ch, r)
    \/ \E s \in Sessions : CancelSession(ch, s)

PollStep(p) ==
    \/ \E ch \in Channels : PollArrives(p, ch)
    \/ PollResumes(p)
    \/ PollTimesOut(p)

ResultStep(c) ==
    \E ch \in Channels, outcome \in {"result", "error"} : ResultArrives(c, ch, outcome)

Next ==
    \/ \E c \in Commands : CallStep(c) \/ ResultStep(c)
    \/ \E ch \in Channels : CancelStep(ch)
    \/ \E p \in Polls : PollStep(p)
    \/ Shutdown
    \/ Restart

Spec == Init /\ [][Next]_vars

\* The loop of _wait_for_outcome wakes every 25 ms and looks at its deadline.
Fairness == \A c \in Commands : WF_vars(CallAnswers(c)) /\ WF_vars(CallExpires(c))

FairSpec == Spec /\ Fairness

-----------------------------------------------------------------------------
(* Properties.                                                               *)

Statuses == {"unused", "queued", "leased", "completed", "expired", "cancelled", "lost"}
Outcomes == {"none", "result", "error", "cancelled"}

CommandRecord == [status : Statuses, channel : Channels \cup {None},
                  request : Requests \cup {<<None, None>>}, outcome : Outcomes]
PollRecord    == [at : {"idle", "waiting", "woken"}, channel : Channels \cup {None}]

\* Every variable holds a value of the object it stands for.
TypeOK ==
    /\ command \in [Commands -> CommandRecord]
    /\ active \in [Channels -> SUBSET Commands]
    /\ index \in [Channels -> [Requests -> Commands \cup {None}]]
    /\ queue \in [Channels -> Seq(Commands)]
    /\ opened \subseteq Channels
    /\ closed \in BOOLEAN
    /\ poll \in [Polls -> PollRecord]
    /\ call \in [Commands -> {"none", "waiting", "left", "answered", "broken"}]
    /\ held \subseteq Commands
    /\ restarts \in Nat

\* No lost wakeup: a poll that sleeps un-notified has no command to take, though
\* one condition serves all channels and polls time out as they are notified.
NoMissedWakeup ==
    \A p \in Polls : poll[p].at = "waiting" =>
        \A c \in active[poll[p].channel] : command[c].status # "queued"

\* The request index and the active commands are the same commands: whatever is
\* pending can be cancelled by its request id, and an id is free once it is not.
PendingIsIndexed ==
    \A ch \in Channels :
        /\ \A c \in active[ch] : index[ch][command[c].request] = c
        /\ \A r \in Requests : index[ch][r] # None =>
              /\ index[ch][r] \in active[ch]
              /\ command[index[ch][r]].request = r

\* A queued command is in the queue of its channel, exactly once, whatever stale
\* ids surround it: 1C will find it, and only once.
QueuedWaitsInQueue ==
    \A ch \in Channels : \A c \in active[ch] : command[c].status = "queued" =>
        Cardinality({i \in DOMAIN queue[ch] : queue[ch][i] = c}) = 1

\* After shutdown nothing is pending that no one will ever finish, and no poll
\* sleeps through it.
NothingPendingAfterShutdown ==
    closed => /\ \A ch \in Channels : active[ch] = {}
              /\ \A p \in Polls : poll[p].at # "waiting"

\* Each command lives the life CommandLifecycle allows it: leased once, ended
\* once, a result only from the 1C that leased it, late and repeated ones refused.
Lifecycle == INSTANCE CommandLifecycle WITH
    status  <- [c \in Commands |-> command[c].status],
    outcome <- [c \in Commands |-> command[c].outcome]

ImplementsLifecycle == Lifecycle!Spec

\* Every tools/call is answered, or broken with its process: 1C may be absent,
\* take the command and vanish, or answer late.
EveryCallEnds == \A c \in Commands : Waits(c) ~> ~Waits(c)

=============================================================================
