--------------------------- MODULE McpProxyProofs ---------------------------
(* Theorems about McpProxy for every set of commands, channels, sessions,    *)
(* request ids and polls, and every limit.                                   *)
EXTENDS McpProxy, FiniteSetTheorems, TLAPS

-----------------------------------------------------------------------------
(* Types.                                                                    *)

LEMMA InitType == Init => TypeOK
<1>1. NoCommand \in CommandRecord
  BY DEF NoCommand, CommandRecord, Statuses, Outcomes
<1>2. Idle \in PollRecord
  BY DEF Idle, PollRecord
<1>3. << >> \in Seq(Commands)
  OBVIOUS
<1>4. ASSUME Init
      PROVE  /\ command \in [Commands -> CommandRecord]
             /\ active \in [Channels -> SUBSET Commands]
             /\ index \in [Channels -> [Requests -> Commands \cup {None}]]
             /\ poll \in [Polls -> PollRecord]
  BY <1>1, <1>2, <1>4 DEF Init
<1>5. ASSUME Init
      PROVE  /\ queue \in [Channels -> Seq(Commands)]
             /\ call \in [Commands -> {"none", "waiting", "left", "answered", "broken"}]
  BY <1>3, <1>5 DEF Init
<1>6. ASSUME Init PROVE closed \in BOOLEAN /\ opened \subseteq Channels
  BY <1>6, Zenon DEF Init
<1>7. ASSUME Init PROVE held \subseteq Commands /\ restarts \in Nat
  BY <1>7 DEF Init
<1>8. QED BY <1>4, <1>5, <1>6, <1>7, Zenon DEF TypeOK

LEMMA NotifiedType ==
    ASSUME TypeOK
    PROVE  Notified \in [Polls -> PollRecord]
BY DEF TypeOK, Notified, PollRecord

\* What _finish writes keeps the types.
LEMMA FinishType ==
    ASSUME TypeOK,
           NEW ended \in SUBSET Commands,
           NEW status \in Statuses, NEW outcome \in Outcomes,
           Finish(ended, status, outcome)
    PROVE  /\ command' \in [Commands -> CommandRecord]
           /\ active' \in [Channels -> SUBSET Commands]
           /\ index' \in [Channels -> [Requests -> Commands \cup {None}]]
           /\ queue' \in [Channels -> Seq(Commands)]
           /\ poll' \in [Polls -> PollRecord]
           /\ held' \subseteq Commands
<1>1. command' \in [Commands -> CommandRecord]
  <2>1. \A c \in Commands : command[c] \in CommandRecord
    BY DEF TypeOK
  <2>2. command' = [c \in Commands |->
                      IF c \in ended
                      THEN [command[c] EXCEPT !.status = status,
                              !.outcome = IF @ = "none" THEN outcome ELSE @]
                      ELSE command[c]]
    BY DEF Finish
  <2>3. \A c \in Commands : command'[c] \in CommandRecord
    BY <2>1, <2>2 DEF CommandRecord
  <2>4. QED BY <2>2, <2>3
<1>2. active' \in [Channels -> SUBSET Commands]
  BY DEF TypeOK, Finish
<1>3. index' \in [Channels -> [Requests -> Commands \cup {None}]]
  BY DEF TypeOK, Finish
<1>4. QED BY <1>1, <1>2, <1>3, NotifiedType DEF TypeOK, Finish

LEMMA CallStepType ==
    ASSUME TypeOK, NEW c \in Commands, CallStep(c)
    PROVE  TypeOK'
<1>1. ASSUME NEW ch \in Channels, NEW r \in Requests, Enqueue(c, ch, r)
      PROVE  TypeOK'
  <2>1. command' \in [Commands -> CommandRecord]
    BY <1>1 DEF TypeOK, Enqueue, CommandRecord, Statuses, Outcomes
  <2>2. active' \in [Channels -> SUBSET Commands]
    BY <1>1 DEF TypeOK, Enqueue
  <2>3. index' \in [Channels -> [Requests -> Commands \cup {None}]]
    BY <1>1 DEF TypeOK, Enqueue
  <2>4. queue' \in [Channels -> Seq(Commands)]
    BY <1>1 DEF TypeOK, Enqueue
  <2>5. poll' \in [Polls -> PollRecord]
    BY <1>1, NotifiedType DEF Enqueue
  <2>6. QED BY <1>1, <2>1, <2>2, <2>3, <2>4, <2>5 DEF TypeOK, Enqueue, Opens
<1>2. CASE CallAnswers(c) \/ ClientLeaves(c)
  BY <1>2 DEF TypeOK, CallAnswers, ClientLeaves
<1>3. CASE CallExpires(c)
  <2>1. "expired" \in Statuses /\ "error" \in Outcomes BY DEF Statuses, Outcomes
  <2>2. QED BY <1>3, <2>1, FinishType DEF TypeOK, CallExpires
<1>4. CASE CallCancelled(c)
  <2>1. "cancelled" \in Statuses /\ "cancelled" \in Outcomes BY DEF Statuses, Outcomes
  <2>2. QED BY <1>4, <2>1, FinishType DEF TypeOK, CallCancelled
<1>5. QED BY <1>1, <1>2, <1>3, <1>4 DEF CallStep

LEMMA CancelStepType ==
    ASSUME TypeOK, NEW ch \in Channels, CancelStep(ch)
    PROVE  TypeOK'
<1>1. "cancelled" \in Statuses /\ "cancelled" \in Outcomes BY DEF Statuses, Outcomes
<1>2. ASSUME NEW r \in Requests, CancelRequest(ch, r) PROVE TypeOK'
  <2>1. {index[ch][r]} \in SUBSET Commands BY <1>2 DEF TypeOK, CancelRequest
  <2>2. QED BY <1>1, <1>2, <2>1, FinishType DEF TypeOK, CancelRequest
<1>3. ASSUME NEW s \in Sessions, CancelSession(ch, s) PROVE TypeOK'
  <2>1. {c \in active[ch] : command[c].request[1] = s} \in SUBSET Commands
    BY DEF TypeOK
  <2>2. QED BY <1>1, <1>3, <2>1, FinishType DEF TypeOK, CancelSession
<1>4. QED BY <1>2, <1>3 DEF CancelStep

LEMMA LooksType ==
    ASSUME TypeOK, NEW p \in Polls, NEW ch \in Channels, Looks(p, ch)
    PROVE  /\ command' \in [Commands -> CommandRecord]
           /\ queue' \in [Channels -> Seq(Commands)]
           /\ poll' \in [Polls -> PollRecord]
           /\ held' \subseteq Commands
<1>1. ASSUME NEW i \in DOMAIN queue[ch], TakesQueued(p, ch, i)
      PROVE  /\ command' \in [Commands -> CommandRecord]
             /\ queue' \in [Channels -> Seq(Commands)]
             /\ poll' \in [Polls -> PollRecord]
             /\ held' \subseteq Commands
  <2>1. queue[ch] \in Seq(Commands) /\ queue[ch][i] \in Commands /\ i \in Nat
    BY DEF TypeOK
  <2>2. SubSeq(queue[ch], i + 1, Len(queue[ch])) \in Seq(Commands)
    BY <1>1, <2>1
  <2>3. queue' \in [Channels -> Seq(Commands)]
    BY <1>1, <2>2 DEF TypeOK, TakesQueued
  <2>4. command' \in [Commands -> CommandRecord]
    <3>1. command[queue[ch][i]] \in CommandRecord BY <2>1 DEF TypeOK
    <3>2. [command[queue[ch][i]] EXCEPT !.status = "leased"] \in CommandRecord
      BY <3>1 DEF CommandRecord, Statuses
    <3>3. QED BY <1>1, <2>1, <3>2 DEF TypeOK, TakesQueued
  <2>5. QED BY <1>1, <2>1, <2>3, <2>4 DEF TypeOK, TakesQueued, PollRecord, Idle
<1>2. CASE /\ queue' = [queue EXCEPT ![ch] = << >>]
           /\ poll' = [poll EXCEPT ![p] = IF closed THEN Idle
                                ELSE [at |-> "waiting", channel |-> ch]]
           /\ UNCHANGED <<command, held>>
  <2>1. queue' \in [Channels -> Seq(Commands)]
    BY <1>2 DEF TypeOK
  <2>2. poll' \in [Polls -> PollRecord]
    BY <1>2 DEF TypeOK, PollRecord, Idle
  <2>3. QED BY <1>2, <2>1, <2>2 DEF TypeOK
<1>3. QED BY <1>1, <1>2 DEF Looks

LEMMA PollStepType ==
    ASSUME TypeOK, NEW p \in Polls, PollStep(p),
           poll[p].at = "woken" => poll[p].channel \in Channels
    PROVE  TypeOK'
<1>1. ASSUME NEW ch \in Channels, PollArrives(p, ch) PROVE TypeOK'
  BY <1>1, LooksType DEF TypeOK, PollArrives, Opens, Looks
<1>2. CASE PollResumes(p)
  BY <1>2, LooksType DEF TypeOK, PollResumes, Looks
<1>3. CASE PollTimesOut(p)
  BY <1>3 DEF TypeOK, PollTimesOut, PollRecord, Idle
<1>4. QED BY <1>1, <1>2, <1>3 DEF PollStep

LEMMA ResultStepType ==
    ASSUME TypeOK, NEW c \in Commands, ResultStep(c)
    PROVE  TypeOK'
<1>1. PICK ch \in Channels, outcome \in {"result", "error"} : ResultArrives(c, ch, outcome)
  BY DEF ResultStep
<1>2. "completed" \in Statuses /\ outcome \in Outcomes BY DEF Statuses, Outcomes
<1>3. QED BY <1>1, <1>2, FinishType DEF TypeOK, ResultArrives

LEMMA ProcessType ==
    ASSUME TypeOK, Shutdown \/ Restart
    PROVE  TypeOK'
<1>1. CASE Shutdown
  <2>1. "cancelled" \in Statuses /\ "error" \in Outcomes BY DEF Statuses, Outcomes
  <2>2. UNION {active[ch] : ch \in Channels} \in SUBSET Commands BY DEF TypeOK
  <2>3. QED BY <1>1, <2>1, <2>2, FinishType DEF TypeOK, Shutdown
<1>2. CASE Restart
  <2>1. command' \in [Commands -> CommandRecord]
    <3>1. \A c \in Commands : [command[c] EXCEPT !.status = "lost"] \in CommandRecord
      BY DEF TypeOK, CommandRecord, Statuses
    <3>2. QED BY <1>2, <3>1 DEF TypeOK, Restart
  <2>2. Idle \in PollRecord BY DEF Idle, PollRecord
  <2>3. /\ active' \in [Channels -> SUBSET Commands]
        /\ index' \in [Channels -> [Requests -> Commands \cup {None}]]
        /\ queue' \in [Channels -> Seq(Commands)]
        /\ poll' \in [Polls -> PollRecord]
    BY <1>2, <2>2 DEF TypeOK, Restart
  <2>4. call' \in [Commands -> {"none", "waiting", "left", "answered", "broken"}]
    BY <1>2 DEF TypeOK, Restart, Waits
  <2>5. closed' \in BOOLEAN /\ opened' \subseteq Channels BY <1>2, Zenon DEF Restart
  <2>6. held' \subseteq Commands /\ restarts' \in Nat BY <1>2 DEF TypeOK, Restart
  <2>7. QED BY <2>1, <2>3, <2>4, <2>5, <2>6, Zenon DEF TypeOK
<1>3. QED BY <1>1, <1>2

\* A poll in the condition knows its channel.
PollsHaveChannels ==
    \A p \in Polls : poll[p].at # "idle" => poll[p].channel \in Channels

LEMMA PollChannels ==
    ASSUME TypeOK, PollsHaveChannels, [Next]_vars
    PROVE  PollsHaveChannels'
<1>1. ASSUME \/ poll' = poll
             \/ poll' = Notified
             \/ \E p \in Polls : poll' = [poll EXCEPT ![p] = Idle]
             \/ \E p \in Polls, ch \in Channels :
                   poll' = [poll EXCEPT ![p] = [at |-> "waiting", channel |-> ch]]
             \/ poll' = [p \in Polls |-> Idle]
      PROVE  PollsHaveChannels'
  <2>1. CASE poll' = poll BY <2>1 DEF PollsHaveChannels
  <2>2. CASE poll' = Notified
    BY <2>2 DEF TypeOK, PollsHaveChannels, Notified, PollRecord
  <2>3. ASSUME NEW p \in Polls, poll' = [poll EXCEPT ![p] = Idle]
        PROVE  PollsHaveChannels'
    BY <2>3 DEF TypeOK, PollsHaveChannels, Idle
  <2>4. ASSUME NEW p \in Polls, NEW ch \in Channels,
               poll' = [poll EXCEPT ![p] = [at |-> "waiting", channel |-> ch]]
        PROVE  PollsHaveChannels'
    BY <2>4 DEF TypeOK, PollsHaveChannels
  <2>5. CASE poll' = [p \in Polls |-> Idle] BY <2>5 DEF PollsHaveChannels, Idle
  <2>6. QED BY <1>1, <2>1, <2>2, <2>3, <2>4, <2>5
<1>2. ASSUME NEW p \in Polls, NEW ch \in Channels, Looks(p, ch)
      PROVE  \/ poll' = [poll EXCEPT ![p] = Idle]
             \/ poll' = [poll EXCEPT ![p] = [at |-> "waiting", channel |-> ch]]
  BY <1>2 DEF Looks, TakesQueued
<1>3. ASSUME NEW c \in Commands, CallStep(c) PROVE poll' = poll \/ poll' = Notified
  BY <1>3 DEF CallStep, Enqueue, CallAnswers, CallExpires, ClientLeaves,
     CallCancelled, Finish
<1>4. ASSUME NEW c \in Commands, ResultStep(c) PROVE poll' = Notified
  BY <1>4 DEF ResultStep, ResultArrives, Finish
<1>5. ASSUME NEW ch \in Channels, CancelStep(ch) PROVE poll' = Notified
  BY <1>5 DEF CancelStep, CancelRequest, CancelSession, Finish
<1>6. ASSUME NEW p \in Polls, PollStep(p) PROVE PollsHaveChannels'
  <2>1. ASSUME NEW ch \in Channels, PollArrives(p, ch) PROVE PollsHaveChannels'
    BY <1>1, <1>2, <2>1 DEF PollArrives
  <2>2. CASE PollResumes(p)
    <3>1. poll[p].channel \in Channels BY <2>2 DEF PollResumes, PollsHaveChannels
    <3>2. QED BY <1>1, <1>2, <2>2, <3>1 DEF PollResumes
  <2>3. CASE PollTimesOut(p) BY <1>1, <2>3 DEF PollTimesOut
  <2>4. QED BY <1>6, <2>1, <2>2, <2>3 DEF PollStep
<1>7. CASE Shutdown BY <1>1, <1>7 DEF Shutdown, Finish
<1>8. CASE Restart BY <1>1, <1>8 DEF Restart
<1>9. CASE UNCHANGED vars BY <1>1, <1>9 DEF vars
<1>10. QED BY <1>1, <1>3, <1>4, <1>5, <1>6, <1>7, <1>8, <1>9 DEF Next

\* A call that waits knows the channel of its command.
CallsHaveChannels == \A c \in Commands : Waits(c) => command[c].channel \in Channels

\* The step leaves every command its channel and starts no call.
SameCalls ==
    \A c \in Commands : /\ command'[c].channel = command[c].channel
                        /\ Waits(c)' => Waits(c)

LEMMA FinishKeepsChannels ==
    ASSUME TypeOK, NEW ended \in SUBSET Commands, NEW status, NEW outcome,
           Finish(ended, status, outcome)
    PROVE  \A c \in Commands : command'[c].channel = command[c].channel
<1>1. \A c \in Commands : command[c] \in CommandRecord BY DEF TypeOK
<1>2. QED BY <1>1 DEF Finish, CommandRecord

LEMMA LooksKeepsChannels ==
    ASSUME TypeOK, NEW p \in Polls, NEW ch \in Channels, Looks(p, ch)
    PROVE  \A c \in Commands : command'[c].channel = command[c].channel
<1>1. \A c \in Commands : command[c] \in CommandRecord BY DEF TypeOK
<1>2. CASE UNCHANGED command BY <1>2
<1>3. ASSUME NEW i \in DOMAIN queue[ch], TakesQueued(p, ch, i),
             NEW c \in Commands
      PROVE  command'[c].channel = command[c].channel
  <2>1. command' = [command EXCEPT ![queue[ch][i]].status = "leased"]
    BY <1>3 DEF TakesQueued
  <2>2. \/ command'[c] = command[c]
        \/ command'[c] = [command[c] EXCEPT !.status = "leased"]
    BY <2>1 DEF TypeOK
  <2>3. QED BY <1>1, <2>2 DEF CommandRecord
<1>4. QED BY <1>2, <1>3 DEF Looks

LEMMA CallChannels ==
    ASSUME TypeOK, PollsHaveChannels, CallsHaveChannels, [Next]_vars
    PROVE  CallsHaveChannels'
<1>1. SameCalls => CallsHaveChannels' BY DEF SameCalls, CallsHaveChannels
<1>2. ASSUME NEW c \in Commands, NEW ch \in Channels, NEW r \in Requests,
             Enqueue(c, ch, r)
      PROVE  CallsHaveChannels'
  BY <1>2 DEF TypeOK, Enqueue, CallsHaveChannels, Waits
<1>3. ASSUME NEW c \in Commands, CallAnswers(c) \/ ClientLeaves(c) PROVE SameCalls
  BY <1>3 DEF TypeOK, CallAnswers, ClientLeaves, SameCalls, Waits
<1>4. ASSUME NEW c \in Commands, CallExpires(c) \/ CallCancelled(c) PROVE SameCalls
  <2>1. \A d \in Commands : command'[d].channel = command[d].channel
    BY <1>4, FinishKeepsChannels DEF CallExpires, CallCancelled
  <2>2. QED BY <1>4, <2>1 DEF TypeOK, CallExpires, CallCancelled, SameCalls, Waits
<1>5. ASSUME NEW ended \in SUBSET Commands, NEW status, NEW outcome,
             Finish(ended, status, outcome), UNCHANGED call
      PROVE  SameCalls
  BY <1>5, FinishKeepsChannels DEF SameCalls, Waits
<1>6. ASSUME NEW c \in Commands, ResultStep(c) PROVE SameCalls
  BY <1>5, <1>6 DEF ResultStep, ResultArrives
<1>7. ASSUME NEW ch \in Channels, CancelStep(ch) PROVE SameCalls
  <2>1. active[ch] \subseteq Commands BY DEF TypeOK
  <2>2. ASSUME NEW r \in Requests, CancelRequest(ch, r) PROVE SameCalls
    BY <1>5, <2>1, <2>2 DEF CancelRequest
  <2>3. ASSUME NEW s \in Sessions, CancelSession(ch, s) PROVE SameCalls
    BY <1>5, <2>1, <2>3 DEF CancelSession
  <2>4. QED BY <1>7, <2>2, <2>3 DEF CancelStep
<1>8. ASSUME NEW p \in Polls, PollStep(p) PROVE SameCalls
  <2>1. ASSUME NEW ch \in Channels, PollArrives(p, ch) PROVE SameCalls
    BY <2>1, LooksKeepsChannels DEF PollArrives, Looks, SameCalls, Waits
  <2>2. CASE PollResumes(p)
    <3>1. poll[p].channel \in Channels BY <2>2 DEF PollResumes, PollsHaveChannels
    <3>2. QED BY <2>2, <3>1, LooksKeepsChannels DEF PollResumes, Looks, SameCalls, Waits
  <2>3. CASE PollTimesOut(p) BY <2>3 DEF PollTimesOut, SameCalls, Waits
  <2>4. QED BY <1>8, <2>1, <2>2, <2>3 DEF PollStep
<1>9. CASE Shutdown
  <2>1. UNION {active[ch] : ch \in Channels} \in SUBSET Commands BY DEF TypeOK
  <2>2. QED BY <1>1, <1>5, <1>9, <2>1 DEF Shutdown
<1>10. CASE Restart
  BY <1>10 DEF Restart, TypeOK, CallsHaveChannels, Waits
<1>11. CASE UNCHANGED vars BY <1>1, <1>11 DEF vars, SameCalls, Waits
<1>12. QED
  BY <1>1, <1>2, <1>3, <1>4, <1>6, <1>7, <1>8, <1>9, <1>10, <1>11 DEF Next, CallStep

TypeInv == TypeOK /\ PollsHaveChannels /\ CallsHaveChannels

LEMMA TypeInvariant == Spec => []TypeInv
<1>1. Init => TypeInv
  BY InitType DEF Init, TypeInv, PollsHaveChannels, CallsHaveChannels, Waits, Idle
<1>2. TypeInv /\ [Next]_vars => TypeInv'
  <2>1. SUFFICES ASSUME TypeInv, [Next]_vars PROVE TypeOK'
    BY PollChannels, CallChannels DEF TypeInv
  <2>2. ASSUME NEW p \in Polls, PollStep(p) PROVE TypeOK'
    BY <2>1, <2>2, PollStepType DEF TypeInv, PollsHaveChannels
  <2>3. CASE UNCHANGED vars BY <2>1, <2>3 DEF TypeInv, TypeOK, vars
  <2>4. QED BY <2>1, <2>2, <2>3, CallStepType, CancelStepType, ResultStepType,
            ProcessType DEF Next, TypeInv
<1>3. QED BY <1>1, <1>2, PTL DEF Spec

\* Type correctness of the proxy's state.
THEOREM ProxyTypeCorrect == Spec => []TypeOK
BY TypeInvariant, PTL DEF TypeInv

-----------------------------------------------------------------------------
(* The life of a command.                                                    *)

Pending(c) == command[c].status \in {"queued", "leased"}

\* The active commands of a channel are its pending ones, and a command has no
\* outcome before it ends.
Account ==
    /\ \A ch \in Channels : \A c \in active[ch] :
          Pending(c) /\ command[c].channel = ch
    /\ \A c \in Commands : Pending(c) =>
          /\ command[c].channel \in Channels
          /\ c \in active[command[c].channel]
          /\ command[c].request \in Requests
    /\ \A c \in Commands :
          Pending(c) \/ command[c].status = "unused" => command[c].outcome = "none"

\* The step leaves every command its status and its outcome.
Unmoved ==
    \A c \in Commands : /\ command'[c].status = command[c].status
                        /\ command'[c].outcome = command[c].outcome

LEMMA UnmovedStutters == Unmoved => UNCHANGED Lifecycle!vars
BY DEF Unmoved, Lifecycle!vars

\* Commands that end together make a step of the lifecycle.
LEMMA EndsInLifecycle ==
    ASSUME NEW ended \in SUBSET Commands, NEW ending \in Lifecycle!Ending,
           \A c \in ended : Pending(c),
           ending[1] = "completed" => \A c \in ended : command[c].status = "leased",
           ending[1] \in {"completed", "expired"} => \E c \in Commands : ended = {c},
           \A c \in Commands :
              /\ command'[c].status = IF c \in ended THEN ending[1]
                                                     ELSE command[c].status
              /\ command'[c].outcome = IF c \in ended THEN ending[2]
                                                      ELSE command[c].outcome
    PROVE  Lifecycle!Next
<1>1. ended \subseteq Lifecycle!Pending
  BY DEF Pending, Lifecycle!Pending
<1>2. Lifecycle!End(ended, ending)
  BY <1>1 DEF Lifecycle!End
<1>3. QED BY <1>2 DEF Lifecycle!Next

\* The commands of ended are finished: they leave the account, the others stay.
LEMMA FinishAccount ==
    ASSUME TypeOK, Account,
           NEW ended \in SUBSET Commands, \A c \in ended : Pending(c),
           NEW status \in {"completed", "expired", "cancelled"},
           NEW outcome \in {"result", "error", "cancelled"},
           Finish(ended, status, outcome)
    PROVE  /\ Account'
           /\ \A c \in Commands :
                 /\ command'[c].status = IF c \in ended THEN status
                                                        ELSE command[c].status
                 /\ command'[c].outcome = IF c \in ended THEN outcome
                                                         ELSE command[c].outcome
<1>1. ASSUME NEW c \in Commands
      PROVE  /\ command'[c].status = IF c \in ended THEN status
                                                    ELSE command[c].status
             /\ command'[c].outcome = IF c \in ended THEN outcome
                                                     ELSE command[c].outcome
             /\ command'[c].channel = command[c].channel
             /\ command'[c].request = command[c].request
  <2>1. command[c] \in CommandRecord /\ (c \in ended => command[c].outcome = "none")
    BY DEF TypeOK, Account
  <2>2. command'[c] = IF c \in ended
                      THEN [command[c] EXCEPT !.status = status,
                              !.outcome = IF @ = "none" THEN outcome ELSE @]
                      ELSE command[c]
    BY DEF Finish
  <2>3. QED BY <2>1, <2>2 DEF CommandRecord
<1>2. \A ch \in Channels : active'[ch] = active[ch] \ ended
  BY DEF Finish
<1>3. \A ch \in Channels : active[ch] \subseteq Commands
  BY DEF TypeOK
<1>4. Account'
  <2>1. \A ch \in Channels : \A c \in active'[ch] :
           /\ command'[c].status \in {"queued", "leased"}
           /\ command'[c].channel = ch
    BY <1>1, <1>2, <1>3 DEF Account, Pending
  <2>2. \A c \in Commands : command'[c].status \in {"queued", "leased"} =>
           /\ command'[c].channel \in Channels
           /\ c \in active'[command'[c].channel]
           /\ command'[c].request \in Requests
    BY <1>1, <1>2 DEF Account, Pending
  <2>3. \A c \in Commands :
           command'[c].status \in {"queued", "leased", "unused"} =>
           command'[c].outcome = "none"
    BY <1>1 DEF Account, Pending
  <2>4. QED BY <2>1, <2>2, <2>3 DEF Account, Pending
<1>5. QED BY <1>1, <1>4

\* The step is one that CommandLifecycle allows, or one that it does not see.
Follows == Lifecycle!Next \/ UNCHANGED Lifecycle!vars

LEMMA FinishFollows ==
    ASSUME TypeOK, Account,
           NEW ended \in SUBSET Commands, \A c \in ended : Pending(c),
           NEW ending \in Lifecycle!Ending, ending[1] # "lost",
           ending[1] = "completed" => \A c \in ended : command[c].status = "leased",
           ending[1] \in {"completed", "expired"} => \E c \in Commands : ended = {c},
           Finish(ended, ending[1], ending[2])
    PROVE  Account' /\ Follows
<1>1. /\ ending[1] \in {"completed", "expired", "cancelled"}
      /\ ending[2] \in {"result", "error", "cancelled"}
  BY DEF Lifecycle!Ending
<1>2. /\ Account'
      /\ \A c \in Commands :
            /\ command'[c].status = IF c \in ended THEN ending[1]
                                                   ELSE command[c].status
            /\ command'[c].outcome = IF c \in ended THEN ending[2]
                                                    ELSE command[c].outcome
  BY <1>1, FinishAccount
<1>3. QED BY <1>2, EndsInLifecycle DEF Follows

\* Nothing of the account changes.
LEMMA SameAccount ==
    ASSUME Account, UNCHANGED <<command, active>>
    PROVE  Account' /\ Follows
<1>1. Account' BY DEF Account, Pending
<1>2. Unmoved BY DEF Unmoved
<1>3. QED BY <1>1, <1>2, UnmovedStutters DEF Follows

LEMMA EnqueueFollows ==
    ASSUME TypeOK, Account,
           NEW c \in Commands, NEW ch \in Channels, NEW r \in Requests,
           Enqueue(c, ch, r)
    PROVE  Account' /\ Follows
<1>1. /\ command'[c].status = "queued" /\ command'[c].channel = ch
      /\ command'[c].request = r /\ command'[c].outcome = "none"
  BY DEF TypeOK, Enqueue
<1>2. \A d \in Commands \ {c} : command'[d] = command[d]
  BY DEF TypeOK, Enqueue
<1>3. \A h \in Channels : active'[h] = IF h = ch THEN active[h] \cup {c} ELSE active[h]
  BY DEF TypeOK, Enqueue
<1>4. \A h \in Channels : c \notin active[h] /\ active[h] \subseteq Commands
  BY DEF TypeOK, Enqueue, Account, Pending
<1>5. Account'
  <2>1. ASSUME NEW h \in Channels, NEW d \in active'[h]
        PROVE  /\ command'[d].status \in {"queued", "leased"}
               /\ command'[d].channel = h
    <3>1. CASE d = c
      <4>1. h = ch BY <1>3, <1>4, <2>1, <3>1
      <4>2. QED BY <1>1, <3>1, <4>1
    <3>2. CASE d # c
      <4>1. d \in active[h] /\ d \in Commands BY <1>3, <1>4, <2>1, <3>2
      <4>2. QED BY <1>2, <3>2, <4>1 DEF Account, Pending
    <3>3. QED BY <3>1, <3>2
  <2>2. ASSUME NEW d \in Commands, command'[d].status \in {"queued", "leased"}
        PROVE  /\ command'[d].channel \in Channels
               /\ d \in active'[command'[d].channel]
               /\ command'[d].request \in Requests
    <3>1. CASE d = c BY <1>1, <1>3, <3>1
    <3>2. CASE d # c
      <4>1. command'[d] = command[d] BY <1>2, <3>2
      <4>2. /\ command[d].channel \in Channels
            /\ d \in active[command[d].channel]
            /\ command[d].request \in Requests
        BY <2>2, <4>1 DEF Account, Pending
      <4>3. QED BY <1>3, <4>1, <4>2
    <3>3. QED BY <3>1, <3>2
  <2>3. \A d \in Commands :
           command'[d].status \in {"queued", "leased", "unused"} =>
           command'[d].outcome = "none"
    BY <1>1, <1>2 DEF Account, Pending
  <2>4. QED BY <2>1, <2>2, <2>3 DEF Account, Pending
<1>6. Lifecycle!Submit(c)
  <2>1. command[c].status = "unused" /\ command[c].outcome = "none"
    BY DEF Enqueue, Account
  <2>2. QED BY <1>1, <1>2, <2>1 DEF Lifecycle!Submit
<1>7. QED BY <1>5, <1>6 DEF Follows, Lifecycle!Next

LEMMA LeaseFollows ==
    ASSUME NEW c \in Commands, Lifecycle!Lease(c)
    PROVE  Follows
BY DEF Follows, Lifecycle!Next

LEMMA LooksFollows ==
    ASSUME TypeOK, Account,
           NEW p \in Polls, NEW ch \in Channels, Looks(p, ch)
    PROVE  Account' /\ Follows
<1>1. ASSUME NEW i \in DOMAIN queue[ch], TakesQueued(p, ch, i)
      PROVE  Account' /\ Follows
  <2>0. PICK c \in Commands : c = queue[ch][i]
    BY DEF TypeOK
  <2>1. c \in active[ch] /\ command[c].status = "queued"
    BY <1>1, <2>0 DEF TakesQueued, Live
  <2>2. /\ command'[c].status = "leased"
        /\ command'[c].channel = command[c].channel
        /\ command'[c].request = command[c].request
        /\ command'[c].outcome = command[c].outcome
    <3>1. command[c] \in CommandRecord BY <2>1 DEF TypeOK
    <3>2. command'[c] = [command[c] EXCEPT !.status = "leased"]
      BY <1>1, <2>0 DEF TypeOK, TakesQueued
    <3>3. QED BY <3>1, <3>2 DEF CommandRecord
  <2>3. \A d \in Commands \ {c} : command'[d] = command[d]
    BY <1>1, <2>0 DEF TypeOK, TakesQueued
  <2>4. active' = active BY DEF Looks
  <2>5. Account'
    <3>1. ASSUME NEW h \in Channels, NEW d \in active[h]
          PROVE  /\ command'[d].status \in {"queued", "leased"}
                 /\ command'[d].channel = h
      <4>1. d \in Commands BY DEF TypeOK
      <4>2. command[d].channel = h /\ Pending(d) BY DEF Account
      <4>3. QED BY <2>2, <2>3, <4>1, <4>2 DEF Pending
    <3>2. \A d \in Commands : command'[d].status \in {"queued", "leased"} =>
             /\ command'[d].channel \in Channels
             /\ d \in active[command'[d].channel]
             /\ command'[d].request \in Requests
      BY <2>1, <2>2, <2>3 DEF Account, Pending
    <3>3. \A d \in Commands :
             command'[d].status \in {"queued", "leased", "unused"} =>
             command'[d].outcome = "none"
      BY <2>1, <2>2, <2>3 DEF Account, Pending
    <3>4. QED BY <2>4, <3>1, <3>2, <3>3 DEF Account, Pending
  <2>6. Lifecycle!Lease(c) BY <2>1, <2>2, <2>3 DEF Lifecycle!Lease
  <2>7. Follows BY <2>6, LeaseFollows
  <2>8. QED BY <2>5, <2>7
<1>2. CASE UNCHANGED command
  BY <1>2, SameAccount DEF Looks
<1>3. QED BY <1>1, <1>2 DEF Looks

LEMMA CallStepFollows ==
    ASSUME TypeInv, Account, NEW c \in Commands, CallStep(c)
    PROVE  Account' /\ Follows
<1>1. ASSUME NEW ch \in Channels, NEW r \in Requests, Enqueue(c, ch, r)
      PROVE  Account' /\ Follows
  BY <1>1, EnqueueFollows DEF TypeInv
<1>2. CASE CallAnswers(c) \/ ClientLeaves(c)
  BY <1>2, SameAccount DEF CallAnswers, ClientLeaves
<1>3. ASSUME NEW ending \in {<<"expired", "error">>, <<"cancelled", "cancelled">>},
             c \in active[command[c].channel],
             Finish({c}, ending[1], ending[2]),
             command[c].channel \in Channels
      PROVE  Account' /\ Follows
  <2>1. \A d \in {c} : Pending(d) BY <1>3 DEF Account
  <2>2. /\ ending \in Lifecycle!Ending
        /\ ending[1] \notin {"lost", "completed"}
    BY <1>3 DEF Lifecycle!Ending
  <2>3. QED BY <1>3, <2>1, <2>2, FinishFollows DEF TypeInv
<1>4. Waits(c) => command[c].channel \in Channels
  BY DEF TypeInv, CallsHaveChannels
<1>5. CASE CallExpires(c)
  BY <1>3, <1>4, <1>5 DEF CallExpires
<1>6. CASE CallCancelled(c)
  BY <1>3, <1>4, <1>6 DEF CallCancelled, Waits
<1>7. QED BY <1>1, <1>2, <1>5, <1>6 DEF CallStep

LEMMA CancelFollows ==
    ASSUME TypeOK, Account, NEW ended \in SUBSET Commands,
           \A c \in ended : Pending(c),
           NEW outcome \in {"cancelled", "error"},
           Finish(ended, "cancelled", outcome)
    PROVE  Account' /\ Follows
<1> DEFINE ending == <<"cancelled", outcome>>
<1>1. ending \in Lifecycle!Ending BY DEF Lifecycle!Ending
<1>2. ending[1] = "cancelled" /\ ending[2] = outcome OBVIOUS
<1> HIDE DEF ending
<1>3. QED BY <1>1, <1>2, FinishFollows

LEMMA CancelStepFollows ==
    ASSUME TypeOK, Account, NEW ch \in Channels, CancelStep(ch)
    PROVE  Account' /\ Follows
<1>1. active[ch] \in SUBSET Commands /\ \A c \in active[ch] : Pending(c)
  BY DEF TypeOK, Account
<1>2. ASSUME NEW r \in Requests, CancelRequest(ch, r) PROVE Account' /\ Follows
  BY <1>1, <1>2, CancelFollows DEF CancelRequest
<1>3. ASSUME NEW s \in Sessions, CancelSession(ch, s) PROVE Account' /\ Follows
  BY <1>1, <1>3, CancelFollows DEF CancelSession
<1>4. QED BY <1>2, <1>3 DEF CancelStep

LEMMA PollStepFollows ==
    ASSUME TypeInv, Account, NEW p \in Polls, PollStep(p)
    PROVE  Account' /\ Follows
<1>1. ASSUME NEW ch \in Channels, PollArrives(p, ch) PROVE Account' /\ Follows
  BY <1>1, LooksFollows DEF PollArrives, TypeInv
<1>2. CASE PollResumes(p)
  BY <1>2, LooksFollows DEF PollResumes, TypeInv, PollsHaveChannels
<1>3. CASE PollTimesOut(p)
  BY <1>3, SameAccount DEF PollTimesOut
<1>4. QED BY <1>1, <1>2, <1>3 DEF PollStep

LEMMA ResultStepFollows ==
    ASSUME TypeOK, Account, NEW c \in Commands, ResultStep(c)
    PROVE  Account' /\ Follows
<1>1. PICK ch \in Channels, outcome \in {"result", "error"} : ResultArrives(c, ch, outcome)
  BY DEF ResultStep
<1> DEFINE ending == <<"completed", outcome>>
<1>2. ending \in Lifecycle!Ending BY DEF Lifecycle!Ending
<1>3. ending[1] = "completed" /\ ending[2] = outcome OBVIOUS
<1>4. /\ \A d \in {c} : Pending(d) /\ command[d].status = "leased"
      /\ Finish({c}, "completed", outcome)
  BY <1>1 DEF ResultArrives, Pending
<1> HIDE DEF ending
<1>5. QED BY <1>2, <1>3, <1>4, FinishFollows

LEMMA RestartFollows ==
    ASSUME TypeOK, Account, Restart
    PROVE  Account' /\ Follows
<1> DEFINE ended == {c \in Commands : Pending(c)}
<1>1. \A c \in Commands : Pending(c) <=> \E ch \in Channels : c \in active[ch]
  BY DEF Account
<1>2. ASSUME NEW c \in Commands
      PROVE  /\ command'[c].status = IF Pending(c) THEN "lost" ELSE command[c].status
             /\ command'[c].outcome = command[c].outcome
             /\ Pending(c) => command[c].outcome = "none"
  <2>1. command[c] \in CommandRecord BY DEF TypeOK
  <2>2. command'[c] = IF \E ch \in Channels : c \in active[ch]
                      THEN [command[c] EXCEPT !.status = "lost"] ELSE command[c]
    BY DEF Restart
  <2>3. CASE Pending(c)
    BY <1>1, <2>1, <2>2, <2>3 DEF Account, CommandRecord
  <2>4. CASE ~Pending(c)
    BY <1>1, <2>1, <2>2, <2>4
  <2>5. QED BY <2>3, <2>4
<1>3. Account'
  <2>1. \A ch \in Channels : active'[ch] = {} BY DEF Restart
  <2>2. \A c \in Commands : command'[c].status \notin {"queued", "leased"}
    BY <1>2 DEF Pending
  <2>3. \A c \in Commands : command'[c].status = "unused" => command'[c].outcome = "none"
    BY <1>2 DEF Account
  <2>4. QED BY <2>1, <2>2, <2>3 DEF Account, Pending
<1>4. Follows
  <2> DEFINE ending == <<"lost", "none">>
  <2>1. ending \in Lifecycle!Ending /\ ending[1] = "lost" /\ ending[2] = "none"
    BY DEF Lifecycle!Ending
  <2>2. ended \in SUBSET Commands /\ \A c \in Commands : c \in ended <=> Pending(c)
    OBVIOUS
  <2> HIDE DEF ended, ending
  <2>3. \A c \in Commands :
           /\ command'[c].status = IF c \in ended THEN ending[1] ELSE command[c].status
           /\ command'[c].outcome = IF c \in ended THEN ending[2] ELSE command[c].outcome
    BY <1>2, <2>1, <2>2
  <2>4. Lifecycle!Next
    BY <2>1, <2>2, <2>3, EndsInLifecycle
  <2>5. QED BY <2>4 DEF Follows
<1>5. QED BY <1>3, <1>4

LEMMA NextFollows ==
    ASSUME TypeInv, Account, [Next]_vars
    PROVE  Account' /\ Follows
<1>1. ASSUME NEW p \in Polls, PollStep(p) PROVE Account' /\ Follows
  BY <1>1, PollStepFollows
<1>2. CASE Shutdown
  <2>1. UNION {active[ch] : ch \in Channels} \in SUBSET Commands
    BY DEF TypeInv, TypeOK
  <2>2. \A c \in UNION {active[ch] : ch \in Channels} : Pending(c)
    BY DEF Account
  <2>3. QED BY <1>2, <2>1, <2>2, CancelFollows DEF Shutdown, TypeInv
<1>3. CASE UNCHANGED vars
  BY <1>3, SameAccount DEF vars
<1>4. TypeOK BY DEF TypeInv
<1>5. QED BY <1>1, <1>2, <1>3, <1>4, CallStepFollows, CancelStepFollows,
          ResultStepFollows, RestartFollows DEF Next

LEMMA AccountInvariant == Spec => []Account
<1>1. Init => Account
  BY DEF Init, Account, Pending, NoCommand
<1>2. QED BY <1>1, NextFollows, TypeInvariant, PTL DEF Spec

\* The proxy implements CommandLifecycle: however polls, results, time-outs,
\* cancellations, shutdown and restarts interleave, a command is leased once and
\* ended once, and its caller's result is that of the 1C which had it leased.
THEOREM ProxyImplementsLifecycle == Spec => ImplementsLifecycle
<1>1. Init => Lifecycle!Init
  BY DEF Init, Lifecycle!Init, NoCommand
<1>2. TypeInv /\ Account /\ [Next]_vars => [Lifecycle!Next]_Lifecycle!vars
  BY NextFollows DEF Follows
<1>3. QED BY <1>1, <1>2, TypeInvariant, AccountInvariant, PTL
          DEF Spec, ImplementsLifecycle, Lifecycle!Spec

-----------------------------------------------------------------------------
(* The queue.                                                                *)

\* The ids in a queue are distinct and of commands that were enqueued, and the
\* queued commands of the channel are among them.
QueueInv ==
    /\ \A ch \in Channels : \A i, j \in DOMAIN queue[ch] :
          queue[ch][i] = queue[ch][j] => i = j
    /\ \A ch \in Channels : \A i \in DOMAIN queue[ch] :
          command[queue[ch][i]].status # "unused"
    /\ \A ch \in Channels : \A c \in active[ch] :
          command[c].status = "queued" => \E i \in DOMAIN queue[ch] : queue[ch][i] = c

\* A step that queues nothing: no command becomes active, queued or unused.
NothingQueued ==
    /\ \A ch \in Channels : active'[ch] \subseteq active[ch]
    /\ \A c \in Commands : command'[c].status \in {"queued", "unused"} =>
          command'[c].status = command[c].status

LEMMA QueueStays ==
    ASSUME TypeOK, QueueInv, NothingQueued, UNCHANGED queue
    PROVE  QueueInv'
<1>1. \A ch \in Channels : \A i \in DOMAIN queue[ch] :
         command'[queue[ch][i]].status # "unused"
  BY DEF TypeOK, QueueInv, NothingQueued
<1>2. ASSUME NEW ch \in Channels, NEW c \in active'[ch], command'[c].status = "queued"
      PROVE  \E i \in DOMAIN queue[ch] : queue[ch][i] = c
  <2>1. c \in active[ch] BY DEF NothingQueued
  <2>2. c \in Commands BY <2>1 DEF TypeOK
  <2>3. command[c].status = "queued" BY <1>2, <2>2 DEF NothingQueued
  <2>4. QED BY <2>1, <2>3 DEF QueueInv
<1>3. QED BY <1>1, <1>2 DEF QueueInv

LEMMA FinishQueuesNothing ==
    ASSUME TypeOK, NEW ended \in SUBSET Commands,
           NEW status \in {"completed", "expired", "cancelled"}, NEW outcome,
           Finish(ended, status, outcome)
    PROVE  NothingQueued /\ UNCHANGED queue
<1>1. ASSUME NEW c \in Commands
      PROVE  command'[c].status = IF c \in ended THEN status ELSE command[c].status
  <2>1. command[c] \in CommandRecord BY DEF TypeOK
  <2>2. command'[c] = IF c \in ended
                      THEN [command[c] EXCEPT !.status = status,
                              !.outcome = IF @ = "none" THEN outcome ELSE @]
                      ELSE command[c]
    BY DEF Finish
  <2>3. QED BY <2>1, <2>2 DEF CommandRecord
<1>2. \A ch \in Channels : active'[ch] \subseteq active[ch]
  BY DEF TypeOK, Finish
<1>3. QED BY <1>1, <1>2 DEF NothingQueued, Finish

LEMMA EnqueueQueue ==
    ASSUME TypeOK, Account, QueueInv,
           NEW c \in Commands, NEW ch \in Channels, NEW r \in Requests,
           Enqueue(c, ch, r)
    PROVE  QueueInv'
<1> DEFINE n == Len(queue[ch]) + 1
<1>1. /\ queue[ch] \in Seq(Commands) /\ n \in Nat \ {0}
      /\ DOMAIN queue[ch] = 1 .. (n - 1)
  BY DEF TypeOK
<1>2. /\ queue'[ch] = Append(queue[ch], c)
      /\ \A h \in Channels \ {ch} : queue'[h] = queue[h]
  BY DEF TypeOK, Enqueue
<1>3. /\ DOMAIN queue'[ch] = 1 .. n
      /\ queue'[ch][n] = c
      /\ \A i \in 1 .. (n - 1) : queue'[ch][i] = queue[ch][i]
  BY <1>1, <1>2
<1>4. /\ \A d \in Commands \ {c} : command'[d] = command[d]
      /\ command'[c].status = "queued" /\ command[c].status = "unused"
      /\ \A h \in Channels : active'[h] \subseteq active[h] \cup {c}
      /\ \A h \in Channels \ {ch} : active'[h] = active[h]
  BY DEF TypeOK, Enqueue
<1>5. \A h \in Channels : \A i \in DOMAIN queue[h] :
         queue[h][i] \in Commands /\ queue[h][i] # c
  BY <1>4 DEF TypeOK, QueueInv
<1> HIDE DEF n
<1>6. ASSUME NEW h \in Channels, NEW i \in DOMAIN queue'[h], NEW j \in DOMAIN queue'[h],
             queue'[h][i] = queue'[h][j]
      PROVE  i = j
  <2>1. CASE h # ch BY <1>2, <1>6, <2>1 DEF QueueInv
  <2>2. CASE h = ch
    <3>1. i \in 1 .. n /\ j \in 1 .. n BY <1>3, <1>6, <2>2
    <3>2. \A k \in 1 .. n : k # n => k \in 1 .. (n - 1) BY <1>1
    <3>3. \A k \in 1 .. (n - 1) : queue'[ch][k] # c BY <1>1, <1>3, <1>5
    <3>4. CASE i = n \/ j = n BY <1>3, <1>6, <2>2, <3>1, <3>2, <3>3, <3>4
    <3>5. CASE i # n /\ j # n
      <4>1. i \in DOMAIN queue[ch] /\ j \in DOMAIN queue[ch]
        BY <1>1, <3>1, <3>2, <3>5
      <4>2. queue[ch][i] = queue[ch][j] BY <1>1, <1>3, <1>6, <2>2, <4>1
      <4>3. QED BY <4>1, <4>2 DEF QueueInv
    <3>6. QED BY <3>4, <3>5
  <2>3. QED BY <2>1, <2>2
<1>7. ASSUME NEW h \in Channels, NEW i \in DOMAIN queue'[h]
      PROVE  command'[queue'[h][i]].status # "unused"
  <2>1. CASE h # ch BY <1>2, <1>4, <1>5, <1>7, <2>1 DEF QueueInv
  <2>2. CASE h = ch
    <3>1. CASE i = n BY <1>3, <1>4, <2>2, <3>1
    <3>2. CASE i # n
      <4>1. i \in 1 .. (n - 1) BY <1>1, <1>3, <1>7, <2>2, <3>2
      <4>2. QED BY <1>1, <1>3, <1>4, <1>5, <2>2, <4>1 DEF QueueInv
    <3>3. QED BY <3>1, <3>2
  <2>3. QED BY <2>1, <2>2
<1>8. ASSUME NEW h \in Channels, NEW d \in active'[h], command'[d].status = "queued"
      PROVE  \E i \in DOMAIN queue'[h] : queue'[h][i] = d
  <2>1. CASE d = c /\ h = ch
    <3>1. n \in 1 .. n BY <1>1
    <3>2. n \in DOMAIN queue'[ch] /\ queue'[ch][n] = c BY <1>3, <3>1
    <3>3. QED BY <2>1, <3>2
  <2>2. CASE h # ch
    <3>1. d \in active[h] /\ d \in Commands BY <1>4, <1>8, <2>2 DEF TypeOK
    <3>2. d # c BY <1>4, <3>1 DEF Account, Pending
    <3>3. QED BY <1>2, <1>4, <1>8, <2>2, <3>1, <3>2 DEF QueueInv
  <2>3. CASE d # c /\ h = ch
    <3>1. d \in active[ch] /\ d \in Commands BY <1>4, <1>8, <2>3 DEF TypeOK
    <3>2. PICK i \in DOMAIN queue[ch] : queue[ch][i] = d
      BY <1>4, <1>8, <2>3, <3>1 DEF QueueInv
    <3>3. i \in 1 .. n /\ i \in 1 .. (n - 1) BY <1>1, <3>2
    <3>4. QED BY <1>3, <2>3, <3>2, <3>3
  <2>4. QED BY <2>1, <2>2, <2>3
<1>9. QED BY <1>6, <1>7, <1>8 DEF QueueInv

LEMMA LooksQueue ==
    ASSUME TypeOK, QueueInv, NEW p \in Polls, NEW ch \in Channels, Looks(p, ch)
    PROVE  QueueInv'
<1>1. active' = active BY DEF Looks
<1>2. ASSUME NEW i \in DOMAIN queue[ch], TakesQueued(p, ch, i)
      PROVE  QueueInv'
  <2> DEFINE n == Len(queue[ch])
  <2>1. /\ queue[ch] \in Seq(Commands) /\ n \in Nat
        /\ DOMAIN queue[ch] = 1 .. n /\ i \in 1 .. n
    BY DEF TypeOK
  <2>2. PICK c \in Commands : c = queue[ch][i]
    BY <2>1
  <2>3. /\ queue'[ch] = SubSeq(queue[ch], i + 1, n)
        /\ \A h \in Channels \ {ch} : queue'[h] = queue[h]
    BY <1>2 DEF TypeOK, TakesQueued
  <2>4. /\ DOMAIN queue'[ch] = 1 .. (n - i)
        /\ \A k \in 1 .. (n - i) : queue'[ch][k] = queue[ch][k + i]
    BY <2>1, <2>3
  <2>5. /\ \A d \in Commands \ {c} : command'[d] = command[d]
        /\ command'[c].status = "leased"
    <3>1. command[c] \in CommandRecord BY DEF TypeOK
    <3>2. command' = [command EXCEPT ![c].status = "leased"]
      BY <1>2, <2>2 DEF TakesQueued
    <3>3. QED BY <3>1, <3>2 DEF TypeOK, CommandRecord
  <2>6. \A h \in Channels : \A k \in DOMAIN queue[h] : queue[h][k] \in Commands
    BY DEF TypeOK
  <2> HIDE DEF n
  <2>7. \A k \in 1 .. (n - i) : k + i \in 1 .. n BY <2>1
  <2>8. ASSUME NEW h \in Channels, NEW j \in DOMAIN queue'[h], NEW k \in DOMAIN queue'[h],
               queue'[h][j] = queue'[h][k]
        PROVE  j = k
    <3>1. CASE h # ch BY <2>3, <2>8, <3>1 DEF QueueInv
    <3>2. CASE h = ch
      <4>1. j \in 1 .. (n - i) /\ k \in 1 .. (n - i) BY <2>4, <2>8, <3>2
      <4>2. queue[ch][j + i] = queue[ch][k + i] BY <2>4, <2>8, <3>2, <4>1
      <4>3. j + i \in DOMAIN queue[ch] /\ k + i \in DOMAIN queue[ch]
        BY <2>1, <2>7, <4>1
      <4>4. j + i = k + i BY <4>2, <4>3 DEF QueueInv
      <4>5. QED BY <2>1, <4>1, <4>4
    <3>3. QED BY <3>1, <3>2
  <2>9. ASSUME NEW h \in Channels, NEW k \in DOMAIN queue'[h]
        PROVE  command'[queue'[h][k]].status # "unused"
    <3>1. PICK m \in DOMAIN queue[h] : queue'[h][k] = queue[h][m]
      BY <2>1, <2>3, <2>4, <2>7, <2>9
    <3>2. QED BY <2>5, <2>6, <3>1 DEF QueueInv
  <2>10. ASSUME NEW h \in Channels, NEW d \in active[h], command'[d].status = "queued"
         PROVE  \E k \in DOMAIN queue'[h] : queue'[h][k] = d
    <3>1. d \in Commands /\ d # c /\ command[d].status = "queued"
      BY <2>5, <2>10 DEF TypeOK
    <3>2. PICK m \in DOMAIN queue[h] : queue[h][m] = d BY <3>1 DEF QueueInv
    <3>3. CASE h # ch BY <2>3, <3>2, <3>3
    <3>4. CASE h = ch
      <4>1. m \in 1 .. n /\ m # i BY <2>1, <2>2, <3>1, <3>2, <3>4
      <4>2. ~(m \in 1 .. (i - 1)) BY <1>2, <3>1, <3>2, <3>4 DEF TakesQueued, Live
      <4>3. m - i \in 1 .. (n - i) /\ (m - i) + i = m BY <2>1, <4>1, <4>2
      <4>4. QED BY <2>4, <3>2, <3>4, <4>3
    <3>5. QED BY <3>3, <3>4
  <2>11. QED BY <1>1, <2>8, <2>9, <2>10 DEF QueueInv
<1>3. CASE /\ \A i \in DOMAIN queue[ch] : ~Live(ch, queue[ch][i])
           /\ queue' = [queue EXCEPT ![ch] = << >>]
           /\ UNCHANGED command
  <2>1. queue'[ch] = << >> /\ \A h \in Channels \ {ch} : queue'[h] = queue[h]
    BY <1>3 DEF TypeOK
  <2>2. DOMAIN queue'[ch] = {} BY <2>1
  <2>3. \A d \in active[ch] : command[d].status # "queued"
    BY <1>3 DEF QueueInv, Live
  <2>4. QED BY <1>1, <1>3, <2>1, <2>2, <2>3 DEF QueueInv
<1>4. QED BY <1>2, <1>3 DEF Looks

LEMMA NextQueue ==
    ASSUME TypeInv, Account, QueueInv, [Next]_vars
    PROVE  QueueInv'
<1>1. TypeOK BY DEF TypeInv
<1>2. ASSUME NEW ended \in SUBSET Commands,
             NEW status \in {"completed", "expired", "cancelled"}, NEW outcome,
             Finish(ended, status, outcome)
      PROVE  QueueInv'
  BY <1>1, <1>2, FinishQueuesNothing, QueueStays
<1>3. ASSUME UNCHANGED <<command, active, queue>> PROVE QueueInv'
  BY <1>3 DEF QueueInv
<1>4. ASSUME NEW c \in Commands, CallStep(c) PROVE QueueInv'
  <2>1. ASSUME NEW ch \in Channels, NEW r \in Requests, Enqueue(c, ch, r)
        PROVE  QueueInv'
    BY <1>1, <2>1, EnqueueQueue
  <2>2. CASE CallAnswers(c) \/ ClientLeaves(c)
    BY <1>3, <2>2 DEF CallAnswers, ClientLeaves
  <2>3. CASE CallExpires(c) \/ CallCancelled(c)
    BY <1>2, <2>3 DEF CallExpires, CallCancelled
  <2>4. QED BY <1>4, <2>1, <2>2, <2>3 DEF CallStep
<1>5. ASSUME NEW c \in Commands, ResultStep(c) PROVE QueueInv'
  BY <1>2, <1>5 DEF ResultStep, ResultArrives
<1>6. ASSUME NEW ch \in Channels, CancelStep(ch) PROVE QueueInv'
  <2>1. active[ch] \subseteq Commands BY <1>1 DEF TypeOK
  <2>2. ASSUME NEW r \in Requests, CancelRequest(ch, r) PROVE QueueInv'
    BY <1>2, <2>1, <2>2 DEF CancelRequest
  <2>3. ASSUME NEW s \in Sessions, CancelSession(ch, s) PROVE QueueInv'
    BY <1>2, <2>1, <2>3 DEF CancelSession
  <2>4. QED BY <1>6, <2>2, <2>3 DEF CancelStep
<1>7. ASSUME NEW p \in Polls, PollStep(p) PROVE QueueInv'
  <2>1. ASSUME NEW ch \in Channels, PollArrives(p, ch) PROVE QueueInv'
    BY <1>1, <2>1, LooksQueue DEF PollArrives
  <2>2. CASE PollResumes(p)
    BY <1>1, <2>2, LooksQueue DEF PollResumes, TypeInv, PollsHaveChannels
  <2>3. CASE PollTimesOut(p) BY <1>3, <2>3 DEF PollTimesOut
  <2>4. QED BY <1>7, <2>1, <2>2, <2>3 DEF PollStep
<1>8. CASE Shutdown
  <2>1. UNION {active[ch] : ch \in Channels} \in SUBSET Commands BY <1>1 DEF TypeOK
  <2>2. QED BY <1>2, <1>8, <2>1 DEF Shutdown
<1>9. CASE Restart
  <2>1. \A ch \in Channels : active'[ch] = {} /\ queue'[ch] = << >>
    BY <1>9 DEF Restart
  <2>2. \A ch \in Channels : DOMAIN queue'[ch] = {} BY <2>1
  <2>3. QED BY <2>1, <2>2 DEF QueueInv
<1>10. CASE UNCHANGED vars BY <1>3, <1>10 DEF vars
<1>11. QED BY <1>4, <1>5, <1>6, <1>7, <1>8, <1>9, <1>10 DEF Next

LEMMA QueueInvariant == Spec => []QueueInv
<1>1. Init => QueueInv
  <2>1. SUFFICES ASSUME Init PROVE QueueInv OBVIOUS
  <2>2. \A ch \in Channels : active[ch] = {} /\ queue[ch] = << >>
    BY <2>1 DEF Init
  <2>3. \A ch \in Channels : DOMAIN queue[ch] = {} BY <2>2
  <2>4. QED BY <2>2, <2>3 DEF QueueInv
<1>2. QED BY <1>1, NextQueue, TypeInvariant, AccountInvariant, PTL DEF Spec

\* A queued command is in the queue of its channel exactly once.
THEOREM QueuedExactlyOnce == Spec => []QueuedWaitsInQueue
<1>1. QueueInv => QueuedWaitsInQueue
  <2>1. SUFFICES ASSUME QueueInv, NEW ch \in Channels, NEW c \in active[ch],
                        command[c].status = "queued"
                 PROVE  Cardinality({i \in DOMAIN queue[ch] : queue[ch][i] = c}) = 1
    BY DEF QueuedWaitsInQueue
  <2>2. PICK i \in DOMAIN queue[ch] : queue[ch][i] = c BY <2>1 DEF QueueInv
  <2>3. {j \in DOMAIN queue[ch] : queue[ch][j] = c} = {i} BY <2>1, <2>2 DEF QueueInv
  <2>4. QED BY <2>3, FS_Singleton
<1>2. QED BY <1>1, QueueInvariant, PTL

-----------------------------------------------------------------------------
(* Polls.                                                                    *)

\* A step after which no poll sleeps un-notified.
LEMMA AllWoken ==
    ASSUME TypeOK, poll' = Notified
    PROVE  \A p \in Polls : poll'[p].at # "waiting"
BY DEF TypeOK, Notified, PollRecord

LEMMA FinishWakes ==
    ASSUME TypeOK, NEW ended, NEW status, NEW outcome, Finish(ended, status, outcome)
    PROVE  \A p \in Polls : poll'[p].at # "waiting"
BY AllWoken DEF Finish

LEMMA LooksWakeup ==
    ASSUME TypeOK, QueueInv, NoMissedWakeup,
           NEW p \in Polls, NEW ch \in Channels, Looks(p, ch)
    PROVE  NoMissedWakeup'
<1>1. active' = active BY DEF Looks
<1>2. ASSUME NEW i \in DOMAIN queue[ch], TakesQueued(p, ch, i)
      PROVE  NoMissedWakeup'
  <2>1. PICK c \in Commands : c = queue[ch][i] BY DEF TypeOK
  <2>2. \A d \in Commands : command'[d].status = "queued" => command[d].status = "queued"
    <3>1. command[c] \in CommandRecord BY DEF TypeOK
    <3>2. command' = [command EXCEPT ![c].status = "leased"]
      BY <1>2, <2>1 DEF TakesQueued
    <3>3. QED BY <3>1, <3>2 DEF TypeOK, CommandRecord
  <2>3. \A q \in Polls : poll'[q].at = "waiting" => poll'[q] = poll[q]
    BY <1>2 DEF TypeOK, TakesQueued, Idle
  <2>4. \A q \in Polls : poll[q].at = "waiting" =>
           \A d \in active[poll[q].channel] : command[d].status # "queued"
    BY DEF NoMissedWakeup
  <2>5. ASSUME NEW q \in Polls, poll'[q].at = "waiting", NEW d \in active'[poll'[q].channel]
        PROVE  command'[d].status # "queued"
    <3>1. poll'[q] = poll[q] BY <2>3, <2>5
    <3>2. d \in active[poll[q].channel] /\ command[d].status # "queued"
      BY <1>1, <2>4, <2>5, <3>1
    <3>3. CASE d \in Commands BY <2>2, <3>2, <3>3
    <3>4. CASE d \notin Commands
      BY <1>2, <2>1, <3>2, <3>4 DEF TypeOK, TakesQueued
    <3>5. QED BY <3>3, <3>4
  <2>6. QED BY <2>5 DEF NoMissedWakeup
<1>3. CASE /\ \A i \in DOMAIN queue[ch] : ~Live(ch, queue[ch][i])
           /\ poll' = [poll EXCEPT ![p] = IF closed THEN Idle
                                ELSE [at |-> "waiting", channel |-> ch]]
           /\ UNCHANGED command
  <2>1. \A c \in active[ch] : command[c].status # "queued"
    BY <1>3 DEF QueueInv, Live
  <2>2. \A q \in Polls \ {p} : poll'[q] = poll[q]
    BY <1>3 DEF TypeOK
  <2>3. poll'[p].at = "waiting" => poll'[p].channel = ch
    BY <1>3 DEF TypeOK, Idle
  <2>4. QED BY <1>1, <1>3, <2>1, <2>2, <2>3 DEF NoMissedWakeup
<1>4. QED BY <1>2, <1>3 DEF Looks

\* A sleeping poll never misses a command, however many channels and polls share
\* the one condition: what it would take is in its queue when it looks, and every
\* enqueue wakes every poll.
THEOREM ProxyNoMissedWakeup == Spec => []NoMissedWakeup
<1>1. Init => NoMissedWakeup
  BY DEF Init, NoMissedWakeup, Idle
<1>2. ASSUME TypeInv, QueueInv, NoMissedWakeup, [Next]_vars PROVE NoMissedWakeup'
  <2>1. TypeOK BY <1>2 DEF TypeInv
  <2>2. (\A p \in Polls : poll'[p].at # "waiting") => NoMissedWakeup'
    BY DEF NoMissedWakeup
  <2>3. UNCHANGED <<command, active, poll>> => NoMissedWakeup'
    BY <1>2 DEF NoMissedWakeup
  <2>4. ASSUME NEW c \in Commands, CallStep(c) PROVE NoMissedWakeup'
    BY <2>1, <2>2, <2>3, <2>4, AllWoken, FinishWakes
    DEF CallStep, Enqueue, CallAnswers, ClientLeaves, CallExpires, CallCancelled
  <2>5. ASSUME NEW c \in Commands, ResultStep(c) PROVE NoMissedWakeup'
    BY <2>1, <2>2, <2>5, FinishWakes DEF ResultStep, ResultArrives
  <2>6. ASSUME NEW ch \in Channels, CancelStep(ch) PROVE NoMissedWakeup'
    BY <2>1, <2>2, <2>6, FinishWakes DEF CancelStep, CancelRequest, CancelSession
  <2>7. ASSUME NEW p \in Polls, PollStep(p) PROVE NoMissedWakeup'
    <3>1. ASSUME NEW ch \in Channels, PollArrives(p, ch) PROVE NoMissedWakeup'
      BY <1>2, <2>1, <3>1, LooksWakeup DEF PollArrives
    <3>2. CASE PollResumes(p)
      BY <1>2, <2>1, <3>2, LooksWakeup DEF PollResumes, TypeInv, PollsHaveChannels
    <3>3. CASE PollTimesOut(p)
      BY <1>2, <2>1, <3>3 DEF PollTimesOut, NoMissedWakeup, TypeOK, Idle
    <3>4. QED BY <2>7, <3>1, <3>2, <3>3 DEF PollStep
  <2>8. CASE Shutdown BY <2>1, <2>2, <2>8, FinishWakes DEF Shutdown
  <2>9. CASE Restart BY <2>2, <2>9 DEF Restart, Idle
  <2>10. CASE UNCHANGED vars BY <2>3, <2>10 DEF vars
  <2>11. QED BY <1>2, <2>4, <2>5, <2>6, <2>7, <2>8, <2>9, <2>10 DEF Next
<1>3. QED BY <1>1, <1>2, TypeInvariant, QueueInvariant, PTL DEF Spec

-----------------------------------------------------------------------------
(* Shutdown and the request index.                                           *)

LEMMA FinishShrinks ==
    ASSUME TypeOK, NEW ended, NEW status, NEW outcome, Finish(ended, status, outcome)
    PROVE  \A ch \in Channels : active'[ch] = active[ch] \ ended
BY DEF Finish

\* Whatever was in flight when the proxy shut down is over: nothing is left
\* pending and no poll sleeps.
THEOREM ProxyNothingAfterShutdown == Spec => []NothingPendingAfterShutdown
<1>1. Init => NothingPendingAfterShutdown
  BY DEF Init, NothingPendingAfterShutdown
<1>2. ASSUME TypeInv, NothingPendingAfterShutdown, [Next]_vars
      PROVE  NothingPendingAfterShutdown'
  <2>1. TypeOK BY <1>2 DEF TypeInv
  <2>2. ASSUME NEW ended, NEW status, NEW outcome,
               Finish(ended, status, outcome), UNCHANGED closed
        PROVE  NothingPendingAfterShutdown'
    <3>1. \A ch \in Channels : active'[ch] \subseteq active[ch]
      BY <2>1, <2>2, FinishShrinks
    <3>2. \A p \in Polls : poll'[p].at # "waiting" BY <2>1, <2>2, FinishWakes
    <3>3. QED BY <1>2, <2>2, <3>1, <3>2 DEF NothingPendingAfterShutdown
  <2>3. UNCHANGED <<closed, active, poll>> => NothingPendingAfterShutdown'
    BY <1>2 DEF NothingPendingAfterShutdown
  <2>4. ASSUME NEW c \in Commands, CallStep(c) PROVE NothingPendingAfterShutdown'
    <3>1. ASSUME NEW ch \in Channels, NEW r \in Requests, Enqueue(c, ch, r)
          PROVE  NothingPendingAfterShutdown'
      BY <3>1, Zenon DEF Enqueue, NothingPendingAfterShutdown
    <3>2. CASE CallAnswers(c) \/ ClientLeaves(c)
      BY <2>3, <3>2 DEF CallAnswers, ClientLeaves
    <3>3. CASE CallExpires(c) \/ CallCancelled(c)
      BY <2>2, <3>3 DEF CallExpires, CallCancelled
    <3>4. QED BY <2>4, <3>1, <3>2, <3>3 DEF CallStep
  <2>5. ASSUME NEW c \in Commands, ResultStep(c) PROVE NothingPendingAfterShutdown'
    BY <2>2, <2>5 DEF ResultStep, ResultArrives
  <2>6. ASSUME NEW ch \in Channels, CancelStep(ch) PROVE NothingPendingAfterShutdown'
    BY <2>2, <2>6 DEF CancelStep, CancelRequest, CancelSession
  <2>7. ASSUME NEW p \in Polls, PollStep(p) PROVE NothingPendingAfterShutdown'
    <3>1. ASSUME NEW ch \in Channels, Looks(p, ch) PROVE NothingPendingAfterShutdown'
      <4>1. UNCHANGED <<active, closed>> BY <3>1 DEF Looks
      <4>2. closed => poll' = [poll EXCEPT ![p] = Idle]
        <5>1. \/ poll' = [poll EXCEPT ![p] = Idle]
              \/ poll' = [poll EXCEPT ![p] = IF closed THEN Idle
                                 ELSE [at |-> "waiting", channel |-> ch]]
          BY <3>1 DEF Looks, TakesQueued
        <5>2. QED BY <5>1, Zenon
      <4>3. closed => \A q \in Polls : poll'[q].at # "waiting"
        <5>1. poll \in [Polls -> PollRecord] BY <2>1 DEF TypeOK
        <5>2. closed => \A q \in Polls : poll'[q] = IF q = p THEN Idle ELSE poll[q]
          BY <4>2, <5>1
        <5>3. QED BY <1>2, <5>2 DEF NothingPendingAfterShutdown, Idle
      <4>4. QED BY <1>2, <4>1, <4>3 DEF NothingPendingAfterShutdown
    <3>2. ASSUME NEW ch \in Channels, PollArrives(p, ch)
          PROVE  NothingPendingAfterShutdown'
      BY <3>1, <3>2 DEF PollArrives
    <3>3. CASE PollResumes(p)
      BY <1>2, <3>1, <3>3 DEF PollResumes, TypeInv, PollsHaveChannels
    <3>4. CASE PollTimesOut(p)
      BY <1>2, <2>1, <3>4 DEF PollTimesOut, NothingPendingAfterShutdown, TypeOK, Idle
    <3>5. QED BY <2>7, <3>2, <3>3, <3>4 DEF PollStep
  <2>8. CASE Shutdown
    <3>1. \A ch \in Channels : active'[ch] = {}
      BY <2>1, <2>8, FinishShrinks DEF Shutdown
    <3>2. \A p \in Polls : poll'[p].at # "waiting"
      BY <2>1, <2>8, FinishWakes DEF Shutdown
    <3>3. QED BY <3>1, <3>2 DEF NothingPendingAfterShutdown
  <2>9. CASE Restart BY <2>9, Zenon DEF Restart, NothingPendingAfterShutdown
  <2>10. CASE UNCHANGED vars BY <2>3, <2>10 DEF vars
  <2>11. QED BY <1>2, <2>4, <2>5, <2>6, <2>7, <2>8, <2>9, <2>10 DEF Next
<1>3. QED BY <1>1, <1>2, TypeInvariant, PTL DEF Spec

LEMMA FinishIndex ==
    ASSUME TypeOK, Account, PendingIsIndexed,
           NEW ended \in SUBSET Commands, \A c \in ended : Pending(c),
           NEW status, NEW outcome, Finish(ended, status, outcome)
    PROVE  PendingIsIndexed'
<1>1. \A ch \in Channels : active'[ch] = active[ch] \ ended /\ active[ch] \subseteq Commands
  BY DEF TypeOK, Finish
<1>2. \A c \in Commands : command'[c].request = command[c].request
  <2>1. \A c \in Commands : command[c] \in CommandRecord BY DEF TypeOK
  <2>2. QED BY <2>1 DEF Finish, CommandRecord
<1>3. \A ch \in Channels, r \in Requests :
         index'[ch][r] = IF \E c \in ended : /\ command[c].channel = ch
                                             /\ command[c].request = r
                         THEN None ELSE index[ch][r]
  BY DEF Finish
<1>4. \A ch \in Channels, c \in ended : command[c].channel = ch => c \in active[ch]
  BY DEF Account
<1>5. ASSUME NEW ch \in Channels, NEW c \in active'[ch]
      PROVE  index'[ch][command'[c].request] = c
  <2>1. c \in active[ch] /\ c \notin ended /\ c \in Commands BY <1>1
  <2>2. index[ch][command[c].request] = c BY <2>1 DEF PendingIsIndexed
  <2>3. command[c].request \in Requests BY <2>1 DEF Account
  <2>4. ~\E d \in ended : command[d].channel = ch /\ command[d].request = command[c].request
    BY <1>4, <2>1, <2>2 DEF PendingIsIndexed
  <2>5. QED BY <1>2, <1>3, <2>1, <2>2, <2>3, <2>4
<1>6. ASSUME NEW ch \in Channels, NEW r \in Requests, index'[ch][r] # None
      PROVE  /\ index'[ch][r] \in active'[ch]
             /\ command'[index'[ch][r]].request = r
  <2>1. /\ index'[ch][r] = index[ch][r]
        /\ ~\E d \in ended : command[d].channel = ch /\ command[d].request = r
    BY <1>3, <1>6
  <2>2. index[ch][r] \in active[ch] /\ command[index[ch][r]].request = r
    BY <1>6, <2>1 DEF PendingIsIndexed
  <2>3. index[ch][r] \notin ended BY <2>1, <2>2 DEF Account
  <2>4. QED BY <1>1, <1>2, <2>1, <2>2, <2>3
<1>7. QED BY <1>5, <1>6 DEF PendingIsIndexed

LEMMA EnqueueIndex ==
    ASSUME TypeOK, Account, PendingIsIndexed,
           NEW c \in Commands, NEW ch \in Channels, NEW r \in Requests,
           Enqueue(c, ch, r)
    PROVE  PendingIsIndexed'
<1>1. /\ command'[c].request = r
      /\ \A d \in Commands \ {c} : command'[d] = command[d]
  BY DEF TypeOK, Enqueue
<1>2. \A h \in Channels : /\ active'[h] = IF h = ch THEN active[h] \cup {c} ELSE active[h]
                          /\ active[h] \subseteq Commands
                          /\ c \notin active[h]
  BY DEF TypeOK, Enqueue, Account, Pending
<1>3. \A h \in Channels, q \in Requests :
         index'[h][q] = IF h = ch /\ q = r THEN c ELSE index[h][q]
  BY DEF TypeOK, Enqueue
<1>4. index[ch][r] = None /\ None \notin Commands
  BY ProxyAssumption DEF Enqueue
<1>5. ASSUME NEW h \in Channels, NEW d \in active'[h]
      PROVE  index'[h][command'[d].request] = d
  <2>1. CASE d = c
    <3>1. h = ch BY <1>2, <2>1
    <3>2. QED BY <1>1, <1>3, <2>1, <3>1
  <2>2. CASE d # c
    <3>1. d \in active[h] /\ d \in Commands /\ command'[d] = command[d]
      BY <1>1, <1>2, <2>2
    <3>2. index[h][command[d].request] = d /\ command[d].request \in Requests
      BY <3>1 DEF PendingIsIndexed, Account
    <3>3. ~(h = ch /\ command[d].request = r) BY <1>4, <3>1, <3>2
    <3>4. QED BY <1>3, <3>1, <3>2, <3>3
  <2>3. QED BY <2>1, <2>2
<1>6. ASSUME NEW h \in Channels, NEW q \in Requests, index'[h][q] # None
      PROVE  /\ index'[h][q] \in active'[h]
             /\ command'[index'[h][q]].request = q
  <2>1. CASE h = ch /\ q = r BY <1>1, <1>2, <1>3, <2>1
  <2>2. CASE ~(h = ch /\ q = r)
    <3>1. index'[h][q] = index[h][q] BY <1>3, <2>2
    <3>2. index[h][q] \in active[h] /\ command[index[h][q]].request = q
      BY <1>6, <3>1 DEF PendingIsIndexed
    <3>3. QED BY <1>1, <1>2, <3>1, <3>2
  <2>3. QED BY <2>1, <2>2
<1>7. QED BY <1>5, <1>6 DEF PendingIsIndexed

LEMMA LooksIndex ==
    ASSUME TypeOK, PendingIsIndexed, NEW p \in Polls, NEW ch \in Channels, Looks(p, ch)
    PROVE  PendingIsIndexed'
<1>1. UNCHANGED <<active, index>> BY DEF Looks
<1>2. \A c \in Commands : command'[c].request = command[c].request
  <2>1. \A c \in Commands : command[c] \in CommandRecord BY DEF TypeOK
  <2>2. ASSUME NEW i \in DOMAIN queue[ch], TakesQueued(p, ch, i), NEW c \in Commands
        PROVE  command'[c].request = command[c].request
    <3>1. command' = [command EXCEPT ![queue[ch][i]].status = "leased"]
      BY <2>2 DEF TakesQueued
    <3>2. \/ command'[c] = command[c]
          \/ command'[c] = [command[c] EXCEPT !.status = "leased"]
      BY <3>1 DEF TypeOK
    <3>3. QED BY <2>1, <3>2 DEF CommandRecord
  <2>3. QED BY <2>2 DEF Looks
<1>3. \A h \in Channels : active[h] \subseteq Commands BY DEF TypeOK
<1>4. QED BY <1>1, <1>2, <1>3 DEF PendingIsIndexed

\* The request index and the active commands stay the same commands.
THEOREM ProxyPendingIsIndexed == Spec => []PendingIsIndexed
<1>1. Init => PendingIsIndexed
  BY DEF Init, PendingIsIndexed
<1>2. ASSUME TypeInv, Account, PendingIsIndexed, [Next]_vars PROVE PendingIsIndexed'
  <2>1. TypeOK BY <1>2 DEF TypeInv
  <2>2. ASSUME NEW ended \in SUBSET Commands, \A c \in ended : Pending(c),
               NEW status, NEW outcome, Finish(ended, status, outcome)
        PROVE  PendingIsIndexed'
    BY <1>2, <2>1, <2>2, FinishIndex
  <2>3. UNCHANGED <<command, active, index>> => PendingIsIndexed'
    BY <1>2 DEF PendingIsIndexed
  <2>4. \A ch \in Channels : active[ch] \subseteq Commands /\ \A c \in active[ch] : Pending(c)
    BY <1>2, <2>1 DEF TypeOK, Account
  <2>5. ASSUME NEW c \in Commands, CallStep(c) PROVE PendingIsIndexed'
    <3>1. ASSUME NEW ch \in Channels, NEW r \in Requests, Enqueue(c, ch, r)
          PROVE  PendingIsIndexed'
      BY <1>2, <2>1, <3>1, EnqueueIndex
    <3>2. CASE CallAnswers(c) \/ ClientLeaves(c)
      BY <2>3, <3>2 DEF CallAnswers, ClientLeaves
    <3>3. CASE CallExpires(c) \/ CallCancelled(c)
      <4>1. command[c].channel \in Channels
        BY <1>2, <3>3 DEF TypeInv, CallsHaveChannels, CallExpires, CallCancelled, Waits
      <4>2. Pending(c) BY <2>4, <3>3, <4>1 DEF CallExpires, CallCancelled
      <4>3. QED BY <2>2, <3>3, <4>2 DEF CallExpires, CallCancelled
    <3>4. QED BY <2>5, <3>1, <3>2, <3>3 DEF CallStep
  <2>6. ASSUME NEW c \in Commands, ResultStep(c) PROVE PendingIsIndexed'
    BY <2>2, <2>6 DEF ResultStep, ResultArrives, Pending
  <2>7. ASSUME NEW ch \in Channels, CancelStep(ch) PROVE PendingIsIndexed'
    <3>1. ASSUME NEW r \in Requests, CancelRequest(ch, r) PROVE PendingIsIndexed'
      BY <2>2, <2>4, <3>1 DEF CancelRequest
    <3>2. ASSUME NEW s \in Sessions, CancelSession(ch, s) PROVE PendingIsIndexed'
      BY <2>2, <2>4, <3>2 DEF CancelSession
    <3>3. QED BY <2>7, <3>1, <3>2 DEF CancelStep
  <2>8. ASSUME NEW p \in Polls, PollStep(p) PROVE PendingIsIndexed'
    <3>1. ASSUME NEW ch \in Channels, PollArrives(p, ch) PROVE PendingIsIndexed'
      BY <1>2, <2>1, <3>1, LooksIndex DEF PollArrives
    <3>2. CASE PollResumes(p)
      BY <1>2, <2>1, <3>2, LooksIndex DEF PollResumes, TypeInv, PollsHaveChannels
    <3>3. CASE PollTimesOut(p) BY <2>3, <3>3 DEF PollTimesOut
    <3>4. QED BY <2>8, <3>1, <3>2, <3>3 DEF PollStep
  <2>9. CASE Shutdown
    <3>1. UNION {active[ch] : ch \in Channels} \in SUBSET Commands BY <2>4
    <3>2. \A c \in UNION {active[ch] : ch \in Channels} : Pending(c) BY <2>4
    <3>3. QED BY <2>2, <2>9, <3>1, <3>2 DEF Shutdown
  <2>10. CASE Restart BY <2>10 DEF Restart, PendingIsIndexed
  <2>11. CASE UNCHANGED vars BY <2>3, <2>11 DEF vars
  <2>12. QED BY <1>2, <2>5, <2>6, <2>7, <2>8, <2>9, <2>10, <2>11 DEF Next
<1>3. QED BY <1>1, <1>2, TypeInvariant, AccountInvariant, PTL DEF Spec
=============================================================================
