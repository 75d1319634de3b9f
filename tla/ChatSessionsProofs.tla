------------------------- MODULE ChatSessionsProofs -------------------------
(* Theorems about ChatSessions for every set of sessions, turns and markers  *)
(* and every bound.                                                          *)
EXTENDS ChatSessions, TLAPS

\* A turn that is in use names its session, and so does whatever hangs on it.
Owned ==
    /\ \A t \in Turns : turn[t].status # "unused" <=> turn[t].session \in Sessions
    /\ \A t \in Turns : task[t] # "none" => turn[t].status # "unused"
    /\ \A t \in Turns : question[t].status # "none" => turn[t].status # "unused"
    /\ \A t \in Turns : page[t].status # "none" => turn[t].status # "unused"
    /\ \A t \in Turns : turn[t].kind \in {"clarification", "continuation"} =>
                           turn[t].source \in Turns

\* A claim in flight has a new turn for itself and an old one as its source, and
\* keeps the event loop from every other step.
ClaimReserves ==
    claim # NoClaim =>
        /\ claim.turn \in Turns /\ turn[claim.turn].status = "unused"
        /\ claim.source \in Turns /\ turn[claim.source].status # "unused"
        /\ \A t \in Turns : task[t] \notin {"storing", "recording"}

TypeInv == TypeOK /\ Owned /\ ClaimReserves

LEMMA InitType == Init => TypeInv
BY ChatAssumption
DEF Init, TypeInv, TypeOK, Owned, ClaimReserves, SessionRecord, TurnRecord,
    QuestionRecord, PageRecord, ClaimRecord, NoTurnYet, NoQuestion, NoPage,
    NoClaim, TurnKinds, TurnStatuses, QuestionKinds, Actions, Phases

LEMMA SupersededType ==
    ASSUME TypeOK, NEW s
    PROVE  /\ Superseded(s) \in [Turns -> QuestionRecord]
           /\ \A o \in Turns : Superseded(s)[o].status # "none"
                               <=> question[o].status # "none"
<1>1. \A o \in Turns : question[o] \in QuestionRecord
  BY DEF TypeOK
<1>2. \A o \in Turns : /\ Superseded(s)[o] \in QuestionRecord
                       /\ Superseded(s)[o].status # "none"
                          <=> question[o].status # "none"
  BY <1>1 DEF QuestionRecord, Superseded
<1>3. Superseded(s) \in [Turns -> QuestionRecord]
  BY <1>2 DEF Superseded
<1>4. QED BY <1>2, <1>3

\* The step leaves who asked what in turn u.
SameRequest(u) ==
    /\ turn'[u].session = turn[u].session
    /\ turn'[u].version = turn[u].version
    /\ turn'[u].kind = turn[u].kind
    /\ turn'[u].source = turn[u].source

\* What complete_turn writes keeps the types.
LEMMA CompleteType ==
    ASSUME TypeInv, NEW t \in Turns, task[t] # "none",
           NEW status \in {"completed", "failed"}, NEW revision \in Nat,
           NEW asked \in QuestionKinds \cup {"none"},
           CompleteTurn(t, revision, status, asked)
    PROVE  /\ turn' \in [Turns -> TurnRecord]
           /\ session' \in [Sessions -> SessionRecord]
           /\ question' \in [Turns -> QuestionRecord]
           /\ \A u \in Turns : SameRequest(u)
           /\ \A u \in Turns : turn[u].status # "unused" <=> turn'[u].status # "unused"
           /\ \A u \in Turns : question'[u].status # "none" => turn'[u].status # "unused"
<1>1. turn' \in [Turns -> TurnRecord]
  <2> DEFINE ended == [turn[t] EXCEPT !.status = status, !.revision = revision]
  <2>1. ended \in TurnRecord
    <3>1. turn[t] \in TurnRecord
      BY DEF TypeInv, TypeOK
    <3>2. QED BY <3>1 DEF TurnRecord, TurnStatuses
  <2>2. turn' = [turn EXCEPT ![t] = ended]
    BY DEF CompleteTurn
  <2> HIDE DEF ended
  <2>3. QED BY <2>1, <2>2 DEF TypeInv, TypeOK
<1>2. session' \in [Sessions -> SessionRecord]
  <2>1. turn[t].session \in Sessions /\ session \in [Sessions -> SessionRecord]
    BY DEF TypeInv, TypeOK, Owned
  <2>2. session' = [session EXCEPT ![turn[t].session].version = @ + 1]
    BY DEF CompleteTurn
  <2>3. QED BY <2>1, <2>2 DEF SessionRecord
<1>3. question' \in [Turns -> QuestionRecord]
  <2>1. Superseded(turn[t].session) \in [Turns -> QuestionRecord]
    BY SupersededType DEF TypeInv
  <2>2. CASE asked = "none"
    BY <2>2 DEF TypeInv, TypeOK, CompleteTurn
  <2>3. CASE asked # "none"
    <3> DEFINE q == [status |-> "open", kind |-> asked,
                     version |-> turn[t].version + 1,
                     revision |-> revision,
                     marker |-> marker, action |-> "none"]
    <3>1. q \in QuestionRecord
      BY DEF TypeInv, TypeOK, TurnRecord, QuestionRecord
    <3>2. question' = [Superseded(turn[t].session) EXCEPT ![t] = q]
      BY <2>3 DEF CompleteTurn
    <3> HIDE DEF q
    <3>3. QED BY <2>1, <3>1, <3>2
  <2>4. QED BY <2>2, <2>3
<1>4. /\ \A u \in Turns : SameRequest(u)
      /\ \A u \in Turns : turn[u].status # "unused" <=> turn'[u].status # "unused"
  BY DEF TypeInv, TypeOK, Owned, TurnRecord, CompleteTurn, SameRequest
<1>5. \A u \in Turns : question'[u].status # "none" => turn'[u].status # "unused"
  BY <1>4 DEF TypeInv, TypeOK, Owned, QuestionRecord, CompleteTurn, Superseded
<1>6. QED BY <1>1, <1>2, <1>3, <1>4, <1>5

\* The lock queue after its head has left.
LEMMA EndTaskType ==
    ASSUME TypeOK, NEW t \in Turns, HasLock(t), EndTask(t)
    PROVE  /\ task' \in [Turns -> Phases]
           /\ lane' \in [Sessions -> Seq(Turns)]
           /\ \A u \in Turns : task'[u] = task[u] \/ task'[u] = "none"
<1>1. task' \in [Turns -> Phases]
  BY DEF TypeOK, EndTask, Phases
<1>2. lane' \in [Sessions -> Seq(Turns)]
  <2>1. CASE turn[t].session \in Sessions
    <3>1. Tail(lane[turn[t].session]) \in Seq(Turns)
      BY <2>1 DEF TypeOK, HasLock
    <3>2. QED BY <2>1, <3>1 DEF TypeOK, EndTask
  <2>2. CASE turn[t].session \notin Sessions
    BY <2>2 DEF TypeOK, EndTask
  <2>3. QED BY <2>1, <2>2
<1>3. \A u \in Turns : task'[u] = task[u] \/ task'[u] = "none"
  BY DEF TypeOK, EndTask
<1>4. QED BY <1>1, <1>2, <1>3

\* The revisions an answer may run on.
LEMMA RevisionType ==
    ASSUME TypeInv, NEW t \in Turns
    PROVE  /\ turn[t].revision \in Nat
           /\ turn[t].kind = "clarification" =>
                 question[turn[t].source].revision \in Nat
BY DEF TypeInv, TypeOK, Owned, TurnRecord, QuestionRecord

LEMMA AnswerType ==
    ASSUME TypeInv, NEW t \in Turns, task[t] # "none", claim = NoClaim,
           NEW asked \in QuestionKinds \cup {"none"}, NEW revision \in Nat,
           Answer(t, revision, asked)
    PROVE  TypeInv'
<1>1. CompleteTurn(t, revision, "completed", asked)
  BY DEF Answer
<1>2. /\ turn' \in [Turns -> TurnRecord]
      /\ session' \in [Sessions -> SessionRecord]
      /\ question' \in [Turns -> QuestionRecord]
      /\ \A u \in Turns : SameRequest(u)
      /\ \A u \in Turns : turn[u].status # "unused" <=> turn'[u].status # "unused"
      /\ \A u \in Turns : question'[u].status # "none" => turn'[u].status # "unused"
  BY <1>1, CompleteType
<1>3. TypeOK'
  BY <1>2 DEF TypeInv, TypeOK, Answer, Phases
<1>4. Owned'
  BY <1>2 DEF TypeInv, TypeOK, Owned, Answer, SameRequest
<1>5. QED
  BY <1>3, <1>4 DEF TypeInv, ClaimReserves, NoClaim, Answer

LEMMA FailType ==
    ASSUME TypeInv, NEW t \in Turns, task[t] # "none", HasLock(t),
           claim = NoClaim, Fail(t), faults' \in Nat
    PROVE  TypeInv'
<1>1. CompleteTurn(t, turn[t].revision, "failed", "none") /\ EndTask(t)
  BY DEF Fail
<1>2. /\ turn' \in [Turns -> TurnRecord]
      /\ session' \in [Sessions -> SessionRecord]
      /\ question' \in [Turns -> QuestionRecord]
      /\ \A u \in Turns : SameRequest(u)
      /\ \A u \in Turns : turn[u].status # "unused" <=> turn'[u].status # "unused"
      /\ \A u \in Turns : question'[u].status # "none" => turn'[u].status # "unused"
  BY <1>1, CompleteType, RevisionType
<1>3. /\ task' \in [Turns -> Phases]
      /\ lane' \in [Sessions -> Seq(Turns)]
      /\ \A u \in Turns : task'[u] = task[u] \/ task'[u] = "none"
  BY <1>1, EndTaskType DEF TypeInv
<1>4. TypeOK'
  BY <1>2, <1>3 DEF TypeInv, TypeOK, Fail
<1>5. Owned'
  BY <1>2, <1>3 DEF TypeInv, TypeOK, Owned, Fail, SameRequest
<1>6. QED
  BY <1>4, <1>5 DEF TypeInv, ClaimReserves, NoClaim, Fail

LEMMA PinType ==
    ASSUME TypeInv, NEW t \in Turns, task[t] # "none", claim = NoClaim,
           NEW revision \in Nat, NEW p \in Phases \ {"none"}, Pin(t, revision, p)
    PROVE  TypeInv'
<1>1. turn' \in [Turns -> TurnRecord]
  <2> DEFINE pinned == [turn[t] EXCEPT !.status = "running", !.revision = revision]
  <2>1. pinned \in TurnRecord
    <3>1. turn[t] \in TurnRecord
      BY DEF TypeInv, TypeOK
    <3>2. QED BY <3>1 DEF TurnRecord, TurnStatuses
  <2>2. turn' = [turn EXCEPT ![t] = pinned]
    BY DEF TypeInv, TypeOK, TurnRecord, Pin
  <2> HIDE DEF pinned
  <2>3. QED BY <2>1, <2>2 DEF TypeInv, TypeOK
<1>2. TypeOK'
  BY <1>1 DEF TypeInv, TypeOK, Pin, Phases
<1>3. Owned'
  BY DEF TypeInv, TypeOK, Owned, TurnRecord, Pin
<1>4. QED
  BY <1>2, <1>3 DEF TypeInv, ClaimReserves, NoClaim, Pin

\* A task that ends and writes nothing.
LEMMA LeaveType ==
    ASSUME TypeInv, NEW t \in Turns, HasLock(t), claim = NoClaim, EndTask(t),
           faults' \in Nat, UNCHANGED <<store, marker, claim, restarts>>
    PROVE  TypeInv'
<1>1. /\ task' \in [Turns -> Phases]
      /\ lane' \in [Sessions -> Seq(Turns)]
      /\ \A u \in Turns : task'[u] = task[u] \/ task'[u] = "none"
  BY EndTaskType DEF TypeInv
<1>2. TypeOK'
  BY <1>1 DEF TypeInv, TypeOK, store
<1>3. Owned'
  BY <1>1 DEF TypeInv, Owned, store
<1>4. QED
  BY <1>2, <1>3 DEF TypeInv, ClaimReserves, NoClaim

\* A new turn row, and the task that is to process it.
LEMMA AcceptedType ==
    ASSUME TypeOK, NEW s \in Sessions, NEW kind \in TurnKinds,
           NEW source \in Turns \cup {None}, NEW revision \in Nat
    PROVE  Accepted(s, kind, source, revision) \in TurnRecord
BY DEF TypeOK, SessionRecord, TurnRecord, TurnStatuses, Accepted

LEMMA LaunchType ==
    ASSUME TypeOK, NEW s \in Sessions, NEW t \in Turns, Launch(s, t)
    PROVE  /\ task' \in [Turns -> Phases]
           /\ lane' \in [Sessions -> Seq(Turns)]
           /\ faults' \in Nat
           /\ \A u \in Turns : u # t => task'[u] = task[u]
<1>1. CASE Spawn(s, t) /\ UNCHANGED faults
  BY <1>1 DEF TypeOK, Spawn, Phases
<1>2. CASE faults' = faults + 1 /\ UNCHANGED <<task, lane>>
  BY <1>2 DEF TypeOK
<1>3. QED BY <1>1, <1>2 DEF Launch

LEMMA HandlerType == TypeInv /\ Handler => TypeInv'
<1> SUFFICES ASSUME TypeInv, Handler PROVE TypeInv'
  OBVIOUS
<1>1. ASSUME NEW s \in Sessions, CreateSession(s) PROVE TypeInv'
  <2>1. session' \in [Sessions -> SessionRecord]
    BY <1>1 DEF TypeInv, TypeOK, SessionRecord, CreateSession
  <2>2. QED
    BY <1>1, <2>1
    DEF TypeInv, TypeOK, Owned, ClaimReserves, CreateSession, Idle, process
<1>2. ASSUME NEW s \in Sessions, DeleteSession(s) PROVE TypeInv'
  <2>1. session' \in [Sessions -> SessionRecord]
    BY <1>2 DEF TypeInv, TypeOK, SessionRecord, DeleteSession
  <2>2. /\ turn' \in [Turns -> TurnRecord]
        /\ \A t \in Turns : /\ SameRequest(t)
                            /\ turn[t].status # "unused" => turn'[t].status # "unused"
                            /\ turn'[t].status # "unused" =>
                                 turn[t].status # "unused" \/ turn[t].session = s
    <3>1. \A t \in Turns : turn[t] \in TurnRecord
      BY DEF TypeInv, TypeOK
    <3>2. \A t \in Turns : /\ turn'[t] \in TurnRecord
                           /\ SameRequest(t)
                           /\ turn'[t].status = turn[t].status
                              \/ (turn'[t].status = "deleted" /\ turn[t].session = s)
      BY <1>2, <3>1 DEF TurnRecord, TurnStatuses, DeleteSession, SameRequest
    <3>3. turn' \in [Turns -> TurnRecord]
      BY <1>2, <3>2 DEF DeleteSession
    <3>4. QED BY <3>2, <3>3
  <2>3. /\ question' \in [Turns -> QuestionRecord]
        /\ \A t \in Turns : question'[t].status # "none" => question[t].status # "none"
    BY <1>2 DEF TypeInv, TypeOK, QuestionRecord, NoQuestion, DeleteSession
  <2>4. /\ page' \in [Turns -> PageRecord]
        /\ \A t \in Turns : page'[t].status # "none" => page[t].status # "none"
    BY <1>2 DEF TypeInv, TypeOK, PageRecord, NoPage, DeleteSession
  <2>5. TypeOK'
    BY <1>2, <2>1, <2>2, <2>3, <2>4 DEF TypeInv, TypeOK, DeleteSession, process
  <2>6. Owned'
    BY <1>2, <2>2, <2>3, <2>4 DEF TypeInv, Owned, DeleteSession, process, SameRequest
  <2>7. QED
    BY <1>2, <2>5, <2>6 DEF TypeInv, ClaimReserves, DeleteSession, Idle, process
<1>3. ASSUME NEW s \in Sessions, NEW t \in Turns, SubmitMessage(s, t) PROVE TypeInv'
  <2>1. Accepted(s, "message", None, 0) \in TurnRecord
    BY AcceptedType DEF TypeInv, TurnKinds
  <2>2. /\ turn' = [turn EXCEPT ![t] = Accepted(s, "message", None, 0)]
        /\ turn' \in [Turns -> TurnRecord]
    BY <1>3, <2>1 DEF TypeInv, TypeOK, SubmitMessage
  <2>3. /\ question' \in [Turns -> QuestionRecord]
        /\ \A o \in Turns : question'[o].status # "none" <=> question[o].status # "none"
    BY <1>3, SupersededType DEF TypeInv, SubmitMessage
  <2>4. /\ task' \in [Turns -> Phases]
        /\ lane' \in [Sessions -> Seq(Turns)]
        /\ faults' \in Nat
        /\ \A u \in Turns : u # t => task'[u] = task[u]
    BY <1>3, LaunchType DEF TypeInv, SubmitMessage
  <2>5. TypeOK'
    BY <1>3, <2>2, <2>3, <2>4 DEF TypeInv, TypeOK, SubmitMessage
  <2>6. Owned'
    BY <1>3, <2>2, <2>3, <2>4 DEF TypeInv, TypeOK, Owned, SubmitMessage, Accepted
  <2>7. QED
    BY <1>3, <2>5, <2>6 DEF TypeInv, ClaimReserves, SubmitMessage, Idle
<1>4. ASSUME NEW s \in Sessions, NEW t \in Turns, RemoveContext(s, t) PROVE TypeInv'
  <2> DEFINE audit == [Accepted(s, "removal", None, 0) EXCEPT !.status = "completed"]
  <2>1. /\ audit \in TurnRecord
        /\ audit.status = "completed" /\ audit.session = s /\ audit.kind = "removal"
    BY DEF TypeInv, TypeOK, SessionRecord, TurnRecord, TurnStatuses, TurnKinds, Accepted
  <2>2. turn' = [turn EXCEPT ![t] = audit] /\ turn' \in [Turns -> TurnRecord]
    BY <1>4, <2>1 DEF TypeInv, TypeOK, RemoveContext
  <2>3. session' \in [Sessions -> SessionRecord]
    BY <1>4 DEF TypeInv, TypeOK, SessionRecord, RemoveContext
  <2> HIDE DEF audit
  <2>4. TypeOK'
    BY <1>4, <2>2, <2>3 DEF TypeInv, TypeOK, RemoveContext, process
  <2>5. Owned'
    <3>1. \A u \in Turns : turn'[u] = IF u = t THEN audit ELSE turn[u]
      BY <2>2 DEF TypeInv, TypeOK
    <3>2. UNCHANGED <<question, page, task>>
      BY <1>4 DEF RemoveContext, process
    <3>3. QED
      BY <2>1, <3>1, <3>2 DEF TypeInv, Owned
  <2>6. QED
    BY <1>4, <2>4, <2>5 DEF TypeInv, ClaimReserves, RemoveContext, Idle, process
<1>5. ASSUME NEW o \in Turns, NEW t \in Turns,
             NEW kind \in {"clarification", "continuation"},
             NEW action \in Actions \cup {"none"},
             turn[o].status # "unused", PinForClaim(kind, o, t, action)
      PROVE  TypeInv'
  <2>1. claim' \in ClaimRecord
    BY <1>5 DEF TypeInv, TypeOK, ClaimRecord, PinForClaim
  <2>2. TypeOK'
    BY <1>5, <2>1 DEF TypeInv, TypeOK, PinForClaim, store
  <2>3. Owned'
    BY <1>5 DEF TypeInv, Owned, PinForClaim, store
  <2>4. QED
    BY <1>5, <2>2, <2>3 DEF TypeInv, ClaimReserves, PinForClaim, Idle, store
<1>6. ASSUME NEW o \in Turns, NEW t \in Turns, NEW action \in Actions,
             PinForClarification(o, t, action)
      PROVE  TypeInv'
  BY <1>5, <1>6 DEF TypeInv, Owned, PinForClarification
<1>7. ASSUME NEW o \in Turns, NEW t \in Turns, PinForContinuation(o, t)
      PROVE  TypeInv'
  BY <1>5, <1>7 DEF TypeInv, Owned, PinForContinuation
<1>8. QED
  BY <1>1, <1>2, <1>3, <1>4, <1>6, <1>7 DEF Handler

LEMMA ResolveClaimType == TypeInv /\ ResolveClaim => TypeInv'
<1> SUFFICES ASSUME TypeInv, ResolveClaim PROVE TypeInv'
  OBVIOUS
<1>1. claim # NoClaim
  BY DEF ResolveClaim, AcceptClarification, AcceptContinuation, RefuseClaim, NoClaim
<1>2. PICK t \in Turns : t = claim.turn /\ turn[t].status = "unused"
  BY <1>1 DEF TypeInv, ClaimReserves
<1>3. PICK o \in Turns : o = claim.source /\ turn[o].status # "unused"
  BY <1>1 DEF TypeInv, ClaimReserves
<1>4. PICK s \in Sessions : s = turn[o].session
  BY <1>3 DEF TypeInv, Owned
<1>5. claim.revision \in Nat /\ claim.action \in Actions \cup {"none"}
  BY DEF TypeInv, TypeOK, ClaimRecord
<1>6. NoClaim \in ClaimRecord
  BY DEF NoClaim, ClaimRecord
<1>7. CASE AcceptClarification
  <2> DEFINE new == Accepted(s, "clarification", o, 0)
  <2>1. new \in TurnRecord /\ new.status = "accepted" /\ new.session = s
        /\ new.source = o
    BY AcceptedType DEF TypeInv, TurnKinds, Accepted
  <2>2. turn' = [turn EXCEPT ![t] = new]
    BY <1>2, <1>3, <1>4, <1>7 DEF AcceptClarification
  <2>3. Launch(s, t)
    BY <1>2, <1>3, <1>4, <1>7 DEF AcceptClarification
  <2>4. /\ question' \in [Turns -> QuestionRecord]
        /\ \A u \in Turns : question'[u].status # "none" => u = o \/ question[u].status # "none"
    <3> DEFINE q == [question[o] EXCEPT !.status = "consumed", !.action = claim.action]
    <3>1. q \in QuestionRecord
      <4>1. question[o] \in QuestionRecord
        BY DEF TypeInv, TypeOK
      <4>2. QED BY <4>1, <1>5 DEF QuestionRecord
    <3>2. question' = [question EXCEPT ![o] = q]
      BY <1>3, <1>7 DEF TypeInv, TypeOK, QuestionRecord, AcceptClarification
    <3> HIDE DEF q
    <3>3. QED BY <3>1, <3>2 DEF TypeInv, TypeOK
  <2> HIDE DEF new
  <2>5. /\ task' \in [Turns -> Phases]
        /\ lane' \in [Sessions -> Seq(Turns)]
        /\ faults' \in Nat
        /\ \A u \in Turns : u # t => task'[u] = task[u]
    BY <2>3, LaunchType DEF TypeInv
  <2>6. TypeOK'
    <3>1. turn' \in [Turns -> TurnRecord]
      BY <2>1, <2>2 DEF TypeInv, TypeOK
    <3>2. /\ claim' = NoClaim
          /\ UNCHANGED <<session, page, expired, catalog, marker, restarts>>
      BY <1>7 DEF AcceptClarification
    <3>3. QED
      BY <1>6, <2>4, <2>5, <3>1, <3>2 DEF TypeInv, TypeOK
  <2>7. Owned'
    <3>1. turn'[t] = new /\ \A u \in Turns : u # t => turn'[u] = turn[u]
      BY <1>3, <2>2 DEF TypeInv, TypeOK
    <3>2. UNCHANGED page
      BY <1>7 DEF AcceptClarification
    <3>3. QED BY <1>3, <2>1, <2>4, <2>5, <3>1, <3>2 DEF TypeInv, Owned
  <2>8. QED
    BY <1>7, <2>6, <2>7 DEF TypeInv, ClaimReserves, AcceptClarification
<1>8. CASE AcceptContinuation
  <2> DEFINE new == Accepted(s, "continuation", o, claim.revision)
  <2>1. new \in TurnRecord /\ new.status = "accepted" /\ new.session = s
        /\ new.source = o
    BY <1>5, AcceptedType DEF TypeInv, TurnKinds, Accepted
  <2>2. turn' = [turn EXCEPT ![t] = new]
    BY <1>2, <1>3, <1>4, <1>8 DEF AcceptContinuation
  <2>3. Launch(s, t)
    BY <1>2, <1>3, <1>4, <1>8 DEF AcceptContinuation
  <2>4. /\ page' \in [Turns -> PageRecord]
        /\ \A u \in Turns : page'[u].status # "none" => u = o \/ page[u].status # "none"
    BY <1>3, <1>8 DEF TypeInv, TypeOK, PageRecord, AcceptContinuation
  <2> HIDE DEF new
  <2>5. /\ task' \in [Turns -> Phases]
        /\ lane' \in [Sessions -> Seq(Turns)]
        /\ faults' \in Nat
        /\ \A u \in Turns : u # t => task'[u] = task[u]
    BY <2>3, LaunchType DEF TypeInv
  <2>6. TypeOK'
    <3>1. turn' \in [Turns -> TurnRecord]
      BY <2>1, <2>2 DEF TypeInv, TypeOK
    <3>2. /\ claim' = NoClaim
          /\ UNCHANGED <<session, question, expired, catalog, marker, restarts>>
      BY <1>8 DEF AcceptContinuation
    <3>3. QED
      BY <1>6, <2>4, <2>5, <3>1, <3>2 DEF TypeInv, TypeOK
  <2>7. Owned'
    <3>1. turn'[t] = new /\ \A u \in Turns : u # t => turn'[u] = turn[u]
      BY <1>3, <2>2 DEF TypeInv, TypeOK
    <3>2. UNCHANGED question
      BY <1>8 DEF AcceptContinuation
    <3>3. QED BY <1>3, <2>1, <2>4, <2>5, <3>1, <3>2 DEF TypeInv, Owned
  <2>8. QED
    BY <1>8, <2>6, <2>7 DEF TypeInv, ClaimReserves, AcceptContinuation
<1>9. CASE RefuseClaim
  BY <1>6, <1>9 DEF TypeInv, TypeOK, Owned, ClaimReserves, RefuseClaim, store
<1>10. QED
  BY <1>7, <1>8, <1>9 DEF ResolveClaim

\* A task between two transactions of one stretch leaves no room for a claim.
LEMMA NoClaimInStretch ==
    ASSUME TypeInv, NEW t \in Turns, At(t, "storing") \/ At(t, "recording")
    PROVE  claim = NoClaim
BY DEF TypeInv, ClaimReserves, At

LEMMA TaskStepType ==
    ASSUME TypeInv, NEW t \in Turns, TaskStep(t)
    PROVE  TypeInv'
<1> USE DEF At
<1>1. CASE RefuseStaleTurn(t)
  BY <1>1, FailType DEF RefuseStaleTurn, Idle, TypeInv, TypeOK
<1>2. CASE StartMessage(t)
  BY <1>2, PinType DEF StartMessage, Fresh, Idle, TypeInv, TypeOK, Phases
<1>3. CASE StartContinuation(t)
  <2>1. page[turn[t].source].revision \in Nat
    BY <1>3 DEF TypeInv, TypeOK, Owned, PageRecord, StartContinuation
  <2>2. QED BY <1>3, <2>1, PinType DEF StartContinuation, Fresh, Idle, Phases
<1>4. CASE StartClarification(t)
  <2> DEFINE asked == question[turn[t].source]
             p == IF asked.kind = "interpretation_choice" THEN "planning"
                                                          ELSE "executing"
  <2>1. asked.revision \in Nat
    BY <1>4 DEF TypeInv, TypeOK, Owned, QuestionRecord, StartClarification
  <2>2. p \in Phases \ {"none"}
    BY DEF Phases
  <2>3. Pin(t, asked.revision, p) /\ claim = NoClaim /\ task[t] # "none"
    BY <1>4 DEF StartClarification, Fresh, Idle
  <2> HIDE DEF asked, p
  <2>4. QED BY <2>1, <2>2, <2>3, PinType
<1>5. CASE CancelClarification(t)
  BY <1>5, AnswerType, RevisionType DEF CancelClarification, Fresh, Idle
<1>6. ASSUME NEW asked \in QuestionKinds \cup {"none"}, RepeatBindingQuestion(t, asked)
      PROVE  TypeInv'
  BY <1>6, AnswerType, RevisionType DEF RepeatBindingQuestion, Fresh, Idle
<1>7. ASSUME NEW asked \in QuestionKinds \cup {"none"}, PlannerAsks(t, asked)
      PROVE  TypeInv'
  BY <1>7, AnswerType, RevisionType DEF PlannerAsks, Idle
<1>8. ASSUME NEW asked \in QuestionKinds \cup {"none"}, ExecutorAnswers(t, asked)
      PROVE  TypeInv'
  BY <1>8, AnswerType, RevisionType DEF ExecutorAnswers, Idle
<1>9. CASE PlannerPlans(t)
  <2>1. TypeOK'
    BY <1>9 DEF PlannerPlans, TypeInv, TypeOK, Phases, store
  <2>2. Owned'
    BY <1>9 DEF PlannerPlans, TypeInv, TypeOK, Owned, store
  <2>3. QED
    BY <1>9, <2>1, <2>2 DEF PlannerPlans, Idle, TypeInv, ClaimReserves
<1>10. CASE StorePage(t)
  <2>1. page' \in [Turns -> PageRecord]
    BY <1>10 DEF StorePage, TypeInv, TypeOK, PageRecord, TurnRecord
  <2>2. TypeOK'
    BY <1>10, <2>1 DEF StorePage, TypeInv, TypeOK, Phases
  <2>3. Owned'
    BY <1>10 DEF StorePage, TypeInv, TypeOK, Owned
  <2>4. QED
    BY <1>10, <2>2, <2>3 DEF StorePage, Idle, TypeInv, ClaimReserves
<1>11. CASE AnswerWithPage(t)
  BY <1>11, AnswerType, RevisionType, NoClaimInStretch DEF AnswerWithPage
<1>12. CASE FailTurn(t)
  BY <1>12, FailType, NoClaimInStretch DEF FailTurn, Idle, TypeInv, TypeOK
<1>13. CASE Record(t)
  BY <1>13, LeaveType, NoClaimInStretch DEF Record, TypeInv, TypeOK
<1>14. CASE TaskOfDeletedTurn(t)
  BY <1>14, LeaveType DEF TaskOfDeletedTurn, Idle, TypeInv, TypeOK
<1>15. QED
  BY <1>1, <1>2, <1>3, <1>4, <1>5, <1>6, <1>7, <1>8, <1>9, <1>10, <1>11, <1>12,
     <1>13, <1>14 DEF TaskStep

LEMMA FaultType == TypeInv /\ Fault => TypeInv'
<1> SUFFICES ASSUME TypeInv, NEW t \in Turns, RecordFails(t) \/ TaskDies(t)
             PROVE  TypeInv'
  BY DEF Fault
<1>1. faults + 1 \in Nat
  BY DEF TypeInv, TypeOK
<1>2. CASE RecordFails(t)
  BY <1>1, <1>2, FailType, NoClaimInStretch DEF RecordFails, At
<1>3. CASE TaskDies(t)
  BY <1>1, <1>3, LeaveType, NoClaimInStretch DEF TaskDies, At, Idle
<1>4. QED BY <1>2, <1>3

LEMMA EnvironmentType == TypeInv /\ Environment => TypeInv'
<1> SUFFICES ASSUME TypeInv, Environment PROVE TypeInv'
  OBVIOUS
<1>1. CASE ImportCatalog
  BY <1>1 DEF ImportCatalog, TypeInv, TypeOK, Owned, ClaimReserves, process
<1>2. ASSUME NEW o \in Turns, ExpireHandles(o) PROVE TypeInv'
  BY <1>2 DEF ExpireHandles, TypeInv, TypeOK, Owned, ClaimReserves, process
<1>3. ASSUME NEW m \in Markers, Restart(m) PROVE TypeInv'
  <2>1. NoClaim \in ClaimRecord
    BY DEF NoClaim, ClaimRecord
  <2>2. TypeOK'
    BY <1>3, <2>1 DEF Restart, TypeInv, TypeOK, Phases, store
  <2>3. QED
    BY <1>3, <2>2 DEF Restart, TypeInv, Owned, ClaimReserves, store
<1>4. QED BY <1>1, <1>2, <1>3 DEF Environment

LEMMA NextType == TypeInv /\ [Next]_vars => TypeInv'
<1> SUFFICES ASSUME TypeInv, [Next]_vars PROVE TypeInv'
  OBVIOUS
<1>1. CASE Next
  BY <1>1, HandlerType, ResolveClaimType, TaskStepType, FaultType, EnvironmentType
  DEF Next
<1>2. CASE UNCHANGED vars
  BY <1>2 DEF vars, store, process, TypeInv, TypeOK, Owned, ClaimReserves
<1>3. QED BY <1>1, <1>2

LEMMA TypeInvariant == Spec => []TypeInv
BY InitType, NextType, PTL DEF Spec

\* Every variable of the dialogue core keeps its type.
THEOREM TypeCorrect == Spec => []TypeOK
<1>1. TypeInv => TypeOK
  BY DEF TypeInv
<1>2. QED BY <1>1, TypeInvariant, PTL

-----------------------------------------------------------------------------
(* One task per session between planning and recording.                      *)

Working(t)   == task[t] \in {"planning", "executing", "storing", "recording"}
Computing(t) == task[t] \in {"planning", "executing", "storing"}

\* A task that passed the version check is at the head of its session's lock.
WorkersHoldLock == \A t \in Turns : Working(t) => HasLock(t)

\* A task step touches the lock queue of no session, the end of a task that of
\* its own only.
LEMMA LaneKept ==
    ASSUME TypeInv, WorkersHoldLock, UNCHANGED lane,
           \A u \in Turns : Working(u)' => /\ Working(u) \/ HasLock(u)
                                           /\ turn'[u].session = turn[u].session
    PROVE  WorkersHoldLock'
BY DEF WorkersHoldLock, HasLock

LEMMA LaneLeft ==
    ASSUME TypeInv, WorkersHoldLock, NEW t \in Turns, task[t] # "none",
           HasLock(t), EndTask(t),
           \A u \in Turns : turn'[u].session = turn[u].session
    PROVE  WorkersHoldLock'
<1> SUFFICES ASSUME NEW u \in Turns, Working(u)' PROVE HasLock(u)'
  BY DEF WorkersHoldLock
<1>1. u # t /\ Working(u) /\ task[u] # "none"
  BY DEF Working, EndTask, TypeInv, TypeOK
<1>2. HasLock(u)
  BY <1>1 DEF WorkersHoldLock
<1>3. turn[u].session # turn[t].session
  BY <1>1, <1>2 DEF HasLock
<1>4. turn[u].session \in Sessions /\ turn[t].session \in Sessions
  BY <1>1 DEF TypeInv, Owned
<1>5. lane'[turn[u].session] = lane[turn[u].session]
  BY <1>3, <1>4 DEF EndTask, TypeInv, TypeOK
<1>6. QED BY <1>2, <1>5 DEF HasLock

LEMMA LaneJoined ==
    ASSUME TypeInv, WorkersHoldLock, NEW s \in Sessions, NEW t \in Turns,
           turn[t].status = "unused", Launch(s, t),
           \A u \in Turns : u # t => turn'[u].session = turn[u].session
    PROVE  WorkersHoldLock'
<1> SUFFICES ASSUME NEW u \in Turns, Working(u)' PROVE HasLock(u)'
  BY DEF WorkersHoldLock
<1>1. u # t /\ Working(u) /\ turn[u].session \in Sessions
  BY DEF Working, Launch, Spawn, TypeInv, TypeOK, Owned
<1>2. HasLock(u)
  BY <1>1 DEF WorkersHoldLock
<1>3. lane[turn[u].session] \in Seq(Turns) /\ lane[s] \in Seq(Turns)
  BY <1>1 DEF TypeInv, TypeOK
<1>4. CASE Spawn(s, t)
  <2>1. lane' = [lane EXCEPT ![s] = Append(lane[s], t)]
    BY <1>4 DEF Spawn
  <2>2. CASE turn[u].session = s
    <3>1. lane'[s] = Append(lane[s], t)
      BY <2>1 DEF TypeInv, TypeOK
    <3>2. lane[s] # << >> /\ Head(lane[s]) = u
      BY <1>2, <2>2 DEF HasLock
    <3>3. lane'[s] # << >> /\ Head(lane'[s]) = u
      BY <1>3, <3>1, <3>2
    <3>4. QED BY <1>1, <2>2, <3>3 DEF HasLock
  <2>3. CASE turn[u].session # s
    BY <1>1, <1>2, <2>1, <2>3 DEF HasLock, TypeInv, TypeOK
  <2>4. QED BY <2>2, <2>3
<1>5. CASE UNCHANGED <<task, lane>>
  BY <1>1, <1>2, <1>5 DEF HasLock
<1>6. QED BY <1>4, <1>5 DEF Launch

LEMMA HandlerLock == TypeInv /\ WorkersHoldLock /\ Handler => WorkersHoldLock'
<1> SUFFICES ASSUME TypeInv, WorkersHoldLock, Handler PROVE WorkersHoldLock'
  OBVIOUS
<1>1. ASSUME NEW s \in Sessions, CreateSession(s) PROVE WorkersHoldLock'
  BY <1>1 DEF CreateSession, process, WorkersHoldLock, Working, HasLock
<1>2. ASSUME NEW s \in Sessions, DeleteSession(s) PROVE WorkersHoldLock'
  <2>1. \A u \in Turns : turn'[u].session = turn[u].session
    BY <1>2 DEF DeleteSession, TypeInv, TypeOK, TurnRecord
  <2>2. QED
    BY <1>2, <2>1, LaneKept DEF DeleteSession, process, Working
<1>3. ASSUME NEW s \in Sessions, NEW t \in Turns, SubmitMessage(s, t)
      PROVE  WorkersHoldLock'
  BY <1>3, LaneJoined DEF SubmitMessage, TypeInv, TypeOK
<1>4. ASSUME NEW s \in Sessions, NEW t \in Turns, RemoveContext(s, t)
      PROVE  WorkersHoldLock'
  <2>1. task[t] = "none" /\ UNCHANGED <<task, lane>>
    BY <1>4 DEF RemoveContext, process, TypeInv, Owned
  <2>2. \A u \in Turns : u # t => turn'[u].session = turn[u].session
    BY <1>4 DEF RemoveContext, TypeInv, TypeOK
  <2>3. QED BY <2>1, <2>2, LaneKept DEF Working
<1>5. ASSUME NEW o \in Turns, NEW t \in Turns, NEW kind,
             NEW action, PinForClaim(kind, o, t, action)
      PROVE  WorkersHoldLock'
  BY <1>5 DEF PinForClaim, store, WorkersHoldLock, Working, HasLock
<1>6. QED
  BY <1>1, <1>2, <1>3, <1>4, <1>5
  DEF Handler, PinForClarification, PinForContinuation

LEMMA ResolveClaimLock == TypeInv /\ WorkersHoldLock /\ ResolveClaim => WorkersHoldLock'
<1> SUFFICES ASSUME TypeInv, WorkersHoldLock, ResolveClaim PROVE WorkersHoldLock'
  OBVIOUS
<1>1. CASE RefuseClaim
  BY <1>1 DEF RefuseClaim, store, WorkersHoldLock, Working, HasLock
<1>2. ASSUME AcceptClarification \/ AcceptContinuation PROVE WorkersHoldLock'
  <2>1. claim # NoClaim
    BY <1>2 DEF AcceptClarification, AcceptContinuation, NoClaim
  <2>2. PICK t \in Turns : t = claim.turn /\ turn[t].status = "unused"
    BY <2>1 DEF TypeInv, ClaimReserves
  <2>3. PICK s \in Sessions : s = turn[claim.source].session
    BY <2>1 DEF TypeInv, ClaimReserves, Owned
  <2>4. Launch(s, t)
    BY <1>2, <2>2, <2>3 DEF AcceptClarification, AcceptContinuation
  <2>5. \A u \in Turns : u # t => turn'[u] = turn[u]
    BY <1>2, <2>2 DEF AcceptClarification, AcceptContinuation, TypeInv, TypeOK
  <2>6. QED BY <2>2, <2>4, <2>5, LaneJoined
<1>3. QED BY <1>1, <1>2 DEF ResolveClaim

\* A step that goes on under the lock.
LEMMA WorkLock ==
    ASSUME TypeInv, WorkersHoldLock, NEW t \in Turns, HasLock(t), UNCHANGED lane,
           \A u \in Turns : u # t => task'[u] = task[u],
           \A u \in Turns : turn'[u].session = turn[u].session
    PROVE  WorkersHoldLock'
BY LaneKept DEF Working

LEMMA AnswerLock ==
    ASSUME TypeInv, WorkersHoldLock, NEW t \in Turns, At(t, task[t]), task[t] # "none",
           NEW asked \in QuestionKinds \cup {"none"}, NEW revision \in Nat,
           Answer(t, revision, asked)
    PROVE  WorkersHoldLock'
<1>1. \A u \in Turns : turn'[u].session = turn[u].session
  BY CompleteType DEF Answer, SameRequest
<1>2. \A u \in Turns : u # t => task'[u] = task[u]
  BY DEF Answer, TypeInv, TypeOK
<1>3. QED BY <1>1, <1>2, WorkLock DEF Answer, At

LEMMA FailLock ==
    ASSUME TypeInv, WorkersHoldLock, NEW t \in Turns, At(t, task[t]), task[t] # "none",
           Fail(t)
    PROVE  WorkersHoldLock'
<1>1. \A u \in Turns : turn'[u].session = turn[u].session
  BY CompleteType, RevisionType DEF Fail, SameRequest
<1>2. QED BY <1>1, LaneLeft DEF Fail, At

LEMMA PinLock ==
    ASSUME TypeInv, WorkersHoldLock, NEW t \in Turns, At(t, task[t]),
           NEW revision, NEW p, Pin(t, revision, p)
    PROVE  WorkersHoldLock'
<1>1. \A u \in Turns : turn'[u].session = turn[u].session
  BY DEF Pin, TypeInv, TypeOK, TurnRecord
<1>2. \A u \in Turns : u # t => task'[u] = task[u]
  BY DEF Pin, TypeInv, TypeOK
<1>3. QED BY <1>1, <1>2, WorkLock DEF Pin, At

LEMMA TaskStepLock ==
    ASSUME TypeInv, WorkersHoldLock, NEW t \in Turns, TaskStep(t)
    PROVE  WorkersHoldLock'
<1>1. CASE RefuseStaleTurn(t)
  BY <1>1, FailLock DEF RefuseStaleTurn, At
<1>2. CASE StartMessage(t)
  BY <1>2, PinLock DEF StartMessage, Fresh, At
<1>3. CASE StartContinuation(t)
  BY <1>3, PinLock DEF StartContinuation, Fresh, At
<1>4. CASE StartClarification(t)
  BY <1>4, PinLock DEF StartClarification, Fresh, At
<1>5. CASE CancelClarification(t)
  BY <1>5, AnswerLock, RevisionType DEF CancelClarification, Fresh, At
<1>6. ASSUME NEW asked \in QuestionKinds \cup {"none"},
             RepeatBindingQuestion(t, asked) \/ PlannerAsks(t, asked)
                \/ ExecutorAnswers(t, asked)
      PROVE  WorkersHoldLock'
  BY <1>6, AnswerLock, RevisionType DEF RepeatBindingQuestion, PlannerAsks, ExecutorAnswers, Fresh, At
<1>7. CASE PlannerPlans(t)
  BY <1>7, WorkLock DEF PlannerPlans, At, store, TypeInv, TypeOK
<1>8. CASE StorePage(t)
  BY <1>8, WorkLock DEF StorePage, At, TypeInv, TypeOK
<1>9. CASE AnswerWithPage(t)
  BY <1>9, AnswerLock, RevisionType DEF AnswerWithPage, At
<1>10. CASE FailTurn(t)
  BY <1>10, FailLock DEF FailTurn, At
<1>11. CASE Record(t)
  BY <1>11, LaneLeft DEF Record, At, store
<1>12. CASE TaskOfDeletedTurn(t)
  BY <1>12, LaneLeft DEF TaskOfDeletedTurn, store
<1>13. QED
  BY <1>1, <1>2, <1>3, <1>4, <1>5, <1>6, <1>7, <1>8, <1>9, <1>10, <1>11, <1>12
  DEF TaskStep

LEMMA OtherLock ==
    TypeInv /\ WorkersHoldLock /\ (Fault \/ Environment) => WorkersHoldLock'
<1> SUFFICES ASSUME TypeInv, WorkersHoldLock, Fault \/ Environment
             PROVE  WorkersHoldLock'
  OBVIOUS
<1>1. ASSUME NEW t \in Turns, RecordFails(t) PROVE WorkersHoldLock'
  BY <1>1, FailLock DEF RecordFails, At
<1>2. ASSUME NEW t \in Turns, TaskDies(t) PROVE WorkersHoldLock'
  BY <1>2, LaneLeft DEF TaskDies, At, store
<1>3. CASE ImportCatalog \/ \E o \in Turns : ExpireHandles(o)
  BY <1>3 DEF ImportCatalog, ExpireHandles, process, WorkersHoldLock, Working, HasLock
<1>4. ASSUME NEW m \in Markers, Restart(m) PROVE WorkersHoldLock'
  BY <1>4 DEF Restart, WorkersHoldLock, Working
<1>5. QED BY <1>1, <1>2, <1>3, <1>4 DEF Fault, Environment

LEMMA LockInvariant == Spec => []WorkersHoldLock
<1>1. Init => WorkersHoldLock
  BY DEF Init, WorkersHoldLock, Working
<1>2. TypeInv /\ WorkersHoldLock /\ [Next]_vars => WorkersHoldLock'
  <2>1. TypeInv /\ WorkersHoldLock /\ Next => WorkersHoldLock'
    BY HandlerLock, ResolveClaimLock, TaskStepLock, OtherLock DEF Next
  <2>2. WorkersHoldLock /\ UNCHANGED vars => WorkersHoldLock'
    BY DEF vars, store, process, WorkersHoldLock, Working, HasLock
  <2>3. QED BY <2>1, <2>2
<1>3. QED BY <1>1, <1>2, TypeInvariant, PTL DEF Spec

-----------------------------------------------------------------------------
(* Answers on distinct versions.                                             *)

\* The context version of a session is ahead of every turn that answered, and a
\* turn at work reads a version that is ahead of every answer of its session.
VersionInv ==
    /\ \A s \in Sessions : session[s].status = "absent" => session[s].version = 0
    /\ \A t \in Turns : turn[t].status # "unused" =>
                           /\ session[turn[t].session].status # "absent"
                           /\ turn[t].version <= session[turn[t].session].version
    /\ \A t \in Turns : Answered(t) =>
                           turn[t].version < session[turn[t].session].version
    /\ \A t, u \in Turns :
          /\ Computing(t) /\ Answered(u)
          /\ turn[u].session = turn[t].session
          => turn[u].version < turn[t].version
    /\ AnswersOnDistinctVersions

\* A session that exists stays known, and no session's context version goes back.
VersionsGrow ==
    \A s \in Sessions :
        /\ session[s].version <= session'[s].version
        /\ session'[s].status = "absent" =>
              session[s].status = "absent" /\ session'[s].version = 0

\* Turn u goes on without an answer and without passing the version check.
GoesOn(u) ==
    /\ SameRequest(u)
    /\ turn'[u].status # "unused" => turn[u].status # "unused"
    /\ Answered(u)' => Answered(u)
    /\ Computing(u)' => Computing(u)

\* Turn u is new, at a version its session has reached.
Begins(u) ==
    /\ turn'[u].session \in Sessions
    /\ ~Answered(u)' /\ ~Computing(u)'
    /\ session'[turn'[u].session].status # "absent"
    /\ turn'[u].version <= session'[turn'[u].session].version

LEMMA QuietStep ==
    ASSUME TypeInv, TypeInv', VersionInv, VersionsGrow,
           \A u \in Turns : GoesOn(u) \/ Begins(u)
    PROVE  VersionInv'
<1>1. \A s \in Sessions : session[s].version \in Nat /\ session'[s].version \in Nat
  BY DEF TypeInv, TypeOK, SessionRecord
<1>2. \A u \in Turns : turn[u].version \in Nat /\ turn'[u].version \in Nat
  BY DEF TypeInv, TypeOK, TurnRecord
<1>3. \A u \in Turns : Answered(u)' => GoesOn(u) /\ Answered(u)
  BY DEF GoesOn, Begins
<1>4. \A u \in Turns : Computing(u)' => GoesOn(u) /\ Computing(u)
  BY DEF GoesOn, Begins
<1>5. \A u \in Turns : turn[u].status # "unused" => turn[u].session \in Sessions
  BY DEF TypeInv, Owned
<1>6. \A u \in Turns : turn'[u].status # "unused" =>
                         /\ session'[turn'[u].session].status # "absent"
                         /\ turn'[u].version <= session'[turn'[u].session].version
  <2> SUFFICES ASSUME NEW u \in Turns, turn'[u].status # "unused", GoesOn(u)
               PROVE  /\ session'[turn'[u].session].status # "absent"
                      /\ turn'[u].version <= session'[turn'[u].session].version
    BY DEF Begins
  <2>1. turn[u].status # "unused" /\ turn[u].session \in Sessions
    BY <1>5 DEF GoesOn
  <2>2. /\ session[turn[u].session].status # "absent"
        /\ turn[u].version <= session[turn[u].session].version
    BY <2>1 DEF VersionInv
  <2>3. /\ session'[turn[u].session].status # "absent"
        /\ session[turn[u].session].version <= session'[turn[u].session].version
    BY <2>1, <2>2 DEF VersionsGrow
  <2>4. QED BY <1>1, <1>2, <2>1, <2>2, <2>3 DEF GoesOn, SameRequest
<1>7. \A u \in Turns : Answered(u)' =>
                         turn'[u].version < session'[turn'[u].session].version
  <2> SUFFICES ASSUME NEW u \in Turns, Answered(u)'
               PROVE  turn'[u].version < session'[turn'[u].session].version
    OBVIOUS
  <2>1. Answered(u) /\ turn[u].session \in Sessions /\ SameRequest(u)
    BY <1>3, <1>5 DEF Answered, GoesOn
  <2>2. turn[u].version < session[turn[u].session].version
    BY <2>1 DEF VersionInv
  <2>3. session[turn[u].session].version <= session'[turn[u].session].version
    BY <2>1 DEF VersionsGrow
  <2>4. QED BY <1>1, <1>2, <2>1, <2>2, <2>3 DEF SameRequest
<1>8. \A t, u \in Turns :
         /\ Computing(t)' /\ Answered(u)'
         /\ turn'[u].session = turn'[t].session
         => turn'[u].version < turn'[t].version
  BY <1>3, <1>4 DEF VersionInv, GoesOn, SameRequest
<1>9. AnswersOnDistinctVersions'
  <2> SUFFICES ASSUME NEW t \in Turns, NEW u \in Turns,
                      Answered(t)', Answered(u)',
                      turn'[t].session = turn'[u].session,
                      turn'[t].version = turn'[u].version
               PROVE  t = u
    BY DEF AnswersOnDistinctVersions
  <2>1. Answered(t) /\ Answered(u) /\ SameRequest(t) /\ SameRequest(u)
    BY <1>3 DEF GoesOn
  <2>2. QED BY <2>1 DEF VersionInv, AnswersOnDistinctVersions, SameRequest
<1>10. QED
  BY <1>6, <1>7, <1>8, <1>9 DEF VersionInv, VersionsGrow

\* The version check passes: everything answered is behind the turn.
LEMMA StartStep ==
    ASSUME TypeInv, VersionInv, NEW t \in Turns, Fresh(t),
           NEW revision, NEW p, Pin(t, revision, p)
    PROVE  VersionInv'
<1>1. \A u \in Turns : SameRequest(u)
  BY DEF Pin, SameRequest, TypeInv, TypeOK, TurnRecord
<1>2. \A u \in Turns : Answered(u)' => Answered(u)
  BY DEF Pin, Answered, TypeInv, TypeOK, TurnRecord
<1>3. \A u \in Turns : turn'[u].status # "unused" => turn[u].status # "unused"
  BY DEF Pin, Fresh, At, TypeInv, TypeOK, TurnRecord, Owned
<1>4. \A u \in Turns : Computing(u)' => u = t \/ Computing(u)
  BY DEF Pin, Computing, TypeInv, TypeOK
<1>5. UNCHANGED session
  BY DEF Pin
<1>6. \A u \in Turns : /\ Answered(u)
                       /\ turn[u].session = turn[t].session
                       => turn[u].version < turn[t].version
  BY DEF VersionInv, Fresh
<1>7. QED
  BY <1>1, <1>2, <1>3, <1>4, <1>5, <1>6
  DEF VersionInv, AnswersOnDistinctVersions, SameRequest

\* The only answer of a session at a time: its task holds the lock.
LEMMA AnswerStep ==
    ASSUME TypeInv, WorkersHoldLock, VersionInv, NEW t \in Turns,
           At(t, task[t]), task[t] # "none",
           Computing(t) \/ session[turn[t].session].version = turn[t].version,
           NEW asked \in QuestionKinds \cup {"none"}, NEW revision \in Nat,
           Answer(t, revision, asked)
    PROVE  VersionInv'
<1> DEFINE s == turn[t].session
<1>1. s \in Sessions /\ turn[t].status # "unused"
  BY DEF TypeInv, Owned
<1>2. \A u \in Turns : u # t => turn'[u] = turn[u] /\ task'[u] = task[u]
  BY DEF Answer, CompleteTurn, TypeInv, TypeOK
<1>3. \A u \in Turns : SameRequest(u)
  BY CompleteType DEF Answer
<1>4. ~Computing(t)'
  BY DEF Answer, Computing, TypeInv, TypeOK
<1>5. /\ session'[s].version = session[s].version + 1
      /\ session'[s].status = session[s].status
      /\ \A r \in Sessions : r # s => session'[r] = session[r]
  BY <1>1 DEF Answer, CompleteTurn, TypeInv, TypeOK, SessionRecord
<1>6. \A r \in Sessions : session[r].version \in Nat
  BY DEF TypeInv, TypeOK, SessionRecord
<1>7. \A u \in Turns : turn[u].version \in Nat
  BY DEF TypeInv, TypeOK, TurnRecord
<1>8. VersionsGrow
  BY <1>1, <1>5, <1>6 DEF VersionInv, VersionsGrow
<1>9. \A u \in Turns : Answered(u) /\ turn[u].session = s
                       => turn[u].version < turn[t].version
  BY <1>7 DEF VersionInv
<1>10. \A u \in Turns : Computing(u)' => turn[u].session # s
  <2> SUFFICES ASSUME NEW u \in Turns, Computing(u)' PROVE turn[u].session # s
    OBVIOUS
  <2>1. u # t
    BY <1>4
  <2>2. Computing(u)
    BY <1>2, <2>1 DEF Computing
  <2>3. HasLock(u)
    BY <2>2 DEF WorkersHoldLock, Working, Computing
  <2>4. QED BY <2>1, <2>3 DEF HasLock, At
<1>11. \A u \in Turns : turn'[u].status # "unused" =>
                          /\ session'[turn'[u].session].status # "absent"
                          /\ turn'[u].version <= session'[turn'[u].session].version
  <2> SUFFICES ASSUME NEW u \in Turns, turn'[u].status # "unused"
               PROVE  /\ session'[turn'[u].session].status # "absent"
                      /\ turn'[u].version <= session'[turn'[u].session].version
    OBVIOUS
  <2>1. turn[u].status # "unused" /\ turn[u].session \in Sessions
    BY <1>1, <1>2 DEF TypeInv, Owned
  <2>2. QED BY <1>3, <1>5, <1>6, <1>7, <2>1 DEF VersionInv, SameRequest
<1>12. \A u \in Turns : Answered(u)' =>
                          turn'[u].version < session'[turn'[u].session].version
  <2> SUFFICES ASSUME NEW u \in Turns, Answered(u)'
               PROVE  turn'[u].version < session'[turn'[u].session].version
    OBVIOUS
  <2>1. CASE u = t
    BY <1>1, <1>3, <1>5, <1>6, <1>7, <2>1 DEF VersionInv, SameRequest
  <2>2. CASE u # t
    <3>1. Answered(u) /\ turn[u].session \in Sessions
      BY <1>2, <2>2 DEF Answered, TypeInv, Owned
    <3>2. turn[u].version < session[turn[u].session].version
      BY <3>1 DEF VersionInv
    <3>3. session'[turn[u].session].version \in Nat
      BY <1>5, <1>6, <3>1
    <3>4. session[turn[u].session].version <= session'[turn[u].session].version
      BY <1>8, <3>1 DEF VersionsGrow
    <3>5. QED BY <1>3, <1>6, <1>7, <3>1, <3>2, <3>3, <3>4 DEF SameRequest
  <2>3. QED BY <2>1, <2>2
<1>13. \A c, u \in Turns :
          /\ Computing(c)' /\ Answered(u)'
          /\ turn'[u].session = turn'[c].session
          => turn'[u].version < turn'[c].version
  <2> SUFFICES ASSUME NEW c \in Turns, NEW u \in Turns, Computing(c)', Answered(u)',
                      turn'[u].session = turn'[c].session
               PROVE  turn'[u].version < turn'[c].version
    OBVIOUS
  <2>1. c # t /\ u # t
    BY <1>3, <1>4, <1>10 DEF SameRequest
  <2>2. Computing(c) /\ Answered(u)
    BY <1>2, <2>1 DEF Computing, Answered
  <2>3. QED BY <1>3, <2>2 DEF VersionInv, SameRequest
<1>14. AnswersOnDistinctVersions'
  <2> SUFFICES ASSUME NEW c \in Turns, NEW u \in Turns, Answered(c)', Answered(u)',
                      turn'[c].session = turn'[u].session,
                      turn'[c].version = turn'[u].version, c # u
               PROVE  FALSE
    BY DEF AnswersOnDistinctVersions
  <2>1. CASE c # t /\ u # t
    BY <1>2, <2>1 DEF Answered, VersionInv, AnswersOnDistinctVersions
  <2>2. CASE c = t \/ u = t
    <3>1. PICK r \in Turns : /\ r # t /\ Answered(r)'
                             /\ turn'[r].session = turn'[t].session
                             /\ turn'[r].version = turn'[t].version
      BY <2>2
    <3>2. Answered(r)
      BY <1>2, <3>1 DEF Answered
    <3>3. turn[r].version < turn[t].version /\ turn[r].version = turn[t].version
      BY <1>3, <1>9, <3>1, <3>2 DEF SameRequest
    <3>4. QED BY <1>7, <3>3
  <2>3. QED BY <2>1, <2>2
<1>15. QED
  BY <1>8, <1>11, <1>12, <1>13, <1>14 DEF VersionInv, VersionsGrow

\* A new status leaves the rest of a turn's row.
LEMMA StatusOnly ==
    ASSUME NEW r \in TurnRecord, NEW status
    PROVE  LET changed == [r EXCEPT !.status = status]
           IN  /\ changed.status = status
               /\ changed.session = r.session /\ changed.version = r.version
               /\ changed.kind = r.kind /\ changed.source = r.source
BY DEF TurnRecord

\* An accepted turn reads the version its session has now.
NewTurn(s, t) ==
    /\ turn[t].status = "unused"
    /\ turn'[t].session = s /\ turn'[t].version = session[s].version
    /\ turn'[t].status = "accepted"
    /\ task'[t] \in {"none", "waiting"}
    /\ \A u \in Turns : u # t => turn'[u] = turn[u] /\ task'[u] = task[u]

LEMMA NewTurnStep ==
    ASSUME TypeInv, TypeInv', VersionInv, NEW s \in Sessions, NEW t \in Turns,
           NewTurn(s, t), session[s].status # "absent", UNCHANGED session
    PROVE  VersionInv'
<1>1. \A r \in Sessions : session[r].version \in Nat
  BY DEF TypeInv, TypeOK, SessionRecord
<1>2. VersionsGrow
  BY <1>1 DEF VersionInv, VersionsGrow
<1>3. \A u \in Turns : u # t => GoesOn(u)
  BY DEF NewTurn, GoesOn, SameRequest, Answered, Computing
<1>4. Begins(t)
  BY <1>1 DEF NewTurn, Begins, Answered, Computing
<1>5. QED BY <1>2, <1>3, <1>4, QuietStep

LEMMA HandlerVersion ==
    ASSUME TypeInv, TypeInv', VersionInv, Handler PROVE VersionInv'
<1>1. ASSUME NEW s \in Sessions, CreateSession(s) PROVE VersionInv'
  <2>1. VersionsGrow
    BY <1>1 DEF CreateSession, VersionInv, VersionsGrow, TypeInv, TypeOK, SessionRecord
  <2>2. \A u \in Turns : GoesOn(u)
    BY <1>1 DEF CreateSession, process, GoesOn, SameRequest, Answered, Computing
  <2>3. QED BY <2>1, <2>2, QuietStep
<1>2. ASSUME NEW s \in Sessions, DeleteSession(s) PROVE VersionInv'
  <2>1. VersionsGrow
    <3>1. \A r \in Sessions : /\ session'[r].version = session[r].version
                              /\ session'[r].status = "absent" =>
                                    session[r].status = "absent"
      <4>1. /\ session \in [Sessions -> SessionRecord]
            /\ session' = [session EXCEPT ![s].status = "deleted"]
        BY <1>2 DEF DeleteSession, TypeInv, TypeOK
      <4>2. QED BY <4>1 DEF SessionRecord
    <3>2. \A r \in Sessions : session[r].version \in Nat
      BY DEF TypeInv, TypeOK, SessionRecord
    <3>3. QED BY <3>1, <3>2 DEF VersionInv, VersionsGrow
  <2>2. \A u \in Turns : GoesOn(u)
    <3> SUFFICES ASSUME NEW u \in Turns PROVE GoesOn(u)
      OBVIOUS
    <3>1. \/ turn'[u] = turn[u]
          \/ SameRequest(u) /\ turn[u].session = s /\ turn'[u].status = "deleted"
      <4>1. turn'[u] = IF turn[u].session = s
                       THEN [turn[u] EXCEPT !.status = "deleted"]
                       ELSE turn[u]
        BY <1>2 DEF DeleteSession
      <4>2. CASE turn[u].session = s
        <5>1. turn[u] \in TurnRecord
          BY DEF TypeInv, TypeOK
        <5>2. turn'[u] = [turn[u] EXCEPT !.status = "deleted"]
          BY <4>1, <4>2
        <5>3. QED BY <4>2, <5>1, <5>2, StatusOnly DEF SameRequest
      <4>3. QED BY <4>1, <4>2
    <3>2. turn[u].session = s => turn[u].status # "unused"
      BY DEF TypeInv, Owned
    <3>3. task'[u] = task[u]
      BY <1>2 DEF DeleteSession, process
    <3>4. QED BY <3>1, <3>2, <3>3 DEF GoesOn, SameRequest, Answered, Computing
  <2>3. QED BY <2>1, <2>2, QuietStep
<1>3. ASSUME NEW s \in Sessions, NEW t \in Turns, SubmitMessage(s, t)
      PROVE  VersionInv'
  <2>1. NewTurn(s, t)
    BY <1>3 DEF SubmitMessage, Accepted, NewTurn, Launch, Spawn, TypeInv, TypeOK, Owned
  <2>2. session[s].status # "absent" /\ UNCHANGED session
    BY <1>3 DEF SubmitMessage
  <2>3. QED BY <2>1, <2>2, NewTurnStep
<1>4. ASSUME NEW s \in Sessions, NEW t \in Turns, RemoveContext(s, t)
      PROVE  VersionInv'
  <2> DEFINE audit == [Accepted(s, "removal", None, 0) EXCEPT !.status = "completed"]
  <2>1. /\ audit.session = s /\ audit.version = session[s].version
        /\ audit.kind = "removal"
    BY DEF Accepted
  <2>2. /\ turn' = [turn EXCEPT ![t] = audit]
        /\ turn[t].status = "unused"
        /\ UNCHANGED task
    BY <1>4 DEF RemoveContext, process
  <2> HIDE DEF audit
  <2>3. turn'[t] = audit /\ \A u \in Turns : u # t => turn'[u] = turn[u]
    BY <2>2 DEF TypeInv, TypeOK
  <2>4. VersionsGrow
    <3>1. /\ session \in [Sessions -> SessionRecord]
          /\ session' = [session EXCEPT ![s].version = @ + 1]
          /\ session[s].status = "open"
      BY <1>4 DEF RemoveContext, TypeInv, TypeOK
    <3>2. \A r \in Sessions : /\ session'[r].version \in Nat
                              /\ session[r].version <= session'[r].version
                              /\ session'[r].status = "absent" =>
                                    session'[r] = session[r]
      BY <3>1 DEF SessionRecord
    <3>3. QED BY <3>2 DEF VersionInv, VersionsGrow
  <2>5. \A u \in Turns : GoesOn(u) \/ Begins(u)
    <3>1. \A u \in Turns : u # t => GoesOn(u)
      BY <2>2, <2>3 DEF GoesOn, SameRequest, Answered, Computing
    <3>2. session[s].status = "open"
      BY <1>4 DEF RemoveContext
    <3>3. Begins(t)
      BY <2>1, <2>2, <2>3, <2>4, <3>2
      DEF Begins, Answered, Computing, VersionsGrow, TypeInv, Owned
    <3>4. QED BY <3>1, <3>3
  <2>6. QED BY <2>4, <2>5, QuietStep
<1>5. ASSUME NEW o \in Turns, NEW t \in Turns, NEW kind, NEW action,
             PinForClaim(kind, o, t, action)
      PROVE  VersionInv'
  BY <1>5 DEF PinForClaim, store, VersionInv, Answered, Computing, AnswersOnDistinctVersions
<1>6. QED
  BY <1>1, <1>2, <1>3, <1>4, <1>5
  DEF Handler, PinForClarification, PinForContinuation

LEMMA ResolveClaimVersion ==
    ASSUME TypeInv, TypeInv', VersionInv, ResolveClaim PROVE VersionInv'
<1>1. CASE RefuseClaim
  BY <1>1 DEF RefuseClaim, store, VersionInv, Answered, Computing, AnswersOnDistinctVersions
<1>2. ASSUME AcceptClarification \/ AcceptContinuation PROVE VersionInv'
  <2>1. claim # NoClaim
    BY <1>2 DEF AcceptClarification, AcceptContinuation, NoClaim
  <2>2. PICK t \in Turns : t = claim.turn /\ turn[t].status = "unused"
    BY <2>1 DEF TypeInv, ClaimReserves
  <2>3. PICK o \in Turns : o = claim.source /\ turn[o].status # "unused"
    BY <2>1 DEF TypeInv, ClaimReserves
  <2>4. PICK s \in Sessions : s = turn[o].session
    BY <2>3 DEF TypeInv, Owned
  <2>5. PICK kind, revision : turn' = [turn EXCEPT ![t] = Accepted(s, kind, o, revision)]
    BY <1>2, <2>2, <2>3, <2>4 DEF AcceptClarification, AcceptContinuation
  <2>6. Launch(s, t) /\ UNCHANGED session
    BY <1>2, <2>2, <2>3, <2>4 DEF AcceptClarification, AcceptContinuation
  <2>7. NewTurn(s, t)
    BY <2>2, <2>5, <2>6 DEF Accepted, NewTurn, Launch, Spawn, TypeInv, TypeOK, Owned
  <2>8. session[s].status # "absent"
    BY <2>3, <2>4 DEF VersionInv
  <2>9. QED BY <2>6, <2>7, <2>8, NewTurnStep
<1>3. QED BY <1>1, <1>2 DEF ResolveClaim

\* A task that leaves the lock, with its turn failed or as it was.
LEMMA FailVersion ==
    ASSUME TypeInv, TypeInv', VersionInv, NEW t \in Turns, task[t] # "none", Fail(t)
    PROVE  VersionInv'
<1> DEFINE s == turn[t].session
<1>1. \A u \in Turns : SameRequest(u)
  BY CompleteType, RevisionType DEF Fail
<1>2. VersionsGrow
  <2>1. s \in Sessions /\ session \in [Sessions -> SessionRecord]
    BY DEF TypeInv, TypeOK, Owned
  <2>2. session' = [session EXCEPT ![s].version = @ + 1]
    BY DEF Fail, CompleteTurn
  <2>3. session[s].status # "absent"
    BY DEF VersionInv, TypeInv, Owned
  <2>4. \A r \in Sessions : /\ session[r].version <= session'[r].version
                            /\ session'[r].status = session[r].status
                            /\ r # s => session'[r] = session[r]
    BY <2>1, <2>2 DEF SessionRecord
  <2>5. QED BY <2>3, <2>4 DEF VersionInv, VersionsGrow
<1>3. \A u \in Turns : GoesOn(u)
  <2> SUFFICES ASSUME NEW u \in Turns PROVE GoesOn(u)
    OBVIOUS
  <2>1. (u = t /\ turn'[u].status = "failed") \/ turn'[u].status = turn[u].status
    BY DEF Fail, CompleteTurn, TypeInv, TypeOK, TurnRecord
  <2>2. task'[u] = task[u] \/ task'[u] = "none"
    BY DEF Fail, EndTask, TypeInv, TypeOK
  <2>3. turn[t].status # "unused"
    BY DEF TypeInv, Owned
  <2>4. QED
    BY <1>1, <2>1, <2>2, <2>3 DEF GoesOn, SameRequest, Answered, Computing
<1>4. QED BY <1>2, <1>3, QuietStep

\* A step that leaves sessions and turns alone and starts no computation.
LEMMA TaskOnlyVersion ==
    ASSUME VersionInv, UNCHANGED <<session, turn>>,
           \A u \in Turns : Computing(u)' => Computing(u)
    PROVE  VersionInv'
BY DEF VersionInv, Answered, AnswersOnDistinctVersions

LEMMA LeaveVersion ==
    ASSUME TypeInv, VersionInv, NEW t \in Turns, EndTask(t), UNCHANGED store
    PROVE  VersionInv'
<1>1. \A u \in Turns : task'[u] = task[u] \/ task'[u] = "none"
  BY DEF EndTask, TypeInv, TypeOK
<1>2. QED BY <1>1, TaskOnlyVersion DEF store, Computing

LEMMA TaskStepVersion ==
    ASSUME TypeInv, TypeInv', WorkersHoldLock, VersionInv, NEW t \in Turns, TaskStep(t)
    PROVE  VersionInv'
<1>1. CASE RefuseStaleTurn(t)
  BY <1>1, FailVersion DEF RefuseStaleTurn, At
<1>2. CASE StartMessage(t)
  BY <1>2, StartStep DEF StartMessage
<1>3. CASE StartContinuation(t)
  BY <1>3, StartStep DEF StartContinuation
<1>4. CASE StartClarification(t)
  BY <1>4, StartStep DEF StartClarification
<1>5. CASE CancelClarification(t)
  BY <1>5, AnswerStep, RevisionType DEF CancelClarification, Fresh, At
<1>6. ASSUME NEW asked \in QuestionKinds \cup {"none"}, RepeatBindingQuestion(t, asked)
      PROVE  VersionInv'
  BY <1>6, AnswerStep, RevisionType DEF RepeatBindingQuestion, Fresh, At
<1>7. ASSUME NEW asked \in QuestionKinds \cup {"none"},
             PlannerAsks(t, asked) \/ ExecutorAnswers(t, asked)
      PROVE  VersionInv'
  BY <1>7, AnswerStep, RevisionType DEF PlannerAsks, ExecutorAnswers, At, Computing
<1>8. CASE PlannerPlans(t)
  <2>1. \A u \in Turns : Computing(u)' => Computing(u)
    BY <1>8 DEF PlannerPlans, At, Computing, TypeInv, TypeOK
  <2>2. QED BY <1>8, <2>1, TaskOnlyVersion DEF PlannerPlans, store
<1>9. CASE StorePage(t)
  <2>1. \A u \in Turns : Computing(u)' => Computing(u)
    BY <1>9 DEF StorePage, At, Computing, TypeInv, TypeOK
  <2>2. QED BY <1>9, <2>1, TaskOnlyVersion DEF StorePage
<1>10. CASE AnswerWithPage(t)
  BY <1>10, AnswerStep, RevisionType DEF AnswerWithPage, At, Computing
<1>11. CASE FailTurn(t)
  BY <1>11, FailVersion DEF FailTurn, At
<1>12. CASE Record(t) \/ TaskOfDeletedTurn(t)
  BY <1>12, LeaveVersion DEF Record, TaskOfDeletedTurn
<1>13. QED
  BY <1>1, <1>2, <1>3, <1>4, <1>5, <1>6, <1>7, <1>8, <1>9, <1>10, <1>11, <1>12
  DEF TaskStep

LEMMA OtherVersion ==
    ASSUME TypeInv, TypeInv', VersionInv, Fault \/ Environment
    PROVE  VersionInv'
<1>1. ASSUME NEW t \in Turns, RecordFails(t) PROVE VersionInv'
  BY <1>1, FailVersion DEF RecordFails, At
<1>2. ASSUME NEW t \in Turns, TaskDies(t) PROVE VersionInv'
  BY <1>2, LeaveVersion DEF TaskDies
<1>3. CASE ImportCatalog \/ \E o \in Turns : ExpireHandles(o)
  BY <1>3, TaskOnlyVersion DEF ImportCatalog, ExpireHandles, process, Computing
<1>4. ASSUME NEW m \in Markers, Restart(m) PROVE VersionInv'
  BY <1>4, TaskOnlyVersion DEF Restart, store, Computing
<1>5. QED BY <1>1, <1>2, <1>3, <1>4 DEF Fault, Environment

\* VersionInv is inductive with the lock and the types.
LEMMA VersionInvariant == Spec => []VersionInv
<1>1. Init => VersionInv
  BY DEF Init, NoTurnYet, VersionInv, Answered, Computing, AnswersOnDistinctVersions
<1>2. TypeInv /\ TypeInv' /\ WorkersHoldLock /\ VersionInv /\ [Next]_vars => VersionInv'
  <2>1. TypeInv /\ TypeInv' /\ WorkersHoldLock /\ VersionInv /\ Next => VersionInv'
    BY HandlerVersion, ResolveClaimVersion, TaskStepVersion, OtherVersion DEF Next
  <2>2. VersionInv /\ UNCHANGED vars => VersionInv'
    BY DEF vars, store, process, VersionInv, Answered, Computing, AnswersOnDistinctVersions
  <2>3. QED BY <2>1, <2>2
<1>3. QED BY <1>1, <1>2, TypeInvariant, LockInvariant, PTL DEF Spec

\* Of the turns that read one context version at most one answers: the second
\* one to take the session's lock finds the version moved and fails.
THEOREM DistinctVersions == Spec => []AnswersOnDistinctVersions
<1>1. VersionInv => AnswersOnDistinctVersions
  BY DEF VersionInv
<1>2. QED BY <1>1, VersionInvariant, PTL
=============================================================================
