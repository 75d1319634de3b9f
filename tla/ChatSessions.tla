---------------------------- MODULE ChatSessions ----------------------------
(* The dialogue core of ChatBot 1C: ChatService (application/chat.py), the   *)
(* session, turn, clarification and page tables of SQLiteStore, and the web  *)
(* handlers that start one asyncio task per accepted turn.                   *)
(*                                                                           *)
(* Everything in SQLite survives a restart: session, turn, question, page,   *)
(* catalog.  The task table, the per-session asyncio locks, a half-done      *)
(* claim and the configured database marker belong to the process.  The      *)
(* event loop runs one handler or task at a time up to its next await, so a  *)
(* step here is the stretch between two awaits, split where it commits more  *)
(* than one transaction.                                                     *)
EXTENDS Naturals, Sequences, FiniteSets

CONSTANTS
    Sessions,      \* session ids
    Turns,         \* turn ids; the client_message_id of a message is its turn
    Markers,       \* configured database markers a restart may find
    None,          \* a NULL column
    MaxRevision,   \* bound on catalog revisions
    MaxRestarts,   \* bound on process restarts
    MaxFaults      \* bound on store errors outside the handled paths

ASSUME ChatAssumption ==
    /\ None \notin Sessions \cup Turns \cup Markers
    /\ MaxRevision \in Nat \ {0}
    /\ MaxRestarts \in Nat
    /\ MaxFaults \in Nat

VARIABLES
    session,   \* sessions: status and context_version
    turn,      \* turns, with the handle a turn claimed as its source
    question,  \* pending_clarifications, by the turn that asked
    page,      \* page_continuations, by the turn that listed
    expired,   \* turns whose question and page handles are over 30 minutes old
    catalog,   \* MAX(revision) of catalog_revisions
    marker,    \* database marker this process was configured with
    claim,     \* a claim handler between CatalogManager.pin and its transaction
    task,      \* process_turn tasks: where each one is
    lane,      \* asyncio.Lock of a session: holder, then the FIFO of waiters
    restarts,
    faults

store   == <<session, turn, question, page, expired, catalog>>
process == <<marker, claim, task, lane, restarts>>
vars    == <<store, process, faults>>

TurnKinds     == {"message", "clarification", "continuation", "removal"}
TurnStatuses  == {"unused", "accepted", "running", "completed", "failed", "deleted"}
QuestionKinds == {"resolver_choice", "context_binding", "interpretation_choice"}
Actions       == {"resume", "cancel"}
Phases        == {"none", "waiting", "planning", "executing", "storing", "recording"}

NoTurnYet  == [status |-> "unused", session |-> None, version |-> 0,
               kind |-> "message", source |-> None, revision |-> 0]
NoQuestion == [status |-> "none", kind |-> "none", version |-> 0,
               revision |-> 0, marker |-> None, action |-> "none"]
NoPage     == [status |-> "none", revision |-> 0, marker |-> None]
NoClaim    == [kind |-> "none", turn |-> None, source |-> None,
               action |-> "none", revision |-> 0]

Init ==
    /\ session  = [s \in Sessions |-> [status |-> "absent", version |-> 0]]
    /\ turn     = [t \in Turns |-> NoTurnYet]
    /\ question = [t \in Turns |-> NoQuestion]
    /\ page     = [t \in Turns |-> NoPage]
    /\ expired  = {}
    /\ catalog  = 1
    /\ marker   \in Markers
    /\ claim    = NoClaim
    /\ task     = [t \in Turns |-> "none"]
    /\ lane     = [s \in Sessions |-> << >>]
    /\ restarts = 0
    /\ faults   = 0

-----------------------------------------------------------------------------
(* Helpers.                                                                  *)

\* The event loop is free: no handler or task is between two transactions of
\* one synchronous stretch.
Idle ==
    /\ claim = NoClaim
    /\ \A t \in Turns : task[t] \notin {"storing", "recording"}

\* Mutant: a new turn or question leaves the open one open.
BadSuperseded(s) == question

\* Every question of session s that is neither consumed nor superseded becomes
\* superseded; the statement does not look at the expiry.
Superseded(s) ==
    [o \in Turns |-> IF turn[o].session = s /\ question[o].status = "open"
                     THEN [question[o] EXCEPT !.status = "superseded"]
                     ELSE question[o]]

\* INSERT INTO turns with status 'accepted' at the session's context version.
Accepted(s, kind, source, revision) ==
    [status |-> "accepted", session |-> s, version |-> session[s].version,
     kind |-> kind, source |-> source, revision |-> revision]

\* asyncio.create_task(process_turn(t)): a new task runs up to the session lock
\* before any later task does, so tasks queue there in the order of creation.
Spawn(s, t) ==
    /\ task' = [task EXCEPT ![t] = "waiting"]
    /\ lane' = [lane EXCEPT ![s] = Append(@, t)]

\* A handler that has committed a new turn appends its first event and starts the
\* task; when that append fails, the request does and nothing runs the turn.
Launch(s, t) ==
    \/ /\ Spawn(s, t)
       /\ UNCHANGED faults
    \/ /\ faults < MaxFaults
       /\ faults' = faults + 1
       /\ UNCHANGED <<task, lane>>

\* process_turn leaves `async with lock`: the task is over, the next one wakes.
EndTask(t) ==
    /\ task' = [task EXCEPT ![t] = "none"]
    /\ lane' = [lane EXCEPT ![turn[t].session] = Tail(@)]

HasLock(t) ==
    LET queue == lane[turn[t].session] IN queue # << >> /\ Head(queue) = t

\* Task t may take its next step from phase p.
At(t, p) ==
    /\ task[t] = p
    /\ HasLock(t)
    /\ turn[t].status # "deleted"

\* Mutant: a failed turn leaves the context version alone.
BadCompleteTurn(t, revision, status, asked) ==
    LET s == turn[t].session
    IN  /\ turn' = [turn EXCEPT ![t].status = status, ![t].revision = revision]
        /\ session' = IF status = "failed" THEN session
                      ELSE [session EXCEPT ![s].version = @ + 1]
        /\ question' =
             IF asked = "none" THEN question
             ELSE [Superseded(s) EXCEPT ![t] =
                     [status |-> "open", kind |-> asked,
                      version |-> turn[t].version + 1,
                      revision |-> revision,
                      marker |-> marker, action |-> "none"]]

\* complete_turn: final status (with the revision of a pin_turn in the same
\* stretch), an optional new question that supersedes the
\* open one and is good for the next context version, and the version itself,
\* which moves whether the turn answered or failed.
CompleteTurn(t, revision, status, asked) ==
    LET s == turn[t].session
    IN  /\ turn' = [turn EXCEPT ![t].status = status, ![t].revision = revision]
        /\ session' = [session EXCEPT ![s].version = @ + 1]
        /\ question' =
             IF asked = "none" THEN question
             ELSE [Superseded(s) EXCEPT ![t] =
                     [status |-> "open", kind |-> asked,
                      version |-> turn[t].version + 1,
                      revision |-> revision,
                      marker |-> marker, action |-> "none"]]

\* The turn, which runs on that catalog revision, is committed as completed; its
\* events and trace are still to write.
Answer(t, revision, asked) ==
    /\ CompleteTurn(t, revision, "completed", asked)
    /\ task' = [task EXCEPT ![t] = "recording"]
    /\ UNCHANGED <<page, expired, catalog, marker, claim, lane, restarts, faults>>

\* Mutant: the status the documentation names and the code never writes.
BadFail(t) ==
    /\ CompleteTurn(t, turn[t].revision, "interrupted", "none")
    /\ EndTask(t)
    /\ UNCHANGED <<page, expired, catalog, marker, claim, restarts>>

\* _fail: the turn is committed as failed, without plan and evidence.
Fail(t) ==
    /\ CompleteTurn(t, turn[t].revision, "failed", "none")
    /\ EndTask(t)
    /\ UNCHANGED <<page, expired, catalog, marker, claim, restarts>>

\* pin_turn, then the task goes on to phase p.
Pin(t, revision, p) ==
    /\ turn' = [turn EXCEPT ![t].status = "running", ![t].revision = revision]
    /\ task' = [task EXCEPT ![t] = p]
    /\ UNCHANGED <<session, question, page, expired, catalog,
                   marker, claim, lane, restarts, faults>>

-----------------------------------------------------------------------------
(* HTTP handlers.                                                            *)

CreateSession(s) ==
    /\ Idle
    /\ session[s].status = "absent"
    /\ session' = [session EXCEPT ![s] = [status |-> "open", version |-> 1]]
    /\ UNCHANGED <<turn, question, page, expired, catalog, process, faults>>

\* Mutant: the questions of the session stay behind.
BadDeleteSession(s) ==
    /\ Idle
    /\ session[s].status = "open"
    /\ session' = [session EXCEPT ![s].status = "deleted"]
    /\ turn' = [t \in Turns |-> IF turn[t].session = s
                                THEN [turn[t] EXCEPT !.status = "deleted"]
                                ELSE turn[t]]
    /\ page' = [t \in Turns |-> IF turn[t].session = s THEN NoPage ELSE page[t]]
    /\ UNCHANGED <<question, expired, catalog, process, faults>>

\* Foreign keys cascade from the session to its turns, questions and pages; the
\* tasks of those turns live on in the process.
DeleteSession(s) ==
    /\ Idle
    /\ session[s].status = "open"
    /\ session' = [session EXCEPT ![s].status = "deleted"]
    /\ turn' = [t \in Turns |-> IF turn[t].session = s
                                THEN [turn[t] EXCEPT !.status = "deleted"]
                                ELSE turn[t]]
    /\ question' = [t \in Turns |-> IF turn[t].session = s THEN NoQuestion
                                                           ELSE question[t]]
    /\ page' = [t \in Turns |-> IF turn[t].session = s THEN NoPage ELSE page[t]]
    /\ UNCHANGED <<expired, catalog, process, faults>>

\* Mutant: a repeated client_message_id starts the turn over.
BadSubmitMessage(s, t) ==
    /\ Idle
    /\ session[s].status = "open"
    /\ turn[t].status \in {"unused", "completed", "failed"}
    /\ turn' = [turn EXCEPT ![t] = Accepted(s, "message", None, 0)]
    /\ question' = Superseded(s)
    /\ Launch(s, t)
    /\ UNCHANGED <<session, page, expired, catalog, marker, claim, restarts>>

\* POST messages with the session's current version.  A stale version is
\* refused and a repeated client_message_id returns the stored turn without a
\* new task; neither changes anything.
SubmitMessage(s, t) ==
    /\ Idle
    /\ session[s].status = "open"
    /\ turn[t].status = "unused"
    /\ turn' = [turn EXCEPT ![t] = Accepted(s, "message", None, 0)]
    /\ question' = Superseded(s)
    /\ Launch(s, t)
    /\ UNCHANGED <<session, page, expired, catalog, marker, claim, restarts>>

\* POST messages with a context_action: the audit turn is born completed and no
\* task runs.  An answered turn of the session stands for the active slot.
RemoveContext(s, t) ==
    /\ Idle
    /\ session[s].status = "open"
    /\ turn[t].status = "unused"
    /\ \E u \in Turns : /\ turn[u].session = s
                        /\ turn[u].status = "completed"
                        /\ turn[u].kind # "removal"
    /\ turn' = [turn EXCEPT ![t] =
                  [Accepted(s, "removal", None, 0) EXCEPT !.status = "completed"]]
    /\ session' = [session EXCEPT ![s].version = @ + 1]
    /\ UNCHANGED <<question, page, expired, catalog, process, faults>>

\* A claim first pins the catalog; the claim transaction comes after, and the
\* CLI process can import in between.
PinForClaim(kind, o, t, action) ==
    /\ Idle
    /\ turn[t].status = "unused"
    /\ claim' = [kind |-> kind, turn |-> t, source |-> o,
                 action |-> action, revision |-> catalog]
    /\ UNCHANGED <<store, marker, task, lane, restarts, faults>>

PinForClarification(o, t, action) ==
    /\ question[o].status # "none"
    /\ PinForClaim("clarification", o, t, action)

\* A client knows a page handle from the evidence of an answered turn only.
PinForContinuation(o, t) ==
    /\ page[o].status # "none"
    /\ turn[o].status = "completed"
    /\ PinForClaim("continuation", o, t, "none")

\* Mutant: the claim trusts the pinned catalog, as claim_continuation does.
PinnedClarificationClaimable(o, revision) ==
    /\ question[o].status = "open"
    /\ o \notin expired
    /\ session[turn[o].session].version = question[o].version
    /\ question[o].revision = revision
    /\ question[o].marker = marker

\* Mutant: the claim reads the session's version and compares it with nothing.
UnversionedClarificationClaimable(o, revision) ==
    /\ question[o].status = "open"
    /\ o \notin expired
    /\ question[o].revision = revision
    /\ catalog = revision
    /\ question[o].marker = marker

\* The checks of claim_clarification.  The client's expected version has to be
\* both the session's and the question's.
ClarificationClaimable(o, revision) ==
    /\ question[o].status = "open"
    /\ o \notin expired
    /\ session[turn[o].session].version = question[o].version
    /\ question[o].revision = revision
    /\ catalog = revision
    /\ question[o].marker = marker

\* Mutant: consumed_at is not looked at.
BadContinuationClaimable(o, revision) ==
    /\ page[o].status # "none"
    /\ o \notin expired
    /\ page[o].revision = revision
    /\ page[o].marker = marker

\* The checks of claim_continuation: against the pinned catalog only, and with
\* whatever context version the session has now.
ContinuationClaimable(o, revision) ==
    /\ page[o].status = "open"
    /\ o \notin expired
    /\ page[o].revision = revision
    /\ page[o].marker = marker

AcceptClarification ==
    LET o == claim.source
        t == claim.turn
        s == turn[o].session
    IN  /\ claim.kind = "clarification"
        /\ ClarificationClaimable(o, claim.revision)
        /\ turn' = [turn EXCEPT ![t] = Accepted(s, "clarification", o, 0)]
        /\ question' = [question EXCEPT ![o].status = "consumed",
                                        ![o].action = claim.action]
        /\ Launch(s, t)
        /\ claim' = NoClaim
        /\ UNCHANGED <<session, page, expired, catalog, marker, restarts>>

AcceptContinuation ==
    LET o == claim.source
        t == claim.turn
        s == turn[o].session
    IN  /\ claim.kind = "continuation"
        /\ ContinuationClaimable(o, claim.revision)
        /\ turn' = [turn EXCEPT ![t] =
                      Accepted(s, "continuation", o, claim.revision)]
        /\ page' = [page EXCEPT ![o].status = "consumed"]
        /\ Launch(s, t)
        /\ claim' = NoClaim
        /\ UNCHANGED <<session, question, expired, catalog, marker, restarts>>

\* A refused claim leaves the store as it was: the expiry branch marks the
\* question consumed, but raises inside the transaction, which rolls back.
RefuseClaim ==
    /\ \/ /\ claim.kind = "clarification"
          /\ ~ClarificationClaimable(claim.source, claim.revision)
       \/ /\ claim.kind = "continuation"
          /\ ~ContinuationClaimable(claim.source, claim.revision)
    /\ claim' = NoClaim
    /\ UNCHANGED <<store, marker, task, lane, restarts, faults>>

-----------------------------------------------------------------------------
(* process_turn.                                                             *)

\* The marker a claimed question or page was made under.
SourceMarker(t) ==
    CASE turn[t].kind = "clarification" -> question[turn[t].source].marker
      [] turn[t].kind = "continuation"  -> page[turn[t].source].marker
      [] OTHER                          -> marker

\* Mutant: the stale turn is turned away without a terminal status.
BadRefuseStaleTurn(t) ==
    /\ Idle
    /\ At(t, "waiting")
    /\ \/ session[turn[t].session].version # turn[t].version
       \/ SourceMarker(t) # marker
    /\ EndTask(t)
    /\ UNCHANGED <<store, marker, claim, restarts, faults>>

\* The context moved while the turn waited for the lock, or the marker did.
RefuseStaleTurn(t) ==
    /\ Idle
    /\ At(t, "waiting")
    /\ \/ session[turn[t].session].version # turn[t].version
       \/ SourceMarker(t) # marker
    /\ Fail(t)
    /\ UNCHANGED faults

\* Mutant: the version is only checked when the turn is accepted.
BadFresh(t) ==
    /\ Idle
    /\ At(t, "waiting")
    /\ SourceMarker(t) = marker

\* Under the lock the turn still reads the context version it was accepted for.
Fresh(t) ==
    /\ Idle
    /\ At(t, "waiting")
    /\ session[turn[t].session].version = turn[t].version
    /\ SourceMarker(t) = marker

\* _run up to its await: the turn pins the catalog of this moment.
StartMessage(t) ==
    /\ Fresh(t)
    /\ turn[t].kind = "message"
    /\ Pin(t, catalog, "planning")

\* _run_continuation loads the revision of the page, current or not.
StartContinuation(t) ==
    /\ Fresh(t)
    /\ turn[t].kind = "continuation"
    /\ Pin(t, page[turn[t].source].revision, "executing")

\* _run_clarification resumes the saved plan on the revision of the question; a
\* chosen interpretation goes back to the planner first.
StartClarification(t) ==
    LET asked == question[turn[t].source]
    IN  /\ Fresh(t)
        /\ turn[t].kind = "clarification"
        /\ asked.action = "resume"
        /\ Pin(t, asked.revision,
               IF asked.kind = "interpretation_choice" THEN "planning"
                                                       ELSE "executing")

\* A cancelled question ends the turn at once, with no external call.
CancelClarification(t) ==
    /\ Fresh(t)
    /\ turn[t].kind = "clarification"
    /\ question[turn[t].source].action = "cancel"
    /\ Answer(t, question[turn[t].source].revision, "none")

\* A resumed context binding may be ambiguous again, in the same stretch.
RepeatBindingQuestion(t, asked) ==
    /\ Fresh(t)
    /\ turn[t].kind = "clarification"
    /\ question[turn[t].source].action = "resume"
    /\ question[turn[t].source].kind = "context_binding"
    /\ asked \in {"none", "context_binding"}
    /\ Answer(t, question[turn[t].source].revision, asked)

\* The planner answers with a question; only a resumed interpretation must not.
\* Without choices the question is text and leaves no pending record.
PlannerAsks(t, asked) ==
    /\ Idle
    /\ At(t, "planning")
    /\ \/ turn[t].kind = "message" /\ asked \in {"none", "interpretation_choice"}
       \/ asked \in {"none", "context_binding"}
    /\ Answer(t, turn[t].revision, asked)

\* The plan is valid and its context bindings resolve: on to the executor.
PlannerPlans(t) ==
    /\ Idle
    /\ At(t, "planning")
    /\ task' = [task EXCEPT ![t] = "executing"]
    /\ UNCHANGED <<store, marker, claim, lane, restarts, faults>>

\* The executor answers; an ambiguous resolver leaves its question.
ExecutorAnswers(t, asked) ==
    /\ Idle
    /\ At(t, "executing")
    /\ asked \in {"none", "resolver_choice"}
    /\ turn[t].kind = "continuation" => asked = "none"
    /\ Answer(t, turn[t].revision, asked)

\* The executor has a next page: create_continuation commits it on its own,
\* before the evidence is validated and the turn completed.
StorePage(t) ==
    /\ Idle
    /\ At(t, "executing")
    /\ page' = [page EXCEPT ![t] = [status |-> "open",
                                    revision |-> turn[t].revision,
                                    marker |-> marker]]
    /\ task' = [task EXCEPT ![t] = "storing"]
    /\ UNCHANGED <<session, turn, question, expired, catalog,
                   marker, claim, lane, restarts, faults>>

AnswerWithPage(t) ==
    /\ At(t, "storing")
    /\ Answer(t, turn[t].revision, "none")

\* Planner, executor or validation raised: process_turn turns it into _fail.
FailTurn(t) ==
    /\ \/ Idle /\ (At(t, "planning") \/ At(t, "executing"))
       \/ At(t, "storing")
    /\ Fail(t)
    /\ UNCHANGED faults

\* The last events and trace artifacts are written; the task returns.
Record(t) ==
    /\ At(t, "recording")
    /\ EndTask(t)
    /\ UNCHANGED <<store, marker, claim, restarts, faults>>

\* Writing them raises, which runs _fail on the turn just completed.
RecordFails(t) ==
    /\ At(t, "recording")
    /\ faults < MaxFaults
    /\ faults' = faults + 1
    /\ Fail(t)

\* The store refuses the writes of _fail too, and the task dies with the turn
\* left as it is.
TaskDies(t) ==
    /\ \/ Idle /\ \E p \in {"waiting", "planning", "executing"} : At(t, p)
       \/ At(t, "storing")
    /\ faults < MaxFaults
    /\ faults' = faults + 1
    /\ EndTask(t)
    /\ UNCHANGED <<store, marker, claim, restarts>>

\* The turn was deleted with its session: every write about it raises, the ones
\* of _fail included.
TaskOfDeletedTurn(t) ==
    /\ Idle
    /\ task[t] # "none"
    /\ HasLock(t)
    /\ turn[t].status = "deleted"
    /\ EndTask(t)
    /\ UNCHANGED <<store, marker, claim, restarts, faults>>

-----------------------------------------------------------------------------
(* The environment.                                                          *)

\* commit_catalog, by a web handler or by the CLI process at any moment.
ImportCatalog ==
    /\ catalog < MaxRevision
    /\ catalog' = catalog + 1
    /\ UNCHANGED <<session, turn, question, page, expired, process, faults>>

\* Thirty minutes pass over the handles of turn o.
ExpireHandles(o) ==
    /\ o \notin expired
    /\ question[o].status = "open" \/ page[o].status = "open"
    /\ expired' = expired \cup {o}
    /\ UNCHANGED <<session, turn, question, page, catalog, process, faults>>

\* The process stops, between any two transactions, and starts again with
\* whatever marker is configured.  Startup reads the catalog and nothing else.
Restart(m) ==
    /\ restarts < MaxRestarts
    /\ restarts' = restarts + 1
    /\ marker' = m
    /\ claim' = NoClaim
    /\ task' = [t \in Turns |-> "none"]
    /\ lane' = [s \in Sessions |-> << >>]
    /\ UNCHANGED <<store, faults>>

-----------------------------------------------------------------------------
Handler ==
    \/ \E s \in Sessions : CreateSession(s) \/ DeleteSession(s)
    \/ \E s \in Sessions, t \in Turns : SubmitMessage(s, t) \/ RemoveContext(s, t)
    \/ \E o \in Turns, t \in Turns :
          \/ \E action \in Actions : PinForClarification(o, t, action)
          \/ PinForContinuation(o, t)

ResolveClaim == AcceptClarification \/ AcceptContinuation \/ RefuseClaim

TaskStep(t) ==
    \/ RefuseStaleTurn(t)
    \/ StartMessage(t) \/ StartContinuation(t) \/ StartClarification(t)
    \/ CancelClarification(t)
    \/ \E asked \in QuestionKinds \cup {"none"} :
          \/ RepeatBindingQuestion(t, asked)
          \/ PlannerAsks(t, asked)
          \/ ExecutorAnswers(t, asked)
    \/ PlannerPlans(t)
    \/ StorePage(t) \/ AnswerWithPage(t)
    \/ FailTurn(t)
    \/ Record(t)
    \/ TaskOfDeletedTurn(t)

Fault == \E t \in Turns : RecordFails(t) \/ TaskDies(t)

Environment ==
    \/ ImportCatalog
    \/ \E o \in Turns : ExpireHandles(o)
    \/ \E m \in Markers : Restart(m)

Next ==
    \/ Handler
    \/ ResolveClaim
    \/ \E t \in Turns : TaskStep(t)
    \/ Fault
    \/ Environment

Spec == Init /\ [][Next]_vars

\* A claim handler has no await between pin and transaction.  Each await of a
\* task is bounded, since the planner and the MCP calls carry the request
\* deadline, and the event loop runs ready callbacks first in, first out: other
\* requests interrupt a task again and again but cannot starve it, hence SF.
Fairness ==
    /\ WF_vars(ResolveClaim)
    /\ \A t \in Turns : SF_vars(TaskStep(t))

FairSpec == Spec /\ Fairness

-----------------------------------------------------------------------------
(* Properties.                                                               *)

SessionRecord  == [status : {"absent", "open", "deleted"}, version : Nat]
TurnRecord     == [status : TurnStatuses, session : Sessions \cup {None},
                   version : Nat, kind : TurnKinds,
                   source : Turns \cup {None}, revision : Nat]
QuestionRecord == [status : {"none", "open", "superseded", "consumed"},
                   kind : QuestionKinds \cup {"none"}, version : Nat,
                   revision : Nat, marker : Markers \cup {None},
                   action : Actions \cup {"none"}]
PageRecord     == [status : {"none", "open", "consumed"}, revision : Nat,
                   marker : Markers \cup {None}]
ClaimRecord    == [kind : {"none", "clarification", "continuation"},
                   turn : Turns \cup {None}, source : Turns \cup {None},
                   action : Actions \cup {"none"}, revision : Nat]

\* Every variable holds a value of the column or object it stands for.
TypeOK ==
    /\ session \in [Sessions -> SessionRecord]
    /\ turn \in [Turns -> TurnRecord]
    /\ question \in [Turns -> QuestionRecord]
    /\ page \in [Turns -> PageRecord]
    /\ expired \subseteq Turns
    /\ catalog \in Nat
    /\ marker \in Markers
    /\ claim \in ClaimRecord
    /\ task \in [Turns -> Phases]
    /\ lane \in [Sessions -> Seq(Turns)]
    /\ restarts \in Nat
    /\ faults \in Nat

Answered(t)   == turn[t].status = "completed" /\ turn[t].kind # "removal"
InProgress(t) == turn[t].status \in {"accepted", "running"}
Ended(t)      == turn[t].status \in {"completed", "failed"}

\* No two answers of one session were computed on the same context version: of
\* the turns that read one version at most one gets to change it, whatever the
\* lock, the queue behind it, removals, claims and restarts do in between.
AnswersOnDistinctVersions ==
    \A t, u \in Turns :
        /\ Answered(t) /\ Answered(u)
        /\ turn[t].session = turn[u].session
        /\ turn[t].version = turn[u].version
        => t = u

\* A question or page handle is spent by one turn: no two turns, queued, running
\* or ended, claim the same handle.
HandleClaimedOnce ==
    \A t, u \in Turns :
        /\ turn[t].source # None
        /\ turn[t].source = turn[u].source
        /\ turn[t].kind = turn[u].kind
        => t = u

\* A session has at most one open question, though messages, bindings, resolvers
\* and resumed turns ask them and page turns leave them open: no insert ever hits
\* the unique index of open questions, which would fail the turn that asks.
OneOpenQuestion ==
    \A o, p \in Turns :
        /\ question[o].status = "open" /\ question[p].status = "open"
        /\ turn[o].session = turn[p].session
        => o = p

\* A reply belongs to the question it claims: between the version at which the
\* question was asked and the version the reply read, no turn of the session
\* ended, neither an answer, nor a failure, nor a removal.
NothingBetweenQuestionAndReply ==
    \A t, u \in Turns :
        /\ turn[t].kind = "clarification" /\ turn[t].status # "deleted"
        /\ Ended(u)
        /\ turn[u].session = turn[t].session
        => \/ turn[u].version <= turn[turn[t].source].version
           \/ turn[u].version >= turn[t].version

EndedIn(s) == {t \in Turns : turn[t].session = s /\ Ended(t)}

\* The context version counts what happened to the session: it moves once for
\* every turn that ended, answered, failed or removal, and for nothing else but
\* the failure of an answered turn whose record the store refused.
VersionCountsEndedTurns ==
    \A s \in Sessions : session[s].status = "open" =>
        LET counted == 1 + Cardinality(EndedIn(s))
        IN  session[s].version \in counted .. counted + faults

\* A reply is accepted only while the catalog of its question is the newest one
\* in the database, even if the CLI imported after the handler pinned it.
ReplyOnNewestCatalog ==
    [][\A t \in Turns :
          turn[t].status = "unused" /\ turn'[t].kind = "clarification"
          => question[turn'[t].source].revision = catalog]_vars

\* An ended turn keeps its status, version and catalog until it is deleted; only a
\* store error while its events are written may still turn it into a failed one.
EndedTurnIsFinal ==
    [][\A t \in Turns : Ended(t) =>
          \/ turn'[t] = turn[t]
          \/ turn'[t].status = "deleted"
          \/ /\ task[t] = "recording" /\ faults' = faults + 1
             /\ turn'[t] = [turn[t] EXCEPT !.status = "failed"]]_vars

\* To a client all this is a Dialogue: catalog, marker, lock, tasks, handles and
\* restarts only decide whether and when its steps are taken.
StateOf(t) ==
    IF InProgress(t) THEN "pending"
    ELSE IF Answered(t) THEN "answered"
    ELSE IF turn[t].status = "completed" THEN "removed"
    ELSE turn[t].status

LiveSessions  == {s \in Sessions : session[s].status = "open"}
Versions      == [s \in Sessions |-> session[s].version]
OpenQuestions == {o \in Turns : question[o].status = "open"}
SeenTurns ==
    [t \in Turns |->
        [state |-> StateOf(t), session |-> turn[t].session, version |-> turn[t].version,
         asker |-> IF turn[t].kind = "clarification" THEN turn[t].source ELSE None]]

Client == INSTANCE Dialogue WITH
    live <- LiveSessions, version <- Versions, turn <- SeenTurns, open <- OpenQuestions

ImplementsDialogue == Client!Spec

\* Every accepted turn ends: its place in the session's queue is reached, and
\* planner, executor or failure handling completes it, unless it is deleted.
EveryTurnEnds == \A t \in Turns : InProgress(t) ~> ~InProgress(t)

-----------------------------------------------------------------------------
(* Statements of the documentation that the code does not keep.              *)

\* Crash recovery ends the turns of a dead process: an accepted or running turn
\* always has a task (docs/architecture/persistence_and_observability.md).
NoOrphanTurn == \A t \in Turns : InProgress(t) => task[t] # "none"

\* The evidence of a turn that answered is immutable: it may go with its session,
\* but no later failure replaces the answer.
AnswerIsImmutable ==
    [][\A t \in Turns : Answered(t) => turn'[t].status \in {"completed", "deleted"}]_vars

=============================================================================
