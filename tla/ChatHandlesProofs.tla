-------------------------- MODULE ChatHandlesProofs --------------------------
(* Theorems about the handles of ChatSessions, which are the questions and    *)
(* pages a later turn may claim, about what the context version counts, and   *)
(* about the Dialogue all this is to a client, for every set of sessions,     *)
(* turns and markers and every bound.                                         *)
EXTENDS ChatSessionsProofs, FiniteSetTheorems

Queried(t) == task[t] \in {"waiting", "planning", "executing"}

\* A turn names a source exactly when it claimed one.
SourceNamed ==
    \A t \in Turns :
        /\ turn[t].source # None <=> turn[t].kind \in {"clarification", "continuation"}
        /\ turn[t].status = "unused" => turn[t].kind = "message"

\* A turn asks and lists in its last step only: until then nothing hangs on it,
\* and nothing hangs on a turn that is gone.
NothingHangs ==
    \A t \in Turns :
        /\ Computing(t) \/ Queried(t) => question[t].status = "none" /\ ~Ended(t)
        /\ Queried(t) => page[t].status = "none"
        /\ turn[t].status = "deleted" => question[t].status = "none"
                                         /\ page[t].status = "none"

\* The handle a turn claimed is consumed for as long as there is one.
HandleSpent ==
    \A t \in Turns :
        /\ turn[t].kind = "clarification" =>
              \/ question[turn[t].source].status = "consumed"
              \/ turn[turn[t].source].status = "deleted"
        /\ turn[t].kind = "continuation" =>
              \/ page[turn[t].source].status = "consumed"
              \/ turn[turn[t].source].status = "deleted"

\* A question is good for the version after that of its turn, and a reply reads
\* the version its question was good for.
VersionsChain ==
    \A t \in Turns :
        /\ question[t].status # "none" => question[t].version = turn[t].version + 1
        /\ turn[t].kind = "clarification" =>
              turn[t].version = turn[turn[t].source].version + 1

HandleInv ==
    /\ SourceNamed
    /\ NothingHangs
    /\ HandleSpent
    /\ VersionsChain
    /\ HandleClaimedOnce
    /\ OneOpenQuestion

-----------------------------------------------------------------------------
(* What one step may do to one turn.                                         *)

\* Turn u goes on: what was asked of it, what it claimed and a consumed handle
\* stay, and a question opens only where SourceNamed and NothingHangs allow it.
Keeps(u) ==
    /\ SameRequest(u)
    /\ turn'[u].status = "unused" <=> turn[u].status = "unused"
    /\ turn[u].status = "deleted" => turn'[u].status = "deleted"
    /\ turn'[u].status = "deleted" => question'[u].status = "none"
                                      /\ page'[u].status = "none"
    /\ Computing(u)' \/ Queried(u)' => question'[u].status = "none" /\ ~Ended(u)'
    /\ Queried(u)' => page'[u].status = "none"
    /\ question[u].status = "consumed" =>
          question'[u].status = "consumed" \/ turn'[u].status = "deleted"
    /\ page[u].status = "consumed" =>
          page'[u].status = "consumed" \/ turn'[u].status = "deleted"
    /\ question'[u].status # "none" => question'[u].version = turn[u].version + 1

\* An ended turn is final but for a record the store refuses.
Final(u) ==
    Ended(u) => \/ turn'[u] = turn[u]
                \/ turn'[u].status = "deleted"
                \/ /\ task[u] = "recording" /\ faults' = faults + 1
                   /\ turn'[u] = [turn[u] EXCEPT !.status = "failed"]

\* Turn u is new: a message, a removal, or the one reply to an open handle.
Born(u) ==
    /\ turn[u].status = "unused"
    /\ turn'[u].status \notin {"unused", "deleted"}
    /\ question'[u].status = "none" /\ page'[u].status = "none"
    /\ task'[u] \in {"none", "waiting"}
    /\ task'[u] = "waiting" => turn'[u].status = "accepted"
    /\ \/ turn'[u].kind \in {"message", "removal"} /\ turn'[u].source = None
       \/ /\ turn'[u].kind = "clarification" /\ turn'[u].source \in Turns
          /\ turn[turn'[u].source].status # "unused"
          /\ question[turn'[u].source].status = "open"
          /\ question[turn'[u].source].revision = catalog
          /\ question'[turn'[u].source].status = "consumed"
          /\ turn'[u].version = turn[turn'[u].source].version + 1
       \/ /\ turn'[u].kind = "continuation" /\ turn'[u].source \in Turns
          /\ turn[turn'[u].source].status # "unused"
          /\ page[turn'[u].source].status = "open"
          /\ page'[turn'[u].source].status = "consumed"

\* Every turn goes on or is the new one, and the open questions stay one.
OneStep ==
    /\ \A u \in Turns : Born(u) \/ (Keeps(u) /\ Final(u))
    /\ \A u, v \in Turns : Born(u) /\ Born(v) => u = v
    /\ OneOpenQuestion'

LEMMA StepKeepsHandles ==
    ASSUME TypeInv, HandleInv, OneStep
    PROVE  HandleInv'
<1> USE DEF HandleInv, OneStep
<1>1. \A u \in Turns : turn[u].kind \in {"clarification", "continuation"} =>
                          turn[u].source \in Turns /\ turn[u].source # None
  BY DEF TypeInv, Owned, SourceNamed
<1>2. \A u \in Turns : turn[u].status # "unused" => Keeps(u)
  BY DEF Born
<1>3. \A u \in Turns :
         /\ turn[u].kind = "clarification" =>
               /\ turn[turn[u].source].status # "unused"
               /\ question[turn[u].source].status # "open"
         /\ turn[u].kind = "continuation" =>
               /\ turn[turn[u].source].status # "unused"
               /\ page[turn[u].source].status # "open"
  <2>1. \A o \in Turns : question[o].status # "none" => turn[o].status # "unused"
    BY DEF TypeInv, Owned
  <2>2. \A o \in Turns : page[o].status # "none" => turn[o].status # "unused"
    BY DEF TypeInv, Owned
  <2>3. QED BY <1>1, <2>1, <2>2 DEF HandleSpent, NothingHangs
<1>4. SourceNamed'
  <2> SUFFICES ASSUME NEW u \in Turns
               PROVE /\ turn'[u].source # None <=>
                           turn'[u].kind \in {"clarification", "continuation"}
                     /\ turn'[u].status = "unused" => turn'[u].kind = "message"
    BY DEF SourceNamed
  <2>1. CASE Born(u)
    BY <2>1, ChatAssumption DEF Born
  <2>2. CASE Keeps(u)
    BY <2>2 DEF Keeps, SameRequest, SourceNamed
  <2>3. QED BY <2>1, <2>2
<1>5. NothingHangs'
  BY DEF NothingHangs, Keeps, Born, Computing, Queried, Ended
<1>6. HandleSpent' /\ VersionsChain'
  <2> SUFFICES ASSUME NEW u \in Turns
               PROVE /\ turn'[u].kind = "clarification" =>
                           /\ \/ question'[turn'[u].source].status = "consumed"
                              \/ turn'[turn'[u].source].status = "deleted"
                           /\ turn'[u].version = turn'[turn'[u].source].version + 1
                     /\ turn'[u].kind = "continuation" =>
                           \/ page'[turn'[u].source].status = "consumed"
                           \/ turn'[turn'[u].source].status = "deleted"
                     /\ question'[u].status # "none" =>
                           question'[u].version = turn'[u].version + 1
    BY DEF HandleSpent, VersionsChain
  <2>1. CASE Born(u)
    <3>1. \A o \in Turns : turn[o].status # "unused" => turn'[o].version = turn[o].version
      BY <1>2 DEF Keeps, SameRequest
    <3>2. QED BY <2>1, <3>1 DEF Born
  <2>2. CASE Keeps(u)
    <3>1. /\ turn'[u].kind = turn[u].kind /\ turn'[u].source = turn[u].source
          /\ turn'[u].version = turn[u].version
          /\ question'[u].status # "none" => question'[u].version = turn[u].version + 1
      BY <2>2 DEF Keeps, SameRequest
    <3>2. ASSUME turn[u].kind \in {"clarification", "continuation"}
          PROVE  Keeps(turn[u].source) /\ turn[u].source \in Turns
      BY <1>1, <1>2, <1>3, <3>2
    <3>3. QED BY <3>1, <3>2 DEF Keeps, SameRequest, HandleSpent, VersionsChain
  <2>3. QED BY <2>1, <2>2
<1>7. HandleClaimedOnce'
  <2>1. \A u \in Turns : turn'[u].source # None =>
                            turn'[u].kind \in {"clarification", "continuation"}
    BY <1>4 DEF SourceNamed
  <2>2. ASSUME NEW t \in Turns, NEW u \in Turns, Born(t), Keeps(u),
               turn'[t].source # None, turn'[t].source = turn'[u].source,
               turn'[t].kind = turn'[u].kind
        PROVE  FALSE
    BY <1>3, <2>1, <2>2 DEF Born, Keeps, SameRequest
  <2> SUFFICES ASSUME NEW t \in Turns, NEW u \in Turns,
                      turn'[t].source # None, turn'[t].source = turn'[u].source,
                      turn'[t].kind = turn'[u].kind
               PROVE  t = u
    BY DEF HandleClaimedOnce
  <2>3. CASE Keeps(t) /\ Keeps(u)
    BY <2>3 DEF Keeps, SameRequest, HandleClaimedOnce
  <2>4. CASE Born(t) /\ Born(u)
    BY <2>4
  <2>5. QED BY <2>2, <2>3, <2>4
<1>8. QED BY <1>4, <1>5, <1>6, <1>7

-----------------------------------------------------------------------------
(* Every action is such a step.                                              *)

\* The rows stay as they are and no task starts.
LEMMA QuietOneStep ==
    ASSUME TypeInv, HandleInv, UNCHANGED <<turn, question, page>>,
           \A u \in Turns : /\ Computing(u)' \/ Queried(u)' => Computing(u) \/ Queried(u)
                            /\ Queried(u)' => Queried(u)
    PROVE  OneStep
<1>1. \A u \in Turns : Keeps(u) /\ Final(u)
  BY DEF HandleInv, NothingHangs, VersionsChain, Keeps, Final, SameRequest, Ended
<1>2. \A u, v \in Turns : Born(u) /\ Born(v) => u = v
  BY DEF Born
<1>3. OneOpenQuestion'
  BY DEF HandleInv, OneOpenQuestion
<1>4. QED BY <1>1, <1>2, <1>3 DEF OneStep

\* The questions that are open were open, and so they are one.
LEMMA NoneOpens ==
    ASSUME TypeInv, HandleInv,
           \A u \in Turns : question'[u].status = "open" =>
                              /\ question[u].status = "open"
                              /\ turn'[u].session = turn[u].session
    PROVE  OneOpenQuestion'
BY DEF HandleInv, OneOpenQuestion

\* A task leaves, and writes nothing.
LEMMA LeaveOneStep ==
    ASSUME TypeInv, HandleInv, NEW t \in Turns, EndTask(t), UNCHANGED store
    PROVE  OneStep
<1>1. \A u \in Turns : task'[u] = task[u] \/ task'[u] = "none"
  BY DEF EndTask, TypeInv, TypeOK
<1>2. QED BY <1>1, QuietOneStep DEF store, Computing, Queried

LEMMA PinOneStep ==
    ASSUME TypeInv, TypeInv', HandleInv, NEW t \in Turns, At(t, "waiting"),
           NEW revision \in Nat, NEW p \in {"planning", "executing"}, Pin(t, revision, p)
    PROVE  OneStep
<1>1. Queried(t) /\ ~Ended(t) /\ turn[t].status \notin {"unused", "deleted"}
  BY DEF At, Queried, HandleInv, NothingHangs, TypeInv, Owned
<1>2. /\ turn'[t].status = "running" /\ SameRequest(t) /\ task'[t] = p
      /\ \A u \in Turns : u # t => turn'[u] = turn[u] /\ task'[u] = task[u]
  BY DEF Pin, SameRequest, TypeInv, TypeOK, TurnRecord
<1>3. UNCHANGED <<question, page>>
  BY DEF Pin
<1>4. \A u \in Turns : u # t => Keeps(u) /\ Final(u)
  BY <1>2, <1>3
  DEF HandleInv, NothingHangs, VersionsChain, Keeps, Final, SameRequest, Ended,
      Computing, Queried
<1>5. Keeps(t) /\ Final(t)
  BY <1>1, <1>2, <1>3 DEF HandleInv, NothingHangs, VersionsChain, Keeps, Final, Ended
<1>6. \A u \in Turns : ~Born(u)
  BY <1>1, <1>2 DEF Born
<1>7. OneOpenQuestion'
  BY <1>2, <1>3, NoneOpens DEF SameRequest
<1>8. QED BY <1>4, <1>5, <1>6, <1>7 DEF OneStep

\* complete_turn on a turn whose task is at work: an answer, or a failure.
LEMMA CompleteOneStep ==
    ASSUME TypeInv, TypeInv', HandleInv, NEW t \in Turns,
           task[t] # "none", turn[t].status # "deleted",
           NEW status \in {"completed", "failed"}, NEW revision \in Nat,
           NEW asked \in QuestionKinds \cup {"none"},
           CompleteTurn(t, revision, status, asked),
           task[t] = "recording" => /\ asked = "none" /\ status = "failed"
                                    /\ revision = turn[t].revision
                                    /\ faults' = faults + 1,
           task'[t] \in {"none", "recording"},
           \A u \in Turns : u # t => task'[u] = task[u],
           UNCHANGED page
    PROVE  OneStep
<1> DEFINE s == turn[t].session
<1>1. turn[t].status \notin {"unused", "deleted"}
  BY DEF TypeInv, Owned
<1>2. \A u \in Turns : SameRequest(u)
  BY CompleteType
<1>3. turn'[t].status = status /\ \A u \in Turns : u # t => turn'[u] = turn[u]
  BY DEF CompleteTurn, TypeInv, TypeOK, TurnRecord
<1>4. task[t] # "recording" => Computing(t) \/ Queried(t)
  BY DEF Computing, Queried, TypeInv, TypeOK, Phases
<1>5. \A u \in Turns : u # t =>
         \/ question'[u] = question[u]
         \/ /\ question[u].status = "open" /\ question'[u].status = "superseded"
            /\ question'[u].version = question[u].version
  <2>1. \A u \in Turns : question[u] \in QuestionRecord
    BY DEF TypeInv, TypeOK
  <2>2. QED
    BY <2>1 DEF CompleteTurn, Superseded, QuestionRecord, TypeInv, TypeOK
<1>6. \A u \in Turns : u # t => Keeps(u) /\ Final(u)
  BY <1>2, <1>3, <1>5
  DEF HandleInv, NothingHangs, VersionsChain, Keeps, Final, Ended, Computing, Queried
<1>7. \/ question'[t] = question[t]
      \/ /\ asked # "none" /\ question[t].status = "none"
         /\ question'[t].status = "open"
         /\ question'[t].version = turn[t].version + 1
  <2>1. CASE asked = "none"
    BY <2>1 DEF CompleteTurn
  <2>2. CASE asked # "none"
    BY <1>4, <2>2 DEF CompleteTurn, Superseded, HandleInv, NothingHangs
  <2>3. QED BY <2>1, <2>2
<1>8. Keeps(t)
  <2>1. ~Computing(t)' /\ ~Queried(t)'
    BY DEF Computing, Queried
  <2>2. turn'[t].status \notin {"unused", "deleted"}
    BY <1>3
  <2>3. QED BY <1>1, <1>2, <1>7, <2>1, <2>2 DEF Keeps, HandleInv, VersionsChain
<1>9. Final(t)
  <2>1. CASE task[t] = "recording"
    <3>1. turn' = [turn EXCEPT ![t].status = "failed", ![t].revision = turn[t].revision]
      BY <2>1 DEF CompleteTurn
    <3>2. turn[t] \in TurnRecord
      BY DEF TypeInv, TypeOK
    <3>3. turn'[t] = [turn[t] EXCEPT !.status = "failed"]
      BY <3>1, <3>2 DEF TurnRecord, TypeInv, TypeOK
    <3>4. QED BY <2>1, <3>3 DEF Final
  <2>2. CASE task[t] # "recording"
    BY <1>4, <2>2 DEF Final, HandleInv, NothingHangs
  <2>3. QED BY <2>1, <2>2
<1>10. \A u \in Turns : ~Born(u)
  BY <1>1, <1>3 DEF Born
<1>11. OneOpenQuestion'
  <2>1. CASE asked = "none"
    BY <1>2, <2>1, NoneOpens DEF CompleteTurn, SameRequest
  <2>2. CASE asked # "none"
    <3>1. \A u \in Turns : u # t /\ question'[u].status = "open" =>
                              question[u].status = "open" /\ turn[u].session # s
      BY <2>2 DEF CompleteTurn, Superseded, QuestionRecord, TypeInv, TypeOK
    <3>2. QED BY <1>2, <3>1 DEF OneOpenQuestion, HandleInv, SameRequest
  <2>3. QED BY <2>1, <2>2
<1>12. QED BY <1>6, <1>8, <1>9, <1>10, <1>11 DEF OneStep

LEMMA AnswerOneStep ==
    ASSUME TypeInv, TypeInv', HandleInv, NEW t \in Turns,
           task[t] \notin {"none", "recording"}, turn[t].status # "deleted",
           NEW asked \in QuestionKinds \cup {"none"}, NEW revision \in Nat,
           Answer(t, revision, asked)
    PROVE  OneStep
BY CompleteOneStep DEF Answer, TypeInv, TypeOK

LEMMA FailOneStep ==
    ASSUME TypeInv, TypeInv', HandleInv, NEW t \in Turns,
           task[t] # "none", turn[t].status # "deleted", Fail(t),
           task[t] = "recording" => faults' = faults + 1
    PROVE  OneStep
<1>1. /\ task'[t] = "none"
      /\ \A u \in Turns : u # t => task'[u] = task[u]
  BY DEF Fail, EndTask, TypeInv, TypeOK
<1>2. QED BY <1>1, CompleteOneStep, RevisionType DEF Fail

\* A row for a new turn that claims nothing; open questions may be superseded.
LEMMA NewOneStep ==
    ASSUME TypeInv, TypeInv', HandleInv, NEW t \in Turns, turn[t].status = "unused",
           turn'[t].kind \in {"message", "removal"}, turn'[t].source = None,
           turn'[t].status \in {"accepted", "completed"},
           task'[t] \in {"none", "waiting"},
           task'[t] = "waiting" => turn'[t].status = "accepted",
           \A u \in Turns : u # t => turn'[u] = turn[u] /\ task'[u] = task[u],
           UNCHANGED page,
           \/ UNCHANGED question
           \/ \E s : question' = Superseded(s)
    PROVE  OneStep
<1>1. question[t].status = "none" /\ page[t].status = "none"
  BY DEF TypeInv, Owned
<1>2. \A u \in Turns :
         \/ question'[u] = question[u]
         \/ /\ question[u].status = "open" /\ question'[u].status = "superseded"
            /\ question'[u].version = question[u].version
  <2>1. \A u \in Turns : question[u] \in QuestionRecord
    BY DEF TypeInv, TypeOK
  <2>2. QED BY <2>1 DEF Superseded, QuestionRecord
<1>3. question'[t].status = "none" /\ page'[t].status = "none"
  BY <1>1, <1>2
<1>4. Born(t)
  BY <1>3 DEF Born
<1>5. \A u \in Turns : u # t => ~Born(u) /\ Keeps(u) /\ Final(u)
  BY <1>2
  DEF HandleInv, NothingHangs, VersionsChain, Born, Keeps, Final, SameRequest, Ended,
      Computing, Queried
<1>6. OneOpenQuestion'
  <2>1. \A u \in Turns : question'[u].status = "open" =>
                           /\ question[u].status = "open"
                           /\ turn'[u].session = turn[u].session
    BY <1>2, <1>3
  <2>2. QED BY <2>1, NoneOpens
<1>7. QED BY <1>4, <1>5, <1>6 DEF OneStep

LEMMA DeleteOneStep ==
    ASSUME TypeInv, TypeInv', HandleInv, NEW s \in Sessions, DeleteSession(s)
    PROVE  OneStep
<1>1. \A u \in Turns :
         \/ /\ turn[u].session # s
            /\ turn'[u] = turn[u] /\ question'[u] = question[u] /\ page'[u] = page[u]
         \/ /\ turn[u].session = s
            /\ SameRequest(u) /\ turn'[u].status = "deleted"
            /\ question'[u].status = "none" /\ page'[u].status = "none"
  <2>1. \A u \in Turns : turn[u] \in TurnRecord
    BY DEF TypeInv, TypeOK
  <2> SUFFICES ASSUME NEW u \in Turns, turn[u].session = s
               PROVE  /\ SameRequest(u) /\ turn'[u].status = "deleted"
                      /\ question'[u].status = "none" /\ page'[u].status = "none"
    BY DEF DeleteSession
  <2>2. turn'[u] = [turn[u] EXCEPT !.status = "deleted"]
    BY DEF DeleteSession
  <2>3. SameRequest(u) /\ turn'[u].status = "deleted"
    BY <2>1, <2>2, StatusOnly DEF SameRequest
  <2>4. QED BY <2>3 DEF DeleteSession, NoQuestion, NoPage
<1>2. UNCHANGED task
  BY DEF DeleteSession, process
<1>3. \A u \in Turns : turn[u].session = s => turn[u].status # "unused"
  BY DEF TypeInv, Owned
<1>4. \A u \in Turns : Keeps(u) /\ Final(u)
  BY <1>1, <1>2, <1>3
  DEF HandleInv, NothingHangs, VersionsChain, Keeps, Final, SameRequest, Ended,
      Computing, Queried
<1>5. \A u \in Turns : ~Born(u)
  BY <1>1, <1>3 DEF Born
<1>6. OneOpenQuestion'
  BY <1>1, NoneOpens
<1>7. QED BY <1>4, <1>5, <1>6 DEF OneStep

LEMMA HandlerOneStep ==
    ASSUME TypeInv, TypeInv', HandleInv, Handler PROVE OneStep
<1>1. ASSUME NEW s \in Sessions, CreateSession(s) PROVE OneStep
  BY <1>1, QuietOneStep DEF CreateSession, process, Computing, Queried
<1>2. ASSUME NEW s \in Sessions, DeleteSession(s) PROVE OneStep
  BY <1>2, DeleteOneStep
<1>3. ASSUME NEW s \in Sessions, NEW t \in Turns, SubmitMessage(s, t) PROVE OneStep
  <2>1. /\ turn[t].status = "unused"
        /\ turn'[t] = Accepted(s, "message", None, 0)
        /\ \A u \in Turns : u # t => turn'[u] = turn[u]
    BY <1>3 DEF SubmitMessage, TypeInv, TypeOK
  <2>2. /\ task'[t] \in {"none", "waiting"}
        /\ \A u \in Turns : u # t => task'[u] = task[u]
    BY <1>3, <2>1 DEF SubmitMessage, Launch, Spawn, TypeInv, TypeOK, Owned
  <2>3. UNCHANGED page /\ question' = Superseded(s)
    BY <1>3 DEF SubmitMessage
  <2>4. QED BY <2>1, <2>2, <2>3, NewOneStep DEF Accepted
<1>4. ASSUME NEW s \in Sessions, NEW t \in Turns, RemoveContext(s, t) PROVE OneStep
  <2>1. /\ turn[t].status = "unused"
        /\ turn'[t].status = "completed" /\ turn'[t].kind = "removal"
        /\ turn'[t].source = None
        /\ \A u \in Turns : u # t => turn'[u] = turn[u]
    BY <1>4 DEF RemoveContext, Accepted, TypeInv, TypeOK
  <2>2. task[t] = "none" /\ UNCHANGED <<task, question, page>>
    BY <1>4, <2>1 DEF RemoveContext, process, TypeInv, Owned
  <2>3. QED BY <2>1, <2>2, NewOneStep
<1>5. ASSUME NEW o \in Turns, NEW t \in Turns, NEW kind, NEW action,
             PinForClaim(kind, o, t, action)
      PROVE  OneStep
  BY <1>5, QuietOneStep DEF PinForClaim, store, Computing, Queried
<1>6. QED
  BY <1>1, <1>2, <1>3, <1>4, <1>5
  DEF Handler, PinForClarification, PinForContinuation

LEMMA ResolveClaimOneStep ==
    ASSUME TypeInv, TypeInv', HandleInv, ResolveClaim PROVE OneStep
<1>1. CASE RefuseClaim
  BY <1>1, QuietOneStep DEF RefuseClaim, store, Computing, Queried
<1>2. ASSUME AcceptClarification \/ AcceptContinuation PROVE OneStep
  <2>1. claim # NoClaim
    BY <1>2 DEF AcceptClarification, AcceptContinuation, NoClaim
  <2>2. PICK t \in Turns : t = claim.turn /\ turn[t].status = "unused"
    BY <2>1 DEF TypeInv, ClaimReserves
  <2>3. PICK o \in Turns : o = claim.source /\ turn[o].status # "unused"
    BY <2>1 DEF TypeInv, ClaimReserves
  <2>4. PICK s \in Sessions : s = turn[o].session
    BY <2>3 DEF TypeInv, Owned
  <2>5. Launch(s, t)
    BY <1>2, <2>2, <2>3, <2>4 DEF AcceptClarification, AcceptContinuation
  <2>6. /\ task'[t] \in {"none", "waiting"}
        /\ \A u \in Turns : u # t => task'[u] = task[u]
    BY <2>2, <2>5 DEF Launch, Spawn, TypeInv, TypeOK, Owned
  <2>7. question[t].status = "none" /\ page[t].status = "none" /\ o # t
    BY <2>2, <2>3 DEF TypeInv, Owned
  <2>8. PICK kind, revision : turn' = [turn EXCEPT ![t] = Accepted(s, kind, o, revision)]
    BY <1>2, <2>2, <2>3, <2>4 DEF AcceptClarification, AcceptContinuation
  <2>9. /\ \A u \in Turns : u # t => turn'[u] = turn[u]
        /\ turn'[t] = Accepted(s, kind, o, revision)
    BY <2>8 DEF TypeInv, TypeOK
  <2>10. /\ turn'[t].status = "accepted" /\ turn'[t].source = o
         /\ turn'[t].kind = kind /\ turn'[t].version = session[s].version
    BY <2>9 DEF Accepted
  <2>11. CASE AcceptClarification
    <3>1. kind = "clarification"
      <4>1. turn' = [turn EXCEPT ![t] = Accepted(s, "clarification", o, 0)]
        BY <2>2, <2>3, <2>4, <2>11 DEF AcceptClarification
      <4>2. turn'[t].kind = "clarification"
        BY <4>1 DEF Accepted, TypeInv, TypeOK
      <4>3. QED BY <2>10, <4>2
    <3>2. /\ question[o].status = "open" /\ question[o].revision = catalog
          /\ session[s].version = question[o].version
      BY <2>2, <2>3, <2>4, <2>11 DEF AcceptClarification, ClarificationClaimable
    <3>3. /\ question'[o].status = "consumed"
          /\ question'[o].version = question[o].version
          /\ \A u \in Turns : u # o => question'[u] = question[u]
      <4>1. question' = [question EXCEPT ![o].status = "consumed",
                                         ![o].action = claim.action]
        BY <2>3, <2>11 DEF AcceptClarification
      <4>2. QED BY <4>1 DEF TypeInv, TypeOK, QuestionRecord
    <3>4. UNCHANGED page
      BY <2>11 DEF AcceptClarification
    <3>5. Born(t)
      BY <2>2, <2>3, <2>6, <2>7, <2>10, <3>1, <3>2, <3>3, <3>4
      DEF Born, HandleInv, VersionsChain
    <3>6. \A u \in Turns : u # t => Keeps(u) /\ Final(u) /\ ~Born(u)
      BY <2>6, <2>9, <3>2, <3>3, <3>4
      DEF HandleInv, NothingHangs, VersionsChain, Born, Keeps, Final, SameRequest,
          Ended, Computing, Queried
    <3>7. OneOpenQuestion'
      BY <2>7, <2>9, <3>3, NoneOpens
    <3>8. QED BY <3>5, <3>6, <3>7 DEF OneStep
  <2>12. CASE AcceptContinuation
    <3>1. kind = "continuation"
      <4>1. turn' = [turn EXCEPT ![t] = Accepted(s, "continuation", o, claim.revision)]
        BY <2>2, <2>3, <2>4, <2>12 DEF AcceptContinuation
      <4>2. turn'[t].kind = "continuation"
        BY <4>1 DEF Accepted, TypeInv, TypeOK
      <4>3. QED BY <2>10, <4>2
    <3>2. page[o].status = "open"
      BY <2>3, <2>12 DEF AcceptContinuation, ContinuationClaimable
    <3>3. /\ page'[o].status = "consumed"
          /\ \A u \in Turns : u # o => page'[u] = page[u]
      BY <2>3, <2>12 DEF AcceptContinuation, TypeInv, TypeOK, PageRecord
    <3>4. UNCHANGED question
      BY <2>12 DEF AcceptContinuation
    <3>5. Born(t)
      BY <2>2, <2>3, <2>6, <2>7, <2>10, <3>1, <3>2, <3>3, <3>4 DEF Born
    <3>6. \A u \in Turns : u # t => Keeps(u) /\ Final(u) /\ ~Born(u)
      BY <2>6, <2>9, <3>2, <3>3, <3>4
      DEF HandleInv, NothingHangs, VersionsChain, Born, Keeps, Final, SameRequest,
          Ended, Computing, Queried
    <3>7. OneOpenQuestion'
      BY <2>7, <2>9, <3>4, NoneOpens
    <3>8. QED BY <3>5, <3>6, <3>7 DEF OneStep
  <2>13. QED BY <1>2, <2>11, <2>12
<1>3. QED BY <1>1, <1>2 DEF ResolveClaim

LEMMA TaskStepOneStep ==
    ASSUME TypeInv, TypeInv', HandleInv, NEW t \in Turns, TaskStep(t) PROVE OneStep
<1>1. CASE RefuseStaleTurn(t)
  BY <1>1, FailOneStep DEF RefuseStaleTurn, At
<1>2. CASE StartMessage(t)
  BY <1>2, PinOneStep DEF StartMessage, Fresh, TypeInv, TypeOK
<1>3. CASE StartContinuation(t)
  <2>1. page[turn[t].source].revision \in Nat
    BY <1>3 DEF TypeInv, TypeOK, Owned, PageRecord, StartContinuation
  <2>2. QED BY <1>3, <2>1, PinOneStep DEF StartContinuation, Fresh
<1>4. CASE StartClarification(t)
  <2> DEFINE asked == question[turn[t].source]
             p == IF asked.kind = "interpretation_choice" THEN "planning"
                                                          ELSE "executing"
  <2>1. asked.revision \in Nat
    BY <1>4, RevisionType DEF StartClarification
  <2>2. p \in {"planning", "executing"}
    OBVIOUS
  <2>3. Pin(t, asked.revision, p) /\ At(t, "waiting")
    BY <1>4 DEF StartClarification, Fresh
  <2> HIDE DEF asked, p
  <2>4. QED BY <2>1, <2>2, <2>3, PinOneStep
<1>5. CASE CancelClarification(t)
  BY <1>5, AnswerOneStep, RevisionType DEF CancelClarification, Fresh, At
<1>6. ASSUME NEW asked \in QuestionKinds \cup {"none"},
             RepeatBindingQuestion(t, asked) \/ PlannerAsks(t, asked)
                \/ ExecutorAnswers(t, asked)
      PROVE  OneStep
  BY <1>6, AnswerOneStep, RevisionType
  DEF RepeatBindingQuestion, PlannerAsks, ExecutorAnswers, Fresh, At
<1>7. CASE PlannerPlans(t)
  BY <1>7, QuietOneStep
  DEF PlannerPlans, At, store, Computing, Queried, TypeInv, TypeOK
<1>8. CASE StorePage(t)
  <2>1. /\ task[t] = "executing" /\ task'[t] = "storing"
        /\ page[t].status = "none" /\ turn[t].status # "deleted"
        /\ UNCHANGED <<turn, question>>
        /\ \A u \in Turns : u # t => page'[u] = page[u] /\ task'[u] = task[u]
    BY <1>8 DEF StorePage, At, TypeInv, TypeOK, HandleInv, NothingHangs, Queried
  <2>2. \A u \in Turns : Keeps(u) /\ Final(u)
    BY <2>1
    DEF HandleInv, NothingHangs, VersionsChain, Keeps, Final, SameRequest, Ended,
        Computing, Queried
  <2>3. \A u \in Turns : ~Born(u)
    BY <2>1 DEF Born
  <2>4. OneOpenQuestion'
    BY <2>1, NoneOpens
  <2>5. QED BY <2>2, <2>3, <2>4 DEF OneStep
<1>9. CASE AnswerWithPage(t)
  BY <1>9, AnswerOneStep, RevisionType DEF AnswerWithPage, At
<1>10. CASE FailTurn(t)
  BY <1>10, FailOneStep DEF FailTurn, At
<1>11. CASE Record(t) \/ TaskOfDeletedTurn(t)
  BY <1>11, LeaveOneStep DEF Record, TaskOfDeletedTurn
<1>12. QED
  BY <1>1, <1>2, <1>3, <1>4, <1>5, <1>6, <1>7, <1>8, <1>9, <1>10, <1>11 DEF TaskStep

LEMMA OtherOneStep ==
    ASSUME TypeInv, TypeInv', HandleInv, Fault \/ Environment PROVE OneStep
<1>1. ASSUME NEW t \in Turns, RecordFails(t) PROVE OneStep
  BY <1>1, FailOneStep DEF RecordFails, At
<1>2. ASSUME NEW t \in Turns, TaskDies(t) PROVE OneStep
  BY <1>2, LeaveOneStep DEF TaskDies
<1>3. CASE ImportCatalog \/ \E o \in Turns : ExpireHandles(o)
  BY <1>3, QuietOneStep DEF ImportCatalog, ExpireHandles, process, Computing, Queried
<1>4. ASSUME NEW m \in Markers, Restart(m) PROVE OneStep
  BY <1>4, QuietOneStep DEF Restart, store, Computing, Queried
<1>5. QED BY <1>1, <1>2, <1>3, <1>4 DEF Fault, Environment

LEMMA NextOneStep == TypeInv /\ TypeInv' /\ HandleInv /\ Next => OneStep
BY HandlerOneStep, ResolveClaimOneStep, TaskStepOneStep, OtherOneStep DEF Next

LEMMA HandleInvariant == Spec => []HandleInv
<1>1. Init => HandleInv
  BY DEF Init, NoTurnYet, NoQuestion, NoPage, HandleInv, SourceNamed, NothingHangs,
         HandleSpent, VersionsChain, HandleClaimedOnce, OneOpenQuestion, Ended,
         Computing, Queried
<1>2. TypeInv /\ TypeInv' /\ HandleInv /\ [Next]_vars => HandleInv'
  <2>1. TypeInv /\ TypeInv' /\ HandleInv /\ Next => HandleInv'
    BY NextOneStep, StepKeepsHandles
  <2>2. HandleInv /\ UNCHANGED vars => HandleInv'
    BY DEF vars, store, process, HandleInv, SourceNamed, NothingHangs,
           HandleSpent, VersionsChain, HandleClaimedOnce, OneOpenQuestion, Ended,
           Computing, Queried
  <2>3. QED BY <2>1, <2>2
<1>3. QED BY <1>1, <1>2, TypeInvariant, PTL DEF Spec

\* A question or page handle is spent by one turn, whichever turns race for it
\* and whatever is deleted, expires, restarts or fails in between.
THEOREM HandlesClaimedOnce == Spec => []HandleClaimedOnce
<1>1. HandleInv => HandleClaimedOnce
  BY DEF HandleInv
<1>2. QED BY <1>1, HandleInvariant, PTL

\* The unique index of open questions is never hit.
THEOREM QuestionsAreOne == Spec => []OneOpenQuestion
<1>1. HandleInv => OneOpenQuestion
  BY DEF HandleInv
<1>2. QED BY <1>1, HandleInvariant, PTL

\* Between a question and the reply to it no turn of the session ended.
THEOREM RepliesFollowQuestions == Spec => []NothingBetweenQuestionAndReply
<1>1. TypeInv /\ HandleInv => NothingBetweenQuestionAndReply
  <2> SUFFICES ASSUME TypeInv, HandleInv, NEW t \in Turns, NEW u \in Turns,
                      turn[t].kind = "clarification"
               PROVE  \/ turn[u].version <= turn[turn[t].source].version
                      \/ turn[u].version >= turn[t].version
    BY DEF NothingBetweenQuestionAndReply
  <2>1. turn[t].source \in Turns
    BY DEF TypeInv, Owned
  <2>2. turn[t].version = turn[turn[t].source].version + 1
    BY DEF HandleInv, VersionsChain
  <2>3. turn[u].version \in Nat /\ turn[turn[t].source].version \in Nat
    BY <2>1 DEF TypeInv, TypeOK, TurnRecord
  <2>4. QED BY <2>2, <2>3
<1>2. QED BY <1>1, TypeInvariant, HandleInvariant, PTL

\* A reply is accepted on the newest catalog only, the pinned one or not.
THEOREM RepliesOnNewestCatalog == Spec => ReplyOnNewestCatalog
<1>1. TypeInv /\ TypeInv' /\ HandleInv /\ [Next]_vars =>
        [\A t \in Turns : turn[t].status = "unused" /\ turn'[t].kind = "clarification"
                          => question[turn'[t].source].revision = catalog]_vars
  <2> SUFFICES ASSUME TypeInv, TypeInv', HandleInv, Next, NEW t \in Turns,
                      turn[t].status = "unused", turn'[t].kind = "clarification"
               PROVE  question[turn'[t].source].revision = catalog
    OBVIOUS
  <2>1. Born(t) \/ Keeps(t)
    BY NextOneStep DEF OneStep
  <2>2. ~Keeps(t)
    BY DEF Keeps, SameRequest, HandleInv, SourceNamed
  <2>3. QED BY <2>1, <2>2 DEF Born
<1>2. QED
  BY <1>1, TypeInvariant, HandleInvariant, PTL DEF Spec, ReplyOnNewestCatalog

\* An ended turn is final until it is deleted, but for the one failure that a
\* refused record of its events brings.
THEOREM EndedTurnsAreFinal == Spec => EndedTurnIsFinal
<1>1. TypeInv /\ TypeInv' /\ HandleInv /\ [Next]_vars =>
        [\A t \in Turns : Ended(t) =>
            \/ turn'[t] = turn[t]
            \/ turn'[t].status = "deleted"
            \/ /\ task[t] = "recording" /\ faults' = faults + 1
               /\ turn'[t] = [turn[t] EXCEPT !.status = "failed"]]_vars
  <2> SUFFICES ASSUME TypeInv, TypeInv', HandleInv, Next, NEW t \in Turns, Ended(t)
               PROVE  \/ turn'[t] = turn[t]
                      \/ turn'[t].status = "deleted"
                      \/ /\ task[t] = "recording" /\ faults' = faults + 1
                         /\ turn'[t] = [turn[t] EXCEPT !.status = "failed"]
    OBVIOUS
  <2>1. Born(t) \/ Final(t)
    BY NextOneStep DEF OneStep
  <2>2. ~Born(t)
    BY DEF Born, Ended
  <2>3. QED BY <2>1, <2>2 DEF Final
<1>2. QED
  BY <1>1, TypeInvariant, HandleInvariant, PTL DEF Spec, EndedTurnIsFinal

-----------------------------------------------------------------------------
(* What the context version counts.                                          *)

CountInv ==
    /\ \A s \in Sessions : IsFiniteSet(EndedIn(s))
    /\ VersionCountsEndedTurns

\* What a step does to session s: it is not open after it, nothing of it ends,
\* it is new, one more of its turns ends, or one of them ends a second time.
CountsOn(s) ==
    \/ session'[s].status # "open" /\ EndedIn(s)' \subseteq EndedIn(s)
    \/ /\ session'[s] = session[s]
       /\ EndedIn(s)' = EndedIn(s)
    \/ session'[s].version = 1 /\ EndedIn(s)' = {}
    \/ /\ session'[s].status = session[s].status
       /\ session'[s].version = session[s].version + 1
       /\ \/ \E t \in Turns : t \notin EndedIn(s) /\ EndedIn(s)' = EndedIn(s) \cup {t}
          \/ EndedIn(s)' = EndedIn(s) /\ faults' = faults + 1

LEMMA StepCounts ==
    ASSUME TypeInv, TypeInv', CountInv, faults' \in {faults, faults + 1},
           \A s \in Sessions : CountsOn(s)
    PROVE  CountInv'
<1> SUFFICES ASSUME NEW s \in Sessions
             PROVE  /\ IsFiniteSet(EndedIn(s)')
                    /\ session'[s].status = "open" =>
                          /\ 1 + Cardinality(EndedIn(s)') <= session'[s].version
                          /\ session'[s].version <= 1 + Cardinality(EndedIn(s)') + faults'
  <2>1. \A r \in Sessions : session'[r].version \in Int
    BY DEF TypeInv, TypeOK, SessionRecord
  <2>2. \A r \in Sessions : IsFiniteSet(EndedIn(r)') => Cardinality(EndedIn(r)') \in Nat
    BY FS_CardinalityType
  <2>3. faults' \in Nat
    BY DEF TypeInv, TypeOK
  <2>4. QED BY <2>1, <2>2, <2>3 DEF CountInv, VersionCountsEndedTurns
<1>1. /\ IsFiniteSet(EndedIn(s)) /\ Cardinality(EndedIn(s)) \in Nat
      /\ session[s].status = "open" =>
            /\ 1 + Cardinality(EndedIn(s)) <= session[s].version
            /\ session[s].version <= 1 + Cardinality(EndedIn(s)) + faults
  <2>1. IsFiniteSet(EndedIn(s)) /\ Cardinality(EndedIn(s)) \in Nat
    BY FS_CardinalityType DEF CountInv
  <2>2. session[s].version \in Nat /\ faults \in Nat
    BY DEF TypeInv, TypeOK, SessionRecord
  <2>3. QED BY <2>1, <2>2 DEF CountInv, VersionCountsEndedTurns
<1>2. session[s].version \in Nat /\ session'[s].version \in Nat
  BY DEF TypeInv, TypeOK, SessionRecord
<1>3. faults \in Nat /\ faults' \in Nat
  BY DEF TypeInv, TypeOK
<1>4. CASE session'[s].status # "open" /\ EndedIn(s)' \subseteq EndedIn(s)
  BY <1>1, <1>4, FS_Subset
<1>5. CASE session'[s] = session[s] /\ EndedIn(s)' = EndedIn(s)
  BY <1>1, <1>2, <1>3, <1>5
<1>6. CASE session'[s].version = 1 /\ EndedIn(s)' = {}
  BY <1>3, <1>6, FS_EmptySet
<1>7. ASSUME session'[s].status = session[s].status,
             session'[s].version = session[s].version + 1,
             NEW t \in Turns, t \notin EndedIn(s), EndedIn(s)' = EndedIn(s) \cup {t}
      PROVE  /\ IsFiniteSet(EndedIn(s)')
             /\ session'[s].status = "open" =>
                   /\ 1 + Cardinality(EndedIn(s)') <= session'[s].version
                   /\ session'[s].version <= 1 + Cardinality(EndedIn(s)') + faults'
  <2>1. IsFiniteSet(EndedIn(s)') /\ Cardinality(EndedIn(s)') = Cardinality(EndedIn(s)) + 1
    BY <1>1, <1>7, FS_AddElement
  <2>2. QED BY <1>1, <1>2, <1>3, <1>7, <2>1
<1>8. CASE /\ session'[s].status = session[s].status
           /\ session'[s].version = session[s].version + 1
           /\ EndedIn(s)' = EndedIn(s) /\ faults' = faults + 1
  BY <1>1, <1>2, <1>3, <1>8
<1>9. QED BY <1>4, <1>5, <1>6, <1>7, <1>8 DEF CountsOn

\* No turn ends and no session moves.
LEMMA NothingCounts ==
    ASSUME UNCHANGED session,
           \A u \in Turns : /\ Ended(u) => turn'[u].session = turn[u].session
                            /\ Ended(u)' <=> Ended(u)
    PROVE  \A s \in Sessions : CountsOn(s)
<1>1. \A s : EndedIn(s)' = EndedIn(s)
  BY DEF EndedIn
<1>2. QED BY <1>1 DEF CountsOn

\* One turn ends, or ends again, and its session moves.
LEMMA OneCounts ==
    ASSUME TypeInv, NEW t \in Turns, NEW s \in Sessions,
           session' = [session EXCEPT ![s].version = @ + 1],
           turn'[t].session = s, Ended(t)', Ended(t) => turn[t].session = s,
           \A u \in Turns : u # t => turn'[u] = turn[u],
           Ended(t) => faults' = faults + 1
    PROVE  \A r \in Sessions : CountsOn(r)
<1>1. /\ session'[s].status = session[s].status
      /\ session'[s].version = session[s].version + 1
      /\ \A r \in Sessions : r # s => session'[r] = session[r]
  BY DEF TypeInv, TypeOK, SessionRecord
<1>2. EndedIn(s)' = EndedIn(s) \cup {t}
  BY DEF EndedIn, Ended
<1>3. \A r : r # s => EndedIn(r)' = EndedIn(r)
  BY DEF EndedIn, Ended
<1>4. CASE Ended(t)
  <2>1. EndedIn(s)' = EndedIn(s)
    BY <1>2, <1>4 DEF EndedIn
  <2>2. QED BY <1>1, <1>3, <1>4, <2>1 DEF CountsOn
<1>5. CASE ~Ended(t)
  <2>1. t \notin EndedIn(s)
    BY <1>5 DEF EndedIn
  <2>2. QED BY <1>1, <1>2, <1>3, <2>1 DEF CountsOn
<1>6. QED BY <1>4, <1>5

\* complete_turn counts its turn; a second time only when the record was refused.
LEMMA CompleteCounts ==
    ASSUME TypeInv, TypeInv', HandleInv, NEW t \in Turns, task[t] # "none",
           NEW status \in {"completed", "failed"}, NEW revision \in Nat,
           NEW asked \in QuestionKinds \cup {"none"},
           CompleteTurn(t, revision, status, asked),
           task[t] = "recording" => faults' = faults + 1
    PROVE  \A r \in Sessions : CountsOn(r)
<1>1. turn[t].session \in Sessions
  BY DEF TypeInv, Owned
<1>2. session' = [session EXCEPT ![turn[t].session].version = @ + 1]
  BY DEF CompleteTurn
<1>3. turn'[t].session = turn[t].session
  BY CompleteType DEF SameRequest
<1>4. Ended(t)' /\ \A u \in Turns : u # t => turn'[u] = turn[u]
  BY DEF CompleteTurn, Ended, TypeInv, TypeOK, TurnRecord
<1>5. Ended(t) => faults' = faults + 1
  BY DEF HandleInv, NothingHangs, Computing, Queried, TypeInv, TypeOK, Phases
<1>6. QED BY <1>1, <1>2, <1>3, <1>4, <1>5, OneCounts

LEMMA AnswerCounts ==
    ASSUME TypeInv, TypeInv', HandleInv, NEW t \in Turns,
           task[t] \notin {"none", "recording"},
           NEW asked \in QuestionKinds \cup {"none"}, NEW revision \in Nat,
           Answer(t, revision, asked)
    PROVE  \A r \in Sessions : CountsOn(r)
BY CompleteCounts DEF Answer

LEMMA FailCounts ==
    ASSUME TypeInv, TypeInv', HandleInv, NEW t \in Turns, task[t] # "none", Fail(t),
           task[t] = "recording" => faults' = faults + 1
    PROVE  \A r \in Sessions : CountsOn(r)
BY CompleteCounts, RevisionType DEF Fail

LEMMA PinCounts ==
    ASSUME TypeInv, TypeInv', HandleInv, NEW t \in Turns, At(t, "waiting"),
           NEW revision, NEW p, Pin(t, revision, p)
    PROVE  \A r \in Sessions : CountsOn(r)
<1>1. ~Ended(t)
  BY DEF At, Queried, HandleInv, NothingHangs
<1>2. /\ ~Ended(t)'
      /\ \A u \in Turns : u # t => turn'[u] = turn[u]
  BY DEF Pin, Ended, TypeInv, TypeOK, TurnRecord
<1>3. \A u \in Turns : /\ Ended(u) => turn'[u].session = turn[u].session
                       /\ Ended(u)' <=> Ended(u)
  BY <1>1, <1>2 DEF Ended
<1>4. QED BY <1>3, NothingCounts DEF Pin

\* A new turn that is still to run ends nothing.
LEMMA AcceptCounts ==
    ASSUME TypeInv, NEW t \in Turns, turn[t].status = "unused",
           NEW s, NEW kind, NEW source, NEW revision,
           turn' = [turn EXCEPT ![t] = Accepted(s, kind, source, revision)],
           UNCHANGED session
    PROVE  \A r \in Sessions : CountsOn(r)
<1>1. \A u \in Turns : /\ Ended(u) => turn'[u].session = turn[u].session
                       /\ Ended(u)' <=> Ended(u)
  BY DEF Accepted, Ended, TypeInv, TypeOK
<1>2. QED BY <1>1, NothingCounts

LEMMA LaunchFaults ==
    ASSUME NEW s, NEW t, Launch(s, t)
    PROVE  faults' \in {faults, faults + 1}
BY DEF Launch

LEMMA HandlerCounts ==
    ASSUME TypeInv, TypeInv', VersionInv, HandleInv, Handler
    PROVE  faults' \in {faults, faults + 1} /\ \A r \in Sessions : CountsOn(r)
<1>1. ASSUME NEW s \in Sessions, CreateSession(s)
      PROVE  UNCHANGED faults /\ \A r \in Sessions : CountsOn(r)
  <2>1. \A r : EndedIn(r)' = EndedIn(r)
    BY <1>1 DEF CreateSession, EndedIn, Ended
  <2>2. EndedIn(s)' = {}
    BY <1>1, <2>1 DEF CreateSession, EndedIn, Ended, VersionInv
  <2>3. /\ session'[s].version = 1
        /\ \A r \in Sessions : r # s => session'[r] = session[r]
    BY <1>1 DEF CreateSession, TypeInv, TypeOK
  <2>4. QED BY <1>1, <2>1, <2>2, <2>3 DEF CreateSession, CountsOn
<1>2. ASSUME NEW s \in Sessions, DeleteSession(s)
      PROVE  UNCHANGED faults /\ \A r \in Sessions : CountsOn(r)
  <2>1. /\ session'[s].status = "deleted"
        /\ \A r \in Sessions : r # s => session'[r] = session[r]
    BY <1>2 DEF DeleteSession, TypeInv, TypeOK, SessionRecord
  <2>2. EndedIn(s)' \subseteq EndedIn(s)
    BY <1>2 DEF DeleteSession, EndedIn, Ended, TypeInv, TypeOK, TurnRecord
  <2>3. \A r \in Sessions : r # s => EndedIn(r)' = EndedIn(r)
    BY <1>2 DEF DeleteSession, EndedIn, Ended, TypeInv, TypeOK, TurnRecord
  <2>4. QED BY <1>2, <2>1, <2>2, <2>3 DEF DeleteSession, CountsOn
<1>3. ASSUME NEW s \in Sessions, NEW t \in Turns, SubmitMessage(s, t)
      PROVE  faults' \in {faults, faults + 1} /\ \A r \in Sessions : CountsOn(r)
  BY <1>3, AcceptCounts, LaunchFaults DEF SubmitMessage
<1>4. ASSUME NEW s \in Sessions, NEW t \in Turns, RemoveContext(s, t)
      PROVE  UNCHANGED faults /\ \A r \in Sessions : CountsOn(r)
  <2>1. /\ turn[t].status = "unused"
        /\ turn'[t].status = "completed" /\ turn'[t].session = s
        /\ \A u \in Turns : u # t => turn'[u] = turn[u]
    BY <1>4 DEF RemoveContext, Accepted, TypeInv, TypeOK
  <2>2. session' = [session EXCEPT ![s].version = @ + 1] /\ UNCHANGED faults
    BY <1>4 DEF RemoveContext
  <2>3. QED BY <2>1, <2>2, OneCounts DEF Ended
<1>5. ASSUME NEW o \in Turns, NEW t \in Turns, NEW kind, NEW action,
             PinForClaim(kind, o, t, action)
      PROVE  UNCHANGED faults /\ \A r \in Sessions : CountsOn(r)
  BY <1>5, NothingCounts DEF PinForClaim, store, Ended
<1>6. QED
  BY <1>1, <1>2, <1>3, <1>4, <1>5
  DEF Handler, PinForClarification, PinForContinuation

LEMMA ResolveClaimCounts ==
    ASSUME TypeInv, ResolveClaim
    PROVE  faults' \in {faults, faults + 1} /\ \A r \in Sessions : CountsOn(r)
<1>1. CASE RefuseClaim
  BY <1>1, NothingCounts DEF RefuseClaim, store, Ended
<1>2. ASSUME AcceptClarification \/ AcceptContinuation
      PROVE  faults' \in {faults, faults + 1} /\ \A r \in Sessions : CountsOn(r)
  <2>1. claim # NoClaim
    BY <1>2 DEF AcceptClarification, AcceptContinuation, NoClaim
  <2>2. PICK t \in Turns : t = claim.turn /\ turn[t].status = "unused"
    BY <2>1 DEF TypeInv, ClaimReserves
  <2>3. PICK s, o, kind, revision :
           /\ turn' = [turn EXCEPT ![t] = Accepted(s, kind, o, revision)]
           /\ Launch(s, t)
    BY <1>2, <2>2 DEF AcceptClarification, AcceptContinuation
  <2>4. UNCHANGED session
    BY <1>2 DEF AcceptClarification, AcceptContinuation
  <2>5. QED BY <2>2, <2>3, <2>4, AcceptCounts, LaunchFaults
<1>3. QED BY <1>1, <1>2 DEF ResolveClaim

LEMMA TaskStepCounts ==
    ASSUME TypeInv, TypeInv', HandleInv, NEW t \in Turns, TaskStep(t)
    PROVE  UNCHANGED faults /\ \A r \in Sessions : CountsOn(r)
<1>1. CASE RefuseStaleTurn(t)
  BY <1>1, FailCounts DEF RefuseStaleTurn, At
<1>2. CASE StartMessage(t) \/ StartContinuation(t) \/ StartClarification(t)
  <2>1. PICK revision, p : Pin(t, revision, p)
    BY <1>2 DEF StartMessage, StartContinuation, StartClarification
  <2>2. At(t, "waiting")
    BY <1>2 DEF StartMessage, StartContinuation, StartClarification, Fresh
  <2>3. \A r \in Sessions : CountsOn(r)
    BY <2>1, <2>2, PinCounts
  <2>4. QED BY <2>1, <2>3 DEF Pin
<1>3. CASE CancelClarification(t)
  BY <1>3, AnswerCounts, RevisionType DEF CancelClarification, Fresh, At, Answer
<1>4. ASSUME NEW asked \in QuestionKinds \cup {"none"},
             RepeatBindingQuestion(t, asked) \/ PlannerAsks(t, asked)
                \/ ExecutorAnswers(t, asked)
      PROVE  UNCHANGED faults /\ \A r \in Sessions : CountsOn(r)
  BY <1>4, AnswerCounts, RevisionType
  DEF RepeatBindingQuestion, PlannerAsks, ExecutorAnswers, Fresh, At, Answer
<1>5. CASE PlannerPlans(t) \/ StorePage(t)
  BY <1>5, NothingCounts DEF PlannerPlans, StorePage, store, Ended
<1>6. CASE AnswerWithPage(t)
  BY <1>6, AnswerCounts, RevisionType DEF AnswerWithPage, At, Answer
<1>7. CASE FailTurn(t)
  BY <1>7, FailCounts DEF FailTurn, At
<1>8. CASE Record(t) \/ TaskOfDeletedTurn(t)
  BY <1>8, NothingCounts DEF Record, TaskOfDeletedTurn, store, Ended
<1>9. QED
  BY <1>1, <1>2, <1>3, <1>4, <1>5, <1>6, <1>7, <1>8 DEF TaskStep

LEMMA OtherCounts ==
    ASSUME TypeInv, TypeInv', HandleInv, Fault \/ Environment
    PROVE  faults' \in {faults, faults + 1} /\ \A r \in Sessions : CountsOn(r)
<1>1. ASSUME NEW t \in Turns, RecordFails(t)
      PROVE  faults' = faults + 1 /\ \A r \in Sessions : CountsOn(r)
  BY <1>1, FailCounts DEF RecordFails, At
<1>2. ASSUME NEW t \in Turns, TaskDies(t)
      PROVE  faults' = faults + 1 /\ \A r \in Sessions : CountsOn(r)
  BY <1>2, NothingCounts DEF TaskDies, store, Ended
<1>3. CASE Environment
  <2>1. UNCHANGED <<session, turn, faults>>
    BY <1>3 DEF Environment, ImportCatalog, ExpireHandles, Restart, store
  <2>2. QED BY <2>1, NothingCounts DEF Ended
<1>4. QED BY <1>1, <1>2, <1>3 DEF Fault

\* The context version counts the turns that ended, and store errors at most
\* once each on top.
THEOREM VersionsCount == Spec => []VersionCountsEndedTurns
<1>1. Init => CountInv
  <2>1. ASSUME Init PROVE \A s : EndedIn(s) = {}
    BY <2>1 DEF Init, NoTurnYet, EndedIn, Ended
  <2>2. ASSUME Init PROVE VersionCountsEndedTurns
    BY <2>2 DEF Init, VersionCountsEndedTurns
  <2>3. QED BY <2>1, <2>2, FS_EmptySet DEF CountInv
<1>2. TypeInv /\ TypeInv' /\ VersionInv /\ HandleInv /\ CountInv /\ [Next]_vars => CountInv'
  <2>1. TypeInv /\ TypeInv' /\ VersionInv /\ HandleInv /\ CountInv /\ Next => CountInv'
    BY HandlerCounts, ResolveClaimCounts, TaskStepCounts, OtherCounts, StepCounts DEF Next
  <2>2. CountInv /\ UNCHANGED vars => CountInv'
    BY DEF vars, store, process, CountInv, VersionCountsEndedTurns, EndedIn, Ended
  <2>3. QED BY <2>1, <2>2
<1>3. CountInv => VersionCountsEndedTurns
  BY DEF CountInv
<1>4. QED
  BY <1>1, <1>2, <1>3, TypeInvariant, VersionInvariant, HandleInvariant, PTL DEF Spec

-----------------------------------------------------------------------------
(* What a client sees.                                                       *)

\* Whatever is not deleted is of an open session; a task is of no removal, and
\* what it records has been completed.
ClientInv ==
    \A t \in Turns :
        /\ turn[t].status \notin {"unused", "deleted"} =>
              session[turn[t].session].status = "open"
        /\ task[t] # "none" => turn[t].kind # "removal"
        /\ task[t] = "recording" => turn[t].status \in {"completed", "deleted"}

Follows == Client!Next \/ UNCHANGED Client!vars

\* A task at work that nothing deleted is of a turn in progress.
LEMMA WorkIsPending ==
    ASSUME TypeInv, HandleInv, NEW t \in Turns, Computing(t) \/ Queried(t),
           turn[t].status # "deleted"
    PROVE  InProgress(t) /\ StateOf(t) = "pending"
<1>1. turn[t].status \in TurnStatuses \ {"unused", "deleted", "completed", "failed"}
  BY DEF TypeInv, TypeOK, Owned, TurnRecord, HandleInv, NothingHangs, Computing, Queried,
         Ended
<1>2. QED BY <1>1 DEF TurnStatuses, InProgress, StateOf

\* No row that a client sees changes, and no removal gets a task.
LEMMA QuietClient ==
    ASSUME TypeInv, ClientInv, UNCHANGED <<session, turn, question>>,
           \A u \in Turns : \/ task'[u] \in {task[u], "none"}
                            \/ task[u] # "none" /\ task'[u] # "recording"
    PROVE  Follows /\ ClientInv'
<1>1. UNCHANGED Client!vars
  BY DEF Client!vars, LiveSessions, Versions, OpenQuestions, SeenTurns, StateOf,
         InProgress, Answered
<1>2. ClientInv'
  BY DEF ClientInv
<1>3. QED BY <1>1, <1>2 DEF Follows

\* A turn takes its row: for the client it is accepted.
LEMMA AcceptClient ==
    ASSUME TypeInv, TypeInv', ClientInv, NEW s \in Sessions, session[s].status = "open",
           NEW t \in Turns, turn[t].status = "unused",
           turn'[t].session = s, turn'[t].version = session[s].version,
           turn'[t].status \in {"accepted", "completed"},
           task'[t] \in {"none", "waiting"},
           task'[t] = "waiting" => turn'[t].kind # "removal",
           \A u \in Turns : u # t => turn'[u] = turn[u] /\ task'[u] = task[u],
           \A r \in Sessions : session'[r].status = session[r].status,
           NEW state, state = StateOf(t)',
           NEW asker, asker = IF turn'[t].kind = "clarification" THEN turn'[t].source
                                                                 ELSE None
    PROVE  Client!Accept(s, t, state, asker) /\ ClientInv'
<1>1. s \in LiveSessions /\ LiveSessions' = LiveSessions
  BY DEF LiveSessions
<1>2. SeenTurns[t].state = "unused"
  BY DEF SeenTurns, StateOf, InProgress, Answered
<1>3. SeenTurns' = [SeenTurns EXCEPT ![t] =
                      [state |-> state, session |-> s, version |-> Versions[s],
                       asker |-> asker]]
  <2>1. \A u \in Turns : u # t => SeenTurns'[u] = SeenTurns[u]
    BY DEF SeenTurns, StateOf, InProgress, Answered
  <2>2. SeenTurns'[t] = [state |-> state, session |-> s, version |-> Versions[s],
                         asker |-> asker]
    BY DEF SeenTurns, Versions
  <2>3. /\ SeenTurns' = [u \in Turns |-> SeenTurns'[u]]
        /\ SeenTurns = [u \in Turns |-> SeenTurns[u]]
    BY DEF SeenTurns
  <2>4. QED BY <2>1, <2>2, <2>3
<1>4. Client!Accept(s, t, state, asker)
  BY <1>1, <1>2, <1>3 DEF Client!Accept
<1>5. ClientInv'
  <2>1. \A u \in Turns : turn[u].status # "unused" => turn[u].session \in Sessions
    BY DEF TypeInv, Owned
  <2>2. QED BY <2>1 DEF ClientInv
<1>6. QED BY <1>4, <1>5

LEMMA SupersededOpen ==
    ASSUME TypeInv, NEW s
    PROVE  \A u \in Turns : Superseded(s)[u].status = "open" <=>
                            question[u].status = "open" /\ turn[u].session # s
<1>1. \A u \in Turns : question[u] \in QuestionRecord
  BY DEF TypeInv, TypeOK
<1>2. QED BY <1>1 DEF Superseded, QuestionRecord

LEMMA OfSessionSeen == \A s : Client!OfSession(s) = {u \in Turns : turn[u].session = s}
<1>1. \A u \in Turns : SeenTurns[u].session = turn[u].session
  BY DEF SeenTurns
<1>2. QED BY <1>1 DEF Client!OfSession

\* complete_turn on a turn that is in progress, or once more on a completed one.
LEMMA CompleteClient ==
    ASSUME TypeInv, TypeInv', HandleInv, ClientInv, NEW t \in Turns,
           task[t] # "none", turn[t].status # "deleted",
           NEW status \in {"completed", "failed"}, NEW revision \in Nat,
           NEW asked \in QuestionKinds \cup {"none"},
           CompleteTurn(t, revision, status, asked),
           task'[t] \in {"none", "recording"},
           task'[t] = "recording" => status = "completed",
           \A u \in Turns : u # t => task'[u] = task[u]
    PROVE  /\ Client!End(t, IF status = "failed" THEN "failed" ELSE "answered")
           /\ IF asked = "none" THEN OpenQuestions' = OpenQuestions
              ELSE OpenQuestions' =
                      (OpenQuestions \ Client!OfSession(SeenTurns[t].session)) \cup {t}
           /\ SeenTurns[t].state = IF task[t] = "recording" THEN "answered" ELSE "pending"
           /\ ClientInv'
<1> DEFINE s == turn[t].session
           state == IF status = "failed" THEN "failed" ELSE "answered"
<1>1. turn[t].status # "unused" /\ s \in Sessions /\ turn[t].kind # "removal"
  BY DEF TypeInv, Owned, ClientInv
<1>2. /\ turn'[t].status = status /\ \A u \in Turns : SameRequest(u)
      /\ \A u \in Turns : u # t => turn'[u] = turn[u]
  <2>1. \A u \in Turns : SameRequest(u)
    BY CompleteType
  <2>2. turn'[t].status = status /\ \A u \in Turns : u # t => turn'[u] = turn[u]
    BY DEF CompleteTurn, TypeInv, TypeOK, TurnRecord
  <2>3. QED BY <2>1, <2>2
<1>3. /\ \A r \in Sessions : session'[r].status = session[r].status
      /\ session'[s].version = session[s].version + 1
      /\ \A r \in Sessions : r # s => session'[r] = session[r]
  BY <1>1 DEF CompleteTurn, TypeInv, TypeOK, SessionRecord
<1>4. LiveSessions' = LiveSessions
  BY <1>3 DEF LiveSessions
<1>5. Versions' = [Versions EXCEPT ![SeenTurns[t].session] = @ + 1]
  BY <1>1, <1>3 DEF Versions, SeenTurns
<1>6. SeenTurns' = [SeenTurns EXCEPT ![t].state = state]
  <2>1. \A u \in Turns : u # t => SeenTurns'[u] = SeenTurns[u]
    BY <1>2 DEF SeenTurns, StateOf, InProgress, Answered
  <2>2. StateOf(t)' = state
    BY <1>1, <1>2 DEF SameRequest, StateOf, InProgress, Answered
  <2>3. SeenTurns'[t] = [SeenTurns[t] EXCEPT !.state = state]
    BY <1>2, <2>2 DEF SeenTurns, SameRequest
  <2>4. /\ SeenTurns' = [u \in Turns |-> SeenTurns'[u]]
        /\ SeenTurns = [u \in Turns |-> SeenTurns[u]]
    BY DEF SeenTurns
  <2> HIDE DEF state
  <2>5. QED BY <2>1, <2>3, <2>4
<1>7. Client!End(t, state)
  BY <1>4, <1>5, <1>6 DEF Client!End
<1>8. ASSUME asked = "none" PROVE OpenQuestions' = OpenQuestions
  BY <1>8 DEF CompleteTurn, OpenQuestions
<1>9. ASSUME asked # "none"
      PROVE  OpenQuestions' =
                (OpenQuestions \ Client!OfSession(SeenTurns[t].session)) \cup {t}
  <2>1. question' = [Superseded(s) EXCEPT ![t] =
                       [status |-> "open", kind |-> asked,
                        version |-> turn[t].version + 1, revision |-> revision,
                        marker |-> marker, action |-> "none"]]
    BY <1>9 DEF CompleteTurn
  <2>2. question'[t].status = "open"
    BY <2>1 DEF Superseded
  <2>3. \A u \in Turns : Superseded(s)[u].status = "open" <=>
                          question[u].status = "open" /\ turn[u].session # s
    BY SupersededOpen
  <2>4. \A u \in Turns : u # t => question'[u] = Superseded(s)[u]
    BY <2>1 DEF Superseded
  <2>5. Client!OfSession(SeenTurns[t].session) = {u \in Turns : turn[u].session = s}
    BY OfSessionSeen DEF SeenTurns
  <2>6. QED BY <2>2, <2>3, <2>4, <2>5 DEF OpenQuestions
<1>10. SeenTurns[t].state = IF task[t] = "recording" THEN "answered" ELSE "pending"
  <2>1. CASE task[t] = "recording"
    BY <1>1, <2>1 DEF ClientInv, SeenTurns, StateOf, InProgress, Answered
  <2>2. CASE task[t] # "recording"
    <3>1. Computing(t) \/ Queried(t)
      BY <2>2 DEF Computing, Queried, TypeInv, TypeOK, Phases
    <3>2. QED BY <2>2, <3>1, WorkIsPending DEF SeenTurns
  <2>3. QED BY <2>1, <2>2
<1>11. ClientInv'
  <2> SUFFICES ASSUME NEW u \in Turns
               PROVE /\ turn'[u].status \notin {"unused", "deleted"} =>
                           session'[turn'[u].session].status = "open"
                     /\ task'[u] # "none" => turn'[u].kind # "removal"
                     /\ task'[u] = "recording" => turn'[u].status \in {"completed", "deleted"}
    BY DEF ClientInv
  <2>1. turn[u].status # "unused" => turn[u].session \in Sessions
    BY DEF TypeInv, Owned
  <2>2. CASE u = t
    BY <1>1, <1>2, <1>3, <2>2 DEF ClientInv, SameRequest
  <2>3. CASE u # t
    BY <1>2, <1>3, <2>1, <2>3 DEF ClientInv
  <2>4. QED BY <2>2, <2>3
<1>12. QED BY <1>7, <1>8, <1>9, <1>10, <1>11

LEMMA AnswerFollows ==
    ASSUME TypeInv, TypeInv', HandleInv, ClientInv, NEW t \in Turns,
           Computing(t) \/ Queried(t), turn[t].status # "deleted",
           \A u \in Turns : Answered(u) /\ turn[u].session = turn[t].session =>
                              turn[u].version < turn[t].version,
           NEW asked \in QuestionKinds \cup {"none"}, NEW revision \in Nat,
           Answer(t, revision, asked)
    PROVE  Follows /\ ClientInv'
<1>1. /\ task[t] \notin {"none", "recording"} /\ CompleteTurn(t, revision, "completed", asked)
      /\ task'[t] = "recording" /\ \A u \in Turns : u # t => task'[u] = task[u]
  BY DEF Answer, Computing, Queried, TypeInv, TypeOK
<1>2. /\ Client!End(t, "answered") /\ SeenTurns[t].state = "pending" /\ ClientInv'
      /\ OpenQuestions' \in {OpenQuestions,
            (OpenQuestions \ Client!OfSession(SeenTurns[t].session)) \cup {t}}
  BY <1>1, CompleteClient
<1>3. Client!UpToDate(t)
  <2> SUFFICES ASSUME NEW u \in Turns, SeenTurns[u].session = SeenTurns[t].session,
                      SeenTurns[u].state = "answered"
               PROVE  SeenTurns[u].version < SeenTurns[t].version
    BY DEF Client!UpToDate, Client!OfSession
  <2>1. Answered(u) /\ turn[u].session = turn[t].session
    <3>1. /\ SeenTurns[u].state = StateOf(u) /\ SeenTurns[u].session = turn[u].session
          /\ SeenTurns[t].session = turn[t].session
      BY DEF SeenTurns
    <3>2. turn[u].status \in TurnStatuses
      BY DEF TypeInv, TypeOK, TurnRecord
    <3>3. StateOf(u) = "answered" => Answered(u)
      BY <3>2 DEF StateOf, TurnStatuses
    <3>4. QED BY <3>1, <3>3
  <2>2. QED BY <2>1 DEF SeenTurns
<1>4. Client!Answer(t)
  BY <1>2, <1>3 DEF Client!Answer
<1>5. QED BY <1>2, <1>4 DEF Follows, Client!Next

LEMMA FailFollows ==
    ASSUME TypeInv, TypeInv', HandleInv, ClientInv, NEW t \in Turns,
           task[t] # "none", turn[t].status # "deleted", Fail(t)
    PROVE  Follows /\ ClientInv'
<1>1. /\ CompleteTurn(t, turn[t].revision, "failed", "none") /\ turn[t].revision \in Nat
      /\ task'[t] = "none" /\ \A u \in Turns : u # t => task'[u] = task[u]
  BY RevisionType DEF Fail, EndTask, TypeInv, TypeOK
<1>2. /\ Client!End(t, "failed") /\ OpenQuestions' = OpenQuestions /\ ClientInv'
      /\ SeenTurns[t].state \in {"pending", "answered"}
  BY <1>1, CompleteClient
<1>3. Client!Fail(t)
  BY <1>2 DEF Client!Fail
<1>4. QED BY <1>2, <1>3 DEF Follows, Client!Next

LEMMA PinFollows ==
    ASSUME TypeInv, HandleInv, ClientInv, NEW t \in Turns, At(t, "waiting"),
           NEW revision, NEW p \in {"planning", "executing"}, Pin(t, revision, p)
    PROVE  Follows /\ ClientInv'
<1>1. InProgress(t)
  BY WorkIsPending DEF At, Queried
<1>2. /\ turn'[t].status = "running" /\ SameRequest(t) /\ task'[t] = p
      /\ \A u \in Turns : u # t => turn'[u] = turn[u] /\ task'[u] = task[u]
      /\ UNCHANGED <<session, question>>
  BY DEF Pin, SameRequest, TypeInv, TypeOK, TurnRecord
<1>3. SeenTurns' = SeenTurns
  BY <1>1, <1>2 DEF SeenTurns, StateOf, InProgress, Answered, SameRequest
<1>4. UNCHANGED Client!vars
  BY <1>2, <1>3 DEF Client!vars, LiveSessions, Versions, OpenQuestions
<1>5. ClientInv'
  BY <1>1, <1>2 DEF ClientInv, InProgress, SameRequest, At
<1>6. QED BY <1>4, <1>5 DEF Follows

LEMMA TaskStepFollows ==
    ASSUME TypeInv, TypeInv', VersionInv, HandleInv, ClientInv,
           NEW t \in Turns, TaskStep(t)
    PROVE  Follows /\ ClientInv'
<1>1. ASSUME Fresh(t) PROVE \A u \in Turns : Answered(u) /\ turn[u].session = turn[t].session
                                             => turn[u].version < turn[t].version
  BY <1>1 DEF Fresh, VersionInv
<1>2. ASSUME Computing(t) PROVE \A u \in Turns : Answered(u) /\ turn[u].session = turn[t].session
                                                 => turn[u].version < turn[t].version
  BY <1>2 DEF VersionInv
<1>3. CASE RefuseStaleTurn(t)
  BY <1>3, FailFollows DEF RefuseStaleTurn, At
<1>4. CASE StartMessage(t)
  BY <1>4, PinFollows DEF StartMessage, Fresh
<1>5. CASE StartContinuation(t)
  BY <1>5, PinFollows DEF StartContinuation, Fresh
<1>6. CASE StartClarification(t)
  <2> DEFINE asked == question[turn[t].source]
             p == IF asked.kind = "interpretation_choice" THEN "planning"
                                                          ELSE "executing"
  <2>1. p \in {"planning", "executing"}
    OBVIOUS
  <2>2. Pin(t, asked.revision, p) /\ At(t, "waiting")
    BY <1>6 DEF StartClarification, Fresh
  <2> HIDE DEF asked, p
  <2>3. QED BY <2>1, <2>2, PinFollows
<1>7. CASE CancelClarification(t)
  BY <1>1, <1>7, AnswerFollows, RevisionType DEF CancelClarification, Fresh, At, Queried
<1>8. ASSUME NEW asked \in QuestionKinds \cup {"none"}, RepeatBindingQuestion(t, asked)
      PROVE  Follows /\ ClientInv'
  BY <1>1, <1>8, AnswerFollows, RevisionType DEF RepeatBindingQuestion, Fresh, At, Queried
<1>9. ASSUME NEW asked \in QuestionKinds \cup {"none"},
             PlannerAsks(t, asked) \/ ExecutorAnswers(t, asked)
      PROVE  Follows /\ ClientInv'
  BY <1>2, <1>9, AnswerFollows, RevisionType DEF PlannerAsks, ExecutorAnswers, At, Computing
<1>10. CASE PlannerPlans(t)
  BY <1>10, QuietClient DEF PlannerPlans, At, store, TypeInv, TypeOK
<1>11. CASE StorePage(t)
  BY <1>11, QuietClient DEF StorePage, At, TypeInv, TypeOK
<1>12. CASE AnswerWithPage(t)
  BY <1>2, <1>12, AnswerFollows, RevisionType DEF AnswerWithPage, At, Computing
<1>13. CASE FailTurn(t)
  BY <1>13, FailFollows DEF FailTurn, At
<1>14. CASE Record(t) \/ TaskOfDeletedTurn(t)
  BY <1>14, QuietClient DEF Record, TaskOfDeletedTurn, EndTask, store, TypeInv, TypeOK
<1>15. QED
  BY <1>3, <1>4, <1>5, <1>6, <1>7, <1>8, <1>9, <1>10, <1>11, <1>12, <1>13, <1>14
  DEF TaskStep

LEMMA OtherFollows ==
    ASSUME TypeInv, TypeInv', HandleInv, ClientInv, Fault \/ Environment
    PROVE  Follows /\ ClientInv'
<1>1. ASSUME NEW t \in Turns, RecordFails(t) PROVE Follows /\ ClientInv'
  BY <1>1, FailFollows DEF RecordFails, At
<1>2. ASSUME NEW t \in Turns, TaskDies(t) PROVE Follows /\ ClientInv'
  BY <1>2, QuietClient DEF TaskDies, EndTask, store, TypeInv, TypeOK
<1>3. CASE ImportCatalog \/ \E o \in Turns : ExpireHandles(o)
  BY <1>3, QuietClient DEF ImportCatalog, ExpireHandles, process
<1>4. ASSUME NEW m \in Markers, Restart(m) PROVE Follows /\ ClientInv'
  BY <1>4, QuietClient DEF Restart, store
<1>5. QED BY <1>1, <1>2, <1>3, <1>4 DEF Fault, Environment

\* The session and its turns go, and its questions with them.
LEMMA DeleteFollows ==
    ASSUME TypeInv, TypeInv', HandleInv, ClientInv, NEW s \in Sessions, DeleteSession(s)
    PROVE  Client!Delete(s) /\ ClientInv'
<1>1. \A u \in Turns :
         \/ turn[u].session # s /\ turn'[u] = turn[u] /\ question'[u] = question[u]
         \/ /\ turn[u].session = s /\ SameRequest(u)
            /\ turn'[u].status = "deleted" /\ question'[u].status = "none"
  <2>1. \A u \in Turns : turn[u] \in TurnRecord
    BY DEF TypeInv, TypeOK
  <2> SUFFICES ASSUME NEW u \in Turns, turn[u].session = s
               PROVE  /\ SameRequest(u) /\ turn'[u].status = "deleted"
                      /\ question'[u].status = "none"
    BY DEF DeleteSession
  <2>2. turn'[u] = [turn[u] EXCEPT !.status = "deleted"]
    BY DEF DeleteSession
  <2>3. SameRequest(u) /\ turn'[u].status = "deleted"
    BY <2>1, <2>2, StatusOnly DEF SameRequest
  <2>4. QED BY <2>3 DEF DeleteSession, NoQuestion
<1>2. /\ session[s].status = "open" /\ session'[s].status = "deleted"
      /\ \A r \in Sessions : session'[r].version = session[r].version
      /\ \A r \in Sessions : r # s => session'[r] = session[r]
  BY DEF DeleteSession, TypeInv, TypeOK, SessionRecord
<1>3. s \in LiveSessions /\ LiveSessions' = LiveSessions \ {s}
  BY <1>2 DEF LiveSessions
<1>4. Versions' = Versions
  BY <1>2 DEF Versions
<1>5. OpenQuestions' = OpenQuestions \ Client!OfSession(s)
  BY <1>1, OfSessionSeen DEF OpenQuestions
<1>6. SeenTurns' = [u \in Turns |-> IF u \in Client!OfSession(s)
                                    THEN [SeenTurns[u] EXCEPT !.state = "deleted"]
                                    ELSE SeenTurns[u]]
  <2>1. \A u \in Turns : turn[u].session = s =>
                            SeenTurns'[u] = [SeenTurns[u] EXCEPT !.state = "deleted"]
    <3> SUFFICES ASSUME NEW u \in Turns, turn[u].session = s
                 PROVE  SeenTurns'[u] = [SeenTurns[u] EXCEPT !.state = "deleted"]
      OBVIOUS
    <3>1. StateOf(u)' = "deleted" /\ SameRequest(u)
      BY <1>1 DEF StateOf, InProgress, Answered
    <3>2. QED BY <3>1 DEF SeenTurns, SameRequest
  <2>2. \A u \in Turns : turn[u].session # s => SeenTurns'[u] = SeenTurns[u]
    BY <1>1 DEF SeenTurns, StateOf, InProgress, Answered
  <2>3. SeenTurns' = [u \in Turns |-> SeenTurns'[u]]
    BY DEF SeenTurns
  <2>4. \A u \in Turns : u \in Client!OfSession(s) <=> turn[u].session = s
    BY OfSessionSeen
  <2>5. \A u \in Turns : SeenTurns'[u] = IF u \in Client!OfSession(s)
                                         THEN [SeenTurns[u] EXCEPT !.state = "deleted"]
                                         ELSE SeenTurns[u]
    BY <2>1, <2>2, <2>4
  <2>6. QED BY <2>3, <2>5
<1>7. ClientInv'
  <2>1. UNCHANGED task
    BY DEF DeleteSession, process
  <2>2. \A u \in Turns : turn[u].status # "unused" => turn[u].session \in Sessions
    BY DEF TypeInv, Owned
  <2>3. QED BY <1>1, <1>2, <2>1, <2>2 DEF ClientInv, SameRequest
<1>8. QED BY <1>3, <1>4, <1>5, <1>6, <1>7 DEF Client!Delete

LEMMA HandlerFollows ==
    ASSUME TypeInv, TypeInv', VersionInv, HandleInv, ClientInv, Handler
    PROVE  Follows /\ ClientInv'
<1>1. ASSUME NEW s \in Sessions, CreateSession(s) PROVE Follows /\ ClientInv'
  <2>1. /\ session[s].status = "absent" /\ session[s].version = 0
        /\ session'[s].status = "open" /\ session'[s].version = 1
        /\ \A r \in Sessions : r # s => session'[r] = session[r]
        /\ UNCHANGED <<turn, question, task>>
    BY <1>1 DEF CreateSession, VersionInv, TypeInv, TypeOK, process
  <2>2. s \notin LiveSessions /\ LiveSessions' = LiveSessions \cup {s}
    BY <2>1 DEF LiveSessions
  <2>3. Versions[s] = 0 /\ Versions' = [Versions EXCEPT ![s] = 1]
    BY <2>1 DEF Versions
  <2>4. UNCHANGED <<SeenTurns, OpenQuestions>>
    BY <2>1 DEF SeenTurns, StateOf, InProgress, Answered, OpenQuestions
  <2>5. Client!Create(s)
    BY <2>2, <2>3, <2>4 DEF Client!Create
  <2>6. \A u \in Turns : turn[u].status # "unused" => turn[u].session \in Sessions
    BY DEF TypeInv, Owned
  <2>7. ClientInv'
    BY <2>1, <2>6 DEF ClientInv
  <2>8. QED BY <2>5, <2>7 DEF Follows, Client!Next
<1>2. ASSUME NEW s \in Sessions, DeleteSession(s) PROVE Follows /\ ClientInv'
  BY <1>2, DeleteFollows DEF Follows, Client!Next
<1>3. ASSUME NEW s \in Sessions, NEW t \in Turns, SubmitMessage(s, t)
      PROVE  Follows /\ ClientInv'
  <2>1. /\ turn[t].status = "unused" /\ session[s].status = "open"
        /\ turn'[t] = Accepted(s, "message", None, 0)
        /\ \A u \in Turns : u # t => turn'[u] = turn[u]
    BY <1>3 DEF SubmitMessage, TypeInv, TypeOK
  <2>2. /\ task'[t] \in {"none", "waiting"}
        /\ \A u \in Turns : u # t => task'[u] = task[u]
    BY <1>3, <2>1 DEF SubmitMessage, Launch, Spawn, TypeInv, TypeOK, Owned
  <2>3. UNCHANGED session /\ question' = Superseded(s)
    BY <1>3 DEF SubmitMessage
  <2>4. /\ turn'[t].session = s /\ turn'[t].version = session[s].version
        /\ turn'[t].status = "accepted" /\ turn'[t].kind = "message"
    BY <2>1 DEF Accepted
  <2>5. StateOf(t)' = "pending"
    BY <2>4 DEF StateOf, InProgress
  <2>6. Client!Accept(s, t, "pending", None) /\ ClientInv'
    BY <2>1, <2>2, <2>3, <2>4, <2>5, AcceptClient
  <2>7. OpenQuestions' = OpenQuestions \ Client!OfSession(s)
    BY <2>3, SupersededOpen, OfSessionSeen DEF OpenQuestions
  <2>8. Client!Send(s, t)
    BY <2>3, <2>6, <2>7 DEF Client!Send, Versions
  <2>9. QED BY <2>6, <2>8 DEF Follows, Client!Next
<1>4. ASSUME NEW s \in Sessions, NEW t \in Turns, RemoveContext(s, t)
      PROVE  Follows /\ ClientInv'
  <2>1. /\ turn[t].status = "unused" /\ session[s].status = "open"
        /\ turn'[t].status = "completed" /\ turn'[t].kind = "removal"
        /\ turn'[t].session = s /\ turn'[t].version = session[s].version
        /\ \A u \in Turns : u # t => turn'[u] = turn[u]
    BY <1>4 DEF RemoveContext, Accepted, TypeInv, TypeOK
  <2>2. task[t] = "none" /\ UNCHANGED <<task, question>>
    BY <1>4, <2>1 DEF RemoveContext, process, TypeInv, Owned
  <2>3. /\ \A r \in Sessions : session'[r].status = session[r].status
        /\ session'[s].version = session[s].version + 1
        /\ \A r \in Sessions : r # s => session'[r] = session[r]
    BY <1>4 DEF RemoveContext, TypeInv, TypeOK, SessionRecord
  <2>4. StateOf(t)' = "removed"
    BY <2>1 DEF StateOf, InProgress, Answered
  <2>5. Client!Accept(s, t, "removed", None) /\ ClientInv'
    BY <2>1, <2>2, <2>3, <2>4, AcceptClient
  <2>6. Versions' = [Versions EXCEPT ![s] = @ + 1]
    BY <2>3 DEF Versions
  <2>7. Client!Remove(s, t)
    BY <2>2, <2>5, <2>6 DEF Client!Remove, OpenQuestions
  <2>8. QED BY <2>5, <2>7 DEF Follows, Client!Next
<1>5. ASSUME NEW o \in Turns, NEW t \in Turns, NEW kind, NEW action,
             PinForClaim(kind, o, t, action)
      PROVE  Follows /\ ClientInv'
  BY <1>5, QuietClient DEF PinForClaim, store
<1>6. QED
  BY <1>1, <1>2, <1>3, <1>4, <1>5
  DEF Handler, PinForClarification, PinForContinuation

LEMMA ResolveClaimFollows ==
    ASSUME TypeInv, TypeInv', HandleInv, ClientInv, ResolveClaim
    PROVE  Follows /\ ClientInv'
<1>1. CASE RefuseClaim
  BY <1>1, QuietClient DEF RefuseClaim, store
<1>2. ASSUME AcceptClarification \/ AcceptContinuation PROVE Follows /\ ClientInv'
  <2>1. claim # NoClaim
    BY <1>2 DEF AcceptClarification, AcceptContinuation, NoClaim
  <2>2. PICK t \in Turns : t = claim.turn /\ turn[t].status = "unused"
    BY <2>1 DEF TypeInv, ClaimReserves
  <2>3. PICK o \in Turns : o = claim.source /\ turn[o].status # "unused"
    BY <2>1 DEF TypeInv, ClaimReserves
  <2>4. PICK s \in Sessions : s = turn[o].session
    BY <2>3 DEF TypeInv, Owned
  <2>5. Launch(s, t) /\ UNCHANGED session
    BY <1>2, <2>2, <2>3, <2>4 DEF AcceptClarification, AcceptContinuation
  <2>6. /\ task'[t] \in {"none", "waiting"}
        /\ \A u \in Turns : u # t => task'[u] = task[u]
    BY <2>2, <2>5 DEF Launch, Spawn, TypeInv, TypeOK, Owned
  <2>7. SeenTurns[o].session = s
    BY <2>4 DEF SeenTurns
  <2>8. CASE AcceptClarification
    <3>1. /\ question[o].status = "open"
          /\ session[s].version = question[o].version
      BY <2>2, <2>3, <2>4, <2>8 DEF AcceptClarification, ClarificationClaimable
    <3>2. session[s].status = "open"
      BY <2>3, <2>4, <3>1 DEF ClientInv, HandleInv, NothingHangs
    <3>3. turn' = [turn EXCEPT ![t] = Accepted(s, "clarification", o, 0)]
      BY <2>2, <2>3, <2>4, <2>8 DEF AcceptClarification
    <3>4. /\ turn'[t] = Accepted(s, "clarification", o, 0)
          /\ \A u \in Turns : u # t => turn'[u] = turn[u]
      BY <3>3 DEF TypeInv, TypeOK
    <3>5. /\ turn'[t].session = s /\ turn'[t].version = session[s].version
          /\ turn'[t].status = "accepted" /\ turn'[t].kind = "clarification"
          /\ turn'[t].source = o
      BY <3>4 DEF Accepted
    <3>6. StateOf(t)' = "pending"
      BY <3>5 DEF StateOf, InProgress
    <3>7. Client!Accept(s, t, "pending", o) /\ ClientInv'
      BY <2>2, <2>5, <2>6, <3>2, <3>4, <3>5, <3>6, AcceptClient
    <3>8. /\ question'[o].status = "consumed"
          /\ \A u \in Turns : u # o => question'[u] = question[u]
      <4>1. question' = [question EXCEPT ![o].status = "consumed",
                                         ![o].action = claim.action]
        BY <2>3, <2>8 DEF AcceptClarification
      <4>2. QED BY <4>1 DEF TypeInv, TypeOK, QuestionRecord
    <3>9. o \in OpenQuestions /\ OpenQuestions' = OpenQuestions \ {o}
      BY <3>1, <3>8 DEF OpenQuestions
    <3>10. Versions[s] = SeenTurns[o].version + 1
      BY <3>1 DEF Versions, SeenTurns, HandleInv, VersionsChain
    <3>11. Client!Reply(o, t)
      BY <2>5, <2>7, <3>7, <3>9, <3>10 DEF Client!Reply, Versions
    <3>12. QED BY <3>7, <3>11 DEF Follows, Client!Next
  <2>9. CASE AcceptContinuation
    <3>1. page[o].status = "open"
      BY <2>3, <2>9 DEF AcceptContinuation, ContinuationClaimable
    <3>2. session[s].status = "open"
      BY <2>3, <2>4, <3>1 DEF ClientInv, HandleInv, NothingHangs
    <3>3. PICK revision : turn' = [turn EXCEPT ![t] =
                                     Accepted(s, "continuation", o, revision)]
      BY <2>2, <2>3, <2>4, <2>9 DEF AcceptContinuation
    <3>4. /\ turn'[t] = Accepted(s, "continuation", o, revision)
          /\ \A u \in Turns : u # t => turn'[u] = turn[u]
      BY <3>3 DEF TypeInv, TypeOK
    <3>5. /\ turn'[t].session = s /\ turn'[t].version = session[s].version
          /\ turn'[t].status = "accepted" /\ turn'[t].kind = "continuation"
      BY <3>4 DEF Accepted
    <3>6. StateOf(t)' = "pending"
      BY <3>5 DEF StateOf, InProgress
    <3>7. Client!Accept(s, t, "pending", None) /\ ClientInv'
      BY <2>2, <2>5, <2>6, <3>2, <3>4, <3>5, <3>6, AcceptClient
    <3>8. UNCHANGED question
      BY <2>9 DEF AcceptContinuation
    <3>9. Client!Continue(s, t)
      BY <2>5, <3>7, <3>8 DEF Client!Continue, Versions, OpenQuestions
    <3>10. QED BY <3>7, <3>9 DEF Follows, Client!Next
  <2>10. QED BY <1>2, <2>8, <2>9
<1>3. QED BY <1>1, <1>2 DEF ResolveClaim

LEMMA NextFollows ==
    TypeInv /\ TypeInv' /\ VersionInv /\ HandleInv /\ ClientInv /\ [Next]_vars
    => Follows /\ ClientInv'
<1>1. TypeInv /\ TypeInv' /\ VersionInv /\ HandleInv /\ ClientInv /\ Next
      => Follows /\ ClientInv'
  BY HandlerFollows, ResolveClaimFollows, TaskStepFollows, OtherFollows DEF Next
<1>2. TypeInv /\ ClientInv /\ UNCHANGED vars => Follows /\ ClientInv'
  BY QuietClient DEF vars, store, process
<1>3. QED BY <1>1, <1>2

LEMMA ClientInvariant == Spec => []ClientInv
<1>1. Init => ClientInv
  BY DEF Init, NoTurnYet, ClientInv
<1>2. QED
  BY <1>1, NextFollows, TypeInvariant, VersionInvariant, HandleInvariant, PTL DEF Spec

\* To a client the service is a Dialogue: whatever tasks, locks, restarts, faults,
\* imports and expiries do, every step it can see is one the dialogue allows, and
\* every other step changes nothing it can see.
THEOREM SessionsImplementDialogue == Spec => ImplementsDialogue
<1>1. Init => Client!Init
  <2>1. Init => LiveSessions = {} /\ OpenQuestions = {}
    BY DEF Init, LiveSessions, OpenQuestions, NoQuestion
  <2>2. Init => Versions = [s \in Sessions |-> 0]
    BY DEF Init, Versions
  <2>3. Init => SeenTurns = [t \in Turns |-> [state |-> "unused", session |-> None,
                                              version |-> 0, asker |-> None]]
    BY DEF Init, NoTurnYet, SeenTurns, StateOf, InProgress, Answered
  <2>4. QED BY <2>1, <2>2, <2>3 DEF Client!Init
<1>2. TypeInv /\ TypeInv' /\ VersionInv /\ HandleInv /\ ClientInv /\ [Next]_vars
      => [Client!Next]_(Client!vars)
  BY NextFollows DEF Follows
<1>3. QED
  BY <1>1, <1>2, TypeInvariant, VersionInvariant, HandleInvariant, ClientInvariant, PTL
  DEF Spec, ImplementsDialogue, Client!Spec
=============================================================================
