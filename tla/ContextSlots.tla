---------------------------- MODULE ContextSlots ----------------------------
(***************************************************************************)
(* The confirmed context of a session: objects and filters that its turns  *)
(* settled on, kept as generations of slots (sqlite.py: context_facts,     *)
(* _restore_context_fact, _commit_context_mutations, remove_context), read *)
(* at the start of a turn, bound to the parameters of its plan after the   *)
(* planner answered (chat.py: _prepare_context_bindings) and used by the   *)
(* executor after that.                                                    *)
(*                                                                         *)
(* A turn runs under the lock of its session, one action for the code      *)
(* between two awaits: the planner's answer and the end of the execution.  *)
(* The removal of a slot, the clock and the import of a catalog do not     *)
(* take that lock.  A handle is the number of its issue; 0 is no handle of *)
(* the store.  A plan is the sequence of its context parameters with the   *)
(* handles bound to them.                                                  *)
(***************************************************************************)
EXTENDS Naturals, Sequences, FiniteSets, Functions, FiniteSetsExt

CONSTANTS
    Sessions,
    Turns,
    Keys,        \* portable slot keys
    Shapes,      \* parameter lists of plans
    Exported,    \* slots a turn may export, as sequences of contracts
    None,
    MaxHandles,  \* bound: slots issued
    MaxTime,     \* bound: the policy clock
    MaxRevision, \* bound: catalog revisions
    MaxFaults    \* bound: store errors after a turn has completed

VARIABLES
    slot,        \* context_slots, by handle
    version,     \* context_version of each session
    turn,        \* turns and what their tasks hold
    question,    \* the pending clarification of each session
    time,        \* policy clock
    revision,    \* newest catalog revision
    faults       \* store errors so far

vars == <<slot, version, turn, question, time, revision, faults>>

Cardinalities == {"one", "many"}
Lifetimes == {"session", "turn", "until"}
Parameter == [keys: SUBSET Keys, card: Cardinalities]
Contract == [key: Keys, card: Cardinalities, lifetime: Lifetimes]

ContextAssumption ==
    /\ \A shape \in Shapes : shape \in Seq(Parameter)
    /\ \A exports \in Exported : exports \in Seq(Contract)
    /\ None \notin Sessions \cup Turns
    /\ MaxHandles \in Nat /\ MaxTime \in Nat /\ MaxFaults \in Nat
    /\ MaxRevision \in Nat \ {0}

ASSUME ContextAssumption

Handles == 1 .. MaxHandles
Never == MaxTime + 1

Statuses == {"none", "active", "replaced", "expired", "invalidated"}

Slots ==
    [session: Sessions \cup {None}, key: Keys \cup {None}, card: Cardinalities,
     generation: Nat, status: Statuses, replacedBy: Handles \cup {0},
     origin: Turns \cup {None}, expires: 0 .. Never,
     closed: Nat]  \* context version at which it stopped being active

NoSlot ==
    [session |-> None, key |-> None, card |-> "one", generation |-> 0, status |-> "none",
     replacedBy |-> 0, origin |-> None, expires |-> Never, closed |-> 0]

Plans == [shape: Seq(Parameter), bind: Seq(Handles \cup {0})]
NoPlan == [shape |-> <<>>, bind |-> <<>>]

Questions ==
    [kind: {"none", "context", "meaning", "resolver"}, plan: Plans, target: Nat,
     choices: SUBSET (Handles \cup {0}), version: Nat, revision: Nat]

NoQuestion ==
    [kind |-> "none", plan |-> NoPlan, target |-> 0, choices |-> {}, version |-> 0, revision |-> 0]

TurnStates ==
    [at: {"idle", "planning", "executing", "done"}, session: Sessions \cup {None},
     version: Nat, revision: Nat, facts: SUBSET Handles,
     fixed: SUBSET (Handles \cup {0}),  \* the chosen meaning, if there is one
     plan: Plans, evidence: BOOLEAN]

NotAccepted ==
    [at |-> "idle", session |-> None, version |-> 0, revision |-> 0, facts |-> {},
     fixed |-> {}, plan |-> NoPlan, evidence |-> FALSE]

Issued == {h \in Handles : slot[h].status # "none"}

(***************************************************************************)
(* Reading the context                                                     *)
(***************************************************************************)
Close(old, status, at) == [old EXCEPT !.status = status, !.closed = at]

(* The producer's contract is looked up in the catalog of the origin turn. *)
ProducerKnown(origin) == turn[origin].revision \in 1 .. revision

BadRestorable(origin) == turn[origin].evidence /\ turn[origin].revision = revision

(* _restore_context_fact: the origin turn still has the evidence and the   *)
(* pinned catalog the slot came from.                                      *)
Restorable(origin) == turn[origin].evidence /\ ProducerKnown(origin)

(* context_facts: what is due expires, what cannot be restored is          *)
(* invalidated; context_handle_states and context_slots read through it.   *)
Refreshed(s) ==
    [h \in Handles |->
        IF slot[h].session # s \/ slot[h].status # "active" THEN slot[h]
        ELSE IF slot[h].expires <= time THEN Close(slot[h], "expired", version[s])
        ELSE IF ~Restorable(slot[h].origin) THEN Close(slot[h], "invalidated", version[s])
        ELSE slot[h]]

AnyFactsOf(slots, s) == {h \in Handles : slots[h].status = "active"}

BadFactsOf(slots, s) ==
    {h \in Handles : slots[h].session = s /\ slots[h].status \in {"active", "replaced"}}

FactsOf(slots, s) ==
    {h \in Handles : slots[h].session = s /\ slots[h].status = "active"}

(***************************************************************************)
(* Binding a plan                                                          *)
(***************************************************************************)

(* _compatible_contexts, of the context the turn read. *)
Compatible(parameter, facts) ==
    {h \in facts : slot[h].key \in parameter.keys /\ slot[h].card = parameter.card}

(* A parameter for which the plan cannot run: its handle is of another      *)
(* session, of the past or of another contract, or the user's choice is    *)
(* gone.  `slots` are the states read after the planner's answer.          *)
Refuses(slots, held, plan, pinned, i) ==
    LET h == plan.bind[i]
        fits == h \in Compatible(plan.shape[i], held.facts)
    IN  \/ h \in Issued /\ slots[h].session # held.session
        \/ h \in Issued /\ slots[h].status \in {"replaced", "expired", "invalidated"}
        \/ h \in held.facts /\ ~fits
        \/ i \in pinned /\ ~fits

BadDecides(held, plan, pinned, i) ==
    Cardinality(Compatible(plan.shape[i], held.facts)) # 1

(* A parameter the user is asked about: none or several slots fit. *)
Decides(held, plan, pinned, i) ==
    i \notin pinned /\ Cardinality(Compatible(plan.shape[i], held.facts)) # 1

(* The only slot that fits, whatever the planner named. *)
Bound(held, plan, pinned) ==
    [plan EXCEPT !.bind =
        [i \in DOMAIN @ |->
            IF i \in pinned THEN @[i]
            ELSE CHOOSE h \in Compatible(plan.shape[i], held.facts) : TRUE]]

(***************************************************************************)
(* Ends of a turn                                                          *)
(***************************************************************************)
Previous(slots, s, key) ==
    {h \in Handles : slots[h].session = s /\ slots[h].key = key /\ slots[h].status = "active"}

Generation(slots, s, key) ==
    1 + Max({0} \cup {slots[h].generation :
                         h \in {g \in Handles : slots[g].session = s /\ slots[g].key = key}})

FreshHandle(slots) == Min({h \in Handles : slots[h].status = "none"})

ExpiryOf(contract, due) ==
    CASE contract.lifetime = "session" -> Never
      [] contract.lifetime = "turn" -> time
      [] OTHER -> due

BadCommitted(slots, t, contract, due) ==
    LET s == turn[t].session
        handle == FreshHandle(slots)
        older == Previous(slots, s, contract.key)
    IN  [h \in Handles |->
            IF h = handle
            THEN [session |-> s, key |-> contract.key, card |-> contract.card,
                  generation |-> Cardinality(older) + 1,
                  status |-> IF contract.lifetime = "turn" THEN "expired" ELSE "active",
                  replacedBy |-> 0, origin |-> t, expires |-> ExpiryOf(contract, due),
                  closed |-> version[s]]
            ELSE IF h \in older
            THEN [Close(slots[h], "replaced", version[s]) EXCEPT !.replacedBy = handle]
            ELSE slots[h]]

(* _commit_context_mutations, for one exported slot: the active slot of the *)
(* key is replaced by the next generation; a slot of lifetime `turn` is     *)
(* over when it is written.                                                 *)
Committed(slots, t, contract, due) ==
    LET s == turn[t].session
        handle == FreshHandle(slots)
        older == Previous(slots, s, contract.key)
    IN  [h \in Handles |->
            IF h = handle
            THEN [session |-> s, key |-> contract.key, card |-> contract.card,
                  generation |-> Generation(slots, s, contract.key),
                  status |-> IF contract.lifetime = "turn" THEN "expired" ELSE "active",
                  replacedBy |-> 0, origin |-> t, expires |-> ExpiryOf(contract, due),
                  closed |-> version[s]]
            ELSE IF h \in older
            THEN [Close(slots[h], "replaced", version[s]) EXCEPT !.replacedBy = handle]
            ELSE slots[h]]

(* The slots after all exported ones, each committed to what the former left. *)
Commits(t, exports, due) ==
    LET after[n \in 0 .. Len(exports)] ==
            IF n = 0 THEN slot ELSE Committed(after[n - 1], t, exports[n], due)
    IN  after[Len(exports)]

(* complete_turn: the next context version; what stays of the turn is its   *)
(* evidence.                                                               *)
Finish(t, held, evidence, asked) ==
    /\ turn' = [turn EXCEPT ![t] =
                    [NotAccepted EXCEPT !.at = "done", !.session = held.session,
                                        !.revision = held.revision, !.evidence = evidence]]
    /\ version' = [version EXCEPT ![held.session] = @ + 1]
    /\ question' = [question EXCEPT ![held.session] = asked]

Ask(kind, held, plan, target, choices) ==
    [kind |-> kind, plan |-> plan, target |-> target, choices |-> choices,
     version |-> held.version + 1, revision |-> held.revision]

Fail(t, held) == Finish(t, held, FALSE, NoQuestion)

(* _prepare_context_bindings: the first parameter that is refused or has to *)
(* be decided ends the turn; otherwise the executor takes the plan over.   *)
(* Nobody can answer a question without choices.                           *)
Prepare(t, held, slots, plan, pinned) ==
    LET refused == {i \in DOMAIN plan.bind : Refuses(slots, held, plan, pinned, i)}
        open == {i \in DOMAIN plan.bind : Decides(held, plan, pinned, i)}
        first == Min(refused \cup open)
        choices == Compatible(plan.shape[first], held.facts)
    IN  IF refused \cup open = {}
        THEN /\ turn' = [turn EXCEPT ![t] =
                            [held EXCEPT !.at = "executing", !.plan = Bound(held, plan, pinned)]]
             /\ question' = [question EXCEPT ![held.session] = NoQuestion]
             /\ UNCHANGED version
        ELSE IF first \in refused THEN Fail(t, held)
        ELSE Finish(t, held, FALSE,
                    IF choices = {} THEN NoQuestion
                    ELSE Ask("context", held, plan, first, choices))

(***************************************************************************)
(* Turns                                                                   *)
(***************************************************************************)

(* The session lock is free; the turn starts on the context it was accepted *)
(* for.                                                                    *)
MayStart(s, t) ==
    /\ turn[t].at = "idle"
    /\ \A u \in Turns : turn[u].session = s => turn[u].at = "done"

Starting(s, pinnedRevision) ==
    [NotAccepted EXCEPT !.at = "planning", !.session = s, !.version = version[s],
                        !.revision = pinnedRevision, !.facts = FactsOf(Refreshed(s), s)]

(* _run up to the planner; the message supersedes an open question. *)
StartMessage(s, t) ==
    /\ MayStart(s, t)
    /\ slot' = Refreshed(s)
    /\ turn' = [turn EXCEPT ![t] = Starting(s, revision)]
    /\ question' = [question EXCEPT ![s] = NoQuestion]
    /\ UNCHANGED <<version, time, revision, faults>>

Claimable(s, kind) ==
    /\ question[s].kind = kind
    /\ question[s].version = version[s]
    /\ question[s].revision = revision

(* _apply_context_binding_choice: the chosen slot takes the place of the    *)
(* parameter's handle.                                                     *)
WithChoice(asked, h) == [asked.plan EXCEPT !.bind[asked.target] = h]

ChooseContext(s, t, h) ==
    LET asked == question[s]
        plan == WithChoice(asked, h)
    IN  /\ MayStart(s, t)
        /\ Claimable(s, "context") /\ h \in asked.choices
        /\ slot' = Refreshed(s)
        /\ Prepare(t, Starting(s, asked.revision), Refreshed(s), plan, {asked.target})
        /\ UNCHANGED <<time, revision, faults>>

(* The chosen meaning goes to the planner again. *)
ChooseMeaning(s, t, h) ==
    /\ MayStart(s, t)
    /\ Claimable(s, "meaning") /\ h \in question[s].choices
    /\ slot' = Refreshed(s)
    /\ turn' = [turn EXCEPT ![t] = [Starting(s, question[s].revision) EXCEPT !.fixed = {h}]]
    /\ question' = [question EXCEPT ![s] = NoQuestion]
    /\ UNCHANGED <<version, time, revision, faults>>

(* A resolver's question resumes the saved plan with the handles it has. *)
ChooseCandidate(s, t) ==
    /\ MayStart(s, t)
    /\ Claimable(s, "resolver")
    /\ slot' = Refreshed(s)
    /\ turn' = [turn EXCEPT ![t] =
                    [Starting(s, question[s].revision) EXCEPT
                        !.at = "executing", !.plan = question[s].plan]]
    /\ question' = [question EXCEPT ![s] = NoQuestion]
    /\ UNCHANGED <<version, time, revision, faults>>

Cancel(s, t) ==
    /\ MayStart(s, t)
    /\ question[s].kind # "none" /\ Claimable(s, question[s].kind)
    /\ Fail(t, Starting(s, question[s].revision))
    /\ UNCHANGED <<slot, time, revision, faults>>

(* _pending_from_planner_decision stores the choices as the planner names   *)
(* them: any handles, also past ones or of another session, or none of the  *)
(* store.  A choice that is no handle but a value of its own is left out:   *)
(* its answer goes on as a message does.                                   *)
MeaningChoices == SUBSET (Issued \cup {0}) \ {{}}

(* The planner asks which slot is meant, or answers without a plan; after a *)
(* chosen meaning only a plan will do.                                     *)
PlannerDecides(t) ==
    LET held == turn[t]
    IN  /\ held.at = "planning"
        /\ \/ Fail(t, held)
           \/ /\ held.fixed = {}
              /\ \E choices \in MeaningChoices :
                    Finish(t, held, FALSE, Ask("meaning", held, NoPlan, 0, choices))
        /\ UNCHANGED <<slot, time, revision, faults>>

(* _validate_interpretation_resume: a resumed plan has to use the chosen    *)
(* meaning; the parameters of required steps that do are pinned.  Which     *)
(* steps are required is left open, and so is, where 0 was chosen, which of *)
(* the handles that are none of the store it was.                          *)
ChosenTargets(held, bind) == SUBSET {i \in DOMAIN bind : bind[i] \in held.fixed}

(* The planner may name any handle it has ever seen, or none of the store.  *)
PlannerPlans(t) ==
    LET held == turn[t]
    IN  /\ held.at = "planning"
        /\ \E shape \in Shapes : \E bind \in [DOMAIN shape -> Issued \cup {0}] :
           \E chosen \in ChosenTargets(held, bind) :
              LET plan == [shape |-> shape, bind |-> bind]
              IN  /\ slot' = Refreshed(held.session)
                  /\ IF held.fixed # {} /\ chosen = {} THEN Fail(t, held)
                     ELSE Prepare(t, held, Refreshed(held.session), plan, chosen)
        /\ UNCHANGED <<time, revision, faults>>

(* _resolve_binding finds a handle among the slots read at the start.      *)
Resolved(t) == Range(turn[t].plan.bind) \cap turn[t].facts

(* The end of the execution commits the exported slots with the answer or   *)
(* with the question of a resolver.  A store error after it turns the turn  *)
(* into a failure without evidence (chat.py: _fail).                       *)
ExecutorEnds(t) ==
    LET held == turn[t]
    IN  /\ held.at = "executing"
        /\ \E exports \in Exported :
              /\ Cardinality(Issued) + Len(exports) <= MaxHandles
              /\ slot' = Commits(t, exports, time + 1)
        /\ \/ /\ \E asked \in {NoQuestion, Ask("resolver", held, held.plan, 0, {})} :
                    Finish(t, held, TRUE, asked)
              /\ UNCHANGED faults
           \/ /\ faults < MaxFaults
              /\ faults' = faults + 1
              /\ turn' = [turn EXCEPT ![t] =
                    [NotAccepted EXCEPT !.at = "done", !.session = held.session,
                                        !.revision = held.revision]]
              /\ version' = [version EXCEPT ![held.session] = @ + 2]
              /\ UNCHANGED question
        /\ UNCHANGED <<time, revision>>

TurnFails(t) ==
    /\ turn[t].at = "executing"
    /\ Fail(t, turn[t])
    /\ UNCHANGED <<slot, time, revision, faults>>

(***************************************************************************)
(* What does not take the lock                                             *)
(***************************************************************************)
BadRemoveContext(s, h) ==
    /\ slot[h].session = s /\ slot[h].status = "active"
    /\ slot' = [slot EXCEPT ![h] = Close(@, "invalidated", version[s])]
    /\ UNCHANGED <<version, turn, question, time, revision, faults>>

(* remove_context: the row is active, due or not. *)
RemoveContext(s, h) ==
    /\ slot[h].session = s /\ slot[h].status = "active"
    /\ slot' = [slot EXCEPT ![h] = Close(@, "invalidated", version[s])]
    /\ version' = [version EXCEPT ![s] = @ + 1]
    /\ UNCHANGED <<turn, question, time, revision, faults>>

(* GET of a session reads its context. *)
ShowContext(s) ==
    /\ slot' = Refreshed(s)
    /\ UNCHANGED <<version, turn, question, time, revision, faults>>

Tick ==
    /\ time < MaxTime
    /\ time' = time + 1
    /\ UNCHANGED <<slot, version, turn, question, revision, faults>>

ImportCatalog ==
    /\ revision < MaxRevision
    /\ revision' = revision + 1
    /\ UNCHANGED <<slot, version, turn, question, time, faults>>

(***************************************************************************)
(* The specification                                                       *)
(***************************************************************************)
Init ==
    /\ slot = [h \in Handles |-> NoSlot]
    /\ version = [s \in Sessions |-> 1]
    /\ turn = [t \in Turns |-> NotAccepted]
    /\ question = [s \in Sessions |-> NoQuestion]
    /\ time = 0
    /\ revision = 1
    /\ faults = 0

StartTurn(s, t) ==
    \/ StartMessage(s, t)
    \/ Cancel(s, t)
    \/ ChooseCandidate(s, t)
    \/ \E h \in Handles : ChooseContext(s, t, h)
    \/ \E h \in Handles \cup {0} : ChooseMeaning(s, t, h)

Next ==
    \/ \E s \in Sessions, t \in Turns : StartTurn(s, t)
    \/ \E t \in Turns : PlannerDecides(t) \/ PlannerPlans(t) \/ ExecutorEnds(t) \/ TurnFails(t)
    \/ \E s \in Sessions, h \in Handles : RemoveContext(s, h)
    \/ \E s \in Sessions : ShowContext(s)
    \/ Tick
    \/ ImportCatalog

Spec == Init /\ [][Next]_vars

(***************************************************************************)
(* Properties                                                              *)
(***************************************************************************)

(* The variables have their types; a turn that waits holds what it read of  *)
(* its own session.                                                        *)
TypeOK ==
    /\ slot \in [Handles -> Slots]
    /\ version \in [Sessions -> Nat]
    /\ turn \in [Turns -> TurnStates]
    /\ question \in [Sessions -> Questions]
    /\ time \in 0 .. MaxTime /\ revision \in 1 .. MaxRevision /\ faults \in 0 .. MaxFaults
    /\ \A t \in Turns : \A h \in turn[t].facts : slot[h].session = turn[t].session

(* The generations of a slot key are distinct, the active one is the newest *)
(* and a replaced one names the next (the unique indexes of context_slots   *)
(* refuse what breaks this, and with it the whole turn).                   *)
GenerationsChain ==
    \A g, h \in Issued :
        slot[g].session = slot[h].session /\ slot[g].key = slot[h].key =>
            /\ slot[g].generation = slot[h].generation => g = h
            /\ slot[g].status = "active" => slot[h].generation <= slot[g].generation
            /\ slot[g].replacedBy = h => slot[h].generation = slot[g].generation + 1

(* What the executor binds was active when the turn started: removal,       *)
(* replacement and expiry of earlier turns reach every later one, though    *)
(* context, handle states and choices are read at different times.         *)
UsedWasActive ==
    \A t \in Turns : turn[t].at = "executing" =>
        \A h \in Resolved(t) :
            slot[h].status = "active" \/ slot[h].closed >= turn[t].version

(* While the question which slot a parameter takes can be answered, its     *)
(* choices are slots of its session and stand, unless their time has come   *)
(* or their origin has lost its evidence: whatever takes a slot away also   *)
(* closes the question.  Of the choices the planner named for a meaning     *)
(* this does not hold; such a choice is refused only when it is bound.     *)
ClaimableChoicesStand ==
    \A s \in Sessions : question[s].kind = "context" /\ question[s].version = version[s] =>
        \A h \in question[s].choices :
            /\ slot[h].session = s
            /\ \/ slot[h].status \in {"active", "expired"}
               \/ ~turn[slot[h].origin].evidence

(* A slot stops being active because its key got a newer one in the same    *)
(* transaction, the user removed it, its time came or its origin lost its   *)
(* evidence; no catalog import and no turn about other keys ends it, and    *)
(* nothing brings it back.                                                 *)
SlotEndsForCause ==
    [][\A h \in Issued :
          IF slot[h].status # "active" THEN slot'[h] = slot[h]
          ELSE \/ slot'[h] = slot[h]
               \/ /\ slot'[h].status = "replaced"
                  /\ LET next == slot'[slot'[h].replacedBy]
                     IN  next.key = slot[h].key /\ next.session = slot[h].session
               \/ slot'[h].status = "invalidated" /\ turn' = turn /\ version' # version
               \/ slot'[h].status = "expired" /\ slot[h].expires <= time
               \/ slot'[h].status = "invalidated" /\ ~turn[slot[h].origin].evidence]_vars

(* The answer about one parameter is not met by the question about it again *)
(* (the chosen parameter is pinned while the others are decided).          *)
AnswerMovesOn ==
    [][\A s \in Sessions :
          question[s].kind = "context" /\ question'[s].kind = "context"
              /\ question'[s] # question[s]
          => question'[s].target # question[s].target]_vars
=============================================================================
