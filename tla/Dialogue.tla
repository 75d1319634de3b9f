------------------------------ MODULE Dialogue ------------------------------
(* What a client of ChatBot 1C relies on: a session is a dialogue with a     *)
(* version.  A turn reads the version it is accepted on; whatever ends a     *)
(* turn moves the version; an answer needs that no other turn answered since *)
(* the version it read; a question can be replied to once, by the next thing *)
(* that happens.  Locks, tasks, the catalog, markers, expiry, restarts and   *)
(* half-done requests are the business of the service and do not show.       *)
EXTENDS Naturals

CONSTANTS
    Sessions,
    Turns,
    None        \* no turn, no session

VARIABLES
    live,       \* sessions that exist
    version,    \* context version of each session, 0 for one that never existed
    turn,       \* what is known of each turn
    open        \* turns whose question waits for its reply

vars == <<live, version, turn, open>>

OfSession(s) == {t \in Turns : turn[t].session = s}

Init ==
    /\ live = {}
    /\ version = [s \in Sessions |-> 0]
    /\ turn = [t \in Turns |-> [state |-> "unused", session |-> None, version |-> 0,
                                asker |-> None]]
    /\ open = {}

Create(s) ==
    /\ s \notin live /\ version[s] = 0
    /\ live' = live \cup {s}
    /\ version' = [version EXCEPT ![s] = 1]
    /\ UNCHANGED <<turn, open>>

\* The turns of the session go with it, questions and turns in progress too.
Delete(s) ==
    /\ s \in live
    /\ live' = live \ {s}
    /\ turn' = [t \in Turns |-> IF t \in OfSession(s)
                                THEN [turn[t] EXCEPT !.state = "deleted"]
                                ELSE turn[t]]
    /\ open' = open \ OfSession(s)
    /\ UNCHANGED version

\* Turn t of session s is accepted, on the present version.
Accept(s, t, state, asker) ==
    /\ s \in live /\ turn[t].state = "unused"
    /\ turn' = [turn EXCEPT ![t] = [state |-> state, session |-> s, version |-> version[s],
                                    asker |-> asker]]
    /\ UNCHANGED live

\* A message, which leaves nothing to reply to.
Send(s, t) ==
    /\ Accept(s, t, "pending", None)
    /\ open' = open \ OfSession(s)
    /\ UNCHANGED version

\* The reply to the question of turn o: nothing has ended since it was asked.
Reply(o, t) ==
    /\ o \in open
    /\ version[turn[o].session] = turn[o].version + 1
    /\ Accept(turn[o].session, t, "pending", o)
    /\ open' = open \ {o}
    /\ UNCHANGED version

\* The next page of a list.
Continue(s, t) ==
    /\ Accept(s, t, "pending", None)
    /\ UNCHANGED <<version, open>>

\* A part of the context is removed; its turn is over at once.
Remove(s, t) ==
    /\ Accept(s, t, "removed", None)
    /\ version' = [version EXCEPT ![s] = @ + 1]
    /\ UNCHANGED open

End(t, state) ==
    /\ turn' = [turn EXCEPT ![t].state = state]
    /\ version' = [version EXCEPT ![turn[t].session] = @ + 1]
    /\ UNCHANGED live

\* No answer was computed on a version this turn has not seen.
UpToDate(t) ==
    \A u \in OfSession(turn[t].session) :
        turn[u].state = "answered" => turn[u].version < turn[t].version

\* The turn answers, and may leave the one open question of its session.
Answer(t) ==
    /\ turn[t].state = "pending"
    /\ UpToDate(t)
    /\ End(t, "answered")
    /\ open' \in {open, (open \ OfSession(turn[t].session)) \cup {t}}

\* A turn fails; the store may also refuse the record of an answer, which makes
\* it a failure.
Fail(t) ==
    /\ turn[t].state \in {"pending", "answered"}
    /\ End(t, "failed")
    /\ UNCHANGED open

Next ==
    \/ \E s \in Sessions : Create(s) \/ Delete(s)
    \/ \E s \in Sessions, t \in Turns : Send(s, t) \/ Continue(s, t) \/ Remove(s, t)
    \/ \E o, t \in Turns : Reply(o, t)
    \/ \E t \in Turns : Answer(t) \/ Fail(t)

Spec == Init /\ [][Next]_vars
=============================================================================
