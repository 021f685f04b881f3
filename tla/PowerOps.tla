------------------------------ MODULE PowerOps ------------------------------
(***************************************************************************)
(* Power operations from the chat (src/bot/routers/servers.py): each tap   *)
(* runs a handler of its own, which takes the server's cooldown, calls the *)
(* provider, shows the outcome and returns to the control screen.  The     *)
(* provider's client repeats a request whose answer did not come           *)
(* (src/providers/mixins/retry.py); the AWS client tries EC2 first and     *)
(* Lightsail next (src/providers/aws.py).  The handler gives the cooldown  *)
(* back when the operation fails, and whenever one of its later steps      *)
(* raises.                                                                 *)
(***************************************************************************)
EXTENDS Integers, Sequences, FiniteSets

CONSTANTS
    Handlers,   \* the taps that may be under way at a time
    Servers,
    Backends,   \* the services a provider tries for a server, in order:
                \* whether each of them has it
    MaxAttempts \* RetryConfig(max_retries=5) of the power operations

ASSUME BackendAssumption ==
    \A s \in Servers : Backends[s] \in Seq(BOOLEAN) /\ Backends[s] # <<>>
ASSUME AttemptAssumption == MaxAttempts \in Nat \ {0}

NoOne == "no one"
ASSUME NoOneAssumption == NoOne \notin Handlers

VARIABLES
    op,    \* what each handler is at, and the last it did
    stamp, \* _operation_cooldowns: whose start the entry of a server is, with
           \* an entry that has run out, like a missing one, no one's
    young, \* the handlers that started less than OPERATION_COOLDOWN ago
    wiped  \* history: those of them whose stamp was removed by another one,
           \* or after their own success

powerVars == <<op, stamp, young, wiped>>

Pcs == {"idle", "answering", "calling", "telling", "returning", "erring"}
Verdicts == {"none", "success", "failure"}

\* applied: history, the provider has done what was asked.
Ops == [pc: Pcs, server: Servers, backend: Nat, try: 0..MaxAttempts - 1,
        applied: BOOLEAN, verdict: Verdicts]

NewOp(s) == [pc |-> "answering", server |-> s, backend |-> 1, try |-> 0,
             applied |-> FALSE, verdict |-> "none"]

\* The handler is over: only what came of it is kept, as history.
Over(x) == [NewOp(x.server) EXCEPT !.pc = "idle", !.verdict = x.verdict]

YoungOnes == {young[i] : i \in DOMAIN young}

PowerInit ==
    /\ op \in {[h \in Handlers |-> [NewOp(s) EXCEPT !.pc = "idle"]] : s \in Servers}
    /\ stamp = [s \in Servers |-> NoOne]
    /\ young = <<>>
    /\ wiped = {}

-----------------------------------------------------------------------------
(* The cooldown. *)

\* Mutant of MayStart: it is asked whether an operation is being performed.
MayStartBetween(s) == \A h \in Handlers : op[h].server = s => op[h].pc # "calling"

\* try_acquire_cooldown.
MayStart(s) == stamp[s] = NoOne

\* clear_operation_cooldown, called by h: it does not look whose stamp it is.
Clear(h) ==
    LET s == op[h].server
    IN  /\ stamp' = [stamp EXCEPT ![s] = NoOne]
        /\ wiped' = IF stamp[s] # NoOne /\ (stamp[s] # h \/ op[h].verdict = "success")
                    THEN wiped \union {stamp[s]} ELSE wiped

\* OPERATION_COOLDOWN has passed since the oldest start.
Elapse ==
    /\ young # <<>>
    /\ LET h == Head(young)
       IN  /\ stamp' = [s \in Servers |-> IF stamp[s] = h THEN NoOne ELSE stamp[s]]
           /\ wiped' = wiped \ {h}
    /\ young' = Tail(young)
    /\ UNCHANGED op

\* callback_server_start, or callback_server_confirm: a tap that gets through.
\* One that comes too early, or whose provider is not configured, changes nothing.
Tap(h, s) ==
    /\ op[h].pc = "idle"
    /\ h \notin YoungOnes
    /\ MayStart(s)
    /\ stamp' = [stamp EXCEPT ![s] = h]
    /\ young' = Append(young, h)
    /\ op' = [op EXCEPT ![h] = NewOp(s)]
    /\ UNCHANGED wiped

-----------------------------------------------------------------------------
(* _execute_power_action. *)

\* The tap is answered; when Telegram fails here, the handler is over.
AnswerTap(h, ok) ==
    /\ op[h].pc = "answering"
    /\ op' = [op EXCEPT ![h].pc = IF ok THEN "calling" ELSE "idle"]
    /\ UNCHANGED <<stamp, young, wiped>>

Answers == {"done", "lost", "broken"}

\* What may come of one request to a backend that has the server, and to one
\* that does not.  Without a good answer the request is sent again ("lost": too
\* many requests, a server error, a network error) or not ("broken": refused,
\* or, with AWS, timed out), and what was done stays open.
RequestOutcomes(has) ==
    [applied: {FALSE}, answer: Answers \ {"done"}]
        \union IF has THEN [applied: {TRUE}, answer: Answers] ELSE {}

\* _should_retry.
IsRepeated(o) == o.answer = "lost"

\* The request is not repeated.
GivesUp(o, try) == ~IsRepeated(o) \/ try = MaxAttempts - 1

\* One request, and what the provider's client makes of its outcome.
Attempt(h, o) ==
    LET x == op[h]
        y == [x EXCEPT !.applied = @ \/ o.applied]
    IN  /\ x.pc = "calling"
        /\ o \in RequestOutcomes(Backends[x.server][x.backend])
        /\ \/ /\ o.answer = "done"
              /\ op' = [op EXCEPT ![h] = [y EXCEPT !.pc = "telling", !.verdict = "success"]]
              /\ UNCHANGED <<stamp, wiped>>
           \/ /\ o.answer # "done" /\ ~GivesUp(o, x.try)
              /\ op' = [op EXCEPT ![h] = [y EXCEPT !.try = @ + 1]]
              /\ UNCHANGED <<stamp, wiped>>
           \/ /\ o.answer # "done" /\ GivesUp(o, x.try)
              /\ x.backend < Len(Backends[x.server])
              /\ op' = [op EXCEPT ![h] = [y EXCEPT !.try = 0, !.backend = @ + 1]]
              /\ UNCHANGED <<stamp, wiped>>
           \/ /\ o.answer # "done" /\ GivesUp(o, x.try)
              /\ x.backend = Len(Backends[x.server])
              /\ op' = [op EXCEPT ![h] = [y EXCEPT !.pc = "telling", !.verdict = "failure"]]
              /\ Clear(h)
        /\ UNCHANGED young

\* The outcome is shown.
Tell(h, ok) ==
    /\ op[h].pc = "telling"
    /\ \/ /\ ok
          /\ op' = [op EXCEPT ![h].pc = "returning"]
          /\ UNCHANGED <<stamp, wiped>>
       \/ /\ ~ok
          /\ op' = [op EXCEPT ![h].pc = "erring"]
          /\ Clear(h)
    /\ UNCHANGED young

\* The control screen comes back, with what get_server says.
Return(h, ok) ==
    /\ op[h].pc = "returning"
    /\ \/ /\ ok
          /\ op' = [op EXCEPT ![h] = Over(@)]
          /\ UNCHANGED <<stamp, wiped>>
       \/ /\ ~ok
          /\ op' = [op EXCEPT ![h].pc = "erring"]
          /\ Clear(h)
    /\ UNCHANGED young

\* The except clause shows a failure, whatever the provider has done.
Err(h) ==
    /\ op[h].pc = "erring"
    /\ op' = [op EXCEPT ![h] = Over(@)]
    /\ UNCHANGED <<stamp, young, wiped>>

PowerNext ==
    \/ Elapse
    \/ \E h \in Handlers :
          \/ \E s \in Servers : Tap(h, s)
          \/ \E ok \in BOOLEAN : AnswerTap(h, ok) \/ Tell(h, ok) \/ Return(h, ok)
          \/ Err(h)
          \/ \E o \in [applied: BOOLEAN, answer: Answers] : Attempt(h, o)

PowerSpec == PowerInit /\ [][PowerNext]_powerVars

-----------------------------------------------------------------------------
(* Properties. *)

\* Every variable has its type; no handler is young twice.
PowerTypeOK ==
    /\ op \in [Handlers -> Ops]
    /\ \A h \in Handlers : op[h].backend \in DOMAIN Backends[op[h].server]
    /\ stamp \in [Servers -> Handlers \union {NoOne}]
    /\ young \in Seq(Handlers)
    /\ \A i, j \in DOMAIN young : young[i] = young[j] => i = j
    /\ wiped \in SUBSET YoungOnes

(***************************************************************************)
(* A second operation on a server within OPERATION_COOLDOWN of another     *)
(* one's start has one of three reasons: the first one failed, it raised   *)
(* after its success, or an older one cleared its stamp.  The cooldown     *)
(* "prevents the TOCTOU race", two taps that both get through; what it     *)
(* does not prevent is the last two of these.                              *)
(***************************************************************************)
SecondTapWaits ==
    \A i, j \in DOMAIN young :
        i < j /\ op[young[i]].server = op[young[j]].server
            => young[i] \in wiped \/ op[young[i]].verdict = "failure"
=============================================================================
