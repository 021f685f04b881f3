------------------------------ MODULE Balance ------------------------------
(***************************************************************************)
(* The low-balance alerts: the checker of the prepaid accounts             *)
(* (src/background_tasks/balance_checker.py), what it asks of a provider   *)
(* and of the history of the balances, the settings it reads               *)
(* (src/storage/runtime_settings.py) and the screens that change them and  *)
(* re-arm the alerts (src/bot/routers/settings.py).                        *)
(*                                                                         *)
(* Time is counted in checks: the task sleeps check_interval before each.  *)
(***************************************************************************)
EXTENDS Integers, FiniteSetsExt

CONSTANTS
    Aliases,    \* the accounts with a prepaid balance
    Accounts,   \* what an account may show: its credit and pending charges
    Admins,     \* admin_ids
    Screens,    \* the handlers that change a setting and may run at a time
    Defaults,   \* what BALANCE_THRESHOLD may be set to
    Amounts,    \* what an admin may choose as threshold, in cents
    Cooldown,   \* LOW_BALANCE_ALERT_COOLDOWN_SECONDS, in checks
    MaxRestarts \* bound of the model

ASSUME AmountsAssumption == Amounts \union Defaults \subseteq Nat
ASSUME CooldownAssumption == Cooldown \in Nat \ {0}
ASSUME BoundAssumption == MaxRestarts \in Nat

VARIABLES
    account,  \* what the provider would answer now
    default,  \* _default_threshold
    settings, \* _settings
    file,     \* runtime_settings.json
    job,      \* what each of these handlers is about
    form,     \* the FSM waits for a custom threshold
    quiet,    \* _last_low_balance_alert_at: checks until an alert may follow
    check,    \* the cycle of the checker
    restarts, \* how often the bot was restarted
    told,     \* history: checks until the admins may hear of it again
    kept      \* history: what was in force when a change was last saved

settingVars == <<default, settings, file, job, form, kept>>
checkerVars == <<quiet, check, told>>
vars == <<account, settingVars, checkerVars, restarts>>

Unset == -1
Thresholds == {IF v > 1 THEN v ELSE 1 : v \in Amounts \union Defaults}
Switches == {"unset", "on", "off"}
Settings == [threshold: Thresholds \union {Unset}, alerts: Switches]
NoSettings == [threshold |-> Unset, alerts |-> "unset"]

Idle == [pc |-> "idle"]
Jobs == {Idle} \union [pc: {"waiting", "persisting", "answering"},
                       op: {"on", "off", "amount", "typed"}, amount: Amounts \union {Unset},
                       snapshot: Settings]

Asleep == [pc |-> "asleep"]
Values == {Max({0, a.credit}) - a.pending : a \in Accounts}
Checking(threshold, alerts, todo) ==
    [pc |-> "checking", threshold |-> threshold, alerts |-> alerts, todo |-> todo]
Checks ==
    {Asleep} \union
    {Checking(v, on, todo) : v \in Thresholds, on \in BOOLEAN, todo \in SUBSET Aliases} \union
    [pc: {"saving", "sending"}, threshold: Thresholds, alerts: BOOLEAN,
     todo: SUBSET Aliases, alias: Aliases, value: Values]

-----------------------------------------------------------------------------
(* The settings. *)

\* Mutant of Sanitized: there is no least threshold.
SanitizedNot(v) == v

\* _sanitize_threshold: nothing below one cent.
Sanitized(v) == IF v > 1 THEN v ELSE 1

\* get_balance_threshold, are_balance_alerts_enabled.
Threshold(s) == IF s.threshold = Unset THEN default ELSE s.threshold
AreAlertsOn(s) == s.alerts # "off"

\* set_balance_alerts_enabled: with the threshold that applies.
Switched(s, alerts) == [threshold |-> Threshold(s), alerts |-> alerts]

\* set_balance_threshold: the alerts go on.
WithThreshold(v) == [threshold |-> Sanitized(v), alerts |-> "on"]

\* A settings handler hands its change to a thread.
Submit(h, op, amount) ==
    /\ job[h] = Idle
    /\ job' = [job EXCEPT ![h] = [pc |-> "waiting", op |-> op, amount |-> amount,
                                 snapshot |-> NoSettings]]
    /\ UNCHANGED <<default, settings, file, kept>>

\* callback_toggle_balance_alerts, callback_set_threshold_preset.
TapToggle(h, op) == Submit(h, op, Unset) /\ UNCHANGED form
TapPreset(h, v) == Submit(h, "amount", v) /\ UNCHANGED form

\* callback_custom_threshold, and the ways out: callback_open_balance, a menu
\* button.
SetForm ==
    /\ form' = ~form
    /\ UNCHANGED <<default, settings, file, job, kept>>

\* on_custom_threshold_input: an amount that is no positive number asks again.
TypeAmount(h, v) == form /\ Submit(h, "typed", v) /\ UNCHANGED form

\* Mutant of IsWritable: there is no _write_lock.
IsWritableAlways == TRUE

\* _write_lock is free: it is held from the change in memory to the end of its
\* write.
IsWritable == \A h \in Screens : job[h].pc # "persisting"

\* The change in memory, under both locks.
Update(h) ==
    LET new == IF job[h].op \in {"on", "off"} THEN Switched(settings, job[h].op)
               ELSE WithThreshold(job[h].amount)
    IN  /\ job[h].pc = "waiting"
        /\ IsWritable
        /\ settings' = new
        /\ job' = [job EXCEPT ![h] = [pc |-> "persisting", op |-> job[h].op, amount |-> Unset,
                                     snapshot |-> new]]
        /\ UNCHANGED <<default, file, form, kept>>

\* _persist: the change stays in memory when the write fails.
Persist(h, ok) ==
    /\ job[h].pc = "persisting"
    /\ file' = IF ok THEN job[h].snapshot ELSE file
    /\ kept' = IF ok THEN [threshold |-> Threshold(settings), alerts |-> settings.alerts]
               ELSE kept
    /\ job' = [job EXCEPT ![h] = [pc |-> "answering", op |-> job[h].op, amount |-> Unset,
                                 snapshot |-> NoSettings]]
    /\ UNCHANGED <<default, settings, form>>

\* The loop again: reset_low_balance_cooldown unless the alerts went off, the
\* end of the custom threshold, and a screen that shows the threshold as it is
\* in memory by now.
Answer(h) ==
    /\ job[h].pc = "answering"
    /\ LET Rearmed(f) == IF job[h].op = "off" THEN f ELSE [a \in Aliases |-> 0]
       IN  quiet' = Rearmed(quiet) /\ told' = Rearmed(told)
    /\ form' = (form /\ job[h].op # "typed")
    /\ job' = [job EXCEPT ![h] = Idle]
    /\ UNCHANGED <<default, settings, file, kept>>

-----------------------------------------------------------------------------
(* The checker. *)

\* Mutant of RealBalance: the sign is turned, and that is all.
RealBalanceRaw(a) == account[a].credit

\* Vultr.get_balance: a debt counts as nothing left.
RealBalance(a) == Max({0, account[a].credit})

Effective(a) == RealBalance(a) - account[a].pending

\* PrepaidBalanceRecord can be constructed: ge=0, and validate_semantic.
IsRecord(a) ==
    /\ RealBalance(a) >= 0
    /\ RealBalance(a) > 0 => account[a].pending <= 2 * RealBalance(a)

Init ==
    /\ account \in [Aliases -> Accounts]
    /\ default \in {Sanitized(v) : v \in Defaults}
    /\ settings = NoSettings
    /\ file = NoSettings
    /\ job = [h \in Screens |-> Idle]
    /\ form = FALSE
    /\ quiet = [a \in Aliases |-> 0]
    /\ check = Asleep
    /\ restarts = 0
    /\ told = [a \in Aliases |-> 0]
    /\ kept = NoSettings

Later(f) == [a \in Aliases |-> Max({0, f[a] - 1})]

\* The sleep is over; both settings are sampled once.
Wake ==
    /\ check = Asleep
    /\ quiet' = Later(quiet)
    /\ told' = Later(told)
    /\ check' = Checking(Threshold(settings), AreAlertsOn(settings), Aliases)

GoOn(todo) == check' = Checking(check.threshold, check.alerts, todo)

\* provider.get_balance() and the record made of the answer.
Fetch(a, ok) ==
    /\ check.pc = "checking" /\ a \in check.todo
    /\ ok => IsRecord(a)
    /\ IF ok
       THEN check' = [pc |-> "saving", threshold |-> check.threshold, alerts |-> check.alerts,
                      todo |-> check.todo \ {a}, alias |-> a, value |-> Effective(a)]
       ELSE GoOn(check.todo \ {a})
    /\ UNCHANGED <<quiet, told>>

\* Mutant of IsDue: the switch alone decides.
IsDueAlways == check.alerts

\* The alerts are on and the anti-flap window is over.
IsDue == check.alerts /\ quiet[check.alias] = 0

\* add_record and what is decided of the record; without a history there is
\* no alert.
Save(ok) ==
    LET low == check.value < check.threshold
        Recovered(f) == IF ok /\ ~low THEN [f EXCEPT ![check.alias] = 0] ELSE f
    IN  /\ check.pc = "saving"
        /\ IF ok /\ low /\ IsDue THEN check' = [check EXCEPT !.pc = "sending"]
           ELSE GoOn(check.todo)
        /\ quiet' = Recovered(quiet)
        /\ told' = Recovered(told)

Outcomes == {"sent", "sent after a retry", "rate limited", "failed"}

\* _broadcast_to_admins: one of them got it.
IsDelivered(outcome) ==
    \E admin \in Admins : outcome[admin] \in {"sent", "sent after a retry"}

\* _maybe_alert_low_balance: the clock advances on confirmed delivery.
Quiet(outcome) ==
    IF IsDelivered(outcome) THEN [quiet EXCEPT ![check.alias] = Cooldown] ELSE quiet

\* The forecast, for which the history is read, and the broadcast.
Send(outcome) ==
    /\ check.pc = "sending"
    /\ quiet' = Quiet(outcome)
    /\ told' = IF IsDelivered(outcome) THEN [told EXCEPT ![check.alias] = Cooldown] ELSE told
    /\ GoOn(check.todo)

\* The end of the cycle: cleanup_old_data, and back to sleep.
Rest ==
    /\ check.pc = "checking" /\ check.todo = {}
    /\ check' = Asleep
    /\ UNCHANGED <<quiet, told>>

-----------------------------------------------------------------------------

\* Money comes and goes.
Spend(a, new) ==
    /\ account' = [account EXCEPT ![a] = new]
    /\ UNCHANGED <<settingVars, checkerVars, restarts>>

\* init_runtime_settings: a file that cannot be read or parsed counts as none.
Restart(readable, new) ==
    /\ restarts < MaxRestarts
    /\ restarts' = restarts + 1
    /\ default' = Sanitized(new)
    /\ settings' = IF readable THEN file ELSE NoSettings
    /\ job' = [h \in Screens |-> Idle]
    /\ form' = FALSE
    /\ quiet' = [a \in Aliases |-> 0]
    /\ told' = [a \in Aliases |-> 0]
    /\ check' = Asleep
    /\ UNCHANGED <<account, file, kept>>

Screen(h) ==
    \/ \E op \in {"on", "off"} : TapToggle(h, op)
    \/ \E v \in Amounts : TapPreset(h, v) \/ TypeAmount(h, v)
    \/ Update(h)
    \/ \E ok \in BOOLEAN : Persist(h, ok)

Checker ==
    \/ Wake
    \/ \E a \in Aliases, ok \in BOOLEAN : Fetch(a, ok)
    \/ \E ok \in BOOLEAN : Save(ok)
    \/ \E outcome \in [Admins -> Outcomes] : Send(outcome)
    \/ Rest

Next ==
    \/ SetForm /\ UNCHANGED <<account, checkerVars, restarts>>
    \/ \E h \in Screens :
          \/ Screen(h) /\ UNCHANGED <<account, checkerVars, restarts>>
          \/ Answer(h) /\ UNCHANGED <<account, check, restarts>>
    \/ Checker /\ UNCHANGED <<account, settingVars, restarts>>
    \/ \E a \in Aliases, new \in Accounts : Spend(a, new)
    \/ \E readable \in BOOLEAN, new \in Defaults : Restart(readable, new)

Spec == Init /\ [][Next]_vars

Told(a) ==
    /\ check.pc = "sending" /\ check.alias = a
    /\ \E outcome \in [Admins -> Outcomes] : IsDelivered(outcome) /\ Send(outcome)
    /\ UNCHANGED <<account, settingVars, restarts>>

(***************************************************************************)
(* The event loop keeps running the checker; a provider that answers, a    *)
(* history that can be written and an admin who can be reached come again. *)
(***************************************************************************)
Fairness ==
    /\ WF_vars(Checker /\ UNCHANGED <<account, settingVars, restarts>>)
    /\ \A a \in Aliases :
          /\ SF_vars(Fetch(a, TRUE) /\ UNCHANGED <<account, settingVars, restarts>>)
          /\ SF_vars(check.pc = "saving" /\ check.alias = a /\ Save(TRUE)
                        /\ UNCHANGED <<account, settingVars, restarts>>)
          /\ SF_vars(Told(a))

FairSpec == Spec /\ Fairness

-----------------------------------------------------------------------------
(* Properties. *)

\* Every variable has its type.
TypeOK ==
    /\ account \in [Aliases -> Accounts]
    /\ default \in Thresholds
    /\ settings \in Settings
    /\ file \in Settings
    /\ job \in [Screens -> Jobs]
    /\ form \in BOOLEAN
    /\ quiet \in [Aliases -> 0..Cooldown]
    /\ check \in Checks
    /\ restarts \in 0..MaxRestarts
    /\ told \in [Aliases -> 0..Cooldown]
    /\ kept \in Settings

(***************************************************************************)
(* "Once any setting is changed in-bot the file fully owns the contract    *)
(* and a later env/YAML change cannot silently move the threshold": the    *)
(* next start finds what was in force when a change was last saved, with   *)
(* whatever default it comes, also after changes by several handlers at a  *)
(* time, the writes of some of which failed.                               *)
(***************************************************************************)
FileOwnsSettings ==
    kept # NoSettings =>
        Threshold(file) = kept.threshold /\ AreAlertsOn(file) = AreAlertsOn(kept)

(***************************************************************************)
(* At most one alert of an account per Cooldown, unless an admin re-armed  *)
(* the alerts, the balance was seen recovered, or the bot restarted.       *)
(***************************************************************************)
NoNagging == [][\A a \in Aliases : told'[a] > told[a] => told[a] = 0]_vars

\* What is left is below the threshold; no more is charged than twice the
\* credit, which validate_semantic takes for an error in the data.
IsLow(a) ==
    LET credit == account[a].credit
        pending == account[a].pending
    IN  /\ AreAlertsOn(settings)
        /\ credit - pending < Threshold(settings)
        /\ credit > 0 => pending <= 2 * credit

(***************************************************************************)
(* A balance that stays low is told, again after each Cooldown and again   *)
(* after the alerts were re-armed, even while an alert was being sent; if  *)
(* its charges are plausible and nobody changes the settings meanwhile.    *)
(***************************************************************************)
LowIsTold ==
    \A a \in Aliases :
        IsLow(a) /\ told[a] = 0 ~> told[a] > 0 \/ ~IsLow(a) \/ \E h \in Screens : job[h] # Idle
=============================================================================
