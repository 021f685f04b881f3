----------------------------- MODULE BotProofs ------------------------------
(***************************************************************************)
(* Proofs about what the bot's handlers share with other coroutines: the   *)
(* runtime settings and the balance checker's alerts (Balance), and the    *)
(* cooldowns of the power operations (PowerOps).                           *)
(***************************************************************************)
EXTENDS Balance, PowerOps, SequenceTheorems, TLAPS

(***************************************************************************)
(* Proofs about Balance, for any accounts, admins, amounts and cooldown:   *)
(* the type invariant, that the file keeps what was in force when a change *)
(* was saved, with any number of handlers that change settings at a time,  *)
(* and that the admins hear of an account once per cooldown.               *)
(***************************************************************************)

\* The alerts the admins got are those whose cooldown the checker counts, and
\* it is over when an alert is on its way.
CooldownIsCounted ==
    /\ quiet = told
    /\ check.pc = "sending" => quiet[check.alias] = 0

\* A handler that writes has the lock, and writes what is in memory; a
\* threshold that is to be set was chosen.
JobsAreCurrent ==
    /\ \A h \in Screens : job[h].pc = "persisting" =>
          /\ job[h].snapshot = settings
          /\ settings.threshold # Unset
          /\ \A g \in Screens : job[g].pc = "persisting" => g = h
    /\ \A h \in Screens : job[h].pc = "waiting" /\ job[h].op \in {"amount", "typed"} =>
          job[h].amount \in Amounts

\* What was in force when a change was saved is in the file, threshold and all.
FileHasKept ==
    kept # NoSettings =>
        /\ file.threshold = kept.threshold /\ file.threshold # Unset
        /\ AreAlertsOn(file) = AreAlertsOn(kept)

BalanceInv == TypeOK /\ CooldownIsCounted /\ JobsAreCurrent /\ FileHasKept

-----------------------------------------------------------------------------

LEMMA AboveZero ==
    ASSUME NEW n \in Int
    PROVE  Max({0, n}) = IF n > 0 THEN n ELSE 0
<1>1. \A m \in Int : (m \in {0, n} /\ \A k \in {0, n} : m >= k) <=> m = IF n > 0 THEN n ELSE 0
  OBVIOUS
<1>2. \A m : m \in {0, n} => m \in Int
  OBVIOUS
<1> QED
  BY <1>1, <1>2 DEF Max

LEMMA ThresholdsAreSane ==
    /\ Thresholds \subseteq Nat \ {0} /\ Unset \notin Thresholds
    /\ \A v \in Amounts \union Defaults : Sanitized(v) \in Thresholds
  BY AmountsAssumption DEF Thresholds, Unset, Sanitized

LEMMA SettingsTypes ==
    /\ NoSettings \in Settings
    /\ \A s \in Settings : s.threshold \in Thresholds \union {Unset} /\ s.alerts \in Switches
    /\ \A v \in Thresholds, on \in Switches : [threshold |-> v, alerts |-> on] \in Settings
  BY DEF NoSettings, Settings, Switches

LEMMA ThresholdType ==
    ASSUME default \in Thresholds, NEW s \in Settings
    PROVE  Threshold(s) \in Thresholds
  BY SettingsTypes DEF Threshold

LEMMA LaterType ==
    ASSUME NEW f \in [Aliases -> 0..Cooldown]
    PROVE  Later(f) \in [Aliases -> 0..Cooldown]
<1>1. ASSUME NEW a \in Aliases PROVE Max({0, f[a] - 1}) \in 0..Cooldown
  <2>1. f[a] \in 0..Cooldown /\ f[a] - 1 \in Int /\ Cooldown \in Nat
    BY CooldownAssumption
  <2>2. Max({0, f[a] - 1}) = IF f[a] - 1 > 0 THEN f[a] - 1 ELSE 0
    BY <2>1, AboveZero
  <2> QED
    BY <2>1, <2>2
<1> QED
  BY <1>1 DEF Later

\* No cooldown grows while the task sleeps.
LEMMA LaterIsLess ==
    ASSUME NEW f \in [Aliases -> 0..Cooldown], NEW a \in Aliases
    PROVE  ~(Later(f)[a] > f[a])
<1>1. f[a] \in 0..Cooldown /\ f[a] - 1 \in Int
  BY CooldownAssumption
<1>2. Max({0, f[a] - 1}) = IF f[a] - 1 > 0 THEN f[a] - 1 ELSE 0
  BY <1>1, AboveZero
<1> QED
  BY <1>1, <1>2 DEF Later

LEMMA RestTypes == Idle \in Jobs /\ Asleep \in Checks
  BY DEF Jobs, Checks

LEMMA CheckingType ==
    ASSUME NEW v \in Thresholds, NEW on \in BOOLEAN, NEW todo \in SUBSET Aliases
    PROVE  Checking(v, on, todo) \in Checks
  BY DEF Checks

\* What the checker knows in the middle of a cycle.
LEMMA CycleTypes ==
    ASSUME check \in Checks, check.pc # "asleep"
    PROVE  /\ check.threshold \in Thresholds /\ check.alerts \in BOOLEAN
           /\ check.todo \in SUBSET Aliases
           /\ check.pc \in {"saving", "sending"} =>
                 check \in [pc: {"saving", "sending"}, threshold: Thresholds, alerts: BOOLEAN,
                            todo: SUBSET Aliases, alias: Aliases, value: Values]
  BY DEF Checks, Checking, Asleep

LEMMA JobTypes ==
    /\ \A g \in Jobs : g.pc # "idle" =>
          /\ g.pc \in {"waiting", "persisting", "answering"}
          /\ g.op \in {"on", "off", "amount", "typed"}
          /\ g.amount \in Amounts \union {Unset} /\ g.snapshot \in Settings
    /\ \A pc \in {"waiting", "persisting", "answering"},
          change \in {"on", "off", "amount", "typed"}, amount \in Amounts \union {Unset},
          s \in Settings :
          [pc |-> pc, op |-> change, amount |-> amount, snapshot |-> s] \in Jobs
  BY DEF Jobs, Idle

-----------------------------------------------------------------------------
(* The settings screens. *)

LEMMA SubmitKeeps ==
    ASSUME BalanceInv, NEW h \in Screens, NEW change, NEW amount, Submit(h, change, amount),
           form' \in BOOLEAN,
           \/ change \in {"on", "off"} /\ amount = Unset
           \/ change \in {"amount", "typed"} /\ amount \in Amounts,
           UNCHANGED <<account, checkerVars, restarts>>
    PROVE  BalanceInv'
<1> DEFINE new == [pc |-> "waiting", op |-> change, amount |-> amount, snapshot |-> NoSettings]
<1>1. /\ job' = [job EXCEPT ![h] = new]
      /\ UNCHANGED <<default, settings, file, kept, account, quiet, check, told, restarts>>
  BY DEF Submit, checkerVars
<1>2. /\ new \in Jobs /\ new.pc = "waiting"
      /\ new.op \in {"amount", "typed"} => new.amount \in Amounts
  BY SettingsTypes, JobTypes
<1> HIDE DEF new
<1>3. TypeOK'
  BY <1>1, <1>2 DEF BalanceInv, TypeOK
<1>4. CooldownIsCounted' /\ FileHasKept'
  BY <1>1 DEF BalanceInv, CooldownIsCounted, FileHasKept, AreAlertsOn
<1>5. JobsAreCurrent'
  BY <1>1, <1>2 DEF BalanceInv, TypeOK, JobsAreCurrent
<1> QED
  BY <1>3, <1>4, <1>5 DEF BalanceInv

LEMMA UpdateKeeps ==
    ASSUME BalanceInv, NEW h \in Screens, Update(h), UNCHANGED <<account, checkerVars, restarts>>
    PROVE  BalanceInv'
<1> DEFINE new == [pc |-> "persisting", op |-> job[h].op, amount |-> Unset, snapshot |-> settings']
<1>1. /\ job[h].pc = "waiting" /\ \A g \in Screens : job[g].pc # "persisting"
      /\ settings' = IF job[h].op \in {"on", "off"} THEN Switched(settings, job[h].op)
                     ELSE WithThreshold(job[h].amount)
      /\ job' = [job EXCEPT ![h] = new]
      /\ UNCHANGED <<default, file, form, kept, account, quiet, check, told, restarts>>
  BY DEF Update, IsWritable, checkerVars
<1>2. job[h] \in Jobs /\ job[h].op \in {"on", "off", "amount", "typed"}
  BY <1>1, JobTypes DEF BalanceInv, TypeOK
<1>3. settings' \in Settings /\ settings'.threshold \in Thresholds
  <2>1. CASE job[h].op \in {"on", "off"}
    BY <1>1, <2>1, ThresholdType, SettingsTypes DEF BalanceInv, TypeOK, Switched, Switches
  <2>2. CASE job[h].op \notin {"on", "off"}
    <3>1. job[h].amount \in Amounts
      BY <1>1, <1>2, <2>2 DEF BalanceInv, JobsAreCurrent
    <3> QED
      BY <1>1, <2>2, <3>1, ThresholdsAreSane, SettingsTypes DEF WithThreshold, Switches
  <2> QED
    BY <2>1, <2>2
<1>4. new \in Jobs /\ new.pc = "persisting" /\ new.snapshot = settings'
  BY <1>2, <1>3, JobTypes
<1> HIDE DEF new
<1>5. TypeOK'
  BY <1>1, <1>3, <1>4 DEF BalanceInv, TypeOK
<1>6. CooldownIsCounted' /\ FileHasKept'
  BY <1>1 DEF BalanceInv, CooldownIsCounted, FileHasKept, AreAlertsOn
<1>7. JobsAreCurrent'
  <2>1. \A g \in Screens : job'[g] = IF g = h THEN new ELSE job[g]
    BY <1>1 DEF BalanceInv, TypeOK
  <2> QED
    BY <1>1, <1>3, <1>4, <2>1, ThresholdsAreSane DEF BalanceInv, JobsAreCurrent
<1> QED
  BY <1>5, <1>6, <1>7 DEF BalanceInv

LEMMA PersistKeeps ==
    ASSUME BalanceInv, NEW h \in Screens, NEW ok \in BOOLEAN, Persist(h, ok),
           UNCHANGED <<account, checkerVars, restarts>>
    PROVE  BalanceInv'
<1> DEFINE new == [pc |-> "answering", op |-> job[h].op, amount |-> Unset, snapshot |-> NoSettings]
<1>1. /\ job[h].pc = "persisting"
      /\ file' = IF ok THEN job[h].snapshot ELSE file
      /\ kept' = IF ok THEN [threshold |-> Threshold(settings), alerts |-> settings.alerts]
                 ELSE kept
      /\ job' = [job EXCEPT ![h] = new]
      /\ UNCHANGED <<default, settings, form, account, quiet, check, told, restarts>>
  BY DEF Persist, checkerVars
<1>2. new \in Jobs /\ new.pc = "answering"
  BY <1>1, SettingsTypes, JobTypes DEF BalanceInv, TypeOK
<1>3. /\ job[h].snapshot = settings /\ settings.threshold # Unset
      /\ settings \in Settings /\ Threshold(settings) = settings.threshold
      /\ settings.threshold \in Thresholds /\ settings.alerts \in Switches
  BY <1>1, SettingsTypes DEF BalanceInv, TypeOK, JobsAreCurrent, Threshold
<1> HIDE DEF new
<1>4. kept' \in Settings /\ file' \in Settings
  BY <1>1, <1>3, SettingsTypes DEF BalanceInv, TypeOK
<1>5. TypeOK'
  BY <1>1, <1>2, <1>4 DEF BalanceInv, TypeOK
<1>6. CooldownIsCounted'
  BY <1>1 DEF BalanceInv, CooldownIsCounted
<1>7. FileHasKept'
  BY <1>1, <1>3 DEF BalanceInv, FileHasKept, AreAlertsOn
<1>8. JobsAreCurrent'
  <2>1. \A g \in Screens : job'[g] = IF g = h THEN new ELSE job[g]
    BY <1>1 DEF BalanceInv, TypeOK
  <2> QED
    BY <1>1, <1>2, <2>1 DEF BalanceInv, JobsAreCurrent
<1> QED
  BY <1>5, <1>6, <1>7, <1>8 DEF BalanceInv

LEMMA AnswerKeeps ==
    ASSUME BalanceInv, NEW h \in Screens, Answer(h), UNCHANGED <<account, check, restarts>>
    PROVE  BalanceInv'
<1> DEFINE none == [a \in Aliases |-> 0]
<1>1. /\ UNCHANGED <<default, settings, file, kept, account, check, restarts>>
      /\ job' = [job EXCEPT ![h] = Idle] /\ form' \in BOOLEAN
      /\ \/ quiet' = quiet /\ told' = told
         \/ quiet' = none /\ told' = none
  BY DEF Answer
<1>2. none \in [Aliases -> 0..Cooldown]
  BY CooldownAssumption
<1>3. TypeOK'
  BY <1>1, <1>2, RestTypes DEF BalanceInv, TypeOK
<1>4. check.pc = "sending" => check.alias \in Aliases
  BY CycleTypes DEF BalanceInv, TypeOK
<1>5. CooldownIsCounted'
  BY <1>1, <1>4 DEF BalanceInv, CooldownIsCounted
<1>6. FileHasKept' /\ JobsAreCurrent'
  BY <1>1 DEF BalanceInv, TypeOK, FileHasKept, AreAlertsOn, JobsAreCurrent, Idle
<1> QED
  BY <1>3, <1>5, <1>6 DEF BalanceInv

-----------------------------------------------------------------------------
(* The checker. *)

\* A step of the checker leaves the settings and their file alone.
LEMMA CheckerKeeps ==
    ASSUME BalanceInv, check' \in Checks,
           quiet' \in [Aliases -> 0..Cooldown], CooldownIsCounted',
           UNCHANGED <<account, settingVars, restarts>>
    PROVE  BalanceInv'
<1>1. UNCHANGED <<account, default, settings, file, job, form, kept, restarts>>
  BY DEF settingVars
<1>2. TypeOK'
  BY <1>1 DEF BalanceInv, TypeOK, CooldownIsCounted
<1>3. FileHasKept' /\ JobsAreCurrent'
  BY <1>1 DEF BalanceInv, FileHasKept, AreAlertsOn, JobsAreCurrent
<1> QED
  BY <1>2, <1>3 DEF BalanceInv

LEMMA WakeKeeps ==
    ASSUME BalanceInv, Wake, UNCHANGED <<account, settingVars, restarts>>
    PROVE  BalanceInv'
<1>1. Threshold(settings) \in Thresholds /\ AreAlertsOn(settings) \in BOOLEAN
  BY ThresholdType DEF BalanceInv, TypeOK, AreAlertsOn
<1>2. check' \in Checks
  BY <1>1, CheckingType DEF Wake
<1>3. check'.pc = "checking"
  BY DEF Wake, Checking
<1>4. quiet' \in [Aliases -> 0..Cooldown] /\ quiet' = told'
  BY LaterType DEF BalanceInv, TypeOK, CooldownIsCounted, Wake
<1> QED
  BY <1>2, <1>3, <1>4, CheckerKeeps DEF CooldownIsCounted

\* The cycle goes on with the other accounts, the cooldowns as they are.
LEMMA GoOnKeeps ==
    ASSUME BalanceInv, check.pc # "asleep", NEW todo \in SUBSET Aliases, GoOn(todo),
           quiet' \in [Aliases -> 0..Cooldown], quiet' = told',
           UNCHANGED <<account, settingVars, restarts>>
    PROVE  BalanceInv'
<1>1. check' \in Checks /\ check'.pc = "checking"
  BY CycleTypes, CheckingType DEF BalanceInv, TypeOK, GoOn, Checking
<1> QED
  BY <1>1, CheckerKeeps DEF CooldownIsCounted

LEMMA FetchKeeps ==
    ASSUME BalanceInv, NEW a \in Aliases, NEW ok \in BOOLEAN, Fetch(a, ok),
           UNCHANGED <<account, settingVars, restarts>>
    PROVE  BalanceInv'
<1>1. /\ check.threshold \in Thresholds /\ check.alerts \in BOOLEAN
      /\ check.todo \ {a} \in SUBSET Aliases /\ check.pc = "checking"
      /\ quiet' = quiet /\ told' = told
  BY CycleTypes DEF BalanceInv, TypeOK, Fetch
<1>2. CASE ok
  <2>1. Effective(a) \in Values
    BY DEF BalanceInv, TypeOK, Effective, RealBalance, Values
  <2>2. check' = [pc |-> "saving", threshold |-> check.threshold, alerts |-> check.alerts,
                  todo |-> check.todo \ {a}, alias |-> a, value |-> Effective(a)]
    BY <1>2 DEF Fetch
  <2>3. check' \in Checks /\ check'.pc = "saving"
    BY <1>1, <2>1, <2>2 DEF Checks
  <2> QED
    BY <1>1, <2>3, CheckerKeeps DEF BalanceInv, TypeOK, CooldownIsCounted
<1>3. CASE ~ok
  BY <1>1, <1>3, GoOnKeeps DEF BalanceInv, TypeOK, CooldownIsCounted, Fetch
<1> QED
  BY <1>2, <1>3

LEMMA SaveKeeps ==
    ASSUME BalanceInv, NEW ok \in BOOLEAN, Save(ok), UNCHANGED <<account, settingVars, restarts>>
    PROVE  BalanceInv'
<1>1. /\ check.pc = "saving" /\ check.todo \in SUBSET Aliases
      /\ check \in [pc: {"saving", "sending"}, threshold: Thresholds, alerts: BOOLEAN,
                    todo: SUBSET Aliases, alias: Aliases, value: Values]
  BY CycleTypes DEF BalanceInv, TypeOK, Save
<1> DEFINE low == check.value < check.threshold
           Recovered(f) == IF ok /\ ~low THEN [f EXCEPT ![check.alias] = 0] ELSE f
<1>2. /\ quiet' = Recovered(quiet) /\ told' = Recovered(told)
      /\ \/ ok /\ low /\ IsDue /\ check' = [check EXCEPT !.pc = "sending"]
         \/ GoOn(check.todo)
  BY DEF Save
<1>3. quiet' \in [Aliases -> 0..Cooldown] /\ quiet' = told'
  BY <1>1, <1>2, CooldownAssumption DEF BalanceInv, TypeOK, CooldownIsCounted
<1>4. CASE ok /\ low /\ IsDue /\ check' = [check EXCEPT !.pc = "sending"]
  <2>1. check' \in Checks /\ check'.alias = check.alias
    BY <1>1, <1>4 DEF Checks
  <2>2. quiet' = quiet /\ quiet[check.alias] = 0
    BY <1>2, <1>4 DEF IsDue
  <2> QED
    BY <1>3, <2>1, <2>2, CheckerKeeps DEF CooldownIsCounted
<1>5. CASE GoOn(check.todo)
  BY <1>1, <1>3, <1>5, GoOnKeeps
<1> QED
  BY <1>2, <1>4, <1>5

LEMMA SendKeeps ==
    ASSUME BalanceInv, NEW outcome, Send(outcome), UNCHANGED <<account, settingVars, restarts>>
    PROVE  BalanceInv'
<1>1. check.pc = "sending" /\ check.todo \in SUBSET Aliases /\ GoOn(check.todo)
  BY CycleTypes DEF BalanceInv, TypeOK, Send
<1>2. quiet' \in [Aliases -> 0..Cooldown] /\ quiet' = told'
  <2>1. quiet \in [Aliases -> 0..Cooldown] /\ told = quiet /\ Cooldown \in 0..Cooldown
    BY CooldownAssumption DEF BalanceInv, TypeOK, CooldownIsCounted
  <2>2. CASE IsDelivered(outcome)
    BY <2>1, <2>2 DEF Send, Quiet
  <2>3. CASE ~IsDelivered(outcome)
    BY <2>1, <2>3 DEF Send, Quiet
  <2> QED
    BY <2>2, <2>3
<1> QED
  BY <1>1, <1>2, GoOnKeeps

LEMMA RestKeeps ==
    ASSUME BalanceInv, Rest, UNCHANGED <<account, settingVars, restarts>>
    PROVE  BalanceInv'
<1>1. check' \in Checks /\ check'.pc = "asleep" /\ quiet' = quiet /\ told' = told
  BY DEF Rest, Checks, Asleep
<1> QED
  BY <1>1, CheckerKeeps DEF BalanceInv, TypeOK, CooldownIsCounted

LEMMA SpendKeeps ==
    ASSUME BalanceInv, NEW a \in Aliases, NEW new \in Accounts, Spend(a, new)
    PROVE  BalanceInv'
<1>1. /\ account' \in [Aliases -> Accounts]
      /\ UNCHANGED <<default, settings, file, job, form, kept, quiet, check, told, restarts>>
  BY DEF BalanceInv, TypeOK, Spend, settingVars, checkerVars
<1> QED
  BY <1>1 DEF BalanceInv, TypeOK, CooldownIsCounted, JobsAreCurrent, FileHasKept, AreAlertsOn

LEMMA RestartKeeps ==
    ASSUME BalanceInv, NEW readable \in BOOLEAN, NEW new \in Defaults, Restart(readable, new)
    PROVE  BalanceInv'
<1>1. restarts' \in 0..MaxRestarts
  BY BoundAssumption DEF BalanceInv, TypeOK, Restart
<1>2. default' \in Thresholds /\ settings' \in Settings
  BY ThresholdsAreSane, SettingsTypes DEF BalanceInv, TypeOK, Restart
<1>3. quiet' \in [Aliases -> 0..Cooldown] /\ quiet' = told'
  BY CooldownAssumption DEF Restart
<1>4. job' = [h \in Screens |-> Idle] /\ check' = Asleep /\ form' = FALSE /\ UNCHANGED <<account, file, kept>>
  BY DEF Restart
<1>5. TypeOK'
  BY <1>1, <1>2, <1>3, <1>4, RestTypes DEF BalanceInv, TypeOK
<1>6. CooldownIsCounted' /\ JobsAreCurrent' /\ FileHasKept'
  BY <1>3, <1>4 DEF BalanceInv, CooldownIsCounted, JobsAreCurrent, FileHasKept, AreAlertsOn, Asleep, Idle
<1> QED
  BY <1>5, <1>6 DEF BalanceInv

-----------------------------------------------------------------------------

LEMMA BalanceInvHolds == Spec => []BalanceInv
<1>1. Init => BalanceInv
  <2> SUFFICES ASSUME Init PROVE BalanceInv
    OBVIOUS
  <2>1. default \in Thresholds /\ account \in [Aliases -> Accounts]
    BY ThresholdsAreSane DEF Init
  <2>2. settings = NoSettings /\ file = NoSettings /\ kept = NoSettings /\ NoSettings \in Settings
    BY SettingsTypes DEF Init
  <2>3. quiet \in [Aliases -> 0..Cooldown] /\ told = quiet
    BY CooldownAssumption DEF Init
  <2>4. job = [h \in Screens |-> Idle] /\ form = FALSE /\ check = Asleep /\ restarts \in 0..MaxRestarts
    BY BoundAssumption DEF Init
  <2>5. TypeOK
    BY <2>1, <2>2, <2>3, <2>4, RestTypes DEF TypeOK
  <2>6. CooldownIsCounted /\ JobsAreCurrent /\ FileHasKept
    BY <2>2, <2>3, <2>4 DEF CooldownIsCounted, JobsAreCurrent, FileHasKept, Asleep, Idle
  <2> QED
    BY <2>5, <2>6 DEF BalanceInv
<1>2. BalanceInv /\ [Next]_vars => BalanceInv'
  <2> SUFFICES ASSUME BalanceInv, [Next]_vars PROVE BalanceInv'
    OBVIOUS
  <2>1. ASSUME NEW h \in Screens, Screen(h) /\ UNCHANGED <<account, checkerVars, restarts>>
        PROVE  BalanceInv'
    <3>1. ASSUME NEW change \in {"on", "off"}, TapToggle(h, change) PROVE BalanceInv'
      BY <2>1, <3>1, SubmitKeeps DEF TapToggle, BalanceInv, TypeOK
    <3>2. ASSUME NEW v \in Amounts, TapPreset(h, v) \/ TypeAmount(h, v) PROVE BalanceInv'
      BY <2>1, <3>2, SubmitKeeps DEF TapPreset, TypeAmount, BalanceInv, TypeOK
    <3> QED
      BY <2>1, <3>1, <3>2, UpdateKeeps, PersistKeeps DEF Screen
  <2>4. CASE SetForm /\ UNCHANGED <<account, checkerVars, restarts>>
    <3>1. /\ form' \in BOOLEAN
          /\ UNCHANGED <<account, default, settings, file, job, kept, quiet, check, told, restarts>>
      BY <2>4 DEF SetForm, checkerVars
    <3> QED
      BY <3>1 DEF BalanceInv, TypeOK, CooldownIsCounted, JobsAreCurrent, FileHasKept, AreAlertsOn
  <2>2. CASE Checker /\ UNCHANGED <<account, settingVars, restarts>>
    BY <2>2, WakeKeeps, FetchKeeps, SaveKeeps, SendKeeps, RestKeeps DEF Checker
  <2>3. CASE UNCHANGED vars
    BY <2>3 DEF vars, settingVars, checkerVars, BalanceInv, TypeOK, CooldownIsCounted, JobsAreCurrent,
                FileHasKept, AreAlertsOn
  <2> QED
    BY <2>1, <2>2, <2>3, <2>4, AnswerKeeps, SpendKeeps, RestartKeeps DEF Next
<1> QED
  BY <1>1, <1>2, PTL DEF Spec

\* The settings, their file, the cooldowns and the checker have their types.
THEOREM BalanceTypeCorrect == Spec => []TypeOK
<1>1. BalanceInv => TypeOK
  BY DEF BalanceInv
<1> QED
  BY <1>1, BalanceInvHolds, PTL

\* The file owns what was in force when a change was last saved, for any
\* amounts, defaults and number of handlers that change settings at a time.
THEOREM SavedSettingsStay == Spec => []FileOwnsSettings
<1>1. BalanceInv => FileOwnsSettings
  BY DEF BalanceInv, FileHasKept, FileOwnsSettings, Threshold
<1> QED
  BY <1>1, BalanceInvHolds, PTL

\* One alert per account and cooldown, however the settings, the balances and
\* the deliveries interleave.
THEOREM OneAlertPerCooldown == Spec => NoNagging
<1>1. BalanceInv /\ [Next]_vars => [\A a \in Aliases : told'[a] > told[a] => told[a] = 0]_vars
  <2> SUFFICES ASSUME BalanceInv, [Next]_vars, NEW a \in Aliases, told'[a] > told[a]
               PROVE  told[a] = 0
    OBVIOUS
  <2>1. told \in [Aliases -> 0..Cooldown] /\ quiet = told /\ \A n \in 0..Cooldown : ~(n > n) /\ ~(0 > n)
    BY CooldownAssumption DEF BalanceInv, TypeOK, CooldownIsCounted
  <2>2. told' # told /\ told'[a] # 0
    BY <2>1
  <2>3. CASE Wake
    BY <2>1, <2>3, LaterIsLess DEF Wake
  <2>4. ASSUME NEW ok \in BOOLEAN, Save(ok) PROVE FALSE
    BY <2>1, <2>2, <2>4 DEF Save
  <2>5. ASSUME NEW outcome, Send(outcome) PROVE told[a] = 0
    <3>1. check.pc = "sending" /\ check.alias = a
      BY <2>1, <2>2, <2>5 DEF Send
    <3> QED
      BY <3>1 DEF BalanceInv, CooldownIsCounted
  <2>6. ASSUME NEW h, Answer(h) PROVE FALSE
    BY <2>1, <2>2, <2>6 DEF Answer
  <2>7. ASSUME NEW readable, NEW new, Restart(readable, new) PROVE FALSE
    BY <2>2, <2>7 DEF Restart
  <2> QED
    BY <2>2, <2>3, <2>4, <2>5, <2>6, <2>7
       DEF Next, Screen, Checker, Fetch, Rest, Spend, checkerVars, vars
<1> QED
  BY <1>1, BalanceInvHolds, PTL DEF Spec, NoNagging

-----------------------------------------------------------------------------
(***************************************************************************)
(* Proofs about PowerOps, for any handlers, servers, services and attempts: *)
(* the type invariant, and that a second operation on a server within the  *)
(* cooldown has a reason.                                                  *)
(***************************************************************************)

\* A stamp is that of a handler which started on this server lately.
StampsAreOwn ==
    \A s \in Servers : stamp[s] # NoOne =>
        stamp[s] \in YoungOnes /\ op[stamp[s]].server = s

\* A handler that started lately still has its stamp, or one of the reasons
\* why it has not.
StampOrReason ==
    \A h \in YoungOnes :
        stamp[op[h].server] = h \/ h \in wiped \/ op[h].verdict = "failure"

\* Of two operations on a server, the older one has no stamp.
NewestHasStamp ==
    \A i, j \in DOMAIN young :
        i < j /\ op[young[i]].server = op[young[j]].server
            => stamp[op[young[i]].server] # young[i]

\* The provider's client has come to an end when its outcome is told.
VerdictIsKnown ==
    \A h \in Handlers :
        /\ op[h].pc \in {"telling", "returning", "erring"} => op[h].verdict # "none"
        /\ op[h].pc \in {"answering", "calling"} => op[h].verdict = "none"

PowerInv ==
    PowerTypeOK /\ StampsAreOwn /\ StampOrReason /\ NewestHasStamp /\ VerdictIsKnown

-----------------------------------------------------------------------------

LEMMA FirstBackend ==
    ASSUME NEW s \in Servers
    PROVE  /\ NewOp(s) \in Ops
           /\ 1 \in DOMAIN Backends[s]
           /\ DOMAIN Backends[s] = 1..Len(Backends[s])
           /\ Len(Backends[s]) \in Nat
<1>1. 0 \in 0..MaxAttempts - 1
  BY AttemptAssumption
<1>2. Backends[s] \in Seq(BOOLEAN) /\ Backends[s] # <<>>
  BY BackendAssumption
<1>3. Len(Backends[s]) \in Nat \ {0}
  BY <1>2, EmptySeq, LenProperties
<1> QED
  BY <1>1, <1>2, <1>3, LenProperties DEF NewOp, Ops, Pcs, Verdicts

\* Where a handler goes on with its own operation, its entry keeps its type.
LEMMA OpsTypes ==
    ASSUME PowerTypeOK, NEW h \in Handlers, NEW y \in Ops,
           y.backend \in DOMAIN Backends[y.server], op' = [op EXCEPT ![h] = y]
    PROVE  /\ op' \in [Handlers -> Ops]
           /\ \A g \in Handlers : op'[g].backend \in DOMAIN Backends[op'[g].server]
  BY DEF PowerTypeOK

LEMMA ClearTypes ==
    ASSUME PowerInv, NEW h \in Handlers, Clear(h), young' = young
    PROVE  /\ stamp' \in [Servers -> Handlers \union {NoOne}]
           /\ young' \in Seq(Handlers)
           /\ \A i, j \in DOMAIN young' : young'[i] = young'[j] => i = j
           /\ wiped' \in SUBSET YoungOnes'
<1>1. op[h].server \in Servers
  BY DEF PowerInv, PowerTypeOK, Ops
<1> QED
  BY <1>1 DEF PowerInv, PowerTypeOK, Clear, YoungOnes, StampsAreOwn

(***************************************************************************)
(* A step of a handler's operation, by what the cooldown depends on: it    *)
(* stays on its server, a failure stays a failure, and its stamp is given  *)
(* back only after one or after its success.                               *)
(***************************************************************************)
GoesOn(h, y) ==
    /\ op' = [op EXCEPT ![h] = y]
    /\ y.server = op[h].server
    /\ op[h].verdict = "failure" => y.verdict = "failure"
    /\ young' = young

LEMMA KeepingTheStamp ==
    ASSUME PowerInv, NEW h \in Handlers, NEW y \in Ops, GoesOn(h, y),
           UNCHANGED <<stamp, wiped>>
    PROVE  StampsAreOwn' /\ StampOrReason' /\ NewestHasStamp'
<1>1. \A g \in Handlers : op'[g].server = op[g].server
  BY DEF PowerInv, PowerTypeOK, GoesOn
<1>2. \A g \in Handlers : op[g].verdict = "failure" => op'[g].verdict = "failure"
  BY DEF PowerInv, PowerTypeOK, GoesOn
<1>3. YoungOnes' = YoungOnes /\ YoungOnes \subseteq Handlers
  BY DEF PowerInv, PowerTypeOK, GoesOn, YoungOnes
<1>4. \A i \in DOMAIN young : young[i] \in YoungOnes
  BY DEF YoungOnes
<1>5. StampsAreOwn'
  BY <1>1, <1>3 DEF PowerInv, StampsAreOwn
<1>6. StampOrReason'
  BY <1>1, <1>2, <1>3 DEF PowerInv, StampOrReason
<1>7. NewestHasStamp'
  BY <1>1, <1>3, <1>4 DEF PowerInv, NewestHasStamp, GoesOn
<1> QED
  BY <1>5, <1>6, <1>7

LEMMA GivingTheStampBack ==
    ASSUME PowerInv, NEW h \in Handlers, NEW y \in Ops, GoesOn(h, y), Clear(h),
           op[h].verdict = "success" \/ y.verdict = "failure"
    PROVE  StampsAreOwn' /\ StampOrReason' /\ NewestHasStamp'
<1>1. \A g \in Handlers : op'[g].server = op[g].server
  BY DEF PowerInv, PowerTypeOK, GoesOn
<1>2. \A g \in Handlers : op[g].verdict = "failure" => op'[g].verdict = "failure"
  BY DEF PowerInv, PowerTypeOK, GoesOn
<1>3. YoungOnes' = YoungOnes /\ YoungOnes \subseteq Handlers
  BY DEF PowerInv, PowerTypeOK, GoesOn, YoungOnes
<1>4. \A i \in DOMAIN young : young[i] \in YoungOnes
  BY DEF YoungOnes
<1> DEFINE s == op[h].server
<1>5. s \in Servers /\ \A g \in Handlers : op[g].server \in Servers
  BY DEF PowerInv, PowerTypeOK, Ops
<1>6. /\ stamp'[s] = NoOne
      /\ \A r \in Servers : r # s => stamp'[r] = stamp[r]
      /\ wiped \subseteq wiped'
  BY <1>5 DEF PowerInv, PowerTypeOK, Clear
<1>7. StampsAreOwn'
  BY <1>1, <1>3, <1>5, <1>6 DEF PowerInv, StampsAreOwn
<1>8. StampOrReason'
  <2> SUFFICES ASSUME NEW g \in YoungOnes
               PROVE  stamp'[op[g].server] = g \/ g \in wiped' \/ op'[g].verdict = "failure"
    BY <1>1, <1>3 DEF StampOrReason
  <2>0. g \in Handlers /\ op[g].server \in Servers
    BY <1>3, <1>5
  <2>1. CASE stamp[op[g].server] # g
    BY <1>2, <1>6, <2>0, <2>1 DEF PowerInv, StampOrReason
  <2>2. CASE stamp[op[g].server] = g /\ op[g].server # s
    BY <1>6, <2>0, <2>2
  <2>3. CASE stamp[op[g].server] = g /\ op[g].server = s
    <3>1. stamp[s] # NoOne
      BY <2>0, <2>3, NoOneAssumption
    <3>2. CASE g # h \/ op[h].verdict = "success"
      BY <2>3, <3>1, <3>2 DEF Clear
    <3>3. CASE g = h /\ y.verdict = "failure"
      BY <3>3 DEF PowerInv, PowerTypeOK, GoesOn
    <3> QED
      BY <3>2, <3>3
  <2> QED
    BY <2>1, <2>2, <2>3
<1>9. NewestHasStamp'
  <2> SUFFICES ASSUME NEW i \in DOMAIN young, NEW j \in DOMAIN young, i < j,
                      op[young[i]].server = op[young[j]].server
               PROVE  stamp'[op[young[i]].server] # young[i]
    BY <1>1, <1>3, <1>4 DEF NewestHasStamp, GoesOn
  <2>1. young[i] \in Handlers /\ op[young[i]].server \in Servers
    BY <1>3, <1>4, <1>5
  <2>2. stamp[op[young[i]].server] # young[i]
    BY DEF PowerInv, NewestHasStamp
  <2> QED
    BY <1>6, <2>1, <2>2, NoOneAssumption
<1> QED
  BY <1>7, <1>8, <1>9

-----------------------------------------------------------------------------
(* The actions. *)

LEMMA ElapseKeeps == ASSUME PowerInv, Elapse PROVE PowerInv'
<1> DEFINE h == Head(young)
<1>1. /\ young \in Seq(Handlers) /\ young # <<>>
      /\ young' = Tail(young) /\ op' = op /\ wiped' = wiped \ {h}
      /\ stamp' = [s \in Servers |-> IF stamp[s] = h THEN NoOne ELSE stamp[s]]
  BY DEF Elapse, PowerInv, PowerTypeOK
<1>2. /\ young' \in Seq(Handlers)
      /\ Len(young) \in Nat \ {0} /\ Len(young') = Len(young) - 1
      /\ DOMAIN young = 1..Len(young) /\ DOMAIN young' = 1..Len(young')
      /\ \A i \in 1..Len(young') : young'[i] = young[i + 1]
      /\ h = young[1] /\ h \in Handlers
  BY <1>1, HeadTailProperties, EmptySeq, LenProperties
<1>3. \A i \in DOMAIN young' : i + 1 \in DOMAIN young /\ young'[i] = young[i + 1]
  BY <1>2
<1>4. \A i, j \in DOMAIN young' : young'[i] = young'[j] => i = j
  <2> SUFFICES ASSUME NEW i \in DOMAIN young', NEW j \in DOMAIN young', young'[i] = young'[j]
               PROVE  i = j
    OBVIOUS
  <2>1. i + 1 = j + 1
    BY <1>3 DEF PowerInv, PowerTypeOK
  <2> QED
    BY <1>2, <2>1
<1>5. YoungOnes' = YoungOnes \ {h}
  <2>1. ASSUME NEW i \in DOMAIN young' PROVE young'[i] \in YoungOnes \ {h}
    <3>1. i + 1 # 1 /\ 1 \in DOMAIN young
      BY <1>2
    <3> QED
      BY <1>2, <1>3, <3>1 DEF PowerInv, PowerTypeOK, YoungOnes
  <2>2. ASSUME NEW i \in DOMAIN young, young[i] # h PROVE young[i] \in YoungOnes'
    <3>1. i - 1 \in DOMAIN young' /\ (i - 1) + 1 = i
      BY <1>2, <2>2
    <3>2. young'[i - 1] = young[i]
      BY <1>3, <3>1
    <3> QED
      BY <3>1, <3>2 DEF YoungOnes
  <2> QED
    BY <2>1, <2>2 DEF YoungOnes
<1>6. PowerTypeOK'
  BY <1>1, <1>2, <1>4, <1>5 DEF PowerInv, PowerTypeOK
<1>7. StampsAreOwn'
  BY <1>1, <1>5 DEF PowerInv, PowerTypeOK, StampsAreOwn
<1>8. StampOrReason'
  <2> SUFFICES ASSUME NEW g \in YoungOnes \ {h}
               PROVE  stamp'[op[g].server] = g \/ g \in wiped \ {h} \/ op[g].verdict = "failure"
    BY <1>1, <1>5 DEF StampOrReason
  <2>1. g \in Handlers /\ op[g].server \in Servers
    BY DEF PowerInv, PowerTypeOK, YoungOnes, Ops
  <2> QED
    BY <1>1, <2>1 DEF PowerInv, StampOrReason
<1>9. NewestHasStamp'
  <2> SUFFICES ASSUME NEW i \in DOMAIN young', NEW j \in DOMAIN young', i < j,
                      op[young'[i]].server = op[young'[j]].server
               PROVE  stamp'[op[young'[i]].server] # young'[i]
    BY <1>1 DEF NewestHasStamp
  <2>1. /\ i + 1 \in DOMAIN young /\ j + 1 \in DOMAIN young /\ i + 1 < j + 1
        /\ young'[i] = young[i + 1] /\ young'[j] = young[j + 1]
    BY <1>2, <1>3
  <2>2. stamp[op[young'[i]].server] # young'[i]
    BY <2>1 DEF PowerInv, NewestHasStamp
  <2>3. young'[i] \in Handlers /\ op[young'[i]].server \in Servers
    BY <1>2 DEF PowerInv, PowerTypeOK, Ops
  <2> QED
    BY <1>1, <2>2, <2>3, NoOneAssumption
<1> QED
  BY <1>1, <1>6, <1>7, <1>8, <1>9 DEF PowerInv, VerdictIsKnown

LEMMA TapKeeps ==
    ASSUME PowerInv, NEW h \in Handlers, NEW s \in Servers, Tap(h, s)
    PROVE  PowerInv'
<1>1. /\ h \notin YoungOnes /\ stamp[s] = NoOne /\ wiped' = wiped
      /\ stamp' = [stamp EXCEPT ![s] = h] /\ young' = Append(young, h)
      /\ op' = [op EXCEPT ![h] = NewOp(s)]
  BY DEF Tap, MayStart
<1> DEFINE n == Len(young) + 1
<1>2. /\ young' \in Seq(Handlers) /\ Len(young) \in Nat
      /\ DOMAIN young = 1..Len(young) /\ DOMAIN young' = 1..n
      /\ young'[n] = h /\ \A i \in DOMAIN young : young'[i] = young[i]
  BY <1>1, AppendProperties, LenProperties DEF PowerInv, PowerTypeOK
<1>3. DOMAIN young' = DOMAIN young \union {n} /\ n \notin DOMAIN young
  BY <1>2
<1>4. YoungOnes' = YoungOnes \union {h}
  BY <1>2, <1>3 DEF YoungOnes
<1>5. \A g \in YoungOnes : g \in Handlers /\ g # h /\ op'[g] = op[g]
  BY <1>1 DEF PowerInv, PowerTypeOK, YoungOnes
<1>6. /\ op'[h] = NewOp(s) /\ NewOp(s).server = s
      /\ NewOp(s).pc = "answering" /\ NewOp(s).verdict = "none" /\ NewOp(s).backend = 1
  BY <1>1 DEF PowerInv, PowerTypeOK, NewOp
<1>7. PowerTypeOK'
  <2>1. NewOp(s) \in Ops /\ 1 \in DOMAIN Backends[s]
    BY FirstBackend
  <2>2. /\ op' \in [Handlers -> Ops]
        /\ \A g \in Handlers : op'[g].backend \in DOMAIN Backends[op'[g].server]
    BY <1>1, <1>6, <2>1 DEF PowerInv, PowerTypeOK
  <2>3. \A i, j \in DOMAIN young' : young'[i] = young'[j] => i = j
    BY <1>1, <1>2, <1>3 DEF PowerInv, PowerTypeOK, YoungOnes
  <2>4. stamp' \in [Servers -> Handlers \union {NoOne}] /\ wiped' \in SUBSET YoungOnes'
    BY <1>1, <1>4 DEF PowerInv, PowerTypeOK
  <2> QED
    BY <1>2, <2>2, <2>3, <2>4 DEF PowerTypeOK
<1>8. StampsAreOwn'
  BY <1>1, <1>4, <1>5, <1>6 DEF PowerInv, PowerTypeOK, StampsAreOwn
<1>9. StampOrReason'
  <2> SUFFICES ASSUME NEW g \in YoungOnes'
               PROVE  stamp'[op'[g].server] = g \/ g \in wiped' \/ op'[g].verdict = "failure"
    BY DEF StampOrReason
  <2>1. CASE g = h
    BY <1>1, <1>6, <2>1 DEF PowerInv, PowerTypeOK
  <2>2. CASE g \in YoungOnes
    <3>1. stamp[op[g].server] = g \/ g \in wiped \/ op[g].verdict = "failure"
      BY <2>2 DEF PowerInv, StampOrReason
    <3>2. op'[g] = op[g] /\ op[g].server \in Servers /\ g # NoOne
      BY <1>5, <2>2, NoOneAssumption DEF PowerInv, PowerTypeOK, Ops
    <3> QED
      BY <1>1, <3>1, <3>2 DEF PowerInv, PowerTypeOK
  <2> QED
    BY <1>4, <2>1, <2>2
<1>10. NewestHasStamp'
  <2> SUFFICES ASSUME NEW i \in DOMAIN young', NEW j \in DOMAIN young', i < j,
                      op'[young'[i]].server = op'[young'[j]].server
               PROVE  stamp'[op'[young'[i]].server] # young'[i]
    BY DEF NewestHasStamp
  <2>1. i \in DOMAIN young /\ young'[i] = young[i]
    BY <1>2
  <2>2. young[i] \in YoungOnes
    BY <2>1 DEF YoungOnes
  <2>3. young[i] # h /\ op'[young[i]] = op[young[i]] /\ op[young[i]].server \in Servers
    BY <1>5, <2>2 DEF PowerInv, PowerTypeOK, Ops
  <2>4. CASE op[young[i]].server = s
    BY <1>1, <2>1, <2>3, <2>4 DEF PowerInv, PowerTypeOK
  <2>5. CASE op[young[i]].server # s
    <3>1. j # n
      BY <1>2, <1>6, <2>1, <2>3, <2>5
    <3>2. j \in DOMAIN young /\ young'[j] = young[j]
      BY <1>2, <1>3, <3>1
    <3>3. young[j] \in YoungOnes
      BY <3>2 DEF YoungOnes
    <3>4. stamp[op[young[i]].server] # young[i]
      BY <1>5, <2>1, <2>3, <3>2, <3>3 DEF PowerInv, NewestHasStamp
    <3> QED
      BY <1>1, <2>1, <2>3, <2>5, <3>4 DEF PowerInv, PowerTypeOK
  <2> QED
    BY <2>4, <2>5
<1>11. VerdictIsKnown'
  BY <1>1, <1>6 DEF PowerInv, PowerTypeOK, VerdictIsKnown
<1> QED
  BY <1>7, <1>8, <1>9, <1>10, <1>11 DEF PowerInv

\* What is left to show of a step that goes on with an operation.
LEMMA StepKeeps ==
    ASSUME PowerInv, NEW h \in Handlers, NEW y \in Ops, GoesOn(h, y),
           y.backend \in DOMAIN Backends[y.server],
           y.pc \in {"telling", "returning", "erring"} => y.verdict # "none",
           y.pc \in {"answering", "calling"} => y.verdict = "none",
           \/ UNCHANGED <<stamp, wiped>>
           \/ Clear(h) /\ (op[h].verdict = "success" \/ y.verdict = "failure")
    PROVE  PowerInv'
<1>1. /\ op' \in [Handlers -> Ops]
      /\ \A g \in Handlers : op'[g].backend \in DOMAIN Backends[op'[g].server]
  BY OpsTypes DEF PowerInv, GoesOn
<1>2. VerdictIsKnown'
  BY DEF PowerInv, PowerTypeOK, VerdictIsKnown, GoesOn
<1>3. CASE UNCHANGED <<stamp, wiped>>
  <2>1. PowerTypeOK'
    BY <1>1, <1>3 DEF PowerInv, PowerTypeOK, GoesOn, YoungOnes
  <2> QED
    BY <1>2, <1>3, <2>1, KeepingTheStamp DEF PowerInv
<1>4. CASE Clear(h) /\ (op[h].verdict = "success" \/ y.verdict = "failure")
  <2>1. PowerTypeOK'
    BY <1>1, <1>4, ClearTypes DEF PowerTypeOK, GoesOn
  <2> QED
    BY <1>2, <1>4, <2>1, GivingTheStampBack DEF PowerInv
<1> QED
  BY <1>3, <1>4

LEMMA AttemptKeeps ==
    ASSUME PowerInv, NEW h \in Handlers,
           NEW o \in [applied: BOOLEAN, answer: Answers], Attempt(h, o)
    PROVE  PowerInv'
<1> DEFINE x == op[h]
           y == [x EXCEPT !.applied = @ \/ o.applied]
<1>1. x \in Ops /\ x.backend \in DOMAIN Backends[x.server] /\ x.pc = "calling" /\ x.verdict = "none"
  BY DEF PowerInv, PowerTypeOK, VerdictIsKnown, Attempt
<1>2. /\ y \in Ops /\ y.server = x.server /\ y.backend = x.backend /\ y.try = x.try
      /\ y.pc = "calling" /\ y.verdict = "none"
  BY <1>1 DEF Ops
<1>3. young' = young
  BY DEF Attempt
<1>4. CASE /\ o.answer = "done"
           /\ op' = [op EXCEPT ![h] = [y EXCEPT !.pc = "telling", !.verdict = "success"]]
           /\ UNCHANGED <<stamp, wiped>>
  <2> DEFINE z == [y EXCEPT !.pc = "telling", !.verdict = "success"]
  <2>1. /\ z \in Ops /\ z.server = x.server /\ z.backend = x.backend
        /\ z.pc = "telling" /\ z.verdict = "success"
    BY <1>1, <1>2 DEF Ops, Pcs, Verdicts
  <2>2. GoesOn(h, z)
    BY <1>1, <1>3, <1>4, <2>1 DEF GoesOn
  <2> QED
    BY <1>1, <1>4, <2>1, <2>2, StepKeeps
<1>5. CASE /\ o.answer # "done" /\ ~GivesUp(o, x.try)
           /\ op' = [op EXCEPT ![h] = [y EXCEPT !.try = @ + 1]]
           /\ UNCHANGED <<stamp, wiped>>
  <2> DEFINE z == [y EXCEPT !.try = @ + 1]
  <2>1. x.try + 1 \in 0..MaxAttempts - 1
    BY <1>1, <1>5, AttemptAssumption DEF GivesUp, Ops
  <2>2. /\ z \in Ops /\ z.server = x.server /\ z.backend = x.backend
        /\ z.pc = "calling" /\ z.verdict = "none"
    BY <1>1, <1>2, <2>1 DEF Ops
  <2>3. GoesOn(h, z)
    BY <1>1, <1>3, <1>5, <2>2 DEF GoesOn
  <2> QED
    BY <1>1, <1>5, <2>2, <2>3, StepKeeps
<1>6. CASE /\ o.answer # "done" /\ GivesUp(o, x.try)
           /\ x.backend < Len(Backends[x.server])
           /\ op' = [op EXCEPT ![h] = [y EXCEPT !.try = 0, !.backend = @ + 1]]
           /\ UNCHANGED <<stamp, wiped>>
  <2> DEFINE z == [y EXCEPT !.try = 0, !.backend = @ + 1]
  <2>1. x.backend \in Nat /\ x.backend + 1 \in DOMAIN Backends[x.server] /\ 0 \in 0..MaxAttempts - 1
    BY <1>1, <1>6, FirstBackend, AttemptAssumption DEF Ops
  <2>2. /\ z \in Ops /\ z.server = x.server /\ z.backend = x.backend + 1
        /\ z.pc = "calling" /\ z.verdict = "none"
    <3>1. x.backend + 1 \in Nat
      BY <2>1
    <3>2. z = [y EXCEPT !.try = 0, !.backend = x.backend + 1]
      BY <1>2
    <3> QED
      BY <1>2, <2>1, <3>1, <3>2 DEF Ops
  <2>3. GoesOn(h, z)
    BY <1>1, <1>3, <1>6, <2>2 DEF GoesOn
  <2> QED
    BY <1>1, <1>6, <2>1, <2>2, <2>3, StepKeeps
<1>7. CASE /\ o.answer # "done" /\ GivesUp(o, x.try)
           /\ x.backend = Len(Backends[x.server])
           /\ op' = [op EXCEPT ![h] = [y EXCEPT !.pc = "telling", !.verdict = "failure"]]
           /\ Clear(h)
  <2> DEFINE z == [y EXCEPT !.pc = "telling", !.verdict = "failure"]
  <2>1. /\ z \in Ops /\ z.server = x.server /\ z.backend = x.backend
        /\ z.pc = "telling" /\ z.verdict = "failure"
    BY <1>1, <1>2 DEF Ops, Pcs, Verdicts
  <2>2. GoesOn(h, z)
    BY <1>1, <1>3, <1>7, <2>1 DEF GoesOn
  <2> QED
    BY <1>1, <1>7, <2>1, <2>2, StepKeeps
<1> QED
  BY <1>4, <1>5, <1>6, <1>7 DEF Attempt

\* Err, and the steps of Tell and Return that end well: Over keeps the verdict.
LEMMA OverIsOp ==
    ASSUME PowerInv, NEW h \in Handlers
    PROVE  /\ Over(op[h]) \in Ops /\ Over(op[h]).server = op[h].server
           /\ Over(op[h]).pc = "idle" /\ Over(op[h]).verdict = op[h].verdict
           /\ Over(op[h]).backend \in DOMAIN Backends[op[h].server]
<1>1. op[h] \in Ops /\ op[h].server \in Servers /\ op[h].verdict \in Verdicts
  BY DEF PowerInv, PowerTypeOK, Ops
<1> DEFINE n == NewOp(op[h].server)
<1>2. n \in Ops /\ n.server = op[h].server /\ n.backend = 1 /\ 1 \in DOMAIN Backends[op[h].server]
  BY <1>1, FirstBackend DEF NewOp
<1> QED
  BY <1>1, <1>2 DEF Over, Ops, Pcs

LEMMA EndingKeeps ==
    ASSUME PowerInv, NEW h \in Handlers, NEW ok \in BOOLEAN,
           AnswerTap(h, ok) \/ Tell(h, ok) \/ Return(h, ok) \/ Err(h)
    PROVE  PowerInv'
<1> DEFINE x == op[h]
           At(pc) == [x EXCEPT !.pc = pc]
<1>1. x \in Ops /\ x.backend \in DOMAIN Backends[x.server] /\ x.verdict \in Verdicts
  BY DEF PowerInv, PowerTypeOK, Ops
<1>2. \A pc \in Pcs : /\ At(pc) \in Ops /\ At(pc).server = x.server /\ At(pc).pc = pc
                      /\ At(pc).backend = x.backend /\ At(pc).verdict = x.verdict
  BY <1>1 DEF Ops
<1>3. {"idle", "calling", "returning", "erring"} \subseteq Pcs
  BY DEF Pcs
<1>4. x.pc \in {"telling", "returning", "erring"} => x.verdict \in {"success", "failure"}
  BY <1>1 DEF PowerInv, VerdictIsKnown, Verdicts
<1>5. x.pc = "answering" => x.verdict = "none"
  BY DEF PowerInv, VerdictIsKnown
<1>6. ASSUME NEW pc \in Pcs, op' = [op EXCEPT ![h] = At(pc)], young' = young
      PROVE  GoesOn(h, At(pc))
  BY <1>2, <1>6 DEF GoesOn
<1>7. ASSUME op' = [op EXCEPT ![h] = Over(x)], UNCHANGED <<stamp, young, wiped>>
      PROVE  PowerInv'
  <2>1. GoesOn(h, Over(x))
    BY <1>7, OverIsOp DEF GoesOn
  <2> QED
    BY <1>7, <2>1, OverIsOp, StepKeeps
<1>8. CASE AnswerTap(h, ok)
  <2>1. PICK pc \in {"calling", "idle"} : op' = [op EXCEPT ![h] = At(pc)]
    BY <1>8 DEF AnswerTap
  <2>2. x.pc = "answering" /\ UNCHANGED <<stamp, young, wiped>>
    BY <1>8 DEF AnswerTap
  <2>3. At(pc) \in Ops /\ GoesOn(h, At(pc))
    BY <1>2, <1>3, <1>6, <2>1, <2>2
  <2>4. /\ At(pc).backend \in DOMAIN Backends[At(pc).server]
        /\ At(pc).pc \in {"calling", "idle"} /\ At(pc).verdict = "none"
    BY <1>1, <1>2, <1>3, <1>5, <2>2
  <2> QED
    BY <2>2, <2>3, <2>4, StepKeeps
<1>9. ASSUME NEW pc \in {"returning", "erring"}, x.verdict \in {"success", "failure"},
             op' = [op EXCEPT ![h] = At(pc)], young' = young,
             UNCHANGED <<stamp, wiped>> \/ Clear(h)
      PROVE  PowerInv'
  <2>1. At(pc) \in Ops /\ GoesOn(h, At(pc))
    BY <1>2, <1>3, <1>6, <1>9
  <2>2. /\ At(pc).backend \in DOMAIN Backends[At(pc).server]
        /\ At(pc).pc \in {"returning", "erring"} /\ At(pc).verdict = x.verdict
    BY <1>1, <1>2, <1>3
  <2> QED
    BY <1>9, <2>1, <2>2, StepKeeps
<1>10. CASE Tell(h, ok)
  <2>1. x.verdict \in {"success", "failure"} /\ young' = young
    BY <1>4, <1>10 DEF Tell
  <2>2. PICK pc \in {"returning", "erring"} :
            op' = [op EXCEPT ![h] = At(pc)] /\ (UNCHANGED <<stamp, wiped>> \/ Clear(h))
    BY <1>10 DEF Tell
  <2> QED
    BY <1>9, <2>1, <2>2
<1>11. CASE Return(h, ok)
  <2>1. x.verdict \in {"success", "failure"} /\ young' = young
    BY <1>4, <1>11 DEF Return
  <2>2. CASE ok
    BY <1>7, <1>11, <2>1, <2>2 DEF Return
  <2>3. CASE ~ok
    BY <1>9, <1>11, <2>1, <2>3 DEF Return
  <2> QED
    BY <2>2, <2>3
<1>12. CASE Err(h)
  BY <1>7, <1>12 DEF Err
<1> QED
  BY <1>8, <1>10, <1>11, <1>12

LEMMA PowerInvHolds == PowerSpec => []PowerInv
<1>1. PowerInit => PowerInv
  <2> SUFFICES ASSUME PowerInit PROVE PowerInv
    OBVIOUS
  <2>1. PICK s \in Servers : op = [h \in Handlers |-> [NewOp(s) EXCEPT !.pc = "idle"]]
    BY DEF PowerInit
  <2> DEFINE x == [NewOp(s) EXCEPT !.pc = "idle"]
  <2>2. /\ x \in Ops /\ x.pc = "idle" /\ x.backend = 1 /\ x.server = s
        /\ 1 \in DOMAIN Backends[s]
    BY FirstBackend DEF NewOp, Ops, Pcs
  <2>3. young = <<>> /\ wiped = {} /\ stamp = [r \in Servers |-> NoOne]
    BY DEF PowerInit
  <2>4. young \in Seq(Handlers) /\ DOMAIN young = {} /\ YoungOnes = {}
    BY <2>3, EmptySeq DEF YoungOnes
  <2>5. /\ op \in [Handlers -> Ops]
        /\ \A h \in Handlers : op[h].backend \in DOMAIN Backends[op[h].server]
    BY <2>1, <2>2
  <2>6. VerdictIsKnown
    BY <2>1, <2>2 DEF VerdictIsKnown
  <2> QED
    BY <2>3, <2>4, <2>5, <2>6
       DEF PowerInv, PowerTypeOK, StampsAreOwn, StampOrReason, NewestHasStamp
<1>2. PowerInv /\ [PowerNext]_powerVars => PowerInv'
  <2> SUFFICES ASSUME PowerInv, [PowerNext]_powerVars PROVE PowerInv'
    OBVIOUS
  <2>1. CASE UNCHANGED powerVars
    BY <2>1 DEF powerVars, PowerInv, PowerTypeOK, StampsAreOwn, StampOrReason, NewestHasStamp,
                VerdictIsKnown, YoungOnes
  <2> QED
    BY <2>1, ElapseKeeps, TapKeeps, AttemptKeeps, EndingKeeps DEF PowerNext
<1> QED
  BY <1>1, <1>2, PTL DEF PowerSpec

\* The handlers, the cooldowns and the starts have their types, whatever the
\* services a provider tries and however often it repeats a request.
THEOREM PowerTypeCorrect == PowerSpec => []PowerTypeOK
<1>1. PowerInv => PowerTypeOK
  BY DEF PowerInv
<1> QED
  BY <1>1, PowerInvHolds, PTL

\* A second operation on a server within the cooldown of another one has one
\* of the three reasons.
THEOREM SecondTapHasReason == PowerSpec => []SecondTapWaits
<1>1. PowerInv => SecondTapWaits
  <2> SUFFICES ASSUME PowerInv, NEW i \in DOMAIN young, NEW j \in DOMAIN young, i < j,
                      op[young[i]].server = op[young[j]].server
               PROVE  young[i] \in wiped \/ op[young[i]].verdict = "failure"
    BY DEF SecondTapWaits
  <2>1. young[i] \in YoungOnes
    BY DEF YoungOnes
  <2>2. stamp[op[young[i]].server] # young[i]
    BY DEF PowerInv, NewestHasStamp
  <2> QED
    BY <2>1, <2>2 DEF PowerInv, StampOrReason
<1> QED
  BY <1>1, PowerInvHolds, PTL
=============================================================================
