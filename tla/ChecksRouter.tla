---------------------------- MODULE ChecksRouter ----------------------------
(***************************************************************************)
(* The wizard that adds a service check (src/bot/routers/checks.py) over   *)
(* the store of the checks.  The wizard keeps its step and its answers in  *)
(* the FSM storage of the chat; no answer of an abandoned wizard is        *)
(* cleared when the next one starts.  A handler is atomic up to its        *)
(* thread: the FSM storage is in memory and never yields.                  *)
(*                                                                         *)
(* An answer is abstracted to the wizard it was given to.                  *)
(***************************************************************************)
EXTENDS CheckStore

CONSTANT MaxWizards \* bound of the model: how often a wizard is started

ASSUME WizardsAssumption == MaxWizards \in Nat

VARIABLES
    step,    \* the FSM state of the chat
    data,    \* the FSM data of the chat
    wizards, \* how many wizards were started
    fields   \* of each handler that adds a check: the definition it adds

wizardVars == <<step, data, wizards, fields>>
vars == <<storeVars, wizardVars>>

Types == {"tcp", "http", "ssl"}
Steps == {"none", "port", "url", "keyword", "status", "warn_days"}

Unset == -1  \* the key is not there
Skipped == 0 \* None: the default applies
Stamps == Unset..MaxWizards
NoData == [type |-> "tcp", wizard |-> Unset, port |-> Unset, url |-> Unset, keyword |-> Unset]
NoFields == NoData

Init ==
    /\ StoreInit
    /\ step = "none"
    /\ data = NoData
    /\ wizards = 0
    /\ fields = [j \in Jobs |-> NoFields]

\* _start_wizard, from callback_new_tcp, callback_new_http, callback_new_ssl.
FirstStep(type) == IF type = "http" THEN "url" ELSE "port"

StartWizard(type) ==
    /\ wizards < MaxWizards
    /\ wizards' = wizards + 1
    /\ step' = FirstStep(type)
    /\ data' = [data EXCEPT !.type = type, !.wizard = wizards']
    /\ UNCHANGED <<storeVars, fields>>

\* state.clear(): callback_checks_list, and _menu_tap at every step.
LeaveWizard ==
    /\ step # "none"
    /\ step' = "none"
    /\ data' = NoData
    /\ UNCHANGED <<storeVars, wizards, fields>>

\* on_port_input for an SSL check; an invalid port asks again.
AnswerPort ==
    /\ step = "port" /\ data.type = "ssl"
    /\ data' = [data EXCEPT !.port = data.wizard]
    /\ step' = "warn_days"
    /\ UNCHANGED <<storeVars, wizards, fields>>

\* The URL the last step finds.
WithUrl == [data EXCEPT !.url = data.wizard]

\* on_url_input.
AnswerUrl ==
    /\ step = "url"
    /\ data' = WithUrl
    /\ step' = "keyword"
    /\ UNCHANGED <<storeVars, wizards, fields>>

\* Mutant of WithKeyword: an answer that is skipped is not stored.
WithKeywordGiven(skipped) ==
    IF skipped THEN data ELSE [data EXCEPT !.keyword = data.wizard]

\* The keyword the next step finds.
WithKeyword(skipped) ==
    [data EXCEPT !.keyword = IF skipped THEN Skipped ELSE data.wizard]

\* on_keyword_input.
AnswerKeyword(skipped) ==
    /\ step = "keyword"
    /\ data' = WithKeyword(skipped)
    /\ step' = "status"
    /\ UNCHANGED <<storeVars, wizards, fields>>

\* The last question of a type, whose answer is a field of the definition.
LastStep(type) ==
    CASE type = "tcp" -> "port" [] type = "http" -> "status" [] OTHER -> "warn_days"

\* The last answer: on_port_input for a TCP check, on_status_input and
\* on_warn_days_input.  The state stays until _finish: a second answer
\* meanwhile adds a second check.
AnswerLast(j, c) ==
    /\ step = LastStep(data.type)
    /\ SubmitAdd(j, c)
    /\ fields' = [fields EXCEPT ![j] =
                     CASE data.type = "tcp" -> [NoFields EXCEPT !.wizard = data.wizard,
                                                   !.port = data.wizard]
                       [] data.type = "http" -> [data EXCEPT !.port = Unset]
                       [] OTHER -> [data EXCEPT !.url = Unset, !.keyword = Unset]]
    /\ UNCHANGED <<step, data, wizards>>

\* _finish: the state is cleared, whichever wizard it is in by now.
Finish(j) ==
    /\ job[j] # AtRest /\ job[j].op = "add"
    /\ Answer(j, FALSE)
    /\ step' = "none"
    /\ data' = NoData
    /\ fields' = [fields EXCEPT ![j] = NoFields]
    /\ UNCHANGED wizards

EndOther(j, rowsGone) ==
    /\ job[j] # AtRest /\ job[j].op # "add"
    /\ Answer(j, rowsGone)
    /\ UNCHANGED wizardVars

\* The FSM storage is gone with the process.
Crash(readable, renamed) ==
    /\ StoreCrash(readable, renamed)
    /\ step' = "none"
    /\ data' = NoData
    /\ fields' = [j \in Jobs |-> NoFields]
    /\ UNCHANGED wizards

StoreStep ==
    \/ \E j \in Jobs, c \in Checks : TapToggle(j, c) \/ TapDelete(j, c)
    \/ \E j \in Jobs, ok \in BOOLEAN : Persist(j, ok)
    \/ \E readable, renamed \in BOOLEAN :
          \/ Look(readable, renamed)
          \/ \E j \in Jobs : Update(j, readable, renamed)
    \/ Corrupt

Next ==
    \/ \E type \in Types : StartWizard(type)
    \/ LeaveWizard
    \/ AnswerPort
    \/ AnswerUrl
    \/ \E skipped \in BOOLEAN : AnswerKeyword(skipped)
    \/ \E j \in Jobs, c \in Checks : AnswerLast(j, c)
    \/ \E j \in Jobs : Finish(j) \/ \E rowsGone \in BOOLEAN : EndOther(j, rowsGone)
    \/ \E readable, renamed \in BOOLEAN : Crash(readable, renamed)
    \/ StoreStep /\ UNCHANGED wizardVars

Spec == Init /\ [][Next]_vars

-----------------------------------------------------------------------------
(* Properties. *)

\* f can be probed: a TCP or SSL check has a port, an HTTP check a URL.
IsComplete(f) == IF f.type = "http" THEN f.url = f.wizard ELSE f.port = f.wizard

Definitions == [type: Types, wizard: Stamps, port: Stamps, url: Stamps, keyword: Stamps]

\* Every variable has its type.
TypeOK ==
    /\ StoreTypeOK
    /\ step \in Steps
    /\ data \in Definitions
    /\ wizards \in 0..MaxWizards
    /\ fields \in [Jobs -> Definitions]

(***************************************************************************)
(* A check is added with the answers its own wizard was given, all that    *)
(* its type needs and none of a wizard that was abandoned before: the FSM  *)
(* data outlives a wizard that is started over, and only the answers of    *)
(* the later one replace it.                                               *)
(***************************************************************************)
OwnAnswers ==
    \A j \in Jobs :
        LET f == fields[j]
        IN  /\ {f.port, f.url, f.keyword} \subseteq {Unset, Skipped, f.wizard}
            /\ f # NoFields => IsComplete(f)
=============================================================================
