----------------------------- MODULE CheckStore -----------------------------
(***************************************************************************)
(* The configuration of the service checks                                 *)
(* (src/storage/service_checks_store.py): a list in memory, a JSON file,   *)
(* and the handlers of the bot that edit both from worker threads          *)
(* (src/bot/routers/checks.py).  A thread holds _write_lock from its       *)
(* change in memory to the end of its write; _lock alone protects a read.  *)
(*                                                                         *)
(* A check is its id, a random one, with its "enabled" flag: the servers   *)
(* only group the checks.                                                  *)
(***************************************************************************)
EXTENDS Integers, FiniteSets

CONSTANTS
    Checks, \* the ids that are in the file or will be drawn
    Jobs    \* the handlers that may be at work at the same time

VARIABLES
    file,   \* what is at _FILE_PATH
    memory, \* _checks
    blind,  \* _load_failed
    job,    \* the handlers between their first await and their answer
    used,   \* the checks that were ever listed, so that a button has their id
    erased, \* history: the checks whose stored results were deleted
    kept    \* history: what the last write of each check, acknowledged, said

storeVars == <<file, memory, blind, job, used, erased, kept>>

None == "none"
Values == {None, "on", "off"}
Contents == [Checks -> Values]
Empty == [c \in Checks |-> None]
Missing == [kind |-> "missing", checks |-> Empty]
Valid(checks) == [kind |-> "valid", checks |-> checks]
Malformed == [kind |-> "malformed", checks |-> Empty]
Files == {Missing, Malformed} \union {Valid(checks) : checks \in Contents}

Ops == {"add", "toggle", "delete"}
Handlers == [pc: {"waiting", "persisting", "answering"}, op: Ops, check: Checks,
             value: Values, snapshot: Contents, persisted: BOOLEAN]
AtRest == [pc |-> "idle"]

Flip(value) == IF value = "on" THEN "off" ELSE "on"

StoreInit ==
    /\ file \in {Valid(checks) : checks \in [Checks -> {None, "on"}]}
    /\ memory = file.checks
    /\ blind = FALSE
    /\ job = [j \in Jobs |-> AtRest]
    /\ used = {c \in Checks : memory[c] # None}
    /\ erased = {}
    /\ kept = memory

-----------------------------------------------------------------------------
(* Reading the file. *)

\* _backup_corrupt_file: the rename may fail, which is only logged.
SetAside(renamed) == IF file = Malformed /\ renamed THEN Missing ELSE file

\* What _read_file returns; an OSError leaves nothing.
Parsed(readable) == IF readable THEN file.checks ELSE Empty

\* _read_file, at the start or by _ensure_loaded.
Read(readable, renamed) ==
    /\ file' = IF readable THEN SetAside(renamed) ELSE file
    /\ memory' = Parsed(readable)
    /\ blind' = ~readable

\* get_checks, get_all_checks: _ensure_loaded reads again after a failure.
Look(readable, renamed) ==
    /\ blind
    /\ Read(readable, renamed)
    /\ UNCHANGED <<job, used, erased, kept>>

-----------------------------------------------------------------------------
(* The handlers. *)

\* The handler of j leaves the event loop for its thread.
Submit(j, op, c, value) ==
    /\ job[j] = AtRest
    /\ job' = [job EXCEPT ![j] = [pc |-> "waiting", op |-> op, check |-> c, value |-> value,
                                  snapshot |-> Empty, persisted |-> FALSE]]
    /\ UNCHANGED <<file, memory, blind, used, erased, kept>>

\* A definition of its own gets an id that no other has.
Fresh(c) ==
    /\ c \notin used
    /\ \A j \in Jobs : job[j] # AtRest => job[j].check # c

SubmitAdd(j, c) == Fresh(c) /\ Submit(j, "add", c, "on")

\* callback_check_toggle: the new value is drawn from what the loop reads now.
TapToggle(j, c) == memory[c] # None /\ Submit(j, "toggle", c, Flip(memory[c]))

\* callback_check_delete_confirmed: of an old screen, perhaps.
TapDelete(j, c) == c \in used /\ Submit(j, "delete", c, None)

\* Mutant of MayWrite: there is no _write_lock.
MayWriteAlways == TRUE

\* _write_lock is free.
MayWrite == \A j \in Jobs : job[j].pc # "persisting"

\* Mutant of IsRefused: the write is not refused after a failed load.
IsRefusedNever(j, base, readable) ==
    job[j].op # "add" /\ base[job[j].check] = None

\* The store file is unreadable, or the check is not there any more.
IsRefused(j, base, readable) ==
    \/ blind /\ ~readable
    \/ job[j].op # "add" /\ base[job[j].check] = None

\* add_check, update_check, delete_check up to the snapshot, under both locks.
Update(j, readable, renamed) ==
    LET c == job[j].check
        base == IF blind THEN Parsed(readable) ELSE memory
        edited == [base EXCEPT ![c] = job[j].value]
    IN  /\ job[j].pc = "waiting"
        /\ MayWrite
        /\ file' = IF blind /\ readable THEN SetAside(renamed) ELSE file
        /\ blind' = (blind /\ ~readable)
        /\ IF IsRefused(j, base, readable)
           THEN /\ memory' = base
                /\ job' = [job EXCEPT ![j].pc = "answering"]
                /\ UNCHANGED <<used, kept>>
           ELSE /\ memory' = edited
                /\ job' = [job EXCEPT ![j].pc = "persisting", ![j].snapshot = edited]
                /\ used' = used \union {c}
                /\ kept' = [kept EXCEPT ![c] = None]
        /\ UNCHANGED erased

\* _persist: a temporary file, moved over the other one, or an OSError.
Persist(j, ok) ==
    /\ job[j].pc = "persisting"
    /\ file' = IF ok THEN Valid(job[j].snapshot) ELSE file
    /\ job' = [job EXCEPT ![j].pc = "answering", ![j].persisted = ok,
                          ![j].snapshot = Empty]
    /\ kept' = IF ok THEN [kept EXCEPT ![job[j].check] = job[j].value] ELSE kept
    /\ UNCHANGED <<memory, blind, used, erased>>

\* Mutant of IsErasing: the check is gone from the list, whatever the file says.
IsErasingAnyway(j) == job[j].op = "delete" /\ memory[job[j].check] = None

\* The results of a check go only after its configuration went for good.
IsErasing(j) == job[j].op = "delete" /\ job[j].persisted

\* _delete_check_state and the answer; the deletion of the rows may fail, and
\* does not take place when the server left the inventory meanwhile.
Answer(j, rowsGone) ==
    /\ job[j].pc = "answering"
    /\ rowsGone => IsErasing(j)
    /\ erased' = IF rowsGone THEN erased \union {job[j].check} ELSE erased
    /\ job' = [job EXCEPT ![j] = AtRest]
    /\ UNCHANGED <<file, memory, blind, used, kept>>

-----------------------------------------------------------------------------
(* The environment. *)

\* The bot dies and comes back: init_service_checks_store.
StoreCrash(readable, renamed) ==
    /\ Read(readable, renamed)
    /\ job' = [j \in Jobs |-> AtRest]
    /\ UNCHANGED <<used, erased, kept>>

\* The file becomes malformed: an edit by hand, or a disk that lost it.
Corrupt ==
    /\ file.kind = "valid"
    /\ file' = Malformed
    /\ kept' = Empty
    /\ UNCHANGED <<memory, blind, job, used, erased>>

-----------------------------------------------------------------------------
(* Properties. *)

StoreTypeOK ==
    /\ file \in Files
    /\ memory \in Contents
    /\ blind \in BOOLEAN
    /\ job \in [Jobs -> {AtRest} \union Handlers]
    /\ used \in SUBSET Checks
    /\ erased \in SUBSET Checks
    /\ kept \in Contents

(***************************************************************************)
(* What an admin was told is saved is in the file until it is edited       *)
(* again: no other edit, no failed write, no unreadable file and no        *)
(* restart takes it away.                                                  *)
(***************************************************************************)
SavedStays ==
    \A c \in Checks : kept[c] # None => file.kind = "valid" /\ file.checks[c] = kept[c]

(***************************************************************************)
(* A check whose history was erased does not come back: "otherwise a       *)
(* failed config write would restore the check on restart with its         *)
(* history already erased".                                                *)
(***************************************************************************)
ErasedStaysGone == \A c \in erased : memory[c] = None /\ file.checks[c] = None

\* The store does what a settings file promises.
Durable == INSTANCE DurableStore WITH
    Entries <- Checks, current <- memory, durable <- file.checks, known <- ~blind

Implements == Durable!Spec
=============================================================================
