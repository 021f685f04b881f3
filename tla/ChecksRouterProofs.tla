-------------------------- MODULE ChecksRouterProofs --------------------------
(***************************************************************************)
(* Proofs about CheckStore and ChecksRouter, for any checks, handlers and  *)
(* wizards: what was saved stays, what was erased does not come back, the  *)
(* store is a DurableStore, and a wizard adds its own answers.             *)
(*                                                                         *)
(* The argument is about the handler that writes: it holds _write_lock, so *)
(* what it is writing is still what memory holds, which a later failed     *)
(* read cannot have replaced; and about ids: a check that is being added   *)
(* has an id nobody knows, so it is not one that was erased.               *)
(***************************************************************************)
EXTENDS ChecksRouter, TLAPS

Busy(j) == job[j] # AtRest

\* What is being written is what is in memory.
WriterUpToDate ==
    \A j \in Jobs : job[j].pc = "persisting" =>
        /\ ~blind
        /\ job[j].snapshot = memory
        /\ memory[job[j].check] = job[j].value

\* A check that waits to be added has an id of its own.
AddsAreFresh ==
    \A j \in Jobs : Busy(j) /\ job[j].op = "add" =>
        /\ job[j].pc = "waiting" => job[j].check \notin used
        /\ \A i \in Jobs \ {j} : Busy(i) /\ job[i].op = "add" => job[i].check # job[j].check

\* The other handlers, and all contents, are about checks that were listed.
KnownIsUsed ==
    /\ \A j \in Jobs : Busy(j) /\ job[j].op # "add" => job[j].check \in used
    /\ \A c \in Checks : memory[c] # None \/ file.checks[c] # None => c \in used
    /\ erased \subseteq used

\* A delete leaves nothing, and is durable only after it was written.
DeletesDelete ==
    \A j \in Jobs : Busy(j) =>
        /\ job[j].op = "delete" => job[j].value = None
        /\ job[j].pc # "answering" => ~job[j].persisted
        /\ IsErasing(j) => memory[job[j].check] = None /\ file.checks[job[j].check] = None

\* What was saved is also in memory, unless that could not be read.
KeptInMemory == ~blind => \A c \in Checks : kept[c] # None => memory[c] = kept[c]

StoreInv ==
    /\ StoreTypeOK
    /\ WriterUpToDate
    /\ AddsAreFresh
    /\ KnownIsUsed
    /\ DeletesDelete
    /\ SavedStays
    /\ KeptInMemory
    /\ ErasedStaysGone

-----------------------------------------------------------------------------
(* Types. *)

\* The contents a file stands for, and the files there are.
LEMMA FileTypes ==
    /\ Empty \in Contents
    /\ \A x \in Files : x.checks \in Contents
    /\ \A checks \in Contents : Valid(checks) \in Files /\ Valid(checks).checks = checks
                                /\ Valid(checks).kind = "valid"
    /\ Missing \in Files /\ Missing.checks = Empty /\ Missing.kind = "missing"
    /\ Malformed \in Files /\ Malformed.checks = Empty /\ Malformed.kind = "malformed"
<1>1. Empty \in Contents
  BY DEF Empty, Contents, Values
<1>2. \A x \in Files : x.checks \in Contents
  BY <1>1 DEF Files, Missing, Malformed, Valid
<1>. QED BY <1>1, <1>2 DEF Files, Missing, Malformed, Valid

\* Setting a malformed file aside leaves the contents as they are.
LEMMA SetAsideKeeps ==
    ASSUME file \in Files, NEW renamed \in BOOLEAN
    PROVE  /\ SetAside(renamed) \in Files
           /\ SetAside(renamed).checks = file.checks
           /\ file.kind = "valid" => SetAside(renamed) = file
<1>1. CASE file = Malformed /\ renamed
  BY <1>1, FileTypes DEF SetAside
<1>2. CASE ~(file = Malformed /\ renamed)
  BY <1>2 DEF SetAside
<1>. QED BY <1>1, <1>2

\* A handler that is not at rest has the fields of one.
LEMMA HandlerFields ==
    ASSUME StoreTypeOK, NEW j \in Jobs
    PROVE  /\ job[j] = AtRest \/ job[j] \in Handlers
           /\ job[j].pc \in {"waiting", "persisting", "answering"} => Busy(j) /\ job[j] \in Handlers
           /\ job[j] \in Handlers =>
                 /\ job[j].pc \in {"waiting", "persisting", "answering"} /\ job[j].op \in Ops
                 /\ job[j].check \in Checks /\ job[j].value \in Values
                 /\ job[j].snapshot \in Contents /\ job[j].persisted \in BOOLEAN
<1>1. job[j] = AtRest \/ job[j] \in Handlers
  BY DEF StoreTypeOK
<1>2. AtRest.pc = "idle"
  BY DEF AtRest
<1>. QED BY <1>1, <1>2 DEF Handlers, Busy

-----------------------------------------------------------------------------
(* The steps of the store. *)

\* Reading the file again: at the start, or after a failure.
LEMMA ReadKeeps ==
    ASSUME StoreInv, NEW readable \in BOOLEAN, NEW renamed \in BOOLEAN,
           Read(readable, renamed), UNCHANGED <<used, erased, kept>>,
           \/ blind /\ UNCHANGED job
           \/ job' = [j \in Jobs |-> AtRest]
    PROVE  StoreInv'
<1>. USE DEF StoreInv
<1>1. file \in Files /\ file.checks \in Contents
  BY FileTypes DEF StoreTypeOK
<1>2. /\ file' \in Files /\ file'.checks = file.checks
      /\ file.kind = "valid" => file' = file
  BY <1>1, SetAsideKeeps DEF Read
<1>3. /\ memory' \in Contents /\ blind' \in BOOLEAN
      /\ \/ memory' = file.checks
         \/ blind' /\ memory' = Empty
  BY <1>1, FileTypes DEF Read, Parsed
<1>4. \A j \in Jobs : \/ job'[j] = AtRest
                      \/ job'[j] = job[j] /\ job[j].pc # "persisting"
  BY DEF WriterUpToDate
<1>5. job' \in [Jobs -> {AtRest} \union Handlers]
  BY DEF StoreTypeOK
<1>6. AtRest.pc = "idle" /\ \A c \in Checks : Empty[c] = None
  BY DEF AtRest, Empty
<1>7. StoreTypeOK'
  BY <1>2, <1>3, <1>5 DEF StoreTypeOK
<1>8. WriterUpToDate'
  BY <1>4, <1>6 DEF WriterUpToDate
<1>9. AddsAreFresh'
  BY <1>4 DEF AddsAreFresh, Busy
<1>10. \A c \in Checks : memory'[c] = file.checks[c] \/ memory'[c] = None
  BY <1>3, <1>6
<1>11. KnownIsUsed'
  BY <1>2, <1>4, <1>10 DEF KnownIsUsed, Busy
<1>12. DeletesDelete'
  <2>. SUFFICES ASSUME NEW j \in Jobs, Busy(j)'
                PROVE  /\ job'[j].op = "delete" => job'[j].value = None
                       /\ job'[j].pc # "answering" => ~job'[j].persisted
                       /\ IsErasing(j)' => memory'[job'[j].check] = None
                                           /\ file'.checks[job'[j].check] = None
    BY DEF DeletesDelete
  <2>1. job'[j] = job[j] /\ Busy(j)
    BY <1>4 DEF Busy
  <2>2. job[j].check \in Checks
    BY <2>1, HandlerFields DEF Busy
  <2>. QED BY <1>2, <1>10, <2>1, <2>2 DEF DeletesDelete, IsErasing
<1>13. SavedStays'
  BY <1>2 DEF SavedStays
<1>14. KeptInMemory'
  BY <1>2, <1>3 DEF KeptInMemory, SavedStays
<1>15. ErasedStaysGone'
  <2>1. erased \subseteq Checks
    BY DEF StoreTypeOK
  <2>. QED BY <1>2, <1>10, <2>1 DEF ErasedStaysGone
<1>. QED BY <1>7, <1>8, <1>9, <1>11, <1>12, <1>13, <1>14, <1>15

\* A handler that starts.
LEMMA SubmitKeeps ==
    ASSUME StoreInv, NEW j \in Jobs, NEW op \in Ops, NEW c \in Checks, NEW value \in Values,
           Submit(j, op, c, value),
           op = "add" => Fresh(c),
           op # "add" => c \in used,
           op = "delete" => value = None
    PROVE  StoreInv'
<1>. USE DEF StoreInv
<1>. DEFINE new == [pc |-> "waiting", op |-> op, check |-> c, value |-> value,
                    snapshot |-> Empty, persisted |-> FALSE]
<1>1. /\ job' = [job EXCEPT ![j] = new] /\ job[j] = AtRest
      /\ UNCHANGED <<file, memory, blind, used, erased, kept>>
  BY DEF Submit
<1>2. new \in Handlers
  BY FileTypes DEF Handlers
<1>3. job' \in [Jobs -> {AtRest} \union Handlers]
  BY <1>1, <1>2 DEF StoreTypeOK
<1>4. job'[j] = new /\ \A i \in Jobs \ {j} : job'[i] = job[i]
  BY <1>1 DEF StoreTypeOK
<1>5. /\ new.pc = "waiting" /\ new.op = op /\ new.check = c /\ new.value = value
      /\ new.persisted = FALSE
  OBVIOUS
<1>. HIDE DEF new
<1>6. StoreTypeOK'
  BY <1>1, <1>3 DEF StoreTypeOK
<1>7. WriterUpToDate'
  BY <1>1, <1>4, <1>5 DEF WriterUpToDate
<1>8. AddsAreFresh'
  BY <1>1, <1>4, <1>5 DEF AddsAreFresh, Busy, Fresh
<1>9. KnownIsUsed'
  BY <1>1, <1>4, <1>5 DEF KnownIsUsed, Busy
<1>10. DeletesDelete'
  BY <1>1, <1>4, <1>5 DEF DeletesDelete, Busy, IsErasing
<1>11. SavedStays' /\ KeptInMemory' /\ ErasedStaysGone'
  BY <1>1 DEF SavedStays, KeptInMemory, ErasedStaysGone
<1>. QED BY <1>6, <1>7, <1>8, <1>9, <1>10, <1>11

\* The list that an edit starts from, and what becomes of the file meanwhile.
Base(readable) == IF blind THEN Parsed(readable) ELSE memory

LEMMA BaseFacts ==
    ASSUME StoreInv, NEW j \in Jobs, NEW readable \in BOOLEAN, NEW renamed \in BOOLEAN,
           Update(j, readable, renamed)
    PROVE  /\ Base(readable) \in Contents
           /\ \A c \in Checks : \/ Base(readable)[c] = None
                                \/ Base(readable)[c] = memory[c]
                                \/ Base(readable)[c] = file.checks[c]
           /\ ~blind => Base(readable) = memory
           /\ ~blind' => \A c \in Checks : kept[c] # None => Base(readable)[c] = kept[c]
           /\ file' \in Files /\ file'.checks = file.checks
           /\ file.kind = "valid" => file' = file
<1>. USE DEF StoreInv
<1>1. file \in Files /\ file.checks \in Contents /\ memory \in Contents /\ Empty \in Contents
  BY FileTypes DEF StoreTypeOK
<1>2. file' = (IF blind /\ readable THEN SetAside(renamed) ELSE file)
      /\ blind' = (blind /\ ~readable)
  BY DEF Update
<1>3. file' \in Files /\ file'.checks = file.checks /\ (file.kind = "valid" => file' = file)
  BY <1>1, <1>2, SetAsideKeeps
<1>4. \A c \in Checks : Empty[c] = None
  BY DEF Empty
<1>5. CASE ~blind
  BY <1>1, <1>3, <1>5 DEF Base, KeptInMemory
<1>6. CASE blind /\ readable
  BY <1>1, <1>3, <1>6 DEF Base, Parsed, SavedStays
<1>7. CASE blind /\ ~readable
  BY <1>1, <1>2, <1>3, <1>4, <1>7 DEF Base, Parsed, StoreTypeOK
<1>. QED BY <1>5, <1>6, <1>7

\* An edit that is refused changes nothing but what is known of the file.
LEMMA RefusalKeeps ==
    ASSUME StoreInv, NEW j \in Jobs, NEW readable \in BOOLEAN, NEW renamed \in BOOLEAN,
           Update(j, readable, renamed), IsRefused(j, Base(readable), readable)
    PROVE  StoreInv'
<1>. USE DEF StoreInv
<1>1. /\ job[j].pc = "waiting" /\ MayWrite
      /\ memory' = Base(readable)
      /\ job' = [job EXCEPT ![j].pc = "answering"]
      /\ UNCHANGED <<used, kept, erased>>
      /\ blind' = (blind /\ ~readable)
  BY DEF Update, Base
<1>2. job[j] \in Handlers /\ Busy(j) /\ job[j].check \in Checks
  BY <1>1, HandlerFields
<1>3. /\ job'[j] \in Handlers
      /\ job'[j].pc = "answering" /\ job'[j].op = job[j].op /\ job'[j].check = job[j].check
      /\ job'[j].value = job[j].value /\ job'[j].persisted = job[j].persisted
      /\ \A i \in Jobs \ {j} : job'[i] = job[i]
  BY <1>1, <1>2 DEF StoreTypeOK, Handlers
<1>4. job' \in [Jobs -> {AtRest} \union Handlers]
  BY <1>1, <1>3 DEF StoreTypeOK
<1>5. \A i \in Jobs : job'[i] # AtRest => Busy(i)
  BY <1>2, <1>3 DEF Busy
<1>6. memory' \in Contents /\ blind' \in BOOLEAN /\ file' \in Files
  BY <1>1, BaseFacts DEF StoreTypeOK
<1>7. StoreTypeOK'
  BY <1>1, <1>4, <1>6 DEF StoreTypeOK
<1>8. WriterUpToDate'
  BY <1>1, <1>3 DEF WriterUpToDate, MayWrite
<1>9. AddsAreFresh'
  BY <1>1, <1>2, <1>3 DEF AddsAreFresh, Busy
<1>10. \A c \in Checks : \/ memory'[c] = None
                         \/ memory'[c] = memory[c]
                         \/ memory'[c] = file.checks[c]
  BY <1>1, BaseFacts
<1>11. file'.checks = file.checks /\ (file.kind = "valid" => file' = file)
  BY BaseFacts
<1>12. KnownIsUsed'
  BY <1>1, <1>2, <1>3, <1>5, <1>10, <1>11 DEF KnownIsUsed, Busy
<1>13. DeletesDelete'
  <2>. SUFFICES ASSUME NEW i \in Jobs, Busy(i)'
                PROVE  /\ job'[i].op = "delete" => job'[i].value = None
                       /\ job'[i].pc # "answering" => ~job'[i].persisted
                       /\ IsErasing(i)' => memory'[job'[i].check] = None
                                           /\ file'.checks[job'[i].check] = None
    BY DEF DeletesDelete
  <2>1. CASE i = j
    <3>1. ~job[j].persisted
      BY <1>1, <1>2 DEF DeletesDelete
    <3>. QED BY <1>2, <1>3, <2>1, <3>1 DEF DeletesDelete, IsErasing
  <2>2. CASE i # j
    <3>1. job'[i] = job[i] /\ Busy(i)
      BY <1>3, <2>2 DEF Busy
    <3>2. job[i].check \in Checks
      BY <3>1, HandlerFields DEF Busy
    <3>. QED BY <1>10, <1>11, <3>1, <3>2 DEF DeletesDelete, IsErasing
  <2>. QED BY <2>1, <2>2
<1>14. SavedStays' /\ KeptInMemory'
  BY <1>1, <1>11, BaseFacts DEF SavedStays, KeptInMemory
<1>15. ErasedStaysGone'
  <2>1. erased \subseteq Checks
    BY DEF StoreTypeOK
  <2>. QED BY <1>1, <1>10, <1>11, <2>1 DEF ErasedStaysGone
<1>. QED BY <1>7, <1>8, <1>9, <1>12, <1>13, <1>14, <1>15

\* An edit changes its own check, which is a new one or one that is there.
LEMMA EditKeeps ==
    ASSUME StoreInv, NEW j \in Jobs, NEW readable \in BOOLEAN, NEW renamed \in BOOLEAN,
           Update(j, readable, renamed), ~IsRefused(j, Base(readable), readable)
    PROVE  StoreInv'
<1>. USE DEF StoreInv
<1>. DEFINE c == job[j].check
            edited == [Base(readable) EXCEPT ![c] = job[j].value]
<1>1. /\ job[j].pc = "waiting" /\ MayWrite
      /\ memory' = edited
      /\ job' = [job EXCEPT ![j].pc = "persisting", ![j].snapshot = edited]
      /\ used' = used \union {c}
      /\ kept' = [kept EXCEPT ![c] = None]
      /\ erased' = erased
      /\ blind' = (blind /\ ~readable)
  BY DEF Update, Base
<1>2. job[j] \in Handlers /\ Busy(j) /\ c \in Checks /\ job[j].value \in Values
  BY <1>1, HandlerFields
<1>3. edited \in Contents /\ edited[c] = job[j].value
      /\ \A d \in Checks \ {c} : edited[d] = Base(readable)[d]
  BY <1>2, BaseFacts DEF Contents
<1>4. ~blind'
  BY <1>1 DEF IsRefused
<1>. HIDE DEF edited
<1>5. /\ job'[j] \in Handlers
      /\ job'[j].pc = "persisting" /\ job'[j].op = job[j].op /\ job'[j].check = c
      /\ job'[j].value = job[j].value /\ job'[j].persisted = job[j].persisted
      /\ job'[j].snapshot = edited
      /\ \A i \in Jobs \ {j} : job'[i] = job[i]
  BY <1>1, <1>2, <1>3 DEF StoreTypeOK, Handlers
<1>6. job' \in [Jobs -> {AtRest} \union Handlers]
  <2>1. \A i \in Jobs : job'[i] \in {AtRest} \union Handlers
    BY <1>5 DEF StoreTypeOK
  <2>2. \E x : job' = [job EXCEPT ![j] = x]
    BY <1>1
  <2>. QED BY <2>1, <2>2 DEF StoreTypeOK
<1>7. \A i \in Jobs \ {j} : Busy(i)' => Busy(i) /\ job'[i] = job[i] /\ job[i].check \in Checks
  BY <1>5, HandlerFields DEF Busy
<1>8. file' \in Files /\ file'.checks = file.checks /\ (file.kind = "valid" => file' = file)
  BY BaseFacts
<1>9. StoreTypeOK'
  <2>1. used' \in SUBSET Checks /\ kept' \in Contents /\ erased' \in SUBSET Checks
    BY <1>1, <1>2 DEF StoreTypeOK, Contents, Values
  <2>2. memory' \in Contents /\ blind' \in BOOLEAN
    BY <1>1, <1>3 DEF StoreTypeOK
  <2>. QED BY <1>6, <1>8, <2>1, <2>2 DEF StoreTypeOK
<1>10. WriterUpToDate'
  <2>1. \A i \in Jobs \ {j} : job'[i].pc # "persisting"
    BY <1>1, <1>5 DEF MayWrite
  <2>2. ~blind' /\ job'[j].snapshot = memory' /\ memory'[job'[j].check] = job'[j].value
    BY <1>1, <1>3, <1>4, <1>5
  <2>. QED BY <2>1, <2>2 DEF WriterUpToDate
<1>11. AddsAreFresh'
  <2>. SUFFICES ASSUME NEW k \in Jobs, Busy(k)', job'[k].op = "add"
                PROVE  /\ job'[k].pc = "waiting" => job'[k].check \notin used'
                       /\ \A i \in Jobs \ {k} : Busy(i)' /\ job'[i].op = "add"
                             => job'[i].check # job'[k].check
    BY DEF AddsAreFresh
  <2>1. \A i \in Jobs : Busy(i)' => Busy(i) /\ job'[i].op = job[i].op
                                    /\ job'[i].check = job[i].check
    BY <1>2, <1>5, <1>7
  <2>2. \A i \in Jobs \ {k} : Busy(i)' /\ job'[i].op = "add" => job'[i].check # job'[k].check
    BY <2>1 DEF AddsAreFresh
  <2>3. CASE job'[k].pc = "waiting"
    <3>1. k # j
      BY <1>5, <2>3
    <3>2. job'[k] = job[k] /\ Busy(k) /\ job[k].check \notin used
      BY <1>7, <2>3, <3>1 DEF AddsAreFresh
    <3>3. job[k].check # c
      <4>1. CASE job[j].op = "add"
        BY <1>2, <3>1, <3>2, <4>1 DEF AddsAreFresh
      <4>2. CASE job[j].op # "add"
        BY <1>2, <3>2, <4>2 DEF KnownIsUsed
      <4>. QED BY <4>1, <4>2
    <3>4. job'[k].check \notin used'
      BY <1>1, <3>2, <3>3
    <3>. QED BY <2>2, <3>4
  <2>. QED BY <2>2, <2>3
<1>12. KnownIsUsed'
  <2>1. \A d \in Checks : memory'[d] # None \/ file'.checks[d] # None => d \in used'
    <3>. SUFFICES ASSUME NEW d \in Checks \ {c}, memory'[d] # None \/ file'.checks[d] # None
                  PROVE  d \in used
      BY <1>1
    <3>1. memory'[d] = Base(readable)[d]
      BY <1>1, <1>3
    <3>. QED BY <1>8, <3>1, BaseFacts DEF KnownIsUsed
  <2>2. \A i \in Jobs : Busy(i)' /\ job'[i].op # "add" => job'[i].check \in used'
    <3>. SUFFICES ASSUME NEW i \in Jobs, Busy(i)', job'[i].op # "add"
                  PROVE  job'[i].check \in used'
      OBVIOUS
    <3>1. CASE i = j
      BY <1>1, <1>5, <3>1
    <3>2. CASE i # j
      <4>1. Busy(i) /\ job'[i] = job[i]
        BY <1>7, <3>2
      <4>. QED BY <1>1, <4>1 DEF KnownIsUsed
    <3>. QED BY <3>1, <3>2
  <2>3. erased' \subseteq used'
    BY <1>1 DEF KnownIsUsed
  <2>. QED BY <2>1, <2>2, <2>3 DEF KnownIsUsed
\* Whatever is gone for good is not what this handler changes.
<1>13. \A d \in used : Base(readable)[d] = None => edited[d] = None
  <2>. SUFFICES ASSUME NEW d \in used, Base(readable)[d] = None
                PROVE  edited[d] = None
    OBVIOUS
  <2>1. CASE d = c
    <3>1. job[j].op # "add"
      BY <1>1, <1>2, <2>1 DEF AddsAreFresh
    <3>. QED BY <2>1, <3>1 DEF IsRefused
  <2>2. CASE d # c
    BY <1>3, <2>2 DEF StoreTypeOK
  <2>. QED BY <2>1, <2>2
<1>14. \A d \in used : memory[d] = None /\ file.checks[d] = None
                         => memory'[d] = None /\ file'.checks[d] = None
  <2>1. used \subseteq Checks
    BY DEF StoreTypeOK
  <2>. QED BY <1>1, <1>8, <1>13, <2>1, BaseFacts
<1>15. DeletesDelete'
  <2>. SUFFICES ASSUME NEW i \in Jobs, Busy(i)'
                PROVE  /\ job'[i].op = "delete" => job'[i].value = None
                       /\ job'[i].pc # "answering" => ~job'[i].persisted
                       /\ IsErasing(i)' => memory'[job'[i].check] = None
                                           /\ file'.checks[job'[i].check] = None
    BY DEF DeletesDelete
  <2>1. CASE i = j
    <3>1. ~job[j].persisted /\ (job[j].op = "delete" => job[j].value = None)
      BY <1>1, <1>2 DEF DeletesDelete
    <3>. QED BY <1>5, <2>1, <3>1 DEF IsErasing
  <2>2. CASE i # j
    <3>1. job'[i] = job[i] /\ Busy(i)
      BY <1>7, <2>2
    <3>2. IsErasing(i) => job[i].check \in used
      BY <3>1 DEF IsErasing, KnownIsUsed
    <3>. QED BY <1>14, <3>1, <3>2 DEF DeletesDelete, IsErasing
  <2>. QED BY <2>1, <2>2
<1>16. \A d \in Checks : kept'[d] # None => d # c /\ kept'[d] = kept[d]
  BY <1>1, <1>2 DEF StoreTypeOK, Contents
<1>17. SavedStays'
  BY <1>8, <1>16 DEF SavedStays
<1>18. KeptInMemory'
  BY <1>1, <1>3, <1>4, <1>16, BaseFacts DEF KeptInMemory
<1>19. ErasedStaysGone'
  BY <1>1, <1>14 DEF ErasedStaysGone, KnownIsUsed
<1>. QED BY <1>9, <1>10, <1>11, <1>12, <1>15, <1>17, <1>18, <1>19

\* Writing the file, or failing to.
LEMMA PersistKeeps ==
    ASSUME StoreInv, NEW j \in Jobs, NEW ok \in BOOLEAN, Persist(j, ok)
    PROVE  StoreInv'
<1>. USE DEF StoreInv
<1>. DEFINE c == job[j].check
<1>1. /\ job[j].pc = "persisting"
      /\ file' = (IF ok THEN Valid(job[j].snapshot) ELSE file)
      /\ job' = [job EXCEPT ![j].pc = "answering", ![j].persisted = ok, ![j].snapshot = Empty]
      /\ kept' = (IF ok THEN [kept EXCEPT ![c] = job[j].value] ELSE kept)
      /\ UNCHANGED <<memory, blind, used, erased>>
  BY DEF Persist
<1>2. job[j] \in Handlers /\ Busy(j) /\ c \in Checks /\ job[j].value \in Values
  BY <1>1, HandlerFields
<1>3. /\ job'[j] \in Handlers
      /\ job'[j].pc = "answering" /\ job'[j].op = job[j].op /\ job'[j].check = c
      /\ job'[j].value = job[j].value /\ job'[j].persisted = ok
      /\ \A i \in Jobs \ {j} : job'[i] = job[i]
  <2>. DEFINE new == [job[j] EXCEPT !.pc = "answering", !.persisted = ok, !.snapshot = Empty]
  <2>1. job'[j] = new /\ \A i \in Jobs \ {j} : job'[i] = job[i]
    BY <1>1 DEF StoreTypeOK
  <2>2. Empty \in Contents
    BY FileTypes
  <2>3. /\ new \in Handlers
        /\ new.pc = "answering" /\ new.op = job[j].op /\ new.check = c
        /\ new.value = job[j].value /\ new.persisted = ok
    BY <1>2, <2>2 DEF Handlers
  <2>. HIDE DEF new
  <2>. QED BY <2>1, <2>3
<1>4. job' \in [Jobs -> {AtRest} \union Handlers]
  <2>1. \A i \in Jobs : job'[i] \in {AtRest} \union Handlers
    BY <1>3 DEF StoreTypeOK
  <2>2. \E x : job' = [job EXCEPT ![j] = x]
    BY <1>1
  <2>. QED BY <2>1, <2>2 DEF StoreTypeOK
<1>5. ~blind /\ job[j].snapshot = memory /\ memory[c] = job[j].value
  BY <1>1 DEF WriterUpToDate
<1>6. memory \in Contents /\ file \in Files
  BY DEF StoreTypeOK
<1>7. /\ file' \in Files
      /\ ok => file' = Valid(memory) /\ file'.checks = memory /\ file'.kind = "valid"
      /\ ~ok => file' = file
  BY <1>1, <1>5, <1>6, FileTypes
<1>8. \A i \in Jobs \ {j} : Busy(i)' => Busy(i) /\ job'[i] = job[i] /\ job[i].check \in Checks
  BY <1>3, HandlerFields DEF Busy
<1>9. \A i \in Jobs : Busy(i)' => Busy(i) /\ job'[i].op = job[i].op
                                  /\ job'[i].check = job[i].check
                                  /\ (job'[i].pc = "waiting" => job[i].pc = "waiting")
  <2>. SUFFICES ASSUME NEW i \in Jobs, Busy(i)'
                PROVE  Busy(i) /\ job'[i].op = job[i].op /\ job'[i].check = job[i].check
                       /\ (job'[i].pc = "waiting" => job[i].pc = "waiting")
    OBVIOUS
  <2>1. CASE i = j
    BY <1>2, <1>3, <2>1
  <2>2. CASE i # j
    BY <1>8, <2>2
  <2>. QED BY <2>1, <2>2
<1>10. StoreTypeOK'
  <2>1. kept' \in Contents
    BY <1>1, <1>2 DEF StoreTypeOK, Contents
  <2>. QED BY <1>1, <1>4, <1>7, <2>1 DEF StoreTypeOK
<1>11. WriterUpToDate'
  BY <1>1, <1>3, ZenonT(40) DEF WriterUpToDate
<1>12. AddsAreFresh'
  <2>. SUFFICES ASSUME NEW k \in Jobs, Busy(k)', job'[k].op = "add"
                PROVE  /\ job'[k].pc = "waiting" => job'[k].check \notin used'
                       /\ \A i \in Jobs \ {k} : Busy(i)' /\ job'[i].op = "add"
                             => job'[i].check # job'[k].check
    BY DEF AddsAreFresh
  <2>1. Busy(k) /\ job[k].op = "add" /\ job'[k].check = job[k].check
        /\ (job'[k].pc = "waiting" => job[k].pc = "waiting")
    BY <1>9
  <2>2. ASSUME NEW i \in Jobs \ {k}, Busy(i)', job'[i].op = "add"
        PROVE  job'[i].check # job'[k].check
    <3>1. Busy(i) /\ job[i].op = "add" /\ job'[i].check = job[i].check
      BY <1>9, <2>2
    <3>. QED BY <2>1, <3>1 DEF AddsAreFresh
  <2>3. job'[k].pc = "waiting" => job'[k].check \notin used'
    BY <1>1, <2>1 DEF AddsAreFresh
  <2>. QED BY <2>2, <2>3
<1>13. KnownIsUsed'
  <2>1. \A d \in Checks : memory'[d] # None \/ file'.checks[d] # None => d \in used'
    BY <1>1, <1>7 DEF KnownIsUsed
  <2>2. ASSUME NEW i \in Jobs, Busy(i)', job'[i].op # "add"
        PROVE  job'[i].check \in used'
    <3>1. Busy(i) /\ job[i].op # "add" /\ job'[i].check = job[i].check
      BY <1>9, <2>2
    <3>. QED BY <1>1, <3>1 DEF KnownIsUsed
  <2>. QED BY <1>1, <2>1, <2>2 DEF KnownIsUsed
<1>14. DeletesDelete'
  <2>. SUFFICES ASSUME NEW i \in Jobs, Busy(i)'
                PROVE  /\ job'[i].op = "delete" => job'[i].value = None
                       /\ job'[i].pc # "answering" => ~job'[i].persisted
                       /\ IsErasing(i)' => memory'[job'[i].check] = None
                                           /\ file'.checks[job'[i].check] = None
    BY DEF DeletesDelete
  <2>1. CASE i = j
    <3>1. job[j].op = "delete" => job[j].value = None
      BY <1>2 DEF DeletesDelete
    <3>. QED BY <1>1, <1>3, <1>5, <1>7, <2>1, <3>1 DEF IsErasing
  <2>2. CASE i # j
    BY <1>1, <1>7, <1>8, <2>2 DEF DeletesDelete, IsErasing
  <2>. QED BY <2>1, <2>2
<1>15. KeptInMemory'
  <2>1. \A d \in Checks : kept'[d] # None => memory[d] = kept'[d]
    BY <1>1, <1>2, <1>5 DEF KeptInMemory, StoreTypeOK, Contents
  <2>. QED BY <1>1, <2>1 DEF KeptInMemory
<1>16. SavedStays'
  <2>1. CASE ok
    BY <1>1, <1>5, <1>7, <1>15, <2>1 DEF SavedStays, KeptInMemory
  <2>2. CASE ~ok
    BY <1>1, <1>7, <2>2 DEF SavedStays
  <2>. QED BY <2>1, <2>2
<1>17. ErasedStaysGone'
  <2>1. erased \subseteq Checks
    BY DEF StoreTypeOK
  <2>. QED BY <1>1, <1>7, <2>1 DEF ErasedStaysGone
<1>. QED BY <1>11, <1>12, <1>13, <1>14, <1>15, <1>16, <1>17, <1>10

\* The end of a handler: it may erase the rows of what is gone for good.
LEMMA AnswerKeeps ==
    ASSUME StoreInv, NEW j \in Jobs, NEW rowsGone \in BOOLEAN, Answer(j, rowsGone)
    PROVE  StoreInv'
<1>. USE DEF StoreInv
<1>1. /\ job[j].pc = "answering" /\ job' = [job EXCEPT ![j] = AtRest]
      /\ rowsGone => IsErasing(j)
      /\ erased' = (IF rowsGone THEN erased \union {job[j].check} ELSE erased)
      /\ UNCHANGED <<file, memory, blind, used, kept>>
  BY DEF Answer
<1>2. Busy(j) /\ job[j].check \in Checks
  BY <1>1, HandlerFields
<1>3. AtRest.pc = "idle" /\ job'[j] = AtRest /\ \A i \in Jobs \ {j} : job'[i] = job[i]
  BY <1>1 DEF AtRest, StoreTypeOK
<1>4. \A i \in Jobs : Busy(i)' => i # j /\ Busy(i) /\ job'[i] = job[i]
  BY <1>3 DEF Busy
<1>5. job' \in [Jobs -> {AtRest} \union Handlers] /\ erased' \in SUBSET Checks
  BY <1>1, <1>2 DEF StoreTypeOK
<1>6. StoreTypeOK'
  BY <1>1, <1>5 DEF StoreTypeOK
<1>7. WriterUpToDate'
  BY <1>1, <1>3 DEF WriterUpToDate
<1>8. AddsAreFresh'
  BY <1>1, <1>4 DEF AddsAreFresh
<1>9. rowsGone => /\ job[j].check \in used
                  /\ memory[job[j].check] = None /\ file.checks[job[j].check] = None
  BY <1>1, <1>2 DEF KnownIsUsed, DeletesDelete, IsErasing
<1>10. KnownIsUsed'
  BY <1>1, <1>4, <1>9 DEF KnownIsUsed
<1>11. DeletesDelete'
  <2>1. \A i \in Jobs : Busy(i)' => (IsErasing(i)' => IsErasing(i))
    BY <1>4 DEF IsErasing
  <2>. QED BY <1>1, <1>4, <2>1 DEF DeletesDelete
<1>12. SavedStays' /\ KeptInMemory'
  BY <1>1 DEF SavedStays, KeptInMemory
<1>13. ErasedStaysGone'
  BY <1>1, <1>9 DEF ErasedStaysGone
<1>. QED BY <1>6, <1>7, <1>8, <1>10, <1>11, <1>12, <1>13

\* A file that somebody destroys.
LEMMA CorruptKeeps ==
    ASSUME StoreInv, Corrupt
    PROVE  StoreInv'
<1>. USE DEF StoreInv
<1>1. file' = Malformed /\ kept' = Empty /\ UNCHANGED <<memory, blind, job, used, erased>>
  BY DEF Corrupt
<1>2. file' \in Files /\ file'.checks = Empty /\ Empty \in Contents
  BY <1>1, FileTypes
<1>3. \A c \in Checks : Empty[c] = None
  BY DEF Empty
<1>4. StoreTypeOK' /\ WriterUpToDate' /\ AddsAreFresh'
  BY <1>1, <1>2 DEF StoreTypeOK, WriterUpToDate, AddsAreFresh, Busy
<1>5. KnownIsUsed'
  BY <1>1, <1>2, <1>3 DEF KnownIsUsed, Busy
<1>6. DeletesDelete'
  <2>1. \A i \in Jobs : Busy(i) => job[i].check \in Checks
    BY HandlerFields DEF Busy
  <2>. QED BY <1>1, <1>2, <1>3, <2>1 DEF DeletesDelete, Busy, IsErasing
<1>7. SavedStays' /\ KeptInMemory'
  BY <1>1, <1>3 DEF SavedStays, KeptInMemory
<1>8. ErasedStaysGone'
  <2>1. erased \subseteq Checks
    BY DEF StoreTypeOK
  <2>. QED BY <1>1, <1>2, <1>3, <2>1 DEF ErasedStaysGone
<1>. QED BY <1>4, <1>5, <1>6, <1>7, <1>8

\* The invariant of the store says nothing of the wizard.
LEMMA StutterKeeps ==
    ASSUME StoreInv, UNCHANGED storeVars
    PROVE  StoreInv'
BY DEF StoreInv, storeVars, StoreTypeOK, WriterUpToDate, AddsAreFresh, KnownIsUsed,
       DeletesDelete, SavedStays, KeptInMemory, ErasedStaysGone, Busy, IsErasing

\* An edit, accepted or refused.
LEMMA UpdateKeeps ==
    ASSUME StoreInv, NEW j \in Jobs, NEW readable \in BOOLEAN, NEW renamed \in BOOLEAN,
           Update(j, readable, renamed)
    PROVE  StoreInv'
BY EditKeeps, RefusalKeeps

\* StoreInv is inductive.
LEMMA StoreInvInductive ==
    ASSUME StoreInv, [Next]_vars
    PROVE  StoreInv'
<1>1. ASSUME NEW type \in Types, StartWizard(type)
      PROVE  StoreInv'
  BY <1>1, StutterKeeps DEF StartWizard
<1>2. CASE LeaveWizard \/ AnswerPort \/ AnswerUrl \/ \E skipped \in BOOLEAN : AnswerKeyword(skipped)
  BY <1>2, StutterKeeps DEF LeaveWizard, AnswerPort, AnswerUrl, AnswerKeyword
<1>3. ASSUME NEW j \in Jobs, NEW c \in Checks, AnswerLast(j, c)
      PROVE  StoreInv'
  <2>1. Fresh(c) /\ Submit(j, "add", c, "on")
    BY <1>3 DEF AnswerLast, SubmitAdd
  <2>. QED BY <1>3, <2>1, SubmitKeeps DEF Ops, Values
<1>4. ASSUME NEW j \in Jobs, Finish(j)
      PROVE  StoreInv'
  BY <1>4, AnswerKeeps DEF Finish
<1>5. ASSUME NEW j \in Jobs, NEW rowsGone \in BOOLEAN, EndOther(j, rowsGone)
      PROVE  StoreInv'
  BY <1>5, AnswerKeeps DEF EndOther
<1>6. ASSUME NEW readable \in BOOLEAN, NEW renamed \in BOOLEAN, Crash(readable, renamed)
      PROVE  StoreInv'
  BY <1>6, ReadKeeps DEF Crash, StoreCrash
<1>7. ASSUME NEW j \in Jobs, NEW c \in Checks, TapToggle(j, c) \/ TapDelete(j, c)
      PROVE  StoreInv'
  <2>1. CASE TapToggle(j, c)
    <3>1. Submit(j, "toggle", c, Flip(memory[c])) /\ c \in used
      BY <1>7, <2>1 DEF TapToggle, StoreInv, KnownIsUsed
    <3>. QED BY <1>7, <3>1, SubmitKeeps DEF Ops, Values, Flip
  <2>2. CASE TapDelete(j, c)
    <3>1. Submit(j, "delete", c, None) /\ c \in used
      BY <2>2 DEF TapDelete
    <3>. QED BY <1>7, <3>1, SubmitKeeps DEF Ops, Values
  <2>. QED BY <1>7, <2>1, <2>2
<1>8. ASSUME NEW readable \in BOOLEAN, NEW renamed \in BOOLEAN, Look(readable, renamed)
      PROVE  StoreInv'
  BY <1>8, ReadKeeps DEF Look
<1>9. CASE UNCHANGED vars
  BY <1>9, StutterKeeps DEF vars
<1>. QED BY <1>1, <1>2, <1>3, <1>4, <1>5, <1>6, <1>7, <1>8, <1>9,
            UpdateKeeps, PersistKeeps, CorruptKeeps DEF Next, StoreStep

LEMMA StoreInvHolds == Spec => []StoreInv
<1>1. Init => StoreInv
  <2>. SUFFICES ASSUME Init PROVE StoreInv
    OBVIOUS
  <2>1. PICK checks \in [Checks -> {None, "on"}] :
            file = Valid(checks) /\ memory = checks /\ kept = checks
    BY DEF Init, StoreInit, Valid
  <2>2. checks \in Contents
    BY DEF Contents, Values
  <2>3. file \in Files /\ file.checks = checks /\ file.kind = "valid"
    BY <2>1, <2>2, FileTypes
  <2>4. /\ job = [j \in Jobs |-> AtRest] /\ blind = FALSE /\ erased = {}
        /\ used = {c \in Checks : memory[c] # None}
    BY DEF Init, StoreInit
  <2>5. \A j \in Jobs : job[j] = AtRest /\ job[j].pc = "idle"
    BY <2>4 DEF AtRest
  <2>6. StoreTypeOK
    BY <2>1, <2>2, <2>3, <2>4 DEF StoreTypeOK
  <2>7. WriterUpToDate /\ AddsAreFresh /\ DeletesDelete
    BY <2>5 DEF WriterUpToDate, AddsAreFresh, DeletesDelete, Busy
  <2>8. KnownIsUsed
    BY <2>1, <2>3, <2>4, <2>5 DEF KnownIsUsed, Busy
  <2>9. SavedStays /\ KeptInMemory /\ ErasedStaysGone
    BY <2>1, <2>3, <2>4 DEF SavedStays, KeptInMemory, ErasedStaysGone
  <2>. QED BY <2>6, <2>7, <2>8, <2>9 DEF StoreInv
<1>2. StoreInv /\ [Next]_vars => StoreInv'
  BY StoreInvInductive
<1>. QED BY <1>1, <1>2, PTL DEF Spec

\* What was acknowledged as saved is in the file, whatever is written, fails,
\* crashes or cannot be read afterwards.
THEOREM SavedChecksStay == Spec => []SavedStays
<1>1. StoreInv => SavedStays
  BY DEF StoreInv
<1>. QED BY <1>1, StoreInvHolds, PTL

\* No check comes back whose rows were erased.
THEOREM ErasedChecksStayGone == Spec => []ErasedStaysGone
<1>1. StoreInv => ErasedStaysGone
  BY DEF StoreInv
<1>. QED BY <1>1, StoreInvHolds, PTL

-----------------------------------------------------------------------------
(* The store is a DurableStore. *)

\* Reading the file again is a Reopen.
LEMMA ReadImplements ==
    ASSUME StoreInv, NEW readable \in BOOLEAN, NEW renamed \in BOOLEAN, Read(readable, renamed)
    PROVE  Durable!Reopen
<1>1. file \in Files
  BY DEF StoreInv, StoreTypeOK
<1>2. file'.checks = file.checks
  BY <1>1, SetAsideKeeps DEF Read
<1>. QED BY <1>2 DEF Read, Parsed, Durable!Reopen, Durable!Nothing, Empty

\* An edit is an Edit of what is known last, or else a Reopen or nothing.
LEMMA UpdateImplements ==
    ASSUME StoreInv, NEW j \in Jobs, NEW readable \in BOOLEAN, NEW renamed \in BOOLEAN,
           Update(j, readable, renamed)
    PROVE  \/ Durable!Edit \/ Durable!Reopen
           \/ UNCHANGED <<memory, file.checks, ~blind>>
<1>1. file'.checks = file.checks
  BY BaseFacts
<1>2. blind' = (blind /\ ~readable) /\ blind \in BOOLEAN
  BY DEF Update, StoreInv, StoreTypeOK
<1>3. CASE IsRefused(j, Base(readable), readable)
  <2>1. memory' = Base(readable)
    BY <1>3 DEF Update, Base
  <2>2. CASE ~blind
    BY <1>1, <1>2, <2>1, <2>2 DEF Base
  <2>3. CASE blind
    BY <1>1, <1>2, <2>1, <2>3 DEF Base, Parsed, Durable!Reopen, Durable!Nothing, Empty
  <2>. QED BY <2>2, <2>3
<1>4. CASE ~IsRefused(j, Base(readable), readable)
  <2>1. memory' = [Base(readable) EXCEPT ![job[j].check] = job[j].value]
        /\ job[j].pc = "waiting"
    BY <1>4 DEF Update, Base
  <2>2. job[j].check \in Checks /\ job[j].value \in Values
    BY <2>1, HandlerFields DEF StoreInv
  <2>3. ~blind' /\ Base(readable) = Durable!Latest
    BY <1>2, <1>4 DEF IsRefused, Base, Parsed, Durable!Latest
  <2>. QED BY <1>1, <1>2, <2>1, <2>2, <2>3 DEF Durable!Edit
<1>. QED BY <1>3, <1>4

\* Every step is one of the abstract store, or none to it.
LEMMA StepImplements ==
    ASSUME StoreInv, [Next]_vars
    PROVE  Durable!Next \/ UNCHANGED <<memory, file.checks, ~blind>>
<1>1. ASSUME UNCHANGED <<file, memory, blind>>
      PROVE  UNCHANGED <<memory, file.checks, ~blind>>
  BY <1>1
<1>2. ASSUME NEW type \in Types, StartWizard(type)
      PROVE  UNCHANGED <<file, memory, blind>>
  BY <1>2 DEF StartWizard, storeVars
<1>3. CASE LeaveWizard \/ AnswerPort \/ AnswerUrl \/ \E skipped \in BOOLEAN : AnswerKeyword(skipped)
  BY <1>1, <1>3 DEF LeaveWizard, AnswerPort, AnswerUrl, AnswerKeyword, storeVars
<1>4. ASSUME NEW j \in Jobs, NEW c \in Checks,
             AnswerLast(j, c) \/ TapToggle(j, c) \/ TapDelete(j, c)
      PROVE  UNCHANGED <<file, memory, blind>>
  BY <1>4 DEF AnswerLast, TapToggle, TapDelete, SubmitAdd, Submit
<1>5. ASSUME NEW j \in Jobs, NEW rowsGone \in BOOLEAN,
             Finish(j) \/ EndOther(j, rowsGone)
      PROVE  UNCHANGED <<file, memory, blind>>
  BY <1>5 DEF Finish, EndOther, Answer
<1>6. ASSUME NEW readable \in BOOLEAN, NEW renamed \in BOOLEAN,
             Crash(readable, renamed) \/ Look(readable, renamed)
      PROVE  Durable!Reopen
  BY <1>6, ReadImplements DEF Crash, StoreCrash, Look
<1>7. ASSUME NEW j \in Jobs, NEW ok \in BOOLEAN, Persist(j, ok)
      PROVE  Durable!Save \/ UNCHANGED <<memory, file.checks, ~blind>>
  <2>1. job[j].pc = "persisting" /\ UNCHANGED <<memory, blind>>
        /\ file' = (IF ok THEN Valid(job[j].snapshot) ELSE file)
    BY <1>7 DEF Persist
  <2>2. ~blind /\ job[j].snapshot = memory
    BY <2>1 DEF StoreInv, WriterUpToDate
  <2>. QED BY <2>1, <2>2 DEF Durable!Save, Valid
<1>8. ASSUME Corrupt PROVE Durable!Destroy
  <2>1. file' = Malformed /\ UNCHANGED <<memory, blind>>
    BY <1>8 DEF Corrupt
  <2>2. file'.checks = [c \in Checks |-> None]
    BY <2>1 DEF Malformed, Empty
  <2>. QED BY <2>1, <2>2 DEF Durable!Destroy, Durable!Nothing
<1>9. CASE UNCHANGED vars
  BY <1>1, <1>9 DEF vars, storeVars
<1>. QED BY <1>1, <1>2, <1>3, <1>4, <1>5, <1>6, <1>7, <1>8, <1>9, UpdateImplements
         DEF Next, StoreStep, Durable!Next

\* The list of checks with its file does what DurableStore promises: no write
\* brings back an older list, and nothing is written while the file is unread.
THEOREM ImplementsDurableStore == Spec => Implements
<1>1. Init => Durable!Init
  <2>. SUFFICES ASSUME Init PROVE Durable!Init
    OBVIOUS
  <2>1. PICK checks \in [Checks -> {None, "on"}] : file = Valid(checks) /\ memory = checks
    BY DEF Init, StoreInit, Valid
  <2>2. checks \in [Checks -> Values] /\ file.checks = checks /\ blind = FALSE
    BY <2>1 DEF Init, StoreInit, Values, Valid
  <2>. QED BY <2>1, <2>2 DEF Durable!Init, Durable!Contents
<1>2. StoreInv /\ [Next]_vars => [Durable!Next]_<<memory, file.checks, ~blind>>
  BY StepImplements
<1>. QED BY <1>1, <1>2, StoreInvHolds, PTL DEF Spec, Implements, Durable!Spec

-----------------------------------------------------------------------------
(* The wizard. *)

\* The answers that a step may rely on are those of its own wizard.
AnswersAreOwn ==
    /\ step = "port" => data.type \in {"tcp", "ssl"}
    /\ step \in {"url", "keyword", "status"} => data.type = "http"
    /\ step \in {"keyword", "status"} => data.url = data.wizard
    /\ step = "status" => data.keyword \in {Skipped, data.wizard}
    /\ step = "warn_days" => data.type = "ssl" /\ data.port = data.wizard

WizardTypeOK ==
    /\ step \in Steps
    /\ data \in Definitions
    /\ wizards \in 0..MaxWizards
    /\ fields \in [Jobs -> Definitions]

WizardInv ==
    /\ WizardTypeOK
    /\ AnswersAreOwn
    /\ OwnAnswers

\* What a wizard that has not begun knows.
LEMMA NoDataTyped == NoData \in Definitions /\ NoFields = NoData
<1>1. Unset \in Stamps
  BY WizardsAssumption DEF Unset, Stamps
<1>. QED BY <1>1 DEF NoData, NoFields, Definitions, Types

\* A job that begins takes over the answers of the wizard that ends.
LEMMA LastAnswerKeeps ==
    ASSUME WizardInv, NEW j \in Jobs, NEW c \in Checks, AnswerLast(j, c)
    PROVE  WizardInv'
<1>. USE DEF WizardInv
<1>. DEFINE new == CASE data.type = "tcp" -> [NoFields EXCEPT !.wizard = data.wizard,
                                                !.port = data.wizard]
                     [] data.type = "http" -> [data EXCEPT !.port = Unset]
                     [] OTHER -> [data EXCEPT !.url = Unset, !.keyword = Unset]
<1>1. /\ step = LastStep(data.type)
      /\ fields' = [fields EXCEPT ![j] = new]
      /\ UNCHANGED <<step, data, wizards>>
  BY DEF AnswerLast
<1>2. data \in Definitions /\ NoFields \in Definitions /\ Unset \in Stamps
  BY NoDataTyped, WizardsAssumption DEF WizardTypeOK, Unset, Stamps
<1>3. new \in Definitions /\ {new.port, new.url, new.keyword} \subseteq {Unset, Skipped, new.wizard}
      /\ IsComplete(new)
  <2>1. CASE data.type = "tcp"
    <3>1. new = [NoFields EXCEPT !.wizard = data.wizard, !.port = data.wizard]
      BY <2>1
    <3>2. /\ new.type = "tcp" /\ new.wizard = data.wizard /\ new.port = data.wizard
          /\ new.url = Unset /\ new.keyword = Unset
          /\ new \in Definitions
      BY <1>2, <3>1 DEF Definitions, NoFields, NoData, Types
    <3>. HIDE DEF new
    <3>. QED BY <3>2 DEF IsComplete
  <2>2. CASE data.type = "http"
    <3>1. new = [data EXCEPT !.port = Unset]
      BY <2>2
    <3>2. step = "status"
      BY <1>1, <2>2 DEF LastStep
    <3>3. /\ new.type = "http" /\ new.wizard = data.wizard /\ new.port = Unset
          /\ new.url = data.url /\ new.keyword = data.keyword
          /\ new \in Definitions
      BY <1>2, <2>2, <3>1 DEF Definitions
    <3>. HIDE DEF new
    <3>. QED BY <3>2, <3>3 DEF IsComplete, AnswersAreOwn
  <2>3. CASE data.type \notin {"tcp", "http"}
    <3>1. new = [data EXCEPT !.url = Unset, !.keyword = Unset]
      BY <2>3
    <3>2. step = "warn_days"
      BY <1>1, <2>3 DEF LastStep
    <3>3. /\ new.type = data.type /\ new.wizard = data.wizard /\ new.port = data.port
          /\ new.url = Unset /\ new.keyword = Unset
          /\ new \in Definitions
      BY <1>2, <3>1 DEF Definitions
    <3>. HIDE DEF new
    <3>. QED BY <2>3, <3>2, <3>3 DEF IsComplete, AnswersAreOwn
  <2>. QED BY <2>1, <2>2, <2>3
<1>. HIDE DEF new
<1>4. WizardTypeOK' /\ AnswersAreOwn'
  BY <1>1, <1>3 DEF WizardTypeOK, AnswersAreOwn
<1>5. OwnAnswers'
  <2>1. \A i \in Jobs : fields'[i] = fields[i] \/ fields'[i] = new
    BY <1>1 DEF WizardTypeOK
  <2>. QED BY <1>3, <2>1 DEF OwnAnswers
<1>. QED BY <1>4, <1>5

\* The FSM data is replaced by that of no wizard: the ways out of one.
LEMMA ClearKeeps ==
    ASSUME WizardInv, step' = "none", data' = NoData, wizards' = wizards,
           \A i \in Jobs : fields'[i] \in {fields[i], NoFields},
           fields' \in [Jobs -> Definitions]
    PROVE  WizardInv'
<1>1. WizardTypeOK'
  BY NoDataTyped DEF WizardInv, WizardTypeOK, Steps
<1>2. AnswersAreOwn'
  BY DEF AnswersAreOwn
<1>3. OwnAnswers'
  BY DEF WizardInv, OwnAnswers, NoFields, NoData
<1>. QED BY <1>1, <1>2, <1>3 DEF WizardInv

\* WizardInv is inductive.
LEMMA WizardInvInductive ==
    ASSUME WizardInv, [Next]_vars
    PROVE  WizardInv'
<1>. USE DEF WizardInv
<1>0. /\ data \in Definitions /\ data.wizard \in Stamps /\ Skipped \in Stamps
      /\ data.type \in Types
      /\ fields \in [Jobs -> Definitions] /\ NoFields \in Definitions
  BY NoDataTyped, WizardsAssumption DEF WizardTypeOK, Definitions, Skipped, Stamps, Unset
<1>1. ASSUME NEW type \in Types, StartWizard(type)
      PROVE  WizardInv'
  <2>1. /\ wizards' = wizards + 1 /\ wizards < MaxWizards /\ fields' = fields
        /\ step' = FirstStep(type)
        /\ data' = [data EXCEPT !.type = type, !.wizard = wizards']
    BY <1>1 DEF StartWizard
  <2>2. wizards' \in 0..MaxWizards /\ wizards' \in Stamps
    BY <2>1, WizardsAssumption DEF WizardTypeOK, Stamps, Unset
  <2>3. data' \in Definitions /\ data'.type = type
    BY <1>0, <2>1, <2>2 DEF Definitions
  <2>4. step' \in Steps /\ AnswersAreOwn'
    BY <2>1, <2>3 DEF FirstStep, Types, Steps, AnswersAreOwn
  <2>. QED BY <1>0, <2>1, <2>2, <2>3, <2>4 DEF WizardTypeOK, OwnAnswers
<1>2. CASE LeaveWizard
  BY <1>0, <1>2, ClearKeeps DEF LeaveWizard
<1>3. CASE AnswerPort
  <2>1. /\ data' = [data EXCEPT !.port = data.wizard] /\ step' = "warn_days"
        /\ data.type = "ssl" /\ UNCHANGED <<wizards, fields>>
    BY <1>3 DEF AnswerPort
  <2>2. data' \in Definitions /\ data'.type = "ssl" /\ data'.port = data'.wizard
    BY <1>0, <2>1 DEF Definitions
  <2>. QED BY <2>1, <2>2 DEF WizardTypeOK, Steps, AnswersAreOwn, OwnAnswers
<1>4. CASE AnswerUrl
  <2>1. /\ data' = [data EXCEPT !.url = data.wizard] /\ step' = "keyword"
        /\ data.type = "http" /\ UNCHANGED <<wizards, fields>>
    BY <1>4 DEF AnswerUrl, WithUrl, AnswersAreOwn
  <2>2. data' \in Definitions /\ data'.type = "http" /\ data'.url = data'.wizard
    BY <1>0, <2>1 DEF Definitions
  <2>. QED BY <2>1, <2>2 DEF WizardTypeOK, Steps, AnswersAreOwn, OwnAnswers
<1>5. ASSUME NEW skipped \in BOOLEAN, AnswerKeyword(skipped)
      PROVE  WizardInv'
  <2>. DEFINE keyword == IF skipped THEN Skipped ELSE data.wizard
  <2>1. /\ data' = [data EXCEPT !.keyword = keyword] /\ step' = "status"
        /\ data.type = "http" /\ data.url = data.wizard /\ UNCHANGED <<wizards, fields>>
    BY <1>5 DEF AnswerKeyword, WithKeyword, AnswersAreOwn
  <2>2. /\ data' \in Definitions /\ data'.type = "http" /\ data'.url = data'.wizard
        /\ data'.keyword \in {Skipped, data'.wizard}
    BY <1>0, <2>1 DEF Definitions
  <2>. QED BY <2>1, <2>2 DEF WizardTypeOK, Steps, AnswersAreOwn, OwnAnswers
<1>6. ASSUME NEW j \in Jobs, Finish(j)
      PROVE  WizardInv'
  <2>1. step' = "none" /\ data' = NoData /\ wizards' = wizards
        /\ fields' = [fields EXCEPT ![j] = NoFields]
    BY <1>6 DEF Finish
  <2>2. fields' \in [Jobs -> Definitions] /\ \A i \in Jobs : fields'[i] \in {fields[i], NoFields}
    BY <1>0, <2>1
  <2>. QED BY <2>1, <2>2, ClearKeeps
<1>7. ASSUME NEW readable, NEW renamed, Crash(readable, renamed)
      PROVE  WizardInv'
  <2>1. step' = "none" /\ data' = NoData /\ wizards' = wizards
        /\ fields' = [j \in Jobs |-> NoFields]
    BY <1>7 DEF Crash
  <2>2. fields' \in [Jobs -> Definitions] /\ \A i \in Jobs : fields'[i] \in {fields[i], NoFields}
    BY <1>0, <2>1
  <2>. QED BY <2>1, <2>2, ClearKeeps
<1>8. ASSUME UNCHANGED wizardVars
      PROVE  WizardInv'
  BY <1>8 DEF wizardVars, WizardTypeOK, AnswersAreOwn, OwnAnswers
<1>9. ASSUME NEW j \in Jobs, NEW rowsGone, EndOther(j, rowsGone)
      PROVE  WizardInv'
  BY <1>8, <1>9 DEF EndOther
<1>10. CASE UNCHANGED vars
  BY <1>8, <1>10 DEF vars
<1>. QED BY <1>1, <1>2, <1>3, <1>4, <1>5, <1>6, <1>7, <1>8, <1>9, <1>10, LastAnswerKeeps
         DEF Next

LEMMA WizardInvHolds == Spec => []WizardInv
<1>1. Init => WizardInv
  <2>. SUFFICES ASSUME Init PROVE WizardInv
    OBVIOUS
  <2>1. WizardTypeOK
    BY NoDataTyped, WizardsAssumption DEF Init, WizardTypeOK, Steps
  <2>2. AnswersAreOwn /\ OwnAnswers
    BY DEF Init, AnswersAreOwn, OwnAnswers, NoFields, NoData
  <2>. QED BY <2>1, <2>2 DEF WizardInv
<1>2. WizardInv /\ [Next]_vars => WizardInv'
  BY WizardInvInductive
<1>. QED BY <1>1, <1>2, PTL DEF Spec

\* Whatever wizards were left or started over before, the definition that a
\* wizard adds is complete and its own.
THEOREM WizardsAddTheirOwn == Spec => []OwnAnswers
<1>1. WizardInv => OwnAnswers
  BY DEF WizardInv
<1>. QED BY <1>1, WizardInvHolds, PTL

\* The store and the wizard keep their types.
THEOREM ChecksRouterTypeCorrect == Spec => []TypeOK
<1>1. StoreInv /\ WizardInv => TypeOK
  BY DEF StoreInv, WizardInv, WizardTypeOK, TypeOK
<1>. QED BY <1>1, StoreInvHolds, WizardInvHolds, PTL
=============================================================================
