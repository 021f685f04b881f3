--------------------------- MODULE AwsServersProofs ---------------------------
(***************************************************************************)
(* Proofs about AwsServers, for any regions, servers and number of         *)
(* attempts: a list without the fetches that failed is returned only if    *)
(* each of these held nothing in the last complete answer, and asked       *)
(* regions that have servers never read as empty.                          *)
(*                                                                         *)
(* Neither is inductive.  The first rests on _populated_fetches being what *)
(* the last complete answer found; the second on what is found in a region *)
(* when its request is answered, servers that exist from the call's begin  *)
(* to its end included.                                                    *)
(***************************************************************************)
EXTENDS AwsServers, TLAPS

\* _populated_fetches is where the last complete answer found servers.
MemoryIsComplete ==
    /\ seen => populated = {f \in Fetches : complete[f] # {}}
    /\ ~seen => populated = {} /\ \A f \in Fetches : complete[f] = {}

\* A fetch that was answered has the servers of its region, if that is asked,
\* that were there all the time.
AnswersCoverSteady ==
    \A f \in Fetches : slot[f].st = "answered" =>
        \A s \in steady : Home[s] = f /\ IsAsked(s) => s \in slot[f].found

AwsInv ==
    /\ TypeOK
    /\ MemoryIsComplete
    /\ AnswersCoverSteady
    /\ PartialOnlyIfEmpty

-----------------------------------------------------------------------------

\* The slots that a call begins with, and leaves behind, are of their type.
LEMMA AskingTyped ==
    /\ Asking \in Slots
    /\ \A found \in SUBSET Servers : Answered(found) \in Slots
    /\ \A outcome : [st |-> ErrorOf(outcome), try |-> 0, found |-> {}] \in Slots
<1>1. 0 \in 0..MaxAttempts - 1
  BY AttemptAssumption
<1>. QED BY <1>1 DEF Asking, Answered, ErrorOf, Slots

\* The fetches of a call begin as their type says, and an answer that needs no
\* request misses no server of a region that is asked.
LEMMA FetchesBeginTyped ==
    ASSUME NEW rs \in SUBSET Regions
    PROVE  /\ FetchesBegin(rs) \in [Fetches -> Slots]
           /\ \A f \in Fetches : FetchesBegin(rs)[f].st = "answered" =>
                  f \in Unavailable \/ RegionOf[f] \notin rs
BY AskingTyped DEF FetchesBegin, Requested, Asking, Answered

\* The end of a call keeps the invariant: a complete answer is remembered as
\* it was, and a list without a failed fetch needs one to go by.
LEMMA DecideKeeps ==
    ASSUME AwsInv, Decide
    PROVE  AwsInv'
<1>. USE DEF AwsInv
<1>1. /\ call' = Idle /\ slot' = [f \in Fetches |-> Asking] /\ steady' = {}
      /\ UNCHANGED <<cloud, healthy, regions>>
  BY DEF Decide
<1>2. slot' \in [Fetches -> Slots] /\ call' \in Calls
  BY <1>1, AskingTyped DEF Calls
<1>3. AnswersCoverSteady'
  BY <1>1 DEF AnswersCoverSteady
<1>4. \A f \in Fetches : slot[f].found \in SUBSET Servers
  BY DEF TypeOK, Slots
<1>5. CASE UNCHANGED <<seen, populated, complete>> /\ report' \in {Raised("denied"), Raised("transient")}
  <2>1. report' \in Reports /\ report'.kind # "list"
    BY <1>5 DEF Raised, Reports
  <2>2. TypeOK'
    BY <1>1, <1>2, <1>5, <2>1 DEF TypeOK
  <2>3. MemoryIsComplete'
    BY <1>5 DEF MemoryIsComplete
  <2>. QED BY <1>3, <2>1, <2>2, <2>3 DEF PartialOnlyIfEmpty
<1>6. CASE /\ ~IsUnknown
           /\ report' = [kind |-> "list", servers |-> Listed, failed |-> Failed]
           /\ Refreshed
  <2>1. Listed \in SUBSET Servers /\ Failed \in SUBSET Fetches /\ Holding \in SUBSET Fetches
    BY <1>4 DEF Listed, Failed, Holding
  <2>2. report' \in Reports /\ report'.kind = "list" /\ report'.failed = Failed
    BY <1>6, <2>1 DEF Reports
  <2>3. CASE Failed = {}
    <3>1. /\ seen' = TRUE /\ populated' = Holding
          /\ complete' = [f \in Fetches |-> slot[f].found]
      BY <1>6, <2>3 DEF Refreshed
    <3>2. complete' \in [Fetches -> SUBSET Servers]
      BY <1>4, <3>1
    <3>3. TypeOK'
      BY <1>1, <1>2, <2>1, <2>2, <3>1, <3>2 DEF TypeOK
    <3>4. MemoryIsComplete'
      BY <3>1 DEF MemoryIsComplete, Holding
    <3>5. PartialOnlyIfEmpty'
      BY <2>2, <2>3 DEF PartialOnlyIfEmpty
    <3>. QED BY <1>3, <3>3, <3>4, <3>5
  <2>4. CASE Failed # {}
    <3>1. UNCHANGED <<seen, populated, complete>>
      BY <1>6, <2>4 DEF Refreshed
    <3>2. seen /\ Failed \intersect populated = {}
      BY <1>6, <2>4 DEF IsUnknown
    <3>3. TypeOK'
      BY <1>1, <1>2, <2>2, <3>1 DEF TypeOK
    <3>4. MemoryIsComplete'
      BY <3>1 DEF MemoryIsComplete
    <3>5. PartialOnlyIfEmpty'
      BY <2>1, <2>2, <3>1, <3>2 DEF PartialOnlyIfEmpty, MemoryIsComplete
    <3>. QED BY <1>3, <3>3, <3>4, <3>5
  <2>. QED BY <2>3, <2>4
<1>. QED BY <1>5, <1>6 DEF Decide

\* The begin of a call keeps the invariant: a region without the service holds
\* no server.
LEMMA BeginKeeps ==
    ASSUME AwsInv, Begin
    PROVE  AwsInv'
<1>. USE DEF AwsInv
<1>1. slot' = FetchesBegin(regions) /\ regions' = regions /\ regions \in SUBSET Regions
  BY DEF Begin, TypeOK
<1>2. slot' \in [Fetches -> Slots]
  BY <1>1, FetchesBeginTyped
<1>3. call' \in Calls
  BY AttemptAssumption DEF Begin, Calls
<1>4. steady' = cloud /\ steady' \in SUBSET Servers
  BY DEF Begin, TypeOK
<1>5. AnswersCoverSteady'
  BY <1>1, <1>4, FetchesBeginTyped, FetchAssumption DEF AnswersCoverSteady, IsAsked
<1>6. TypeOK'
  BY <1>2, <1>3, <1>4 DEF Begin, TypeOK
<1>. QED BY <1>5, <1>6 DEF Begin, MemoryIsComplete, PartialOnlyIfEmpty

\* An attempt keeps the invariant: an answer has all servers of its region.
LEMMA AttemptKeeps ==
    ASSUME AwsInv, NEW f \in Fetches, NEW outcome, Attempt(f, outcome)
    PROVE  AwsInv'
<1>. USE DEF AwsInv
<1>. DEFINE found == {s \in cloud : Home[s] = f}
<1>1. PICK new \in Slots :
          /\ slot' = [slot EXCEPT ![f] = new]
          /\ new.st = "answered" => new.found = found
  <2>1. slot[f] \in Slots /\ found \in SUBSET Servers
    BY DEF TypeOK
  <2>2. CASE outcome = "answer"
    <3>1. slot' = [slot EXCEPT ![f] = Answered(found)]
      BY <2>2 DEF Attempt
    <3>2. Answered(found) \in Slots /\ Answered(found).found = found
      BY <2>1, AskingTyped DEF Answered
    <3>. QED BY <3>1, <3>2
  <2>3. CASE outcome # "answer" /\ IsRetried(outcome, slot[f].try)
    <3>1. slot' = [slot EXCEPT ![f] = [slot[f] EXCEPT !.try = slot[f].try + 1]]
      BY <2>3 DEF Attempt
    <3>2. slot[f].try + 1 \in 0..MaxAttempts - 1
      BY <2>1, <2>3, AttemptAssumption DEF IsRetried, Slots
    <3>3. [slot[f] EXCEPT !.try = slot[f].try + 1] \in Slots
      BY <2>1, <3>2 DEF Slots
    <3>4. [slot[f] EXCEPT !.try = slot[f].try + 1].st = "asking"
      BY <2>1 DEF Attempt, Slots
    <3>. QED BY <3>1, <3>3, <3>4
  <2>4. CASE outcome # "answer" /\ ~IsRetried(outcome, slot[f].try)
    <3>. DEFINE error == [st |-> ErrorOf(outcome), try |-> 0, found |-> {}]
    <3>1. slot' = [slot EXCEPT ![f] = error]
      BY <2>4 DEF Attempt
    <3>2. error \in Slots
      BY AskingTyped
    <3>3. error.st # "answered"
      BY DEF ErrorOf
    <3>. HIDE DEF error
    <3>. QED BY <3>1, <3>2, <3>3
  <2>. QED BY <2>2, <2>3, <2>4
<1>2. UNCHANGED <<cloud, healthy, regions, seen, populated, call, steady, complete, report>>
  BY DEF Attempt
<1>3. TypeOK'
  BY <1>1, <1>2 DEF TypeOK
<1>4. AnswersCoverSteady'
  BY <1>1, <1>2 DEF AnswersCoverSteady, IsAsked, TypeOK
<1>. QED BY <1>2, <1>3, <1>4 DEF MemoryIsComplete, PartialOnlyIfEmpty

\* The lookup of the regions keeps the invariant: whatever it names, the
\* fetches of these regions begin anew.
LEMMA LookUpKeeps ==
    ASSUME AwsInv, NEW outcome, LookUpRegions(outcome)
    PROVE  AwsInv'
<1>. USE DEF AwsInv
<1>1. UNCHANGED <<cloud, healthy, seen, populated, complete>>
  BY DEF LookUpRegions
<1>2. MemoryIsComplete'
  BY <1>1 DEF MemoryIsComplete
<1>3. CASE /\ call' = [pc |-> "fetching", try |-> 0]
           /\ \E named \in SUBSET Regions :
                 regions' = IF named = {} THEN {Default} ELSE named
           /\ slot' = FetchesBegin(regions')
           /\ UNCHANGED <<steady, report>>
  <2>1. regions' \in SUBSET Regions
    BY <1>3, FetchAssumption
  <2>2. slot' \in [Fetches -> Slots] /\ call' \in Calls
    BY <1>3, <2>1, FetchesBeginTyped DEF Calls
  <2>3. TypeOK'
    BY <1>1, <1>3, <2>1, <2>2 DEF TypeOK
  <2>4. AnswersCoverSteady'
    BY <1>3, <2>1, FetchesBeginTyped, FetchAssumption
       DEF AnswersCoverSteady, IsAsked, TypeOK
  <2>. QED BY <1>1, <1>2, <1>3, <2>3, <2>4 DEF PartialOnlyIfEmpty
<1>4. CASE /\ IsRetried(outcome, call.try)
           /\ call' = [call EXCEPT !.try = call.try + 1]
           /\ UNCHANGED <<regions, slot, steady, report>>
  <2>1. call \in [pc: {"regions"}, try: 0..MaxAttempts - 1]
    BY DEF LookUpRegions, TypeOK, Calls, Idle
  <2>2. call.try + 1 \in 0..MaxAttempts - 1
    BY <1>4, <2>1, AttemptAssumption DEF IsRetried
  <2>3. call' \in [pc: {"regions"}, try: 0..MaxAttempts - 1]
    BY <1>4, <2>1, <2>2
  <2>4. call' \in Calls
    BY <2>3 DEF Calls
  <2>. QED BY <1>1, <1>2, <1>4, <2>4 DEF TypeOK, AnswersCoverSteady, IsAsked, PartialOnlyIfEmpty
<1>5. CASE /\ call' = Idle /\ steady' = {} /\ regions' = regions
           /\ report' \in {Raised("denied"), Raised("transient")}
           /\ slot' = [f \in Fetches |-> Asking]
  <2>1. report' \in Reports /\ report'.kind # "list"
    BY <1>5 DEF Raised, Reports
  <2>2. slot' \in [Fetches -> Slots] /\ call' \in Calls
    BY <1>5, AskingTyped DEF Calls
  <2>3. TypeOK'
    BY <1>1, <1>5, <2>1, <2>2 DEF TypeOK
  <2>. QED BY <1>2, <1>5, <2>1, <2>3 DEF AnswersCoverSteady, PartialOnlyIfEmpty
<1>. QED BY <1>3, <1>4, <1>5 DEF LookUpRegions

\* AwsInv is inductive.
LEMMA AwsInvInductive ==
    ASSUME AwsInv, [Next]_vars
    PROVE  AwsInv'
<1>1. ASSUME NEW s \in Servers, Change(s)
      PROVE  AwsInv'
  <2>1. cloud' \in SUBSET Servers /\ steady' \in SUBSET cloud' /\ steady' \in SUBSET steady
    BY <1>1 DEF AwsInv, Change, TypeOK
  <2>. QED BY <1>1, <2>1
           DEF AwsInv, Change, TypeOK, MemoryIsComplete, AnswersCoverSteady, IsAsked, PartialOnlyIfEmpty
<1>2. CASE Turn
  BY <1>2 DEF AwsInv, Turn, TypeOK, MemoryIsComplete, AnswersCoverSteady, IsAsked, PartialOnlyIfEmpty
<1>3. ASSUME NEW configured \in SUBSET Regions, Restart(configured)
      PROVE  AwsInv'
  <2>1. slot' \in [Fetches -> Slots] /\ call' \in Calls
    BY <1>3, AskingTyped DEF Restart, Calls
  <2>2. report' \in Reports /\ report'.kind # "list"
    BY <1>3 DEF Restart, NoReport, Reports
  <2>3. complete' = [f \in Fetches |-> {}] /\ seen' = FALSE /\ populated' = {} /\ steady' = {}
    BY <1>3 DEF Restart
  <2>4. TypeOK'
    BY <1>3, <2>1, <2>2, <2>3 DEF AwsInv, Restart, TypeOK
  <2>5. MemoryIsComplete' /\ AnswersCoverSteady' /\ PartialOnlyIfEmpty'
    BY <2>2, <2>3 DEF MemoryIsComplete, AnswersCoverSteady, PartialOnlyIfEmpty
  <2>. QED BY <2>4, <2>5 DEF AwsInv
<1>4. CASE UNCHANGED vars
  BY <1>4 DEF vars, AwsInv, TypeOK, MemoryIsComplete, AnswersCoverSteady, IsAsked, PartialOnlyIfEmpty
<1>. QED BY <1>1, <1>2, <1>3, <1>4, BeginKeeps, LookUpKeeps, AttemptKeeps, DecideKeeps DEF Next

LEMMA AwsInvHolds == Spec => []AwsInv
<1>1. Init => AwsInv
  <2>. SUFFICES ASSUME Init PROVE AwsInv
    OBVIOUS
  <2>1. slot \in [Fetches -> Slots] /\ call \in Calls
    BY AskingTyped DEF Init, Calls
  <2>2. report \in Reports /\ report.kind # "list"
    BY DEF Init, NoReport, Reports
  <2>3. TypeOK
    BY <2>1, <2>2 DEF Init, TypeOK
  <2>4. MemoryIsComplete /\ AnswersCoverSteady /\ PartialOnlyIfEmpty
    BY <2>2 DEF Init, MemoryIsComplete, AnswersCoverSteady, PartialOnlyIfEmpty
  <2>. QED BY <2>3, <2>4 DEF AwsInv
<1>2. AwsInv /\ [Next]_vars => AwsInv'
  BY AwsInvInductive
<1>. QED BY <1>1, <1>2, PTL DEF Spec

\* The variables of the AWS client keep their types, above all the attempts
\* of each request within MAX_RETRIES.
THEOREM AwsTypeCorrect == Spec => []TypeOK
<1>1. AwsInv => TypeOK
  BY DEF AwsInv
<1>. QED BY <1>1, AwsInvHolds, PTL

\* A list lacks a fetch only if it held nothing in the last complete answer.
THEOREM PartialListsAreSafe == Spec => []PartialOnlyIfEmpty
<1>1. AwsInv => PartialOnlyIfEmpty
  BY DEF AwsInv
<1>. QED BY <1>1, AwsInvHolds, PTL

\* An account that has a server in an asked region throughout a call never
\* reads as empty.
THEOREM EmptyIsTrue == Spec => NeverFalselyEmpty
<1>. DEFINE Step == call.pc = "fetching" /\ report'.kind = "list" /\ call' = Idle
                      /\ report'.servers = {} => \A s \in steady : ~IsAsked(s)
<1>1. ASSUME AwsInv, Next
      PROVE  Step
  <2>1. CASE Decide
    <3>. SUFFICES ASSUME report'.kind = "list", report'.servers = {}
                  PROVE  \A s \in steady : ~IsAsked(s)
      OBVIOUS
    <3>1. /\ \A f \in Fetches : slot[f].st \notin {"asking", "denied"}
          /\ ~IsUnknown /\ Listed = {}
      BY <2>1 DEF Decide, Raised
    <3>2. Failed = {}
      BY <3>1 DEF IsUnknown
    <3>3. \A f \in Fetches : slot[f].st = "answered" /\ slot[f].found = {}
      BY <1>1, <3>1, <3>2 DEF AwsInv, TypeOK, Slots, Failed, Listed
    <3>4. \A s \in steady : Home[s] \in Fetches
      BY <1>1, FetchAssumption DEF AwsInv, TypeOK
    <3>. QED BY <1>1, <3>3, <3>4 DEF AwsInv, AnswersCoverSteady
  <2>2. ASSUME NEW configured \in SUBSET Regions, Restart(configured)
        PROVE  Step
    BY <2>2 DEF Restart, NoReport
  <2>3. ASSUME NEW outcome, LookUpRegions(outcome)
        PROVE  Step
    BY <2>3 DEF LookUpRegions
  <2>4. CASE Begin
    BY <2>4 DEF Begin, Idle
  <2>5. ASSUME NEW f \in Fetches, NEW outcome, Attempt(f, outcome)
        PROVE  Step
    BY <2>5 DEF Attempt, Idle
  <2>6. ASSUME NEW s \in Servers, Change(s)
        PROVE  Step
    BY <2>6 DEF Change, Idle
  <2>7. CASE Turn
    BY <2>7 DEF Turn, Idle
  <2>. HIDE DEF Step
  <2>. QED BY <1>1, <2>1, <2>2, <2>3, <2>4, <2>5, <2>6, <2>7 DEF Next
<1>2. AwsInv /\ [Next]_vars => [Step]_vars
  BY <1>1
<1>. QED BY <1>2, AwsInvHolds, PTL DEF Spec, NeverFalselyEmpty
=============================================================================
