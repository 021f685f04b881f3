----------------------------- MODULE AwsServers -----------------------------
(***************************************************************************)
(* How the AWS client answers "which servers does this account have?"      *)
(* (AWSProvider.get_servers in src/providers/aws.py).  One call asks every *)
(* service of every region in parallel; each of these fetches has its own  *)
(* retries (src/providers/mixins/retry.py) and may fail on its own.  The   *)
(* synchronization removes what a list lacks, so a fetch that failed must  *)
(* not read as a region without servers: the client remembers which        *)
(* fetches held servers the last time all of them answered, and raises     *)
(* instead of returning a list when one of those fails.  The regions are   *)
(* configured or, once for the life of the process, looked up.             *)
(***************************************************************************)
EXTENDS Naturals, FiniteSets

CONSTANTS
    Regions,
    Default,     \* "us-east-1", asked if a lookup names no region
    Fetches,     \* "<service>:<region>"
    RegionOf,    \* the region of a fetch
    Unavailable, \* LIGHTSAIL_UNAVAILABLE_REGIONS: these answer without a request
    Servers,
    Home,        \* the fetch that lists a server
    MaxAttempts  \* MAX_RETRIES

ASSUME FetchAssumption ==
    /\ Default \in Regions
    /\ RegionOf \in [Fetches -> Regions]
    /\ Unavailable \in SUBSET Fetches
    /\ Home \in [Servers -> Fetches \ Unavailable]
ASSUME AttemptAssumption == MaxAttempts \in Nat \ {0}

VARIABLES
    cloud,        \* the servers that exist
    healthy,      \* AWS answers every request
    regions,      \* _target_regions or _all_regions_cache, {} while there is neither
    seen,         \* _populated_fetches is not None
    populated,    \* _populated_fetches
    call,         \* the call of get_servers in progress
    slot,         \* what has become of its fetches
    steady,       \* history: the servers that have existed throughout the call
    complete,     \* history: what each fetch found in the last complete answer
    report        \* what the last call returned or raised

vars == <<cloud, healthy, regions, seen, populated, call, slot, steady, complete,
          report>>

Idle == [pc |-> "idle", try |-> 0]
Calls == {Idle} \union [pc: {"regions"}, try: 0..MaxAttempts - 1]
                \union {[pc |-> "fetching", try |-> 0]}

\* "asking" with try failures so far, or done.
Slots == [st: {"asking", "answered", "failed", "denied"},
          try: 0..MaxAttempts - 1, found: SUBSET Servers]
Asking == [st |-> "asking", try |-> 0, found |-> {}]
Answered(found) == [st |-> "answered", try |-> 0, found |-> found]

NoReport == [kind |-> "none", servers |-> {}, failed |-> {}]
Raised(kind) == [kind |-> kind, servers |-> {}, failed |-> {}]
Reports == [kind: {"none", "list", "transient", "denied"},
            servers: SUBSET Servers, failed: SUBSET Fetches]

Init ==
    /\ cloud \in SUBSET Servers
    /\ healthy = FALSE
    /\ regions \in SUBSET Regions
    /\ seen = FALSE
    /\ populated = {}
    /\ call = Idle
    /\ slot = [f \in Fetches |-> Asking]
    /\ steady = {}
    /\ complete = [f \in Fetches |-> {}]
    /\ report = NoReport

-----------------------------------------------------------------------------
(* The world outside. *)

\* A server is created or terminated.
Change(s) ==
    /\ cloud' = IF s \in cloud THEN cloud \ {s} ELSE cloud \union {s}
    /\ steady' = steady \ {s}
    /\ UNCHANGED <<healthy, regions, seen, populated, call, slot, complete, report>>

\* AWS recovers, or has its troubles again.
Turn ==
    /\ healthy' = ~healthy
    /\ UNCHANGED <<cloud, regions, seen, populated, call, slot, steady, complete, report>>

\* The bot is restarted: everything the client remembers is gone.  configured
\* is what the settings name, {} if they leave the regions to the lookup.
Restart(configured) ==
    /\ regions' = configured
    /\ seen' = FALSE
    /\ populated' = {}
    /\ call' = Idle
    /\ slot' = [f \in Fetches |-> Asking]
    /\ steady' = {}
    /\ complete' = [f \in Fetches |-> {}]
    /\ report' = NoReport
    /\ UNCHANGED <<cloud, healthy>>

-----------------------------------------------------------------------------
(***************************************************************************)
(* One request.  A throttled one (a 5xx, no connection) is repeated after  *)
(* a delay, up to MaxAttempts times in all; a broken one (another error    *)
(* code, a timeout, a list with no end) is not; a denied one is a          *)
(* permanent error of the credentials or their permissions.                *)
(***************************************************************************)
Outcomes == IF healthy THEN {"answer"} ELSE {"answer", "throttled", "broken", "denied"}

IsRetried(outcome, try) == outcome = "throttled" /\ try < MaxAttempts - 1

\* The error in which a request ends that is not retried.
ErrorOf(outcome) == IF outcome = "denied" THEN "denied" ELSE "failed"

\* The fetches that a call of get_servers makes for the regions rs; one that
\* is not made, or is made without a request, finds nothing.
Requested(rs) == {f \in Fetches \ Unavailable : RegionOf[f] \in rs}
FetchesBegin(rs) == [f \in Fetches |-> IF f \in Requested(rs) THEN Asking ELSE Answered({})]

Begin ==
    /\ call = Idle
    /\ call' = [pc |-> IF regions = {} THEN "regions" ELSE "fetching", try |-> 0]
    /\ slot' = FetchesBegin(regions)
    /\ steady' = cloud
    /\ UNCHANGED <<cloud, healthy, regions, seen, populated, complete, report>>

(***************************************************************************)
(* _get_all_regions.  An answer names the regions that are enabled now, of *)
(* which MAX_REGIONS are kept; regions enabled later, or cut, are not      *)
(* asked before a restart, nor is any but Default if it names none.        *)
(***************************************************************************)
LookUpRegions(outcome) ==
    /\ call.pc = "regions"
    /\ outcome \in Outcomes
    /\ \/ /\ outcome = "answer"
          /\ call' = [pc |-> "fetching", try |-> 0]
          /\ \E named \in SUBSET Regions :
                regions' = IF named = {} THEN {Default} ELSE named
          /\ slot' = FetchesBegin(regions')
          /\ UNCHANGED <<steady, report>>
       \/ /\ IsRetried(outcome, call.try)
          /\ call' = [call EXCEPT !.try = @ + 1]
          /\ UNCHANGED <<regions, slot, steady, report>>
       \/ /\ outcome # "answer"
          /\ ~IsRetried(outcome, call.try)
          /\ call' = Idle
          /\ steady' = {}
          /\ report' = Raised(IF outcome = "denied" THEN "denied" ELSE "transient")
          /\ UNCHANGED regions
          /\ slot' = [f \in Fetches |-> Asking]
    /\ UNCHANGED <<cloud, healthy, seen, populated, complete>>

\* _get_instances_in_region: one attempt to read all pages of f.
Attempt(f, outcome) ==
    /\ call.pc = "fetching"
    /\ slot[f].st = "asking"
    /\ outcome \in Outcomes
    /\ slot' = [slot EXCEPT ![f] =
            IF outcome = "answer" THEN Answered({s \in cloud : Home[s] = f})
            ELSE IF IsRetried(outcome, slot[f].try)
            THEN [slot[f] EXCEPT !.try = slot[f].try + 1]
            ELSE [st |-> ErrorOf(outcome), try |-> 0, found |-> {}]]
    /\ UNCHANGED <<cloud, healthy, regions, seen, populated, call, steady, complete, report>>

Holding == {f \in Fetches : slot[f].found # {}}
Failed == {f \in Fetches : slot[f].st = "failed"}
Listed == UNION {slot[f].found : f \in Fetches}

\* Mutant of IsUnknown: the account as a whole is not looked at.
IsUnknownByRegion ==
    Failed # {} /\ (~seen \/ Failed \intersect populated # {})

\* Mutant of IsUnknown: nothing is believed before something was.
IsUnknownUnseen ==
    ~seen \/ (Failed # {} /\ (Listed = {} \/ Failed \intersect populated # {}))

\* A failure that makes the account look emptier than it may be.
IsUnknown ==
    Failed # {} /\ (Listed = {} \/ ~seen \/ Failed \intersect populated # {})

\* Mutant of Refreshed: a partial answer is remembered as well.
RefreshedAlways ==
    /\ seen' = TRUE
    /\ populated' = Holding
    /\ complete' = IF Failed = {} THEN [f \in Fetches |-> slot[f].found] ELSE complete

\* What is remembered of a list: only a complete one says where nothing is.
Refreshed ==
    IF Failed = {}
    THEN /\ seen' = TRUE
         /\ populated' = Holding
         /\ complete' = [f \in Fetches |-> slot[f].found]
    ELSE UNCHANGED <<seen, populated, complete>>

\* Every fetch has ended: the call returns a list or raises.
Decide ==
    /\ call.pc = "fetching"
    /\ \A f \in Fetches : slot[f].st # "asking"
    /\ \/ /\ \E f \in Fetches : slot[f].st = "denied"
          /\ report' = Raised("denied")
          /\ UNCHANGED <<seen, populated, complete>>
       \/ /\ \A f \in Fetches : slot[f].st # "denied"
          /\ IsUnknown
          /\ report' = Raised("transient")
          /\ UNCHANGED <<seen, populated, complete>>
       \/ /\ \A f \in Fetches : slot[f].st # "denied"
          /\ ~IsUnknown
          /\ report' = [kind |-> "list", servers |-> Listed, failed |-> Failed]
          /\ Refreshed
    /\ call' = Idle
    /\ slot' = [f \in Fetches |-> Asking]
    /\ steady' = {}
    /\ UNCHANGED <<cloud, healthy, regions>>

Next ==
    \/ \E s \in Servers : Change(s)
    \/ Turn
    \/ \E configured \in SUBSET Regions : Restart(configured)
    \/ Begin
    \/ \E outcome \in Outcomes :
          \/ LookUpRegions(outcome)
          \/ \E f \in Fetches : Attempt(f, outcome)
    \/ Decide

Spec == Init /\ [][Next]_vars

\* The synchronization asks again and again, and every request ends.
Fairness ==
    /\ WF_vars(Begin)
    /\ WF_vars(\E outcome \in Outcomes : LookUpRegions(outcome))
    /\ \A f \in Fetches : WF_vars(\E outcome \in Outcomes : Attempt(f, outcome))
    /\ WF_vars(Decide)

FairSpec == Spec /\ Fairness

-----------------------------------------------------------------------------
(* Properties. *)

\* Every variable has its type.
TypeOK ==
    /\ cloud \in SUBSET Servers
    /\ healthy \in BOOLEAN
    /\ regions \in SUBSET Regions
    /\ seen \in BOOLEAN
    /\ populated \in SUBSET Fetches
    /\ call \in Calls
    /\ slot \in [Fetches -> Slots]
    /\ steady \in SUBSET cloud
    /\ complete \in [Fetches -> SUBSET Servers]
    /\ report \in Reports

(***************************************************************************)
(* "A PARTIAL list is returned only when every failed fetch was known      *)
(* EMPTY by a previous COMPLETE answer -- never merely unobserved, so a    *)
(* restart cannot downgrade the guarantee" (the docstring of get_servers). *)
(***************************************************************************)
PartialOnlyIfEmpty ==
    report.kind = "list" =>
        \A f \in report.failed : seen /\ complete[f] = {}

\* s is in one of the regions that are asked.
IsAsked(s) == RegionOf[Home[s]] \in regions

\* A list without servers is returned only if, in the regions asked, no server
\* existed throughout the call: regions that fail to answer never look empty.
NeverFalselyEmpty ==
    [][call.pc = "fetching" /\ report'.kind = "list" /\ call' = Idle
         /\ report'.servers = {} => \A s \in steady : ~IsAsked(s)]_vars

\* Once AWS answers for good and the bot goes on, the list is what exists in
\* the regions that are configured, or that the lookup named.
ListArrives ==
    \A s \in Servers :
        /\ <>[](healthy /\ s \in cloud /\ (regions = {} \/ IsAsked(s)))
        /\ <>[][\A c \in SUBSET Regions : ~Restart(c)]_vars
        => <>[](report.kind = "list" /\ s \in report.servers)

(***************************************************************************)
(* A server that the last list had and that still exists is not missing    *)
(* from the next one because its fetch failed: the third case for raising  *)
(* is "a fetch that HELD servers failed, so its region reads as empty      *)
(* while it is merely unknown".                                            *)
(***************************************************************************)
HeldServersStay ==
    [][call.pc = "fetching" /\ call' = Idle
         /\ report.kind = "list" /\ report'.kind = "list"
         => \A s \in report.servers \intersect steady :
               Home[s] \in report'.failed => s \in report'.servers]_vars
=============================================================================
