---------------------------- MODULE ServiceChecks ----------------------------
(***************************************************************************)
(* The service checks: the cycle of service_checks.py with its awaits (the *)
(* probes, the write in a thread, each alert), and whoever changes its     *)
(* dictionaries meanwhile: an admin who adds, toggles or deletes a check   *)
(* (bot/routers/checks.py, with the list of service_checks_store.py), and  *)
(* the synchronization that removes a server or gives it a new address.    *)
(***************************************************************************)
EXTENDS Naturals, FiniteSets

CONSTANTS
    Servers,
    Checks,     \* every check that was or will be configured
    ServerOf,   \* the server a check is configured for
    SslChecks,  \* the checks that look at a certificate
    Rollup      \* ROLLUP_THRESHOLD

ASSUME RollupAssumption == Rollup \in Nat
ASSUME ChecksAssumption == ServerOf \in [Checks -> Servers] /\ SslChecks \subseteq Checks

VARIABLES
    config,    \* the check list of the store
    handler,   \* what a handler of the router awaits before its next step
    server,    \* "present", "leaving" (saved as removed, not yet forgotten), "absent"
    target,    \* what there is to be found where a check looks
    next_run,  \* _next_run_at: "none", "due", "later"
    failing,   \* the checks whose _last_notified_check_status is "failed"
    cooling,   \* the <<check, direction>> that were alerted a short time ago
    sslCooling,\* the SSL checks that were alerted within a day
    pc,        \* what the cycle awaits
    top,       \* live_keys: the checks configured at the top of the cycle
    probing,   \* the due checks whose probe is under way
    outcome,   \* the outcomes of the cycle's probes, "none" where there is none
    moved,     \* the servers with a new address since the probes began
    downs, ups, certs,  \* the alerts this cycle has still to send
    edited,    \* history: owed a probe at once, as an admin marked them dirty or
               \* a probe found another address, since their last probe began
    believed,  \* history: failing, for all the admins heard since the last edit
    certTold,  \* history: told bad within a day, and not good since
    misread    \* history: those of certTold a probe has read as good since

routerVars == <<config, handler>>
worldVars == <<server, target, moved>>
stateVars == <<next_run, failing, cooling, sslCooling>>
cycleVars == <<pc, top, probing, outcome>>
alertVars == <<downs, ups, certs>>
history == <<edited, believed, certTold, misread>>
vars == <<routerVars, worldVars, stateVars, cycleVars, alertVars, history>>

Configured == {k \in Checks : config[k] \in {"enabled", "disabled"}}
Enabled == {k \in Checks : config[k] = "enabled"}
Present == {k \in Checks : server[ServerOf[k]] = "present"}
Directions == {"down", "up"}

(***************************************************************************)
(* "expiring": a certificate at or near its end.  "untrusted": a younger   *)
(* one whose chain does not verify.  "unsafe": no address that a probe may *)
(* be sent to (resolve_target).                                            *)
(***************************************************************************)
Endpoints(k) ==
    {"ok", "failed", "unsafe"} \union
        IF k \in SslChecks THEN {"expiring", "untrusted"} ELSE {}

\* check_ssl_expiry reads the certificate in one handshake and verifies its
\* chain in a second one, which says nothing when its connection fails.
SslOutcomes(endpoint) ==
    CASE endpoint = "untrusted" -> {"cert", "ok"}
      [] endpoint = "expiring" -> {"cert"}
      [] OTHER -> {endpoint}

\* _run_one_check: what a probe may come to; "none" if it is not sent.
Outcomes(k) == IF target[k] = "unsafe" THEN {"none"} ELSE SslOutcomes(target[k])
NoOutcomes == [k \in Checks |-> "none"]

Init ==
    /\ config \in [Checks -> {"new", "enabled"}]
    /\ handler = [k \in Checks |-> "idle"]
    /\ server = [s \in Servers |-> "present"]
    /\ target = [k \in Checks |-> "ok"]
    /\ next_run = [k \in Checks |-> "none"]
    /\ failing = {} /\ cooling = {} /\ sslCooling = {}
    /\ pc = "sleeping" /\ top = {} /\ probing = {} /\ outcome = NoOutcomes
    /\ moved = {}
    /\ downs = {} /\ ups = {} /\ certs = {}
    /\ edited = {} /\ believed = {} /\ certTold = {} /\ misread = {}

-----------------------------------------------------------------------------
(* The admin.  A change of the list is made in a thread and takes effect   *)
(* for the cycle at once; the handler goes on when the thread is done.     *)

AddCheck(k) ==
    /\ config[k] = "new" /\ handler[k] = "idle"
    /\ config' = [config EXCEPT ![k] = "enabled"]
    /\ handler' = [handler EXCEPT ![k] = "mark"]
    /\ UNCHANGED <<worldVars, stateVars, cycleVars, alertVars, history>>

Toggle(k) ==
    /\ k \in Configured /\ handler[k] = "idle"
    /\ config' = [config EXCEPT ![k] = IF @ = "enabled" THEN "disabled" ELSE "enabled"]
    /\ handler' = [handler EXCEPT ![k] = "mark"]
    /\ UNCHANGED <<worldVars, stateVars, cycleVars, alertVars, history>>

\* mark_check_dirty: due at once, and what was alerted is forgotten.
MarkDirty(k) ==
    /\ handler[k] = "mark"
    /\ handler' = [handler EXCEPT ![k] = "idle"]
    /\ next_run' = [next_run EXCEPT ![k] = "due"]
    /\ failing' = failing \ {k}
    /\ sslCooling' = sslCooling \ {k}
    /\ edited' = edited \union {k}
    /\ believed' = believed \ {k}
    /\ certTold' = certTold \ {k}
    /\ misread' = misread \ {k}
    /\ UNCHANGED <<config, cooling, worldVars, cycleVars, alertVars>>

\* The rows of the check are gone as well, or kept if the list could not be
\* saved: the cycle does not look at them.
Delete(k) ==
    /\ k \in Configured /\ handler[k] = "idle"
    /\ config' = [config EXCEPT ![k] = "deleted"]
    /\ UNCHANGED <<handler, worldVars, stateVars, cycleVars, alertVars, history>>

-----------------------------------------------------------------------------
(* The synchronization and the world. *)

RemoveServer(s) ==
    /\ server[s] = "present"
    /\ server' = [server EXCEPT ![s] = "leaving"]
    /\ UNCHANGED <<routerVars, target, moved, stateVars, cycleVars, alertVars, history>>

\* forget_server_checks, when the removal loop has come to the server.
ForgetServer(s) ==
    LET gone == {k \in Checks : ServerOf[k] = s}
    IN /\ server[s] = "leaving"
       /\ server' = [server EXCEPT ![s] = "absent"]
       /\ next_run' = [k \in Checks |-> IF k \in gone THEN "none" ELSE next_run[k]]
       /\ failing' = failing \ gone
       /\ cooling' = cooling \ (gone \X Directions)
       /\ sslCooling' = sslCooling \ gone
       /\ edited' = edited \ gone
       /\ believed' = believed \ gone
       /\ certTold' = certTold \ gone
       /\ misread' = misread \ gone
       /\ UNCHANGED <<routerVars, target, moved, cycleVars, alertVars>>

ReturnServer(s) ==
    /\ server[s] = "absent"
    /\ server' = [server EXCEPT ![s] = "present"]
    /\ \E sameAddress \in BOOLEAN :
          moved' = IF sameAddress \/ pc # "probing" THEN moved ELSE moved \union {s}
    /\ UNCHANGED <<routerVars, target, stateVars, cycleVars, alertVars, history>>

MoveServer(s) ==
    /\ server[s] = "present" /\ s \notin moved
    /\ pc = "probing"   \* at any other time the cycle takes no notice
    /\ moved' = moved \union {s}
    /\ UNCHANGED <<routerVars, server, target, stateVars, cycleVars, alertVars, history>>

TargetChanges(k, o) ==
    /\ target[k] # o
    /\ target' = [target EXCEPT ![k] = o]
    /\ certTold' = IF o = "ok" THEN certTold \ {k} ELSE certTold
    /\ misread' = IF o = "ok" THEN misread \ {k} ELSE misread
    /\ UNCHANGED <<routerVars, server, moved, stateVars, cycleVars, alertVars,
                   edited, believed>>

IntervalPasses(k) ==
    /\ next_run[k] = "later"
    /\ next_run' = [next_run EXCEPT ![k] = "due"]
    /\ UNCHANGED <<routerVars, worldVars, failing, cooling, sslCooling,
                   cycleVars, alertVars, history>>

CooldownEnds(k, d) ==
    /\ <<k, d>> \in cooling
    /\ cooling' = cooling \ {<<k, d>>}
    /\ UNCHANGED <<routerVars, worldVars, next_run, failing, sslCooling,
                   cycleVars, alertVars, history>>

\* A day after the alert another one about the certificate is owed.
SslCooldownEnds(k) ==
    /\ k \in sslCooling \union certTold
    /\ sslCooling' = sslCooling \ {k}
    /\ certTold' = certTold \ {k}
    /\ misread' = misread \ {k}
    /\ UNCHANGED <<routerVars, worldVars, next_run, failing, cooling,
                   cycleVars, alertVars, edited, believed>>

-----------------------------------------------------------------------------
(* The cycle. *)

\* A check seen for the first time is put off; a due one is rescheduled and
\* probed.
StartCycle ==
    LET live == Enabled \intersect Present
        due == {k \in live : next_run[k] = "due"}
    IN /\ pc = "sleeping"
       /\ pc' = "probing"
       /\ top' = Configured
       /\ probing' = due
       /\ next_run' = [k \in Checks |-> IF k \in live THEN "later" ELSE next_run[k]]
       /\ edited' = edited \ due
       /\ UNCHANGED <<routerVars, worldVars, failing, cooling, sslCooling, outcome,
                      alertVars, believed, certTold, misread>>

\* The probe sees the target as it is at some time while it runs.
ProbeEnds(k, o) ==
    /\ k \in probing
    /\ o \in Outcomes(k)
    /\ probing' = probing \ {k}
    /\ outcome' = [outcome EXCEPT ![k] = o]
    /\ UNCHANGED <<routerVars, worldVars, stateVars, pc, top, alertVars, history>>

\* Only what still is enabled, and whose server still is there at the same
\* address, counts; a new address is probed at once.
IsCurrent(k) == k \in Enabled \intersect Present /\ ServerOf[k] \notin moved

GatherEnds ==
    LET probed == {k \in Checks : outcome[k] # "none"}
        results == {k \in probed : IsCurrent(k)}
        displaced == {k \in probed \intersect Present : ServerOf[k] \in moved}
    IN /\ pc = "probing" /\ probing = {}
       /\ pc' = "writing"
       /\ outcome' = [k \in Checks |-> IF k \in results THEN outcome[k] ELSE "none"]
       /\ next_run' = [k \in Checks |-> IF k \in displaced THEN "due" ELSE next_run[k]]
       /\ moved' = {}
       /\ edited' = edited \union (displaced \intersect Configured)
       /\ UNCHANGED <<routerVars, server, target, failing, cooling, sslCooling,
                      top, probing, alertVars, believed, certTold, misread>>

(***************************************************************************)
(* The cycle raises when it reads the inventory or the list again: its     *)
(* outcomes are lost, after the deadlines were advanced.  The next cycle   *)
(* is the same task's or, after MAX_CONSECUTIVE_CYCLE_FAILURES, that of    *)
(* the task the supervisor starts, which finds the same module state.      *)
(***************************************************************************)
AbortCycle ==
    /\ pc = "probing" /\ probing = {}
    /\ pc' = "sleeping"
    /\ outcome' = NoOutcomes
    /\ top' = {}
    /\ moved' = {}
    /\ UNCHANGED <<routerVars, server, target, stateVars, probing, alertVars, history>>

\* Mutant of DecideAlerts: the cooldown alone holds back a failure.
DecideAlertsByCooldown ==
    LET failed == {k \in Checks : outcome[k] = "failed"}
        reached == {k \in Checks : outcome[k] \in {"ok", "cert"}}
        good == {k \in Checks : outcome[k] = "ok"}
    IN /\ downs' = {k \in failed : <<k, "down">> \notin cooling}
       /\ ups' = {k \in reached \intersect failing : <<k, "up">> \notin cooling}
       /\ certs' = {k \in reached \ good : k \notin sslCooling}
       /\ sslCooling' = sslCooling \ good

\* Mutant of DecideAlerts: a bad certificate makes an endpoint unreachable.
DecideAlertsUnreachable ==
    LET bad == {k \in Checks : outcome[k] = "cert"}
        failed == bad \union {k \in Checks : outcome[k] = "failed"}
        good == {k \in Checks : outcome[k] = "ok"}
    IN /\ downs' = {k \in failed \ failing : <<k, "down">> \notin cooling}
       /\ ups' = {k \in good \intersect failing : <<k, "up">> \notin cooling}
       /\ certs' = bad \ (sslCooling \union failing)
       /\ sslCooling' = sslCooling \ good

\* _process_alerts up to its first await.
DecideAlerts ==
    LET failed == {k \in Checks : outcome[k] = "failed"}
        reached == {k \in Checks : outcome[k] \in {"ok", "cert"}}
        good == {k \in Checks : outcome[k] = "ok"}
    IN /\ downs' = {k \in failed \ failing : <<k, "down">> \notin cooling}
       /\ ups' = {k \in reached \intersect failing : <<k, "up">> \notin cooling}
       /\ certs' = {k \in reached \ good : k \notin sslCooling}
       /\ sslCooling' = sslCooling \ good

\* _flush_pending, in a thread: the alerts do not depend on what it could write.
WriteEnds ==
    /\ pc = "writing"
    /\ DecideAlerts
    /\ pc' = "alerting"
    /\ misread' = misread \union {k \in certTold : outcome[k] = "ok"}
    /\ UNCHANGED <<routerVars, worldVars, next_run, failing, cooling,
                   top, probing, outcome, edited, believed, certTold>>

\* Mutant of SendDown: its bookkeeping does not wait for the delivery.
SendDownAnyway(ks, delivered) ==
    /\ pc = "alerting"
    /\ IF Cardinality(downs) > Rollup THEN ks = downs ELSE \E k \in downs : ks = {k}
    /\ downs' = downs \ ks
    /\ failing' = failing \union ks
    /\ cooling' = cooling \union (ks \X {"down"})
    /\ believed' = IF delivered THEN believed \union ks ELSE believed
    /\ UNCHANGED <<routerVars, worldVars, next_run, sslCooling, cycleVars, ups, certs,
                   edited, certTold, misread>>

\* Down alerts about the checks ks in one message; its bookkeeping follows
\* its delivery.
SendDown(ks, delivered) ==
    /\ pc = "alerting"
    /\ IF Cardinality(downs) > Rollup THEN ks = downs ELSE \E k \in downs : ks = {k}
    /\ downs' = downs \ ks
    /\ failing' = IF delivered THEN failing \union ks ELSE failing
    /\ cooling' = IF delivered THEN cooling \union (ks \X {"down"}) ELSE cooling
    /\ believed' = IF delivered THEN believed \union ks ELSE believed
    /\ UNCHANGED <<routerVars, worldVars, next_run, sslCooling, cycleVars, ups, certs,
                   edited, certTold, misread>>

\* Mutant of SendUp: its bookkeeping does not wait for the delivery.
SendUpAnyway(k, delivered) ==
    /\ pc = "alerting" /\ downs = {}
    /\ k \in ups
    /\ ups' = ups \ {k}
    /\ failing' = failing \ {k}
    /\ cooling' = cooling \union {<<k, "up">>}
    /\ believed' = IF delivered THEN believed \ {k} ELSE believed
    /\ UNCHANGED <<routerVars, worldVars, next_run, sslCooling, cycleVars, downs, certs,
                   edited, certTold, misread>>

SendUp(k, delivered) ==
    /\ pc = "alerting" /\ downs = {}
    /\ k \in ups
    /\ ups' = ups \ {k}
    /\ failing' = IF delivered THEN failing \ {k} ELSE failing
    /\ cooling' = IF delivered THEN cooling \union {<<k, "up">>} ELSE cooling
    /\ believed' = IF delivered THEN believed \ {k} ELSE believed
    /\ UNCHANGED <<routerVars, worldVars, next_run, sslCooling, cycleVars, downs, certs,
                   edited, certTold, misread>>

SendCert(k, delivered) ==
    /\ pc = "alerting" /\ downs = {} /\ ups = {}
    /\ k \in certs
    /\ certs' = certs \ {k}
    /\ sslCooling' = IF delivered THEN sslCooling \union {k} ELSE sslCooling
    /\ certTold' = IF delivered /\ target[k] # "ok" THEN certTold \union {k} ELSE certTold
    /\ misread' = IF delivered THEN misread \ {k} ELSE misread
    /\ UNCHANGED <<routerVars, worldVars, next_run, failing, cooling, cycleVars, downs, ups,
                   edited, believed>>

\* Mutant of Kept: what was configured during the cycle is pruned.
KeptTop == top

\* The checks whose state outlives the cycle: those configured now or at its
\* top.
Kept == top \union Configured

EndCycle ==
    /\ pc = "alerting"
    /\ downs = {} /\ ups = {} /\ certs = {}
    /\ pc' = "sleeping"
    /\ next_run' = [k \in Checks |-> IF k \in Kept THEN next_run[k] ELSE "none"]
    /\ failing' = failing \intersect Kept
    /\ cooling' = cooling \intersect (Kept \X Directions)
    /\ sslCooling' = sslCooling \intersect Kept
    /\ outcome' = NoOutcomes
    /\ top' = {}
    /\ UNCHANGED <<routerVars, worldVars, probing, alertVars, history>>

-----------------------------------------------------------------------------
Send(delivered) ==
    \/ \E ks \in SUBSET Checks : SendDown(ks, delivered)
    \/ \E k \in Checks : SendUp(k, delivered) \/ SendCert(k, delivered)

Cycle ==
    \/ StartCycle
    \/ \E k \in Checks, o \in {"none", "ok", "cert", "failed"} : ProbeEnds(k, o)
    \/ GatherEnds
    \/ WriteEnds
    \/ \E delivered \in BOOLEAN : Send(delivered)
    \/ EndCycle

Admin == \E k \in Checks : AddCheck(k) \/ Toggle(k) \/ MarkDirty(k) \/ Delete(k)

Sync == \E s \in Servers :
    RemoveServer(s) \/ ForgetServer(s) \/ ReturnServer(s) \/ MoveServer(s)

Time == \E k \in Checks :
    \/ IntervalPasses(k)
    \/ \E d \in Directions : CooldownEnds(k, d)
    \/ SslCooldownEnds(k)

Next ==
    \/ Cycle
    \/ AbortCycle
    \/ Admin
    \/ Sync
    \/ Time
    \/ \E k \in Checks : \E o \in Endpoints(k) : TargetChanges(k, o)

Spec == Init /\ [][Next]_vars

(***************************************************************************)
(* The cycle goes on, time passes, and the alerts about a check get        *)
(* through now and then.  A probe that comes to a result again and again   *)
(* is not aborted with its cycle each time, nor does the handshake that    *)
(* verifies a chain fail each time.                                        *)
(* Nothing is assumed of the admin, of the synchronization, of the targets *)
(* or of the writes.                                                       *)
(***************************************************************************)
Fairness ==
    /\ WF_vars(Cycle)
    /\ \A k \in Checks :
          /\ \A o \in {"ok", "cert", "failed"} : SF_vars(outcome[k] = o /\ GatherEnds)
          /\ WF_vars(IntervalPasses(k))
          /\ SF_vars(ProbeEnds(k, "cert"))
          /\ WF_vars(SslCooldownEnds(k))
          /\ \A d \in Directions : WF_vars(CooldownEnds(k, d))
          /\ SF_vars(\E ks \in SUBSET Checks : k \in ks /\ SendDown(ks, TRUE))
          /\ SF_vars(SendUp(k, TRUE))
          /\ SF_vars(SendCert(k, TRUE))

FairSpec == Spec /\ Fairness

-----------------------------------------------------------------------------
(* Properties. *)

\* Every variable has its type.
TypeOK ==
    /\ config \in [Checks -> {"new", "enabled", "disabled", "deleted"}]
    /\ handler \in [Checks -> {"idle", "mark"}]
    /\ server \in [Servers -> {"present", "leaving", "absent"}]
    /\ target \in [Checks -> {"ok", "expiring", "untrusted", "failed", "unsafe"}]
    /\ next_run \in [Checks -> {"none", "due", "later"}]
    /\ failing \in SUBSET Checks
    /\ cooling \in SUBSET (Checks \X Directions)
    /\ sslCooling \in SUBSET SslChecks
    /\ pc \in {"sleeping", "probing", "writing", "alerting"}
    /\ top \in SUBSET Checks
    /\ probing \in SUBSET Checks
    /\ outcome \in [Checks -> {"none", "ok", "cert", "failed"}]
    /\ moved \in SUBSET Servers
    /\ downs \in SUBSET Checks /\ ups \in SUBSET Checks /\ certs \in SUBSET SslChecks
    /\ edited \in SUBSET Checks
    /\ believed \in SUBSET Checks
    /\ certTold \in SUBSET Checks
    /\ misread \in SUBSET certTold

(***************************************************************************)
(* An admin's change is never lost on a cycle that is under way, nor is a  *)
(* new address that drops the outcome of a probe: such a check is due      *)
(* until its next probe begins, whatever the cycle reschedules and prunes  *)
(* meanwhile.                                                              *)
(***************************************************************************)
EditsRunNext == \A k \in edited \intersect Configured : next_run[k] = "due"

(***************************************************************************)
(* What is about to be told is news, also when an edit, a removal or a     *)
(* recovery falls into the cycle or its sends.  No check is told failing   *)
(* twice unless the admins heard of its recovery, an admin edited it or    *)
(* its server was removed in between.  A certificate that stays bad is     *)
(* told twice in a day only if a probe took it for good in between, as the *)
(* handshake that verifies a chain may (ssl_expiry.py): service_checks.py  *)
(* promises "at most one alert per this long while a cert stays expiring/  *)
(* invalid", and this is the one way to a second.                          *)
(***************************************************************************)
OnlyNews == downs \intersect believed = {} /\ certs \intersect certTold \subseteq misread

\* k is probed, and neither the admin nor the synchronization touches it.
IsWatched(k) == IsCurrent(k) /\ handler[k] = "idle"

\* A lasting failure reaches the admins, also if they had enabled the check
\* anew, or the server had come back, while an older alert was being sent.
IsFailing(k) == IsWatched(k) /\ target[k] = "failed"
FailureIsTold ==
    \A k \in Checks : IsFailing(k) ~> (k \in believed \/ ~IsFailing(k))

\* Admins who believe a check failing hear of its lasting recovery.
IsBelievedFailing(k) ==
    IsWatched(k) /\ target[k] \notin {"failed", "unsafe"} /\ k \in believed
RecoveryIsTold == \A k \in Checks : IsBelievedFailing(k) ~> ~IsBelievedFailing(k)

\* A lasting problem of a certificate is told, and told again once a day has
\* passed or the problem had gone away in between.
HasBadCert(k) ==
    IsWatched(k) /\ target[k] \in {"expiring", "untrusted"} /\ k \notin certTold
CertIsTold == \A k \in SslChecks : HasBadCert(k) ~> ~HasBadCert(k)
=============================================================================
