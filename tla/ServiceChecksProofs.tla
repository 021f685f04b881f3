------------------------- MODULE ServiceChecksProofs -------------------------
(***************************************************************************)
(* Proofs about ServiceChecks, for any servers and checks: the type        *)
(* invariant, that a change an admin makes survives the cycle that is      *)
(* under way, and that what the admins are told is news to them.           *)
(***************************************************************************)
EXTENDS ServiceChecks, TLAPS

\* A check that is about to be marked, or was, is in the list or was there.
MarksAreConfigured ==
    \A k \in Checks :
       /\ handler[k] = "mark" => k \in Configured
       /\ k \in edited => config[k] # "new"

\* Only SSL checks find bad certificates.
CertsAreSsl ==
    \A k \in Checks : target[k] \in {"expiring", "untrusted"} \/ outcome[k] = "cert" => k \in SslChecks

ChecksInv == TypeOK /\ MarksAreConfigured /\ CertsAreSsl /\ EditsRunNext

-----------------------------------------------------------------------------
(* One step of each invariant, action by action. *)

LEMMA TypeInductive == ChecksInv /\ [Next]_vars => TypeOK'
<1> SUFFICES ASSUME ChecksInv, [Next]_vars PROVE TypeOK'
  OBVIOUS
<1> USE DEF ChecksInv, TypeOK, CertsAreSsl, Configured, routerVars, worldVars, stateVars, cycleVars,
           alertVars, history
<1>1. ASSUME NEW k \in Checks, AddCheck(k) PROVE TypeOK'
  BY <1>1 DEF AddCheck
<1>2. ASSUME NEW k \in Checks, Toggle(k) PROVE TypeOK'
  BY <1>2 DEF Toggle
<1>3. ASSUME NEW k \in Checks, MarkDirty(k) PROVE TypeOK'
  BY <1>3 DEF MarkDirty
<1>4. ASSUME NEW k \in Checks, Delete(k) PROVE TypeOK'
  BY <1>4 DEF Delete
<1>6. ASSUME NEW s \in Servers, RemoveServer(s) PROVE TypeOK'
  BY <1>6 DEF RemoveServer
<1>7. ASSUME NEW s \in Servers, ForgetServer(s) PROVE TypeOK'
  BY <1>7 DEF ForgetServer
<1>8. ASSUME NEW s \in Servers, ReturnServer(s) PROVE TypeOK'
  BY <1>8 DEF ReturnServer
<1>9. ASSUME NEW s \in Servers, MoveServer(s) PROVE TypeOK'
  BY <1>9 DEF MoveServer
<1>10. ASSUME NEW k \in Checks, NEW o \in Endpoints(k), TargetChanges(k, o) PROVE TypeOK'
  BY <1>10 DEF TargetChanges, Endpoints
<1>11. ASSUME NEW k \in Checks, IntervalPasses(k) PROVE TypeOK'
  BY <1>11 DEF IntervalPasses
<1>12. ASSUME NEW k \in Checks, NEW d \in Directions, CooldownEnds(k, d) PROVE TypeOK'
  BY <1>12 DEF CooldownEnds
<1>13. ASSUME NEW k \in Checks, SslCooldownEnds(k) PROVE TypeOK'
  BY <1>13 DEF SslCooldownEnds
<1>14. ASSUME NEW k \in Checks, NEW o \in {"none", "ok", "cert", "failed"}, ProbeEnds(k, o) PROVE TypeOK'
  BY <1>14 DEF ProbeEnds
<1>5. CASE AbortCycle
  BY <1>5 DEF AbortCycle, NoOutcomes
<1>15. CASE WriteEnds
  BY <1>15 DEF WriteEnds, DecideAlerts
<1>16. ASSUME NEW ks \in SUBSET Checks, NEW delivered \in BOOLEAN, SendDown(ks, delivered) PROVE TypeOK'
  <2>1. ks \X {"down"} \subseteq Checks \X Directions
    BY DEF Directions
  <2>2. cooling' \in SUBSET (Checks \X Directions)
    BY <1>16, <2>1 DEF SendDown
  <2> QED
    BY <1>16, <2>2 DEF SendDown
<1>17. ASSUME NEW k \in Checks, NEW delivered \in BOOLEAN, SendUp(k, delivered) PROVE TypeOK'
  <2>1. <<k, "up">> \in Checks \X Directions
    BY DEF Directions
  <2>2. cooling' \in SUBSET (Checks \X Directions)
    BY <1>17, <2>1 DEF SendUp
  <2> QED
    BY <1>17, <2>2 DEF SendUp
<1>18. ASSUME NEW k \in Checks, NEW delivered \in BOOLEAN, SendCert(k, delivered) PROVE TypeOK'
  BY <1>18 DEF SendCert
<1>19. CASE StartCycle
  <2>1. top' \in SUBSET Checks /\ probing' \in SUBSET Checks /\ edited' \in SUBSET Checks
    BY <1>19 DEF StartCycle, Enabled
  <2>2. next_run' \in [Checks -> {"none", "due", "later"}]
    BY <1>19 DEF StartCycle
  <2> QED
    BY <1>19, <2>1, <2>2 DEF StartCycle
<1>20. CASE GatherEnds
  BY <1>20 DEF GatherEnds
<1>21. CASE EndCycle
  <2>1. next_run' \in [Checks -> {"none", "due", "later"}]
    BY <1>21 DEF EndCycle
  <2>2. /\ failing' \in SUBSET Checks
        /\ cooling' \in SUBSET (Checks \X Directions)
        /\ sslCooling' \in SUBSET SslChecks
    BY <1>21 DEF EndCycle
  <2>3. outcome' \in [Checks -> {"none", "ok", "cert", "failed"}]
    BY <1>21 DEF EndCycle, NoOutcomes
  <2> QED
    BY <1>21, <2>1, <2>2, <2>3 DEF EndCycle
<1>22. CASE UNCHANGED vars
  BY <1>22 DEF vars
<1> HIDE DEF TypeOK
<1> QED
  BY <1>1, <1>2, <1>3, <1>4, <1>5, <1>6, <1>7, <1>8,
     <1>9, <1>10, <1>11, <1>12, <1>13, <1>14, <1>15, <1>16,
     <1>17, <1>18, <1>19, <1>20, <1>21, <1>22
     DEF Next, Cycle, Send, Admin, Sync, Time

LEMMA MarksInductive == ChecksInv /\ [Next]_vars => MarksAreConfigured'
<1> SUFFICES ASSUME ChecksInv, [Next]_vars PROVE MarksAreConfigured'
  OBVIOUS
<1> USE DEF ChecksInv, TypeOK, MarksAreConfigured, Configured, routerVars, worldVars, stateVars, cycleVars,
           alertVars, history
<1>1. ASSUME NEW k \in Checks, AddCheck(k) PROVE MarksAreConfigured'
  BY <1>1 DEF AddCheck
<1>2. ASSUME NEW k \in Checks, Toggle(k) PROVE MarksAreConfigured'
  BY <1>2 DEF Toggle
<1>3. ASSUME NEW k \in Checks, MarkDirty(k) PROVE MarksAreConfigured'
  BY <1>3 DEF MarkDirty
<1>4. ASSUME NEW k \in Checks, Delete(k) PROVE MarksAreConfigured'
  BY <1>4 DEF Delete
<1>6. ASSUME NEW s \in Servers, RemoveServer(s) PROVE MarksAreConfigured'
  BY <1>6 DEF RemoveServer
<1>7. ASSUME NEW s \in Servers, ForgetServer(s) PROVE MarksAreConfigured'
  BY <1>7 DEF ForgetServer
<1>8. ASSUME NEW s \in Servers, ReturnServer(s) PROVE MarksAreConfigured'
  BY <1>8 DEF ReturnServer
<1>9. ASSUME NEW s \in Servers, MoveServer(s) PROVE MarksAreConfigured'
  BY <1>9 DEF MoveServer
<1>10. ASSUME NEW k \in Checks, NEW o \in Endpoints(k), TargetChanges(k, o) PROVE MarksAreConfigured'
  BY <1>10 DEF TargetChanges, Endpoints
<1>11. ASSUME NEW k \in Checks, IntervalPasses(k) PROVE MarksAreConfigured'
  BY <1>11 DEF IntervalPasses
<1>12. ASSUME NEW k \in Checks, NEW d \in Directions, CooldownEnds(k, d) PROVE MarksAreConfigured'
  BY <1>12 DEF CooldownEnds
<1>13. ASSUME NEW k \in Checks, SslCooldownEnds(k) PROVE MarksAreConfigured'
  BY <1>13 DEF SslCooldownEnds
<1>14. ASSUME NEW k \in Checks, NEW o \in {"none", "ok", "cert", "failed"}, ProbeEnds(k, o) PROVE MarksAreConfigured'
  BY <1>14 DEF ProbeEnds
<1>5. CASE AbortCycle
  BY <1>5 DEF AbortCycle, NoOutcomes
<1>15. CASE WriteEnds
  BY <1>15 DEF WriteEnds, DecideAlerts
<1>16. ASSUME NEW ks \in SUBSET Checks, NEW delivered \in BOOLEAN, SendDown(ks, delivered) PROVE MarksAreConfigured'
  BY <1>16 DEF SendDown
<1>17. ASSUME NEW k \in Checks, NEW delivered \in BOOLEAN, SendUp(k, delivered) PROVE MarksAreConfigured'
  BY <1>17 DEF SendUp
<1>18. ASSUME NEW k \in Checks, NEW delivered \in BOOLEAN, SendCert(k, delivered) PROVE MarksAreConfigured'
  BY <1>18 DEF SendCert
<1>19. CASE StartCycle
  BY <1>19 DEF StartCycle
<1>20. CASE GatherEnds
  BY <1>20 DEF GatherEnds
<1>21. CASE EndCycle
  BY <1>21 DEF EndCycle, Kept
<1>22. CASE UNCHANGED vars
  BY <1>22 DEF vars
<1> HIDE DEF MarksAreConfigured
<1> QED
  BY <1>1, <1>2, <1>3, <1>4, <1>5, <1>6, <1>7, <1>8,
     <1>9, <1>10, <1>11, <1>12, <1>13, <1>14, <1>15, <1>16,
     <1>17, <1>18, <1>19, <1>20, <1>21, <1>22
     DEF Next, Cycle, Send, Admin, Sync, Time

LEMMA CertsInductive == ChecksInv /\ [Next]_vars => CertsAreSsl'
<1> SUFFICES ASSUME ChecksInv, [Next]_vars PROVE CertsAreSsl'
  OBVIOUS
<1> USE DEF ChecksInv, TypeOK, CertsAreSsl, Configured, routerVars, worldVars, stateVars, cycleVars,
           alertVars, history
<1>1. ASSUME NEW k \in Checks, AddCheck(k) PROVE CertsAreSsl'
  BY <1>1 DEF AddCheck
<1>2. ASSUME NEW k \in Checks, Toggle(k) PROVE CertsAreSsl'
  BY <1>2 DEF Toggle
<1>3. ASSUME NEW k \in Checks, MarkDirty(k) PROVE CertsAreSsl'
  BY <1>3 DEF MarkDirty
<1>4. ASSUME NEW k \in Checks, Delete(k) PROVE CertsAreSsl'
  BY <1>4 DEF Delete
<1>6. ASSUME NEW s \in Servers, RemoveServer(s) PROVE CertsAreSsl'
  BY <1>6 DEF RemoveServer
<1>7. ASSUME NEW s \in Servers, ForgetServer(s) PROVE CertsAreSsl'
  BY <1>7 DEF ForgetServer
<1>8. ASSUME NEW s \in Servers, ReturnServer(s) PROVE CertsAreSsl'
  BY <1>8 DEF ReturnServer
<1>9. ASSUME NEW s \in Servers, MoveServer(s) PROVE CertsAreSsl'
  BY <1>9 DEF MoveServer
<1>10. ASSUME NEW k \in Checks, NEW o \in Endpoints(k), TargetChanges(k, o) PROVE CertsAreSsl'
  BY <1>10 DEF TargetChanges, Endpoints
<1>11. ASSUME NEW k \in Checks, IntervalPasses(k) PROVE CertsAreSsl'
  BY <1>11 DEF IntervalPasses
<1>12. ASSUME NEW k \in Checks, NEW d \in Directions, CooldownEnds(k, d) PROVE CertsAreSsl'
  BY <1>12 DEF CooldownEnds
<1>13. ASSUME NEW k \in Checks, SslCooldownEnds(k) PROVE CertsAreSsl'
  BY <1>13 DEF SslCooldownEnds
<1>14. ASSUME NEW k \in Checks, NEW o \in {"none", "ok", "cert", "failed"}, ProbeEnds(k, o) PROVE CertsAreSsl'
  BY <1>14 DEF ProbeEnds, Outcomes, Endpoints, SslOutcomes
<1>5. CASE AbortCycle
  BY <1>5 DEF AbortCycle, NoOutcomes
<1>15. CASE WriteEnds
  BY <1>15 DEF WriteEnds, DecideAlerts
<1>16. ASSUME NEW ks \in SUBSET Checks, NEW delivered \in BOOLEAN, SendDown(ks, delivered) PROVE CertsAreSsl'
  BY <1>16 DEF SendDown
<1>17. ASSUME NEW k \in Checks, NEW delivered \in BOOLEAN, SendUp(k, delivered) PROVE CertsAreSsl'
  BY <1>17 DEF SendUp
<1>18. ASSUME NEW k \in Checks, NEW delivered \in BOOLEAN, SendCert(k, delivered) PROVE CertsAreSsl'
  BY <1>18 DEF SendCert
<1>19. CASE StartCycle
  BY <1>19 DEF StartCycle
<1>20. CASE GatherEnds
  BY <1>20 DEF GatherEnds
<1>21. CASE EndCycle
  BY <1>21 DEF EndCycle, NoOutcomes
<1>22. CASE UNCHANGED vars
  BY <1>22 DEF vars
<1> HIDE DEF CertsAreSsl
<1> QED
  BY <1>1, <1>2, <1>3, <1>4, <1>5, <1>6, <1>7, <1>8,
     <1>9, <1>10, <1>11, <1>12, <1>13, <1>14, <1>15, <1>16,
     <1>17, <1>18, <1>19, <1>20, <1>21, <1>22
     DEF Next, Cycle, Send, Admin, Sync, Time

LEMMA EditsInductive == ChecksInv /\ [Next]_vars => EditsRunNext'
<1> SUFFICES ASSUME ChecksInv, [Next]_vars PROVE EditsRunNext'
  OBVIOUS
<1> USE DEF ChecksInv, TypeOK, MarksAreConfigured, EditsRunNext, Configured, Enabled, routerVars, worldVars, stateVars, cycleVars,
           alertVars, history
<1>1. ASSUME NEW k \in Checks, AddCheck(k) PROVE EditsRunNext'
  BY <1>1 DEF AddCheck
<1>2. ASSUME NEW k \in Checks, Toggle(k) PROVE EditsRunNext'
  BY <1>2 DEF Toggle
<1>3. ASSUME NEW k \in Checks, MarkDirty(k) PROVE EditsRunNext'
  BY <1>3 DEF MarkDirty
<1>4. ASSUME NEW k \in Checks, Delete(k) PROVE EditsRunNext'
  BY <1>4 DEF Delete
<1>6. ASSUME NEW s \in Servers, RemoveServer(s) PROVE EditsRunNext'
  BY <1>6 DEF RemoveServer
<1>7. ASSUME NEW s \in Servers, ForgetServer(s) PROVE EditsRunNext'
  BY <1>7 DEF ForgetServer
<1>8. ASSUME NEW s \in Servers, ReturnServer(s) PROVE EditsRunNext'
  BY <1>8 DEF ReturnServer
<1>9. ASSUME NEW s \in Servers, MoveServer(s) PROVE EditsRunNext'
  BY <1>9 DEF MoveServer
<1>10. ASSUME NEW k \in Checks, NEW o \in Endpoints(k), TargetChanges(k, o) PROVE EditsRunNext'
  BY <1>10 DEF TargetChanges, Endpoints
<1>11. ASSUME NEW k \in Checks, IntervalPasses(k) PROVE EditsRunNext'
  BY <1>11 DEF IntervalPasses
<1>12. ASSUME NEW k \in Checks, NEW d \in Directions, CooldownEnds(k, d) PROVE EditsRunNext'
  BY <1>12 DEF CooldownEnds
<1>13. ASSUME NEW k \in Checks, SslCooldownEnds(k) PROVE EditsRunNext'
  BY <1>13 DEF SslCooldownEnds
<1>14. ASSUME NEW k \in Checks, NEW o \in {"none", "ok", "cert", "failed"}, ProbeEnds(k, o) PROVE EditsRunNext'
  BY <1>14 DEF ProbeEnds
<1>5. CASE AbortCycle
  BY <1>5 DEF AbortCycle, NoOutcomes
<1>15. CASE WriteEnds
  BY <1>15 DEF WriteEnds, DecideAlerts
<1>16. ASSUME NEW ks \in SUBSET Checks, NEW delivered \in BOOLEAN, SendDown(ks, delivered) PROVE EditsRunNext'
  BY <1>16 DEF SendDown
<1>17. ASSUME NEW k \in Checks, NEW delivered \in BOOLEAN, SendUp(k, delivered) PROVE EditsRunNext'
  BY <1>17 DEF SendUp
<1>18. ASSUME NEW k \in Checks, NEW delivered \in BOOLEAN, SendCert(k, delivered) PROVE EditsRunNext'
  BY <1>18 DEF SendCert
<1>19. CASE StartCycle
  BY <1>19 DEF StartCycle
<1>20. CASE GatherEnds
  BY <1>20 DEF GatherEnds
<1>21. CASE EndCycle
  BY <1>21 DEF EndCycle, Kept
<1>22. CASE UNCHANGED vars
  BY <1>22 DEF vars
<1> HIDE DEF EditsRunNext
<1> QED
  BY <1>1, <1>2, <1>3, <1>4, <1>5, <1>6, <1>7, <1>8,
     <1>9, <1>10, <1>11, <1>12, <1>13, <1>14, <1>15, <1>16,
     <1>17, <1>18, <1>19, <1>20, <1>21, <1>22
     DEF Next, Cycle, Send, Admin, Sync, Time

LEMMA ChecksInvHolds == Spec => []ChecksInv
<1>1. Init => ChecksInv
  BY DEF Init, ChecksInv, TypeOK, MarksAreConfigured, CertsAreSsl, EditsRunNext, NoOutcomes, Configured
<1>2. ChecksInv /\ [Next]_vars => ChecksInv'
  BY TypeInductive, MarksInductive, CertsInductive, EditsInductive DEF ChecksInv
<1> QED
  BY <1>1, <1>2, PTL DEF Spec

-----------------------------------------------------------------------------
(* What the cycle recorded and what the admins heard. *)

\* What the cycle probes, has found and tells is of checks it knew at its top,
\* and only the phase it is in has something to do.
CycleKnows ==
    /\ \A k \in Checks : k \in probing \/ outcome[k] # "none" => k \in top
    /\ downs \union ups \union certs \subseteq top
    /\ \A k \in top : config[k] # "new"
    /\ pc # "probing" => probing = {}
    /\ pc = "sleeping" => outcome = NoOutcomes
    /\ pc # "alerting" => downs = {} /\ ups = {} /\ certs = {}

\* As long as a check is configured, or a cycle goes on that knew it, its
\* records agree with what the admins heard of it.  Its certificate, told bad
\* today and read as good by no probe since, is on record as told.
RecordIsBelieved ==
    /\ \A k \in top \union Configured :
          /\ k \in failing <=> k \in believed
          /\ k \in certTold \ misread => k \in sslCooling
    /\ \A k \in Checks : config[k] = "new" =>
          k \notin failing \union believed \union certTold

NewsInv == CycleKnows /\ RecordIsBelieved /\ OnlyNews

LEMMA NewsInductive == ChecksInv /\ NewsInv /\ [Next]_vars => NewsInv'
<1> SUFFICES ASSUME ChecksInv, NewsInv, [Next]_vars PROVE NewsInv'
  OBVIOUS
<1> USE DEF ChecksInv, TypeOK, NewsInv, CycleKnows, RecordIsBelieved, OnlyNews, Configured, NoOutcomes, routerVars, worldVars, stateVars, cycleVars,
           alertVars, history
<1>1. ASSUME NEW k \in Checks, AddCheck(k) PROVE NewsInv'
  BY <1>1 DEF AddCheck
<1>2. ASSUME NEW k \in Checks, Toggle(k) PROVE NewsInv'
  BY <1>2 DEF Toggle
<1>3. ASSUME NEW k \in Checks, MarkDirty(k) PROVE NewsInv'
  BY <1>3 DEF MarkDirty
<1>4. ASSUME NEW k \in Checks, Delete(k) PROVE NewsInv'
  BY <1>4 DEF Delete
<1>6. ASSUME NEW s \in Servers, RemoveServer(s) PROVE NewsInv'
  BY <1>6 DEF RemoveServer
<1>7. ASSUME NEW s \in Servers, ForgetServer(s) PROVE NewsInv'
  BY <1>7 DEF ForgetServer
<1>8. ASSUME NEW s \in Servers, ReturnServer(s) PROVE NewsInv'
  BY <1>8 DEF ReturnServer
<1>9. ASSUME NEW s \in Servers, MoveServer(s) PROVE NewsInv'
  BY <1>9 DEF MoveServer
<1>10. ASSUME NEW k \in Checks, NEW o \in Endpoints(k), TargetChanges(k, o) PROVE NewsInv'
  BY <1>10 DEF TargetChanges, Endpoints
<1>11. ASSUME NEW k \in Checks, IntervalPasses(k) PROVE NewsInv'
  BY <1>11 DEF IntervalPasses
<1>12. ASSUME NEW k \in Checks, NEW d \in Directions, CooldownEnds(k, d) PROVE NewsInv'
  BY <1>12 DEF CooldownEnds
<1>13. ASSUME NEW k \in Checks, SslCooldownEnds(k) PROVE NewsInv'
  BY <1>13 DEF SslCooldownEnds
<1>14. ASSUME NEW k \in Checks, NEW o \in {"none", "ok", "cert", "failed"}, ProbeEnds(k, o) PROVE NewsInv'
  BY <1>14 DEF ProbeEnds
<1>5. CASE AbortCycle
  BY <1>5 DEF AbortCycle
<1>15. CASE WriteEnds
  BY <1>15 DEF WriteEnds, DecideAlerts
<1>16. ASSUME NEW ks \in SUBSET Checks, NEW delivered \in BOOLEAN, SendDown(ks, delivered) PROVE NewsInv'
  BY <1>16 DEF SendDown
<1>17. ASSUME NEW k \in Checks, NEW delivered \in BOOLEAN, SendUp(k, delivered) PROVE NewsInv'
  BY <1>17 DEF SendUp
<1>18. ASSUME NEW k \in Checks, NEW delivered \in BOOLEAN, SendCert(k, delivered) PROVE NewsInv'
  BY <1>18 DEF SendCert
<1>19. CASE StartCycle
  BY <1>19 DEF StartCycle, Enabled
<1>20. CASE GatherEnds
  BY <1>20 DEF GatherEnds
<1>21. CASE EndCycle
  BY <1>21 DEF EndCycle, Kept
<1>22. CASE UNCHANGED vars
  BY <1>22 DEF vars
<1> HIDE DEF NewsInv, OnlyNews
<1> QED
  BY <1>1, <1>2, <1>3, <1>4, <1>5, <1>6, <1>7, <1>8,
     <1>9, <1>10, <1>11, <1>12, <1>13, <1>14, <1>15, <1>16,
     <1>17, <1>18, <1>19, <1>20, <1>21, <1>22
     DEF Next, Cycle, Send, Admin, Sync, Time

-----------------------------------------------------------------------------
(* The theorems. *)

\* Every reachable state of the checks is well typed.
THEOREM ChecksTypeCorrect == Spec => []TypeOK
<1>1. ChecksInv => TypeOK
  BY DEF ChecksInv
<1> QED
  BY <1>1, ChecksInvHolds, PTL

\* A check an admin changed, or whose server turned out to have moved during
\* its probe, is due until its next probe begins.
THEOREM EditsAreNotLost == Spec => []EditsRunNext
<1>1. ChecksInv => EditsRunNext
  BY DEF ChecksInv
<1> QED
  BY <1>1, ChecksInvHolds, PTL

\* No failure is told twice without a recovery, an edit or a removal, and no
\* certificate that stays bad twice in a day that no probe read as good, for
\* any checks and any interleaving of the cycle with edits, removals, changes
\* of the targets and lost alerts.
THEOREM OnlyNewsIsTold == Spec => []OnlyNews
<1>1. Init => NewsInv
  BY DEF Init, NewsInv, CycleKnows, RecordIsBelieved, OnlyNews, NoOutcomes, Configured
<1>2. ChecksInv /\ NewsInv /\ [Next]_vars => NewsInv'
  BY NewsInductive
<1>3. NewsInv => OnlyNews
  BY DEF NewsInv
<1> QED
  BY <1>1, <1>2, <1>3, ChecksInvHolds, PTL DEF Spec
=============================================================================
