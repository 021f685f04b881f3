---------------------------- MODULE RemovalPolicy ----------------------------
(***************************************************************************)
(* What the synchronization of the server inventory promises about         *)
(* removals, whatever the providers answer: an inventory loses servers     *)
(* only on evidence.  The evidence is the provider's own claim, counted    *)
(* over consecutive answers: which known servers it left out, whether it   *)
(* answered with nothing at all, and how many times in a row it said so.   *)
(*                                                                         *)
(*   - a few missing servers are believed at once;                         *)
(*   - a mass disappearance is believed when two answers in a row leave    *)
(*     out exactly the same servers;                                       *)
(*   - an empty answer is believed after ConfirmCycles of them in a row.   *)
(*                                                                         *)
(* The policy keeps no guard state and sends no alerts; ServersSync        *)
(* implements it with the guards A1 and A2 of servers_sync.py.             *)
(***************************************************************************)
EXTENDS Naturals, FiniteSets

CONSTANTS
    Aliases,        \* provider accounts of the registry
    Servers,        \* server ids; a composite key is an alias with an id
    ConfirmCycles,  \* _empty_confirm_cycles(sync_interval)
    MinDeferrable,  \* MIN_DEFERRABLE_REMOVALS
    RatioNum,       \* max_removal_ratio is RatioNum / RatioDen
    RatioDen

VARIABLES
    local,   \* local[a]: servers of account a in the inventory
    claim    \* claim[a]: what account a's last answers left out, and how often

policyVars == <<local, claim>>

Inventories == [Aliases -> SUBSET Servers]

Claims ==
    [gone: SUBSET Servers, kind: {"empty", "partial"}, run: 0..ConfirmCycles]

NoClaim == [gone |-> {}, kind |-> "partial", run |-> 0]

(***************************************************************************)
(* The claim made by an answer that reports `keys` when `known` is in the  *)
(* inventory.  An answer that repeats the previous claim lengthens its     *)
(* run, any other answer starts a new one.  A run is counted up to         *)
(* ConfirmCycles, the largest number any rule asks for.                    *)
(***************************************************************************)
Claim(old, known, keys) ==
    LET gone == known \ keys
        kind == IF keys = {} /\ known # {} THEN "empty" ELSE "partial"
        repeated == old.gone = gone /\ old.kind = kind
    IN  [gone |-> gone, kind |-> kind,
         run |-> IF gone = {} THEN 0
                 ELSE IF ~repeated THEN 1
                 ELSE IF old.run < ConfirmCycles THEN old.run + 1 ELSE old.run]

\* A share of the known fleet large enough to be suspicious.
IsMassRemoval(gone, known) ==
    /\ Cardinality(gone) >= MinDeferrable
    /\ Cardinality(gone) * RatioDen > Cardinality(known) * RatioNum

\* The claim warrants dropping the servers it names.
Warranted(c, known) ==
    IF c.kind = "empty" THEN c.run >= ConfirmCycles
    ELSE IsMassRemoval(c.gone, known) => c.run >= 2

-----------------------------------------------------------------------------

PolicyInit ==
    /\ local \in Inventories
    /\ claim = [a \in Aliases |-> NoClaim]

\* Account a gave no usable answer: nothing is learnt and nothing changes.
Unheard(a) ==
    /\ claim'[a] = NoClaim
    /\ local'[a] = local[a]

\* Account a answered with `keys`: servers it reports may be added, and
\* servers it left out may be dropped if its claim warrants that.
Answered(a, keys) ==
    /\ claim'[a] = Claim(claim[a], local[a], keys)
    /\ local'[a] \subseteq local[a] \union keys
    /\ \/ local[a] \subseteq local'[a]
       \/ /\ Warranted(claim'[a], local[a])
          /\ local[a] \ local'[a] \subseteq claim'[a].gone

\* One synchronization cycle over all accounts.
Synchronize ==
    /\ local' \in Inventories
    /\ claim' \in [Aliases -> Claims]
    /\ \A a \in Aliases :
          \/ Unheard(a)
          \/ \E keys \in SUBSET Servers : Answered(a, keys)

\* A start of the bot reloads the inventory, which only ever adds servers, and
\* like a restart of the task begins anew with what the accounts say.
Reload ==
    /\ local' \in Inventories
    /\ \A a \in Aliases : local[a] \subseteq local'[a]
    /\ claim' = [a \in Aliases |-> NoClaim]

PolicyNext == Synchronize \/ Reload

PolicySpec == PolicyInit /\ [][PolicyNext]_policyVars
=============================================================================
