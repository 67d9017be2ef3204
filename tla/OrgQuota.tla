------------------------------ MODULE OrgQuota ------------------------------
(***************************************************************************)
(* The entitlements of one organization: the caps the platform sets, the   *)
(* limits the organization sets for itself, and assertWithinLimit, which   *)
(* the handlers that create rows call before they insert.                  *)
(***************************************************************************)
EXTENDS HandlerSlots, FiniteSets

CONSTANTS
    Keys,           \* what is limited
    Amounts,        \* the numbers a limit may be
    Null,           \* the limit null: unlimited; also a column that is null
    Unset,          \* a key that a limits column does not have
    DefaultCap,     \* key |-> the registry's cap
    LimitInputs     \* bound: the limits columns that requests bring

VARIABLES
    entitlements,   \* the row: caps (platformCaps) and own (orgLimits)
    ceiling         \* history: key |-> the highest limit ever in force

quotaVars == <<entitlements, ceiling>>

Limits == [Keys -> Amounts \cup {Null, Unset}]
Entitlements == [caps : Limits, own : Limits]

ASSUME QuotaAssumption ==
    /\ Amounts \subseteq Nat
    /\ Null \notin Nat
    /\ Unset \notin Nat \cup {Null}
    /\ DefaultCap \in [Keys -> Amounts \cup {Null}]
    /\ LimitInputs \subseteq Limits

PlatformCap(key, caps) ==
    IF caps[key] # Unset THEN caps[key] ELSE DefaultCap[key]

EffectiveLimit(key, e) ==
    IF e.own[key] # Unset THEN e.own[key] ELSE PlatformCap(key, e.caps)

\* A mutant for the runs: one more than the limit.
UpToLimit(limit, used) == limit # Null => used <= limit

\* There is room for one more.
Within(limit, used) == limit # Null => used < limit

WithinLimit(key, used) == Within(EffectiveLimit(key, entitlements), used)

-----------------------------------------------------------------------------
(* validateOrgLimits and validateCapsAgainstOrgLimits: null is never       *)
(* compared, and a key the other column does not have is not either,       *)
(* except that a missing cap is the registry's.                            *)

OrgLimitsValid(limits, caps) ==
    \A key \in Keys :
        (limits[key] \in Amounts /\ PlatformCap(key, caps) \in Amounts)
            => limits[key] <= PlatformCap(key, caps)

\* A mutant for the runs: caps are lowered without a look at the limits.
CapsUnchecked(caps, own) == TRUE

CapsValid(caps, own) ==
    \A key \in Keys :
        (caps[key] \in Amounts /\ own[key] \in Amounts)
            => own[key] <= caps[key]

QuotaCalls ==
         [op : {"saveOrgLimits"}, limits : LimitInputs, current : Entitlements]
    \cup [op : {"saveCaps"}, caps : LimitInputs, current : Entitlements]

UpdateOrgLimits(w, limits) ==
    /\ OrgLimitsValid(limits, entitlements.caps)
    /\ Begin(w, [op |-> "saveOrgLimits", limits |-> limits,
                 current |-> entitlements])
    /\ UNCHANGED quotaVars

UpdatePlatformCaps(w, caps) ==
    /\ CapsValid(caps, entitlements.own)
    /\ Begin(w, [op |-> "saveCaps", caps |-> caps, current |-> entitlements])
    /\ UNCHANGED quotaVars

Higher(a, b) == IF a = Null \/ b = Null THEN Null ELSE IF a < b THEN b ELSE a

Entitle(e) ==
    /\ entitlements' = e
    /\ ceiling' = [key \in Keys |-> Higher(ceiling[key], EffectiveLimit(key, e))]

\* The column is replaced.
SaveOrgLimits(w) ==
    /\ call[w].op = "saveOrgLimits"
    /\ Entitle([entitlements EXCEPT !.own = call[w].limits])
    /\ Return(w)

\* The keys of the request are merged into the column as it is now.
SaveCaps(w) ==
    /\ call[w].op = "saveCaps"
    /\ Entitle([entitlements EXCEPT !.caps =
            [key \in Keys |-> IF call[w].caps[key] # Unset
                              THEN call[w].caps[key] ELSE @[key]]])
    /\ Return(w)

QuotaStep(w) ==
    \/ \E limits \in LimitInputs : UpdateOrgLimits(w, limits)
    \/ \E caps \in LimitInputs : UpdatePlatformCaps(w, caps)
    \/ SaveOrgLimits(w)
    \/ SaveCaps(w)

\* getOrCreate has stored the defaults of the registry.
QuotaInit ==
    /\ entitlements = [caps |-> DefaultCap, own |-> [key \in Keys |-> Unset]]
    /\ ceiling = DefaultCap

QuotaTypeOK ==
    /\ entitlements \in Entitlements
    /\ ceiling \in [Keys -> Amounts \cup {Null}]

-----------------------------------------------------------------------------
\* The numbers the organization chose respect the platform's.
CapsKept(e) ==
    \A key \in Keys :
        (e.own[key] \in Amounts /\ PlatformCap(key, e.caps) \in Amounts)
            => e.own[key] <= PlatformCap(key, e.caps)

(***************************************************************************)
(* An organization's own limit comes to exceed the platform's cap only     *)
(* when the handler that saved had read entitlements that another one has  *)
(* changed since: each column is validated against the other and saved     *)
(* without a lock (updateOrgLimits, updatePlatformEntitlements).           *)
(***************************************************************************)
CapsBrokenOnlyByOverlap ==
    [][ (CapsKept(entitlements) /\ ~CapsKept(entitlements'))
          => \E w \in Slots : /\ call[w] # call'[w]
                              /\ call[w].op \in {"saveOrgLimits", "saveCaps"}
                              /\ call[w].current # entitlements ]_<<entitlements, call>>
=============================================================================
