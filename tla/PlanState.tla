------------------------------ MODULE PlanState -------------------------------
(***************************************************************************)
(* The subscription of the site.  Every widget request (api_permissions.py)*)
(* and every panel request of the staff (middleware.py) first enforces a   *)
(* plan that has run out, ensure_plan_state of chat/plans.py: the allowed  *)
(* origins are put aside and the profile suspended.  Then it asks the      *)
(* cached flag of plan_is_expired and the cached origins.  The owner renews*)
(* plans (plan_activate of chat/panel.py) and fills in the forms of the two*)
(* rows.  Nothing is locked: each row is loaded, and later saved, alone.   *)
(***************************************************************************)
EXTENDS Naturals

CONSTANTS
    Requests,     \* requests of visitors (those of the staff end at the flag)
    Owners,       \* requests of the owner
    Origins,      \* what the form for the allowed origins may hold, not empty
    NoOrigins,    \* the empty text
    Unset,        \* a key the cache does not hold
    Months,       \* durations on offer, in units of the clock
    MaxTime,      \* bound: the clock
    MaxOps,       \* bound: requests of the owner
    MaxFailures   \* bound: database errors

ASSUME PlanAssumption ==
    /\ Requests \cap Owners = {}
    /\ NoOrigins \notin Origins
    /\ Unset \notin Origins \cup {NoOrigins} /\ Unset \notin BOOLEAN
    /\ Months \subseteq Nat \ {0}
    /\ MaxTime \in Nat /\ MaxOps \in Nat /\ MaxFailures \in Nat

VARIABLES
    now,
    profile,    \* the SiteProfile row
    provider,   \* ProviderSettings.widget_allowed_origins
    flag,       \* the cached answer of plan_is_expired
    access,     \* the cached origins of get_widget_access_config
    agent,      \* where each request is, and the copies it works on
    ops, failures,
    lost        \* history: a save undid another, or an enforcement was cut short

rows == <<profile, provider>>
caches == <<flag, access>>
vars == <<now, rows, caches, agent, ops, failures, lost>>

Agents == Requests \cup Owners

\* expires is 0 for a site that has no period yet.
Profile == [expires : Nat, suspended : BOOLEAN, stash : Origins \cup {NoOrigins}]

\* SiteProfile.is_expired
Expired(p) == p.expires # 0 /\ now > p.expires

NoCopy == [expires |-> 0, suspended |-> FALSE, stash |-> NoOrigins]
Idle == [pc |-> "idle", old |-> NoCopy, profile |-> NoCopy, provider |-> NoOrigins, says |-> FALSE]
AtFlag == [Idle EXCEPT !.pc = "flag"]

Init ==
    /\ now = 2
    /\ profile \in [expires : {0, 1}, suspended : {FALSE}, stash : {NoOrigins}]
    /\ provider \in Origins
    /\ flag = Unset /\ access = Unset
    /\ agent = [a \in Agents |-> Idle]
    /\ ops = 0 /\ failures = 0 /\ lost = FALSE

Tick == now < MaxTime /\ now' = now + 1 /\ UNCHANGED <<rows, caches, agent, ops, failures, lost>>

\* Mistake: good news is cached without a timeout.
FlagLapsesIfExpired ==
    /\ flag = TRUE /\ flag' = Unset
    /\ UNCHANGED <<now, rows, access, agent, ops, failures, lost>>

\* Entries of the cache time out after ten seconds.
FlagLapses ==
    /\ flag # Unset /\ flag' = Unset
    /\ UNCHANGED <<now, rows, access, agent, ops, failures, lost>>

AccessLapses ==
    /\ access # Unset /\ access' = Unset
    /\ UNCHANGED <<now, rows, flag, agent, ops, failures, lost>>

-----------------------------------------------------------------------------
(* Every request: ensure_plan_state, plan_is_expired, the allowed origins.  *)

Goes(a, pc) == agent' = [agent EXCEPT ![a].pc = pc]

\* The profile is loaded.
Look(r) ==
    /\ agent[r] = Idle
    /\ agent' = [agent EXCEPT ![r] =
            IF Expired(profile) /\ ~profile.suspended
            THEN [Idle EXCEPT !.pc = "enforce", !.old = profile, !.profile = profile]
            ELSE AtFlag]
    /\ UNCHANGED <<now, rows, caches, ops, failures, lost>>

\* Mistake: the origins put aside are the cached ones.
PutCachedAside(r) ==
    LET aside == agent[r].profile.stash IN
    /\ agent[r].pc = "enforce"
    /\ agent' = [agent EXCEPT ![r] =
            [@ EXCEPT !.pc = "clear", !.provider = provider,
                      !.profile.stash = IF aside = NoOrigins THEN access ELSE aside]]
    /\ UNCHANGED <<now, rows, caches, ops, failures, lost>>

\* The provider row is loaded, and its origins are put aside, unless there are
\* some aside already or none to put there.
PutAside(r) ==
    LET aside == agent[r].profile.stash IN
    /\ agent[r].pc = "enforce"
    /\ agent' = [agent EXCEPT ![r] =
            [@ EXCEPT !.pc = "clear", !.provider = provider,
                      !.profile.stash = IF aside = NoOrigins THEN provider ELSE aside]]
    /\ UNCHANGED <<now, rows, caches, ops, failures, lost>>

\* The provider row is saved without origins, ...
ClearOrigins(r) ==
    /\ agent[r].pc = "clear"
    /\ provider' = NoOrigins
    /\ lost' = (lost \/ provider # agent[r].provider)
    /\ Goes(r, "suspend")
    /\ UNCHANGED <<now, profile, caches, ops, failures>>

\* Mistake: the column of the stashed origins is not among those saved.
SuspendOnly(r) ==
    /\ agent[r].pc = "suspend"
    /\ profile' = [profile EXCEPT !.suspended = TRUE]
    /\ lost' = (lost \/ profile # agent[r].old)
    /\ Goes(r, "forget")
    /\ UNCHANGED <<now, provider, caches, ops, failures>>

\* ... the profile as suspended, with the origins of the copy, ...
Suspend(r) ==
    /\ agent[r].pc = "suspend"
    /\ profile' = [profile EXCEPT !.suspended = TRUE, !.stash = agent[r].profile.stash]
    /\ lost' = (lost \/ profile # agent[r].old)
    /\ Goes(r, "forget")
    /\ UNCHANGED <<now, provider, caches, ops, failures>>

\* ... and the flag is dropped.  The delete of the cached origins names a key
\* under which they are not stored.
Forget(r) ==
    /\ agent[r].pc = "forget"
    /\ flag' = Unset
    /\ agent' = [agent EXCEPT ![r] = AtFlag]
    /\ UNCHANGED <<now, rows, access, ops, failures, lost>>

\* The flag is asked; if it is not there the answer is read from the profile.
AskFlag(r) ==
    /\ agent[r].pc = "flag"
    /\ agent' = [agent EXCEPT ![r] =
            IF flag = Unset THEN [@ EXCEPT !.pc = "remember", !.says = Expired(profile)]
            ELSE IF flag THEN Idle
            ELSE [@ EXCEPT !.pc = "origins"]]
    /\ UNCHANGED <<now, rows, caches, ops, failures, lost>>

\* It is cached, whatever has become of the profile; an expired plan is 403.
Remember(r) ==
    /\ agent[r].pc = "remember"
    /\ flag' = agent[r].says
    /\ agent' = [agent EXCEPT ![r] = IF @.says THEN Idle ELSE [Idle EXCEPT !.pc = "origins"]]
    /\ UNCHANGED <<now, rows, access, ops, failures, lost>>

\* The origins are taken from the cache, or read and then cached.
AskOrigins(r) ==
    /\ agent[r].pc = "origins"
    /\ agent' = [agent EXCEPT ![r] =
            IF access = Unset THEN [@ EXCEPT !.pc = "keep", !.provider = provider] ELSE Idle]
    /\ UNCHANGED <<now, rows, caches, ops, failures, lost>>

KeepOrigins(r) ==
    /\ agent[r].pc = "keep"
    /\ access' = agent[r].provider
    /\ agent' = [agent EXCEPT ![r] = Idle]
    /\ UNCHANGED <<now, rows, flag, ops, failures, lost>>

\* A database error: an enforcement is given up where it is and the request
\* goes on; a plan that cannot be read is taken, and cached, for one that runs.
Fails(r) ==
    /\ failures < MaxFailures /\ failures' = failures + 1
    /\ \/ agent[r].pc \in {"enforce", "clear", "suspend", "forget"} /\ agent' = [agent EXCEPT ![r] = AtFlag]
       \/ agent[r].pc = "remember" /\ agent' = [agent EXCEPT ![r].says = FALSE]
    /\ lost' = (lost \/ agent[r].pc = "suspend")
    /\ UNCHANGED <<now, rows, caches, ops>>

-----------------------------------------------------------------------------
(* The owner.                                                               *)

\* plan_activate, or the form of the profile, loads the profile.
Open(o) ==
    /\ ops < MaxOps /\ ops' = ops + 1
    /\ agent[o] = Idle
    /\ \E pc \in {"activate", "profile form"} :
            agent' = [agent EXCEPT ![o] = [Idle EXCEPT !.pc = pc, !.old = profile, !.profile = profile]]
    /\ UNCHANGED <<now, rows, caches, failures, lost>>

\* The provider row is loaded.  A plan that is suspended or over starts anew
\* and gets back the origins put aside; one that runs is extended.
Renew(o, months) ==
    LET p == agent[o].profile
        over == p.suspended \/ Expired(p)
        new == [p EXCEPT !.expires = (IF over \/ @ = 0 THEN now ELSE @) + months]
    IN
    /\ agent[o].pc = "activate"
    /\ agent' = [agent EXCEPT ![o] =
            IF over
            THEN [@ EXCEPT !.pc = "restore", !.provider = provider,
                           !.profile = [new EXCEPT !.suspended = FALSE]]
            ELSE [@ EXCEPT !.pc = "renewed", !.profile = new]]
    /\ UNCHANGED <<now, rows, caches, ops, failures, lost>>

Restore(o) ==
    LET aside == agent[o].profile.stash IN
    /\ agent[o].pc = "restore"
    /\ provider' = IF aside = NoOrigins THEN agent[o].provider ELSE aside
    /\ lost' = (lost \/ provider # agent[o].provider)
    /\ agent' = [agent EXCEPT ![o].pc = "renewed", ![o].profile.stash = NoOrigins]
    /\ UNCHANGED <<now, profile, caches, ops, failures>>

\* The profile is saved, by plan_activate or as its form had loaded it.
SaveProfile(o) ==
    /\ agent[o].pc \in {"renewed", "profile form"}
    /\ profile' = agent[o].profile
    /\ lost' = (lost \/ profile # agent[o].old)
    /\ agent' = [agent EXCEPT ![o] = IF @.pc = "renewed" THEN [Idle EXCEPT !.pc = "announce"] ELSE Idle]
    /\ UNCHANGED <<now, provider, caches, ops, failures>>

Announce(o) ==
    /\ agent[o].pc = "announce"
    /\ flag' = Unset
    /\ agent' = [agent EXCEPT ![o] = Idle]
    /\ UNCHANGED <<now, rows, access, ops, failures, lost>>

\* The forms for the allowed origins and for the AI provider load the row ...
OpenProvider(o) ==
    /\ ops < MaxOps /\ ops' = ops + 1
    /\ agent[o] = Idle
    /\ agent' = [agent EXCEPT ![o] = [Idle EXCEPT !.pc = "provider form", !.provider = provider]]
    /\ UNCHANGED <<now, rows, caches, failures, lost>>

\* ... and save all of it, with other origins or the ones they loaded.
SaveProvider(o) ==
    /\ agent[o].pc = "provider form"
    /\ provider' \in Origins \cup {agent[o].provider}
    /\ lost' = (lost \/ provider # agent[o].provider)
    /\ agent' = [agent EXCEPT ![o] = Idle]
    /\ UNCHANGED <<now, profile, caches, ops, failures>>

\* An error ends the owner's request, with what it has saved by then.
OwnerFails(o) ==
    /\ failures < MaxFailures /\ failures' = failures + 1
    /\ agent[o] # Idle
    /\ agent' = [agent EXCEPT ![o] = Idle]
    /\ UNCHANGED <<now, rows, caches, ops, lost>>

-----------------------------------------------------------------------------

RequestStep(r) ==
    \/ Look(r)
    \/ PutAside(r) \/ ClearOrigins(r) \/ Suspend(r) \/ Forget(r)
    \/ AskFlag(r) \/ Remember(r)
    \/ AskOrigins(r) \/ KeepOrigins(r)

OwnerStep(o) ==
    \/ \E months \in Months : Renew(o, months)
    \/ Restore(o) \/ SaveProfile(o) \/ Announce(o)
    \/ SaveProvider(o)

Next ==
    \/ Tick
    \/ FlagLapses \/ AccessLapses
    \/ \E r \in Requests : RequestStep(r) \/ Fails(r)
    \/ \E o \in Owners : Open(o) \/ OpenProvider(o) \/ OwnerStep(o) \/ OwnerFails(o)

Spec == Init /\ [][Next]_vars

\* Requests come and are served, entries of the cache time out; the owner
\* need not do anything, and the clock need not be waited for.
FairSpec ==
    /\ Spec
    /\ WF_vars(FlagLapses) /\ WF_vars(AccessLapses)
    /\ \A r \in Requests : WF_vars(RequestStep(r))
    /\ \A o \in Owners : WF_vars(OwnerStep(o))

-----------------------------------------------------------------------------

AgentState ==
    [pc : {"idle", "enforce", "clear", "suspend", "forget", "flag", "remember", "origins", "keep",
           "activate", "restore", "renewed", "announce", "profile form", "provider form"},
     old : Profile, profile : Profile,
     provider : Origins \cup {NoOrigins}, says : BOOLEAN]

\* Every variable has its type.
PlanTypeOK ==
    /\ now \in Nat /\ ops \in Nat /\ failures \in Nat /\ lost \in BOOLEAN
    /\ profile \in Profile
    /\ provider \in Origins \cup {NoOrigins}
    /\ flag \in BOOLEAN \cup {Unset}
    /\ access \in Origins \cup {NoOrigins, Unset}
    /\ agent \in [Agents -> AgentState]

\* As long as no save undoes another's and no enforcement is cut short between
\* its two saves, the site's origins are never lost: they are in force or, if
\* the plan is suspended, put aside, through any sequence of expiries,
\* renewals, forms and errors.
OriginsKept ==
    (~lost /\ \A r \in Requests : agent[r].pc # "suspend") =>
        \/ provider # NoOrigins
        \/ profile.suspended /\ profile.stash # NoOrigins

\* In the end the caches tell the truth and stay so, and a plan that is over
\* is suspended, whatever requests, renewals and forms overlapped before.
AccessSettles ==
    <>[]( /\ flag # Unset => flag = Expired(profile)
          /\ access # Unset => access = provider
          /\ Expired(profile) => profile.suspended)

=============================================================================
