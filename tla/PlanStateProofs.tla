---------------------------- MODULE PlanStateProofs ----------------------------
(***************************************************************************)
(* The plan of PlanState for any number of overlapping requests, of the    *)
(* owner's too, any durations and any bounds.                              *)
(***************************************************************************)
EXTENDS PlanState, TLAPS

Pcs == {"idle", "enforce", "clear", "suspend", "forget", "flag", "remember", "origins", "keep",
        "activate", "restore", "renewed", "announce", "profile form", "provider form"}
AnyOrigins == Origins \cup {NoOrigins}

LEMMA IdleType ==
    /\ Idle \in AgentState
    /\ AtFlag \in AgentState /\ AtFlag.pc = "flag"
<1>1. NoCopy \in Profile
  BY DEF NoCopy, Profile
<1>2. Idle \in AgentState
  BY <1>1 DEF Idle, AgentState
<1> QED BY <1>2 DEF AtFlag, AgentState

LEMMA Advanced ==
    ASSUME NEW s \in AgentState, NEW pc \in Pcs
    PROVE  LET t == [s EXCEPT !.pc = pc] IN
           /\ t \in AgentState /\ t.pc = pc
           /\ t.old = s.old /\ t.profile = s.profile /\ t.provider = s.provider
BY DEF AgentState, Pcs

LEMMA WithStash ==
    ASSUME NEW p \in Profile, NEW x \in AnyOrigins
    PROVE  LET q == [p EXCEPT !.stash = x] IN
           q \in Profile /\ q.expires = p.expires /\ q.suspended = p.suspended /\ q.stash = x
BY DEF Profile, AnyOrigins

-----------------------------------------------------------------------------
(* What each step makes of the agent that takes it.                         *)

Enforcing == {"enforce", "clear", "suspend"}
Renewing == {"activate", "profile form", "restore", "renewed"}

Moves(a, s) == agent' = [agent EXCEPT ![a] = s]

LEMMA LookForm ==
    ASSUME PlanTypeOK, NEW r \in Requests, Look(r)
    PROVE  \E s \in AgentState :
            /\ Moves(r, s)
            /\ \/ s.pc = "flag"
               \/ /\ s.pc = "enforce" /\ s.old = profile /\ s.profile = profile
                  /\ Expired(profile) /\ ~profile.suspended
<1> DEFINE s == IF Expired(profile) /\ ~profile.suspended
                THEN [Idle EXCEPT !.pc = "enforce", !.old = profile, !.profile = profile]
                ELSE AtFlag
<1>1. Moves(r, s)
  BY DEF Look, Moves
<1>2. LET c == [Idle EXCEPT !.pc = "enforce", !.old = profile, !.profile = profile] IN
      c \in AgentState /\ c.pc = "enforce" /\ c.old = profile /\ c.profile = profile
  BY IdleType DEF AgentState, PlanTypeOK
<1> QED BY <1>1, <1>2, IdleType

LEMMA PutAsideForm ==
    ASSUME PlanTypeOK, NEW r \in Requests, PutAside(r)
    PROVE  \E s \in AgentState :
            /\ Moves(r, s)
            /\ s.pc = "clear" /\ s.old = agent[r].old /\ s.provider = provider
            /\ s.profile.stash = NoOrigins => provider = NoOrigins
<1> DEFINE x == IF agent[r].profile.stash = NoOrigins THEN provider ELSE agent[r].profile.stash
           p == [agent[r].profile EXCEPT !.stash = x]
           s == [agent[r] EXCEPT !.pc = "clear", !.provider = provider, !.profile = p]
<1>1. agent[r] \in AgentState /\ agent[r].profile \in Profile
  BY DEF PlanTypeOK, Agents, AgentState
<1>2. provider \in AnyOrigins /\ x \in AnyOrigins /\ "clear" \in Pcs
  BY <1>1 DEF PlanTypeOK, Profile, AnyOrigins, Pcs
<1>3. p \in Profile /\ p.stash = x
  BY <1>1, <1>2, WithStash
<1>4. Moves(r, s)
  BY DEF PutAside, Moves
<1> HIDE DEF p
<1>5. s \in AgentState /\ s.pc = "clear" /\ s.old = agent[r].old /\ s.provider = provider /\ s.profile = p
  BY <1>1, <1>2, <1>3 DEF AgentState, AnyOrigins
<1> QED BY <1>3, <1>4, <1>5

LEMMA GoesForm ==
    ASSUME PlanTypeOK, NEW a \in Agents, NEW pc \in Pcs, Goes(a, pc)
    PROVE  \E s \in AgentState :
            /\ Moves(a, s)
            /\ s.pc = pc /\ s.old = agent[a].old /\ s.profile = agent[a].profile
            /\ s.provider = agent[a].provider
<1>1. agent[a] \in AgentState
  BY DEF PlanTypeOK
<1>2. Moves(a, [agent[a] EXCEPT !.pc = pc])
  BY DEF Goes, Moves
<1> QED BY <1>1, <1>2, Advanced

\* The steps of a request after its enforcement, or instead of it.
LEMMA VisitForm ==
    ASSUME PlanTypeOK, NEW r \in Requests,
           \/ Forget(r) \/ AskFlag(r) \/ Remember(r) \/ AskOrigins(r) \/ KeepOrigins(r) \/ Fails(r)
    PROVE  \E s \in AgentState : Moves(r, s) /\ s.pc \notin Enforcing \cup Renewing
<1> USE DEF Moves
<1>0. /\ agent[r] \in AgentState /\ Idle.pc = "idle" /\ provider \in AnyOrigins
      /\ {"remember", "origins", "keep"} \subseteq Pcs
  BY DEF PlanTypeOK, Agents, Idle, AnyOrigins, Pcs
<1>1. {"idle", "flag", "remember", "origins", "keep"} \cap (Enforcing \cup Renewing) = {}
  BY DEF Enforcing, Renewing
<1>2. CASE Forget(r)
  BY <1>1, <1>2, IdleType DEF Forget
<1>3. CASE AskFlag(r)
  <2>1. Expired(profile) \in BOOLEAN
    BY DEF Expired
  <2>2. LET s == [agent[r] EXCEPT !.pc = "remember", !.says = Expired(profile)] IN
        s \in AgentState /\ s.pc = "remember"
    BY <1>0, <2>1 DEF AgentState
  <2>3. LET s == [agent[r] EXCEPT !.pc = "origins"] IN s \in AgentState /\ s.pc = "origins"
    BY <1>0, Advanced
  <2>4. \/ Moves(r, [agent[r] EXCEPT !.pc = "remember", !.says = Expired(profile)])
        \/ Moves(r, Idle)
        \/ Moves(r, [agent[r] EXCEPT !.pc = "origins"])
    BY <1>3 DEF AskFlag
  <2> QED BY <1>0, <1>1, <2>2, <2>3, <2>4, IdleType
<1>4. CASE Remember(r)
  <2>1. LET s == [Idle EXCEPT !.pc = "origins"] IN s \in AgentState /\ s.pc = "origins"
    BY <1>0, IdleType, Advanced
  <2>2. Moves(r, IF agent[r].says THEN Idle ELSE [Idle EXCEPT !.pc = "origins"])
    BY <1>4 DEF Remember
  <2> QED BY <1>0, <1>1, <2>1, <2>2, IdleType
<1>5. CASE AskOrigins(r)
  <2>1. LET s == [agent[r] EXCEPT !.pc = "keep", !.provider = provider] IN s \in AgentState /\ s.pc = "keep"
    BY <1>0 DEF AgentState, AnyOrigins
  <2>2. Moves(r, IF access = Unset THEN [agent[r] EXCEPT !.pc = "keep", !.provider = provider] ELSE Idle)
    BY <1>5 DEF AskOrigins
  <2> QED BY <1>0, <1>1, <2>1, <2>2, IdleType
<1>6. CASE KeepOrigins(r)
  BY <1>0, <1>1, <1>6, IdleType DEF KeepOrigins
<1>7. CASE Fails(r)
  <2>1. CASE agent' = [agent EXCEPT ![r] = AtFlag]
    BY <1>1, <2>1, IdleType
  <2>2. CASE agent[r].pc = "remember" /\ agent' = [agent EXCEPT ![r].says = FALSE]
    <3>1. LET s == [agent[r] EXCEPT !.says = FALSE] IN s \in AgentState /\ s.pc = "remember"
      BY <1>0, <2>2 DEF AgentState
    <3>2. Moves(r, [agent[r] EXCEPT !.says = FALSE])
      BY <2>2
    <3> QED BY <1>1, <3>1, <3>2
  <2> QED BY <1>7, <2>1, <2>2 DEF Fails
<1> QED BY <1>2, <1>3, <1>4, <1>5, <1>6, <1>7

LEMMA OpenForm ==
    ASSUME PlanTypeOK, NEW o \in Owners, Open(o)
    PROVE  \E s \in AgentState :
            /\ Moves(o, s)
            /\ s.pc \in {"activate", "profile form"} /\ s.old = profile /\ s.profile = profile
<1>1. PICK pc \in {"activate", "profile form"} :
        Moves(o, [Idle EXCEPT !.pc = pc, !.old = profile, !.profile = profile])
  BY DEF Open, Moves
<1>2. LET s == [Idle EXCEPT !.pc = pc, !.old = profile, !.profile = profile] IN
      s \in AgentState /\ s.pc = pc /\ s.old = profile /\ s.profile = profile
  BY IdleType DEF AgentState, PlanTypeOK
<1> QED BY <1>1, <1>2

\* A renewed plan ends later than before, and is in force.
LEMMA RenewForm ==
    ASSUME PlanTypeOK, NEW o \in Owners, NEW months \in Months, Renew(o, months)
    PROVE  \E s \in AgentState :
            /\ Moves(o, s)
            /\ s.old = agent[o].old
            /\ (agent[o].profile.suspended => Expired(agent[o].profile)) =>
                    s.profile.expires > agent[o].profile.expires
            /\ ~s.profile.suspended
            /\ s.profile.stash = agent[o].profile.stash
            /\ \/ s.pc = "restore" /\ s.provider = provider
               \/ s.pc = "renewed" /\ ~agent[o].profile.suspended
<1> DEFINE p == agent[o].profile
           over == p.suspended \/ Expired(p)
           from == IF over \/ p.expires = 0 THEN now ELSE p.expires
           new == [p EXCEPT !.expires = from + months]
           started == [new EXCEPT !.suspended = FALSE]
<1>1. /\ agent[o] \in AgentState /\ p \in Profile /\ provider \in AnyOrigins
      /\ {"restore", "renewed"} \subseteq Pcs
      /\ p.expires \in Nat /\ now \in Nat /\ months \in Nat \ {0}
  BY PlanAssumption DEF PlanTypeOK, Agents, AgentState, AnyOrigins, Pcs, Profile
<1>2. /\ from + months \in Nat
      /\ (p.suspended => Expired(p)) => from + months > p.expires
  BY <1>1 DEF Expired
<1>3. new \in Profile /\ new.expires = from + months /\ new.suspended = p.suspended /\ new.stash = p.stash
  BY <1>1, <1>2 DEF Profile
<1> HIDE DEF new
<1>4. started \in Profile /\ started.expires = new.expires /\ ~started.suspended /\ started.stash = new.stash
  BY <1>3 DEF Profile
<1>5. Moves(o, IF over
               THEN [agent[o] EXCEPT !.pc = "restore", !.provider = provider, !.profile = started]
               ELSE [agent[o] EXCEPT !.pc = "renewed", !.profile = new])
  BY DEF Renew, Moves, new
<1> HIDE DEF started
<1>6. CASE over
  <2>1. LET s == [agent[o] EXCEPT !.pc = "restore", !.provider = provider, !.profile = started] IN
        /\ s \in AgentState /\ s.pc = "restore" /\ s.old = agent[o].old
        /\ s.provider = provider /\ s.profile = started
    BY <1>1, <1>4 DEF AgentState, AnyOrigins
  <2> QED BY <1>2, <1>3, <1>4, <1>5, <1>6, <2>1
<1>7. CASE ~over
  <2>1. LET s == [agent[o] EXCEPT !.pc = "renewed", !.profile = new] IN
        s \in AgentState /\ s.pc = "renewed" /\ s.old = agent[o].old /\ s.profile = new
    BY <1>1, <1>3 DEF AgentState
  <2> QED BY <1>2, <1>3, <1>5, <1>7, <2>1
<1> QED BY <1>6, <1>7

LEMMA RestoreForm ==
    ASSUME PlanTypeOK, NEW o \in Owners, Restore(o)
    PROVE  \E s \in AgentState :
            /\ Moves(o, s)
            /\ s.pc = "renewed" /\ s.old = agent[o].old
            /\ s.profile.expires = agent[o].profile.expires
            /\ s.profile.suspended = agent[o].profile.suspended
<1> DEFINE p == [agent[o].profile EXCEPT !.stash = NoOrigins]
           s == [agent[o] EXCEPT !.pc = "renewed", !.profile = p]
<1>1. agent[o] \in AgentState /\ agent[o].profile \in Profile /\ NoOrigins \in AnyOrigins /\ "renewed" \in Pcs
  BY DEF PlanTypeOK, Agents, AgentState, AnyOrigins, Pcs
<1>2. p \in Profile /\ p.expires = agent[o].profile.expires /\ p.suspended = agent[o].profile.suspended
  BY <1>1, WithStash
<1>3. Moves(o, s)
  BY <1>1 DEF Restore, Moves, PlanTypeOK, Agents
<1> HIDE DEF p
<1>4. s \in AgentState /\ s.pc = "renewed" /\ s.old = agent[o].old /\ s.profile = p
  BY <1>1, <1>2 DEF AgentState
<1> QED BY <1>2, <1>3, <1>4

\* The steps with which a request of the owner's has the profile off its hands.
LEMMA OwnerForm ==
    ASSUME PlanTypeOK, NEW o \in Owners,
           SaveProfile(o) \/ Announce(o) \/ OpenProvider(o) \/ SaveProvider(o) \/ OwnerFails(o)
    PROVE  \E s \in AgentState : Moves(o, s) /\ s.pc \notin Enforcing \cup Renewing
<1> USE DEF Moves
<1>0. Idle.pc = "idle" /\ provider \in AnyOrigins /\ {"announce", "provider form"} \subseteq Pcs
  BY DEF PlanTypeOK, Idle, AnyOrigins, Pcs
<1>1. {"idle", "announce", "provider form"} \cap (Enforcing \cup Renewing) = {}
  BY DEF Enforcing, Renewing
<1>2. CASE SaveProfile(o)
  <2>1. LET s == [Idle EXCEPT !.pc = "announce"] IN s \in AgentState /\ s.pc = "announce"
    BY <1>0, IdleType, Advanced
  <2>2. Moves(o, IF agent[o].pc = "renewed" THEN [Idle EXCEPT !.pc = "announce"] ELSE Idle)
    BY <1>2 DEF SaveProfile
  <2> QED BY <1>0, <1>1, <2>1, <2>2, IdleType
<1>3. CASE OpenProvider(o)
  <2>1. LET s == [Idle EXCEPT !.pc = "provider form", !.provider = provider] IN
        s \in AgentState /\ s.pc = "provider form"
    BY <1>0, IdleType DEF AgentState, AnyOrigins
  <2> QED BY <1>0, <1>1, <1>3, <2>1 DEF OpenProvider
<1>4. CASE Announce(o) \/ SaveProvider(o) \/ OwnerFails(o)
  BY <1>0, <1>1, <1>4, IdleType DEF Announce, SaveProvider, OwnerFails
<1> QED BY <1>2, <1>3, <1>4

\* A request never takes up a renewal, nor the owner an enforcement.
LEMMA RequestRole ==
    ASSUME PlanTypeOK, NEW r \in Requests, RequestStep(r) \/ Fails(r)
    PROVE  \E s \in AgentState : Moves(r, s) /\ s.pc \notin Renewing
<1>1. {"flag", "enforce", "clear", "suspend", "forget"} \cap Renewing = {}
  BY DEF Renewing
<1>2. {"suspend", "forget"} \subseteq Pcs /\ r \in Agents
  BY DEF Pcs, Agents
<1>3. CASE Look(r)
  BY <1>1, <1>3, LookForm
<1>4. CASE PutAside(r)
  BY <1>1, <1>4, PutAsideForm
<1>5. CASE ClearOrigins(r) \/ Suspend(r)
  BY <1>1, <1>2, <1>5, GoesForm DEF ClearOrigins, Suspend
<1>6. CASE Forget(r) \/ AskFlag(r) \/ Remember(r) \/ AskOrigins(r) \/ KeepOrigins(r) \/ Fails(r)
  BY <1>6, VisitForm
<1> QED BY <1>3, <1>4, <1>5, <1>6 DEF RequestStep

LEMMA OwnerRole ==
    ASSUME PlanTypeOK, NEW o \in Owners, Open(o) \/ OpenProvider(o) \/ OwnerStep(o) \/ OwnerFails(o)
    PROVE  \E s \in AgentState : Moves(o, s) /\ s.pc \notin Enforcing
<1>1. {"activate", "profile form", "restore", "renewed"} \cap Enforcing = {}
  BY DEF Enforcing
<1>2. CASE Open(o)
  BY <1>1, <1>2, OpenForm
<1>3. ASSUME NEW months \in Months, Renew(o, months)
      PROVE  \E s \in AgentState : Moves(o, s) /\ s.pc \notin Enforcing
  BY <1>1, <1>3, RenewForm
<1>4. CASE Restore(o)
  BY <1>1, <1>4, RestoreForm
<1>5. CASE SaveProfile(o) \/ Announce(o) \/ OpenProvider(o) \/ SaveProvider(o) \/ OwnerFails(o)
  BY <1>5, OwnerForm
<1> QED BY <1>2, <1>3, <1>4, <1>5 DEF OwnerStep

-----------------------------------------------------------------------------
(* Types.                                                                   *)

LEMMA TypeInit == Init => PlanTypeOK
<1> SUFFICES ASSUME Init PROVE PlanTypeOK
  OBVIOUS
<1>1. PICK n \in {0, 1} : profile = [expires |-> n, suspended |-> FALSE, stash |-> NoOrigins]
  BY DEF Init
<1>2. profile \in Profile
  BY <1>1 DEF Profile
<1> QED BY <1>2, IdleType DEF Init, PlanTypeOK

LEMMA TypeRequest ==
    ASSUME PlanTypeOK, NEW r \in Requests, RequestStep(r) \/ Fails(r)
    PROVE  PlanTypeOK'
<1> USE DEF Moves, rows, caches, Agents
<1>1. CASE Look(r)
  BY <1>1, LookForm DEF Look, PlanTypeOK
<1>2. CASE PutAside(r)
  <2>1. PICK s \in AgentState : Moves(r, s)
    BY <1>2, PutAsideForm
  <2> QED BY <1>2, <2>1 DEF PutAside, PlanTypeOK
<1>3. CASE ClearOrigins(r)
  <2>1. "suspend" \in Pcs
    BY DEF Pcs
  <2>2. PICK s \in AgentState : Moves(r, s)
    BY <1>3, <2>1, GoesForm DEF ClearOrigins
  <2> QED BY <1>3, <2>2 DEF ClearOrigins, PlanTypeOK
<1>4. CASE Suspend(r)
  <2>1. "forget" \in Pcs
    BY DEF Pcs
  <2>2. PICK s \in AgentState : Moves(r, s)
    BY <1>4, <2>1, GoesForm DEF Suspend
  <2>3. profile' \in Profile
    BY <1>4 DEF Suspend, PlanTypeOK, AgentState, Profile
  <2> QED BY <1>4, <2>2, <2>3 DEF Suspend, PlanTypeOK
<1>5. CASE Forget(r) \/ AskFlag(r) \/ Remember(r) \/ AskOrigins(r) \/ KeepOrigins(r) \/ Fails(r)
  <2>1. PICK s \in AgentState : Moves(r, s)
    BY <1>5, VisitForm
  <2>2. agent[r].says \in BOOLEAN /\ agent[r].provider \in Origins \cup {NoOrigins}
    BY DEF PlanTypeOK, AgentState
  <2>3. agent' \in [Agents -> AgentState]
    BY <2>1 DEF PlanTypeOK
  <2>4. CASE Forget(r) \/ AskFlag(r) \/ AskOrigins(r) \/ KeepOrigins(r)
    BY <2>2, <2>3, <2>4 DEF Forget, AskFlag, AskOrigins, KeepOrigins, PlanTypeOK
  <2>5. CASE Remember(r)
    BY <2>2, <2>3, <2>5 DEF Remember, PlanTypeOK
  <2>6. CASE Fails(r)
    BY <2>3, <2>6 DEF Fails, PlanTypeOK
  <2> QED BY <1>5, <2>4, <2>5, <2>6
<1> QED BY <1>1, <1>2, <1>3, <1>4, <1>5 DEF RequestStep

LEMMA TypeOwner ==
    ASSUME PlanTypeOK, NEW o \in Owners, Open(o) \/ OpenProvider(o) \/ OwnerStep(o) \/ OwnerFails(o)
    PROVE  PlanTypeOK'
<1> USE DEF Moves, rows, caches, Agents
<1>0. agent[o].provider \in Origins \cup {NoOrigins} /\ agent[o].profile \in Profile
  BY DEF PlanTypeOK, AgentState
<1>1. CASE Open(o)
  <2>1. PICK s \in AgentState : Moves(o, s)
    BY <1>1, OpenForm
  <2>2. agent' \in [Agents -> AgentState]
    BY <2>1 DEF PlanTypeOK
  <2>3. ops' = ops + 1 /\ UNCHANGED <<now, rows, caches, failures, lost>>
    BY <1>1 DEF Open
  <2> QED BY <2>2, <2>3 DEF PlanTypeOK
<1>2. ASSUME NEW months \in Months, Renew(o, months) PROVE PlanTypeOK'
  <2>1. PICK s \in AgentState : Moves(o, s)
    BY <1>2, RenewForm
  <2> QED BY <1>2, <2>1 DEF Renew, PlanTypeOK
<1>3. CASE Restore(o)
  <2>1. PICK s \in AgentState : Moves(o, s)
    BY <1>3, RestoreForm
  <2>2. provider' \in Origins \cup {NoOrigins}
    BY <1>0, <1>3 DEF Restore, Profile
  <2> QED BY <1>3, <2>1, <2>2 DEF Restore, PlanTypeOK
<1>4. CASE SaveProfile(o) \/ Announce(o) \/ OpenProvider(o) \/ SaveProvider(o) \/ OwnerFails(o)
  <2>1. PICK s \in AgentState : Moves(o, s)
    BY <1>4, OwnerForm
  <2>2. agent' \in [Agents -> AgentState]
    BY <2>1 DEF PlanTypeOK
  <2>3. CASE SaveProfile(o)
    BY <1>0, <2>2, <2>3 DEF SaveProfile, PlanTypeOK
  <2>4. CASE Announce(o) \/ OwnerFails(o)
    BY <2>2, <2>4 DEF Announce, OwnerFails, PlanTypeOK
  <2>5. CASE OpenProvider(o)
    BY <2>2, <2>5 DEF OpenProvider, PlanTypeOK
  <2>6. CASE SaveProvider(o)
    BY <1>0, <2>2, <2>6 DEF SaveProvider, PlanTypeOK
  <2> QED BY <1>4, <2>3, <2>4, <2>5, <2>6
<1> QED BY <1>1, <1>2, <1>3, <1>4 DEF OwnerStep

LEMMA TypeStep == PlanTypeOK /\ [Next]_vars => PlanTypeOK'
<1> SUFFICES ASSUME PlanTypeOK, [Next]_vars PROVE PlanTypeOK'
  OBVIOUS
<1>1. CASE UNCHANGED vars
  BY <1>1 DEF vars, rows, caches, PlanTypeOK
<1>2. CASE Tick
  BY <1>2 DEF Tick, rows, caches, PlanTypeOK
<1>3. CASE FlagLapses \/ AccessLapses
  BY <1>3 DEF FlagLapses, AccessLapses, rows, PlanTypeOK
<1> QED BY <1>1, <1>2, <1>3, TypeRequest, TypeOwner DEF Next

\* Rows, caches and requests have their types, whatever overlaps or fails.
THEOREM PlanTypeCorrect == Spec => []PlanTypeOK
BY TypeInit, TypeStep, PTL DEF Spec

-----------------------------------------------------------------------------
(* The origins.                                                             *)

\* The profile only grows later: it is renewed, or suspended in the period
\* it has.
Later(p, q) ==
    \/ p.expires > q.expires
    \/ p.expires = q.expires /\ p.suspended /\ ~q.suspended

\* An enforcement is between its two saves.
Suspending(r) == agent[r].pc = "suspend"

\* What an agent s that holds a copy of the profile knows of it.
CopyFits(s) ==
    s.pc \in Enforcing \cup Renewing =>
        /\ s.old = profile \/ Later(profile, s.old)
        /\ s.old.suspended => Expired(s.old)
        /\ s.pc \in Enforcing => ~s.old.suspended /\ Expired(s.old)
        /\ s.pc \in {"clear", "suspend"} /\ s.profile.stash = NoOrigins => s.provider = NoOrigins
        /\ s.pc \in {"activate", "profile form"} => s.profile = s.old
        /\ s.pc \in {"restore", "renewed"} => s.profile.expires > s.old.expires /\ ~s.profile.suspended
        /\ s.pc = "restore" => s.profile.stash = s.old.stash

Copies == \A a \in Agents : CopyFits(agent[a])

\* The origins are in force, aside, or about to be put aside.
Standing ==
    \/ provider # NoOrigins
    \/ profile.suspended /\ profile.stash # NoOrigins
    \/ \E r \in Requests : Suspending(r)

\* Who can still save a profile without origins aside has nothing to lose.
Handed ==
    \A r \in Requests :
        (/\ agent[r].pc \in {"clear", "suspend"}
         /\ agent[r].old = profile /\ agent[r].profile.stash = NoOrigins) =>
            provider # NoOrigins \/ \E q \in Requests : q # r /\ Suspending(q)

\* A renewal that can still be saved has given the origins back.
Restored ==
    \A o \in Owners :
        agent[o].pc = "renewed" /\ agent[o].old = profile =>
            provider # NoOrigins \/ \E r \in Requests : Suspending(r)

\* Only requests enforce, and only the owner renews.
Roles ==
    /\ \A r \in Requests : agent[r].pc \notin Renewing
    /\ \A o \in Owners : agent[o].pc \notin Enforcing

OriginsInv ==
    /\ Roles
    /\ ~lost => /\ profile.suspended => Expired(profile)
                /\ Copies /\ Standing /\ Handed /\ Restored

LEMMA OriginsInit == Init => OriginsInv
<1> SUFFICES ASSUME Init PROVE OriginsInv
  OBVIOUS
<1>1. PICK n \in {0, 1} : profile = [expires |-> n, suspended |-> FALSE, stash |-> NoOrigins]
  BY DEF Init
<1>2. \A a \in Agents : agent[a].pc = "idle"
  BY DEF Init, Idle
<1>3. provider # NoOrigins /\ ~profile.suspended
  BY <1>1, PlanAssumption DEF Init
<1> QED
  BY <1>2, <1>3
  DEF OriginsInv, Roles, Copies, CopyFits, Standing, Handed, Restored, Enforcing, Renewing, Agents

\* Any later profile has run past the copies that fit the present one.
LEMMA LaterStill ==
    ASSUME NEW p \in Profile, NEW q \in Profile, NEW r \in Profile,
           Later(p, q), q = r \/ Later(q, r)
    PROVE  Later(p, r) /\ p # r
BY DEF Later, Profile

\* An agent moves on, the profile stays, and origins that are in force do.
LEMMA OriginsMoved ==
    ASSUME PlanTypeOK, OriginsInv, ~lost, UNCHANGED <<now, profile>>,
           provider' # NoOrigins \/ provider' = provider,
           NEW a \in Agents, NEW s \in AgentState, Moves(a, s),
           ~Suspending(a), s.pc # "suspend",
           a \in Requests => s.pc \notin Renewing,
           a \in Owners => s.pc \notin Enforcing,
           CopyFits(s),
           (s.pc = "clear" /\ s.profile.stash = NoOrigins /\ s.old = profile) =>
               provider # NoOrigins \/ \E q \in Requests : q # a /\ Suspending(q),
           (s.pc = "renewed" /\ s.old = profile) =>
               provider' # NoOrigins \/ \E q \in Requests : Suspending(q)
    PROVE  OriginsInv'
<1>1. \A b \in Agents : agent'[b] = IF b = a THEN s ELSE agent[b]
  BY DEF Moves, PlanTypeOK
<1>2. \A q \in Agents : Suspending(q)' <=> Suspending(q)
  BY <1>1 DEF Suspending
<1>3. Roles'
  BY <1>1 DEF OriginsInv, Roles, Agents
<1>4. Copies'
  <2> SUFFICES ASSUME NEW b \in Agents PROVE CopyFits(agent[b])'
    BY DEF Copies
  <2>1. CASE b = a
    BY <1>1, <2>1 DEF CopyFits, Later, Expired
  <2>2. CASE b # a
    BY <1>1, <2>2 DEF CopyFits, Later, Expired, OriginsInv, Copies
  <2> QED BY <2>1, <2>2
<1>5. Standing'
  BY <1>2 DEF OriginsInv, Standing, Agents
<1>6. Handed'
  <2> SUFFICES ASSUME NEW r \in Requests, agent'[r].pc \in {"clear", "suspend"},
                      agent'[r].old = profile, agent'[r].profile.stash = NoOrigins,
                      provider' = NoOrigins
               PROVE  \E q \in Requests : q # r /\ Suspending(q)'
    BY DEF Handed
  <2>1. CASE r = a
    BY <1>1, <1>2, <2>1 DEF Agents
  <2>2. CASE r # a
    BY <1>1, <1>2, <2>2 DEF OriginsInv, Handed, Agents
  <2> QED BY <2>1, <2>2
<1>7. Restored'
  BY <1>1, <1>2 DEF OriginsInv, Restored, Agents
<1>8. profile'.suspended => Expired(profile)'
  BY DEF OriginsInv, Expired
<1> QED BY <1>3, <1>4, <1>5, <1>6, <1>7, <1>8 DEF OriginsInv

\* An agent saves a later profile and has done with it.
LEMMA OriginsSaved ==
    ASSUME PlanTypeOK, PlanTypeOK', OriginsInv, ~lost, UNCHANGED now,
           Later(profile', profile),
           NEW a \in Agents, NEW s \in AgentState, Moves(a, s),
           s.pc \notin Enforcing \cup Renewing,
           profile'.suspended => Expired(profile'),
           Standing'
    PROVE  OriginsInv'
<1>1. \A b \in Agents : agent'[b] = IF b = a THEN s ELSE agent[b]
  BY DEF Moves, PlanTypeOK
<1>2. Roles'
  BY <1>1 DEF OriginsInv, Roles, Agents
<1>3. ASSUME NEW b \in Agents, agent'[b].pc \in Enforcing \cup Renewing
      PROVE  /\ agent'[b] = agent[b]
             /\ Later(profile', agent[b].old) /\ profile' # agent[b].old
  <2>1. agent'[b] = agent[b]
    BY <1>1, <1>3
  <2>2. agent[b].old \in Profile /\ profile \in Profile /\ profile' \in Profile
    BY DEF PlanTypeOK, AgentState
  <2>3. profile = agent[b].old \/ Later(profile, agent[b].old)
    BY <1>3, <2>1 DEF OriginsInv, Copies, CopyFits
  <2> QED BY <2>1, <2>2, <2>3, LaterStill
<1>4. Copies'
  <2> SUFFICES ASSUME NEW b \in Agents, agent'[b].pc \in Enforcing \cup Renewing PROVE CopyFits(agent[b])'
    BY DEF Copies, CopyFits
  <2>1. agent'[b] = agent[b] /\ Later(profile', agent[b].old)
    BY <1>3
  <2>2. CopyFits(agent[b])
    BY DEF OriginsInv, Copies
  <2> QED BY <2>1, <2>2 DEF CopyFits, Later, Expired
<1>5. Handed' /\ Restored'
  BY <1>3 DEF Handed, Restored, Agents, Enforcing, Renewing
<1>6. profile'.suspended => Expired(profile)'
  BY DEF Expired
<1> QED BY <1>2, <1>4, <1>5, <1>6 DEF OriginsInv

\* What an agent has in hand, as long as nothing is lost.
LEMMA InHand ==
    ASSUME PlanTypeOK, OriginsInv, ~lost, NEW a \in Agents
    PROVE  /\ CopyFits(agent[a])
           /\ agent[a] \in AgentState /\ agent[a].old \in Profile /\ agent[a].profile \in Profile
           /\ profile \in Profile
           /\ a \in Owners => ~Suspending(a) /\ a \notin Requests
           /\ a \in Requests => a \notin Owners
           /\ a \in Requests => agent[a].pc \notin Renewing
           /\ profile.suspended => Expired(profile)
           /\ Standing
BY PlanAssumption DEF OriginsInv, Roles, Copies, Suspending, PlanTypeOK, AgentState, Enforcing

LEMMA OriginsRequest ==
    ASSUME PlanTypeOK, PlanTypeOK', OriginsInv, NEW r \in Requests, RequestStep(r) \/ Fails(r), ~lost'
    PROVE  OriginsInv'
<1> USE DEF rows, caches
<1>0. ~lost /\ UNCHANGED now
  BY
  DEF PlanTypeOK, RequestStep, Look, PutAside, ClearOrigins, Suspend, Forget, AskFlag, Remember,
      AskOrigins, KeepOrigins, Fails
<1>1. /\ r \in Agents /\ r \notin Owners
      /\ CopyFits(agent[r])
      /\ agent[r].old \in Profile /\ agent[r].profile \in Profile /\ profile \in Profile
      /\ profile.suspended => Expired(profile)
      /\ Standing
  BY <1>0, InHand DEF Agents
<1>2. CASE Look(r)
  <2>1. PICK s \in AgentState :
          /\ Moves(r, s)
          /\ \/ s.pc = "flag"
             \/ /\ s.pc = "enforce" /\ s.old = profile /\ s.profile = profile
                /\ Expired(profile) /\ ~profile.suspended
    BY <1>2, LookForm
  <2>2. CopyFits(s) /\ s.pc \notin Renewing /\ s.pc \notin {"suspend", "clear", "renewed"}
    BY <2>1 DEF CopyFits, Enforcing, Renewing
  <2>3. ~Suspending(r) /\ UNCHANGED <<profile, provider>>
    BY <1>2 DEF Look, Idle, Suspending
  <2> QED BY <1>0, <1>1, <2>1, <2>2, <2>3, OriginsMoved
<1>3. CASE PutAside(r)
  <2>1. PICK s \in AgentState :
          /\ Moves(r, s)
          /\ s.pc = "clear" /\ s.old = agent[r].old /\ s.provider = provider
          /\ s.profile.stash = NoOrigins => provider = NoOrigins
    BY <1>3, PutAsideForm
  <2>2. agent[r].pc = "enforce" /\ UNCHANGED <<profile, provider>>
    BY <1>3 DEF PutAside
  <2>3. CopyFits(s) /\ ~s.old.suspended
    BY <1>1, <2>1, <2>2 DEF CopyFits, Enforcing
  <2>4. (s.profile.stash = NoOrigins /\ s.old = profile) => \E q \in Requests : q # r /\ Suspending(q)
    BY <1>1, <2>1, <2>2, <2>3 DEF Standing, Suspending
  <2> QED
    BY <1>0, <1>1, <2>1, <2>2, <2>3, <2>4, OriginsMoved DEF Suspending, Renewing
<1>4. CASE ClearOrigins(r)
  <2>0. "suspend" \in Pcs
    BY DEF Pcs
  <2>1. PICK s \in AgentState :
          /\ Moves(r, s)
          /\ s.pc = "suspend" /\ s.old = agent[r].old /\ s.profile = agent[r].profile
          /\ s.provider = agent[r].provider
    BY <1>1, <1>4, <2>0, GoesForm DEF ClearOrigins
  <2>2. agent[r].pc = "clear" /\ provider = agent[r].provider /\ UNCHANGED profile
    BY <1>0, <1>4 DEF ClearOrigins, PlanTypeOK
  <2>3. \A a \in Agents : agent'[a] = IF a = r THEN s ELSE agent[a]
    BY <2>1 DEF Moves, PlanTypeOK
  <2>4. Suspending(r)' /\ \A q \in Requests : Suspending(q) => Suspending(q)'
    BY <1>1, <2>1, <2>3 DEF Suspending, Agents
  <2>5. Roles'
    BY <1>1, <2>1, <2>3 DEF OriginsInv, Roles, Agents, Renewing
  <2>6. Copies'
    <3> SUFFICES ASSUME NEW a \in Agents PROVE CopyFits(agent[a])'
      BY DEF Copies
    <3>1. CASE a = r
      BY <1>0, <1>1, <2>1, <2>2, <2>3, <3>1 DEF CopyFits, Later, Expired, Enforcing
    <3>2. CASE a # r
      BY <1>0, <2>2, <2>3, <3>2 DEF CopyFits, Later, Expired, OriginsInv, Copies
    <3> QED BY <3>1, <3>2
  <2>7. Standing' /\ Restored'
    BY <2>4 DEF Standing, Restored
  <2>8. Handed'
    <3> SUFFICES ASSUME NEW p \in Requests, agent'[p].old = profile, agent'[p].profile.stash = NoOrigins,
                        agent'[p].pc \in {"clear", "suspend"}
                 PROVE  \E q \in Requests : q # p /\ Suspending(q)'
      BY <2>2 DEF Handed
    <3>1. CASE p = r
      <4>1. agent[r].profile.stash = NoOrigins /\ agent[r].old = profile
        BY <1>1, <2>1, <2>3, <3>1
      <4>2. provider = NoOrigins
        BY <1>1, <2>2, <4>1 DEF CopyFits, Enforcing
      <4>3. \E q \in Requests : q # r /\ Suspending(q)
        BY <1>0, <2>2, <4>1, <4>2 DEF OriginsInv, Handed
      <4> QED BY <2>4, <3>1, <4>3
    <3>2. CASE p # r
      BY <2>4, <3>2
    <3> QED BY <3>1, <3>2
  <2>9. profile'.suspended => Expired(profile)'
    BY <1>0, <1>1, <2>2 DEF Expired
  <2> QED BY <2>5, <2>6, <2>7, <2>8, <2>9 DEF OriginsInv
<1>5. CASE Suspend(r)
  <2>0. "forget" \in Pcs
    BY DEF Pcs
  <2>1. PICK s \in AgentState : Moves(r, s) /\ s.pc = "forget"
    BY <1>1, <1>5, <2>0, GoesForm DEF Suspend
  <2>2. /\ Suspending(r) /\ profile = agent[r].old /\ UNCHANGED provider
        /\ profile' = [profile EXCEPT !.suspended = TRUE, !.stash = agent[r].profile.stash]
    BY <1>0, <1>5 DEF Suspend, PlanTypeOK, Suspending
  <2>3. /\ profile'.suspended /\ profile'.expires = profile.expires
        /\ profile'.stash = agent[r].profile.stash
    BY <1>1, <2>2 DEF Profile
  <2>4. ~profile.suspended /\ Expired(profile)
    BY <1>1, <2>2 DEF CopyFits, Suspending, Enforcing
  <2>5. Later(profile', profile) /\ Expired(profile')
    BY <2>3, <2>4 DEF Later, Expired
  <2>6. Standing'
    <3>1. CASE agent[r].profile.stash # NoOrigins
      BY <2>3, <3>1 DEF Standing
    <3>2. CASE agent[r].profile.stash = NoOrigins
      <4>1. provider # NoOrigins \/ \E q \in Requests : q # r /\ Suspending(q)
        BY <1>0, <2>2, <3>2 DEF OriginsInv, Handed, Suspending
      <4>2. \A q \in Requests : q # r /\ Suspending(q) => Suspending(q)'
        BY <2>1 DEF Moves, PlanTypeOK, Agents, Suspending
      <4> QED BY <2>2, <4>1, <4>2 DEF Standing
    <3> QED BY <3>1, <3>2
  <2>7. s.pc \notin Enforcing \cup Renewing
    BY <2>1 DEF Enforcing, Renewing
  <2> QED BY <1>0, <1>1, <2>1, <2>5, <2>6, <2>7, OriginsSaved
<1>6. CASE Forget(r) \/ AskFlag(r) \/ Remember(r) \/ AskOrigins(r) \/ KeepOrigins(r) \/ Fails(r)
  <2>1. PICK s \in AgentState : Moves(r, s) /\ s.pc \notin Enforcing \cup Renewing
    BY <1>6, VisitForm
  <2>2. ~Suspending(r) /\ UNCHANGED <<profile, provider>>
    BY <1>6 DEF Forget, AskFlag, Remember, AskOrigins, KeepOrigins, Fails, Suspending, PlanTypeOK
  <2>3. CopyFits(s) /\ s.pc \notin {"suspend", "clear", "renewed"}
    BY <2>1 DEF CopyFits, Enforcing, Renewing
  <2> QED BY <1>0, <1>1, <2>1, <2>2, <2>3, OriginsMoved
<1> QED BY <1>2, <1>3, <1>4, <1>5, <1>6 DEF RequestStep

LEMMA OriginsOwner ==
    ASSUME PlanTypeOK, PlanTypeOK', OriginsInv, NEW o \in Owners,
           Open(o) \/ OpenProvider(o) \/ OwnerStep(o) \/ OwnerFails(o), ~lost'
    PROVE  OriginsInv'
<1> USE DEF rows, caches
<1>0. ~lost /\ UNCHANGED now
  BY
  DEF PlanTypeOK, OwnerStep, Open, OpenProvider, Renew, Restore, SaveProfile, Announce, SaveProvider,
      OwnerFails
<1>1. /\ o \in Agents /\ o \notin Requests /\ ~Suspending(o)
      /\ CopyFits(agent[o])
      /\ agent[o].old \in Profile /\ agent[o].profile \in Profile /\ profile \in Profile
      /\ profile.suspended => Expired(profile)
      /\ Standing
  BY <1>0, InHand DEF Agents
<1>2. CASE Open(o)
  <2>1. PICK s \in AgentState :
          Moves(o, s) /\ s.pc \in {"activate", "profile form"} /\ s.old = profile /\ s.profile = profile
    BY <1>2, OpenForm
  <2>2. UNCHANGED <<profile, provider>>
    BY <1>2 DEF Open
  <2>3. CopyFits(s) /\ s.pc \notin Enforcing /\ s.pc \notin {"suspend", "clear", "renewed"}
    BY <1>1, <2>1 DEF CopyFits, Enforcing
  <2> QED BY <1>0, <1>1, <2>1, <2>2, <2>3, OriginsMoved
<1>3. ASSUME NEW months \in Months, Renew(o, months) PROVE OriginsInv'
  <2>1. PICK s \in AgentState :
          /\ Moves(o, s)
          /\ s.old = agent[o].old
          /\ (agent[o].profile.suspended => Expired(agent[o].profile)) =>
                  s.profile.expires > agent[o].profile.expires
          /\ ~s.profile.suspended
          /\ s.profile.stash = agent[o].profile.stash
          /\ \/ s.pc = "restore" /\ s.provider = provider
             \/ s.pc = "renewed" /\ ~agent[o].profile.suspended
    BY <1>3, RenewForm
  <2>2. agent[o].pc = "activate" /\ UNCHANGED <<profile, provider>>
    BY <1>3 DEF Renew
  <2>3. agent[o].profile = agent[o].old /\ (agent[o].old.suspended => Expired(agent[o].old))
    BY <1>1, <2>2 DEF CopyFits, Renewing
  <2>4. CopyFits(s) /\ s.pc \notin Enforcing /\ s.pc \notin {"suspend", "clear"}
    BY <1>1, <2>1, <2>2, <2>3 DEF CopyFits, Enforcing, Renewing
  <2>5. (s.pc = "renewed" /\ s.old = profile) =>
            provider # NoOrigins \/ \E q \in Requests : Suspending(q)
    BY <1>1, <2>1, <2>3 DEF Standing
  <2> QED BY <1>0, <1>1, <2>1, <2>2, <2>4, <2>5, OriginsMoved
<1>4. CASE Restore(o)
  <2>1. PICK s \in AgentState :
          /\ Moves(o, s)
          /\ s.pc = "renewed" /\ s.old = agent[o].old
          /\ s.profile.expires = agent[o].profile.expires
          /\ s.profile.suspended = agent[o].profile.suspended
    BY <1>4, RestoreForm
  <2>2. /\ agent[o].pc = "restore" /\ UNCHANGED profile
        /\ provider = agent[o].provider
        /\ provider' = IF agent[o].profile.stash = NoOrigins THEN agent[o].provider
                       ELSE agent[o].profile.stash
    BY <1>0, <1>4 DEF Restore, PlanTypeOK
  <2>3. CopyFits(s) /\ agent[o].profile.stash = agent[o].old.stash
    BY <1>1, <2>1, <2>2 DEF CopyFits, Enforcing, Renewing
  <2>4. s.pc \notin Enforcing
    BY <2>1 DEF Enforcing
  <2>5. s.old = profile => provider' # NoOrigins \/ \E q \in Requests : Suspending(q)
    BY <1>1, <2>1, <2>2, <2>3 DEF Standing
  <2> QED BY <1>0, <1>1, <2>1, <2>2, <2>3, <2>4, <2>5, OriginsMoved
<1>5. CASE SaveProfile(o)
  <2>1. PICK s \in AgentState : Moves(o, s) /\ s.pc \notin Enforcing \cup Renewing
    BY <1>5, OwnerForm
  <2>2. /\ agent[o].pc \in {"renewed", "profile form"} /\ UNCHANGED provider
        /\ profile' = agent[o].profile /\ profile = agent[o].old
    BY <1>0, <1>5 DEF SaveProfile, PlanTypeOK
  <2>3. CASE agent[o].pc = "profile form"
    <3>1. UNCHANGED profile
      BY <1>1, <2>2, <2>3 DEF CopyFits, Renewing
    <3>2. CopyFits(s) /\ s.pc \notin {"suspend", "clear", "renewed"}
      BY <2>1 DEF CopyFits, Enforcing, Renewing
    <3> QED BY <1>0, <1>1, <2>1, <2>2, <3>1, <3>2, OriginsMoved
  <2>4. CASE agent[o].pc = "renewed"
    <3>1. Later(profile', profile) /\ ~profile'.suspended
      BY <1>1, <2>2, <2>4 DEF CopyFits, Renewing, Later
    <3>2. provider # NoOrigins \/ \E q \in Requests : Suspending(q)
      BY <1>0, <2>2, <2>4 DEF OriginsInv, Restored
    <3>3. \A q \in Requests : Suspending(q) => Suspending(q)'
      BY <1>1, <2>1 DEF Moves, PlanTypeOK, Agents, Suspending
    <3>4. Standing'
      BY <2>2, <3>2, <3>3 DEF Standing
    <3> QED BY <1>0, <1>1, <2>1, <3>1, <3>4, OriginsSaved
  <2> QED BY <2>2, <2>3, <2>4
<1>6. CASE Announce(o) \/ OpenProvider(o) \/ SaveProvider(o) \/ OwnerFails(o)
  <2>1. PICK s \in AgentState : Moves(o, s) /\ s.pc \notin Enforcing \cup Renewing
    BY <1>6, OwnerForm
  <2>2. UNCHANGED profile /\ (provider' # NoOrigins \/ provider' = provider)
    BY <1>0, <1>6, PlanAssumption DEF Announce, OpenProvider, SaveProvider, OwnerFails, PlanTypeOK
  <2>3. CopyFits(s) /\ s.pc \notin {"suspend", "clear", "renewed"}
    BY <2>1 DEF CopyFits, Enforcing, Renewing
  <2> QED BY <1>0, <1>1, <2>1, <2>2, <2>3, OriginsMoved
<1> QED BY <1>2, <1>3, <1>4, <1>5, <1>6 DEF OwnerStep

\* Time passes, or an entry of the cache does, and nobody moves.
LEMMA OriginsWait ==
    ASSUME PlanTypeOK, OriginsInv, UNCHANGED <<rows, agent, lost>>, now' \in Nat, now' >= now
    PROVE  OriginsInv'
<1>1. \A p : Expired(p) => (now' > p.expires /\ p.expires # 0) \/ p.expires \notin Nat
  BY DEF Expired, PlanTypeOK
<1>2. \A a \in Agents : agent[a].old.expires \in Nat /\ profile.expires \in Nat
  BY DEF PlanTypeOK, AgentState, Profile
<1>3. ~lost => Copies'
  BY <1>1, <1>2 DEF OriginsInv, Copies, CopyFits, Later, Expired, rows
<1>4. ~lost => (profile'.suspended => Expired(profile)') /\ Standing' /\ Handed' /\ Restored'
  <2>1. profile.expires \in Nat
    BY DEF PlanTypeOK, Profile
  <2> QED
    BY <1>1, <2>1 DEF OriginsInv, Standing, Handed, Restored, Suspending, Expired, rows
<1> QED BY <1>3, <1>4 DEF OriginsInv, Roles

LEMMA OriginsStep == PlanTypeOK /\ PlanTypeOK' /\ OriginsInv /\ [Next]_vars => OriginsInv'
<1> SUFFICES ASSUME PlanTypeOK, PlanTypeOK', OriginsInv, [Next]_vars PROVE OriginsInv'
  OBVIOUS
<1>1. CASE UNCHANGED vars \/ Tick \/ FlagLapses \/ AccessLapses
  <2>1. UNCHANGED <<rows, agent, lost>> /\ now' \in Nat /\ now' >= now
    BY <1>1 DEF vars, Tick, FlagLapses, AccessLapses, PlanTypeOK
  <2> QED BY <2>1, OriginsWait
<1>2. ASSUME NEW r \in Requests, RequestStep(r) \/ Fails(r) PROVE OriginsInv'
  <2>1. CASE lost'
    <3>1. PICK s \in AgentState : Moves(r, s) /\ s.pc \notin Renewing
      BY <1>2, RequestRole
    <3>2. Roles'
      BY <3>1, PlanAssumption DEF OriginsInv, Roles, Moves, PlanTypeOK, Agents
    <3> QED BY <2>1, <3>2 DEF OriginsInv
  <2> QED BY <1>2, <2>1, OriginsRequest
<1>3. ASSUME NEW o \in Owners, Open(o) \/ OpenProvider(o) \/ OwnerStep(o) \/ OwnerFails(o)
      PROVE  OriginsInv'
  <2>1. CASE lost'
    <3>1. PICK s \in AgentState : Moves(o, s) /\ s.pc \notin Enforcing
      BY <1>3, OwnerRole
    <3>2. Roles'
      BY <3>1, PlanAssumption DEF OriginsInv, Roles, Moves, PlanTypeOK, Agents
    <3> QED BY <2>1, <3>2 DEF OriginsInv
  <2> QED BY <1>3, <2>1, OriginsOwner
<1> QED BY <1>1, <1>2, <1>3 DEF Next

LEMMA OriginsInvariant == Spec => []OriginsInv
BY OriginsInit, OriginsStep, PlanTypeCorrect, PTL DEF Spec

\* The origins of the site survive any overlap of enforcements, renewals and
\* forms, as long as no save undid another and no enforcement stopped between
\* its two saves: these two are the only ways to lose them.
THEOREM OriginsAreKept == Spec => []OriginsKept
<1>1. OriginsInv => OriginsKept
  BY DEF OriginsInv, Standing, OriginsKept, Suspending
<1> QED BY <1>1, OriginsInvariant, PTL

=============================================================================
