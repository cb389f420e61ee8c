-------------------------- MODULE Pipeline_proofs --------------------------
(***************************************************************************)
(* Theorems about Pipeline, for any number of users, organizations,        *)
(* endpoints, connections, concurrent requests and changes.                *)
(***************************************************************************)
EXTENDS Pipeline, TLAPS

\* The two tables of rights in the code, the decorators of the controllers
\* and ROLE_PERMISSIONS, together say what the README's matrix says.
THEOREM GuardsFollowMatrix ==
    \A e \in DOMAIN Matrix, x \in Roles : Passes(e, x) <=> x \in Matrix[e]
PROOF
    BY DEF Matrix, Roles, Passes, RequiredPermissions, RequiredRoles, RolePermissions, Read, Edit

LEMMA FactsType ==
    \A call : Facts(call) \subseteq {"active", "inactive", "allowed", "denied"}
PROOF
    BY DEF Facts

LEMMA FactsKept == UNCHANGED tables => \A call : Facts(call)' = Facts(call)
PROOF
    BY DEF Facts, tables

LEMMA SameFacts ==
    ASSUME NEW r \in Requests, UNCHANGED tables, arg'[r] = arg[r]
    PROVE  Facts(arg[r])' = Facts(arg[r])
PROOF
    BY DEF Facts, tables

LEMMA InitOK == Init => IInv
PROOF
<1> SUFFICES ASSUME Init PROVE IInv
    OBVIOUS
<1>1. TypeOK
    BY BoundAssumption DEF Init, TypeOK, Answers
<1>2. (\A r \in Requests : Passed(r)) /\ Unset /\ CountersEnd
    BY DEF Init, Passed, Unset, CountersEnd
<1> QED BY <1>1, <1>2 DEF IInv

\* The memory of the other requests.
Kept(q) ==
    /\ pc'[q] = pc[q] /\ arg'[q] = arg[q] /\ todo'[q] = todo[q]
    /\ outcome'[q] = outcome[q] /\ seen'[q] = seen[q]

\* A step of request r keeps the invariant if it leaves the others, the
\* sessions and the tables alone and keeps the invariant for r.
LEMMA StepOK ==
    ASSUME IInv, NEW r \in Requests, UNCHANGED tables, TypeOK', CountersEnd',
           \A q \in Requests \ {r} : Kept(q),
           \A c \in Conns : setting'[c] = NoOrg,
           Passed(r)',
           \A q \in Requests : under'[q] = NoOrg /\ outcome'[q] # "404" /\ audit'[q] # "refused"
    PROVE  IInv'
PROOF
<1>1. ASSUME NEW q \in Requests \ {r} PROVE Passed(q)'
  <2>1. Kept(q) /\ Passed(q)
      BY DEF IInv
  <2>2. Facts(arg[q])' = Facts(arg[q])
      BY <2>1, FactsKept DEF Kept, Facts
  <2> QED BY <2>1, <2>2 DEF Passed, Kept
<1>2. \A q \in Requests : Passed(q)'
    BY <1>1
<1>3. Unset'
    BY DEF Unset
<1> QED BY <1>2, <1>3 DEF IInv

LEMMA ArriveOK ==
    ASSUME IInv, NEW r \in Requests, Arrive(r)
    PROVE  IInv'
PROOF
<1>1. PICK call \in Call : /\ arg' = [arg EXCEPT ![r] = call]
                           /\ seen' = [seen EXCEPT ![r] = Facts(call)]
    BY DEF Arrive
<1>2. Facts(call)' = Facts(call)
    BY FactsKept DEF Arrive
<1>3. TypeOK'
  <2>1. audit[r] = "no"
      BY DEF Arrive, IInv, TypeOK, Passed
  <2> QED BY <1>1, <2>1, FactsType, NullAssumption
          DEF Arrive, Goto, IInv, TypeOK, limiter, tables
<1>4. Passed(r)'
    BY <1>1, <1>2 DEF Arrive, Goto, IInv, TypeOK, Passed
<1>5. CountersEnd'
    BY <1>1 DEF Arrive, Goto, IInv, TypeOK, CountersEnd, limiter
<1>6. \A q \in Requests \ {r} : Kept(q)
    BY <1>1 DEF Arrive, Goto, IInv, TypeOK, Kept
<1> QED BY <1>3, <1>4, <1>5, <1>6, StepOK DEF Arrive, IInv, Unset

LEMMA OverOK ==
    ASSUME IInv, NEW r \in Requests, Over(r)
    PROVE  IInv'
PROOF
<1>1. TypeOK'
    BY NullAssumption DEF Over, Goto, IInv, TypeOK, limiter, tables, Answers
<1>2. Passed(r)'
    BY DEF Over, Goto, IInv, TypeOK, Passed
<1>3. CountersEnd'
    BY DEF Over, Goto, IInv, TypeOK, CountersEnd, limiter
<1>4. \A q \in Requests \ {r} : Kept(q)
    BY DEF Over, Goto, IInv, TypeOK, Kept
<1>5. \A q \in Requests : under'[q] = NoOrg /\ outcome'[q] # "404" /\ audit'[q] # "refused"
    BY DEF Over, IInv, TypeOK, Unset
<1> QED BY <1>1, <1>2, <1>3, <1>4, <1>5, StepOK DEF Over, IInv, Unset

LEMMA AbortOK ==
    ASSUME IInv, NEW r \in Requests, Abort(r)
    PROVE  IInv'
PROOF
<1>1. audit[r] = "no" /\ arg[r] # Idle /\ Facts(arg[r])' = Facts(arg[r])
  <2>1. audit[r] = "no" /\ arg[r] # Idle
      BY DEF Abort, IInv, TypeOK, Passed
  <2> QED BY <2>1, SameFacts DEF Abort
<1>2. TypeOK'
  <2>1. abandoned' \subseteq Keys
      BY <1>1 DEF Abort, IInv, TypeOK, Call
  <2> QED BY <1>1, <2>1 DEF Abort, Answer, Goto, IInv, TypeOK, tables, Answers
<1>3. Passed(r)'
    BY <1>1 DEF Abort, Answer, Goto, IInv, TypeOK, Passed
<1>4. CountersEnd'
    BY DEF Abort, Answer, Goto, IInv, TypeOK, CountersEnd
<1>5. \A q \in Requests \ {r} : Kept(q)
    BY DEF Abort, Answer, Goto, IInv, TypeOK, Kept
<1>6. \A q \in Requests : under'[q] = NoOrg /\ outcome'[q] # "404" /\ audit'[q] # "refused"
    BY DEF Abort, Answer, IInv, TypeOK, Unset
<1> QED BY <1>2, <1>3, <1>4, <1>5, <1>6, StepOK DEF Abort, IInv, Unset

\* The steps of the rate limiter that let the request go on.
LEMMA LimiterOK ==
    ASSUME IInv, NEW r \in Requests, Incr(r) \/ Pexpire(r) \/ Pttl(r) \/ RedisFails(r)
    PROVE  IInv'
PROOF
<1>1. /\ pc[r] \in {"global", "pexpire", "pttl"} /\ pc'[r] \in {"global", "pexpire", "pttl"}
      /\ pc' = [pc EXCEPT ![r] = pc'[r]]
      /\ todo'[r] \in {todo[r], todo[r] \ {"throttler"}} /\ todo' = [todo EXCEPT ![r] = todo'[r]]
      /\ UNCHANGED <<tables, setting, arg, outcome, context, audit, under, seen>>
    BY DEF Incr, Pexpire, Pttl, RedisFails, Throttling, Goto, Done, IInv, TypeOK
<1>2. \A k \in Keys : hits[k] \in Nat /\ hits[k] <= MaxHits
    BY BoundAssumption DEF IInv, TypeOK
<1>3. arg[r] \in Call /\ arg[r].key \in Keys
    BY <1>1 DEF IInv, TypeOK, Call
<1>4. hits' \in [Keys -> 0 .. MaxHits] /\ armed' \subseteq Keys /\ abandoned' \subseteq Keys
    BY <1>2, <1>3, BoundAssumption DEF Incr, Pexpire, Pttl, RedisFails, IInv, TypeOK, limiter
<1>5. TypeOK'
    BY <1>1, <1>4 DEF IInv, TypeOK, tables
<1>6. Passed(r)'
  <2>1. Facts(arg[r])' = Facts(arg[r])
      BY <1>1, SameFacts
  <2> QED BY <1>1, <2>1 DEF IInv, TypeOK, Passed
<1>7. CountersEnd'
  <2>1. CASE Incr(r)
      BY <2>1, <1>2, <1>3, BoundAssumption
      DEF Incr, Throttling, Goto, SetsTtl, IInv, TypeOK, CountersEnd
  <2>2. CASE Pexpire(r)
      BY <2>2, <1>2, <1>3 DEF Pexpire, Goto, IInv, TypeOK, CountersEnd
  <2>3. CASE Pttl(r)
      BY <2>3 DEF Pttl, Goto, IInv, TypeOK, CountersEnd, limiter
  <2>4. CASE RedisFails(r)
      BY <2>4 DEF RedisFails, Throttling, Goto, IInv, TypeOK, CountersEnd
  <2> QED BY <2>1, <2>2, <2>3, <2>4
<1>8. \A q \in Requests \ {r} : Kept(q)
    BY <1>1 DEF IInv, TypeOK, Kept
<1> QED BY <1>1, <1>5, <1>6, <1>7, <1>8, StepOK DEF IInv, Unset

LEMMA AuthenticateOK ==
    ASSUME IInv, NEW r \in Requests, Authenticate(r)
    PROVE  IInv'
PROOF
<1>1. /\ pc[r] = "global" /\ arg[r] # Idle /\ outcome[r] = "none" /\ audit[r] = "no"
      /\ Facts(arg[r]) \subseteq seen[r]
    BY DEF Authenticate, IInv, TypeOK, Passed
<1>9. Facts(arg[r])' = Facts(arg[r])
    BY SameFacts DEF Authenticate
<1>2. PICK c \in Conns :
          \/ /\ active[arg[r].user] /\ UserVisible(c, arg[r].user)
             /\ Done(r, "jwt")
             /\ UNCHANGED <<pc, outcome>>
          \/ /\ ~(active[arg[r].user] /\ UserVisible(c, arg[r].user))
             /\ Answer(r, "401")
             /\ UNCHANGED todo
    BY DEF Authenticate
<1>3. UserVisible(c, arg[r].user)
    BY DEF UserVisible, IInv, Unset
<1>4. TypeOK'
    BY <1>1, <1>2 DEF Authenticate, Answer, Goto, Done, IInv, TypeOK, tables, limiter, Answers
<1>5. Passed(r)'
  <2>1. CASE active[arg[r].user]
    <3>1. "active" \in Facts(arg[r])
        BY <2>1 DEF Facts
    <3>2. Done(r, "jwt") /\ UNCHANGED <<pc, outcome>>
        BY <1>2, <1>3, <2>1
    <3> QED BY <1>1, <1>9, <3>1, <3>2 DEF Authenticate, Done, IInv, TypeOK, Passed
  <2>2. CASE ~active[arg[r].user]
    <3>1. "inactive" \in Facts(arg[r])
        BY <2>2 DEF Facts
    <3>2. Answer(r, "401")
        BY <1>2, <2>2
    <3> QED BY <1>1, <1>9, <3>1, <3>2 DEF Authenticate, Answer, Goto, IInv, TypeOK, Passed
  <2> QED BY <2>1, <2>2
<1>6. CountersEnd'
    BY <1>1, <1>2 DEF Authenticate, Answer, Goto, Done, IInv, TypeOK, CountersEnd, limiter
<1>7. \A q \in Requests \ {r} : Kept(q)
    BY <1>2 DEF Authenticate, Answer, Goto, Done, IInv, TypeOK, Kept
<1>8. \A q \in Requests : under'[q] = NoOrg /\ outcome'[q] # "404" /\ audit'[q] # "refused"
    BY <1>2 DEF Authenticate, Answer, IInv, TypeOK, Unset
<1> QED BY <1>4, <1>5, <1>6, <1>7, <1>8, StepOK DEF Authenticate, IInv, Unset

LEMMA AdmitOK ==
    ASSUME IInv, NEW r \in Requests, Admit(r)
    PROVE  IInv'
PROOF
<1>1. /\ pc[r] = "global" /\ todo[r] = {} /\ arg[r] \in Call
      /\ outcome[r] = "none" /\ audit[r] = "no" /\ "active" \in seen[r]
      /\ Facts(arg[r]) \subseteq seen[r]
    BY DEF Admit, IInv, TypeOK, Passed
<1>9. Facts(arg[r])' = Facts(arg[r])
    BY SameFacts DEF Admit
<1>2. PICK c \in Conns :
          \/ Admits(r, c) /\ Goto(r, "handler") /\ context' = context \cup {r}
                          /\ UNCHANGED outcome
          \/ ~Admits(r, c) /\ Answer(r, "403") /\ UNCHANGED context
    BY DEF Admit
<1>3. Admits(r, c) <=> role[<<arg[r].user, arg[r].org>>] \in Matrix[arg[r].endpoint]
  <2>1. Visible(c, arg[r].org)
      BY DEF Visible, IInv, Unset
  <2>2. /\ arg[r].endpoint \in DOMAIN Matrix
        /\ role[<<arg[r].user, arg[r].org>>] \in Roles \cup {NoRole}
      BY <1>1, EndpointAssumption DEF Call, IInv, TypeOK
  <2>3. Matrix[arg[r].endpoint] \subseteq Roles
      BY <2>2 DEF Matrix, Roles
  <2> QED BY <2>1, <2>2, <2>3, GuardsFollowMatrix, NullAssumption DEF Admits
<1>4. TypeOK'
    BY <1>1, <1>2 DEF Admit, Answer, Goto, IInv, TypeOK, tables, limiter, Answers
<1>5. Passed(r)'
  <2>1. CASE Admits(r, c)
    <3>1. "allowed" \in Facts(arg[r])
        BY <1>3, <2>1 DEF Facts
    <3> QED BY <1>1, <1>2, <1>9, <2>1, <3>1 DEF Admit, Answer, Goto, IInv, TypeOK, Passed
  <2>2. CASE ~Admits(r, c)
    <3>1. "denied" \in Facts(arg[r])
        BY <1>3, <2>2 DEF Facts
    <3> QED BY <1>1, <1>2, <1>9, <2>2, <3>1 DEF Admit, Answer, Goto, IInv, TypeOK, Passed
  <2> QED BY <2>1, <2>2
<1>6. CountersEnd'
    BY <1>1, <1>2 DEF Admit, Answer, Goto, IInv, TypeOK, CountersEnd, limiter
<1>7. \A q \in Requests \ {r} : Kept(q)
    BY <1>2 DEF Admit, Answer, Goto, IInv, TypeOK, Kept
<1>8. \A q \in Requests : under'[q] = NoOrg /\ outcome'[q] # "404" /\ audit'[q] # "refused"
    BY <1>2 DEF Admit, Answer, IInv, TypeOK, Unset
<1> QED BY <1>4, <1>5, <1>6, <1>7, <1>8, StepOK DEF Admit, IInv, Unset

LEMMA HandleOK ==
    ASSUME IInv, NEW r \in Requests, Handle(r)
    PROVE  IInv'
PROOF
<1>1. /\ pc[r] = "handler" /\ arg[r] \in Call /\ audit[r] = "no"
      /\ {"active", "allowed"} \subseteq seen[r]
      /\ Facts(arg[r]) \subseteq seen[r]
    BY DEF Handle, IInv, TypeOK, Passed
<1>8. Facts(arg[r])' = Facts(arg[r])
    BY SameFacts DEF Handle
<1>2. /\ under' = [under EXCEPT ![r] = NoOrg]
      /\ Answer(r, "ok")
      /\ audit' = [audit EXCEPT ![r] = IF Audited(arg[r].endpoint) THEN "due" ELSE "no"]
    BY DEF Handle, Visible, IInv, Unset
<1>3. TypeOK'
    BY <1>1, <1>2 DEF Handle, Answer, Goto, Audited, IInv, TypeOK, tables, limiter, Answers
<1>4. Passed(r)'
    BY <1>1, <1>2, <1>8 DEF Handle, Answer, Goto, IInv, TypeOK, Passed
<1>5. CountersEnd'
    BY <1>1, <1>2 DEF Handle, Answer, Goto, IInv, TypeOK, CountersEnd, limiter
<1>6. \A q \in Requests \ {r} : Kept(q)
    BY <1>2 DEF Handle, Answer, Goto, IInv, TypeOK, Kept
<1>7. \A q \in Requests : under'[q] = NoOrg /\ outcome'[q] # "404" /\ audit'[q] # "refused"
    BY <1>2 DEF Answer, IInv, TypeOK, Unset
<1> QED BY <1>3, <1>4, <1>5, <1>6, <1>7, StepOK DEF Handle, IInv, Unset

\* What a request started besides.
LEMMA BesidesOK ==
    ASSUME IInv, NEW r \in Requests,
           SetCurrentOrg(r) \/ ContextFails(r) \/ WriteAudit(r) \/ AuditFails(r)
    PROVE  IInv'
PROOF
<1>1. setting' = setting
  <2>1. ASSUME NEW c \in Conns,
               setting' = [setting EXCEPT ![c] = AfterStatement(c, arg[r].org)]
        PROVE  setting' = setting
      BY <2>1 DEF AfterStatement, IInv, TypeOK
  <2> QED BY <2>1 DEF SetCurrentOrg, ContextFails, WriteAudit, AuditFails
<1>2. UNCHANGED <<tables, limiter, control>> /\ context' \subseteq context
    BY DEF SetCurrentOrg, ContextFails, WriteAudit, AuditFails
<1>3. /\ audit' \in [Requests -> {"no", "due", "written", "lost"}]
      /\ \A q \in Requests : audit'[q] # "no" => audit[q] # "no"
  <2>1. \A c \in Conns : Visible(c, arg[r].org)
      BY DEF Visible, IInv, Unset
  <2> QED BY <2>1 DEF SetCurrentOrg, ContextFails, WriteAudit, AuditFails, IInv, TypeOK, Unset
<1>4. TypeOK'
    BY <1>1, <1>2, <1>3 DEF IInv, TypeOK, tables, limiter, control
<1>5. Passed(r)'
  <2>1. Facts(arg[r])' = Facts(arg[r])
      BY <1>2, SameFacts DEF control
  <2> QED BY <1>2, <2>1 DEF IInv, Passed, control
<1>6. CountersEnd'
    BY <1>2 DEF IInv, CountersEnd, control, limiter
<1> QED BY <1>1, <1>2, <1>3, <1>4, <1>5, <1>6, StepOK DEF IInv, Unset, Kept, control

LEMMA WindowEndsOK ==
    ASSUME IInv, NEW k \in Keys, WindowEnds(k)
    PROVE  IInv'
PROOF
<1>1. TypeOK'
    BY BoundAssumption DEF WindowEnds, IInv, TypeOK, tables, control
<1>2. (\A r \in Requests : Passed(r)') /\ Unset'
    BY FactsKept DEF WindowEnds, IInv, Passed, Facts, Unset, tables, control
<1>3. CountersEnd'
    BY DEF WindowEnds, IInv, TypeOK, CountersEnd, control
<1> QED BY <1>1, <1>2, <1>3 DEF IInv

\* What happens to the callers meanwhile.
LEMMA ChangeOK ==
    ASSUME IInv, (\E u \in Users : AccountChanges(u))
                   \/ \E u \in Users, o \in Orgs : MembershipsChange(u, o)
    PROVE  IInv'
PROOF
<1>1. UNCHANGED <<limiter, setting, pc, arg, todo, outcome, context, audit, under>> /\ Noted
    BY DEF AccountChanges, MembershipsChange
<1>2. /\ changes' \in 0 .. MaxChanges
      /\ active' \in [Users -> BOOLEAN]
      /\ role' \in [Users \X Orgs -> Roles \cup {NoRole}]
  <2>1. changes < MaxChanges /\ changes' = changes + 1
      BY DEF AccountChanges, MembershipsChange
  <2>2. changes' \in 0 .. MaxChanges
      BY <2>1, BoundAssumption DEF IInv, TypeOK
  <2>3. ASSUME NEW u \in Users, AccountChanges(u)
        PROVE  active' \in [Users -> BOOLEAN] /\ role' = role
      BY <2>3, Zenon DEF AccountChanges, IInv, TypeOK
  <2>4. ASSUME NEW u \in Users, NEW o \in Orgs, MembershipsChange(u, o)
        PROVE  active' = active /\ role' \in [Users \X Orgs -> Roles \cup {NoRole}]
      BY <2>4 DEF MembershipsChange, IInv, TypeOK
  <2> QED BY <2>2, <2>3, <2>4 DEF IInv, TypeOK
<1>3. \A r \in Requests :
          /\ arg[r] = Idle => seen'[r] = seen[r]
          /\ arg[r] # Idle => seen'[r] = seen[r] \cup Facts(arg[r])'
    BY <1>1 DEF Noted
<1>4. seen' \in [Requests -> SUBSET {"active", "inactive", "allowed", "denied"}]
  <2>1. \A r \in Requests : Facts(arg[r])' \subseteq {"active", "inactive", "allowed", "denied"}
      BY DEF Facts
  <2> QED BY <1>1, <2>1 DEF Noted, IInv, TypeOK
<1>5. TypeOK'
    BY <1>1, <1>2, <1>4 DEF IInv, TypeOK, limiter
<1>6. \A r \in Requests : Passed(r)'
    BY <1>1, <1>3, <1>4 DEF IInv, Passed
<1>7. Unset' /\ CountersEnd'
    BY <1>1 DEF IInv, Unset, CountersEnd, limiter
<1> QED BY <1>5, <1>6, <1>7 DEF IInv

LEMMA Invariance == Spec => []IInv
PROOF
<1>1. ASSUME IInv, [Next]_vars PROVE IInv'
  <2>1. CASE Next
      BY <1>1, <2>1, ArriveOK, OverOK, AbortOK, LimiterOK, AuthenticateOK, AdmitOK, HandleOK,
         BesidesOK, WindowEndsOK, ChangeOK DEF Next, Step
  <2>2. CASE UNCHANGED vars
      BY <1>1, <2>2, FactsKept
      DEF vars, tables, IInv, TypeOK, Passed, Facts, Unset, CountersEnd
  <2> QED BY <1>1, <2>1, <2>2
<1> QED BY <1>1, InitOK, PTL DEF Spec

-----------------------------------------------------------------------------

\* The memory of limiter, pool and requests keeps its types; only admitted
\* requests set a context and only successful ones that change something
\* are logged.
THEOREM TypeCorrect == Spec => []TypeOK
PROOF
    BY Invariance, PTL DEF IInv

\* Whatever changes while a request is on its way, it is admitted or refused
\* for an account and a role that the README's matrix judges so.
THEOREM MatrixEnforced == Spec => []AnswersJustified
PROOF
<1>1. IInv => AnswersJustified
    BY DEF IInv, TypeOK, Passed, Unset, AnswersJustified
<1> QED BY <1>1, Invariance, PTL

\* The setting of one request never reaches a statement of another: it ends
\* with the statement that makes it.
THEOREM PoliciesNotMixed == Spec => []NoForeignPolicy
PROOF
<1>1. IInv => NoForeignPolicy
    BY DEF IInv, Unset, NoForeignPolicy
<1> QED BY <1>1, Invariance, PTL

\* A counter of the rate limiter stays without a ttl only if Redis or the
\* process failed between INCR and PEXPIRE.
THEOREM WindowsBounded == Spec => []CountersEnd
PROOF
    BY Invariance, PTL DEF IInv
=============================================================================
