------------------------ MODULE ExternalActionsProofs ------------------------
(***************************************************************************)
(* Theorems about Approvals and ExternalActions for any actions, operators, *)
(* executors and runs: decisions and queues agree, and what executors do   *)
(* was approved, planned and recorded.                                     *)
(***************************************************************************)
EXTENDS ExternalActions, TLAPS

-----------------------------------------------------------------------------
(***************************************************************************)
(* Approvals alone.                                                        *)
(***************************************************************************)
Reading(o) == deciding[o].pc = "read"

\* What both tables hold of an action with this request.
Row(status) ==
    [approval |-> status,
     execution |-> IF status = "pending" THEN "blocked_approval_required"
                   ELSE ExecutionAfter(status)]

\* Every action that needs an approval has a request from the moment it is planned,
\* and both rows tell the same.
TablesAgree ==
    /\ DOMAIN requests = DOMAIN planned \cap NeedApproval
    /\ \A k \in DOMAIN requests : planned[k] = Row(requests[k])
    /\ \A k \in DOMAIN planned \ NeedApproval : planned[k] = DryRun

\* What an operator read still holds unless another one was faster.
ReadsHoldUnlessOutpaced ==
    \A o \in Operators : Reading(o) =>
       /\ deciding[o].key \in DOMAIN requests
       /\ o \notin outpaced => requests[deciding[o].key] = "pending"

ApprovalInv == ApprovalTypeOK /\ TablesAgree /\ ReadsHoldUnlessOutpaced

LEMMA ApprovalInitially == ApprovalInit => ApprovalInv
<1> SUFFICES ASSUME ApprovalInit PROVE ApprovalInv
  OBVIOUS
<1>1. \A o \in Operators : deciding[o] = Waiting /\ ~Reading(o)
  BY DEF ApprovalInit, Waiting, Reading
<1> QED
  BY <1>1 DEF ApprovalInit, ApprovalInv, ApprovalTypeOK, TablesAgree, ReadsHoldUnlessOutpaced

LEMMA PlanStep ==
    ASSUME ApprovalInv, NEW k \in Actions, Plan(k)
    PROVE  ApprovalInv' /\ (\A l \in DOMAIN requests : l \in DOMAIN requests' /\ requests'[l] = requests[l])
<1>1. /\ k \notin DOMAIN planned
      /\ DOMAIN planned' = DOMAIN planned \cup {k}
      /\ \A l \in DOMAIN planned : planned'[l] = planned[l]
      /\ planned'[k] = IF k \in NeedApproval THEN Blocked ELSE DryRun
      /\ planned' \in [DOMAIN planned \cup {k} ->
                         [approval : ApprovalStates, execution : ExecutionStates]]
  BY DEF Plan, Put, ApprovalInv, ApprovalTypeOK, Blocked, DryRun, ApprovalStates, ExecutionStates
<1>2. /\ deciding' = deciding /\ outpaced' = outpaced
  BY DEF Plan
<1>3. CASE k \in NeedApproval
  <2>1. /\ DOMAIN requests' = DOMAIN requests \cup {k}
        /\ \A l \in DOMAIN requests : requests'[l] = requests[l]
        /\ requests'[k] = "pending"
        /\ requests' \in [DOMAIN requests \cup {k} -> RequestStatuses]
    BY <1>1, <1>3 DEF Plan, Put, ApprovalInv, ApprovalTypeOK, RequestStatuses, TablesAgree
  <2>2. ApprovalTypeOK'
    BY <1>1, <1>2, <2>1 DEF ApprovalInv, ApprovalTypeOK
  <2>3. TablesAgree'
    BY <1>1, <1>3, <2>1 DEF ApprovalInv, TablesAgree, Row, Blocked
  <2>4. ReadsHoldUnlessOutpaced'
    BY <1>1, <1>2, <2>1 DEF ApprovalInv, TablesAgree, ReadsHoldUnlessOutpaced, Reading
  <2> QED
    BY <2>1, <2>2, <2>3, <2>4 DEF ApprovalInv
<1>4. CASE k \notin NeedApproval
  <2>1. requests' = requests
    BY <1>4 DEF Plan
  <2>2. ApprovalTypeOK'
    BY <1>1, <1>2, <2>1 DEF ApprovalInv, ApprovalTypeOK
  <2>3. TablesAgree'
    BY <1>1, <1>4, <2>1 DEF ApprovalInv, TablesAgree
  <2>4. ReadsHoldUnlessOutpaced'
    BY <1>2, <2>1 DEF ApprovalInv, ReadsHoldUnlessOutpaced, Reading
  <2> QED
    BY <2>1, <2>2, <2>3, <2>4 DEF ApprovalInv
<1> QED
  BY <1>3, <1>4

LEMMA ReadStep ==
    ASSUME ApprovalInv, NEW o \in Operators, ReadRequest(o)
    PROVE  ApprovalInv' /\ requests' = requests
<1>1. PICK k \in DOMAIN requests, decision \in Decisions :
         /\ requests[k] = "pending"
         /\ deciding' = [deciding EXCEPT ![o] =
                            [pc |-> "read", key |-> k, decision |-> decision]]
  BY DEF ReadRequest
<1>2. /\ planned' = planned /\ requests' = requests /\ outpaced' = outpaced
  BY DEF ReadRequest
<1> DEFINE draft == [pc |-> "read", key |-> k, decision |-> decision]
<1>3. draft \in Deciding /\ draft.pc = "read" /\ draft.key = k
  BY DEF Deciding, ApprovalInv, ApprovalTypeOK
<1>4. o \notin outpaced
  BY DEF ApprovalInv, ApprovalTypeOK, ReadRequest, Waiting
<1> HIDE DEF draft
<1>5. ApprovalTypeOK'
  BY <1>1, <1>2, <1>3, <1>4 DEF ApprovalInv, ApprovalTypeOK, draft
<1>6. TablesAgree'
  BY <1>2 DEF ApprovalInv, TablesAgree
<1>7. ReadsHoldUnlessOutpaced'
  BY <1>1, <1>2, <1>3 DEF ApprovalInv, ApprovalTypeOK, ReadsHoldUnlessOutpaced, Reading, draft
<1> QED
  BY <1>2, <1>5, <1>6, <1>7 DEF ApprovalInv

LEMMA DecideStep ==
    ASSUME ApprovalInv, NEW o \in Operators, Decide(o)
    PROVE  /\ ApprovalInv'
           /\ DOMAIN requests' = DOMAIN requests
           /\ \A l \in DOMAIN requests \ {deciding[o].key} : requests'[l] = requests[l]
           /\ o \notin outpaced'
           /\ o \notin outpaced => requests[deciding[o].key] = "pending"
<1> DEFINE k == deciding[o].key
           d == deciding[o].decision
<1>1. deciding[o] \in Deciding /\ k \in Actions /\ d \in Decisions
  BY DEF Decide, ApprovalInv, ApprovalTypeOK, Deciding, Waiting
<1>2. k \in DOMAIN requests /\ k \in DOMAIN planned /\ k \in NeedApproval
  BY DEF Decide, ApprovalInv, ReadsHoldUnlessOutpaced, Reading, TablesAgree
<1>3. /\ requests' = [requests EXCEPT ![k] = d]
      /\ planned' = [planned EXCEPT ![k] = [approval |-> d, execution |-> ExecutionAfter(d)]]
      /\ outpaced' = (outpaced \cup {p \in Operators : Reading(p) /\ deciding[p].key = k}) \ {o}
      /\ deciding' = [deciding EXCEPT ![o] = Waiting]
  BY DEF Decide, Reading
<1>4. Row(d) = [approval |-> d, execution |-> ExecutionAfter(d)]
  BY <1>1 DEF Row, Decisions
<1>5. Row(d) \in [approval : ApprovalStates, execution : ExecutionStates]
  BY <1>1, <1>4 DEF Decisions, ApprovalStates, ExecutionStates, ExecutionAfter
<1>6. o \notin outpaced => requests[k] = "pending"
  BY DEF Decide, ApprovalInv, ReadsHoldUnlessOutpaced, Reading
<1> HIDE DEF k, d
<1>7. Waiting.pc # "read"
  BY DEF Waiting
<1>8. ApprovalTypeOK'
  <2>1. planned' \in [DOMAIN planned' -> [approval : ApprovalStates, execution : ExecutionStates]]
           /\ DOMAIN planned' \subseteq Actions
    BY <1>3, <1>4, <1>5 DEF ApprovalInv, ApprovalTypeOK
  <2>2. requests' \in [DOMAIN requests' -> RequestStatuses] /\ DOMAIN requests' \subseteq Actions
    BY <1>1, <1>3 DEF ApprovalInv, ApprovalTypeOK, RequestStatuses
  <2>3. /\ deciding' \in [Operators -> {Waiting} \cup Deciding]
        /\ outpaced' \subseteq {p \in Operators : deciding'[p].pc = "read"}
    BY <1>3 DEF ApprovalInv, ApprovalTypeOK, Reading
  <2> QED
    BY <2>1, <2>2, <2>3 DEF ApprovalTypeOK
<1>9. TablesAgree'
  BY <1>2, <1>3, <1>4 DEF ApprovalInv, TablesAgree, ApprovalTypeOK
<1>10. ReadsHoldUnlessOutpaced'
  BY <1>3, <1>7 DEF ApprovalInv, ApprovalTypeOK, ReadsHoldUnlessOutpaced, Reading
<1> QED
  BY <1>3, <1>6, <1>8, <1>9, <1>10 DEF ApprovalInv, k

LEMMA GiveUpStep ==
    ASSUME ApprovalInv, NEW o \in Operators, GiveUp(o)
    PROVE  ApprovalInv' /\ requests' = requests
<1>1. /\ deciding' = [deciding EXCEPT ![o] = Waiting]
      /\ outpaced' = outpaced \ {o}
      /\ planned' = planned /\ requests' = requests
  BY DEF GiveUp
<1>2. Waiting.pc # "read"
  BY DEF Waiting
<1>3. ApprovalTypeOK'
  BY <1>1, <1>2 DEF ApprovalInv, ApprovalTypeOK
<1>4. TablesAgree'
  BY <1>1 DEF ApprovalInv, TablesAgree
<1>5. ReadsHoldUnlessOutpaced'
  BY <1>1, <1>2 DEF ApprovalInv, ApprovalTypeOK, ReadsHoldUnlessOutpaced, Reading
<1> QED
  BY <1>1, <1>3, <1>4, <1>5 DEF ApprovalInv

LEMMA ApprovalStep == ApprovalInv /\ [ApprovalNext]_approvalVars => ApprovalInv'
<1>1. ASSUME ApprovalInv, UNCHANGED approvalVars PROVE ApprovalInv'
  BY <1>1 DEF ApprovalInv, ApprovalTypeOK, TablesAgree, ReadsHoldUnlessOutpaced, Reading,
              approvalVars
<1> QED
  BY <1>1, PlanStep, ReadStep, DecideStep, GiveUpStep DEF ApprovalNext

LEMMA ApprovalInvariant == ApprovalSpec => []ApprovalInv
BY ApprovalInitially, ApprovalStep, PTL DEF ApprovalSpec

LEMMA QueuesFromTables == ApprovalInv => EveryActionHasItsQueue
<1> SUFFICES ASSUME ApprovalInv, NEW k \in DOMAIN planned \cap NeedApproval
             PROVE  \/ k \in ApprovalQueue
                    \/ k \in ExecutionQueue /\ requests[k] = "approved"
                    \/ k \in Rejected /\ requests[k] = "rejected"
  BY DEF EveryActionHasItsQueue
<1>1. k \in DOMAIN requests /\ planned[k] = Row(requests[k]) /\ requests[k] \in RequestStatuses
  BY DEF ApprovalInv, TablesAgree, ApprovalTypeOK
<1> QED
  BY <1>1 DEF Row, RequestStatuses, Decisions, ExecutionAfter, ApprovalQueue, ExecutionQueue,
              Rejected

LEMMA DecisionStep ==
    ASSUME ApprovalInv, ApprovalNext, NEW k \in DOMAIN requests, requests[k] \in Decisions
    PROVE  \/ k \in DOMAIN requests' /\ requests'[k] = requests[k]
           \/ \E o \in outpaced : deciding[o].key = k /\ o \notin outpaced'
<1>1. CASE \E l \in Actions : Plan(l)
  BY <1>1, PlanStep
<1>2. CASE \E o \in Operators : ReadRequest(o)
  BY <1>2, ReadStep
<1>3. CASE \E o \in Operators : GiveUp(o)
  BY <1>3, GiveUpStep
<1>4. ASSUME NEW o \in Operators, Decide(o)
      PROVE  \/ k \in DOMAIN requests' /\ requests'[k] = requests[k]
             \/ o \in outpaced /\ deciding[o].key = k /\ o \notin outpaced'
  BY <1>4, DecideStep DEF Decisions
<1> QED
  BY <1>1, <1>2, <1>3, <1>4 DEF ApprovalNext

-----------------------------------------------------------------------------
\* Executors and owners leave the approval tables alone.
LEMMA ApprovalsAreApart == [Next]_vars => [ApprovalNext]_approvalVars
BY DEF Next, vars, Approvers, Load, Check, LoadForAppend, AppendRaises, Persist, CallSucceeds,
       CallFails, Die, CloseRead, CloseWrite

LEMMA ImplementsApprovals == Spec => ApprovalSpec
<1>1. Init => ApprovalInit
  BY DEF Init
<1> QED
  BY <1>1, ApprovalsAreApart, PTL DEF Spec, ApprovalSpec

\* No action that needs an approval is lost between the queues or is in two of them,
\* and its request says the same.
THEOREM QueuesAreComplete == Spec => []EveryActionHasItsQueue
BY ImplementsApprovals, ApprovalInvariant, QueuesFromTables, PTL

\* A decision stands unless it was made on a request that another had decided since.
THEOREM DecisionsStand == Spec => DecisionsStandUnlessOutpaced
<1> DEFINE Stands ==
       \A k \in DOMAIN requests :
          requests[k] \in Decisions =>
             \/ k \in DOMAIN requests' /\ requests'[k] = requests[k]
             \/ \E o \in outpaced : deciding[o].key = k /\ o \notin outpaced'
<1>1. ApprovalInv /\ [ApprovalNext]_approvalVars => [Stands]_approvalVars
  BY DecisionStep
<1> QED
  BY <1>1, ImplementsApprovals, ApprovalInvariant, PTL DEF ApprovalSpec, DecisionsStandUnlessOutpaced

-----------------------------------------------------------------------------
(***************************************************************************)
(* Executors.                                                              *)
(***************************************************************************)
Working(e) == work[e] # Idle

Has(outcomes, k, state) == Contains(outcomes, [key |-> k, state |-> state])

\* The client was or is being called.
Called(w) == w.pc = "calling" \/ w.state \in {"executed", "failed"}

\* The states an execution has in each stage of it.
StageFits(w) ==
    /\ w.pc = "loaded" => w.state \in {"new", "refused"}
    /\ w.pc = "calling" => w.state = "planned"
    /\ w.pc \in {"appending", "persisting"} => w.state # "new"

\* What an execution has behind it: an approval, a durable plan, an effect for
\* what it is about to record; and what it loaded told the truth.
Backed(w) ==
    /\ w.state \in {"planned", "executed", "failed"} /\ w.key \in Actions => w.key \in granted
    /\ Called(w) /\ w.run \notin overwritten => Recorded(w.run, w.key, "planned")
    /\ w.state = "executed" => effects[<<w.run, w.key>>] > 0
    /\ \A k \in Keys : Has(w.base, k, "executed") => effects[<<w.run, k>>] > 0

ExecutorsAreBacked ==
    \A e \in Executors : Working(e) => StageFits(work[e]) /\ Backed(work[e])

OwnersTellTheTruth ==
    \A r \in Runs, k \in Keys :
       owner[r] # <<>> /\ Has(Head(owner[r]), k, "executed") => effects[<<r, k>>] > 0

RunsTellTheTruth ==
    \A r \in Runs, k \in Keys : Recorded(r, k, "executed") => effects[<<r, k>>] > 0

\* An operator's approval is remembered, and only given to what needs one.
GrantsAreApprovals == ExecutionQueue \subseteq granted /\ granted \subseteq NeedApproval

On(e, r, k) == Working(e) /\ work[e].run = r /\ work[e].key = k

\* The run shows each effect, and one at most.
Balanced(r, k) == effects[<<r, k>>] = IF Recorded(r, k, "executed") THEN 1 ELSE 0

\* What took effect and what is recorded while the executor works on it.
InBooks(e, r, k) ==
    /\ work[e].state = "executed" => effects[<<r, k>>] = 1 /\ ~Recorded(r, k, "executed")
    /\ work[e].state \in {"new", "planned", "failed"} => effects[<<r, k>>] = 0
    /\ work[e].state = "refused" => Balanced(r, k)

\* One executor at most works on the attempt, and has its effect in hand until it
\* is recorded.
Accounted(r, k) ==
    /\ \A e, f \in Executors : On(e, r, k) /\ On(f, r, k) => e = f
    /\ \A e \in Executors : On(e, r, k) => InBooks(e, r, k)
    /\ (\A e \in Executors : ~On(e, r, k)) => Balanced(r, k)

EffectsAreAccounted ==
    \A r \in Runs, k \in Keys :
       r \notin overwritten /\ <<r, k>> \notin unsettled => Accounted(r, k)

ExecutionInv ==
    /\ GrantsAreApprovals
    /\ ExecutorsAreBacked
    /\ OwnersTellTheTruth
    /\ RunsTellTheTruth
    /\ WritesWereApproved
    /\ EffectsWerePlanned
    /\ EffectsAreAccounted

IInv == TypeOK /\ ApprovalInv /\ ExecutionInv

LEMMA HasAppended ==
    ASSUME NEW s \in Seq(Outcome), NEW o \in Outcome, NEW k, NEW state
    PROVE  Has(Append(s, o), k, state) <=> Has(s, k, state) \/ (k = o.key /\ state = o.state)
<1>1. o = [key |-> k, state |-> state] <=> k = o.key /\ state = o.state
  BY DEF Outcome
<1>2. Has(Append(s, o), k, state) <=> Has(s, k, state) \/ o = [key |-> k, state |-> state]
  BY DEF Has, Contains
<1> QED
  BY <1>1, <1>2

LEMMA HasNothing == \A k, state : ~Has(<<>>, k, state)
BY DEF Has, Contains

LEMMA RecordedIsHas ==
    \A r, k, state : Recorded(r, k, state) <=> Has(runs[r].outcomes, k, state)
BY DEF Recorded, Has

LEMMA WorkingIsBusy ==
    ASSUME TypeOK, NEW e \in Executors, Working(e)
    PROVE  /\ work[e] \in Busy
           /\ work[e].pc \in {"loaded", "appending", "persisting", "calling"}
           /\ work[e].state \in {"new", "refused", "planned", "executed", "failed"}
           /\ work[e].run \in Runs /\ work[e].key \in Keys /\ work[e].base \in Seq(Outcome)
<1>1. work[e] \in Busy
  BY DEF TypeOK, Working
<1> QED
  BY <1>1 DEF Busy

-----------------------------------------------------------------------------
(***************************************************************************)
(* What each action makes of its executor.                                 *)
(***************************************************************************)
\* The executor's step: it ends the execution ...
Ends(e) ==
    /\ work' \in [Executors -> {Idle} \cup Busy]
    /\ \A f \in Executors \ {e} : work'[f] = work[f]
    /\ work'[e] = Idle

\* ... or brings it into another stage.
Restages(e, pc, state, base) ==
    /\ work' \in [Executors -> {Idle} \cup Busy]
    /\ \A f \in Executors \ {e} : work'[f] = work[f]
    /\ work'[e] # Idle
    /\ work'[e].pc = pc
    /\ work'[e].run = work[e].run
    /\ work'[e].key = work[e].key
    /\ work'[e].state = state
    /\ work'[e].base = base

LEMMA RestagesIf ==
    ASSUME TypeOK, NEW e \in Executors, Working(e), NEW w \in Busy,
           work' = [work EXCEPT ![e] = w], w.run = work[e].run, w.key = work[e].key
    PROVE  Restages(e, w.pc, w.state, w.base)
<1>1. w # Idle
  BY DEF Busy, Idle
<1> QED
  BY <1>1 DEF Restages, TypeOK

LEMMA EndsIf ==
    ASSUME TypeOK, NEW e \in Executors, work' = [work EXCEPT ![e] = Idle]
    PROVE  Ends(e)
BY DEF Ends, TypeOK

LEMMA CheckMoves ==
    ASSUME TypeOK, NEW e \in Executors, Check(e)
    PROVE  /\ Working(e) /\ work[e].pc = "loaded"
           /\ \E state \in {"planned", "refused"} :
                 /\ Restages(e, "appending", state, work[e].base)
                 /\ state = "planned" =>
                       /\ work[e].state = "new"
                       /\ work[e].key \in Actions => work[e].key \in ExecutionQueue
<1>1. Working(e) /\ work[e].pc = "loaded"
  BY DEF Check, Working, Idle
<1>2. PICK allowed, linked \in BOOLEAN :
         work' = [work EXCEPT ![e].pc = "appending", ![e].state =
            IF /\ work[e].state = "new"
               /\ allowed
               /\ work[e].key \in Actions => linked /\ Approved(work[e].key)
            THEN "planned" ELSE "refused"]
  BY DEF Check
<1> DEFINE state == IF /\ work[e].state = "new"
                       /\ allowed
                       /\ work[e].key \in Actions => linked /\ Approved(work[e].key)
                    THEN "planned" ELSE "refused"
           w == [work[e] EXCEPT !.pc = "appending", !.state = state]
<1>3. /\ state \in {"planned", "refused"}
      /\ state = "planned" =>
            /\ work[e].state = "new"
            /\ work[e].key \in Actions => work[e].key \in ExecutionQueue
  BY DEF Approved
<1>4. work' = [work EXCEPT ![e].pc = "appending", ![e].state = state]
  BY <1>2
<1> HIDE DEF state
<1>5. work' = [work EXCEPT ![e] = w]
  BY <1>4
<1>6. /\ w \in Busy /\ w.pc = "appending" /\ w.run = work[e].run /\ w.key = work[e].key
      /\ w.state = state /\ w.base = work[e].base
  BY <1>1, <1>3, WorkingIsBusy DEF Busy
<1> HIDE DEF w
<1> QED
  BY <1>1, <1>3, <1>5, <1>6, RestagesIf

LEMMA LoadForAppendMoves ==
    ASSUME TypeOK, NEW e \in Executors, LoadForAppend(e)
    PROVE  /\ Working(e) /\ work[e].pc = "appending"
           /\ Restages(e, "persisting", work[e].state, runs[work[e].run].outcomes)
<1> DEFINE base == runs[work[e].run].outcomes
           w == [work[e] EXCEPT !.pc = "persisting", !.base = base]
<1>1. Working(e) /\ work[e].pc = "appending"
  BY DEF LoadForAppend, Working, Idle
<1>2. base \in Seq(Outcome)
  BY <1>1, WorkingIsBusy DEF TypeOK, Record
<1>3. work' = [work EXCEPT ![e] = w]
  BY DEF LoadForAppend
<1> HIDE DEF base
<1>4. /\ w \in Busy /\ w.pc = "persisting" /\ w.run = work[e].run /\ w.key = work[e].key
      /\ w.state = work[e].state /\ w.base = base
  BY <1>1, <1>2, WorkingIsBusy DEF Busy
<1> HIDE DEF w
<1>5. Restages(e, "persisting", work[e].state, base)
  BY <1>1, <1>3, <1>4, RestagesIf
<1> QED
  BY <1>1, <1>5 DEF base

LEMMA PersistMoves ==
    ASSUME TypeOK, NEW e \in Executors, Persist(e)
    PROVE  /\ Working(e) /\ work[e].pc = "persisting"
           /\ IF work[e].state = "planned" THEN Restages(e, "calling", "planned", <<>>)
                                           ELSE Ends(e)
<1> DEFINE w == [work[e] EXCEPT !.pc = "calling", !.base = <<>>]
<1>1. Working(e) /\ work[e].pc = "persisting"
  BY DEF Persist, Working, Idle
<1>2. ASSUME work[e].state = "planned"
      PROVE  Restages(e, "calling", "planned", <<>>)
  <2> DEFINE v == IF work[e].state = "planned" THEN w ELSE Idle
  <2>1. work' = [work EXCEPT ![e] = v]
    BY DEF Persist
  <2>2. v = w
    BY <1>2
  <2>3. /\ w \in Busy /\ w.pc = "calling" /\ w.run = work[e].run /\ w.key = work[e].key
        /\ w.state = "planned" /\ w.base = <<>>
    <3>1. <<>> \in Seq(Outcome)
      OBVIOUS
    <3>2. work[e] \in Busy
      BY <1>1, WorkingIsBusy
    <3> HIDE DEF v
    <3> QED
      BY <1>2, <3>1, <3>2 DEF Busy
  <2> HIDE DEF v, w
  <2>4. work' = [work EXCEPT ![e] = w]
    BY <2>1, <2>2
  <2> QED
    BY <1>1, <2>3, <2>4, RestagesIf
<1>3. ASSUME work[e].state # "planned"
      PROVE  Ends(e)
  <2>1. work' = [work EXCEPT ![e] = Idle]
    BY <1>3 DEF Persist
  <2> QED
    BY <2>1, EndsIf
<1> QED
  BY <1>1, <1>2, <1>3

LEMMA AnswerMoves ==
    ASSUME TypeOK, NEW e \in Executors, work[e].pc = "calling",
           NEW state \in {"executed", "failed"}, Answer(e, state)
    PROVE  Working(e) /\ Restages(e, "appending", state, work[e].base)
<1> DEFINE w == [work[e] EXCEPT !.pc = "appending", !.state = state]
<1>1. Working(e)
  BY DEF Working, Idle
<1>2. work' = [work EXCEPT ![e] = w]
  BY DEF Answer
<1>3. /\ w \in Busy /\ w.pc = "appending" /\ w.run = work[e].run /\ w.key = work[e].key
      /\ w.state = state /\ w.base = work[e].base
  BY <1>1, WorkingIsBusy DEF Busy
<1> HIDE DEF w
<1> QED
  BY <1>1, <1>2, <1>3, RestagesIf

\* What a commit leaves of the run, unless it is stale.
LEMMA PersistWrites ==
    ASSUME TypeOK, NEW e \in Executors, Persist(e)
    PROVE  LET r == work[e].run
               outcome == [key |-> work[e].key, state |-> work[e].state]
           IN /\ runs' = [runs EXCEPT ![r] =
                            [open |-> TRUE, outcomes |-> Append(work[e].base, outcome)]]
              /\ overwritten \subseteq overwritten' /\ overwritten' \subseteq overwritten \cup {r}
              /\ r \notin overwritten' => work[e].base = runs[r].outcomes
BY DEF Persist, Replace, WithOutcome

LEMMA CloseWrites ==
    ASSUME TypeOK, NEW r \in Runs, CloseWrite(r)
    PROVE  /\ runs' = [runs EXCEPT ![r] = [open |-> FALSE, outcomes |-> Head(owner[r])]]
           /\ overwritten \subseteq overwritten' /\ overwritten' \subseteq overwritten \cup {r}
           /\ r \notin overwritten' => Head(owner[r]) = runs[r].outcomes
           /\ owner[r] # <<>> /\ Head(owner[r]) \in Seq(Outcome)
<1>1. owner[r] # <<>> /\ owner[r] \in Seq(Seq(Outcome))
  BY DEF CloseWrite, TypeOK
<1>2. Head(owner[r]) \in Seq(Outcome)
  BY <1>1
<1> QED
  BY <1>1, <1>2 DEF CloseWrite, Replace

-----------------------------------------------------------------------------
(***************************************************************************)
(* What every step leaves as it is.                                        *)
(***************************************************************************)
\* What is said of the past stays true; outcomes stay but for overwritten runs.
Grows ==
    /\ granted \subseteq granted'
    /\ overwritten \subseteq overwritten'
    /\ unsettled \subseteq unsettled'
    /\ \A r \in Runs, k \in Keys : effects[<<r, k>>] > 0 => effects'[<<r, k>>] > 0
    /\ \A r \in Runs \ overwritten', k \in Keys, state \in {"planned", "executed", "failed"} :
          Has(runs[r].outcomes, k, state) => Has(runs'[r].outcomes, k, state)

LEMMA OthersStayBacked ==
    ASSUME TypeOK, ExecutorsAreBacked, Grows, NEW e \in Executors,
           \A f \in Executors \ {e} : work'[f] = work[f],
           work'[e] # Idle => (StageFits(work[e]) /\ Backed(work[e]))'
    PROVE  ExecutorsAreBacked'
<1> SUFFICES ASSUME NEW f \in Executors, f # e, work'[f] # Idle
             PROVE  (StageFits(work[f]) /\ Backed(work[f]))'
  BY DEF ExecutorsAreBacked, Working
<1>1. work'[f] = work[f] /\ Working(f)
  BY DEF Working
<1>2. StageFits(work[f]) /\ Backed(work[f])
  BY <1>1 DEF ExecutorsAreBacked
<1>3. work[f].run \in Runs /\ work[f].key \in Keys
  BY <1>1, WorkingIsBusy
<1> QED
  BY <1>1, <1>2, <1>3, RecordedIsHas DEF Grows, StageFits, Backed, Called, Recorded, Has

\* A step of an executor on its attempt disturbs no other attempt.
LEMMA AccountStep ==
    ASSUME EffectsAreAccounted, Grows, NEW e \in Executors, NEW r0 \in Runs, NEW k0 \in Keys,
           \A f \in Executors \ {e} : work'[f] = work[f],
           On(e, r0, k0), work'[e] # Idle => On(e, r0, k0)',
           \A r \in Runs, k \in Keys : r \notin overwritten' /\ <<r, k>> # <<r0, k0>> =>
              /\ effects'[<<r, k>>] = effects[<<r, k>>]
              /\ Has(runs'[r].outcomes, k, "executed") <=> Has(runs[r].outcomes, k, "executed"),
           r0 \notin overwritten' /\ <<r0, k0>> \notin unsettled' /\ Accounted(r0, k0) =>
              /\ work'[e] = Idle => Balanced(r0, k0)'
              /\ work'[e] # Idle => InBooks(e, r0, k0)'
    PROVE  EffectsAreAccounted'
<1> SUFFICES ASSUME NEW r \in Runs, NEW k \in Keys,
                    r \notin overwritten', <<r, k>> \notin unsettled'
             PROVE  Accounted(r, k)'
  BY DEF EffectsAreAccounted
<1>1. Accounted(r, k)
  BY DEF EffectsAreAccounted, Grows
<1>2. CASE <<r, k>> = <<r0, k0>>
  <2>1. r = r0 /\ k = k0
    BY <1>2
  <2>2. \A f \in Executors : On(f, r, k)' => f = e
    BY <1>1, <2>1 DEF Accounted, On, Working
  <2>3. /\ work'[e] = Idle => Balanced(r, k)'
        /\ work'[e] # Idle => InBooks(e, r, k)'
    BY <1>1, <2>1
  <2>4. On(e, r, k)' <=> work'[e] # Idle
    BY <2>1 DEF On, Working
  <2> QED
    BY <2>2, <2>3, <2>4 DEF Accounted
<1>3. CASE <<r, k>> # <<r0, k0>>
  <2>1. ~On(e, r, k) /\ ~On(e, r, k)'
    BY <1>3 DEF On, Working
  <2>2. \A f \in Executors : On(f, r, k)' <=> On(f, r, k)
    BY <2>1 DEF On, Working
  <2>3. \A f \in Executors : On(f, r, k) => work'[f] = work[f]
    BY <2>1
  <2>4. /\ effects'[<<r, k>>] = effects[<<r, k>>]
        /\ Recorded(r, k, "executed")' <=> Recorded(r, k, "executed")
    BY <1>3 DEF Recorded, Has
  <2> QED
    BY <1>1, <2>2, <2>3, <2>4 DEF Accounted, InBooks, Balanced
<1> QED
  BY <1>2, <1>3

LEMMA InitHolds == Init => IInv
<1> SUFFICES ASSUME Init PROVE IInv
  OBVIOUS
<1>1. ApprovalInv
  BY ApprovalInitially DEF Init
<1>2. ExecutionQueue = {}
  BY DEF Init, ApprovalInit, ExecutionQueue
<1>3. \A e \in Executors : ~Working(e)
  BY DEF Init, Working
<1>4. \A r \in Runs : \A k, state : ~Recorded(r, k, state)
  BY HasNothing, RecordedIsHas DEF Init
<1>5. TypeOK
  <2>1. [open |-> TRUE, outcomes |-> <<>>] \in Record
    BY DEF Record
  <2>2. <<>> \in Seq(Seq(Outcome)) /\ Len(<<>>) <= 1
    OBVIOUS
  <2> QED
    BY <1>1, <2>1, <2>2, ExternalAssumption DEF Init, TypeOK, ApprovalInv
<1>6. \A r \in Runs, k \in Keys : effects[<<r, k>>] = 0
  BY DEF Init
<1>7. WritesWereApproved /\ EffectsWerePlanned
  BY <1>4, <1>6 DEF WritesWereApproved, EffectsWerePlanned, Keys
<1>8. EffectsAreAccounted
  BY <1>3, <1>4, <1>6 DEF EffectsAreAccounted, Accounted, Balanced, On
<1> QED
  BY <1>1, <1>2, <1>3, <1>4, <1>5, <1>7, <1>8
  DEF IInv, ExecutionInv, GrantsAreApprovals, ExecutorsAreBacked, OwnersTellTheTruth, RunsTellTheTruth, Init

-----------------------------------------------------------------------------
(***************************************************************************)
(* The steps.                                                              *)
(***************************************************************************)
LEMMA ApproversStep ==
    ASSUME IInv, ApprovalInv', Approvers
    PROVE  ExecutionInv'
<1>1. /\ runs' = runs /\ work' = work /\ owner' = owner /\ effects' = effects
      /\ overwritten' = overwritten /\ unsettled' = unsettled
      /\ granted' = granted \cup ExecutionQueue'
  BY DEF Approvers
<1>2. (ExecutionQueue \subseteq NeedApproval)'
  BY DEF ApprovalInv, TablesAgree, ExecutionQueue, DryRun
<1>3. GrantsAreApprovals'
  BY <1>1, <1>2 DEF IInv, ExecutionInv, GrantsAreApprovals
<1>4. ExecutorsAreBacked'
  BY <1>1 DEF IInv, ExecutionInv, ExecutorsAreBacked, Working, StageFits, Backed, Called, Recorded
<1>5. OwnersTellTheTruth' /\ RunsTellTheTruth'
  BY <1>1 DEF IInv, ExecutionInv, OwnersTellTheTruth, RunsTellTheTruth, Recorded
<1>6. WritesWereApproved' /\ EffectsWerePlanned'
  BY <1>1 DEF IInv, ExecutionInv, WritesWereApproved, EffectsWerePlanned, Recorded
<1>7. EffectsAreAccounted'
  BY <1>1 DEF IInv, ExecutionInv, EffectsAreAccounted, Accounted, On, Working, InBooks, Balanced, Recorded
<1> QED
  BY <1>3, <1>4, <1>5, <1>6, <1>7 DEF ExecutionInv

\* Steps of executors that touch neither runs nor effects.
LEMMA QuietStep ==
    ASSUME IInv, runs' = runs, owner' = owner, effects' = effects, granted' = granted,
           overwritten' = overwritten, planned' = planned, unsettled \subseteq unsettled'
    PROVE  /\ Grows
           /\ GrantsAreApprovals' /\ OwnersTellTheTruth' /\ RunsTellTheTruth'
           /\ WritesWereApproved' /\ EffectsWerePlanned'
BY DEF IInv, ExecutionInv, Grows, GrantsAreApprovals, ExecutionQueue, OwnersTellTheTruth,
       RunsTellTheTruth, WritesWereApproved, EffectsWerePlanned, Recorded

LEMMA LoadStep ==
    ASSUME IInv, NEW e \in Executors, Load(e)
    PROVE  ExecutionInv'
<1>1. PICK r0 \in Runs, k0 \in Keys :
         /\ work' = [work EXCEPT ![e] =
               [pc |-> "loaded", run |-> r0, key |-> k0, base |-> <<>>,
                state |-> IF HasExecuted(r0, k0) THEN "refused" ELSE "new"]]
         /\ unsettled' = IF InFlight(<<r0, k0>>) THEN unsettled \cup {<<r0, k0>>} ELSE unsettled
  BY DEF Load
<1>2. /\ runs' = runs /\ owner' = owner /\ effects' = effects /\ granted' = granted
      /\ overwritten' = overwritten /\ planned' = planned /\ work[e] = Idle
      /\ unsettled \subseteq unsettled'
  BY <1>1 DEF Load, approvalVars
<1>3. /\ Grows
      /\ GrantsAreApprovals' /\ OwnersTellTheTruth' /\ RunsTellTheTruth'
      /\ WritesWereApproved' /\ EffectsWerePlanned'
  BY <1>2, QuietStep
<1>4. /\ \A f \in Executors \ {e} : work'[f] = work[f]
      /\ work'[e].pc = "loaded" /\ work'[e].run = r0 /\ work'[e].key = k0
      /\ work'[e].base = <<>>
      /\ work'[e].state = IF HasExecuted(r0, k0) THEN "refused" ELSE "new"
      /\ work'[e] # Idle
  BY <1>1 DEF IInv, TypeOK, Idle
<1>5. ExecutorsAreBacked'
  <2>1. (StageFits(work[e]) /\ Backed(work[e]))'
    BY <1>4, HasNothing DEF StageFits, Backed, Called
  <2> QED
    BY <1>3, <1>4, <2>1, OthersStayBacked DEF IInv, ExecutionInv
<1>6. EffectsAreAccounted'
  <2> SUFFICES ASSUME NEW r \in Runs, NEW k \in Keys,
                      r \notin overwritten', <<r, k>> \notin unsettled'
               PROVE  Accounted(r, k)'
    BY DEF EffectsAreAccounted
  <2>1. Accounted(r, k)
    BY <1>2 DEF IInv, ExecutionInv, EffectsAreAccounted
  <2>2. Balanced(r, k)' <=> Balanced(r, k)
    BY <1>2 DEF Balanced, Recorded
  <2>3. CASE r = r0 /\ k = k0
    <3>1. \A f \in Executors : ~On(f, r, k)
      BY <1>1, <2>3 DEF InFlight, AttemptOf, On, Working
    <3>2. Balanced(r, k)
      BY <2>1, <3>1 DEF Accounted
    <3>3. \A f \in Executors : On(f, r, k)' => f = e
      BY <1>4, <3>1 DEF On, Working
    <3>4. On(e, r, k)'
      BY <1>4, <2>3 DEF On, Working
    <3>5. HasExecuted(r, k) <=> Recorded(r, k, "executed")'
      BY <1>2 DEF HasExecuted, Recorded
    <3>6. InBooks(e, r, k)'
      BY <1>4, <2>2, <2>3, <3>2, <3>5 DEF InBooks, Balanced
    <3> QED
      BY <3>3, <3>4, <3>6 DEF Accounted
  <2>4. CASE <<r, k>> # <<r0, k0>>
    <3>1. \A f \in Executors : (On(f, r, k)' <=> On(f, r, k))
      BY <1>2, <1>4, <2>4 DEF On, Working
    <3>2. \A f \in Executors : On(f, r, k) => work'[f] = work[f]
      BY <1>2, <1>4 DEF On, Working
    <3>3. \A f \in Executors : On(f, r, k)' => InBooks(f, r, k)'
      BY <1>2, <2>1, <2>2, <3>1, <3>2 DEF Accounted, InBooks, Recorded
    <3> QED
      BY <2>1, <2>2, <3>1, <3>3 DEF Accounted
  <2> QED
    BY <2>3, <2>4
<1> QED
  BY <1>3, <1>5, <1>6 DEF ExecutionInv

LEMMA CheckStep ==
    ASSUME IInv, NEW e \in Executors, Check(e)
    PROVE  ExecutionInv'
<1>1. Working(e) /\ work[e].pc = "loaded" /\ work[e] \in Busy
      /\ work[e].run \in Runs /\ work[e].key \in Keys
  BY CheckMoves, WorkingIsBusy DEF IInv
<1>2. PICK state \in {"planned", "refused"} :
         /\ Restages(e, "appending", state, work[e].base)
         /\ state = "planned" =>
               /\ work[e].state = "new"
               /\ work[e].key \in Actions => work[e].key \in ExecutionQueue
  BY CheckMoves DEF IInv
<1>3. /\ runs' = runs /\ owner' = owner /\ effects' = effects /\ granted' = granted
      /\ overwritten' = overwritten /\ planned' = planned /\ unsettled' = unsettled
  BY DEF Check, approvalVars
<1>4. /\ Grows
      /\ GrantsAreApprovals' /\ OwnersTellTheTruth' /\ RunsTellTheTruth'
      /\ WritesWereApproved' /\ EffectsWerePlanned'
  BY <1>3, QuietStep
<1>5. StageFits(work[e]) /\ Backed(work[e])
  BY <1>1 DEF IInv, ExecutionInv, ExecutorsAreBacked
<1>6. ExecutorsAreBacked'
  <2>1. (StageFits(work[e]) /\ Backed(work[e]))'
    BY <1>2, <1>3, <1>5 DEF Restages, StageFits, Backed, Called, IInv, ExecutionInv, GrantsAreApprovals
  <2> QED
    BY <1>2, <1>4, <2>1, OthersStayBacked DEF IInv, ExecutionInv, Restages
<1>7. EffectsAreAccounted'
  <2> DEFINE r0 == work[e].run
             k0 == work[e].key
  <2>1. On(e, r0, k0) /\ On(e, r0, k0)'
    BY <1>1, <1>2 DEF On, Working, Restages
  <2>2. ASSUME Accounted(r0, k0) PROVE InBooks(e, r0, k0)'
    BY <1>1, <1>2, <1>3, <1>5, <2>1, <2>2
    DEF Accounted, InBooks, Balanced, Restages, Recorded, StageFits, IInv, ExecutionInv, RunsTellTheTruth
  <2> QED
    BY <1>1, <1>2, <1>3, <1>4, <2>1, <2>2, AccountStep DEF Restages, IInv, ExecutionInv
<1> QED
  BY <1>4, <1>6, <1>7 DEF ExecutionInv

LEMMA LoadForAppendStep ==
    ASSUME IInv, NEW e \in Executors, LoadForAppend(e)
    PROVE  ExecutionInv'
<1>1. Working(e) /\ work[e].pc = "appending" /\ work[e] \in Busy
      /\ work[e].run \in Runs /\ work[e].key \in Keys
      /\ Restages(e, "persisting", work[e].state, runs[work[e].run].outcomes)
  BY LoadForAppendMoves, WorkingIsBusy DEF IInv
<1>2. /\ runs' = runs /\ owner' = owner /\ effects' = effects /\ granted' = granted
      /\ overwritten' = overwritten /\ planned' = planned /\ unsettled' = unsettled
  BY DEF LoadForAppend, approvalVars
<1>3. /\ Grows
      /\ GrantsAreApprovals' /\ OwnersTellTheTruth' /\ RunsTellTheTruth'
      /\ WritesWereApproved' /\ EffectsWerePlanned'
  BY <1>2, QuietStep
<1>4. StageFits(work[e]) /\ Backed(work[e])
  BY <1>1 DEF IInv, ExecutionInv, ExecutorsAreBacked
<1>5. ExecutorsAreBacked'
  <2>1. \A k \in Keys : Has(runs[work[e].run].outcomes, k, "executed") =>
                           effects[<<work[e].run, k>>] > 0
    BY <1>1, RecordedIsHas DEF IInv, ExecutionInv, RunsTellTheTruth
  <2>2. (StageFits(work[e]) /\ Backed(work[e]))'
    BY <1>1, <1>2, <1>4, <2>1 DEF Restages, StageFits, Backed, Called, Recorded
  <2> QED
    BY <1>1, <1>3, <2>2, OthersStayBacked DEF IInv, ExecutionInv, Restages
<1>6. EffectsAreAccounted'
  <2> DEFINE r0 == work[e].run
             k0 == work[e].key
  <2>1. On(e, r0, k0) /\ On(e, r0, k0)'
    BY <1>1 DEF On, Working, Restages
  <2>2. ASSUME Accounted(r0, k0) PROVE InBooks(e, r0, k0)'
    BY <1>1, <1>2, <2>1, <2>2 DEF Accounted, InBooks, Balanced, Restages, Recorded
  <2> QED
    BY <1>1, <1>2, <1>3, <2>1, <2>2, AccountStep DEF Restages, IInv, ExecutionInv
<1> QED
  BY <1>3, <1>5, <1>6 DEF ExecutionInv

\* The executor died, or the run was closed before it could append.
LEMMA EndStep ==
    ASSUME IInv, NEW e \in Executors, AppendRaises(e) \/ Die(e)
    PROVE  ExecutionInv'
<1>1. Working(e) /\ Ends(e)
  BY EndsIf DEF IInv, AppendRaises, Die, Working, Idle
<1>2. /\ runs' = runs /\ owner' = owner /\ effects' = effects /\ granted' = granted
      /\ overwritten' = overwritten /\ planned' = planned
      /\ unsettled' = IF work[e].state = "executed" THEN unsettled \cup {AttemptOf(e)}
                      ELSE unsettled
  BY DEF AppendRaises, Die, Unrecorded, approvalVars
<1>3. /\ Grows
      /\ GrantsAreApprovals' /\ OwnersTellTheTruth' /\ RunsTellTheTruth'
      /\ WritesWereApproved' /\ EffectsWerePlanned'
  BY <1>2, QuietStep
<1>4. ExecutorsAreBacked'
  BY <1>1, <1>3, OthersStayBacked DEF IInv, ExecutionInv, Ends
<1>5. work[e].state \in {"new", "refused", "planned", "executed", "failed"}
      /\ work[e].run \in Runs /\ work[e].key \in Keys
  BY <1>1, WorkingIsBusy DEF IInv
<1>6. EffectsAreAccounted'
  <2> PICK r0 \in Runs, k0 \in Keys : r0 = work[e].run /\ k0 = work[e].key
    BY <1>5
  <2>1. On(e, r0, k0) /\ work'[e] = Idle
    BY <1>1 DEF On, Ends
  <2>2. ASSUME Accounted(r0, k0), <<r0, k0>> \notin unsettled' PROVE Balanced(r0, k0)'
    <3>1. work[e].state # "executed"
      BY <1>2, <2>2 DEF AttemptOf
    <3>2. InBooks(e, r0, k0)
      BY <2>1, <2>2 DEF Accounted
    <3> QED
      BY <1>2, <1>5, <3>1, <3>2
      DEF InBooks, Balanced, Recorded, IInv, ExecutionInv, RunsTellTheTruth
  <2> QED
    BY <1>1, <1>2, <1>3, <1>5, <2>1, <2>2, AccountStep DEF Ends, IInv, ExecutionInv
<1> QED
  BY <1>3, <1>4, <1>6 DEF ExecutionInv

LEMMA PersistStep ==
    ASSUME IInv, NEW e \in Executors, Persist(e)
    PROVE  ExecutionInv'
<1>0. Working(e) /\ work[e].pc = "persisting" /\ work[e].run \in Runs /\ work[e].key \in Keys
  BY PersistMoves, WorkingIsBusy DEF IInv
<1> PICK r0 \in Runs, k0 \in Keys : r0 = work[e].run /\ k0 = work[e].key
  BY <1>0
<1> DEFINE base == work[e].base
           outcome == [key |-> k0, state |-> work[e].state]
<1>1. Working(e) /\ work[e].pc = "persisting" /\ work[e] \in Busy
      /\ base \in Seq(Outcome)
      /\ work[e].state \in {"new", "refused", "planned", "executed", "failed"}
      /\ IF work[e].state = "planned" THEN Restages(e, "calling", "planned", <<>>) ELSE Ends(e)
  BY PersistMoves, WorkingIsBusy DEF IInv
<1>2. /\ runs' = [runs EXCEPT ![r0] = [open |-> TRUE, outcomes |-> Append(base, outcome)]]
      /\ overwritten \subseteq overwritten' /\ overwritten' \subseteq overwritten \cup {r0}
      /\ r0 \notin overwritten' => base = runs[r0].outcomes
  BY PersistWrites DEF IInv
<1>3. /\ owner' = owner /\ effects' = effects /\ granted' = granted
      /\ planned' = planned /\ unsettled' = unsettled
  BY DEF Persist, approvalVars
<1>4. StageFits(work[e]) /\ Backed(work[e])
  BY <1>1 DEF IInv, ExecutionInv, ExecutorsAreBacked
<1>5. outcome \in Outcome /\ outcome.key = k0 /\ outcome.state = work[e].state
  BY <1>1, <1>4 DEF Outcome, StageFits
<1>6. /\ \A r \in Runs : r # r0 => runs'[r] = runs[r]
      /\ \A k \in Keys : \A state : Has(runs'[r0].outcomes, k, state) <=>
            Has(base, k, state) \/ (k = k0 /\ state = work[e].state)
  <2>1. \A r \in Runs : r # r0 => runs'[r] = runs[r]
    BY <1>2 DEF IInv, TypeOK
  <2>2. runs'[r0].outcomes = Append(base, outcome)
    BY <1>1, <1>2 DEF IInv, TypeOK
  <2> HIDE DEF base, outcome
  <2> QED
    BY <1>1, <1>5, <2>1, <2>2, HasAppended
<1> HIDE DEF base, outcome
<1>7. Grows
  BY <1>1, <1>2, <1>3, <1>6 DEF Grows
<1>8. GrantsAreApprovals' /\ OwnersTellTheTruth' /\ WritesWereApproved'
  BY <1>3 DEF IInv, ExecutionInv, GrantsAreApprovals, ExecutionQueue, OwnersTellTheTruth,
              WritesWereApproved
<1>9. RunsTellTheTruth'
  <2> SUFFICES ASSUME NEW r \in Runs, NEW k \in Keys, Has(runs'[r].outcomes, k, "executed")
               PROVE  effects[<<r, k>>] > 0
    BY <1>3 DEF RunsTellTheTruth, Recorded, Has
  <2>1. CASE r # r0
    BY <1>6, <2>1, RecordedIsHas DEF IInv, ExecutionInv, RunsTellTheTruth
  <2>2. CASE r = r0
    BY <1>4, <1>6, <2>2 DEF Backed, base
  <2> QED
    BY <2>1, <2>2
<1>10. EffectsWerePlanned'
  <2> SUFFICES ASSUME NEW r \in Runs, r \notin overwritten', NEW k \in Keys,
                      \/ effects[<<r, k>>] > 0
                      \/ Has(runs'[r].outcomes, k, "executed")
                      \/ Has(runs'[r].outcomes, k, "failed")
               PROVE  Has(runs'[r].outcomes, k, "planned")
    BY <1>3 DEF EffectsWerePlanned, Recorded, Has
  <2>1. r \notin overwritten
    BY <1>2
  <2>2. Has(runs[r].outcomes, k, "planned")
    <3>1. CASE \/ effects[<<r, k>>] > 0
               \/ Has(runs[r].outcomes, k, "executed")
               \/ Has(runs[r].outcomes, k, "failed")
      BY <2>1, <3>1, RecordedIsHas DEF IInv, ExecutionInv, EffectsWerePlanned
    <3>2. CASE r = r0 /\ k = k0 /\ work[e].state \in {"executed", "failed"}
      BY <1>4, <2>1, <3>2, RecordedIsHas DEF Backed, Called
    <3> QED
      BY <1>2, <1>6, <3>1, <3>2
  <2> QED
    BY <1>7, <2>2 DEF Grows
<1>11. ExecutorsAreBacked'
  <2>1. ASSUME work'[e] # Idle
        PROVE  (StageFits(work[e]) /\ Backed(work[e]))'
    <3>1. work[e].state = "planned" /\ Restages(e, "calling", "planned", <<>>)
      BY <1>1, <2>1 DEF Ends
    <3>2. Has(runs'[r0].outcomes, k0, "planned")
      BY <1>1, <1>6, <3>1
    <3> QED
      BY <1>3, <1>4, <3>1, <3>2, HasNothing
      DEF Restages, StageFits, Backed, Called, Recorded, Has
  <2> QED
    BY <1>1, <1>7, <2>1, OthersStayBacked DEF IInv, ExecutionInv, Restages, Ends
<1>12. EffectsAreAccounted'
  <2>1. On(e, r0, k0) /\ (work'[e] # Idle => On(e, r0, k0)')
    BY <1>1 DEF On, Working, Restages, Ends
  <2>2. ASSUME r0 \notin overwritten', Accounted(r0, k0)
        PROVE  /\ work'[e] = Idle => Balanced(r0, k0)'
               /\ work'[e] # Idle => InBooks(e, r0, k0)'
    <3>1. InBooks(e, r0, k0)
      BY <2>1, <2>2 DEF Accounted
    <3>2. Has(runs'[r0].outcomes, k0, "executed") <=>
             Recorded(r0, k0, "executed") \/ work[e].state = "executed"
      BY <1>1, <1>2, <1>6, <2>2, RecordedIsHas
    <3>3. Recorded(r0, k0, "executed")' <=> Has(runs'[r0].outcomes, k0, "executed")
      BY <1>1 DEF Recorded, Has, Restages, Ends
    <3>4. CASE work[e].state = "planned"
      <4>1. work'[e] # Idle /\ work'[e].state = "planned"
        BY <1>1, <3>4 DEF Restages
      <4> QED
        BY <1>3, <3>1, <3>4, <4>1 DEF InBooks
    <3>5. CASE work[e].state # "planned"
      <4>1. work'[e] = Idle
        BY <1>1, <3>5 DEF Ends
      <4>2. effects[<<r0, k0>>] = 0 => ~Recorded(r0, k0, "executed")
        BY <1>1 DEF IInv, ExecutionInv, RunsTellTheTruth
      <4>3. work[e].state # "new"
        BY <1>1, <1>4 DEF StageFits
      <4>4. effects[<<r0, k0>>] =
               IF Recorded(r0, k0, "executed") \/ work[e].state = "executed" THEN 1 ELSE 0
        BY <1>1, <3>1, <3>5, <4>2, <4>3 DEF InBooks, Balanced
      <4> QED
        BY <1>3, <3>2, <3>3, <4>1, <4>4 DEF Balanced
    <3> QED
      BY <3>4, <3>5
  <2>3. \A r \in Runs, k \in Keys : r \notin overwritten' /\ <<r, k>> # <<r0, k0>> =>
           /\ effects'[<<r, k>>] = effects[<<r, k>>]
           /\ Has(runs'[r].outcomes, k, "executed") <=> Has(runs[r].outcomes, k, "executed")
    BY <1>2, <1>3, <1>6
  <2>4. \A f \in Executors \ {e} : work'[f] = work[f]
    BY <1>1 DEF Restages, Ends
  <2> QED
    <3>1. EffectsAreAccounted
      BY DEF IInv, ExecutionInv
    <3>2. r0 \notin overwritten' /\ <<r0, k0>> \notin unsettled' /\ Accounted(r0, k0) =>
            /\ work'[e] = Idle => Balanced(r0, k0)'
            /\ work'[e] # Idle => InBooks(e, r0, k0)'
      BY <2>2
    <3> QED
      BY <1>7, <2>1, <2>3, <2>4, <3>1, <3>2, AccountStep, SMTT(30)
<1> QED
  BY <1>8, <1>9, <1>10, <1>11, <1>12 DEF ExecutionInv

\* The provider did what was asked for, whether or not it said so.
LEMMA EffectStep ==
    ASSUME IInv, NEW e \in Executors, work[e].pc = "calling", TakesEffect(e),
           NEW state \in {"executed", "failed"}, Answer(e, state),
           runs' = runs, owner' = owner, granted' = granted, overwritten' = overwritten,
           planned' = planned,
           unsettled' = IF state = "executed" THEN unsettled ELSE unsettled \cup {AttemptOf(e)}
    PROVE  ExecutionInv'
<1>1. Working(e) /\ work[e].run \in Runs /\ work[e].key \in Keys
      /\ Restages(e, "appending", state, work[e].base)
  BY AnswerMoves, WorkingIsBusy DEF IInv, Working, Idle
<1> PICK r0 \in Runs, k0 \in Keys : r0 = work[e].run /\ k0 = work[e].key
  BY <1>1
<1>2. /\ effects \in [Runs \X Keys -> Nat]
      /\ effects' = [effects EXCEPT ![<<r0, k0>>] = effects[<<r0, k0>>] + 1]
  BY DEF TakesEffect, AttemptOf, IInv, TypeOK
<1>3. /\ effects'[<<r0, k0>>] = effects[<<r0, k0>>] + 1
      /\ \A r \in Runs, k \in Keys :
            <<r, k>> # <<r0, k0>> => effects'[<<r, k>>] = effects[<<r, k>>]
      /\ \A r \in Runs, k \in Keys : effects[<<r, k>>] > 0 => effects'[<<r, k>>] > 0
  BY <1>2
<1>4. work[e].state = "planned" /\ Backed(work[e])
  BY <1>1 DEF IInv, ExecutionInv, ExecutorsAreBacked, StageFits
<1>5. Grows
  BY <1>3 DEF Grows
<1>6. GrantsAreApprovals' /\ OwnersTellTheTruth' /\ RunsTellTheTruth'
  BY <1>3 DEF IInv, ExecutionInv, GrantsAreApprovals, ExecutionQueue, OwnersTellTheTruth,
              RunsTellTheTruth, Recorded
<1>7. WritesWereApproved'
  <2>1. k0 \in Actions => k0 \in granted \cap NeedApproval
    BY <1>4 DEF Backed, IInv, ExecutionInv, GrantsAreApprovals
  <2> QED
    BY <1>3, <2>1 DEF WritesWereApproved, IInv, ExecutionInv, Keys
<1>8. EffectsWerePlanned'
  <2>1. r0 \notin overwritten => Recorded(r0, k0, "planned")
    BY <1>4 DEF Backed, Called
  <2> SUFFICES ASSUME NEW r \in Runs \ overwritten, NEW k \in Keys,
                      \/ effects'[<<r, k>>] > 0
                      \/ Recorded(r, k, "executed") \/ Recorded(r, k, "failed")
               PROVE  Recorded(r, k, "planned")
    BY DEF EffectsWerePlanned, Recorded
  <2> QED
    BY <1>3, <2>1 DEF IInv, ExecutionInv, EffectsWerePlanned
<1>9. ExecutorsAreBacked'
  <2>1. effects'[<<r0, k0>>] > 0
    BY <1>2, <1>3
  <2>2. (StageFits(work[e]) /\ Backed(work[e]))'
    BY <1>1, <1>3, <1>4, <2>1 DEF Restages, StageFits, Backed, Called, Recorded
  <2> QED
    BY <1>1, <1>5, <2>2, OthersStayBacked DEF IInv, ExecutionInv, Restages
<1>10. EffectsAreAccounted'
  <2>1. On(e, r0, k0) /\ On(e, r0, k0)'
    BY <1>1 DEF On, Working, Restages
  <2>2. r0 \notin overwritten' /\ <<r0, k0>> \notin unsettled' /\ Accounted(r0, k0) =>
           /\ work'[e] = Idle => Balanced(r0, k0)'
           /\ work'[e] # Idle => InBooks(e, r0, k0)'
    <3> SUFFICES ASSUME <<r0, k0>> \notin unsettled', Accounted(r0, k0)
                 PROVE  InBooks(e, r0, k0)'
      BY <1>1 DEF Restages
    <3>1. state = "executed"
      BY DEF AttemptOf
    <3>2. effects[<<r0, k0>>] = 0
      BY <1>4, <2>1 DEF Accounted, InBooks
    <3>3. ~Recorded(r0, k0, "executed")
      BY <3>2 DEF IInv, ExecutionInv, RunsTellTheTruth
    <3> QED
      BY <1>1, <1>3, <3>1, <3>2, <3>3 DEF InBooks, Restages, Recorded
  <2>3. \A r \in Runs, k \in Keys : r \notin overwritten' /\ <<r, k>> # <<r0, k0>> =>
           /\ effects'[<<r, k>>] = effects[<<r, k>>]
           /\ Has(runs'[r].outcomes, k, "executed") <=> Has(runs[r].outcomes, k, "executed")
    BY <1>3
  <2>4. EffectsAreAccounted /\ \A f \in Executors \ {e} : work'[f] = work[f]
    BY <1>1 DEF IInv, ExecutionInv, Restages
  <2> QED
    BY <1>5, <2>1, <2>2, <2>3, <2>4, AccountStep, SMTT(30)
<1> QED
  BY <1>6, <1>7, <1>8, <1>9, <1>10 DEF ExecutionInv

LEMMA CallSucceedsStep ==
    ASSUME IInv, NEW e \in Executors, CallSucceeds(e)
    PROVE  ExecutionInv'
BY EffectStep DEF CallSucceeds, approvalVars

LEMMA CallFailsStep ==
    ASSUME IInv, NEW e \in Executors, CallFails(e)
    PROVE  ExecutionInv'
<1>1. /\ runs' = runs /\ owner' = owner /\ granted' = granted
      /\ overwritten' = overwritten /\ planned' = planned
      /\ work[e].pc = "calling" /\ Answer(e, "failed")
  BY DEF CallFails, approvalVars
<1>2. CASE TakesEffect(e) /\ unsettled' = unsettled \cup {AttemptOf(e)}
  BY <1>1, <1>2, EffectStep
<1>3. CASE UNCHANGED <<effects, unsettled>>
  <2>1. Working(e) /\ work[e].run \in Runs /\ work[e].key \in Keys
        /\ Restages(e, "appending", "failed", work[e].base)
    BY <1>1, AnswerMoves, WorkingIsBusy DEF IInv, Working, Idle
  <2> PICK r0 \in Runs, k0 \in Keys : r0 = work[e].run /\ k0 = work[e].key
    BY <2>1
  <2>2. work[e].state = "planned" /\ Backed(work[e])
    BY <1>1, <2>1 DEF IInv, ExecutionInv, ExecutorsAreBacked, StageFits
  <2>3. /\ Grows
        /\ GrantsAreApprovals' /\ OwnersTellTheTruth' /\ RunsTellTheTruth'
        /\ WritesWereApproved' /\ EffectsWerePlanned'
    BY <1>1, <1>3, QuietStep
  <2>4. ExecutorsAreBacked'
    <3>1. (StageFits(work[e]) /\ Backed(work[e]))'
      BY <1>1, <1>3, <2>1, <2>2 DEF Restages, StageFits, Backed, Called, Recorded
    <3> QED
      BY <2>1, <2>3, <3>1, OthersStayBacked DEF IInv, ExecutionInv, Restages
  <2>5. EffectsAreAccounted'
    <3>1. On(e, r0, k0) /\ On(e, r0, k0)'
      BY <2>1 DEF On, Working, Restages
    <3>2. Accounted(r0, k0) => InBooks(e, r0, k0)'
      BY <1>3, <2>1, <2>2, <3>1 DEF Accounted, InBooks, Restages
    <3>3. EffectsAreAccounted /\ \A f \in Executors \ {e} : work'[f] = work[f]
      BY <2>1 DEF IInv, ExecutionInv, Restages
    <3> QED
      BY <1>1, <1>3, <2>1, <2>3, <3>1, <3>2, <3>3, AccountStep DEF Restages
  <2> QED
    BY <2>3, <2>4, <2>5 DEF ExecutionInv
<1> QED
  BY <1>2, <1>3 DEF CallFails

LEMMA CloseReadStep ==
    ASSUME IInv, NEW r \in Runs, CloseRead(r)
    PROVE  ExecutionInv'
<1>1. /\ owner' = [owner EXCEPT ![r] = <<runs[r].outcomes>>]
      /\ planned' = planned
      /\ UNCHANGED <<runs, work, effects, granted, overwritten, unsettled>>
  BY DEF CloseRead, approvalVars
<1>2. OwnersTellTheTruth'
  <2> SUFFICES ASSUME NEW s \in Runs, NEW k \in Keys, owner'[s] # <<>>,
                      Has(Head(owner'[s]), k, "executed")
               PROVE  effects[<<s, k>>] > 0
    BY <1>1 DEF OwnersTellTheTruth
  <2>1. CASE s # r
    BY <1>1, <2>1 DEF IInv, TypeOK, ExecutionInv, OwnersTellTheTruth
  <2>2. CASE s = r
    <3>1. Head(owner'[s]) = runs[s].outcomes
      BY <1>1, <2>2 DEF IInv, TypeOK
    <3> QED
      BY <3>1, RecordedIsHas DEF IInv, ExecutionInv, RunsTellTheTruth
  <2> QED
    BY <2>1, <2>2
<1>3. ExecutorsAreBacked' /\ GrantsAreApprovals'
  BY <1>1 DEF IInv, ExecutionInv, ExecutorsAreBacked, Working, StageFits, Backed, Called, Recorded,
              GrantsAreApprovals, ExecutionQueue
<1>4. RunsTellTheTruth' /\ WritesWereApproved' /\ EffectsWerePlanned'
  BY <1>1 DEF IInv, ExecutionInv, RunsTellTheTruth, WritesWereApproved, EffectsWerePlanned, Recorded
<1>5. EffectsAreAccounted'
  BY <1>1 DEF IInv, ExecutionInv, EffectsAreAccounted, Accounted, On, Working, InBooks, Balanced, Recorded
<1> QED
  BY <1>2, <1>3, <1>4, <1>5 DEF ExecutionInv

LEMMA CloseWriteStep ==
    ASSUME IInv, NEW r \in Runs, CloseWrite(r)
    PROVE  ExecutionInv'
<1>1. /\ runs' = [runs EXCEPT ![r] = [open |-> FALSE, outcomes |-> Head(owner[r])]]
      /\ overwritten \subseteq overwritten'
      /\ r \notin overwritten' => Head(owner[r]) = runs[r].outcomes
      /\ owner[r] # <<>>
  BY CloseWrites DEF IInv
<1>2. /\ planned' = planned /\ owner' = [owner EXCEPT ![r] = <<>>]
      /\ UNCHANGED <<work, effects, granted, unsettled>>
  BY DEF CloseWrite, approvalVars
<1>3. /\ runs'[r].outcomes = Head(owner[r])
      /\ \A s \in Runs : s # r => runs'[s] = runs[s]
      /\ \A s \in Runs : s \notin overwritten' => runs'[s].outcomes = runs[s].outcomes
  BY <1>1 DEF IInv, TypeOK
<1>4. OwnersTellTheTruth' /\ GrantsAreApprovals' /\ WritesWereApproved'
  BY <1>2 DEF IInv, TypeOK, ExecutionInv, OwnersTellTheTruth, GrantsAreApprovals, ExecutionQueue,
              WritesWereApproved
<1>5. RunsTellTheTruth'
  <2> SUFFICES ASSUME NEW s \in Runs, NEW k \in Keys, Has(runs'[s].outcomes, k, "executed")
               PROVE  effects[<<s, k>>] > 0
    BY <1>2 DEF RunsTellTheTruth, Recorded, Has
  <2> QED
    BY <1>1, <1>3, RecordedIsHas DEF IInv, ExecutionInv, RunsTellTheTruth, OwnersTellTheTruth
<1>6. ExecutorsAreBacked'
  <2> SUFFICES ASSUME NEW e \in Executors, Working(e)
               PROVE  (StageFits(work[e]) /\ Backed(work[e]))'
    BY <1>2 DEF ExecutorsAreBacked, Working
  <2>1. StageFits(work[e]) /\ Backed(work[e]) /\ work[e].run \in Runs
    BY WorkingIsBusy DEF IInv, ExecutionInv, ExecutorsAreBacked
  <2> QED
    BY <1>1, <1>2, <1>3, <2>1 DEF StageFits, Backed, Called, Recorded
<1>7. EffectsWerePlanned'
  BY <1>1, <1>2, <1>3 DEF IInv, ExecutionInv, EffectsWerePlanned, Recorded
<1>8. EffectsAreAccounted'
  BY <1>1, <1>2, <1>3
  DEF IInv, ExecutionInv, EffectsAreAccounted, Accounted, On, Working, InBooks, Balanced, Recorded
<1> QED
  BY <1>4, <1>5, <1>6, <1>7, <1>8 DEF ExecutionInv

-----------------------------------------------------------------------------
(***************************************************************************)
(* Types.                                                                  *)
(***************************************************************************)
LEMMA ExecutorTypes ==
    ASSUME IInv, ApprovalInv', NEW e \in Executors,
           \/ Load(e) \/ Check(e) \/ LoadForAppend(e) \/ AppendRaises(e)
           \/ Persist(e) \/ CallSucceeds(e) \/ CallFails(e) \/ Die(e)
    PROVE  TypeOK'
<1>1. TypeOK /\ ApprovalTypeOK'
  BY DEF IInv, ApprovalInv
<1>2. Working(e) => AttemptOf(e) \in Runs \X Keys
  BY <1>1, WorkingIsBusy DEF AttemptOf
<1>3. CASE Load(e)
  <2>1. PICK r \in Runs, k \in Keys :
           /\ work' = [work EXCEPT ![e] =
                 [pc |-> "loaded", run |-> r, key |-> k, base |-> <<>>,
                  state |-> IF HasExecuted(r, k) THEN "refused" ELSE "new"]]
           /\ unsettled' = IF InFlight(<<r, k>>) THEN unsettled \cup {<<r, k>>} ELSE unsettled
    BY <1>3 DEF Load
  <2> DEFINE w == [pc |-> "loaded", run |-> r, key |-> k, base |-> <<>>,
                   state |-> IF HasExecuted(r, k) THEN "refused" ELSE "new"]
  <2>2. w \in Busy
    BY DEF Busy
  <2>3. work' = [work EXCEPT ![e] = w]
    BY <2>1
  <2> HIDE DEF w
  <2>4. work' \in [Executors -> {Idle} \cup Busy]
    BY <1>1, <2>2, <2>3 DEF TypeOK
  <2>5. asked' \in 0 .. MaxRequests
    BY <1>1, <1>3, ExternalAssumption DEF Load, TypeOK
  <2> QED
    BY <1>1, <1>3, <2>1, <2>4, <2>5 DEF Load, TypeOK
<1>4. CASE Check(e)
  BY <1>1, <1>4, CheckMoves DEF Check, TypeOK, Restages
<1>5. CASE LoadForAppend(e)
  BY <1>1, <1>5, LoadForAppendMoves DEF LoadForAppend, TypeOK, Restages
<1>6. CASE AppendRaises(e) \/ Die(e)
  <2>1. Working(e) /\ Ends(e)
    BY <1>1, <1>6, EndsIf DEF AppendRaises, Die, Working, Idle
  <2>2. unsettled' \subseteq Runs \X Keys
    BY <1>1, <1>2, <1>6, <2>1 DEF AppendRaises, Die, Unrecorded, TypeOK
  <2> QED
    BY <1>1, <1>6, <2>1, <2>2 DEF AppendRaises, Die, TypeOK, Ends
<1>7. CASE Persist(e)
  <2> DEFINE r == work[e].run
             outcome == [key |-> work[e].key, state |-> work[e].state]
             rec == [open |-> TRUE, outcomes |-> Append(work[e].base, outcome)]
  <2>1. Working(e) /\ work[e].pc = "persisting"
        /\ IF work[e].state = "planned" THEN Restages(e, "calling", "planned", <<>>) ELSE Ends(e)
    BY <1>1, <1>7, PersistMoves
  <2>2. work' \in [Executors -> {Idle} \cup Busy]
    BY <2>1 DEF Restages, Ends
  <2>3. outcome \in Outcome
    BY <1>1, <2>1, WorkingIsBusy DEF IInv, ExecutionInv, ExecutorsAreBacked, StageFits, Outcome
  <2>4. rec \in Record /\ r \in Runs
    BY <1>1, <2>1, <2>3, WorkingIsBusy DEF Record
  <2>5. runs' = [runs EXCEPT ![r] = rec] /\ overwritten' \subseteq overwritten \cup {r}
    BY <1>1, <1>7, PersistWrites
  <2> HIDE DEF r, rec
  <2>6. runs' \in [Runs -> Record] /\ overwritten' \subseteq Runs
    BY <1>1, <2>4, <2>5 DEF TypeOK
  <2> QED
    BY <1>1, <1>7, <2>2, <2>6 DEF Persist, TypeOK
<1>8. CASE CallSucceeds(e) \/ CallFails(e)
  <2>1. Working(e) /\ work' \in [Executors -> {Idle} \cup Busy]
    BY <1>1, <1>8, AnswerMoves DEF CallSucceeds, CallFails, Restages
  <2>2. effects' \in [Runs \X Keys -> Nat]
    BY <1>1, <1>2, <1>8, <2>1 DEF CallSucceeds, CallFails, TakesEffect, TypeOK
  <2>3. unsettled' \subseteq Runs \X Keys
    BY <1>1, <1>2, <1>8, <2>1 DEF CallSucceeds, CallFails, TypeOK
  <2> QED
    BY <1>1, <1>8, <2>1, <2>2, <2>3 DEF CallSucceeds, CallFails, TypeOK
<1> QED
  BY <1>3, <1>4, <1>5, <1>6, <1>7, <1>8

LEMMA OwnerTypes ==
    ASSUME IInv, ApprovalInv', NEW r \in Runs, CloseRead(r) \/ CloseWrite(r)
    PROVE  TypeOK'
<1>1. TypeOK /\ ApprovalTypeOK'
  BY DEF IInv, ApprovalInv
<1>2. CASE CloseRead(r)
  <2>1. <<runs[r].outcomes>> \in Seq(Seq(Outcome)) /\ Len(<<runs[r].outcomes>>) = 1
    BY <1>1 DEF TypeOK, Record
  <2> QED
    BY <1>1, <1>2, <2>1 DEF CloseRead, TypeOK
<1>3. CASE CloseWrite(r)
  <2> DEFINE rec == [open |-> FALSE, outcomes |-> Head(owner[r])]
  <2>1. /\ runs' = [runs EXCEPT ![r] = rec]
        /\ overwritten' \subseteq overwritten \cup {r}
        /\ rec \in Record
    BY <1>1, <1>3, CloseWrites DEF Record
  <2> HIDE DEF rec
  <2>2. runs' \in [Runs -> Record] /\ overwritten' \subseteq Runs
    BY <1>1, <2>1 DEF TypeOK
  <2>3. /\ owner' \in [Runs -> Seq(Seq(Outcome))]
        /\ \A s \in Runs : Len(owner'[s]) <= 1
    <3>1. <<>> \in Seq(Seq(Outcome)) /\ Len(<<>>) <= 1
      OBVIOUS
    <3> QED
      BY <1>1, <1>3, <3>1 DEF CloseWrite, TypeOK
  <2> QED
    BY <1>1, <1>3, <2>2, <2>3 DEF CloseWrite, TypeOK
<1> QED
  BY <1>2, <1>3

LEMMA ApproversTypes ==
    ASSUME IInv, ApprovalInv', Approvers
    PROVE  TypeOK'
<1>1. TypeOK /\ ApprovalTypeOK'
  BY DEF IInv, ApprovalInv
<1>2. ExecutionQueue' \subseteq Actions
  BY <1>1 DEF ExecutionQueue, ApprovalTypeOK
<1> QED
  BY <1>1, <1>2 DEF Approvers, TypeOK

LEMMA StepHolds == IInv /\ [Next]_vars => IInv'
<1> SUFFICES ASSUME IInv, [Next]_vars PROVE IInv'
  OBVIOUS
<1>1. ApprovalInv'
  BY ApprovalsAreApart, ApprovalStep DEF IInv
<1>2. CASE Approvers
  BY <1>1, <1>2, ApproversStep, ApproversTypes DEF IInv
<1>3. CASE \E e \in Executors :
         \/ Load(e) \/ Check(e) \/ LoadForAppend(e) \/ AppendRaises(e)
         \/ Persist(e) \/ CallSucceeds(e) \/ CallFails(e) \/ Die(e)
  BY <1>1, <1>3, ExecutorTypes, LoadStep, CheckStep, LoadForAppendStep, EndStep, PersistStep,
     CallSucceedsStep, CallFailsStep DEF IInv
<1>4. CASE \E r \in Runs : CloseRead(r) \/ CloseWrite(r)
  BY <1>1, <1>4, OwnerTypes, CloseReadStep, CloseWriteStep DEF IInv
<1>5. CASE UNCHANGED vars
  <2>1. /\ runs' = runs /\ work' = work /\ owner' = owner /\ effects' = effects
        /\ granted' = granted /\ overwritten' = overwritten /\ unsettled' = unsettled
        /\ planned' = planned /\ asked' = asked
    BY <1>5 DEF vars, approvalVars, executorVars
  <2>2. TypeOK'
    BY <1>1, <2>1 DEF IInv, TypeOK, ApprovalInv
  <2>3. ExecutorsAreBacked' /\ GrantsAreApprovals'
    BY <2>1 DEF IInv, ExecutionInv, ExecutorsAreBacked, Working, StageFits, Backed, Called, Recorded,
                GrantsAreApprovals, ExecutionQueue
  <2>4. OwnersTellTheTruth' /\ RunsTellTheTruth' /\ WritesWereApproved' /\ EffectsWerePlanned'
    BY <2>1 DEF IInv, ExecutionInv, OwnersTellTheTruth, RunsTellTheTruth, WritesWereApproved,
                EffectsWerePlanned, Recorded
  <2>5. EffectsAreAccounted'
    BY <2>1 DEF IInv, ExecutionInv, EffectsAreAccounted, Accounted, On, Working, InBooks, Balanced,
                Recorded
  <2> QED
    BY <1>1, <2>2, <2>3, <2>4, <2>5 DEF IInv, ExecutionInv
<1> QED
  BY <1>2, <1>3, <1>4, <1>5 DEF Next

LEMMA Invariant == Spec => []IInv
BY InitHolds, StepHolds, PTL DEF Spec

\* Every variable keeps its type.
THEOREM TypeCorrect == Spec => []TypeOK
BY Invariant, PTL DEF IInv

\* No write takes effect that needs no approval, or that nobody approved.
THEOREM WritesAreApproved == Spec => []WritesWereApproved
<1>1. IInv => WritesWereApproved
  BY DEF IInv, ExecutionInv
<1> QED
  BY <1>1, Invariant, PTL

\* The plan is in the run before the effect, unless a stale record replaced the run.
THEOREM EffectsArePlanned == Spec => []EffectsWerePlanned
<1>1. IInv => EffectsWerePlanned
  BY DEF IInv, ExecutionInv
<1> QED
  BY <1>1, Invariant, PTL

\* What a run shows as executed took effect, and each effect is shown, and is the
\* only one, but for overlaps, lost results and overwritten runs.
THEOREM EffectsAreRecorded == Spec => []EffectsAreRecordedOnce
<1>1. IInv => EffectsAreRecordedOnce
  <2> SUFFICES ASSUME IInv, NEW r \in Runs, NEW k \in Keys
               PROVE  /\ Recorded(r, k, "executed") => effects[<<r, k>>] > 0
                      /\ (~InFlight(<<r, k>>) /\ r \notin overwritten /\ <<r, k>> \notin unsettled) =>
                            /\ effects[<<r, k>>] > 0 <=> Recorded(r, k, "executed")
                            /\ effects[<<r, k>>] <= 1
    BY DEF EffectsAreRecordedOnce
  <2>1. Recorded(r, k, "executed") => effects[<<r, k>>] > 0
    BY DEF IInv, ExecutionInv, RunsTellTheTruth
  <2>2. ASSUME ~InFlight(<<r, k>>), r \notin overwritten, <<r, k>> \notin unsettled
        PROVE  Balanced(r, k)
    <3>1. \A e \in Executors : ~On(e, r, k)
      BY <2>2 DEF InFlight, AttemptOf, On, Working
    <3> QED
      BY <2>2, <3>1 DEF IInv, ExecutionInv, EffectsAreAccounted, Accounted
  <2> QED
    BY <2>1, <2>2 DEF Balanced
<1> QED
  BY <1>1, Invariant, PTL
=============================================================================
