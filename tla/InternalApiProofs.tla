-------------------------- MODULE InternalApiProofs --------------------------
(***************************************************************************)
(* Theorems about InternalApi for any number of requests and scripts, and  *)
(* any list of what a request may ask.                                     *)
(***************************************************************************)
EXTENDS InternalApi, CaseStoreProofs, FiniteSetTheorems

-----------------------------------------------------------------------------
(***************************************************************************)
(* One request at a time moves.                                            *)
(***************************************************************************)
IsRequest(x) ==
    x = [pc |-> x.pc, ask |-> x.ask, code |-> x.code, read |-> x.read,
         overtaken |-> x.overtaken]

\* Every request is a record with these five fields, whatever it has read.
Requested ==
    /\ DOMAIN req = Requests
    /\ \A r \in Requests : IsRequest(req[r])

\* How far u is, what it asks and its answer stay as they are.
Rests(u) == req'[u].pc = req[u].pc /\ req'[u].ask = req[u].ask /\ req'[u].code = req[u].code

\* r gets there, the other requests rest.
Becomes(r, pc, ask, code) ==
    /\ req'[r].pc = pc /\ req'[r].ask = ask /\ req'[r].code = code
    /\ \A u \in Requests \ {r} : Rests(u)

LEMMA AnswerBecomes ==
    ASSUME Requested, NEW r \in Requests, NEW code, Answer(r, code)
    PROVE  Becomes(r, "answered", req[r].ask, code) /\ Requested'
<1>1. /\ DOMAIN req' = Requests
      /\ req'[r] = [req[r] EXCEPT !.pc = "answered", !.code = code]
      /\ \A u \in Requests \ {r} : req'[u] = req[u]
  BY DEF Answer, Requested
<1>2. IsRequest(req[r])
  BY DEF Requested
<1>3. /\ IsRequest(req'[r])
      /\ req'[r].pc = "answered" /\ req'[r].ask = req[r].ask /\ req'[r].code = code
  BY <1>1, <1>2 DEF IsRequest
<1> QED
  BY <1>1, <1>3 DEF Becomes, Requested, Rests

LEMMA GoBecomes ==
    ASSUME Requested, NEW r \in Requests, NEW pc, Go(r, pc)
    PROVE  Becomes(r, pc, req[r].ask, req[r].code) /\ Requested'
BY DEF Go, Becomes, Requested, IsRequest, Rests

LEMMA ArrivesBecomes ==
    ASSUME Requested, NEW r \in Requests, NEW ask, NEW pc, NEW code,
           Arrives(r, ask, pc, code)
    PROVE  Becomes(r, pc, ask, code) /\ Requested' /\ req[r].pc = "idle"
<1>1. /\ DOMAIN req' = Requests
      /\ req'[r] = [req[r] EXCEPT !.pc = pc, !.code = code, !.ask = ask]
      /\ \A u \in Requests \ {r} : req'[u] = req[u]
  BY DEF Arrives, Requested
<1>2. IsRequest(req[r]) /\ req[r].pc = "idle"
  BY DEF Requested, Arrives, At
<1>3. /\ IsRequest(req'[r])
      /\ req'[r].pc = pc /\ req'[r].ask = ask /\ req'[r].code = code
  BY <1>1, <1>2 DEF IsRequest
<1> QED
  BY <1>1, <1>2, <1>3 DEF Becomes, Requested, Rests

\* A commit marks the readers it overtakes and nothing else.
LEMMA OvertakeMarks ==
    ASSUME NEW asked, NEW r \in Requests, IsRequest(asked[r])
    PROVE  /\ Overtake(asked)[r].pc = asked[r].pc
           /\ Overtake(asked)[r].ask = asked[r].ask
           /\ Overtake(asked)[r].code = asked[r].code
           /\ Overtake(asked)[r].read = asked[r].read
           /\ IsRequest(Overtake(asked)[r])
BY DEF Overtake, IsRequest

LEMMA OvertakeRests ==
    ASSUME Requested, req' = Overtake(req)
    PROVE  Requested' /\ \A u \in Requests : Rests(u)
<1>1. DOMAIN req' = Requests
  BY DEF Overtake
<1> QED
  BY <1>1, OvertakeMarks DEF Requested, Rests

LEMMA WriteBecomes ==
    ASSUME Requested, NEW r \in Requests, Write(r)
    PROVE  Becomes(r, "answered", req[r].ask, 200) /\ Requested' /\ req[r].pc = "writing"
<1> DEFINE asked == [req EXCEPT ![r].pc = "answered", ![r].code = 200]
<1>1. /\ asked[r].pc = "answered" /\ asked[r].ask = req[r].ask /\ asked[r].code = 200
      /\ \A u \in Requests \ {r} : asked[u] = req[u]
      /\ \A u \in Requests : IsRequest(asked[u])
  <2>1. /\ asked[r] = [req[r] EXCEPT !.pc = "answered", !.code = 200]
        /\ \A u \in Requests \ {r} : asked[u] = req[u]
    BY DEF Requested
  <2> HIDE DEF asked
  <2>2. IsRequest(req[r])
    BY DEF Requested
  <2>3. /\ IsRequest(asked[r])
        /\ asked[r].pc = "answered" /\ asked[r].ask = req[r].ask /\ asked[r].code = 200
    BY <2>1, <2>2 DEF IsRequest
  <2> QED
    BY <2>1, <2>3 DEF Requested
<1>2. req' = Overtake(asked) /\ req[r].pc = "writing"
  BY DEF Write, At
<1> HIDE DEF asked
<1>3. DOMAIN req' = Requests
  BY <1>2 DEF Overtake
<1>4. \A u \in Requests : /\ req'[u].pc = asked[u].pc
                          /\ req'[u].ask = asked[u].ask
                          /\ req'[u].code = asked[u].code
                          /\ IsRequest(req'[u])
  BY <1>1, <1>2, OvertakeMarks
<1> QED
  BY <1>1, <1>2, <1>3, <1>4 DEF Becomes, Requested, Rests

LEMMA ReadBriefRests ==
    ASSUME Requested, NEW r \in Requests, ReadBrief(r)
    PROVE  Requested' /\ \A u \in Requests : Rests(u)
<1> DEFINE list == Append(req[r].read, Read(Asked(r).business, Len(req[r].read) + 1))
<1>1. req' = [req EXCEPT ![r].read = list]
  BY DEF ReadBrief
<1> HIDE DEF list
<1>2. /\ DOMAIN req' = Requests
      /\ req'[r] = [req[r] EXCEPT !.read = list]
      /\ \A u \in Requests \ {r} : req'[u] = req[u]
  BY <1>1 DEF Requested
<1>3. IsRequest(req'[r]) /\ Rests(r)
  BY <1>2 DEF Requested, IsRequest, Rests
<1> QED
  BY <1>2, <1>3 DEF Requested, Rests

-----------------------------------------------------------------------------
(***************************************************************************)
(* What a request has shown by the time it gets somewhere.                 *)
(***************************************************************************)
\* It may change cases of its business.
Trusted(ask) ==
    /\ ask.token = "valid"
    /\ InScope(ask)
    /\ MayDo(ask, "case:action")
    /\ ask.key \in ActionKeys

Passed(r) ==
    /\ \A route \in {"action", "brief", "audit"} :
          req[r].pc = route => /\ Asked(r).route = route
                               /\ Asked(r).token = "valid"
                               /\ Authorized(Asked(r))
    /\ req[r].pc \in {"scoped", "writing"} => Asked(r).route = "action" /\ Trusted(Asked(r))

AllPassed == Requested /\ \A r \in Requests : Passed(r)

LEMMA RestsPassed ==
    ASSUME NEW u \in Requests, Rests(u), Passed(u)
    PROVE  Passed(u)'
BY DEF Rests, Passed, Asked

\* A step of a request: where it was, where it gets, and what becomes of the
\* table.  Only Load, Write and Fail touch the store.
RequestStep(r) ==
    \/ \E ask \in Asks : Unauthenticated(r, ask) \/ Forbidden(r, ask) \/ Admitted(r, ask)
    \/ NotAllowed(r) \/ BadRequest(r) \/ Scope(r)
    \/ Vanished(r) \/ Conflict(r) \/ Load(r) \/ Write(r) \/ Fail(r)
    \/ ReadBrief(r) \/ AnswerBrief(r) \/ ReadAudit(r)

ScriptStep(s) == LookUp(s) \/ Detect(s) \/ Store(s)

\* What a request that is let in, or turned away, comes to.
Arrival(r) ==
    \E ask \in Asks :
       /\ req[r].pc = "idle"
       /\ \/ Becomes(r, "answered", ask, 401)
             /\ \/ UNCHANGED audit
                \/ audit' = audit \cup {Entry(r, "authentication")}
          \/ Becomes(r, "answered", ask, 403) /\ audit' = audit \cup {Entry(r, "authorization")}
          \/ Becomes(r, "answered", ask, 500) /\ UNCHANGED audit
          \/ /\ ask.token = "valid" /\ Authorized(ask)
             /\ Becomes(r, ask.route, ask, 0) /\ UNCHANGED audit

\* It is refused, and the refusal entered or not.
Refusal(r) ==
    /\ req[r].pc \in {"action", "scoped"}
    /\ \/ /\ \E code \in {400, 403, 404, 409} : Becomes(r, "answered", req[r].ask, code)
          /\ \E type \in {"case_action.denied", "case_action.failed"} :
                audit' = audit \cup {Entry(r, type)}
       \/ Becomes(r, "answered", req[r].ask, 500) /\ UNCHANGED audit

LEMMA ArrivalStep ==
    ASSUME Requested, NEW r \in Requests, NEW ask \in Asks,
           Unauthenticated(r, ask) \/ Forbidden(r, ask) \/ Admitted(r, ask)
    PROVE  Arrival(r) /\ Requested' /\ TableUnchanged
<1>1. CASE Unauthenticated(r, ask)
  <2>1. Becomes(r, "answered", ask, 401) /\ Requested' /\ req[r].pc = "idle"
    BY <1>1, ArrivesBecomes DEF Unauthenticated
  <2> QED
    BY <1>1, <2>1 DEF Unauthenticated, Arrival
<1>2. CASE Forbidden(r, ask)
  <2>1. CASE audit' = audit \cup {Entry(r, "authorization")} /\ Arrives(r, ask, "answered", 403)
    BY <1>2, <2>1, ArrivesBecomes DEF Forbidden, Arrival
  <2>2. CASE UNCHANGED audit /\ Arrives(r, ask, "answered", 500)
    BY <1>2, <2>2, ArrivesBecomes DEF Forbidden, Arrival
  <2> QED
    BY <1>2, <2>1, <2>2 DEF Forbidden
<1>3. CASE Admitted(r, ask)
  BY <1>3, ArrivesBecomes DEF Admitted, Arrival
<1> QED
  BY <1>1, <1>2, <1>3

LEMMA RefuseStep ==
    ASSUME Requested, NEW r \in Requests, req[r].pc \in {"action", "scoped"},
           NEW code \in {400, 403, 404, 409},
           NEW type \in {"case_action.denied", "case_action.failed"}, Refuse(r, code, type)
    PROVE  Refusal(r) /\ Requested' /\ TableUnchanged
<1>1. CASE audit' = audit \cup {Entry(r, type)} /\ Answer(r, code)
  BY <1>1, AnswerBecomes DEF Refuse, Refusal
<1>2. CASE UNCHANGED audit /\ Answer(r, 500)
  BY <1>2, AnswerBecomes DEF Refuse, Refusal
<1> QED
  BY <1>1, <1>2 DEF Refuse

LEMMA RefusalStep ==
    ASSUME Requested, NEW r \in Requests, NotAllowed(r) \/ BadRequest(r) \/ Conflict(r)
    PROVE  Refusal(r) /\ Requested' /\ TableUnchanged
<1>1. CASE NotAllowed(r)
  BY <1>1, RefuseStep DEF NotAllowed, At
<1>2. CASE BadRequest(r)
  BY <1>2, RefuseStep DEF BadRequest, At
<1>3. CASE Conflict(r)
  BY <1>3, RefuseStep DEF Conflict, At
<1> QED
  BY <1>1, <1>2, <1>3

\* The request is in scope, and its case was there a moment ago.
Scoped(r) ==
    /\ req[r].pc = "action"
    /\ Becomes(r, "scoped", req[r].ask, req[r].code)
    /\ UNCHANGED audit
    /\ MayDo(Asked(r), "case:action")
    /\ Asked(r).key \in ActionKeys
    /\ Belongs(r)

LEMMA ScopeStep ==
    ASSUME Requested, NEW r \in Requests, Scope(r)
    PROVE  (Refusal(r) \/ Scoped(r)) /\ Requested' /\ TableUnchanged
<1>0. req[r].pc = "action"
  BY DEF Scope, At
<1>1. CASE Refuse(r, 404, "case_action.failed") \/ Refuse(r, 400, "case_action.failed")
  BY <1>0, <1>1, RefuseStep
<1>2. CASE Belongs(r) /\ Go(r, "scoped") /\ UNCHANGED audit /\ TableUnchanged
  BY <1>0, <1>2, GoBecomes DEF Scope, Scoped
<1> QED
  BY <1>1, <1>2 DEF Scope

\* It is done, without a write of its own.
Done(r) ==
    /\ \/ req[r].pc \in {"scoped", "writing", "brief"} /\ Becomes(r, "answered", req[r].ask, 500)
       \/ req[r].pc \in {"brief", "audit"} /\ Becomes(r, "answered", req[r].ask, 200)
    /\ UNCHANGED <<cases, issued, now, audit, tally, torn>>

LEMMA DoneStep ==
    ASSUME Requested, NEW r \in Requests,
           Vanished(r) \/ Fail(r) \/ AnswerBrief(r) \/ ReadAudit(r)
    PROVE  Done(r) /\ Requested'
<1>1. CASE Vanished(r)
  BY <1>1, AnswerBecomes DEF Vanished, Done, At, TableUnchanged
<1>2. CASE Fail(r)
  BY <1>2, AnswerBecomes DEF Fail, Done, At
<1>3. CASE AnswerBrief(r)
  BY <1>3, AnswerBecomes DEF AnswerBrief, Done, At, TableUnchanged
<1>4. CASE ReadAudit(r)
  BY <1>4, AnswerBecomes DEF ReadAudit, Done, At, TableUnchanged
<1> QED
  BY <1>1, <1>2, <1>3, <1>4

\* The draft of a write.
Loaded(r) ==
    /\ req[r].pc = "scoped"
    /\ Becomes(r, "writing", req[r].ask, req[r].code)
    /\ UNCHANGED <<cases, audit, tally, torn>>

Written(r) ==
    /\ req[r].pc = "writing"
    /\ Becomes(r, "answered", req[r].ask, 200)
    /\ UNCHANGED <<audit, tally>>

LEMMA RequestMoves ==
    ASSUME Requested, NEW r \in Requests, RequestStep(r)
    PROVE  /\ Requested'
           /\ \/ (Arrival(r) \/ Refusal(r) \/ Scoped(r)) /\ TableUnchanged
              \/ Done(r)
              \/ Load(r) /\ Loaded(r)
              \/ Write(r) /\ Written(r)
              \/ (\A u \in Requests : Rests(u)) /\ UNCHANGED audit /\ TableUnchanged
<1>1. CASE \E ask \in Asks : Unauthenticated(r, ask) \/ Forbidden(r, ask) \/ Admitted(r, ask)
  BY <1>1, ArrivalStep
<1>2. CASE NotAllowed(r) \/ BadRequest(r) \/ Conflict(r)
  BY <1>2, RefusalStep
<1>3. CASE Scope(r)
  BY <1>3, ScopeStep
<1>4. CASE Vanished(r) \/ Fail(r) \/ AnswerBrief(r) \/ ReadAudit(r)
  BY <1>4, DoneStep
<1>5. CASE Load(r)
  <2>1. Becomes(r, "writing", req[r].ask, req[r].code) /\ Requested'
    BY <1>5, GoBecomes DEF Load
  <2>2. UNCHANGED cases /\ req[r].pc = "scoped"
    BY <1>5 DEF Load, DraftFrom, At
  <2> QED
    BY <1>5, <2>1, <2>2 DEF Load, Loaded
<1>6. CASE Write(r)
  BY <1>6, WriteBecomes DEF Write, Written
<1>7. CASE ReadBrief(r)
  BY <1>7, ReadBriefRests DEF ReadBrief
<1> QED
  BY <1>1, <1>2, <1>3, <1>4, <1>5, <1>6, <1>7 DEF RequestStep

LEMMA ScriptMoves ==
    ASSUME Requested, NEW s \in Scripts, ScriptStep(s)
    PROVE  Requested' /\ (\A u \in Requests : Rests(u)) /\ UNCHANGED audit
<1>0. UNCHANGED audit
  BY DEF ScriptStep, LookUp, Detect, Store
<1>1. CASE Store(s)
  BY <1>0, <1>1, OvertakeRests DEF Store
<1>2. CASE req' = req
  <2>1. Requested'
    BY <1>2 DEF Requested
  <2>2. \A u \in Requests : Rests(u)
    BY <1>2 DEF Rests
  <2> QED
    BY <1>0, <2>1, <2>2
<1>3. Store(s) \/ req' = req
  BY DEF ScriptStep, LookUp, Detect
<1> QED
  BY <1>1, <1>2, <1>3

LEMMA InitPassed == ApiInit => AllPassed
<1> SUFFICES ASSUME ApiInit PROVE AllPassed
  OBVIOUS
<1>1. DOMAIN req = Requests
  BY DEF ApiInit
<1>2. \A r \in Requests : req[r] = [pc |-> "idle", ask |-> NoAsk, code |-> 0,
                                  read |-> <<>>, overtaken |-> FALSE]
  BY DEF ApiInit
<1> QED
  BY <1>1, <1>2 DEF AllPassed, Requested, IsRequest, Passed

LEMMA BecomesPassed ==
    ASSUME AllPassed, Requested', NEW r \in Requests, NEW pc, NEW ask, NEW code,
           Becomes(r, pc, ask, code), Passed(r)'
    PROVE  AllPassed'
<1>1. \A u \in Requests \ {r} : Passed(u)'
  BY RestsPassed DEF AllPassed, Becomes
<1> QED
  BY <1>1 DEF AllPassed

LEMMA NextPassed ==
    ASSUME AllPassed, [ApiNext]_apiVars
    PROVE  AllPassed'
<1>0. Requested /\ \A r \in Requests : Passed(r)
  BY DEF AllPassed
<1>1. ASSUME NEW r \in Requests, RequestStep(r)
      PROVE  AllPassed'
  <2>0. Requested'
    BY <1>0, <1>1, RequestMoves
  <2>1. CASE Arrival(r)
    <3>1. PICK ask \in Asks :
             \/ \E code \in {401, 403, 500} : Becomes(r, "answered", ask, code)
             \/ /\ ask.token = "valid" /\ Authorized(ask)
                /\ Becomes(r, ask.route, ask, 0)
      BY <2>1 DEF Arrival
    <3>2. Passed(r)'
      BY <3>1, RequestAssumption DEF Becomes, Passed, Asked
    <3> QED
      BY <2>0, <3>1, <3>2, BecomesPassed
  <2>2. ASSUME NEW code, Becomes(r, "answered", req[r].ask, code) PROVE AllPassed'
    <3>1. Passed(r)'
      BY <2>2 DEF Becomes, Passed, Asked
    <3> QED
      BY <2>0, <2>2, <3>1, BecomesPassed
  <2>3. CASE Scoped(r)
    <3>1. Trusted(Asked(r)) /\ Asked(r).route = "action"
      BY <1>0, <2>3 DEF Scoped, Trusted, Passed, Authorized
    <3>2. Passed(r)'
      BY <2>3, <3>1 DEF Scoped, Becomes, Passed, Asked
    <3> QED
      BY <2>0, <2>3, <3>2, BecomesPassed DEF Scoped
  <2>4. CASE Loaded(r)
    <3>1. Passed(r)'
      BY <1>0, <2>4 DEF Loaded, Becomes, Passed, Asked
    <3> QED
      BY <2>0, <2>4, <3>1, BecomesPassed DEF Loaded
  <2>5. CASE \A u \in Requests : Rests(u)
    <3>1. \A u \in Requests : Passed(u)'
      BY <1>0, <2>5, RestsPassed
    <3> QED
      BY <2>0, <3>1 DEF AllPassed
  <2> QED
    BY <1>0, <1>1, <2>1, <2>2, <2>3, <2>4, <2>5, RequestMoves DEF Refusal, Done, Written
<1>2. ASSUME NEW s \in Scripts, ScriptStep(s)
      PROVE  AllPassed'
  <2>1. Requested' /\ \A u \in Requests : Rests(u)
    BY <1>0, <1>2, ScriptMoves
  <2>2. \A u \in Requests : Passed(u)'
    BY <1>0, <2>1, RestsPassed
  <2> QED
    BY <2>1, <2>2 DEF AllPassed
<1>3. CASE UNCHANGED apiVars
  <2>1. Requested' /\ \A u \in Requests : Rests(u)
    BY <1>0, <1>3 DEF apiVars, Requested, IsRequest, Rests
  <2>2. \A u \in Requests : Passed(u)'
    BY <1>0, <2>1, RestsPassed
  <2> QED
    BY <2>1, <2>2 DEF AllPassed
<1> QED
  BY <1>1, <1>2, <1>3 DEF ApiNext, RequestStep, ScriptStep

LEMMA PassedAlways == ApiSpec => []AllPassed
BY InitPassed, NextPassed, PTL DEF ApiSpec

-----------------------------------------------------------------------------
(***************************************************************************)
(* The API is one more user of the case store.                             *)
(***************************************************************************)
\* What an action computes is what an operator of CaseStore may draft.
LEMMA LoadFollows ==
    ASSUME TypeOK, AllPassed, NEW r \in Requests, Load(r)
    PROVE  DraftTransition(r) \/ DraftComment(r) \/ DraftAssignment(r)
<1> DEFINE c == Asked(r).case
           key == Asked(r).key
<1>1. c \in DOMAIN cases /\ Permitted(cases[c], key)
  BY DEF Load
<1>2. PICK row \in Mutated(cases[c], key) : DraftFrom(r, c, row)
  BY DEF Load
<1>3. key \in ActionKeys
  BY DEF Load, At, AllPassed, Passed, Trusted
<1>4. cases[c].status \in Statuses
  BY <1>1 DEF TypeOK, Row
<1> HIDE DEF c, key
<1>5. CASE key = "add_comment"
  BY <1>1, <1>2, <1>5 DEF Mutated, DraftComment
<1>6. CASE key = "assign_owner"
  BY <1>1, <1>2, <1>6 DEF Mutated, Permitted, DraftAssignment
<1>7. CASE key \in DOMAIN Targets
  <2>1. key # "add_comment" /\ key # "assign_owner" /\ Targets[key] \in Statuses
    BY <1>7 DEF Targets, Statuses
  <2>2. /\ Targets[key] \in Transitions[cases[c].status]
        /\ row = Transitioned(cases[c], Targets[key], now)
    BY <1>1, <1>2, <2>1 DEF Permitted, Mutated
  <2>3. Targets[key] # cases[c].status
    BY <1>4, <2>2 DEF Statuses, Transitions
  <2> QED
    BY <1>1, <1>2, <2>1, <2>2, <2>3 DEF DraftTransition
<1> QED
  BY <1>3, <1>5, <1>6, <1>7 DEF ActionKeys

\* A request that fails gives up its draft, if it has one.
LEMMA FailFollows ==
    ASSUME TypeOK, NEW r \in Requests, Fail(r)
    PROVE  Abandon(r) \/ UNCHANGED vars
<1>1. /\ work' = [work EXCEPT ![r] = Idle]
      /\ overlapped' = overlapped \ {r}
      /\ UNCHANGED <<cases, issued, now>>
  BY DEF Fail
<1>2. r \in Workers
  BY RequestAssumption
<1>3. CASE work[r].pc = "idle"
  <2>1. work[r] = Idle /\ r \notin overlapped
    BY <1>2, <1>3 DEF TypeOK, Idle, Detecting, Draft
  <2>2. work' = work /\ overlapped' = overlapped
    BY <1>1, <1>2, <2>1 DEF TypeOK
  <2> QED
    BY <1>1, <2>2 DEF vars
<1>4. CASE work[r].pc # "idle"
  BY <1>1, <1>4 DEF Abandon
<1> QED
  BY <1>3, <1>4

LEMMA ApiStep ==
    ASSUME TypeOK, AllPassed, [ApiNext]_apiVars
    PROVE  [Next]_vars
<1>0. Requests \subseteq Workers /\ Scripts \subseteq Workers /\ Requested
  BY RequestAssumption DEF Scripts, AllPassed
<1>1. ASSUME NEW r \in Requests, RequestStep(r)
      PROVE  [Next]_vars
  <2>1. CASE Load(r)
    BY <1>0, <2>1, LoadFollows DEF Next
  <2>2. CASE Write(r)
    BY <1>0, <2>2 DEF Write, Next
  <2>3. CASE Fail(r)
    BY <1>0, <2>3, FailFollows DEF Next
  <2>4. CASE TableUnchanged
    BY <2>4 DEF TableUnchanged, vars
  <2>5. Load(r) \/ Write(r) \/ Fail(r) \/ TableUnchanged
    BY <1>1 DEF RequestStep, Unauthenticated, Forbidden, Admitted, NotAllowed, BadRequest,
       Scope, Vanished, Conflict, Refuse, ReadBrief, AnswerBrief, ReadAudit
  <2> QED
    BY <2>1, <2>2, <2>3, <2>4, <2>5
<1>2. ASSUME NEW s \in Scripts, ScriptStep(s)
      PROVE  [Next]_vars
  <2>1. CASE LookUp(s)
    BY <2>1 DEF LookUp, vars
  <2>2. CASE Detect(s)
    BY <1>0, <2>2 DEF Detect, Next
  <2>3. CASE Store(s)
    BY <1>0, <2>3 DEF Store, Next
  <2> QED
    BY <1>2, <2>1, <2>2, <2>3 DEF ScriptStep
<1>3. CASE UNCHANGED apiVars
  BY <1>3 DEF apiVars, vars
<1> QED
  BY <1>1, <1>2, <1>3 DEF ApiNext, RequestStep, ScriptStep

LEMMA StoreInvariants == ApiSpec => [](IInv /\ DraftsFit)
<1>1. ApiInit => IInv /\ DraftsFit
  BY InitIInv, InitFits DEF ApiInit
<1>2. IInv /\ DraftsFit /\ AllPassed /\ [ApiNext]_apiVars => (IInv /\ DraftsFit)'
  BY ApiStep, NextIInv, NextFits DEF IInv
<1> QED
  BY <1>1, <1>2, PassedAlways, PTL DEF ApiSpec

\* Whatever requests and scripts do, what becomes of the case table is a behaviour
\* of CaseStore: each action of an operator is one of its drafts and one of its
\* commits, each failure an abandoned draft, everything else is invisible there.  So
\* what is proved of CaseStore holds under the API.
THEOREM ApiFollowsStore == ApiSpec => Spec
<1>1. ApiInit => Init
  BY DEF ApiInit
<1>2. IInv /\ DraftsFit /\ AllPassed /\ [ApiNext]_apiVars => [Next]_vars
  BY ApiStep DEF IInv
<1> QED
  BY <1>1, <1>2, StoreInvariants, PassedAlways, PTL DEF ApiSpec, Spec

-----------------------------------------------------------------------------
(***************************************************************************)
(* The case of an action stays one of its business.                        *)
(***************************************************************************)
\* Whatever is stored or about to be stored under the id belongs to the business.
OfBusiness(c, b) ==
    /\ c \in DOMAIN cases => Business[cases[c].key] = b
    /\ \A w \in Workers : Drafted(w) /\ work[w].id = c => Business[work[w].row.key] = b

LEMMA OfBusinessStays ==
    ASSUME IInv, [Next]_vars, NEW c \in issued, NEW b, OfBusiness(c, b)
    PROVE  OfBusiness(c, b)' /\ c \in issued'
<1>0. /\ TypeOK
      /\ \A w \in Workers : Drafted(w) /\ work[w].id = c => Business[work[w].row.key] = b
      /\ c \in DOMAIN cases => Business[cases[c].key] = b
  BY DEF IInv, OfBusiness
<1>1. ASSUME NEW w \in Workers,
             DraftNewCase(w) \/ DraftRedetection(w) \/ DraftTransition(w)
                \/ DraftComment(w) \/ DraftAssignment(w)
      PROVE  OfBusiness(c, b)' /\ c \in issued'
  <2>1. PICK id \in Ids, row \in Row : Drafts(w, id, row)
    BY <1>0, <1>1, DraftingActions
  <2>2. PICK d \in BOOLEAN : work' = [work EXCEPT ![w] = MkDraft(id, row, d)]
    BY <2>1 DEF Drafts
  <2>3. /\ work'[w].id = id /\ work'[w].row = row
        /\ \A v \in Workers \ {w} : work'[v] = work[v]
    BY <1>0, <2>2 DEF TypeOK, MkDraft
  <2>4. cases' = cases /\ c \in issued'
    BY <2>1 DEF Drafts
  <2>5. id = c => Business[row.key] = b
    BY <1>0, <2>1 DEF Drafts, Grown
  <2>6. \A v \in Workers : Drafted(v)' /\ work'[v].id = c => Business[work'[v].row.key] = b
    BY <1>0, <2>3, <2>5 DEF Drafted
  <2> QED
    BY <1>0, <2>4, <2>6 DEF OfBusiness
<1>2. ASSUME NEW w \in Workers, Persist(w)
      PROVE  OfBusiness(c, b)' /\ c \in issued'
  <2>1. \A v \in Workers : Drafted(v)' => Drafted(v) /\ work'[v] = work[v]
    BY <1>0, <1>2 DEF Persist, TypeOK, Drafted, Idle
  <2>2. c \in DOMAIN cases' => Business[cases'[c].key] = b
    BY <1>0, <1>2 DEF Persist, Replace, Drafted
  <2>3. c \in issued'
    BY <1>2 DEF Persist
  <2> QED
    BY <1>0, <2>1, <2>2, <2>3 DEF OfBusiness
<1>3. ASSUME NEW w \in Workers,
             StartDetection(w) \/ RejectRedetection(w) \/ Abandon(w)
      PROVE  OfBusiness(c, b)' /\ c \in issued'
  <2>1. \A v \in Workers : Drafted(v)' => Drafted(v) /\ work'[v] = work[v]
    BY <1>0, <1>3 DEF StartDetection, RejectRedetection, Abandon, TypeOK, Idle, Drafted
  <2>2. UNCHANGED <<cases, issued>>
    BY <1>3 DEF StartDetection, RejectRedetection, Abandon
  <2> QED
    BY <1>0, <2>1, <2>2 DEF OfBusiness
<1>4. CASE Tick \/ UNCHANGED vars
  BY <1>0, <1>4 DEF Tick, vars, OfBusiness, Drafted
<1> QED
  BY <1>1, <1>2, <1>3, <1>4 DEF Next

\* A step of one worker leaves the work of the others alone.
LEMMA OwnWork ==
    ASSUME TypeOK, NEW w \in Workers,
           (w \in Requests /\ RequestStep(w)) \/ (w \in Scripts /\ ScriptStep(w))
    PROVE  \A v \in Workers \ {w} : work'[v] = work[v]
<1>1. CASE RequestStep(w)
  <2>1. TableUnchanged \/ Load(w) \/ Write(w) \/ Fail(w)
    BY <1>1 DEF RequestStep, Unauthenticated, Forbidden, Admitted, NotAllowed, BadRequest,
       Scope, Vanished, Conflict, Refuse, ReadBrief, AnswerBrief, ReadAudit
  <2>2. work' = work \/ \E job : work' = [work EXCEPT ![w] = job]
    BY <2>1 DEF TableUnchanged, Load, DraftFrom, Write, Persist, Fail
  <2> QED
    BY <2>2 DEF TypeOK
<1>2. CASE ScriptStep(w)
  <2>1. work' = work \/ \E job : work' = [work EXCEPT ![w] = job]
    BY <1>2 DEF ScriptStep, LookUp, Detect, StartDetection, DraftNewCase, DraftRedetection,
       Store, Persist
  <2> QED
    BY <2>1 DEF TypeOK
<1> QED
  BY <1>1, <1>2

\* The request is on its way to a write in its scope.
OnItsWay(r) ==
    /\ req[r].pc \in {"scoped", "writing"} =>
          Asked(r).case \in issued /\ OfBusiness(Asked(r).case, Asked(r).business)
    /\ req[r].pc = "writing" => Drafted(r) /\ work[r].id = Asked(r).case

ScopeKept == \A r \in Requests : OnItsWay(r)

\* The invariant so far.
ApiInv == IInv /\ AllPassed /\ ScopeKept

\* A request that rests, or got no further, is still on its way.
LEMMA StaysOnItsWay ==
    ASSUME IInv, [Next]_vars, NEW r \in Requests, OnItsWay(r),
           req'[r].ask = req[r].ask,
           req'[r].pc = req[r].pc \/ req'[r].pc \notin {"scoped", "writing"},
           work'[r] = work[r] \/ req'[r].pc # "writing"
    PROVE  OnItsWay(r)'
<1>1. req'[r].pc \in {"scoped", "writing"} =>
         Asked(r)'.case \in issued' /\ OfBusiness(Asked(r).case, Asked(r).business)'
  <2> SUFFICES ASSUME req'[r].pc \in {"scoped", "writing"}
               PROVE  Asked(r)'.case \in issued' /\ OfBusiness(Asked(r).case, Asked(r).business)'
    OBVIOUS
  <2>1. PICK c, b : c = Asked(r).case /\ b = Asked(r).business
    OBVIOUS
  <2>2. c \in issued /\ OfBusiness(c, b)
    BY <2>1 DEF OnItsWay
  <2>3. OfBusiness(c, b)' /\ c \in issued'
    BY <2>2, OfBusinessStays
  <2>4. Asked(r)' = Asked(r)
    BY DEF Asked
  <2> QED
    BY <2>1, <2>3, <2>4 DEF OfBusiness
<1>2. req'[r].pc = "writing" => Drafted(r)' /\ work'[r].id = Asked(r)'.case
  BY DEF OnItsWay, Drafted, Asked
<1> QED
  BY <1>1, <1>2 DEF OnItsWay

LEMMA NextOnItsWay ==
    ASSUME ApiInv, [ApiNext]_apiVars
    PROVE  ScopeKept'
<1>0. /\ IInv /\ TypeOK /\ AllPassed /\ Requested
      /\ \A r \in Requests : OnItsWay(r)
      /\ [Next]_vars
      /\ Requests \subseteq Workers /\ Scripts \subseteq Workers
      /\ \A s \in Scripts : s \notin Requests
  BY ApiStep, RequestAssumption DEF ApiInv, IInv, AllPassed, ScopeKept, Scripts
<1>1. ASSUME NEW r \in Requests, RequestStep(r)
      PROVE  ScopeKept'
  <2>1. \A u \in Requests \ {r} : work'[u] = work[u]
    BY <1>0, <1>1, OwnWork
  <2>2. \A u \in Requests \ {r} : Rests(u)
    BY <1>0, <1>1, RequestMoves DEF Arrival, Refusal, Scoped, Done, Loaded, Written, Becomes
  <2>3. \A u \in Requests \ {r} : OnItsWay(u)'
    BY <1>0, <2>1, <2>2, StaysOnItsWay DEF Rests
  <2>4. OnItsWay(r)'
    <3>1. CASE req'[r].pc \notin {"scoped", "writing"}
      BY <3>1 DEF OnItsWay
    <3>2. CASE Scoped(r) /\ TableUnchanged
      <4>1. /\ req'[r].pc = "scoped" /\ Asked(r)' = Asked(r)
            /\ Asked(r).case \in DOMAIN cases
            /\ Business[cases[Asked(r).case].key] = Asked(r).business
        BY <3>2 DEF Scoped, Becomes, Belongs, Asked
      <4>2. Asked(r).case \in issued /\ OfBusiness(Asked(r).case, Asked(r).business)
        BY <1>0, <4>1 DEF IInv, TypeOK, IdHasOneKey, OfBusiness
      <4>3. UNCHANGED <<cases, issued, work>>
        BY <3>2 DEF TableUnchanged
      <4> QED
        BY <4>1, <4>2, <4>3 DEF OnItsWay, OfBusiness, Drafted
    <3>3. CASE Load(r) /\ Loaded(r)
      <4>1. req'[r].pc = "writing" /\ req'[r].ask = req[r].ask /\ req[r].pc = "scoped"
        BY <3>3 DEF Loaded, Becomes
      <4>2. PICK row : work' = [work EXCEPT ![r] = MkDraft(Asked(r).case, row, FALSE)]
        BY <3>3 DEF Load, DraftFrom
      <4>3. Drafted(r)' /\ work'[r].id = Asked(r).case
        BY <1>0, <4>2 DEF TypeOK, MkDraft, Drafted
      <4>4. PICK c, b : c = Asked(r).case /\ b = Asked(r).business
        OBVIOUS
      <4>5. c \in issued /\ OfBusiness(c, b)
        BY <1>0, <4>1, <4>4 DEF OnItsWay
      <4>6. c \in issued' /\ OfBusiness(c, b)'
        BY <1>0, <4>5, OfBusinessStays
      <4>7. Asked(r)' = Asked(r)
        BY <4>1 DEF Asked
      <4> QED
        BY <4>1, <4>3, <4>4, <4>6, <4>7 DEF OnItsWay, OfBusiness
    <3>4. CASE \A u \in Requests : Rests(u)
      <4>1. req'[r].ask = req[r].ask /\ req'[r].pc = req[r].pc
        BY <3>4 DEF Rests
      <4>2. CASE TableUnchanged
        BY <1>0, <4>1, <4>2, StaysOnItsWay DEF TableUnchanged
      <4>3. CASE ~TableUnchanged
        BY <1>0, <1>1, <3>1, <3>2, <3>3, <4>3, RequestMoves
           DEF Arrival, Refusal, Scoped, Done, Written, Becomes, Loaded
      <4> QED
        BY <4>2, <4>3
    <3> QED
      BY <1>0, <1>1, <3>1, <3>2, <3>3, <3>4, RequestMoves, RequestAssumption
         DEF Arrival, Refusal, Done, Written, Becomes
  <2> QED
    BY <2>3, <2>4 DEF ScopeKept
<1>2. ASSUME NEW s \in Scripts, ScriptStep(s)
      PROVE  ScopeKept'
  <2>1. \A u \in Requests : work'[u] = work[u]
    BY <1>0, <1>2, OwnWork
  <2>2. \A u \in Requests : Rests(u)
    BY <1>0, <1>2, ScriptMoves
  <2>3. \A u \in Requests : OnItsWay(u)'
    BY <1>0, <2>1, <2>2, StaysOnItsWay DEF Rests
  <2> QED
    BY <2>3 DEF ScopeKept
<1>3. CASE UNCHANGED apiVars
  <2>1. \A u \in Requests : req'[u] = req[u] /\ work'[u] = work[u]
    BY <1>3 DEF apiVars
  <2>2. \A u \in Requests : OnItsWay(u)'
    BY <1>0, <2>1, StaysOnItsWay
  <2> QED
    BY <2>2 DEF ScopeKept
<1> QED
  BY <1>1, <1>2, <1>3 DEF ApiNext, RequestStep, ScriptStep

LEMMA ApiInvariant == ApiSpec => []ApiInv
<1>1. ApiInit => ScopeKept
  BY DEF ApiInit, ScopeKept, OnItsWay
<1>2. ApiInv /\ [ApiNext]_apiVars => ScopeKept'
  BY NextOnItsWay
<1> QED
  BY <1>1, <1>2, StoreInvariants, PassedAlways, PTL DEF ApiSpec, ApiInv

\* A trusted request is granted its business, by a role that may act on cases.
LEMMA TrustedAsks ==
    ASSUME NEW ask, Trusted(ask)
    PROVE  /\ ask.grant \cap {"legacy", "*", ask.business} # {}
           /\ ask.role \in {None, "operator", "admin"}
           /\ ask.token = "valid"
<1>1. ask.grant \cap {"legacy", "*", ask.business} # {}
  BY DEF Trusted, InScope, AnyGrant
<1>2. ask.role = None \/ ask.role \in {"viewer", "operator", "admin"}
  BY DEF Trusted, MayDo, RoleOf, RolePermissions
<1>3. ask.role # "viewer"
  <2> SUFFICES ASSUME ask.role = "viewer" PROVE FALSE
    OBVIOUS
  <2>1. RoleOf(ask) = "viewer"
    BY DEF RoleOf, None
  <2>2. "case:action" \in RolePermissions["viewer"]
    BY <2>1 DEF Trusted, MayDo
  <2> QED
    BY <2>2 DEF RolePermissions, ViewerPermissions
<1> QED
  BY <1>1, <1>2, <1>3 DEF Trusted

\* Only its own write answers a writing request with a success.
LEMMA OnlyWriteSucceeds ==
    ASSUME ApiInv, [ApiNext]_apiVars, NEW r \in Requests, req[r].pc = "writing"
    PROVE  Write(r) \/ req'[r].pc # "answered" \/ req'[r].code # 200
<1>0. Requested
  BY DEF ApiInv, AllPassed
<1>1. ASSUME NEW u \in Requests, RequestStep(u)
      PROVE  Write(r) \/ req'[r].pc # "answered" \/ req'[r].code # 200
  <2>1. CASE u = r
    BY <1>0, <1>1, <2>1, RequestMoves DEF Arrival, Refusal, Scoped, Loaded, Done, Becomes, Rests
  <2>2. CASE u # r
    BY <1>0, <1>1, <2>2, RequestMoves
       DEF Arrival, Refusal, Scoped, Loaded, Written, Done, Becomes, Rests
  <2> QED
    BY <2>1, <2>2
<1>2. ASSUME NEW s \in Scripts, ScriptStep(s)
      PROVE  req'[r].pc = req[r].pc
  BY <1>0, <1>2, ScriptMoves DEF Rests
<1> QED
  BY <1>1, <1>2 DEF ApiNext, RequestStep, ScriptStep, apiVars

\* The case an operator's write changes belongs to the business of the route, and
\* the operator was granted it.
THEOREM ScopedWrites == ApiSpec => WritesStayInScope
<1> DEFINE Lawful_(r, c) ==
             \/ req'[r].pc # "answered" \/ req'[r].code # 200
             \/ c \in DOMAIN cases \cap DOMAIN cases' /\ cases[c] = cases'[c]
             \/ LET row == IF c \in DOMAIN cases THEN cases[c] ELSE cases'[c]
                IN /\ Business[row.key] = Asked(r).business
                   /\ Asked(r).grant \cap {"legacy", "*", Asked(r).business} # {}
                   /\ Asked(r).role \in {None, "operator", "admin"}
                   /\ Asked(r).token = "valid"
<1>1. ASSUME ApiInv, [ApiNext]_apiVars, NEW r \in Requests, req[r].pc = "writing",
             NEW c \in DOMAIN cases \cup DOMAIN cases', Write(r)
      PROVE  Lawful_(r, c)
  <2> DEFINE id == work[r].id
             key == work[r].row.key
  <2>1. /\ OfBusiness(id, Asked(r).business)
        /\ Drafted(r) /\ r \in Workers
        /\ Trusted(Asked(r))
    BY <1>1, RequestAssumption DEF ApiInv, ScopeKept, OnItsWay, AllPassed, Passed
  <2>2. Business[key] = Asked(r).business
    BY <2>1 DEF OfBusiness
  <2>3. /\ DOMAIN cases' = (DOMAIN cases \ RowsOf(key)) \cup {id}
        /\ cases'[id] = work[r].row
        /\ \A d \in DOMAIN cases' \ {id} : cases'[d] = cases[d]
    BY <1>1 DEF Write, Persist, Replace
  <2> HIDE DEF id, key
  <2>4. /\ Asked(r).grant \cap {"legacy", "*", Asked(r).business} # {}
        /\ Asked(r).role \in {None, "operator", "admin"}
        /\ Asked(r).token = "valid"
    BY <2>1, TrustedAsks
  <2>5. CASE c = id
    <3>1. Business[(IF c \in DOMAIN cases THEN cases[c] ELSE cases'[c]).key] = Asked(r).business
      BY <2>1, <2>2, <2>3, <2>5 DEF OfBusiness, key
    <3> QED
      BY <2>4, <3>1
  <2>6. CASE c # id /\ c \in RowsOf(key)
    <3>1. c \in DOMAIN cases /\ cases[c].key = key
      BY <2>6 DEF RowsOf
    <3> QED
      BY <2>2, <2>4, <3>1
  <2>7. CASE c # id /\ c \notin RowsOf(key)
    <3>1. c \in DOMAIN cases \cap DOMAIN cases' /\ cases'[c] = cases[c]
      BY <1>1, <2>3, <2>7
    <3> QED
      BY <3>1
  <2> QED
    BY <2>5, <2>6, <2>7
<1>2. ASSUME ApiInv, [ApiNext]_apiVars, NEW r \in Requests, req[r].pc = "writing",
             NEW c \in DOMAIN cases \cup DOMAIN cases'
      PROVE  Lawful_(r, c)
  BY <1>1, <1>2, OnlyWriteSucceeds
<1>3. ApiInv /\ [ApiNext]_apiVars =>
        [\A r \in Requests : req[r].pc = "writing" =>
            \A c \in DOMAIN cases \cup DOMAIN cases' : Lawful_(r, c)]_apiVars
  BY <1>2
<1> QED
  BY <1>3, ApiInvariant, PTL DEF ApiSpec, WritesStayInScope

-----------------------------------------------------------------------------
(***************************************************************************)
(* The audit tells the refusals, once each.                                *)
(***************************************************************************)
AuditOf(r) ==
    /\ req[r].pc # "answered" => req[r].code = 0 /\ \A e \in audit : e.request # r
    /\ req[r].code \in Refusals => \E e \in audit : e.request = r
    /\ \A e \in audit : e.request = r => req[r].code \in Refusals \cup {401}
    /\ \A e, f \in audit : e.request = r /\ f.request = r => e = f

AuditKept == \A r \in Requests : AuditOf(r)

\* An entry about somebody else changes nothing for a request that rests.
LEMMA AuditRests ==
    ASSUME NEW r \in Requests, AuditOf(r), Rests(r), NEW u, u # r,
           \/ UNCHANGED audit
           \/ \E type : audit' = audit \cup {Entry(u, type)}
    PROVE  AuditOf(r)'
<1>1. \A e : e.request = r => (e \in audit' <=> e \in audit)
  BY DEF Entry
<1>2. \A e \in audit' : e.request = r => e \in audit
  BY <1>1
<1>3. \A e \in audit : e \in audit'
  OBVIOUS
<1> QED
  BY <1>2, <1>3 DEF AuditOf, Rests

LEMMA NextAudit ==
    ASSUME ApiInv, AuditKept, [ApiNext]_apiVars
    PROVE  AuditKept'
<1>0. Requested /\ \A r \in Requests : AuditOf(r)
  BY DEF ApiInv, AllPassed, AuditKept
<1>1. ASSUME NEW r \in Requests, RequestStep(r)
      PROVE  AuditKept'
  <2>1. \/ UNCHANGED audit
        \/ \E type : audit' = audit \cup {Entry(r, type)}
    BY <1>0, <1>1, RequestMoves
       DEF Arrival, Refusal, Scoped, Done, Loaded, Written, TableUnchanged
  <2>2. \A u \in Requests \ {r} : Rests(u)
    BY <1>0, <1>1, RequestMoves DEF Arrival, Refusal, Scoped, Done, Loaded, Written, Becomes
  <2>3. \A u \in Requests \ {r} : AuditOf(u)'
    BY <1>0, <2>1, <2>2, AuditRests
  <2>4. AuditOf(r)'
    <3>1. ASSUME NEW code, NEW type, req[r].pc # "answered",
                 req'[r].pc = "answered", req'[r].code = code,
                 \/ /\ code \in Refusals \cup {401}
                    /\ audit' = audit \cup {Entry(r, type)}
                 \/ code \notin Refusals /\ UNCHANGED audit
          PROVE  AuditOf(r)'
      <4>1. \A e \in audit : e.request # r
        BY <1>0, <3>1 DEF AuditOf
      <4>2. Entry(r, type).request = r
        BY DEF Entry
      <4> QED
        BY <3>1, <4>1, <4>2 DEF AuditOf
    <3>2. ASSUME req'[r].code = req[r].code \/ req'[r].code = 0, req[r].pc # "answered",
                 req'[r].pc # "answered", UNCHANGED audit
          PROVE  AuditOf(r)'
      BY <1>0, <3>2 DEF AuditOf, Refusals
    <3>3. CASE \A u \in Requests : Rests(u) /\ UNCHANGED audit
      BY <1>0, <3>3 DEF AuditOf, Rests
    <3>4. CASE Arrival(r)
      BY <3>1, <3>2, <3>4, RequestAssumption DEF Arrival, Becomes, Refusals
    <3>5. CASE Refusal(r)
      BY <3>1, <3>5 DEF Refusal, Becomes, Refusals
    <3>6. CASE Scoped(r) \/ Loaded(r)
      BY <3>2, <3>6 DEF Scoped, Loaded, Becomes
    <3>7. CASE Done(r) \/ Written(r)
      BY <3>1, <3>7 DEF Done, Written, Becomes, Refusals
    <3> QED
      BY <1>0, <1>1, <3>3, <3>4, <3>5, <3>6, <3>7, RequestMoves
  <2> QED
    BY <2>3, <2>4 DEF AuditKept
<1>2. ASSUME UNCHANGED audit, \A u \in Requests : Rests(u)
      PROVE  AuditKept'
  BY <1>0, <1>2 DEF AuditKept, AuditOf, Rests
<1>3. ASSUME NEW s \in Scripts, ScriptStep(s) PROVE AuditKept'
  BY <1>0, <1>2, <1>3, ScriptMoves
<1>4. CASE UNCHANGED apiVars
  BY <1>2, <1>4 DEF apiVars, Rests
<1> QED
  BY <1>1, <1>3, <1>4 DEF ApiNext, RequestStep, ScriptStep

-----------------------------------------------------------------------------
(***************************************************************************)
(* Whose voice a draft adds to the timeline.                               *)
(***************************************************************************)
LastEvent(row) == row.timeline[Len(row.timeline)]

\* Requests speak as operators, scripts as detections.
Voices ==
    \A w \in Workers : Drafted(w) =>
       IF w \in Requests THEN Operator(LastEvent(work[w].row))
       ELSE LastEvent(work[w].row).type \in DetectionEvents

LEMMA MutatedSpeaks ==
    ASSUME NEW row \in Row, NEW key \in ActionKeys, NEW new \in Mutated(row, key)
    PROVE  Operator(LastEvent(new))
<1>1. row.timeline \in Seq(Event)
  BY DEF Row
<1>2. PICK e : new.timeline = Append(row.timeline, e) /\ Operator(e)
  <2>1. CASE key = "add_comment"
    <3>1. new.timeline = Append(row.timeline, MkEvent("operator_comment", None, None, now))
      BY <2>1 DEF Mutated, Commented, Logged, Row
    <3> QED
      BY <3>1 DEF MkEvent, Operator
  <2>2. CASE key = "assign_owner"
    <3>1. PICK who \in Assignees : new = Assigned(row, who, now)
      BY <2>2 DEF Mutated
    <3>2. new.timeline = Append(row.timeline, MkEvent("case_assigned", None, who, now))
      BY <3>1 DEF Assigned, Logged, Row
    <3> QED
      BY <3>2 DEF MkEvent, Operator
  <2>3. CASE key \in DOMAIN Targets
    <3>1. new = Transitioned(row, Targets[key], now)
      BY <2>3 DEF Mutated, Targets
    <3>2. new.timeline =
             Append(row.timeline, MkEvent("status_changed", Targets[key], None, now))
      BY <3>1 DEF Transitioned, Logged, Row
    <3> QED
      BY <3>2 DEF MkEvent, Operator
  <2> QED
    BY <2>1, <2>2, <2>3 DEF ActionKeys
<1> QED
  BY <1>1, <1>2 DEF LastEvent

LEMMA DetectionSpeaks ==
    ASSUME NEW det
    PROVE  /\ LastEvent(Opened(det)).type \in DetectionEvents
           /\ \A row \in Row : LastEvent(Redetected(row, det)).type \in DetectionEvents
<1>1. LastEvent(Opened(det)).type \in DetectionEvents
  <2>1. Opened(det).timeline = <<MkEvent("case_opened", "open", det.run, det.at)>>
    BY DEF Opened
  <2> QED
    BY <2>1 DEF LastEvent, MkEvent, DetectionEvents
<1>2. ASSUME NEW row \in Row
      PROVE  LastEvent(Redetected(row, det)).type \in DetectionEvents
  <2>1. PICK e : Redetected(row, det).timeline = Append(row.timeline, e)
                   /\ e.type \in {"case_updated", "case_reopened"}
    <3>1. CASE row.status \in Terminal
      <4>1. Redetected(row, det).timeline =
               Append(row.timeline, MkEvent("case_reopened", "open", det.run, det.at))
        BY <3>1 DEF Redetected, Reopened, Merged, Logged, Row
      <4> QED
        BY <4>1 DEF MkEvent
    <3>2. CASE row.status \notin Terminal
      <4>1. Redetected(row, det).timeline =
               Append(row.timeline, MkEvent("case_updated", None, det.run, det.at))
        BY <3>2 DEF Redetected, Updated, Merged, Logged, Row
      <4> QED
        BY <4>1 DEF MkEvent
    <3> QED
      BY <3>1, <3>2
  <2>2. row.timeline \in Seq(Event)
    BY DEF Row
  <2> QED
    BY <2>1, <2>2 DEF LastEvent, DetectionEvents
<1> QED
  BY <1>1, <1>2

LEMMA NextVoices ==
    ASSUME ApiInv, Voices, [ApiNext]_apiVars
    PROVE  Voices'
<1>0. /\ TypeOK /\ AllPassed
      /\ Requests \subseteq Workers /\ Scripts \subseteq Workers
      /\ \A s \in Scripts : s \notin Requests
      /\ \A c \in DOMAIN cases : cases[c] \in Row
  BY RequestAssumption DEF ApiInv, IInv, TypeOK, Scripts
<1>1. ASSUME NEW w \in Workers,
             \A v \in Workers \ {w} : work'[v] = work[v],
             Drafted(w)' => \/ work'[w] = work[w]
                            \/ IF w \in Requests THEN Operator(LastEvent(work'[w].row))
                               ELSE LastEvent(work'[w].row).type \in DetectionEvents
      PROVE  Voices'
  <2>1. ASSUME NEW v \in Workers, Drafted(v)', work'[v] = work[v]
        PROVE  IF v \in Requests THEN Operator(LastEvent(work'[v].row))
               ELSE LastEvent(work'[v].row).type \in DetectionEvents
    BY <2>1 DEF Voices, Drafted
  <2> QED
    BY <1>1, <2>1 DEF Voices, LastEvent, Operator
<1>2. ASSUME NEW r \in Requests, RequestStep(r)
      PROVE  Voices'
  <2>1. \A v \in Workers \ {r} : work'[v] = work[v]
    BY <1>0, <1>2, OwnWork
  <2>2. CASE Load(r)
    <3>1. PICK row \in Mutated(cases[Asked(r).case], Asked(r).key) :
             work' = [work EXCEPT ![r] = MkDraft(Asked(r).case, row, FALSE)]
      BY <2>2 DEF Load, DraftFrom
    <3>2. Asked(r).key \in ActionKeys /\ Asked(r).case \in DOMAIN cases
      BY <1>0, <2>2 DEF Load, At, AllPassed, Passed, Trusted
    <3>3. Operator(LastEvent(row))
      BY <1>0, <3>2, MutatedSpeaks
    <3>4. work'[r].row = row
      BY <1>0, <3>1 DEF TypeOK, MkDraft
    <3> QED
      BY <1>0, <1>1, <2>1, <3>3, <3>4
  <2>3. CASE work'[r] = work[r] \/ work'[r] = Idle
    BY <1>0, <1>1, <2>1, <2>3 DEF Drafted, Idle
  <2>4. Load(r) \/ work'[r] = work[r] \/ work'[r] = Idle
    <3>1. TableUnchanged \/ Load(r) \/ Write(r) \/ Fail(r)
      BY <1>2 DEF RequestStep, Unauthenticated, Forbidden, Admitted, NotAllowed, BadRequest,
         Scope, Vanished, Conflict, Refuse, ReadBrief, AnswerBrief, ReadAudit
    <3> QED
      BY <1>0, <3>1 DEF TableUnchanged, Write, Persist, Fail, TypeOK
  <2> QED
    BY <2>2, <2>3, <2>4
<1>3. ASSUME NEW s \in Scripts, ScriptStep(s)
      PROVE  Voices'
  <2>1. \A v \in Workers \ {s} : work'[v] = work[v]
    BY <1>0, <1>3, OwnWork
  <2>2. CASE DraftNewCase(s) \/ DraftRedetection(s)
    <3>1. PICK row : /\ work'[s].row = row
                     /\ \/ row = Opened(work[s])
                        \/ \E old \in Row : row = Redetected(old, work[s])
      BY <1>0, <2>2 DEF DraftNewCase, DraftRedetection, RowsOf, TypeOK, MkDraft
    <3>2. LastEvent(row).type \in DetectionEvents
      BY <3>1, DetectionSpeaks
    <3> QED
      BY <1>0, <1>1, <2>1, <3>1, <3>2
  <2>3. CASE ~Drafted(s)' \/ work'[s] = work[s]
    BY <1>0, <1>1, <2>1, <2>3
  <2>4. DraftNewCase(s) \/ DraftRedetection(s) \/ ~Drafted(s)' \/ work'[s] = work[s]
    BY <1>0, <1>3 DEF ScriptStep, LookUp, Detect, StartDetection, Store, Persist, TypeOK,
       Drafted, Idle
  <2> QED
    BY <2>2, <2>3, <2>4
<1>4. CASE UNCHANGED apiVars
  BY <1>4 DEF apiVars, Voices, Drafted, LastEvent, Operator
<1> QED
  BY <1>2, <1>3, <1>4 DEF ApiNext, RequestStep, ScriptStep

LEMMA VoicesAlways == ApiSpec => [](Voices /\ AuditKept)
<1>1. ApiInit => Voices /\ AuditKept
  BY DEF ApiInit, Init, Voices, Drafted, Idle, AuditKept, AuditOf, Refusals
<1>2. ApiInv /\ Voices /\ AuditKept /\ [ApiNext]_apiVars => (Voices /\ AuditKept)'
  BY NextVoices, NextAudit
<1> QED
  BY <1>1, <1>2, ApiInvariant, PTL DEF ApiSpec

-----------------------------------------------------------------------------
(***************************************************************************)
(* Each action is told once.                                               *)
(***************************************************************************)
OperatorIn(tl) == {i \in DOMAIN tl : Operator(tl[i])}

DetectedIn(tl) == {i \in DOMAIN tl : tl[i].type \in DetectionEvents}

\* What an appended event adds to the positions of one kind.
LEMMA PositionsAppended ==
    ASSUME NEW tl \in Seq(Event), NEW e \in Event
    PROVE  /\ Len(tl) + 1 \notin DOMAIN tl
           /\ IsFiniteSet(OperatorIn(tl)) /\ IsFiniteSet(DetectedIn(tl))
           /\ OperatorIn(Append(tl, e)) =
                 IF Operator(e) THEN OperatorIn(tl) \cup {Len(tl) + 1} ELSE OperatorIn(tl)
           /\ DetectedIn(Append(tl, e)) =
                 IF e.type \in DetectionEvents THEN DetectedIn(tl) \cup {Len(tl) + 1}
                 ELSE DetectedIn(tl)
<1>1. /\ Len(tl) \in Nat
      /\ DOMAIN tl = 1..Len(tl)
      /\ DOMAIN Append(tl, e) = 1..(Len(tl) + 1)
      /\ \A i \in 1..Len(tl) : Append(tl, e)[i] = tl[i]
      /\ Append(tl, e)[Len(tl) + 1] = e
  OBVIOUS
<1>2. IsFiniteSet(1..Len(tl))
  BY <1>1, FS_Interval
<1>3. IsFiniteSet(OperatorIn(tl)) /\ IsFiniteSet(DetectedIn(tl))
  BY <1>1, <1>2, FS_Subset DEF OperatorIn, DetectedIn
<1>4. OperatorIn(Append(tl, e)) =
         IF Operator(e) THEN OperatorIn(tl) \cup {Len(tl) + 1} ELSE OperatorIn(tl)
  BY <1>1 DEF OperatorIn
<1>5. DetectedIn(Append(tl, e)) =
         IF e.type \in DetectionEvents THEN DetectedIn(tl) \cup {Len(tl) + 1}
         ELSE DetectedIn(tl)
  BY <1>1 DEF DetectedIn
<1> QED
  BY <1>1, <1>3, <1>4, <1>5

\* Exactly one of the two kinds grows by one.
LEMMA PositionsCounted ==
    ASSUME NEW tl \in Seq(Event), NEW e \in Event
    PROVE  /\ Operator(e) =>
                 /\ Cardinality(OperatorIn(Append(tl, e))) = Cardinality(OperatorIn(tl)) + 1
                 /\ DetectedIn(Append(tl, e)) = DetectedIn(tl)
           /\ e.type \in DetectionEvents => OperatorIn(Append(tl, e)) = OperatorIn(tl)
<1>1. e.type \in DetectionEvents => ~Operator(e)
  BY DEF DetectionEvents, Operator
<1>2. Len(tl) + 1 \notin OperatorIn(tl)
  BY PositionsAppended DEF OperatorIn
<1> QED
  BY <1>1, <1>2, PositionsAppended, FS_AddElement

LEMMA OpenedPositions ==
    ASSUME NEW row, NewCase(row)
    PROVE  OperatorIn(row.timeline) = {} /\ DetectedIn(row.timeline) = {1}
<1>1. PICK e \in Event : e.type = "case_opened" /\ row.timeline = <<e>>
  BY DEF NewCase
<1> QED
  BY <1>1 DEF OperatorIn, DetectedIn, Operator, DetectionEvents

\* A commit that nothing overtook: the row it writes continues the one that is
\* there, or opens the first case of its key, and no other row is touched.
LEMMA UntornCommit ==
    ASSUME IInv, DraftsFit, Voices, NEW w \in Workers, Persist(w), w \notin overlapped
    PROVE  LET id == work[w].id
               row == work[w].row
           IN /\ row \in Row /\ cases'[id] = row
              /\ DOMAIN cases' = DOMAIN cases \cup {id}
              /\ \A c \in DOMAIN cases : c # id => cases'[c] = cases[c]
              /\ id \in DOMAIN cases =>
                    \E e \in Event :
                       /\ row.timeline = Append(cases[id].timeline, e)
                       /\ row.key = cases[id].key
                       /\ IF w \in Requests THEN Operator(e) ELSE e.type \in DetectionEvents
              /\ id \notin DOMAIN cases => NewCase(row) /\ RowsOf(row.key) = {}
<1> DEFINE id == work[w].id
           row == work[w].row
<1>1. Drafted(w) /\ work[w] \in Draft /\ row \in Row
  BY DEF Persist, IInv, TypeOK, Drafted, Idle, Detecting, Draft
<1>2. Current(work[w]) /\ Fits(work[w])
  BY <1>1 DEF IInv, FreshUnlessOverlapped, DraftsFit
<1>3. DOMAIN cases' = (DOMAIN cases \ RowsOf(row.key)) \cup {id}
      /\ cases'[id] = row
      /\ \A c \in DOMAIN cases' : c # id => cases'[c] = cases[c]
  BY DEF Persist, Replace
<1>4. RowsOf(row.key) \subseteq {id}
  BY <1>2 DEF Current
<1>5. DOMAIN cases' = DOMAIN cases \cup {id} /\ \A c \in DOMAIN cases : c # id => cases'[c] = cases[c]
  BY <1>3, <1>4
<1>6. ASSUME id \in DOMAIN cases
      PROVE  \E e \in Event :
                /\ row.timeline = Append(cases[id].timeline, e)
                /\ row.key = cases[id].key
                /\ IF w \in Requests THEN Operator(e) ELSE e.type \in DetectionEvents
  <2>1. PICK e \in Event : row.timeline = Append(cases[id].timeline, e)
    BY <1>2, <1>6 DEF Current, Grown
  <2>2. cases[id].timeline \in Seq(Event)
    BY <1>6 DEF IInv, TypeOK, Row
  <2>3. LastEvent(row) = e
    <3> HIDE DEF row, id
    <3> QED
      BY <2>1, <2>2 DEF LastEvent
  <2>4. row.key = cases[id].key
    BY <1>2, <1>6 DEF Current, Grown
  <2>5. IF w \in Requests THEN Operator(LastEvent(row))
        ELSE LastEvent(row).type \in DetectionEvents
    BY <1>1 DEF Voices
  <2> QED
    BY <2>1, <2>3, <2>4, <2>5
<1>7. id \notin DOMAIN cases => NewCase(row) /\ RowsOf(row.key) = {}
  BY <1>2 DEF Fits, Current
<1> QED
  BY <1>1, <1>3, <1>5, <1>6, <1>7

\* r was told that its action was done.
ServedBy(r) == Answered(r, 200) /\ Asked(r).route = "action"

\* While nothing was torn: the cases of the actions under way, and of those that are
\* done, are there, and each case has an operator's event for each action done.
Told ==
    ~torn =>
       /\ \A r \in Requests : req[r].pc \in {"scoped", "writing"} \/ ServedBy(r) =>
             Asked(r).case \in DOMAIN cases
       /\ \A c \in DOMAIN cases :
             /\ IsFiniteSet(Served(c))
             /\ Cardinality(OperatorEvents(c)) = Cardinality(Served(c))

LEMMA RestsServed ==
    ASSUME NEW u \in Requests, Rests(u)
    PROVE  /\ ServedBy(u)' <=> ServedBy(u)
           /\ Asked(u)' = Asked(u)
           /\ req'[u].pc = req[u].pc
BY DEF Rests, ServedBy, Answered, Asked

\* A step that commits nothing and serves nobody.
LEMMA QuietTold ==
    ASSUME Told, UNCHANGED <<cases, torn>>,
           \A u \in Requests :
              /\ ServedBy(u)' <=> ServedBy(u)
              /\ ServedBy(u) => Asked(u)' = Asked(u)
              /\ req'[u].pc \in {"scoped", "writing"} =>
                    \/ req[u].pc \in {"scoped", "writing"} /\ Asked(u)' = Asked(u)
                    \/ Asked(u)'.case \in DOMAIN cases
    PROVE  Told'
<1> SUFFICES ASSUME ~torn'
             PROVE  /\ \A r \in Requests :
                          req'[r].pc \in {"scoped", "writing"} \/ ServedBy(r)' =>
                             Asked(r)'.case \in DOMAIN cases'
                    /\ \A c \in DOMAIN cases' :
                          /\ IsFiniteSet(Served(c)')
                          /\ Cardinality(OperatorEvents(c)') = Cardinality(Served(c)')
  BY DEF Told
<1>1. \A c : Served(c)' = Served(c)
  BY DEF Served, ServedBy
<1>2. \A c : OperatorEvents(c)' = OperatorEvents(c)
  BY DEF OperatorEvents, Operator
<1> QED
  BY <1>1, <1>2 DEF Told

\* What the positions of the operators become when w commits without overtaking.
LEMMA CommitSpeaks ==
    ASSUME IInv, DraftsFit, Voices, NEW w \in Workers, Persist(w), w \notin overlapped,
           NEW id, id = work[w].id
    PROVE  /\ DOMAIN cases' = DOMAIN cases \cup {id}
           /\ \A c \in DOMAIN cases : c # id => OperatorEvents(c)' = OperatorEvents(c)
           /\ id \in DOMAIN cases =>
                 Cardinality(OperatorEvents(id)') =
                    IF w \in Requests THEN Cardinality(OperatorEvents(id)) + 1
                                      ELSE Cardinality(OperatorEvents(id))
           /\ id \notin DOMAIN cases => OperatorEvents(id)' = {}
<1> DEFINE row == work[w].row
<1>1. /\ row \in Row /\ cases'[id] = row
      /\ DOMAIN cases' = DOMAIN cases \cup {id}
      /\ \A c \in DOMAIN cases : c # id => cases'[c] = cases[c]
      /\ id \in DOMAIN cases =>
            \E e \in Event :
               /\ row.timeline = Append(cases[id].timeline, e)
               /\ row.key = cases[id].key
               /\ IF w \in Requests THEN Operator(e) ELSE e.type \in DetectionEvents
      /\ id \notin DOMAIN cases => NewCase(row) /\ RowsOf(row.key) = {}
  BY UntornCommit
<1> HIDE DEF row
<1>2. \A c : OperatorEvents(c) = OperatorIn(cases[c].timeline)
  BY DEF OperatorEvents, OperatorIn
<1>3. \A c : OperatorEvents(c)' = OperatorIn(cases'[c].timeline)
  BY DEF OperatorEvents, OperatorIn, Operator
<1>4. \A c \in DOMAIN cases : c # id => OperatorEvents(c)' = OperatorEvents(c)
  BY <1>1, <1>2, <1>3
<1>5. ASSUME id \in DOMAIN cases
      PROVE  Cardinality(OperatorIn(row.timeline)) =
                IF w \in Requests THEN Cardinality(OperatorIn(cases[id].timeline)) + 1
                                  ELSE Cardinality(OperatorIn(cases[id].timeline))
  <2>1. PICK e \in Event :
           /\ row.timeline = Append(cases[id].timeline, e)
           /\ IF w \in Requests THEN Operator(e) ELSE e.type \in DetectionEvents
    BY <1>1, <1>5
  <2>2. cases[id].timeline \in Seq(Event)
    BY <1>5 DEF IInv, TypeOK, Row
  <2> QED
    BY <2>1, <2>2, PositionsCounted
<1>6. id \notin DOMAIN cases => OperatorIn(row.timeline) = {}
  BY <1>1, OpenedPositions
<1> QED
  BY <1>1, <1>2, <1>3, <1>4, <1>5, <1>6

\* An action that is done adds its event to its case.
LEMMA WriteTold ==
    ASSUME ApiInv, DraftsFit, Voices, Told, NEW r \in Requests, Write(r)
    PROVE  Told'
<1> SUFFICES ASSUME ~torn' PROVE Told'
  BY DEF Told
<1>0. PICK id : id = work[r].id
  OBVIOUS
<1>1. /\ IInv /\ Requested /\ r \in Workers /\ Passed(r) /\ OnItsWay(r)
      /\ Persist(r) /\ r \notin overlapped /\ ~torn
  BY RequestAssumption DEF ApiInv, AllPassed, ScopeKept, Write
<1>2. Written(r)
  BY <1>1, WriteBecomes DEF Write, Written
<1>3. /\ Asked(r).case = id /\ Asked(r).route = "action"
      /\ id \in DOMAIN cases
  BY <1>0, <1>1, <1>2 DEF Written, OnItsWay, Passed, Told
<1>4. /\ ServedBy(r)' /\ ~ServedBy(r) /\ Asked(r)' = Asked(r) /\ req'[r].pc = "answered"
      /\ \A u \in Requests \ {r} :
            /\ ServedBy(u)' <=> ServedBy(u)
            /\ Asked(u)' = Asked(u)
            /\ req'[u].pc = req[u].pc
  <2>1. \A u \in Requests \ {r} : Rests(u)
    BY <1>2 DEF Written, Becomes
  <2>2. ServedBy(r)' /\ ~ServedBy(r) /\ Asked(r)' = Asked(r) /\ req'[r].pc = "answered"
    BY <1>2, <1>3 DEF Written, Becomes, ServedBy, Answered, Asked
  <2> QED
    BY <2>1, <2>2, RestsServed
<1>5. /\ DOMAIN cases' = DOMAIN cases
      /\ \A c \in DOMAIN cases : c # id => OperatorEvents(c)' = OperatorEvents(c)
      /\ Cardinality(OperatorEvents(id)') = Cardinality(OperatorEvents(id)) + 1
  BY <1>0, <1>1, <1>3, CommitSpeaks DEF ApiInv
<1>6. \A c : c # id => Served(c)' = Served(c)
  BY <1>3, <1>4 DEF Served, ServedBy
<1>7. Served(id)' = Served(id) \cup {r} /\ r \notin Served(id)
  BY <1>3, <1>4 DEF Served, ServedBy
<1>8. \A c \in DOMAIN cases :
         /\ IsFiniteSet(Served(c))
         /\ Cardinality(OperatorEvents(c)) = Cardinality(Served(c))
  BY <1>1 DEF Told
<1>9. IsFiniteSet(Served(id)') /\ Cardinality(Served(id)') = Cardinality(Served(id)) + 1
  BY <1>3, <1>7, <1>8, FS_AddElement
<1>10. \A c \in DOMAIN cases :
          /\ IsFiniteSet(Served(c)')
          /\ Cardinality(OperatorEvents(c)') = Cardinality(Served(c)')
  BY <1>3, <1>5, <1>6, <1>8, <1>9
<1>11. \A u \in Requests : req'[u].pc \in {"scoped", "writing"} \/ ServedBy(u)' =>
          Asked(u)'.case \in DOMAIN cases
  BY <1>1, <1>3, <1>4 DEF Told
<1> QED
  BY <1>5, <1>10, <1>11 DEF Told

\* A detection that is stored adds none.
LEMMA StoreTold ==
    ASSUME ApiInv, DraftsFit, Voices, Told, NEW s \in Scripts, Store(s)
    PROVE  Told'
<1> SUFFICES ASSUME ~torn' PROVE Told'
  BY DEF Told
<1>0. PICK id : id = work[s].id
  OBVIOUS
<1>1. /\ IInv /\ Requested /\ s \in Workers /\ s \notin Requests
      /\ Persist(s) /\ s \notin overlapped /\ ~torn
  BY DEF ApiInv, AllPassed, Scripts, Store
<1>2. \A u \in Requests :
         /\ ServedBy(u)' <=> ServedBy(u)
         /\ Asked(u)' = Asked(u)
         /\ req'[u].pc = req[u].pc
  BY <1>1, OvertakeRests, RestsServed DEF Store
<1>3. /\ DOMAIN cases' = DOMAIN cases \cup {id}
      /\ \A c \in DOMAIN cases : c # id => OperatorEvents(c)' = OperatorEvents(c)
      /\ id \in DOMAIN cases =>
            Cardinality(OperatorEvents(id)') = Cardinality(OperatorEvents(id))
      /\ id \notin DOMAIN cases => OperatorEvents(id)' = {}
  BY <1>0, <1>1, CommitSpeaks
<1>4. \A c : Served(c)' = Served(c)
  BY <1>2 DEF Served, ServedBy
<1>5. id \notin DOMAIN cases => Served(id) = {}
  BY <1>1 DEF Told, Served, ServedBy
<1>6. \A c \in DOMAIN cases :
         /\ IsFiniteSet(Served(c))
         /\ Cardinality(OperatorEvents(c)) = Cardinality(Served(c))
  BY <1>1 DEF Told
<1>7. \A c \in DOMAIN cases' :
         /\ IsFiniteSet(Served(c)')
         /\ Cardinality(OperatorEvents(c)') = Cardinality(Served(c)')
  BY <1>3, <1>4, <1>5, <1>6, FS_EmptySet
<1>8. \A u \in Requests : req'[u].pc \in {"scoped", "writing"} \/ ServedBy(u)' =>
         Asked(u)'.case \in DOMAIN cases'
  BY <1>1, <1>2, <1>3 DEF Told
<1> QED
  BY <1>7, <1>8 DEF Told

LEMMA NextTold ==
    ASSUME ApiInv, DraftsFit, Voices, Told, [ApiNext]_apiVars
    PROVE  Told'
<1>0. Requested /\ \A r \in Requests : Passed(r)
  BY DEF ApiInv, AllPassed
<1>1. ASSUME UNCHANGED <<cases, torn>>, NEW r \in Requests,
             \A u \in Requests \ {r} : Rests(u),
             ~ServedBy(r), ~ServedBy(r)',
             req'[r].pc \in {"scoped", "writing"} =>
                \/ req[r].pc \in {"scoped", "writing"} /\ Asked(r)' = Asked(r)
                \/ Asked(r)'.case \in DOMAIN cases
      PROVE  Told'
  BY <1>1, RestsServed, QuietTold
<1>2. ASSUME UNCHANGED <<cases, torn>>, \A u \in Requests : Rests(u)
      PROVE  Told'
  BY <1>2, RestsServed, QuietTold
<1>3. ASSUME NEW r \in Requests, RequestStep(r)
      PROVE  Told'
  <2>1. CASE Arrival(r) /\ TableUnchanged
    <3>1. PICK ask \in Asks :
             /\ req[r].pc = "idle"
             /\ \/ \E code \in {401, 403, 500} : Becomes(r, "answered", ask, code)
                \/ Becomes(r, ask.route, ask, 0)
      BY <2>1 DEF Arrival
    <3>2. /\ req'[r].pc \notin {"scoped", "writing"}
          /\ req'[r].pc = "answered" => req'[r].code # 200
      BY <3>1, RequestAssumption DEF Becomes
    <3>3. ~ServedBy(r) /\ ~ServedBy(r)'
      BY <3>1, <3>2 DEF Becomes, ServedBy, Answered
    <3> QED
      BY <1>1, <2>1, <3>1, <3>2, <3>3 DEF Becomes, TableUnchanged
  <2>2. CASE Refusal(r) /\ TableUnchanged
    <3>1. PICK code : code # 200 /\ Becomes(r, "answered", req[r].ask, code)
      BY <2>2 DEF Refusal
    <3>2. ~ServedBy(r) /\ ~ServedBy(r)'
      BY <2>2, <3>1 DEF Refusal, Becomes, ServedBy, Answered
    <3> QED
      BY <1>1, <2>2, <3>1, <3>2 DEF Becomes, TableUnchanged
  <2>3. CASE Scoped(r) /\ TableUnchanged
    <3>1. ~ServedBy(r) /\ ~ServedBy(r)' /\ Asked(r)' = Asked(r) /\ Asked(r).case \in DOMAIN cases
      BY <2>3 DEF Scoped, Becomes, ServedBy, Answered, Belongs, Asked
    <3> QED
      BY <1>1, <2>3, <3>1 DEF Scoped, Becomes, TableUnchanged
  <2>4. CASE Done(r)
    <3>1. ~ServedBy(r) /\ ~ServedBy(r)' /\ req'[r].pc = "answered"
      BY <1>0, <2>4 DEF Done, Becomes, ServedBy, Answered, Asked, Passed
    <3> QED
      BY <1>1, <2>4, <3>1 DEF Done, Becomes
  <2>5. CASE Loaded(r)
    <3>1. ~ServedBy(r) /\ ~ServedBy(r)' /\ Asked(r)' = Asked(r)
      BY <2>5 DEF Loaded, Becomes, ServedBy, Answered, Asked
    <3> QED
      BY <1>1, <2>5, <3>1 DEF Loaded, Becomes
  <2>6. CASE (\A u \in Requests : Rests(u)) /\ TableUnchanged
    BY <1>2, <2>6 DEF TableUnchanged
  <2> QED
    BY <1>0, <1>3, <2>1, <2>2, <2>3, <2>4, <2>5, <2>6, RequestMoves, WriteTold
<1>4. ASSUME NEW s \in Scripts, ScriptStep(s)
      PROVE  Told'
  <2>1. CASE Store(s)
    BY <2>1, StoreTold
  <2>2. CASE LookUp(s) \/ Detect(s)
    <3>1. UNCHANGED <<cases, torn>>
      BY <2>2 DEF LookUp, Detect, StartDetection, DraftNewCase, DraftRedetection
    <3> QED
      BY <1>0, <1>2, <1>4, <3>1, ScriptMoves
  <2> QED
    BY <1>4, <2>1, <2>2 DEF ScriptStep
<1>5. CASE UNCHANGED apiVars
  BY <1>2, <1>5 DEF apiVars, Rests
<1> QED
  BY <1>3, <1>4, <1>5 DEF ApiNext, RequestStep, ScriptStep

LEMMA ToldAlways == ApiSpec => []Told
<1>1. ApiInit => Told
  BY DEF ApiInit, Init, Told, ServedBy, Answered
<1>2. ApiInv /\ DraftsFit /\ Voices /\ Told /\ [ApiNext]_apiVars => Told'
  BY NextTold
<1> QED
  BY <1>1, <1>2, ApiInvariant, StoreInvariants, VoicesAlways, PTL DEF ApiSpec

\* An answered action is told exactly once: by an event in the timeline of the case
\* when it was done, by an audit event when it was refused, never by both; and only a
\* write that overtook another one takes an event away or makes the case of an action
\* disappear from under it.
THEOREM TraceableActions == ApiSpec => []ActionsAreTraceable
<1>1. ASSUME Told, AuditKept
      PROVE  ActionsAreTraceable
  <2>1. ~torn => \A c \in DOMAIN cases :
                    Cardinality(OperatorEvents(c)) = Cardinality(Served(c))
    BY <1>1 DEF Told
  <2>2. ASSUME NEW r \in Requests
        PROVE  /\ req[r].code \in Refusals => \E e \in audit : e.request = r
               /\ \A e \in audit : e.request = r => req[r].code \in Refusals \cup {401}
               /\ Cardinality({e \in audit : e.request = r}) <= 1
               /\ At(r, "scoped") /\ Asked(r).case \notin DOMAIN cases => torn
    <3>1. AuditOf(r)
      BY <1>1 DEF AuditKept
    <3>2. Cardinality({e \in audit : e.request = r}) <= 1
      <4> DEFINE mine == {e \in audit : e.request = r}
      <4>0. \A e, f \in mine : e = f
        BY <3>1 DEF AuditOf
      <4> HIDE DEF mine
      <4>1. mine = {} => Cardinality(mine) <= 1
        BY FS_EmptySet
      <4>2. ASSUME NEW e \in mine
            PROVE  Cardinality(mine) <= 1
        <5>1. mine = {e}
          BY <4>0, <4>2
        <5> QED
          BY <5>1, FS_Singleton
      <4> QED
        BY <4>1, <4>2 DEF mine
    <3>3. At(r, "scoped") /\ Asked(r).case \notin DOMAIN cases => torn
      BY <1>1 DEF Told, At
    <3> QED
      BY <3>1, <3>2, <3>3 DEF AuditOf
  <2> QED
    BY <2>1, <2>2 DEF ActionsAreTraceable
<1> QED
  BY <1>1, ToldAlways, VoicesAlways, PTL

-----------------------------------------------------------------------------
(***************************************************************************)
(* What the scripts count.                                                 *)
(***************************************************************************)
\* A script that is detecting, or has a draft, counts a detection of that key.
Counting(s) ==
    /\ \/ looked[s] = Nothing
       \/ \E key \in Keys, how \in {"opened", "updated"} :
             looked[s] = [key |-> key, as |-> how]
    /\ work[s].pc = "detecting" => looked[s] # Nothing /\ looked[s].key = work[s].key
    /\ Drafted(s) => looked[s] # Nothing /\ looked[s].key = work[s].row.key

AllCounting ==
    /\ DOMAIN looked = Scripts
    /\ counts \in [opened : Nat, updated : Nat]
    /\ \A s \in Scripts : Counting(s)

LEMMA StoreCounts ==
    ASSUME AllCounting, NEW s \in Scripts, Store(s)
    PROVE  /\ looked[s].as \in {"opened", "updated"} /\ looked[s].key = work[s].row.key
           /\ looked'[s] = Nothing
           /\ \A u \in Scripts \ {s} : looked'[u] = looked[u]
           /\ DOMAIN looked' = Scripts
           /\ counts' \in [opened : Nat, updated : Nat]
           /\ counts'.opened = IF looked[s].as = "opened" THEN counts.opened + 1
                                                        ELSE counts.opened
           /\ counts'.opened + counts'.updated = counts.opened + counts.updated + 1
<1>1. /\ Counting(s) /\ Drafted(s)
      /\ counts' = [counts EXCEPT ![looked[s].as] = @ + 1]
      /\ looked' = [looked EXCEPT ![s] = Nothing]
  BY DEF AllCounting, Store, Persist, Drafted, CountedAs
<1>2. looked[s].as \in {"opened", "updated"} /\ looked[s].key = work[s].row.key
  <2>1. looked[s] # Nothing /\ looked[s].key = work[s].row.key
    BY <1>1 DEF Counting
  <2>2. PICK key \in Keys, how \in {"opened", "updated"} : looked[s] = [key |-> key, as |-> how]
    BY <1>1, <2>1 DEF Counting
  <2>3. looked[s].as = how
    BY <2>2
  <2>4. how = "opened" \/ how = "updated"
    OBVIOUS
  <2>5. looked[s].as = "opened" \/ looked[s].as = "updated"
    BY <2>3, <2>4
  <2> QED
    BY <2>1, <2>5
<1>3. CASE looked[s].as = "opened"
  <2>1. counts' = [counts EXCEPT !["opened"] = @ + 1]
    BY <1>1, <1>3
  <2> QED
    BY <1>1, <1>2, <1>3, <2>1 DEF AllCounting
<1>4. CASE looked[s].as = "updated"
  <2>1. counts' = [counts EXCEPT !["updated"] = @ + 1]
    BY <1>1, <1>4
  <2> QED
    BY <1>1, <1>2, <1>4, <2>1 DEF AllCounting
<1> QED
  BY <1>2, <1>3, <1>4

LEMMA NextCounting ==
    ASSUME ApiInv, AllCounting, [ApiNext]_apiVars
    PROVE  AllCounting'
<1>0. /\ TypeOK /\ Requested /\ \A s \in Scripts : Counting(s) /\ s \notin Requests
      /\ DOMAIN looked = Scripts
      /\ Scripts \subseteq Workers /\ Requests \subseteq Workers
  BY RequestAssumption DEF ApiInv, IInv, AllPassed, AllCounting, Scripts
<1>1. ASSUME NEW u \in Scripts, looked'[u] = looked[u], work'[u] = work[u]
      PROVE  Counting(u)'
  BY <1>0, <1>1 DEF Counting, Drafted
<1>2. ASSUME NEW r \in Requests, RequestStep(r)
      PROVE  AllCounting'
  <2>1. UNCHANGED tally
    BY <1>0, <1>2, RequestMoves DEF TableUnchanged, Done, Load, Written
  <2>2. \A s \in Scripts : work'[s] = work[s]
    BY <1>0, <1>2, OwnWork
  <2> QED
    BY <1>1, <2>1, <2>2 DEF AllCounting, tally
<1>3. ASSUME NEW s \in Scripts, ScriptStep(s)
      PROVE  AllCounting'
  <2>1. \A u \in Scripts \ {s} : work'[u] = work[u]
    BY <1>0, <1>3, OwnWork
  <2>2. CASE LookUp(s)
    <3>1. PICK key \in Keys, how \in {"opened", "updated"} :
             /\ looked' = [looked EXCEPT ![s] = [key |-> key, as |-> how]]
             /\ counts' = counts /\ work' = work /\ work[s] = Idle
      <4>1. PICK key \in Keys :
               looked' = [looked EXCEPT ![s] =
                  [key |-> key, as |-> IF RowsOf(key) = {} THEN "opened" ELSE "updated"]]
        BY <2>2 DEF LookUp
      <4>2. (IF RowsOf(key) = {} THEN "opened" ELSE "updated") \in {"opened", "updated"}
        OBVIOUS
      <4>3. counts' = counts /\ work' = work /\ work[s] = Idle
        BY <2>2 DEF LookUp
      <4> QED
        BY <4>1, <4>2, <4>3
    <3>2. Counting(s)'
      <4>1. looked'[s] = [key |-> key, as |-> how]
        BY <1>0, <3>1
      <4>2. work'[s].pc = "idle"
        BY <3>1 DEF Idle
      <4>3. \E k \in Keys, h \in {"opened", "updated"} : looked'[s] = [key |-> k, as |-> h]
        BY <4>1
      <4> QED
        BY <4>2, <4>3 DEF Counting, Drafted
    <3>3. \A u \in Scripts \ {s} : Counting(u)'
      BY <1>0, <1>1, <3>1
    <3> QED
      BY <1>0, <3>1, <3>2, <3>3 DEF AllCounting
  <2>3. CASE Detect(s)
    <3>1. looked' = looked /\ counts' = counts /\ looked[s] # Nothing
      BY <2>3 DEF Detect, tally
    <3>2. Counting(s)'
      <4>1. CASE StartDetection(s)
        <5>1. work'[s].pc = "detecting"
          BY <1>0, <4>1 DEF StartDetection, TypeOK
        <5> QED
          BY <1>0, <2>3, <3>1, <5>1 DEF Counting, Detect, Drafted
      <4>2. ASSUME work[s].pc = "detecting",
                   \E id, row : /\ row.key = work[s].key
                                /\ work' = [work EXCEPT ![s] = MkDraft(id, row, TRUE)]
            PROVE  Counting(s)'
        <5>1. work'[s].pc = "drafted" /\ work'[s].row.key = work[s].key
          BY <1>0, <4>2 DEF TypeOK, MkDraft
        <5> QED
          BY <1>0, <3>1, <4>2, <5>1 DEF Counting, Drafted
      <4>3. CASE DraftNewCase(s)
        <5>1. Opened(work[s]).key = work[s].key
          BY DEF Opened
        <5> QED
          BY <4>2, <4>3, <5>1 DEF DraftNewCase
      <4>4. CASE DraftRedetection(s)
        <5>1. work[s].pc = "detecting" /\ work[s] \in Detecting
          BY <1>0, <4>4 DEF DraftRedetection, TypeOK, Idle, Detecting, Draft
        <5>2. PICK c \in RowsOf(work[s].key) :
                 work' = [work EXCEPT ![s] = MkDraft(c, Redetected(cases[c], work[s]), TRUE)]
          BY <4>4 DEF DraftRedetection
        <5>3. cases[c] \in Row /\ cases[c].key = work[s].key
          BY <1>0, <5>2 DEF RowsOf, TypeOK
        <5>4. Redetected(cases[c], work[s]).key = work[s].key
          BY <5>1, <5>3, RedetectedIsRow DEF Grown
        <5> QED
          BY <4>2, <5>1, <5>2, <5>4
      <4> QED
        BY <2>3, <4>1, <4>3, <4>4 DEF Detect
    <3> QED
      BY <1>0, <1>1, <2>1, <3>1, <3>2 DEF AllCounting
  <2>4. CASE Store(s)
    <3>1. work'[s] = Idle
      BY <1>0, <2>4 DEF Store, Persist, TypeOK
    <3>2. Counting(s)'
      BY <2>4, <3>1, StoreCounts DEF Counting, Drafted, Idle
    <3> QED
      BY <1>1, <2>1, <2>4, <3>2, StoreCounts DEF AllCounting
  <2> QED
    BY <1>3, <2>2, <2>3, <2>4 DEF ScriptStep
<1>4. CASE UNCHANGED apiVars
  BY <1>1, <1>4 DEF apiVars, AllCounting
<1> QED
  BY <1>2, <1>3, <1>4 DEF ApiNext, RequestStep, ScriptStep

LEMMA CountingAlways == ApiSpec => []AllCounting
<1>1. ASSUME ApiInit PROVE AllCounting
  <2>1. /\ DOMAIN looked = Scripts /\ counts = [opened |-> 0, updated |-> 0]
        /\ \A s \in Scripts : looked[s] = Nothing /\ work[s] = Idle
    BY <1>1 DEF ApiInit, Init, Scripts
  <2>2. \A s \in Scripts : Counting(s)
    BY <2>1 DEF Counting, Drafted, Idle
  <2> QED
    BY <2>1, <2>2 DEF AllCounting
<1>2. ApiInv /\ AllCounting /\ [ApiNext]_apiVars => AllCounting'
  BY NextCounting
<1> QED
  BY <1>1, <1>2, ApiInvariant, PTL DEF ApiSpec

\* Recorded, of a table that need not be the current one.
RecordedIn(table) ==
    UNION {{<<c, i>> : i \in DetectedIn(table[c].timeline)} : c \in DOMAIN table}

LEMMA RecordedNow ==
    Recorded = RecordedIn(cases) /\ Recorded' = RecordedIn(cases')
BY DEF Recorded, RecordedIn, DetectedIn, DetectionEvents

LEMMA RecordedPairs ==
    ASSUME NEW table
    PROVE  /\ \A p \in RecordedIn(table) :
                 \E c, i : c \in DOMAIN table /\ i \in DetectedIn(table[c].timeline) /\ p = <<c, i>>
           /\ \A c \in DOMAIN table : \A i \in DetectedIn(table[c].timeline) :
                 <<c, i>> \in RecordedIn(table)
<1>1. ASSUME NEW p \in RecordedIn(table)
      PROVE  \E c, i : c \in DOMAIN table /\ i \in DetectedIn(table[c].timeline) /\ p = <<c, i>>
  <2>1. PICK c \in DOMAIN table : p \in {<<c, i>> : i \in DetectedIn(table[c].timeline)}
    BY DEF RecordedIn
  <2> QED
    BY <2>1
<1>2. ASSUME NEW c \in DOMAIN table, NEW i \in DetectedIn(table[c].timeline)
      PROVE  <<c, i>> \in RecordedIn(table)
  <2>1. <<c, i>> \in {<<c, j>> : j \in DetectedIn(table[c].timeline)}
    OBVIOUS
  <2> QED
    BY <2>1 DEF RecordedIn
<1> QED
  BY <1>1, <1>2

\* The other cases tell what they told; the one that is committed tells what is given.
LEMMA RecordedChanged ==
    ASSUME NEW old, NEW new, NEW id,
           DOMAIN new = DOMAIN old \cup {id},
           \A c \in DOMAIN old : c # id => new[c] = old[c],
           NEW D, DetectedIn(new[id].timeline) =
              (IF id \in DOMAIN old THEN DetectedIn(old[id].timeline) ELSE {}) \cup D
    PROVE  RecordedIn(new) = RecordedIn(old) \cup {<<id, i>> : i \in D}
<1>1. ASSUME NEW p \in RecordedIn(new)
      PROVE  p \in RecordedIn(old) \cup {<<id, i>> : i \in D}
  <2>1. PICK c, i : c \in DOMAIN new /\ i \in DetectedIn(new[c].timeline) /\ p = <<c, i>>
    BY RecordedPairs
  <2>2. CASE c # id
    BY <2>1, <2>2, RecordedPairs
  <2>3. CASE c = id /\ i \in D
    BY <2>1, <2>3
  <2>4. CASE c = id /\ i \notin D
    <3>1. id \in DOMAIN old /\ i \in DetectedIn(old[id].timeline)
      BY <2>1, <2>4
    <3> QED
      BY <2>1, <2>4, <3>1, RecordedPairs
  <2> QED
    BY <2>2, <2>3, <2>4
<1>2. ASSUME NEW p \in RecordedIn(old)
      PROVE  p \in RecordedIn(new)
  <2>1. PICK c, i : c \in DOMAIN old /\ i \in DetectedIn(old[c].timeline) /\ p = <<c, i>>
    BY RecordedPairs
  <2>2. c \in DOMAIN new /\ i \in DetectedIn(new[c].timeline)
    BY <2>1
  <2> QED
    BY <2>1, <2>2, RecordedPairs
<1>3. ASSUME NEW i \in D
      PROVE  <<id, i>> \in RecordedIn(new)
  <2>1. id \in DOMAIN new /\ i \in DetectedIn(new[id].timeline)
    BY <1>3
  <2> QED
    BY <2>1, RecordedPairs
<1> QED
  BY <1>1, <1>2, <1>3

\* What an untorn commit adds to the detections on record.
LEMMA CommitRecords ==
    ASSUME IInv, DraftsFit, Voices, NEW w \in Workers, Persist(w), w \notin overlapped,
           NEW id, id = work[w].id
    PROVE  /\ w \in Requests /\ id \in DOMAIN cases => Recorded' = Recorded
           /\ w \notin Requests =>
                 \E n : Recorded' = Recorded \cup {<<id, n>>} /\ <<id, n>> \notin Recorded
<1> DEFINE row == work[w].row
<1>1. /\ row \in Row /\ cases'[id] = row
      /\ DOMAIN cases' = DOMAIN cases \cup {id}
      /\ \A c \in DOMAIN cases : c # id => cases'[c] = cases[c]
      /\ id \in DOMAIN cases =>
            \E e \in Event :
               /\ row.timeline = Append(cases[id].timeline, e)
               /\ row.key = cases[id].key
               /\ IF w \in Requests THEN Operator(e) ELSE e.type \in DetectionEvents
      /\ id \notin DOMAIN cases => NewCase(row) /\ RowsOf(row.key) = {}
  BY UntornCommit
<1> DEFINE was == IF id \in DOMAIN cases THEN DetectedIn(cases[id].timeline) ELSE {}
<1> HIDE DEF row, was
<1>2. ASSUME NEW D, DetectedIn(row.timeline) = was \cup D
      PROVE  Recorded' = Recorded \cup {<<id, i>> : i \in D}
  <2>1. DetectedIn(cases'[id].timeline) = was \cup D
    BY <1>1, <1>2
  <2>2. PICK old, new : old = cases /\ new = cases'
    OBVIOUS
  <2>3. RecordedIn(new) = RecordedIn(old) \cup {<<id, i>> : i \in D}
    BY <1>1, <2>1, <2>2, RecordedChanged DEF was
  <2> QED
    BY <2>2, <2>3, RecordedNow
<1>3. id \in DOMAIN cases => cases[id].timeline \in Seq(Event)
  BY DEF IInv, TypeOK, Row
<1>4. ASSUME w \in Requests, id \in DOMAIN cases
      PROVE  Recorded' = Recorded
  <2>1. PICK e \in Event : row.timeline = Append(cases[id].timeline, e) /\ Operator(e)
    BY <1>1, <1>4
  <2>2. DetectedIn(row.timeline) = was
    BY <1>3, <1>4, <2>1, PositionsCounted DEF was
  <2>3. PICK D : D = {}
    OBVIOUS
  <2>4. Recorded' = Recorded \cup {<<id, i>> : i \in D}
    BY <1>2, <2>2, <2>3
  <2>5. \A p : p \notin {<<id, i>> : i \in D}
    BY <2>3
  <2> QED
    BY <2>4, <2>5
<1>5. ASSUME w \notin Requests
      PROVE  \E n : Recorded' = Recorded \cup {<<id, n>>} /\ <<id, n>> \notin Recorded
  <2>1. PICK n : DetectedIn(row.timeline) = was \cup {n} /\ n \notin was
    <3>1. CASE id \in DOMAIN cases
      <4>1. PICK e \in Event : /\ row.timeline = Append(cases[id].timeline, e)
                               /\ e.type \in DetectionEvents
        BY <1>1, <1>5, <3>1
      <4>2. /\ DetectedIn(row.timeline) =
                  DetectedIn(cases[id].timeline) \cup {Len(cases[id].timeline) + 1}
            /\ Len(cases[id].timeline) + 1 \notin DOMAIN cases[id].timeline
        BY <1>3, <3>1, <4>1, PositionsAppended
      <4> QED
        BY <3>1, <4>2 DEF was, DetectedIn
    <3>2. CASE id \notin DOMAIN cases
      <4>1. DetectedIn(row.timeline) = {1}
        BY <1>1, <3>2, OpenedPositions
      <4> QED
        BY <3>2, <4>1 DEF was
    <3> QED
      BY <3>1, <3>2
  <2>2. PICK D : D = {n}
    OBVIOUS
  <2>3. Recorded' = Recorded \cup {<<id, n>>}
    <3>1. Recorded' = Recorded \cup {<<id, i>> : i \in D}
      BY <1>2, <2>1, <2>2
    <3>2. \A p : p \in {<<id, i>> : i \in D} <=> p = <<id, n>>
      BY <2>2
    <3> QED
      BY <3>1, <3>2
  <2>4. <<id, n>> \notin Recorded
    <3> SUFFICES ASSUME <<id, n>> \in RecordedIn(cases) PROVE FALSE
      BY RecordedNow
    <3>1. PICK table : table = cases
      OBVIOUS
    <3>2. PICK c, i : /\ c \in DOMAIN table /\ i \in DetectedIn(table[c].timeline)
                      /\ <<id, n>> = <<c, i>>
      BY <3>1, RecordedPairs
    <3>3. id \in DOMAIN cases /\ n \in DetectedIn(cases[id].timeline)
      BY <3>1, <3>2
    <3> QED
      BY <2>1, <3>3 DEF was
  <2> QED
    BY <2>3, <2>4
<1> QED
  BY <1>4, <1>5

\* Which keys have a case after an untorn commit.
LEMMA CommitKeys ==
    ASSUME IInv, DraftsFit, Voices, NEW w \in Workers, Persist(w), w \notin overlapped,
           NEW id, id = work[w].id, NEW key, key = work[w].row.key
    PROVE  /\ \A k : k # key => (RowsOf(k)' = {} <=> RowsOf(k) = {})
           /\ RowsOf(key)' # {}
           /\ RowsOf(key) = {} <=> id \notin DOMAIN cases
<1> DEFINE row == work[w].row
<1>1. /\ cases'[id] = row
      /\ DOMAIN cases' = DOMAIN cases \cup {id}
      /\ \A c \in DOMAIN cases : c # id => cases'[c] = cases[c]
      /\ id \in DOMAIN cases => row.key = cases[id].key
      /\ id \notin DOMAIN cases => RowsOf(key) = {}
  BY UntornCommit
<1>2. \A k : RowsOf(k) = {c \in DOMAIN cases : cases[c].key = k}
  BY DEF RowsOf
<1>3. \A k : RowsOf(k)' = {c \in DOMAIN cases' : cases'[c].key = k}
  BY DEF RowsOf
<1>4. row.key = key
  OBVIOUS
<1> HIDE DEF row
<1>5. ASSUME NEW k, k # key
      PROVE  RowsOf(k)' = RowsOf(k)
  BY <1>1, <1>2, <1>3, <1>4, <1>5
<1>6. id \in RowsOf(key)'
  BY <1>1, <1>3, <1>4
<1>7. id \in DOMAIN cases => id \in RowsOf(key)
  BY <1>1, <1>2, <1>4
<1> QED
  BY <1>1, <1>5, <1>6, <1>7

\* While nothing was torn: the figures add up, and what a script has looked up is
\* still so, unless another one stored the case meanwhile.
Tallied ==
    ~torn =>
       /\ IsFiniteSet(DOMAIN cases) /\ IsFiniteSet(Recorded)
       /\ counts.opened + counts.updated = Cardinality(Recorded)
       /\ counts.opened >= Cardinality(DOMAIN cases)
       /\ ~raced => counts.opened = Cardinality(DOMAIN cases)
       /\ \A s \in Scripts : looked[s] # Nothing =>
             /\ looked[s].as = "updated" => RowsOf(looked[s].key) # {}
             /\ ~raced /\ looked[s].as = "opened" => RowsOf(looked[s].key) = {}

LEMMA QuietTallied ==
    ASSUME Tallied, UNCHANGED <<cases, torn, counts, raced>>,
           \A s \in Scripts :
              \/ looked'[s] = looked[s]
              \/ \E key : looked'[s] =
                    [key |-> key, as |-> IF RowsOf(key) = {} THEN "opened" ELSE "updated"]
    PROVE  Tallied'
<1> SUFFICES ASSUME ~torn' PROVE Tallied'
  BY DEF Tallied
<1>1. Recorded' = Recorded
  BY RecordedNow DEF RecordedIn
<1>2. \A key : RowsOf(key)' = RowsOf(key)
  BY DEF RowsOf
<1>3. ASSUME NEW s \in Scripts, looked'[s] # Nothing
      PROVE  /\ looked'[s].as = "updated" => RowsOf(looked'[s].key) # {}
             /\ ~raced /\ looked'[s].as = "opened" => RowsOf(looked'[s].key) = {}
  <2>1. CASE looked'[s] = looked[s]
    BY <1>3, <2>1 DEF Tallied
  <2>2. ASSUME NEW key, looked'[s] =
                  [key |-> key, as |-> IF RowsOf(key) = {} THEN "opened" ELSE "updated"]
        PROVE  /\ looked'[s].as = "updated" => RowsOf(looked'[s].key) # {}
               /\ ~raced /\ looked'[s].as = "opened" => RowsOf(looked'[s].key) = {}
    <3>1. /\ looked'[s].key = key
          /\ looked'[s].as = IF RowsOf(key) = {} THEN "opened" ELSE "updated"
      BY <2>2
    <3>2. CASE RowsOf(key) = {}
      BY <3>1, <3>2
    <3>3. CASE RowsOf(key) # {}
      BY <3>1, <3>3
    <3> QED
      BY <3>2, <3>3
  <2> QED
    BY <2>1, <2>2
<1>4. PICK l : l = looked'
  OBVIOUS
<1>5. \A s \in Scripts : l[s] # Nothing =>
         /\ l[s].as = "updated" => RowsOf(l[s].key)' # {}
         /\ ~raced' /\ l[s].as = "opened" => RowsOf(l[s].key)' = {}
  BY <1>2, <1>3, <1>4
<1>6. \A s \in Scripts : looked'[s] # Nothing =>
         /\ looked'[s].as = "updated" => (RowsOf(looked[s].key))' # {}
         /\ ~raced' /\ looked'[s].as = "opened" => (RowsOf(looked[s].key))' = {}
  BY <1>4, <1>5 DEF RowsOf
<1> QED
  BY <1>1, <1>6 DEF Tallied

\* A request's write adds no detection and no case.
LEMMA WriteTallied ==
    ASSUME ApiInv, DraftsFit, Voices, Told, Tallied, NEW r \in Requests, Write(r)
    PROVE  Tallied'
<1> SUFFICES ASSUME ~torn' PROVE Tallied'
  BY DEF Tallied
<1>0. PICK id, key : id = work[r].id /\ key = work[r].row.key
  OBVIOUS
<1>1. /\ IInv /\ Requested /\ r \in Workers /\ OnItsWay(r)
      /\ Persist(r) /\ r \notin overlapped /\ ~torn
      /\ req[r].pc = "writing" /\ UNCHANGED tally
  BY RequestAssumption DEF ApiInv, AllPassed, ScopeKept, Write, At
<1>2. id \in DOMAIN cases
  BY <1>0, <1>1 DEF OnItsWay, Told
<1>3. DOMAIN cases' = DOMAIN cases
  BY <1>0, <1>1, <1>2, CommitSpeaks
<1>4. Recorded' = Recorded
  BY <1>0, <1>1, <1>2, CommitRecords
<1>5. \A k : RowsOf(k)' = {} <=> RowsOf(k) = {}
  BY <1>0, <1>1, <1>2, CommitKeys
<1>6. \A s \in Scripts : looked[s] # Nothing =>
         /\ looked[s].as = "updated" => RowsOf(looked[s].key) # {}
         /\ ~raced /\ looked[s].as = "opened" => RowsOf(looked[s].key) = {}
  BY <1>1 DEF Tallied
<1>7. PICK l : l = looked
  OBVIOUS
<1>8. \A s \in Scripts : l[s] # Nothing =>
         /\ l[s].as = "updated" => RowsOf(l[s].key)' # {}
         /\ ~raced /\ l[s].as = "opened" => RowsOf(l[s].key)' = {}
  BY <1>5, <1>6, <1>7
<1>9. l = looked' /\ UNCHANGED <<counts, raced>>
  BY <1>1, <1>7 DEF tally
<1>10. \A s \in Scripts : looked'[s] # Nothing =>
          /\ looked'[s].as = "updated" => RowsOf(looked[s].key)' # {}
          /\ ~raced' /\ looked'[s].as = "opened" => RowsOf(looked[s].key)' = {}
  BY <1>8, <1>9 DEF RowsOf
<1> QED
  BY <1>1, <1>3, <1>4, <1>9, <1>10 DEF Tallied

\* A script's adds one detection, and one case exactly when the key has none.
LEMMA StoreTallied ==
    ASSUME ApiInv, DraftsFit, Voices, Tallied, AllCounting, NEW s \in Scripts, Store(s)
    PROVE  Tallied'
<1> SUFFICES ASSUME ~torn' PROVE Tallied'
  BY DEF Tallied
<1>0. PICK id, key : id = work[s].id /\ key = work[s].row.key
  OBVIOUS
<1>1. /\ IInv /\ s \in Workers /\ s \notin Requests
      /\ Persist(s) /\ s \notin overlapped /\ ~torn
  BY DEF ApiInv, Scripts, Store
<1>2. /\ looked[s] # Nothing /\ looked[s].key = key
      /\ looked[s].as \in {"opened", "updated"}
      /\ looked'[s] = Nothing
      /\ \A u \in Scripts \ {s} : looked'[u] = looked[u]
      /\ counts'.opened = IF looked[s].as = "opened" THEN counts.opened + 1
                                                   ELSE counts.opened
      /\ counts'.opened + counts'.updated = counts.opened + counts.updated + 1
  <2>1. looked[s] # Nothing
    BY <1>1 DEF AllCounting, Counting, Persist, Drafted
  <2> QED
    BY <1>0, <2>1, StoreCounts
<1>3. DOMAIN cases' = DOMAIN cases \cup {id}
  BY <1>0, <1>1, CommitSpeaks
<1>4. PICK n : Recorded' = Recorded \cup {<<id, n>>} /\ <<id, n>> \notin Recorded
  BY <1>0, <1>1, CommitRecords
<1>5. /\ \A k : k # key => (RowsOf(k)' = {} <=> RowsOf(k) = {})
      /\ RowsOf(key)' # {}
      /\ RowsOf(key) = {} <=> id \notin DOMAIN cases
  BY <1>0, <1>1, CommitKeys
<1>6. /\ IsFiniteSet(DOMAIN cases) /\ IsFiniteSet(Recorded)
      /\ counts.opened + counts.updated = Cardinality(Recorded)
      /\ counts.opened >= Cardinality(DOMAIN cases)
      /\ ~raced => counts.opened = Cardinality(DOMAIN cases)
      /\ looked[s].as = "updated" => id \in DOMAIN cases
      /\ ~raced /\ looked[s].as = "opened" => id \notin DOMAIN cases
  BY <1>1, <1>2, <1>5 DEF Tallied
<1>7. /\ IsFiniteSet(DOMAIN cases')
      /\ Cardinality(DOMAIN cases') = IF id \in DOMAIN cases THEN Cardinality(DOMAIN cases)
                                      ELSE Cardinality(DOMAIN cases) + 1
  BY <1>3, <1>6, FS_AddElement
<1>8. IsFiniteSet(Recorded') /\ Cardinality(Recorded') = Cardinality(Recorded) + 1
  BY <1>4, <1>6, FS_AddElement
<1>9. counts.opened \in Nat /\ Cardinality(DOMAIN cases) \in Nat
  BY <1>6, FS_CardinalityType DEF AllCounting
<1>10. raced' = (raced \/ \E u \in Scripts \ {s} :
                             looked[u] = [key |-> key, as |-> "opened"])
  BY <1>2 DEF Store
<1>11. /\ counts'.opened >= Cardinality(DOMAIN cases')
       /\ ~raced' => counts'.opened = Cardinality(DOMAIN cases')
  <2>0. ~raced' => ~raced
    BY <1>10
  <2>1. CASE looked[s].as = "updated"
    <3>1. counts'.opened = counts.opened /\ id \in DOMAIN cases
      BY <1>2, <1>6, <2>1
    <3> QED
      BY <1>6, <1>7, <2>0, <3>1
  <2>2. CASE looked[s].as = "opened"
    <3>1. counts'.opened = counts.opened + 1 /\ (~raced => id \notin DOMAIN cases)
      BY <1>2, <1>6, <2>2
    <3>2. CASE id \in DOMAIN cases
      <4>1. Cardinality(DOMAIN cases') = Cardinality(DOMAIN cases)
        BY <1>7, <3>2
      <4> QED
        BY <1>6, <1>9, <2>0, <3>1, <3>2, <4>1
    <3>3. CASE id \notin DOMAIN cases
      <4>1. Cardinality(DOMAIN cases') = Cardinality(DOMAIN cases) + 1
        BY <1>7, <3>3
      <4> QED
        BY <1>6, <1>9, <2>0, <3>1, <4>1
    <3> QED
      BY <3>2, <3>3
  <2> QED
    BY <1>2, <2>1, <2>2
<1>12. ASSUME NEW u \in Scripts \ {s}, looked[u] # Nothing, NEW k, k = looked[u].key
       PROVE  /\ looked[u].as = "updated" => RowsOf(k)' # {}
              /\ ~raced' /\ looked[u].as = "opened" => RowsOf(k)' = {}
  <2>1. /\ looked[u].as = "updated" => RowsOf(k) # {}
        /\ ~raced /\ looked[u].as = "opened" => RowsOf(k) = {}
    BY <1>1, <1>12 DEF Tallied
  <2>2. looked[u].as = "opened" /\ ~raced' => k # key
    <3>1. PICK c \in Keys, how \in {"opened", "updated"} : looked[u] = [key |-> c, as |-> how]
      BY <1>12 DEF AllCounting, Counting
    <3> QED
      BY <1>10, <1>12, <3>1
  <2>3. ~raced' => ~raced
    BY <1>10
  <2> QED
    BY <1>5, <2>1, <2>2, <2>3
<1>13. ASSUME NEW u \in Scripts, looked'[u] # Nothing
       PROVE  /\ looked'[u].as = "updated" => RowsOf(looked[u].key)' # {}
              /\ ~raced' /\ looked'[u].as = "opened" => RowsOf(looked[u].key)' = {}
  <2>1. u # s /\ looked'[u] = looked[u]
    BY <1>2, <1>13
  <2>2. PICK k : k = looked[u].key
    OBVIOUS
  <2>3. /\ looked[u].as = "updated" => RowsOf(k)' # {}
        /\ ~raced' /\ looked[u].as = "opened" => RowsOf(k)' = {}
    BY <1>12, <1>13, <2>1, <2>2
  <2>4. k = looked'[u].key
    BY <2>1, <2>2
  <2>5. RowsOf(k)' = RowsOf(looked[u].key)'
    BY <2>4 DEF RowsOf
  <2> QED
    BY <2>1, <2>3, <2>5
<1> QED
  BY <1>2, <1>6, <1>7, <1>8, <1>11, <1>13 DEF Tallied

LEMMA NextTallied ==
    ASSUME ApiInv, DraftsFit, Voices, Told, AllCounting, Tallied, [ApiNext]_apiVars
    PROVE  Tallied'
<1>0. Requested
  BY DEF ApiInv, AllPassed
<1>1. ASSUME NEW r \in Requests, RequestStep(r)
      PROVE  Tallied'
  <2>1. CASE Write(r)
    BY <2>1, WriteTallied
  <2>2. CASE UNCHANGED <<cases, tally, torn>>
    BY <2>2, QuietTallied DEF tally
  <2>3. Write(r) \/ UNCHANGED <<cases, tally, torn>>
    BY <1>0, <1>1, RequestMoves DEF TableUnchanged, Done, Loaded
  <2> QED
    BY <2>1, <2>2, <2>3
<1>2. ASSUME NEW s \in Scripts, ScriptStep(s)
      PROVE  Tallied'
  <2>1. CASE Store(s)
    BY <2>1, StoreTallied
  <2>2. CASE Detect(s)
    <3>1. UNCHANGED <<cases, tally, torn>>
      BY <2>2 DEF Detect, StartDetection, DraftNewCase, DraftRedetection
    <3> QED
      BY <3>1, QuietTallied DEF tally
  <2>3. CASE LookUp(s)
    <3>1. UNCHANGED <<cases, counts, torn, raced>>
      BY <2>3 DEF LookUp
    <3>2. PICK key : looked' = [looked EXCEPT ![s] =
             [key |-> key, as |-> IF RowsOf(key) = {} THEN "opened" ELSE "updated"]]
      BY <2>3 DEF LookUp
    <3>3. \A u \in Scripts :
             \/ looked'[u] = looked[u]
             \/ looked'[u] =
                   [key |-> key, as |-> IF RowsOf(key) = {} THEN "opened" ELSE "updated"]
      BY <3>2 DEF AllCounting
    <3> QED
      BY <3>1, <3>3, QuietTallied
  <2> QED
    BY <1>2, <2>1, <2>2, <2>3 DEF ScriptStep
<1>3. CASE UNCHANGED apiVars
  BY <1>3, QuietTallied DEF apiVars
<1> QED
  BY <1>1, <1>2, <1>3 DEF ApiNext, RequestStep, ScriptStep

\* What the scripts report adds up to the detections the timelines tell; a case was
\* reported as opened at least once, and just once unless another script stored it
\* while one was counting.
THEOREM TrueCounts == ApiSpec => []ReportedCountsAreTrue
<1>1. ASSUME ApiInit PROVE Tallied
  <2>1. /\ DOMAIN cases = {} /\ counts = [opened |-> 0, updated |-> 0]
        /\ \A s \in Scripts : looked[s] = Nothing
    BY <1>1 DEF ApiInit, Init
  <2>2. Recorded = {}
    BY <2>1, RecordedNow DEF RecordedIn
  <2> QED
    BY <2>1, <2>2, FS_EmptySet DEF Tallied
<1>2. ApiInv /\ DraftsFit /\ Voices /\ Told /\ AllCounting /\ Tallied /\ [ApiNext]_apiVars =>
         Tallied'
  BY NextTallied
<1>3. Tallied => ReportedCountsAreTrue
  BY DEF Tallied, ReportedCountsAreTrue
<1> QED
  BY <1>1, <1>2, <1>3, ApiInvariant, StoreInvariants, VoicesAlways, ToldAlways,
     CountingAlways, PTL DEF ApiSpec

-----------------------------------------------------------------------------
(***************************************************************************)
(* The store keeps its promises under the API.                             *)
(***************************************************************************)
\* Whatever requests and scripts do, there is one row per problem, every timeline
\* is lawful and told by its columns, and only overlapping writes lose history.
THEOREM ApiKeepsCases ==
    ApiSpec => /\ [](/\ OneRowPerKey
                     /\ TimelinesAreLegal
                     /\ StatusFollowsTimeline
                     /\ ColumnsFollowTimeline)
               /\ LossNeedsOverlap
BY ApiFollowsStore, DedupeIsUnique, LegalTimelines, StatusOfTimeline, ColumnsOfTimeline,
   NoOverlapNoLoss, PTL

-----------------------------------------------------------------------------
(***************************************************************************)
(* A brief put together from three reads of one table tells one story.     *)
(***************************************************************************)
\* A list of at most three of n cases.
ListsThree(list, n) ==
    /\ \E rows : list.cases \in Seq(rows)
    /\ Len(list.cases) = IF 3 < n THEN 3 ELSE n

AllActionable(list) ==
    \A k \in DOMAIN list.cases : list.cases[k].row.status \in Actionable

\* What the i-th part of a brief says of the table as it is now.
Tells(b, i, part) ==
    /\ i = 1 => /\ part.actionable = Cardinality(ActionableCases(b))
                /\ part.degraded = Cardinality(DegradedCases(b))
    /\ i = 2 => ListsThree(part, Cardinality(ActionableCases(b)))
    /\ i = 3 => ListsThree(part, Cardinality(DegradedCases(b))) /\ AllActionable(part)

\* What the three parts say together, whichever table they were read from.
Story(summary, top, degraded) ==
    /\ summary.actionable \in Nat /\ summary.degraded \in Nat
    /\ summary.degraded <= summary.actionable
    /\ ListsThree(top, summary.actionable)
    /\ ListsThree(degraded, summary.degraded)
    /\ AllActionable(degraded)

LEMMA ListedThree ==
    ASSUME NEW rank, IsRanking(rank), NEW row
    PROVE  /\ ListsThree(Listed(rank, 3, row), Cardinality(DOMAIN rank))
           /\ \A k \in DOMAIN Listed(rank, 3, row).cases :
                 \E c \in DOMAIN rank : Listed(rank, 3, row).cases[k] = row[c]
<1> DEFINE n == IF 3 < Cardinality(DOMAIN rank) THEN 3 ELSE Cardinality(DOMAIN rank)
           shown == Top(rank, 3)
           rows == Listed(rank, 3, row).cases
<1>1. /\ n \in Nat
      /\ Len(shown) = n /\ DOMAIN shown = 1..n
      /\ \A i \in 1..n : shown[i] \in DOMAIN rank
  BY TopList
<1>2. rows = [i \in DOMAIN shown |-> row[shown[i]]]
  BY DEF Listed
<1> HIDE DEF n, shown, rows
<1>3. PICK R : R = {row[c] : c \in DOMAIN rank}
  OBVIOUS
<1>4. rows \in Seq(R) /\ Len(rows) = n /\ DOMAIN rows = 1..n
  <2>1. rows = [i \in 1..n |-> row[shown[i]]]
    BY <1>1, <1>2
  <2>2. \A i \in 1..n : row[shown[i]] \in R
    BY <1>1, <1>3
  <2>3. rows \in Seq(R)
    BY <1>1, <2>1, <2>2, SeqDef
  <2> QED
    BY <1>1, <2>1, <2>3
<1>5. \A k \in DOMAIN rows : \E c \in DOMAIN rank : rows[k] = row[c]
  BY <1>1, <1>2, <1>4
<1> QED
  BY <1>4, <1>5 DEF ListsThree, n, rows

LEMMA ReadTells ==
    ASSUME TypeOK, RowsAreLawful, IsFiniteSet(DOMAIN cases), NEW b, NEW i \in 1..3
    PROVE  Tells(b, i, Read(b, i))
<1>1. /\ ActionableCases(b) \in SUBSET DOMAIN cases
      /\ DegradedCases(b) \in SUBSET DOMAIN cases
  BY DEF ActionableCases, CasesOf, DegradedCases
<1>2. CASE i = 1
  BY <1>2 DEF Tells, Read, summarize_case_queue
<1>3. CASE i = 2
  <2> DEFINE rank == [c \in ActionableCases(b) |-> Priority(c)]
             row == AgedRows(b, now)
  <2>1. IsRanking(rank) /\ DOMAIN rank = ActionableCases(b)
    BY <1>1, PriorityRanks
  <2>2. Read(b, i) = Listed(rank, 3, row)
    BY <1>3 DEF Read, list_top_actionable_cases_by_priority, BriefLimit
  <2> HIDE DEF rank, row
  <2>3. ListsThree(Listed(rank, 3, row), Cardinality(DOMAIN rank))
    BY <2>1, ListedThree
  <2> QED
    BY <1>3, <2>1, <2>2, <2>3 DEF Tells
<1>4. CASE i = 3
  <2> DEFINE rank == [c \in DegradedCases(b) |-> Priority(c)]
             row == [c \in DegradedCases(b) |->
                       [row |-> Row1(c), age |-> Age(c, now),
                        freshness |-> WorstFreshness(c),
                        evidence_at |-> LatestEvidenceAt(c),
                        sources |-> SourceConnectors(c)]]
  <2>1. IsRanking(rank) /\ DOMAIN rank = DegradedCases(b)
    BY <1>1, PriorityRanks
  <2>2. Read(b, i) = Listed(rank, 3, row)
    BY <1>4 DEF Read, list_top_actionable_degraded_cases, BriefLimit
  <2>3. \A c \in DegradedCases(b) : row[c].row.status \in Actionable
    BY DEF Row1, Status, DegradedCases, ActionableCases
  <2> HIDE DEF rank, row
  <2>4. /\ ListsThree(Listed(rank, 3, row), Cardinality(DOMAIN rank))
        /\ \A k \in DOMAIN Listed(rank, 3, row).cases :
              \E c \in DOMAIN rank : Listed(rank, 3, row).cases[k] = row[c]
    BY <2>1, ListedThree
  <2>5. AllActionable(Listed(rank, 3, row))
    BY <2>1, <2>3, <2>4 DEF AllActionable
  <2> QED
    BY <1>4, <2>1, <2>2, <2>4, <2>5 DEF Tells
<1> QED
  BY <1>2, <1>3, <1>4

LEMMA PartsTell ==
    ASSUME IsFiniteSet(DOMAIN cases), NEW b, NEW summary, NEW top, NEW degraded,
           Tells(b, 1, summary), Tells(b, 2, top), Tells(b, 3, degraded)
    PROVE  Story(summary, top, degraded)
<1>1. /\ ActionableCases(b) \subseteq DOMAIN cases
      /\ DegradedCases(b) \subseteq ActionableCases(b)
  BY DEF ActionableCases, CasesOf, DegradedCases
<1>2. IsFiniteSet(ActionableCases(b))
  BY <1>1, FS_Subset
<1>3. /\ IsFiniteSet(DegradedCases(b))
      /\ Cardinality(DegradedCases(b)) <= Cardinality(ActionableCases(b))
  BY <1>1, <1>2, FS_Subset
<1>4. /\ Cardinality(ActionableCases(b)) \in Nat
      /\ Cardinality(DegradedCases(b)) \in Nat
  BY <1>2, <1>3, FS_CardinalityType
<1> QED
  BY <1>3, <1>4 DEF Tells, Story

\* A brief names a case exactly when the list it was read from does.
LEMMA NamesOfList ==
    ASSUME NEW rows, NEW list \in Seq(rows), Len(list) <= 3
    PROVE  [i \in DOMAIN First3(list) |-> First3(list)[i].row.case_id] = <<>>
              <=> Len(list) = 0
<1>1. Len(list) \in Nat /\ First3(list) = SubSeq(list, 1, Len(list))
  <2>1. Len(list) \in Nat
    BY LenProperties
  <2>2. PICK n \in Nat : n = Len(list) /\ n <= 3
    BY <2>1
  <2>3. (IF n < 3 THEN n ELSE 3) = n
    BY <2>2
  <2> QED
    BY <2>2, <2>3 DEF First3
<1>2. First3(list) \in Seq(rows) /\ Len(First3(list)) = Len(list)
  BY <1>1
<1>3. DOMAIN First3(list) = 1..Len(list)
  BY <1>2
<1>4. PICK names : names = [i \in DOMAIN First3(list) |-> First3(list)[i].row.case_id]
  OBVIOUS
<1>5. DOMAIN names = 1..Len(list)
  BY <1>3, <1>4
<1>6. ASSUME names = <<>> PROVE Len(list) = 0
  BY <1>1, <1>5, <1>6
<1>7. ASSUME Len(list) = 0 PROVE names = <<>>
  BY <1>3, <1>4, <1>7
<1> QED
  BY <1>4, <1>6, <1>7

LEMMA StoryTold ==
    ASSUME NEW summary, NEW top, NEW degraded, Story(summary, top, degraded)
    PROVE  LET brief == Brief(summary, top, degraded)
           IN /\ (brief.status = "clear") = (brief.next_actions = <<>>)
              /\ brief.policy.review_required = (brief.next_actions # <<>>)
              /\ (summary.degraded > 0) = (brief.evidence_actions # <<>>)
<1> DEFINE brief == Brief(summary, top, degraded)
           n == summary.actionable
           m == summary.degraded
<1>1. /\ n \in Nat /\ m \in Nat /\ m <= n
      /\ \E rows : top.cases \in Seq(rows)
      /\ Len(top.cases) = IF 3 < n THEN 3 ELSE n
      /\ \E rows : degraded.cases \in Seq(rows)
      /\ Len(degraded.cases) = IF 3 < m THEN 3 ELSE m
  BY DEF Story, ListsThree
<1>2. brief.next_actions = <<>> <=> Len(top.cases) = 0
  BY <1>1, NamesOfList DEF Brief
<1>3. brief.evidence_actions = <<>> <=> Len(degraded.cases) = 0
  BY <1>1, NamesOfList DEF Brief
<1>4. brief.status = "clear" <=> n = 0
  BY DEF Brief
<1>5. brief.policy.review_required <=> n > 0 \/ m > 0
  BY DEF Brief, DispatchPolicy
<1>6. brief.policy.review_required \in BOOLEAN
  BY DEF Brief, DispatchPolicy
<1> HIDE DEF brief, n, m
<1>7. (brief.status = "clear") = (brief.next_actions = <<>>)
  BY <1>1, <1>2, <1>4
<1>8. brief.policy.review_required = (brief.next_actions # <<>>)
  BY <1>1, <1>2, <1>5, <1>6
<1>9. (m > 0) = (brief.evidence_actions # <<>>)
  BY <1>1, <1>3
<1> QED
  BY <1>7, <1>8, <1>9 DEF brief, m

\* The parts a reader holds are those of the table as it is, unless a commit
\* overtook it; the parts of a brief that was answered told one story.
Reading(r) ==
    /\ req[r].pc = "idle" => req[r].read = <<>>
    /\ req[r].pc = "brief" =>
          /\ \E parts : req[r].read \in Seq(parts)
          /\ \/ req[r].overtaken
             \/ \A i \in DOMAIN req[r].read :
                   i \in 1..3 /\ Tells(Asked(r).business, i, req[r].read[i])
    /\ Answered(r, 200) /\ Asked(r).route = "brief" /\ ~req[r].overtaken =>
          Story(req[r].read[1], req[r].read[2], req[r].read[3])

AllReading == \A r \in Requests : Reading(r)

\* A request that keeps what it has read.
Holds(r) == req'[r].read = req[r].read /\ req'[r].overtaken = req[r].overtaken

LEMMA AnswerHolds ==
    ASSUME Requested, NEW r \in Requests, NEW code, Answer(r, code)
    PROVE  Holds(r) /\ \A u \in Requests \ {r} : req'[u] = req[u]
<1>1. /\ req'[r] = [req[r] EXCEPT !.pc = "answered", !.code = code]
      /\ \A u \in Requests \ {r} : req'[u] = req[u]
  BY DEF Answer, Requested
<1>2. IsRequest(req[r])
  BY DEF Requested
<1> QED
  BY <1>1, <1>2 DEF IsRequest, Holds

LEMMA GoHolds ==
    ASSUME Requested, NEW r \in Requests, NEW pc, Go(r, pc)
    PROVE  Holds(r) /\ \A u \in Requests \ {r} : req'[u] = req[u]
<1>1. /\ req'[r] = [req[r] EXCEPT !.pc = pc]
      /\ \A u \in Requests \ {r} : req'[u] = req[u]
  BY DEF Go, Requested
<1>2. IsRequest(req[r])
  BY DEF Requested
<1> QED
  BY <1>1, <1>2 DEF IsRequest, Holds

LEMMA ArrivesHolds ==
    ASSUME Requested, NEW r \in Requests, NEW ask, NEW pc, NEW code,
           Arrives(r, ask, pc, code)
    PROVE  Holds(r) /\ \A u \in Requests \ {r} : req'[u] = req[u]
<1>1. /\ req'[r] = [req[r] EXCEPT !.pc = pc, !.code = code, !.ask = ask]
      /\ \A u \in Requests \ {r} : req'[u] = req[u]
  BY DEF Arrives, Requested
<1>2. IsRequest(req[r])
  BY DEF Requested
<1> QED
  BY <1>1, <1>2 DEF IsRequest, Holds

\* Whoever moves without reading or committing keeps what it has read.
LEMMA StepHolds ==
    ASSUME Requested, NEW r \in Requests, RequestStep(r), ~ReadBrief(r), ~Write(r)
    PROVE  Holds(r) /\ \A u \in Requests \ {r} : req'[u] = req[u]
<1>1. \/ \E ask, pc, code : Arrives(r, ask, pc, code)
      \/ \E code : Answer(r, code)
      \/ \E pc : Go(r, pc)
  BY DEF RequestStep, Unauthenticated, Forbidden, Admitted, NotAllowed, BadRequest, Scope,
     Vanished, Conflict, Refuse, Load, Fail, AnswerBrief, ReadAudit
<1> QED
  BY <1>1, ArrivesHolds, AnswerHolds, GoHolds

\* While the table stands still, what a part says stays true.
LEMMA TellsStays ==
    ASSUME UNCHANGED cases, NEW b, NEW i, NEW part, Tells(b, i, part)
    PROVE  Tells(b, i, part)'
<1>1. \A c : Snapshots(c)' = Snapshots(c)
  <2>1. \A c : Detections(c)' = Detections(c)
    BY DEF Detections
  <2> QED
    BY <2>1 DEF Snapshots, Cited
<1>2. \A c : IsDegraded(c)' <=> IsDegraded(c)
  BY <1>1 DEF IsDegraded
<1>3. ActionableCases(b)' = ActionableCases(b)
  BY DEF ActionableCases, CasesOf
<1>4. DegradedCases(b)' = DegradedCases(b)
  BY <1>2, <1>3 DEF DegradedCases
<1> QED
  BY <1>3, <1>4 DEF Tells

LEMMA ReadingStays ==
    ASSUME UNCHANGED cases, NEW r \in Requests, Reading(r), Rests(r), Holds(r)
    PROVE  Reading(r)'
<1> DEFINE b == Asked(r).business
<1>1. /\ req'[r].pc = req[r].pc /\ req'[r].read = req[r].read
      /\ req'[r].overtaken = req[r].overtaken /\ Asked(r)' = Asked(r)
      /\ Answered(r, 200)' <=> Answered(r, 200)
  BY DEF Rests, Holds, Asked, Answered
<1>2. ASSUME NEW i, Tells(b, i, req[r].read[i])
      PROVE  (Tells(Asked(r).business, i, req[r].read[i]))'
  <2>1. PICK biz, part : biz = b /\ part = req[r].read[i]
    OBVIOUS
  <2>2. Tells(biz, i, part)'
    BY <1>2, <2>1, TellsStays
  <2>3. biz = Asked(r)'.business /\ part = req'[r].read[i]
    BY <1>1, <2>1
  <2> QED
    BY <2>2, <2>3 DEF Tells, ActionableCases, CasesOf, DegradedCases
<1> QED
  BY <1>1, <1>2 DEF Reading

\* A commit marks every reader that has read something.
LEMMA OvertakeReads ==
    ASSUME NEW asked, NEW r \in Requests, IsRequest(asked[r])
    PROVE  /\ asked[r].pc = "brief" /\ asked[r].read # <<>> => Overtake(asked)[r].overtaken
           /\ asked[r].pc # "brief" => Overtake(asked)[r] = asked[r]
BY DEF Overtake, IsRequest

LEMMA ReadingOvertaken ==
    ASSUME NEW r \in Requests, NEW asked, IsRequest(asked[r]), Reading(r),
           asked[r] = req[r], req'[r] = Overtake(asked)[r]
    PROVE  Reading(r)'
<1>1. /\ req'[r].pc = req[r].pc /\ req'[r].ask = req[r].ask
      /\ req'[r].code = req[r].code /\ req'[r].read = req[r].read
      /\ req[r].pc = "brief" /\ req[r].read # <<>> => req'[r].overtaken
      /\ req[r].pc # "brief" => req'[r] = req[r]
  BY OvertakeMarks, OvertakeReads
<1>2. DOMAIN << >> = {}
  OBVIOUS
<1> QED
  BY <1>1, <1>2 DEF Reading, Answered, Asked

LEMMA InitReading == ApiInit => AllReading
<1> SUFFICES ASSUME ApiInit PROVE AllReading
  OBVIOUS
<1>1. \A r \in Requests : req[r] = [pc |-> "idle", ask |-> NoAsk, code |-> 0,
                                  read |-> <<>>, overtaken |-> FALSE]
  BY DEF ApiInit
<1> QED
  BY <1>1 DEF AllReading, Reading, Answered

\* One more SELECT: the new part tells of the table it is read from, which is the
\* one the earlier parts were read from.
LEMMA ReadBriefReads ==
    ASSUME TypeOK, RowsAreLawful, IsFiniteSet(DOMAIN cases), AllPassed,
           NEW r \in Requests, Reading(r), ReadBrief(r)
    PROVE  Reading(r)' /\ \A u \in Requests \ {r} : req'[u] = req[u]
<1> DEFINE b == Asked(r).business
           n == Len(req[r].read)
           part == Read(b, n + 1)
           list == Append(req[r].read, part)
<1>0. IsRequest(req[r])
  BY DEF AllPassed, Requested
<1>1. req' = [req EXCEPT ![r].read = list] /\ req[r].pc = "brief" /\ n < 3 /\ UNCHANGED cases
  BY DEF ReadBrief, At, TableUnchanged
<1>2. PICK parts : req[r].read \in Seq(parts)
  BY <1>1 DEF Reading
<1>3. /\ list \in Seq(parts \cup {part})
      /\ DOMAIN list = 1..(n + 1) /\ n \in Nat
      /\ DOMAIN req[r].read = 1..n
      /\ list[n + 1] = part
      /\ \A i \in 1..n : list[i] = req[r].read[i]
  BY <1>2
<1>4. n + 1 \in 1..3
  BY <1>1, <1>3
<1>5. Tells(b, n + 1, part)
  BY <1>4, ReadTells
<1> HIDE DEF list, part, n, b
<1>6. /\ req'[r].read = list /\ req'[r].pc = "brief" /\ req'[r].ask = req[r].ask
      /\ req'[r].overtaken = req[r].overtaken
      /\ \A u \in Requests \ {r} : req'[u] = req[u]
  <2>1. /\ req'[r] = [req[r] EXCEPT !.read = list]
        /\ \A u \in Requests \ {r} : req'[u] = req[u]
    BY <1>1 DEF AllPassed, Requested
  <2> QED
    BY <1>0, <1>1, <2>1 DEF IsRequest
<1>7. ASSUME ~req[r].overtaken, NEW i \in DOMAIN list
      PROVE  i \in 1..3 /\ Tells(b, i, list[i])
  <2>1. CASE i = n + 1
    BY <1>3, <1>4, <1>5, <2>1
  <2>2. CASE i # n + 1
    <3>1. i \in DOMAIN req[r].read /\ list[i] = req[r].read[i]
      BY <1>3, <2>2
    <3>2. i \in 1..3 /\ Tells(b, i, req[r].read[i])
      BY <1>1, <1>7, <3>1 DEF Reading, b
    <3> QED
      BY <3>1, <3>2
  <2> QED
    BY <2>1, <2>2
<1>8. ASSUME ~req[r].overtaken, NEW i \in DOMAIN list
      PROVE  (i \in 1..3 /\ Tells(Asked(r).business, i, req[r].read[i]))'
  <2>1. PICK biz, p : biz = b /\ p = list[i]
    OBVIOUS
  <2>2. i \in 1..3 /\ Tells(biz, i, p)'
    BY <1>1, <1>7, <1>8, <2>1, TellsStays
  <2>3. biz = Asked(r)'.business /\ p = req'[r].read[i]
    BY <1>6, <2>1 DEF b, Asked
  <2> QED
    BY <2>2, <2>3 DEF Tells, ActionableCases, CasesOf, DegradedCases
<1> QED
  BY <1>3, <1>6, <1>8 DEF Reading, Answered

\* Others that do not move, while the table stands still.
LEMMA OthersReading ==
    ASSUME UNCHANGED cases, AllReading, NEW u \in Requests, req'[u] = req[u]
    PROVE  Reading(u)'
BY ReadingStays DEF AllReading, Rests, Holds

\* A request that is neither reading nor answered with a brief has nothing to tell.
LEMMA BecomesReading ==
    ASSUME NEW r \in Requests, NEW pc, NEW ask, NEW code, Becomes(r, pc, ask, code),
           pc \notin {"idle", "brief"}, pc # "answered" \/ code # 200
    PROVE  Reading(r)'
BY DEF Becomes, Reading, Answered

LEMMA ArrivalReading ==
    ASSUME NEW r \in Requests, Reading(r), Arrival(r), Holds(r)
    PROVE  Reading(r)'
<1>1. PICK ask \in Asks :
         \/ \E code \in {401, 403, 500} : Becomes(r, "answered", ask, code)
         \/ Becomes(r, ask.route, ask, 0)
  BY DEF Arrival
<1>2. CASE \E code \in {401, 403, 500} : Becomes(r, "answered", ask, code)
  BY <1>2, BecomesReading
<1>3. CASE Becomes(r, ask.route, ask, 0)
  <2>1. req'[r].pc \in {"action", "brief", "audit"}
    BY <1>3, RequestAssumption DEF Becomes
  <2>2. req'[r].read = <<>>
    BY DEF Arrival, Reading, Holds
  <2>3. <<>> \in Seq({}) /\ DOMAIN << >> = {}
    OBVIOUS
  <2> QED
    BY <2>1, <2>2, <2>3 DEF Reading, Answered
<1> QED
  BY <1>1, <1>2, <1>3

\* The brief is answered: its three parts were read from the table as it is.
LEMMA AnswerReading ==
    ASSUME IsFiniteSet(DOMAIN cases), AllPassed, NEW r \in Requests, Reading(r), AnswerBrief(r)
    PROVE  Reading(r)'
<1>1. /\ req[r].pc = "brief" /\ Len(req[r].read) = 3 /\ Requested
      /\ Answer(r, 200)
  BY DEF AnswerBrief, At, AllPassed
<1>2. Holds(r) /\ Becomes(r, "answered", req[r].ask, 200)
  BY <1>1, AnswerHolds, AnswerBecomes
<1>3. ASSUME ~req[r].overtaken
      PROVE  Story(req[r].read[1], req[r].read[2], req[r].read[3])
  <2>1. \A i \in DOMAIN req[r].read : Tells(Asked(r).business, i, req[r].read[i])
    BY <1>1, <1>3 DEF Reading
  <2>2. DOMAIN req[r].read = 1..3
    BY <1>1 DEF Reading
  <2> QED
    BY <2>1, <2>2, PartsTell
<1> QED
  BY <1>2, <1>3 DEF Holds, Becomes, Reading, Answered

LEMMA NextReading ==
    ASSUME TypeOK, RowsAreLawful, IsFiniteSet(DOMAIN cases), AllPassed, AllReading,
           [ApiNext]_apiVars
    PROVE  AllReading'
<1>0. /\ Requested
      /\ \A r \in Requests : Passed(r) /\ Reading(r) /\ IsRequest(req[r])
  BY DEF AllPassed, Requested, AllReading
<1>1. ASSUME NEW r \in Requests, RequestStep(r)
      PROVE  AllReading'
  <2>1. CASE Write(r)
    <3> DEFINE asked == [req EXCEPT ![r].pc = "answered", ![r].code = 200]
    <3>1. req' = Overtake(asked)
      BY <2>1 DEF Write
    <3>2. \A u \in Requests \ {r} : asked[u] = req[u]
      BY <1>0 DEF Requested
    <3> HIDE DEF asked
    <3>3. \A u \in Requests \ {r} : Reading(u)'
      BY <1>0, <3>1, <3>2, ReadingOvertaken
    <3>4. Asked(r).route = "action" /\ Becomes(r, "answered", req[r].ask, 200)
      BY <1>0, <2>1, WriteBecomes DEF Passed
    <3>5. Reading(r)'
      BY <3>4 DEF Reading, Becomes, Asked
    <3> QED
      BY <3>3, <3>5 DEF AllReading
  <2>2. CASE ReadBrief(r)
    <3>1. Reading(r)' /\ \A u \in Requests \ {r} : req'[u] = req[u]
      BY <1>0, <2>2, ReadBriefReads
    <3>2. UNCHANGED cases
      BY <2>2 DEF ReadBrief, TableUnchanged
    <3> QED
      BY <3>1, <3>2, OthersReading DEF AllReading
  <2>3. CASE ~Write(r) /\ ~ReadBrief(r)
    <3>1. Holds(r) /\ \A u \in Requests \ {r} : req'[u] = req[u]
      BY <1>0, <1>1, <2>3, StepHolds
    <3>2. UNCHANGED cases
      BY <1>0, <1>1, <2>3, RequestMoves DEF TableUnchanged, Done, Loaded
    <3>3. Reading(r)'
      <4>1. CASE \E ask \in Asks : Unauthenticated(r, ask) \/ Forbidden(r, ask) \/ Admitted(r, ask)
        BY <1>0, <3>1, <4>1, ArrivalStep, ArrivalReading
      <4>2. CASE NotAllowed(r) \/ BadRequest(r) \/ Conflict(r) \/ Scope(r)
        <5>1. Refusal(r) \/ Scoped(r)
          BY <1>0, <4>2, RefusalStep, ScopeStep
        <5> QED
          BY <5>1, BecomesReading DEF Refusal, Scoped
      <4>3. CASE Vanished(r) \/ Fail(r)
        <5>1. Becomes(r, "answered", req[r].ask, 500)
          BY <1>0, <4>3, AnswerBecomes DEF Vanished, Fail
        <5> QED
          BY <5>1, BecomesReading
      <4>4. CASE Load(r)
        <5>1. Becomes(r, "writing", req[r].ask, req[r].code)
          BY <1>0, <4>4, GoBecomes DEF Load
        <5> QED
          BY <5>1, BecomesReading
      <4>5. CASE AnswerBrief(r)
        BY <1>0, <4>5, AnswerReading
      <4>6. CASE ReadAudit(r)
        <5>1. Becomes(r, "answered", req[r].ask, 200) /\ Asked(r).route = "audit"
          BY <1>0, <4>6, AnswerBecomes DEF ReadAudit, At, Passed
        <5> QED
          BY <5>1 DEF Reading, Becomes, Asked
      <4> QED
        BY <1>1, <2>3, <4>1, <4>2, <4>3, <4>4, <4>5, <4>6 DEF RequestStep
    <3> QED
      BY <3>1, <3>2, <3>3, OthersReading DEF AllReading
  <2> QED
    BY <2>1, <2>2, <2>3
<1>2. ASSUME NEW s \in Scripts, ScriptStep(s)
      PROVE  AllReading'
  <2>1. CASE Store(s)
    BY <1>0, <2>1, ReadingOvertaken DEF Store, AllReading
  <2>2. CASE LookUp(s) \/ Detect(s)
    <3>1. UNCHANGED <<cases, req>>
      BY <2>2 DEF LookUp, Detect, StartDetection, DraftNewCase, DraftRedetection
    <3> QED
      BY <3>1, OthersReading DEF AllReading
  <2> QED
    BY <1>2, <2>1, <2>2 DEF ScriptStep
<1>3. CASE UNCHANGED apiVars
  <2>1. UNCHANGED <<cases, req>>
    BY <1>3 DEF apiVars
  <2> QED
    BY <2>1, OthersReading DEF AllReading
<1> QED
  BY <1>1, <1>2, <1>3 DEF ApiNext, RequestStep, ScriptStep

\* Unless a commit fell between its SELECTs, a brief asks for attention exactly
\* when it names a case to take and names evidence exactly when it counts degraded
\* cases, all of which it counts as actionable.
THEOREM OneStory == ApiSpec => []BriefTellsOneStory
<1>1. TypeOK /\ RowsAreLawful /\ IsFiniteSet(DOMAIN cases) /\ AllPassed /\ AllReading
         /\ [ApiNext]_apiVars => AllReading'
  BY NextReading
<1>2. AllReading => BriefTellsOneStory
  <2> SUFFICES ASSUME AllReading, NEW r \in Requests,
                      Answered(r, 200), Asked(r).route = "brief", ~req[r].overtaken
               PROVE  LET brief == BriefOf(r)
                          summary == req[r].read[1]
                      IN /\ (brief.status = "clear") = (brief.next_actions = <<>>)
                         /\ brief.policy.review_required = (brief.next_actions # <<>>)
                         /\ (summary.degraded > 0) = (brief.evidence_actions # <<>>)
                         /\ summary.degraded <= summary.actionable
                         /\ \A i \in DOMAIN req[r].read[3].cases :
                               req[r].read[3].cases[i].row.status \in Actionable
    BY DEF BriefTellsOneStory
  <2>1. Story(req[r].read[1], req[r].read[2], req[r].read[3])
    BY DEF AllReading, Reading
  <2>2. PICK summary, top, degraded :
           summary = req[r].read[1] /\ top = req[r].read[2] /\ degraded = req[r].read[3]
    OBVIOUS
  <2>3. Story(summary, top, degraded) /\ BriefOf(r) = Brief(summary, top, degraded)
    BY <2>1, <2>2 DEF BriefOf
  <2> QED
    BY <2>2, <2>3, StoryTold DEF Story, AllActionable
<1> QED
  BY <1>1, <1>2, InitReading, PassedAlways, ApiFollowsStore, RowsStayLawful, FiniteTable,
     TypeCorrect, PTL DEF ApiSpec
=============================================================================
