----------------------------- MODULE InternalApi -----------------------------
(***************************************************************************)
(* The internal operator API over the shared case table: every request is  *)
(* a thread with a connection of its own, is authenticated, authorised,    *)
(* scoped to the business of its route, and then mutates one case through  *)
(* apply_case_action or reads the operator brief in three SELECTs, while   *)
(* report scripts commit detections in between.                            *)
(*                                                                         *)
(* A request is a worker of CaseStore that serves once.  What it asks is a *)
(* record: the token, the role header, the businesses it is granted        *)
(* (AnyGrant when the header is not sent), the route with its business and *)
(* case, and for a case action its key, whether the payload is well formed *)
(* and whether the comment, owner or reason in it is usable.               *)
(***************************************************************************)
EXTENDS CaseQueues

CONSTANTS
    Requests,    \* the workers that are requests; the others are scripts
    Asks         \* what a request may ask

VARIABLES
    req,         \* per request: how far it is, its answer and what it has read
    audit,       \* operator_audit_events: the requests entered there, and why
    looked,      \* per script: the detection it is counting, and as what
    counts,      \* the opened_count and updated_count of all scripts
    torn,        \* history: a draft overtaken by another commit was written
    raced        \* history: a case was stored while a script counted it as new

apiVars ==
    <<cases, issued, now, work, overlapped, req, audit, looked, counts, torn, raced>>

tally == <<looked, counts, raced>>

Scripts == Workers \ Requests

ASSUME RequestAssumption ==
    /\ Requests \subseteq Workers
    /\ \A ask \in Asks : ask.route \in {"action", "brief", "audit"}

-----------------------------------------------------------------------------
(***************************************************************************)
(* operator_auth.py                                                        *)
(***************************************************************************)
AnyGrant == {"legacy"}    \* the grant header is not sent

ViewerPermissions == {"internal:read"}

RolePermissions ==
    [viewer |-> ViewerPermissions,
     operator |-> ViewerPermissions \cup {"case:action"},
     admin |-> ViewerPermissions \cup {"case:action", "operator_audit:read"}]

\* normalize_operator_role: no role header means operator.
RoleOf(ask) == IF ask.role = None THEN "operator" ELSE ask.role

MayDo(ask, permission) ==
    /\ RoleOf(ask) \in DOMAIN RolePermissions
    /\ permission \in RolePermissions[RoleOf(ask)]

\* require_internal_business_scope
InScope(ask) ==
    ask.grant = AnyGrant \/ "*" \in ask.grant \/ ask.business \in ask.grant

RoutePermission(route) ==
    IF route = "audit" THEN "operator_audit:read" ELSE "internal:read"

Authorized(ask) == InScope(ask) /\ MayDo(ask, RoutePermission(ask.route))

-----------------------------------------------------------------------------
NoAsk == [route |-> None]

Nothing == [as |-> None]

ApiInit ==
    /\ Init
    /\ req = [r \in Requests |-> [pc |-> "idle", ask |-> NoAsk, code |-> 0,
                                  read |-> <<>>, overtaken |-> FALSE]]
    /\ audit = {}
    /\ looked = [s \in Scripts |-> Nothing]
    /\ counts = [opened |-> 0, updated |-> 0]
    /\ torn = FALSE
    /\ raced = FALSE

At(r, pc) == r \in Requests /\ req[r].pc = pc

Go(r, pc) == req' = [req EXCEPT ![r].pc = pc]

Answer(r, code) == req' = [req EXCEPT ![r].pc = "answered", ![r].code = code]

\* The request arrives, and is answered or let in at once: what is looked at is
\* in the request alone.
Arrives(r, ask, pc, code) ==
    /\ At(r, "idle")
    /\ req' = [req EXCEPT ![r].pc = pc, ![r].code = code, ![r].ask = ask]

TableUnchanged == UNCHANGED <<cases, issued, now, work, overlapped, tally, torn>>

Entry(r, type) == [request |-> r, type |-> type]

Asked(r) == req[r].ask

\* Mutant: a refusal is answered without an entry.
Refuse_Silently(r, code, type) ==
    /\ Answer(r, code)
    /\ UNCHANGED audit
    /\ TableUnchanged

\* A refusal is appended to the audit, on a connection of its own, and then
\* answered; if the append raises, the answer is an internal error.
Refuse(r, code, type) ==
    /\ \/ audit' = audit \cup {Entry(r, type)} /\ Answer(r, code)
       \/ UNCHANGED audit /\ Answer(r, 500)
    /\ TableUnchanged

\* _authorize_internal_operator: a wrong token is audited as well as possible, a
\* missing one is not.
Unauthenticated(r, ask) ==
    /\ ask.token # "valid"
    /\ Arrives(r, ask, "answered", 401)
    /\ \/ UNCHANGED audit
       \/ ask.token = "wrong" /\ audit' = audit \cup {Entry(r, "authentication")}
    /\ TableUnchanged

\* _internal_principal_or_error with audit_denial
Forbidden(r, ask) ==
    /\ ask.token = "valid"
    /\ ~Authorized(ask)
    /\ \/ audit' = audit \cup {Entry(r, "authorization")} /\ Arrives(r, ask, "answered", 403)
       \/ UNCHANGED audit /\ Arrives(r, ask, "answered", 500)
    /\ TableUnchanged

Admitted(r, ask) ==
    /\ ask.token = "valid"
    /\ Authorized(ask)
    /\ Arrives(r, ask, ask.route, 0)
    /\ UNCHANGED audit
    /\ TableUnchanged
-----------------------------------------------------------------------------
(***************************************************************************)
(* POST .../cases/<case_id>/actions                                        *)
(***************************************************************************)
Targets == [acknowledge_case |-> "acknowledged", mark_in_progress |-> "in_progress",
            resolve_case |-> "resolved", dismiss_case |-> "dismissed"]

ActionKeys == DOMAIN Targets \cup {"add_comment", "assign_owner"}

NotAllowed(r) ==
    /\ At(r, "action")
    /\ ~MayDo(Asked(r), "case:action")
    /\ Refuse(r, 403, "case_action.denied")

\* What is refused before the case is looked at: a payload that is no object, an
\* unknown or disabled key, no actor.
BadRequest(r) ==
    /\ At(r, "action")
    /\ MayDo(Asked(r), "case:action")
    /\ ~Asked(r).wellFormed \/ Asked(r).key \notin ActionKeys
    /\ Refuse(r, 400, "case_action.failed")

\* Mutant: the case is found whatever its business.
Belongs_Exists(r) == Asked(r).case \in DOMAIN cases

\* get_scoped_case
Belongs(r) ==
    /\ Asked(r).case \in DOMAIN cases
    /\ Business[cases[Asked(r).case].key] = Asked(r).business

Scope(r) ==
    /\ At(r, "action")
    /\ MayDo(Asked(r), "case:action")
    /\ Asked(r).wellFormed
    /\ Asked(r).key \in ActionKeys
    /\ IF ~Belongs(r) THEN Refuse(r, 404, "case_action.failed")
       ELSE IF ~Asked(r).usable THEN Refuse(r, 400, "case_action.failed")
       ELSE Go(r, "scoped") /\ UNCHANGED audit /\ TableUnchanged

\* The row a mutation writes, and whether the lifecycle allows it.
Permitted(row, key) ==
    CASE key = "add_comment" -> TRUE
      [] key = "assign_owner" -> row.status \notin Terminal
      [] OTHER -> Targets[key] \in Transitions[row.status]

Mutated(row, key) ==
    CASE key = "add_comment" -> {Commented(row, now)}
      [] key = "assign_owner" -> {Assigned(row, who, now) : who \in Assignees}
      [] OTHER -> {Transitioned(row, Targets[key], now)}

\* _load_for_update: the row was replaced since get_scoped_case; KeyError.
Vanished(r) ==
    /\ At(r, "scoped")
    /\ Asked(r).case \notin DOMAIN cases
    /\ Answer(r, 500)
    /\ UNCHANGED audit
    /\ TableUnchanged

\* OperationalCaseStatusError
Conflict(r) ==
    /\ At(r, "scoped")
    /\ Asked(r).case \in DOMAIN cases
    /\ ~Permitted(cases[Asked(r).case], Asked(r).key)
    /\ Refuse(r, 409, "case_action.failed")

Load(r) ==
    /\ At(r, "scoped")
    /\ Asked(r).case \in DOMAIN cases
    /\ Permitted(cases[Asked(r).case], Asked(r).key)
    /\ \E row \in Mutated(cases[Asked(r).case], Asked(r).key) :
          DraftFrom(r, Asked(r).case, row)
    /\ Go(r, "writing")
    /\ UNCHANGED <<audit, tally, torn>>

\* Readers in the middle of a brief are overtaken by a commit.
Overtake(asked) ==
    [r \in Requests |->
        IF asked[r].pc = "brief" /\ asked[r].read # <<>>
        THEN [asked[r] EXCEPT !.overtaken = TRUE] ELSE asked[r]]

Write(r) ==
    /\ At(r, "writing")
    /\ Persist(r)
    /\ req' = Overtake([req EXCEPT ![r].pc = "answered", ![r].code = 200])
    /\ torn' = (torn \/ r \in overlapped)
    /\ UNCHANGED <<audit, tally>>

\* SQLite raises: the connection is closed, the answer is an internal error.
Fail(r) ==
    /\ At(r, "scoped") \/ At(r, "writing") \/ At(r, "brief")
    /\ Answer(r, 500)
    /\ work' = [work EXCEPT ![r] = Idle]
    /\ overlapped' = overlapped \ {r}
    /\ UNCHANGED <<cases, issued, now, audit, tally, torn>>
-----------------------------------------------------------------------------
(***************************************************************************)
(* GET .../operator-brief: a summary and two lists, one SELECT each.       *)
(***************************************************************************)
BriefLimit == 3

\* The three reads, in the order of get_mvp_operator_brief.
Read(b, i) ==
    CASE i = 1 -> summarize_case_queue(b)
      [] i = 2 -> list_top_actionable_cases_by_priority(b, BriefLimit, now)
      [] i = 3 -> list_top_actionable_degraded_cases(b, BriefLimit, now)

ReadBrief(r) ==
    /\ At(r, "brief")
    /\ Len(req[r].read) < 3
    /\ req' = [req EXCEPT ![r].read =
                 Append(@, Read(Asked(r).business, Len(req[r].read) + 1))]
    /\ UNCHANGED audit
    /\ TableUnchanged

BriefOf(r) == Brief(req[r].read[1], req[r].read[2], req[r].read[3])

AnswerBrief(r) ==
    /\ At(r, "brief")
    /\ Len(req[r].read) = 3
    /\ Answer(r, 200)
    /\ UNCHANGED audit
    /\ TableUnchanged

\* GET .../operator-audit-events shows what is there.
ReadAudit(r) ==
    /\ At(r, "audit")
    /\ Answer(r, 200)
    /\ UNCHANGED audit
    /\ TableUnchanged

-----------------------------------------------------------------------------
(***************************************************************************)
(* The report scripts: upsert_cases_from_report looks the case up to count *)
(* it as opened or updated, and then upserts the detection as in CaseStore.*)
(***************************************************************************)
LookUp(s) ==
    /\ work[s] = Idle
    /\ looked[s] = Nothing
    /\ \E key \in Keys :
          looked' = [looked EXCEPT ![s] =
             [key |-> key, as |-> IF RowsOf(key) = {} THEN "opened" ELSE "updated"]]
    /\ UNCHANGED <<cases, issued, now, work, overlapped, req, audit, counts, torn, raced>>

Detect(s) ==
    /\ looked[s] # Nothing
    /\ StartDetection(s) \/ DraftNewCase(s) \/ DraftRedetection(s)
    /\ work'[s].pc = "detecting" => work'[s].key = looked[s].key
    /\ UNCHANGED <<req, audit, tally, torn>>

\* Mutant: the case is looked up once it is stored.
CountedAs_Afterwards(s) == "updated"

CountedAs(s) == looked[s].as

Store(s) ==
    /\ Persist(s)
    /\ req' = Overtake(req)
    /\ looked' = [looked EXCEPT ![s] = Nothing]
    /\ counts' = [counts EXCEPT ![CountedAs(s)] = @ + 1]
    /\ raced' = (raced \/ \E u \in Scripts \ {s} :
                    looked[u] = [key |-> looked[s].key, as |-> "opened"])
    /\ torn' = (torn \/ s \in overlapped)
    /\ UNCHANGED audit

ApiNext ==
    \/ \E r \in Requests :
          \/ \E ask \in Asks :
                Unauthenticated(r, ask) \/ Forbidden(r, ask) \/ Admitted(r, ask)
          \/ NotAllowed(r) \/ BadRequest(r) \/ Scope(r)
          \/ Vanished(r) \/ Conflict(r) \/ Load(r) \/ Write(r) \/ Fail(r)
          \/ ReadBrief(r) \/ AnswerBrief(r) \/ ReadAudit(r)
    \/ \E s \in Scripts : LookUp(s) \/ Detect(s) \/ Store(s)

ApiSpec == ApiInit /\ [][ApiNext]_apiVars
-----------------------------------------------------------------------------
(***************************************************************************)
(* Correctness.                                                            *)
(***************************************************************************)
Answered(r, code) == req[r].pc = "answered" /\ req[r].code = code

OperatorEvents(c) ==
    {i \in DOMAIN cases[c].timeline : Operator(cases[c].timeline[i])}

Served(c) ==
    {r \in Requests : Answered(r, 200) /\ Asked(r).route = "action" /\ Asked(r).case = c}

Refusals == {400, 403, 404, 409}

\* docs/specs/internal-operator-api-contract.md: mutations "must be
\* tenant/business-scoped and audited".  Whatever else happens to the case
\* between its two reads and the write, an answered action is told exactly once:
\* by an event in the case's timeline when it was done, by an audit event when
\* it was refused, never by both.  Only a write that overtook another one can
\* take an event away again, and only it can make a case that was in scope
\* disappear from under the action.
ActionsAreTraceable ==
    /\ ~torn => \A c \in DOMAIN cases :
                   Cardinality(OperatorEvents(c)) = Cardinality(Served(c))
    /\ \A r \in Requests :
          /\ req[r].code \in Refusals => \E e \in audit : e.request = r
          /\ \A e \in audit : e.request = r => req[r].code \in Refusals \cup {401}
          /\ Cardinality({e \in audit : e.request = r}) <= 1
          /\ At(r, "scoped") /\ Asked(r).case \notin DOMAIN cases => torn

Recorded ==
    UNION {{<<c, i>> : i \in {j \in DOMAIN cases[c].timeline :
                                 cases[c].timeline[j].type \in DetectionEvents}} :
           c \in DOMAIN cases}

\* The runs report how many cases they opened and updated.  What they report adds
\* up to the detections the timelines tell, a case was reported as opened at least
\* once, and just once unless another script stored it while one was counting.
ReportedCountsAreTrue ==
    ~torn =>
       /\ counts.opened + counts.updated = Cardinality(Recorded)
       /\ counts.opened >= Cardinality(DOMAIN cases)
       /\ ~raced => counts.opened = Cardinality(DOMAIN cases)

\* The case an operator's write changes belongs to the business of the route, and
\* the operator was granted that business, although scope, grant and role were
\* looked at long before the write and the write is by case id alone.
WritesStayInScope ==
    [][\A r \in Requests : req[r].pc = "writing" =>
          \A c \in DOMAIN cases \cup DOMAIN cases' :
             \/ req'[r].pc # "answered" \/ req'[r].code # 200
             \/ c \in DOMAIN cases \cap DOMAIN cases' /\ cases[c] = cases'[c]
             \/ LET row == IF c \in DOMAIN cases THEN cases[c] ELSE cases'[c]
                IN /\ Business[row.key] = Asked(r).business
                   /\ Asked(r).grant \cap {"legacy", "*", Asked(r).business} # {}
                   /\ Asked(r).role \in {None, "operator", "admin"}
                   /\ Asked(r).token = "valid"]_apiVars

\* A brief is put together from three SELECTs.  If nothing was committed between
\* them its parts tell one story: it asks for attention and for a review exactly
\* when it names a case to take, it names evidence to check exactly when it counts
\* degraded cases, each of which it also counts as actionable.
BriefTellsOneStory ==
    \A r \in Requests :
       (Answered(r, 200) /\ Asked(r).route = "brief" /\ ~req[r].overtaken) =>
          LET brief == BriefOf(r)
              summary == req[r].read[1]
          IN /\ (brief.status = "clear") = (brief.next_actions = <<>>)
             /\ brief.policy.review_required = (brief.next_actions # <<>>)
             /\ (summary.degraded > 0) = (brief.evidence_actions # <<>>)
             /\ summary.degraded <= summary.actionable
             /\ \A i \in DOMAIN req[r].read[3].cases :
                   req[r].read[3].cases[i].row.status \in Actionable
=============================================================================
