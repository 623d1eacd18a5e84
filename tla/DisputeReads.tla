----------------------------- MODULE DisputeReads ----------------------------
(***************************************************************************)
(* The read side (internal/api: filters.go, store.go, summary.go,          *)
(* handler.go): the dashboard pages through disputes, exports them, opens  *)
(* one or looks at the summary, while disputes are filed, decided and      *)
(* handed back.  An answer is put together from several statements, each   *)
(* of which sees the tables at a moment of its own.  Readers share nothing *)
(* but the tables, so there is one at a time here.                         *)
(***************************************************************************)
EXTENDS Integers, Sequences, SequencesExt, FiniteSets

CONSTANTS
  Disputes,      (* by their ids                                            *)
  DeadlineOf,    (* what lists are sorted by here                           *)
  HistoryBefore, (* what has become of them at first                        *)
  ClaimedBefore, (* those an agent holds at first                           *)
  Booked,        (* those a refund of which posts something: not where the  *)
                 (* currency has no accounts, or nothing is left to return  *)
  Due,           (* the latest deadline inside due_within                   *)
  DefaultLimit, MaxLimit, MaxOffset,
  Limits,        (* what ?limit= may be; None without, 0 for what is refused *)
  MaxWrites,     (* bound: disputes filed and moved                         *)
  MaxFaults,     (* bound: statements that fail                             *)
  None

State == {"received", "resolving", "draft_ready", "refunded", "represented", "expired"}

(* A claim and its release write no event.                                 *)
Told == State \ {"resolving"}

ASSUME ReadsAssumption ==
  /\ Disputes \subseteq Nat /\ IsFiniteSet(Disputes) /\ Booked \subseteq Disputes
  /\ DeadlineOf \in [Disputes -> Nat] /\ Due \in Nat
  /\ HistoryBefore \in [Disputes -> Seq(Told)] /\ ClaimedBefore \subseteq Disputes
  /\ \A d \in ClaimedBefore : HistoryBefore[d] # <<>> /\ Last(HistoryBefore[d]) = "received"
  /\ DefaultLimit \in 1..MaxLimit /\ MaxLimit \in Nat /\ MaxOffset \in Nat
  /\ Limits \subseteq Nat \cup {None}
  /\ MaxWrites \in Nat /\ MaxFaults \in Nat

VARIABLES
  history,       (* the states a dispute's dispute_events tell of, oldest   *)
                 (* first: its row holds the last                           *)
  claimed,       (* but for those an agent holds                            *)
  writes,        (* how often a dispute has been filed, moved or claimed    *)
  job,           (* what is being read, or how that ended                   *)
  since, before, (* writes and the open disputes when it began              *)
  request,       (* the request being answered                              *)
  seen,          (* the rows the reader has been shown                      *)
  faults

tableVars == <<history, claimed, writes>>

Filed == {d \in Disputes : history[d] # <<>>}

StateOf(d) == IF d \in claimed THEN "resolving" ELSE Last(history[d])

(* What the worker, the agent and a reviewer make of a dispute.            *)
Moves == {<<"received", "refunded">>, <<"received", "expired">>,
          <<"resolving", "draft_ready">>, <<"resolving", "received">>, <<"resolving", "expired">>,
          <<"draft_ready", "received">>, <<"draft_ready", "represented">>,
          <<"draft_ready", "expired">>}

Open == {d \in Filed : StateOf(d) \in {"received", "resolving"}}

-----------------------------------------------------------------------------
(* Filters, and the statements they end up in.                             *)

(* A query names every dispute, those on the clock, or those of them that  *)
(* are due, and anything the schema could never hold is refused.           *)
Filter == {"all", "open", "due"}

Matching(filter) ==
  CASE filter = "all" -> Filed
    [] filter = "open" -> Open
    [] filter = "due" -> {d \in Open : DeadlineOf[d] <= Due}

Earlier(a, b) == DeadlineOf[a] < DeadlineOf[b] \/ (DeadlineOf[a] = DeadlineOf[b] /\ a < b)

(* A seeded bug: d.id breaks no ties.                                      *)
OrdersByDeadline(rows) ==
  {s \in SetToSeqs(rows) : \A i, j \in DOMAIN s : i < j => DeadlineOf[s[i]] <= DeadlineOf[s[j]]}

InOrder(rows) == \A i, j \in DOMAIN rows : i < j => Earlier(rows[i], rows[j])

(* orderBy: the orders a statement may answer its rows in.                 *)
Orders(rows) == {s \in SetToSeqs(rows) : InOrder(s)}

Least(a, b) == IF a < b THEN a ELSE b

Window(rows, limit, offset) == SubSeq(rows, offset + 1, Least(offset + limit, Len(rows)))

OpenClause == Open

Request == [kind : {"list", "export", "detail", "summary", "history"}, filter : Filter,
            limit : Nat, offset : Nat, id : Nat]

(* The statements, each with what it may answer now.  A customer's         *)
(* disputes are all of them here, and nothing breaks the ties of when they *)
(* were opened.                                                            *)
PageOf(q) == {Window(s, q.limit, q.offset) : s \in Orders(Matching(q.filter))}

CountOf(q) == {Cardinality(Matching(q.filter))}

RowsOf(q) == Orders(Matching(q.filter))

RowOf(q) == {IF q.id \in Filed THEN StateOf(q.id) ELSE "missing"}

EventsOf(q) == {history[q.id]}

PostingsOf(q) == {q.id \in Booked /\ "refunded" \in ToSet(history[q.id])}

PriorOf(q) == {Window(s, q.limit, 0) : s \in SetToSeqs(Filed)}

StatesNow == {[filed |-> Cardinality(Filed), open |-> Cardinality(Open)]}

ExposureNow == {Cardinality(OpenClause)}

(* Over all of its buckets, the empty ones included.                       *)
DeadlinesNow == {Cardinality(OpenClause)}

DailyNow == {Cardinality(Filed)}

Answers(q, part) ==
  CASE part = "page"      -> PageOf(q)
    [] part = "count"     -> CountOf(q)
    [] part = "rows"      -> RowsOf(q)
    [] part = "row"       -> RowOf(q)
    [] part = "events"    -> EventsOf(q)
    [] part = "postings"  -> PostingsOf(q)
    [] part = "prior"     -> PriorOf(q)
    [] part = "states"    -> StatesNow
    [] part = "exposure"  -> ExposureNow
    [] part = "deadlines" -> DeadlinesNow
    [] part = "daily"     -> DailyNow

Parts(kind) ==
  CASE kind = "list"    -> {"page", "count"}
    [] kind = "export"  -> {"rows"}
    [] kind = "detail"  -> {"row", "events", "postings"}
    [] kind = "history" -> {"prior"}
    [] kind = "summary" -> {"states", "exposure", "deadlines", "daily"}

(* A seeded bug: the audit trail first, then the row it is about.          *)
EventsFirst(part) ==
  CASE part = "row" -> {"events"} [] part = "postings" -> {"row", "events"} [] OTHER -> {}

(* The statements of a list or a summary run side by side, those of a      *)
(* dispute's page one after the other.                                     *)
After(part) ==
  CASE part = "events" -> {"row"} [] part = "postings" -> {"row", "events"} [] OTHER -> {}

(* A request on its way: what it asks, and what has been answered.         *)
Sent(kind, filter, limit, offset, id) ==
  [kind |-> kind, filter |-> filter, limit |-> limit, offset |-> offset, id |-> id,
   answers |-> [part \in {} |-> None]]

NotFound(q) == "row" \in DOMAIN q.answers /\ q.answers["row"] = "missing"

Answered(q) == NotFound(q) \/ DOMAIN q.answers = Parts(q.kind)

(* What a request may be after one more statement.                         *)
OneMore(q) ==
  IF Answered(q) THEN {}
  ELSE UNION {{[q EXCEPT !.answers = [p \in DOMAIN q.answers \cup {part} |->
                                        IF p = part THEN answer ELSE q.answers[p]]]
               : answer \in Answers(q, part)}
              : part \in {p \in Parts(q.kind) \ DOMAIN q.answers :
                            After(p) \subseteq DOMAIN q.answers}}

-----------------------------------------------------------------------------

Reading == {"walk", "export", "detail", "summary", "question"}

Ended == {"refused", "walked", "too deep", "exported", "cut off", "shown", "not found",
          "failed", "asked"}

ReadsTypeOK ==
  /\ \A d \in Disputes : history[d] \in Seq(Told)
  /\ claimed \subseteq Filed
  /\ writes \in Nat /\ since \in 0..writes /\ before \subseteq Disputes
  /\ job \in {"idle"} \cup Reading \cup Ended
  /\ request # None =>
       /\ [field \in DOMAIN request \ {"answers"} |-> request[field]] \in Request
       /\ DOMAIN request.answers \subseteq Parts(request.kind)
       /\ request.limit \in 1..MaxLimit /\ request.offset \in 0..MaxOffset
  /\ seen \in Seq(Disputes)
  /\ faults \in Nat

ReadsInit ==
  /\ history = HistoryBefore /\ claimed = ClaimedBefore /\ writes = 0
  /\ job = "idle" /\ since = 0 /\ before = {}
  /\ request = None /\ seen = <<>>
  /\ faults = 0

Fault == faults < MaxFaults /\ faults' = faults + 1

(* A dispute is filed, or moves: its row, its event and what it posts are  *)
(* one transaction.                                                        *)
Move(d) ==
  \E to \in Told :
    /\ IF d \in Filed THEN <<StateOf(d), to>> \in Moves ELSE to = "received"
    /\ history' = [history EXCEPT ![d] = Append(@, to)]
    /\ claimed' = claimed \ {d}

(* Its row alone changes.                                                  *)
Hold(d) ==
  /\ d \in Filed /\ StateOf(d) = "received"
  /\ claimed' = claimed \cup {d}
  /\ UNCHANGED history

Release(d) ==
  /\ d \in claimed
  /\ claimed' = claimed \ {d}
  /\ UNCHANGED history

(* Bound: nothing is written once the reader is done.                      *)
Write ==
  /\ writes < MaxWrites /\ job \notin Ended
  /\ writes' = writes + 1
  /\ \E d \in Disputes : Move(d) \/ Hold(d) \/ Release(d)
  /\ UNCHANGED <<job, since, before, request, seen, faults>>

Begin(kind) ==
  /\ job = "idle"
  /\ job' = kind
  /\ since' = writes /\ before' = Open
  /\ UNCHANGED <<tableVars, seen, faults>>

EndsAs(how) ==
  /\ job' = how
  /\ UNCHANGED <<tableVars, since, before, request, seen, faults>>

(* One more statement of the request.                                      *)
ReadOne ==
  /\ job \in Reading /\ request # None
  /\ request' \in OneMore(request)
  /\ UNCHANGED <<tableVars, job, since, before, seen, faults>>

(* A statement fails, which cancels the others and is a 500; or the time   *)
(* the route allows has run out.                                           *)
ReadFails ==
  /\ job \in Reading /\ request # None /\ ~Answered(request)
  /\ Fault
  /\ job' = "failed"
  /\ UNCHANGED <<tableVars, since, before, request, seen>>

-----------------------------------------------------------------------------
(* Page after page, as the dashboard does it.                              *)

(* parseLimit: absent, clamped, or as asked.                               *)
ParseLimit(asked) == IF asked = None THEN DefaultLimit ELSE Least(asked, MaxLimit)

OpenList(filter, limit, offset) == Sent("list", filter, limit, offset, 0)

StartWalk(asked) ==
  /\ asked # 0
  /\ Begin("walk")
  /\ request' = OpenList("open", ParseLimit(asked), 0)

(* No positive integer, an unknown state, or an unknown sort.              *)
RefusesQuery ==
  /\ Begin("refused")
  /\ request' = None

NextOffset(q) == q.offset + q.limit

NextPage ==
  /\ job = "walk" /\ Answered(request)
  /\ seen' = seen \o request.answers["page"]
  /\ LET next == NextOffset(request)
     IN IF next >= request.answers["count"]
        THEN job' = "walked" /\ UNCHANGED request
        ELSE IF next > MaxOffset
             THEN job' = "too deep" /\ UNCHANGED request
             ELSE request' = OpenList("open", request.limit, next) /\ UNCHANGED job
  /\ UNCHANGED <<tableVars, since, before, faults>>

-----------------------------------------------------------------------------
(* The export, a dispute's page, and the summary.                          *)

(* StreamCSV pays no attention to limit and offset.                        *)
Streamed(q) == q.answers["rows"]

StartExport ==
  /\ Begin("export")
  /\ request' \in OneMore(Sent("export", "open", DefaultLimit, 0, 0))

Export ==
  /\ job = "export" /\ Answered(request)
  /\ seen' = Streamed(request)
  /\ job' = "exported"
  /\ UNCHANGED <<tableVars, since, before, request, faults>>

(* The status line has long been sent: the file just ends.                 *)
CutOff ==
  /\ job = "export" /\ Answered(request)
  /\ Fault
  /\ job' = "cut off"
  /\ \E n \in 0..Len(Streamed(request)) : seen' = SubSeq(Streamed(request), 1, n)
  /\ UNCHANGED <<tableVars, since, before, request>>

StartDetail ==
  /\ Begin("detail")
  /\ \E d \in Disputes : request' = Sent("detail", "all", DefaultLimit, 0, d)

StartSummary ==
  /\ Begin("summary")
  /\ request' = Sent("summary", "all", DefaultLimit, 0, 0)

Show ==
  /\ job \in {"detail", "summary"} /\ Answered(request)
  /\ EndsAs(IF NotFound(request) THEN "not found" ELSE "shown")

ReadsNext ==
  \/ Write
  \/ \E asked \in Limits : StartWalk(asked)
  \/ RefusesQuery
  \/ ReadOne \/ ReadFails
  \/ NextPage
  \/ StartExport \/ Export \/ CutOff
  \/ StartDetail \/ StartSummary \/ Show

-----------------------------------------------------------------------------
(* What a reader may rely on.                                              *)

(* A list comes whole.  If nothing changed meanwhile, paging shows every   *)
(* open dispute once, in the order of their deadlines: "without it two     *)
(* rows ... can swap places between page 1 and page 2, and a row is shown  *)
(* twice while another is never shown at all".  An export is what was open *)
(* when it began, whatever changed while it was sent, and as much of that  *)
(* as got through when it is cut off.                                      *)
ListsWhole ==
  /\ job = "walked" /\ writes = since => InOrder(seen) /\ ToSet(seen) = Open
  /\ job = "exported" => InOrder(seen) /\ ToSet(seen) = before
  /\ job = "cut off" =>
       /\ InOrder(seen) /\ ToSet(seen) \subseteq before
       /\ \A i \in DOMAIN seen, d \in before \ ToSet(seen) : Earlier(seen[i], d)

Distance(a, b) == IF a < b THEN b - a ELSE a - b

(* Events tell of a state, or of the one a claim was made in.              *)
ToldIn(state, events) ==
  (IF state = "resolving" THEN "received" ELSE state) \in events

(* What is put together from several statements hangs together, however    *)
(* the disputes move while it is read.  Of a dispute's page: the state it  *)
(* shows is among the events it shows, or a claim, which leaves no event,  *)
(* of one that is; it is the last of them when nothing was written; and a  *)
(* refund among the events that posted anything is among the postings.     *)
(* The four panels of the summary differ by no more than what was written  *)
(* while it was read: not at all when nothing was.                         *)
HangsTogether ==
  job = "shown" =>
    LET shown == request.answers
        slack == writes - since
    IN /\ request.kind = "detail" =>
            /\ ToldIn(shown["row"], ToSet(shown["events"]))
            /\ slack = 0 => ToldIn(shown["row"], {Last(shown["events"])})
            /\ "refunded" \in ToSet(shown["events"]) /\ request.id \in Booked =>
                 shown["postings"]
       /\ request.kind = "summary" =>
            /\ Distance(shown["states"].open, shown["exposure"]) <= slack
            /\ Distance(shown["exposure"], shown["deadlines"]) <= slack
            /\ Distance(shown["states"].filed, shown["daily"]) <= slack
=============================================================================
