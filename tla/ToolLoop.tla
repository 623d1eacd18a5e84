------------------------------- MODULE ToolLoop ------------------------------
(***************************************************************************)
(* One question to the operator's assistant (cmd/ask, internal/toolloop:   *)
(* loop.go, tools.go; internal/disputetools): a model is sent the          *)
(* conversation, asks for tools, is sent their results, and so on until it *)
(* ends or is stopped.  The tools of one turn run side by side and read    *)
(* what DisputeReads reads.                                                *)
(***************************************************************************)
EXTENDS DisputeReads

CONSTANTS
  Asks,          (* the tool calls the model may come up with               *)
  MaxUses,       (* bound: tool calls in one response                       *)
  MaxParallel,   (* maxParallelTools                                        *)
  DefaultRows, MaxRows,
  MaxSize,       (* maxResultBytes, counted in rows and lines               *)
  MaxTurns, MaxCost, (* the Budget; no ceiling on the cost when 0           *)
  MaxAttempts,   (* maxAttempts                                             *)
  Prices, MaxPrice   (* what a response costs, and at most                  *)

Rule == {"none", "unknown_tool", "invalid_arguments", "not_found", "result_too_large"}

Tools == {"list_disputes", "get_dispute", "get_customer_history", "queue_summary"}

(* What is wrong with the other calls.                                     *)
Wrongs == {"unknown", "undecodable", "bad window"}

ASSUME LoopAssumption ==
  /\ Asks \subseteq [tool : Tools \cup Wrongs, filter : Filter, limit : Int, id : Nat]
  /\ MaxUses \in Nat /\ MaxParallel \in Nat \ {0}
  /\ DefaultRows \in 1..MaxRows /\ MaxRows \in 1..MaxLimit /\ MaxSize \in Nat
  /\ MaxTurns \in Nat /\ MaxCost \in Nat /\ MaxAttempts \in Nat \ {0}
  /\ MaxPrice \in Nat /\ Prices \subseteq 0..MaxPrice
  /\ None \notin [use : Nat, tool : Asks, rule : Rule]

VARIABLES
  stage,         (* where Run is: before a turn, running tools, or returned *)
  turn,          (* turns finished                                          *)
  halt,          (* Result.Halt                                             *)
  cost,          (* Result.CostMicros                                       *)
  price,         (* CostMicros of the turn whose tools are running          *)
  attempt,       (* Complete: which of its attempts is next                 *)
  billed,        (* what the provider has charged                           *)
  wasted,        (* for responses that were no use, of that                 *)
  calls,         (* runTools: the calls of this turn, in the order asked    *)
  cancelled,     (* groupCtx                                                *)
  expired,       (* ctx: the wall clock ceiling, or a signal                *)
  traced         (* ToolCalls of the turn recorded last                     *)

accounts == <<cost, price, attempt, billed, wasted>>

loopVars == <<stage, turn, halt, accounts, calls, cancelled, expired, traced>>

vars == <<tableVars, job, since, before, request, seen, faults, loopVars>>

Halt == {"completed", "turn_ceiling", "budget_exceeded", "output_truncated",
         "unexpected_stop_reason"}

(* What a call asks, how far it is, writes when it started, the request it *)
(* makes, and which rule refused it.                                       *)
Call == [use : 1..MaxUses, tool : Asks, status : {"waiting", "running", "answered", "failed"},
         since : Nat, rule : Rule, note : BOOLEAN]

TypeOK ==
  /\ ReadsTypeOK
  /\ stage \in {"turn", "tools", "returned", "failed"}
  /\ turn \in 0..MaxTurns /\ halt \in Halt
  /\ cost \in Nat /\ price \in Nat /\ billed \in Nat /\ wasted \in Nat
  /\ attempt \in 1..MaxAttempts
  /\ Len(calls) <= MaxUses
  /\ \A i \in DOMAIN calls :
       [field \in DOMAIN calls[i] \ {"request"} |-> calls[i][field]] \in Call
  /\ cancelled \in BOOLEAN /\ expired \in BOOLEAN
  /\ \A i \in DOMAIN traced : traced[i] = None \/ traced[i].use \in 1..MaxUses

Init ==
  /\ ReadsInit
  /\ stage = "turn" /\ turn = 0
  /\ halt = "turn_ceiling"
  /\ cost = 0 /\ price = 0 /\ attempt = 1 /\ billed = 0 /\ wasted = 0
  /\ calls = <<>> /\ cancelled = FALSE /\ expired = FALSE
  /\ traced = <<>>

Ask ==
  /\ Begin("question")
  /\ UNCHANGED <<request, loopVars>>

-----------------------------------------------------------------------------
(* Turns.                                                                  *)

Turning == job = "question" /\ stage = "turn"

Stay == UNCHANGED <<tableVars, since, before, request, seen>>

Return(how) ==
  /\ stage' = how
  /\ job' = "asked"

(* ctx is done.                                                            *)
Expire ==
  /\ job = "question" /\ ~expired
  /\ Fault
  /\ expired' = TRUE /\ cancelled' = (stage = "tools")
  /\ UNCHANGED <<job, stage, turn, halt, accounts, calls, traced>>
  /\ Stay

GiveUp ==
  /\ Turning /\ turn < MaxTurns /\ expired
  /\ Return("failed")
  /\ UNCHANGED <<turn, halt, accounts, calls, cancelled, expired, traced, faults>>
  /\ Stay

TurnCeiling ==
  /\ Turning /\ turn = MaxTurns
  /\ Return("returned")
  /\ UNCHANGED <<turn, halt, accounts, calls, cancelled, expired, traced, faults>>
  /\ Stay

(* A seeded bug: the ceiling has to be passed, not reached.                *)
PastBudget == MaxCost > 0 /\ cost > MaxCost

(* Checked before the call: the price is not known until it returns.       *)
OverBudget == MaxCost > 0 /\ cost >= MaxCost

BudgetCeiling ==
  /\ Turning /\ turn < MaxTurns /\ ~expired /\ OverBudget
  /\ halt' = "budget_exceeded"
  /\ Return("returned")
  /\ UNCHANGED <<turn, accounts, calls, cancelled, expired, traced, faults>>
  /\ Stay

Completing == Turning /\ turn < MaxTurns /\ ~expired /\ ~OverBudget

(* finish, of a turn that cost this much and made these calls.             *)
Finish(paid, made) ==
  /\ turn' = turn + 1
  /\ cost' = cost + paid
  /\ traced' = made

(* A response is charged: it is decoded, or it is not.                     *)
Charge(paid) ==
  /\ billed' = billed + paid
  /\ attempt' = 1
  /\ UNCHANGED wasted

Waste ==
  /\ Completing /\ Fault
  /\ \E paid \in Prices \cup {0} : billed' = billed + paid /\ wasted' = wasted + paid

(* The model ends, is cut off, stops for a reason of its own, or says it   *)
(* wants tools and names none.                                             *)
ModelEnds ==
  /\ Completing
  /\ \E paid \in Prices : Charge(paid) /\ Finish(paid, <<>>)
  /\ halt' \in {"completed", "output_truncated", "unexpected_stop_reason"}
  /\ Return("returned")
  /\ UNCHANGED <<price, calls, cancelled, expired, faults>>
  /\ Stay

(* The API is busy, or the connection breaks: before the response, or in   *)
(* the middle of one that is charged all the same.  It is asked again.     *)
ModelRetries ==
  /\ Waste
  /\ attempt < MaxAttempts /\ attempt' = attempt + 1
  /\ UNCHANGED <<job, stage, turn, halt, cost, price, calls, cancelled, expired, traced>>
  /\ Stay

(* Or it is given up: no attempt is left, the request is refused, or what  *)
(* came back with a 200 does not decode.                                   *)
ModelFails ==
  /\ Waste
  /\ Return("failed")
  /\ UNCHANGED <<turn, halt, cost, price, attempt, calls, cancelled, expired, traced>>
  /\ Stay

ModelAsksForTools ==
  /\ Completing
  /\ \E paid \in Prices, n \in 1..MaxUses :
       /\ price' = paid /\ Charge(paid)
       /\ \E tools \in [1..n -> Asks] :
            calls' = [i \in 1..n |->
                        [use |-> i, tool |-> tools[i], status |-> "waiting", since |-> 0,
                         rule |-> "none", note |-> FALSE, request |-> None]]
  /\ stage' = "tools"
  /\ UNCHANGED <<job, turn, halt, cost, cancelled, expired, traced, faults>>
  /\ Stay

-----------------------------------------------------------------------------
(* The tools of one turn.                                                  *)

(* clampLimit.                                                             *)
ClampLimit(asked) == IF asked <= 0 THEN DefaultRows ELSE Least(asked, MaxRows)

(* The request each tool makes of the store.                               *)
ListDisputes(ask) == Sent("list", ask.filter, ClampLimit(ask.limit), 0, 0)

GetDispute(ask) == Sent("detail", "all", DefaultLimit, 0, ask.id)

CustomerHistory(ask) == Sent("history", "all", ClampLimit(ask.limit), 0, 0)

QueueSummary == Sent("summary", "all", DefaultLimit, 0, 0)

(* Catalog.                                                                *)
RequestOf(ask) ==
  CASE ask.tool = "list_disputes" -> ListDisputes(ask)
    [] ask.tool = "get_dispute"   -> GetDispute(ask)
    [] ask.tool = "get_customer_history" -> CustomerHistory(ask)
    [] ask.tool = "queue_summary" -> QueueSummary

Waiting(i) == calls[i].status = "waiting" /\ \A j \in 1..(i - 1) : calls[j].status # "waiting"

Running == {i \in DOMAIN calls : calls[i].status = "running"}

(* A tool nobody has is refused whatever the context; arguments that do    *)
(* not decode are, unless it is cancelled; and a window that is no         *)
(* duration is an error like any other.                                    *)
Outcome(ask) ==
  CASE ask.tool = "unknown"     -> [status |-> "answered", rule |-> "unknown_tool"]
    [] ask.tool = "undecodable" -> IF cancelled THEN [status |-> "failed", rule |-> "none"]
                                   ELSE [status |-> "answered", rule |-> "invalid_arguments"]
    [] ask.tool = "bad window"  -> [status |-> "failed", rule |-> "none"]

Asking(i) == calls[i].tool.tool \in Tools

(* group.Go, which waits for one of MaxParallel to be free.                *)
StartCall(i) ==
  /\ stage = "tools" /\ Waiting(i) /\ Cardinality(Running) < MaxParallel
  /\ IF Asking(i)
     THEN /\ calls' = [calls EXCEPT ![i].status = "running", ![i].since = writes,
                                    ![i].request = RequestOf(calls[i].tool)]
          /\ UNCHANGED cancelled
     ELSE LET out == Outcome(calls[i].tool)
          IN /\ calls' = [calls EXCEPT ![i].status = out.status, ![i].rule = out.rule]
             /\ cancelled' = (cancelled \/ out.status = "failed")
  /\ UNCHANGED <<job, stage, turn, halt, accounts, expired, traced, faults>>
  /\ Stay

ReadForCall(i) ==
  /\ stage = "tools" /\ i \in Running
  /\ \E next \in OneMore(calls[i].request) : calls' = [calls EXCEPT ![i].request = next]
  /\ UNCHANGED <<job, stage, turn, halt, accounts, cancelled, expired, traced, faults>>
  /\ Stay

(* The rows and lines of a result.                                         *)
Size(q) ==
  CASE q.kind = "list"    -> Len(q.answers["page"])
    [] q.kind = "history" -> Len(q.answers["prior"])
    [] q.kind = "detail"  -> 1 + Len(q.answers["events"])
    [] q.kind = "summary" -> 1

(* A seeded bug: a full page is taken for a page that was cut.             *)
FullPage(q) == Len(q.answers["page"]) = q.limit

(* "Said explicitly rather than left for the model to infer".              *)
Noted(q) == q.answers["count"] > Len(q.answers["page"])

AnswerCall(i) ==
  /\ stage = "tools" /\ i \in Running /\ Answered(calls[i].request)
  /\ LET q == calls[i].request
     IN IF NotFound(q) /\ cancelled
        THEN calls' = [calls EXCEPT ![i].status = "failed"]
        ELSE calls' = [calls EXCEPT ![i].status = "answered",
                         ![i].rule = IF NotFound(q) THEN "not_found"
                                     ELSE IF Size(q) > MaxSize THEN "result_too_large"
                                     ELSE "none",
                         ![i].note = q.kind = "list" /\ Noted(q)]
  /\ UNCHANGED <<job, stage, turn, halt, accounts, cancelled, expired, traced, faults>>
  /\ Stay

(* A statement fails, on its own account or because the group's context    *)
(* was cancelled, and takes the others with it.                            *)
CallFails(i) ==
  /\ stage = "tools" /\ i \in Running /\ ~Answered(calls[i].request)
  /\ \/ cancelled /\ UNCHANGED faults
     \/ Fault
  /\ calls' = [calls EXCEPT ![i].status = "failed"]
  /\ cancelled' = TRUE
  /\ UNCHANGED <<job, stage, turn, halt, accounts, expired, traced>>
  /\ Stay

(* A seeded bug: waits for answers, which a call that failed never gives.  *)
AllAnswered == \A i \in DOMAIN calls : calls[i].status = "answered"

(* group.Wait.                                                             *)
AllReturned == \A i \in DOMAIN calls : calls[i].status \in {"answered", "failed"}

Entry(call) == [use |-> call.use, tool |-> call.tool, rule |-> call.rule]

(* What the slices hold after Wait: nothing where a call failed.           *)
Entries == [i \in DOMAIN calls |-> IF calls[i].status = "answered" THEN Entry(calls[i]) ELSE None]

(* A seeded bug: the slice goes into the trace as it is.                   *)
AllOfThem == Entries

Completed ==
  LET kept[i \in 0..Len(calls)] ==
        IF i = 0 THEN <<>>
        ELSE IF calls[i].status = "answered" THEN Append(kept[i - 1], Entry(calls[i]))
        ELSE kept[i - 1]
  IN  kept[Len(calls)]

EndTools ==
  /\ stage = "tools" /\ AllReturned
  /\ Finish(price, Completed)
  /\ price' = 0 /\ calls' = <<>> /\ cancelled' = FALSE
  /\ IF \E i \in DOMAIN calls : calls[i].status = "failed"
     THEN Return("failed")
     ELSE stage' = "turn" /\ UNCHANGED job
  /\ UNCHANGED <<halt, attempt, billed, wasted, expired, faults>>
  /\ Stay

LoopNext ==
  \/ Ask
  \/ Expire \/ GiveUp \/ TurnCeiling \/ BudgetCeiling
  \/ ModelEnds \/ ModelRetries \/ ModelFails \/ ModelAsksForTools
  \/ \E i \in 1..MaxUses :
       /\ i \in DOMAIN calls
       /\ StartCall(i) \/ ReadForCall(i) \/ AnswerCall(i) \/ CallFails(i)
  \/ EndTools

Next == (ReadsNext /\ UNCHANGED loopVars) \/ LoopNext

(* Statements come back or fail within the deadline of the context, and a  *)
(* model's response does.                                                  *)
Fairness ==
  /\ WF_vars(GiveUp \/ TurnCeiling \/ BudgetCeiling \/ ModelEnds \/ EndTools)
  /\ \A i \in 1..MaxUses :
       WF_vars(i \in DOMAIN calls /\ (StartCall(i) \/ ReadForCall(i) \/ AnswerCall(i)))

Spec == Init /\ [][Next]_vars

FairSpec == Spec /\ Fairness

-----------------------------------------------------------------------------

(* Of the responses the loop was given, it spends less than the ceiling    *)
(* and one more, and what it returns, even after a tool has failed,        *)
(* accounts for every one of them.  What was charged besides, for          *)
(* responses that broke off or did not decode, nothing records: it comes   *)
(* to no more than every attempt of every turn begun.                      *)
SpendHolds ==
  /\ MaxCost > 0 => billed - wasted < MaxCost + MaxPrice
  /\ stage \in {"returned", "failed"} => billed = cost + wasted
  /\ wasted <= (turn + 1) * MaxAttempts * MaxPrice

(* A list that was cut says so, and one that was not does not, unless the  *)
(* rows changed between its two statements: "Silent truncation is how an   *)
(* assistant concludes there are only 20".                                 *)
NoteTold ==
  \A i \in DOMAIN calls :
    calls[i].status = "answered" /\ calls[i].request # None /\ calls[i].since = writes =>
      LET q == calls[i].request
      IN q.kind = "list" => (calls[i].note <=> ToSet(q.answers["page"]) # Matching(q.filter))

(* A turn whose tools ran is recorded with the calls that were made and    *)
(* answered, each with the tool asked for and the rule that refused it, in *)
(* the order they were asked for: all of them when the turn went on, and   *)
(* none that was not, "an audit trail describing calls that never          *)
(* happened".  Until the next turn nothing is added or lost.               *)
TraceTrue ==
  [][IF stage = "tools" /\ stage' # "tools"
     THEN /\ \A i \in DOMAIN calls :
               calls[i].status = "answered" <=>
                 \E k \in DOMAIN traced' : traced'[k] = Entry(calls[i])
          /\ \A k \in DOMAIN traced' : \E i \in DOMAIN calls : traced'[k] = Entry(calls[i])
          /\ \A j, k \in DOMAIN traced' : j < k => traced'[j].use < traced'[k].use
          /\ stage' = "turn" => Len(traced') = Len(calls)
     ELSE traced' \in {traced, <<>>}]_vars

(* A question is answered, stopped or given up, whatever its tools do.     *)
Returns == job = "question" ~> job = "asked"
=============================================================================
