------------------------------ MODULE MCToolLoop -----------------------------
(***************************************************************************)
(* Instances of ToolLoop for TLC.                                          *)
(***************************************************************************)
EXTENDS ToolLoop, TLC

(* Two that are on the clock run out together, and an agent holds one of   *)
(* them; one has been drafted, and one is yet to be filed.                 *)
Deadlines == [d \in Disputes |-> IF d > 2 THEN 2 ELSE 1]

DraftedOrNot ==
  [d \in Disputes |-> CASE d = 3 -> <<"received", "draft_ready">>
                       [] d = 4 -> <<>>
                       [] OTHER -> <<"received">>]

AskFor(tool, filter, limit, id) == [tool |-> tool, filter |-> filter, limit |-> limit, id |-> id]

(* One is answered, one asks for what may not be there, one fails.         *)
SomeAsks ==
  {AskFor("list_disputes", "due", 0, 0), AskFor("get_dispute", "all", 0, 4),
   AskFor("bad window", "all", 0, 0)}
=============================================================================
