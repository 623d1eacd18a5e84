----------------------------- MODULE FactSource ------------------------------
(***************************************************************************)
(* Assembling the record two model calls are shown (internal/agent:        *)
(* FactSource.For in facts.go, readEvidence in evidence.go).  The row of   *)
(* the dispute is read first; then up to four reads run side by side while *)
(* files are uploaded.  Two the record cannot do without.  What the        *)
(* search for precedents and the base rates come back with is left out:    *)
(* here they are reads that may fail, or be cancelled, without a word.     *)
(***************************************************************************)
EXTENDS ClaimBackfill, EvidenceBucket

CONSTANTS
  Drafted,       (* the disputes records are asked for                      *)
  FileLimit,     (* maxEvidenceFileRunes                                    *)
  BlockLimit,    (* maxEvidenceRunes                                        *)
  Extras,        (* the reads this deployment has beside the two it needs   *)
  Ends,          (* bound: how cases end while records are assembled        *)
  MaxFaults      (* bound: failing calls                                    *)

ASSUME FactsAssumption ==
  /\ Drafted \subseteq Disputes
  /\ Extras \subseteq {"precedent", "rates"}
  /\ \A d \in Drafted : OutcomeBefore[d] = "open"
  /\ Ends \subseteq {"won", "lost", "expired"}
  /\ FileLimit \in Nat \ {0} /\ BlockLimit \in Nat \ {0}
  /\ MaxFaults \in Nat

VARIABLES
  subject,       (* the dispute the record is about, None when nobody asks  *)
  branch,        (* how far each read is                                    *)
  groupErr,      (* the group has an error, and its context is cancelled    *)
  listed,        (* the keys the listing answered with                      *)
  refs,          (* EvidenceRef of each file read so far                    *)
  known,         (* the files that were there when the record was asked for *)
  faults

readVars == <<subject, branch, groupErr, listed, refs, known>>

vars == <<backfillVars, bucketVars, readVars, faults>>

(* A status, and for a file that is not read the note beside it.           *)
Ref == [key : Keys, status : {"read", "cut", "no text", "lost", "block full"}, shown : Nat]

Ended == {"off", "read", "failed"}

Branches ==
  [history : Ended \cup {"reading"},
   evidence : Ended \cup {"listing", "reading"},
   precedent : Ended \cup {"reading"},
   rates : Ended \cup {"reading"}]

TypeOK ==
  /\ BackfillTypeOK /\ BucketTypeOK
  /\ subject \in Disputes \cup {None}
  /\ branch \in Branches
  /\ groupErr \in BOOLEAN
  /\ listed \in Seq(Keys) /\ refs \in Seq(Ref)
  /\ known \subseteq Keys
  /\ faults \in Nat

Off == [history |-> "off", evidence |-> "off", precedent |-> "off", rates |-> "off"]

Init ==
  /\ BackfillInit /\ BucketInit
  /\ subject = None
  /\ branch = Off
  /\ groupErr = FALSE
  /\ listed = <<>> /\ refs = <<>> /\ known = {}
  /\ faults = 0

Fault == faults < MaxFaults /\ faults' = faults + 1

IfAny(b) == IF b \in Extras THEN "reading" ELSE "off"

(* DisputeWithClaim answered; the reads start.                             *)
Ask(d) ==
  /\ subject = None
  /\ subject' = d
  /\ branch' = [history |-> "reading", evidence |-> "listing",
                precedent |-> IfAny("precedent"), rates |-> IfAny("rates")]
  /\ groupErr' = FALSE
  /\ listed' = <<>> /\ refs' = <<>>
  /\ known' = DOMAIN objects
  /\ UNCHANGED faults

Put(b, stage) == branch' = [branch EXCEPT ![b] = stage]

(* A call of this branch fails: its own fault, or that of the branch which *)
(* cancelled the group.                                                    *)
CallFails == \/ groupErr /\ UNCHANGED faults
             \/ ~groupErr /\ Fault

(* A seeded bug: a branch that fails is never done.                        *)
NeverDone(b) == CallFails /\ Put(b, "stuck") /\ groupErr' = TRUE

(* A branch whose error ends the assembly.                                 *)
Sinks(b) ==
  /\ CallFails
  /\ Put(b, "failed")
  /\ groupErr' = TRUE

-----------------------------------------------------------------------------
(* CustomerHistory, less the dispute itself.                               *)

ReadHistory ==
  /\ branch.history = "reading"
  /\ Put("history", "read")
  /\ UNCHANGED <<subject, groupErr, listed, refs, known, faults>>

HistoryFails ==
  /\ branch.history = "reading"
  /\ Sinks("history")
  /\ UNCHANGED <<subject, listed, refs, known>>

-----------------------------------------------------------------------------
(* readEvidence: the listing, and then one file at a time, as many         *)
(* characters as are left of the block's limit.                            *)

ListFiles ==
  /\ branch.evidence = "listing"
  /\ listed' \in Listings
  /\ Put("evidence", "reading")
  /\ UNCHANGED <<subject, groupErr, refs, known, faults>>

ShownBy(some) ==
  LET upTo[i \in 0..Len(some)] == IF i = 0 THEN 0 ELSE upTo[i - 1] + some[i].shown
  IN  upTo[Len(some)]

Shown == ShownBy(refs)

Budget == BlockLimit - Shown

Least(a, b) == IF a < b THEN a ELSE b

(* A seeded bug: only a file's own limit cuts it.                          *)
FileLimitOnly == FileLimit

Cap == Least(Budget, FileLimit)

Unread(key, why) == [key |-> key, status |-> why, shown |-> 0]

(* extractText and the cut.                                                *)
Extract(key, file) ==
  IF ~file.text THEN Unread(key, "no text")
  ELSE [key |-> key,
        status |-> IF file.size > Cap THEN "cut" ELSE "read",
        shown |-> Least(file.size, Cap)]

(* A file the block has no room for is not fetched.                        *)
ReadFile ==
  /\ branch.evidence = "reading"
  /\ Len(refs) < Len(listed)
  /\ LET key == listed[Len(refs) + 1] IN
     refs' = Append(refs,
       IF Budget <= 0 THEN Unread(key, "block full")
       ELSE Extract(key, objects[key]))
  /\ UNCHANGED <<subject, branch, groupErr, listed, known, faults>>

(* The body breaks off: extractText says so, and the file counts as one    *)
(* that could not be read.                                                 *)
LoseBody ==
  /\ branch.evidence = "reading"
  /\ Len(refs) < Len(listed) /\ Budget > 0
  /\ CallFails
  /\ refs' = Append(refs, Unread(listed[Len(refs) + 1], "lost"))
  /\ UNCHANGED <<subject, branch, groupErr, listed, known>>

EvidenceRead ==
  /\ branch.evidence = "reading"
  /\ Len(refs) = Len(listed)
  /\ Put("evidence", "read")
  /\ UNCHANGED <<subject, groupErr, listed, refs, known, faults>>

(* A seeded bug: evidence that cannot be fetched is left out.              *)
SkipsEvidence ==
  /\ CallFails
  /\ Put("evidence", "failed")
  /\ UNCHANGED groupErr

EvidenceSinks == Sinks("evidence")

EvidenceFails ==
  /\ \/ branch.evidence = "listing"
     \/ branch.evidence = "reading" /\ Len(refs) < Len(listed) /\ Budget > 0
  /\ EvidenceSinks
  /\ UNCHANGED <<subject, listed, refs, known>>

-----------------------------------------------------------------------------
(* Retriever.For and baseRates: one that fails makes a worse record, and   *)
(* not the end of it.                                                      *)

ReadExtra(b) ==
  /\ branch[b] = "reading"
  /\ Put(b, "read")
  /\ UNCHANGED <<subject, groupErr, listed, refs, known, faults>>

ExtraFails(b) ==
  /\ branch[b] = "reading"
  /\ CallFails
  /\ Put(b, "failed")
  /\ UNCHANGED <<subject, groupErr, listed, refs, known>>

-----------------------------------------------------------------------------
AllEnded == \A b \in DOMAIN branch : branch[b] \in Ended

(* group.Wait, and the record or the error goes to who asked.              *)
Answer ==
  /\ subject # None /\ AllEnded
  /\ subject' = None
  /\ branch' = Off
  /\ groupErr' = FALSE
  /\ listed' = <<>> /\ refs' = <<>> /\ known' = {}
  /\ UNCHANGED faults

ReadNext ==
  \/ ReadHistory \/ HistoryFails
  \/ ListFiles \/ ReadFile \/ LoseBody \/ EvidenceRead \/ EvidenceFails
  \/ \E b \in Extras : ReadExtra(b) \/ ExtraFails(b)
  \/ Answer

(* The goroutines of one record run to their end.                          *)
Reading == ReadNext /\ UNCHANGED <<backfillVars, bucketVars>>

Next ==
  \/ \E d \in Drafted : Ask(d) /\ UNCHANGED <<backfillVars, bucketVars>>
  \/ Reading
  \/ /\ \/ \E d \in Disputes \ Drafted, end \in Ends : Settle(d, end)
        \/ Backfill
     /\ UNCHANGED <<bucketVars, readVars, faults>>
  \/ BucketNext /\ UNCHANGED <<backfillVars, readVars, faults>>

Spec == Init /\ [][Next]_vars

FairSpec == Spec /\ WF_vars(Reading)

-----------------------------------------------------------------------------
(* A read that failed never passes for a dispute without history or        *)
(* evidence: a record that comes without an error has both, and says of    *)
(* every file that was listed, and of every one that was there when it was *)
(* asked for, what became of it; and nothing but the failure of one of the *)
(* two makes it an error, whatever the other two reads do.                 *)
RecordWhole ==
  subject # None /\ AllEnded =>
    IF groupErr THEN "failed" \in {branch.history, branch.evidence}
    ELSE /\ branch.history = "read" /\ branch.evidence = "read"
         /\ [i \in 1..Len(refs) |-> refs[i].key] = listed
         /\ \A key \in known : \E i \in 1..Len(refs) : refs[i].key = key

(* The evidence block keeps to its limit, and the order of the listing     *)
(* decides who is in it: a file is left out only behind files that fill    *)
(* the block, and whatever comes after it is left out as well.             *)
FitsBlock ==
  /\ Shown <= BlockLimit
  /\ \A i \in 1..Len(refs) :
       /\ refs[i].shown <= FileLimit
       /\ refs[i].status = "block full" =>
            /\ ShownBy(SubSeq(refs, 1, i - 1)) = BlockLimit
            /\ \A j \in i..Len(refs) : refs[j].status = "block full"

(* Whoever asks for a record gets it or an error: whichever read fails and *)
(* cancels the others, none of them is left waiting.                       *)
Answered == [](subject # None => <>(subject = None))
=============================================================================
