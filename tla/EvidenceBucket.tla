---------------------------- MODULE EvidenceBucket ---------------------------
(***************************************************************************)
(* The files of one dispute in S3 (internal/api/evidence.go): a browser    *)
(* asks for a signed form and posts a file with it at any time until the   *)
(* signature runs out; the listing is in the order of the keys.  A name is *)
(* its place in the order of names.                                        *)
(***************************************************************************)
EXTENDS Integers, Sequences, SequencesExt, FiniteSets

CONSTANTS
  Names,         (* what safeName leaves of the names people upload under   *)
  Uploading,     (* and those people upload under from now on               *)
  Seconds,       (* the seconds in which forms are signed for it            *)
  Contents,      (* what they upload                                        *)
  FilesBefore,   (* what is in the bucket at first, by key                  *)
  MaxPosts       (* bound: forms that are posted                            *)

(* Of a file: its length, and whether it has text to read.                 *)
File == [size : Nat, text : BOOLEAN]

ASSUME BucketAssumption ==
  /\ Names \subseteq Nat /\ Uploading \subseteq Names
  /\ Seconds \subseteq Nat
  /\ Contents \subseteq File
  /\ IsFiniteSet(DOMAIN FilesBefore)
  /\ DOMAIN FilesBefore \subseteq [at : Nat \ Seconds, name : Names]
  /\ \A k \in DOMAIN FilesBefore : FilesBefore[k] \in File
  /\ MaxPosts \in Nat

VARIABLES
  objects,       (* what is in the bucket, by key                           *)
  posted         (* the forms that have been posted, once or more often     *)

bucketVars == <<objects, posted>>

Keys == [at : Nat, name : Names]

(* What tells forms apart: the second of the signature, and the name.      *)
Form == [at : Seconds, name : Uploading]

BucketTypeOK ==
  /\ posted \subseteq Form
  /\ IsFiniteSet(DOMAIN objects)
  /\ DOMAIN objects \subseteq Keys
  /\ \A k \in DOMAIN objects : objects[k] \in File

BucketInit == posted = {} /\ objects = FilesBefore

(* PresignUpload: the key carries the second in which the form was signed. *)
KeyOf(form) == [at |-> form.at, name |-> form.name]

(* S3 replaces what is under the key; a form may be posted again.          *)
Upload(form, content) ==
  /\ Cardinality(posted \cup {form}) <= MaxPosts
  /\ posted' = posted \cup {form}
  /\ objects' = [k \in DOMAIN objects \cup {KeyOf(form)} |->
                   IF k = KeyOf(form) THEN content ELSE objects[k]]

Before(k, l) == k.at < l.at \/ (k.at = l.at /\ k.name < l.name)

(* Every page of ListObjectsV2, which answers in the order of the keys.    *)
Listings ==
  {keys \in SetToSeqs(DOMAIN objects) :
     \A i, j \in DOMAIN keys : i < j => Before(keys[i], keys[j])}

BucketNext == \E form \in Form, content \in Contents : Upload(form, content)
=============================================================================
