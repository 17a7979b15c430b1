----------------------------- MODULE Documents -----------------------------
(***************************************************************************)
(* A candidate's CV (candidate/documents.go, extraction.go, facts.go and   *)
(* the worker's extraction_route.go): versions uploaded through the object *)
(* store, read by a workflow into facts, and the facts reviewed by the     *)
(* candidate while the workflow may still be retrying.                     *)
(*                                                                         *)
(* A row and its object change in separate steps, and any request may stop *)
(* between two of them.  Every reading of one version finds the same       *)
(* spans: the digest pins the bytes and the extractor is deterministic     *)
(* over them.                                                              *)
(***************************************************************************)
EXTENDS Naturals, FiniteSets, FiniteSetsExt

CONSTANTS
  Uploads,       \* StartUpload requests; each is also the upload id it opens
  VersionRequests, \* requests to complete, abort or delete a version
  Spans,         \* what a document asserts, by the span it comes from
  MaxAttempts,   \* attempts of an activity (5)
  MaxFaults,     \* bound: attempts given up
  MaxReviews,    \* bound: reviews
  NoUpload

ASSUME DocumentsAssumption ==
  /\ IsFiniteSet(Uploads) /\ Uploads # {} /\ NoUpload \notin Uploads
  /\ MaxAttempts \in Nat \ {0} /\ MaxFaults \in Nat /\ MaxReviews \in Nat

Numbers == 1 .. Cardinality(Uploads)

VARIABLES
  row,       \* per version: candidate.documents, state "absent" before
  multipart, \* per upload id: the store's multipart upload
  object,    \* versions whose object the store holds
  start,     \* per StartUpload: where it is, and the version it read
  request,   \* per request: where it is and the row it read
  event,     \* per version: candidate.document_uploaded
  reading,   \* per version: the extraction workflow
  late,      \* attempts given up that may still run
  fact,      \* candidate.extracted_facts
  inserted,  \* batches of facts inserted so far
  faults, reviews

rows == <<row, fact, inserted>>
store == <<multipart, object>>
documentsVars == <<rows, store, start, request, event, reading, late, faults, reviews>>

Activities == {"Extract", "StoreFacts", "MarkUnsupported", "MarkFailed"}
FirstOf == [Extract |-> "read", StoreFacts |-> "delete",
            MarkUnsupported |-> "mark", MarkFailed |-> "mark"]
Attempt(v, name) == [of |-> name, version |-> v, step |-> FirstOf[name], doomed |-> {}]

DocumentsInit ==
  /\ row = [v \in Numbers |-> [state |-> "absent", upload |-> NoUpload, extraction |-> "none"]]
  /\ multipart = [u \in Uploads |-> "none"] /\ object = {}
  /\ start = [u \in Uploads |-> [step |-> "idle", version |-> 1]]
  /\ request = [r \in VersionRequests |->
       [step |-> "idle", op |-> "complete", version |-> 1, upload |-> NoUpload]]
  /\ event = [v \in Numbers |-> "none"]
  /\ reading = [v \in Numbers |->
       [activity |-> "none", attempt |-> Attempt(v, "Extract"), tries |-> 0]]
  /\ late = {} /\ fact = {} /\ inserted = 0 /\ faults = 0 /\ reviews = 0

----------------------------------------------------------------------------
(* StartUpload.                                                            *)

Present == {v \in Numbers : row[v].state # "absent"}

\* NextDocumentVersion: one past the largest, inside the transaction and
\* without a lock.
NextDocumentVersion(u) ==
  /\ start[u].step = "idle" /\ Cardinality(Present) < Cardinality(Uploads)
  /\ start' = [start EXCEPT ![u] = [step |-> "initiate", version |-> Max(Present \cup {0}) + 1]]
  /\ UNCHANGED <<rows, store, request, event, reading, late, faults, reviews>>

\* The store opens a multipart upload.
InitiateUpload(u) ==
  /\ start[u].step = "initiate"
  /\ multipart' = [multipart EXCEPT ![u] = "open"]
  /\ start' = [start EXCEPT ![u].step = "insert"]
  /\ UNCHANGED <<rows, object, request, event, reading, late, faults, reviews>>

\* Mutant: no unique version per person.
InsertsAnyway(v) == TRUE

\* UNIQUE (user_id, kind, version).
VersionFree(v) == row[v].state = "absent"

\* InsertDocument and the commit; the loser of a version leaves its upload.
InsertDocument(u) ==
  LET v == start[u].version IN
  /\ start[u].step = "insert"
  /\ row' = IF VersionFree(v)
              THEN [row EXCEPT ![v] = [@ EXCEPT !.state = "uploading", !.upload = u]]
              ELSE row
  /\ start' = [start EXCEPT ![u].step = IF VersionFree(v) THEN "started" ELSE "refused"]
  /\ UNCHANGED <<fact, inserted, store, request, event, reading, late, faults, reviews>>

----------------------------------------------------------------------------
(* CompleteUpload, AbortUpload, Delete: the row, the store, the row.       *)

Begins == [complete |-> "uploading", abort |-> "uploading", delete |-> "stored"]

\* getRow and the state each operation requires.  The caller of a complete
\* presents the upload id it was given.
RequestReads(r, op, v) ==
  /\ request[r].step = "idle" /\ row[v].state = Begins[op]
  /\ request' = [request EXCEPT ![r] =
       [step |-> "store", op |-> op, version |-> v, upload |-> row[v].upload]]
  /\ UNCHANGED <<rows, store, start, event, reading, late, faults, reviews>>

\* The store: only an open upload is assembled or discarded; an assembled
\* object that does not verify is an error to the caller; a delete succeeds
\* whether or not the object is there.
StoreAnswers(r) ==
  LET q == request[r] IN
  /\ q.step = "store"
  /\ \/ /\ q.op = "complete" /\ multipart[q.upload] = "open"
        /\ multipart' = [multipart EXCEPT ![q.upload] = "assembled"]
        /\ object' = object \cup {q.version}
        /\ \E s \in {"row", "over"} : request' = [request EXCEPT ![r].step = s]
     \/ /\ q.op = "abort" /\ multipart[q.upload] = "open"
        /\ multipart' = [multipart EXCEPT ![q.upload] = "discarded"]
        /\ request' = [request EXCEPT ![r].step = "row"] /\ UNCHANGED object
     \/ /\ q.op # "delete" /\ multipart[q.upload] # "open"
        /\ request' = [request EXCEPT ![r].step = "over"] /\ UNCHANGED store
     \/ /\ q.op = "delete"
        /\ object' = object \ {q.version}
        /\ request' = [request EXCEPT ![r].step = "row"] /\ UNCHANGED multipart
  /\ UNCHANGED <<rows, start, event, reading, late, faults, reviews>>

\* The WHERE clause of MarkDocumentStored, -Failed and -Deleted.
Moves(op, d) == d.state = Begins[op]

Marked(op, d) ==
  CASE op = "complete" -> [state |-> "stored", upload |-> NoUpload, extraction |-> "pending"]
    [] op = "abort"    -> [d EXCEPT !.state = "failed", !.upload = NoUpload]
    [] op = "delete"   -> [d EXCEPT !.state = "deleted"]

\* markStored with its event, or transition.
RequestMarks(r) ==
  LET q == request[r] IN
  /\ q.step = "row"
  /\ IF Moves(q.op, row[q.version])
       THEN /\ row' = [row EXCEPT ![q.version] = Marked(q.op, @)]
            /\ event' = IF q.op = "complete" THEN [event EXCEPT ![q.version] = "pending"]
                                             ELSE event
       ELSE UNCHANGED <<row, event>>
  /\ request' = [request EXCEPT ![r].step = "over"]
  /\ UNCHANGED <<fact, inserted, store, start, reading, late, faults, reviews>>

----------------------------------------------------------------------------
(* The activities: attempt a becomes attempt b.                            *)

At(a, step) == [a EXCEPT !.step = step]
Outcome == [StoreFacts |-> "extracted", MarkUnsupported |-> "unsupported", MarkFailed |-> "failed"]

\* Extract, the row: someone already decided, or the store is asked.
ExtractReads(a, b) ==
  /\ a.step = "read"
  /\ b = At(a, IF row[a.version].extraction \in {"pending", "extracted"}
                 THEN "call" ELSE "not_pending")
  /\ UNCHANGED rows

\* The extractor: facts only of an object that is there, or a refusal.
ExtractCalls(a, b) ==
  /\ a.step = "call"
  /\ b \in {At(a, s) : s \in {"again", "refused", "unsupported"}}
            \cup (IF a.version \in object THEN {At(a, "ok")} ELSE {})
  /\ UNCHANGED rows

Proposed(v) == {f \in fact : f.version = v /\ f.status = "proposed"}

\* Mutant: what the candidate has reviewed goes too.
DeletesReviewed(a, b) ==
  /\ a.step = "delete"
  /\ b = [At(a, "insert") EXCEPT !.doomed = {f \in fact : f.version = a.version}]
  /\ UNCHANGED rows

\* Mutant: the delete is a transaction of its own.
DeletesAtOnce(a, b) ==
  /\ a.step = "delete" /\ b = At(a, "insert")
  /\ fact' = fact \ Proposed(a.version)
  /\ UNCHANGED <<row, inserted>>

\* StoreFacts, DeleteProposedFacts: the proposals this statement sees.
DeleteProposedFacts(a, b) ==
  /\ a.step = "delete"
  /\ b = [At(a, "insert") EXCEPT !.doomed = Proposed(a.version)]
  /\ UNCHANGED rows

\* SetDocumentExtractionState's WHERE clause.
MayDecide(a) == row[a.version].extraction \in {"pending", Outcome[a.of]}

\* StoreFacts, the inserts, the outcome and the commit; or nothing at all.
InsertFacts(a, b) ==
  /\ a.step = "insert"
  /\ IF MayDecide(a)
       THEN /\ fact' = (fact \ a.doomed) \cup
                 {[version |-> a.version, span |-> s, batch |-> inserted, status |-> "proposed"] :
                   s \in Spans}
            /\ inserted' = inserted + 1
            /\ row' = [row EXCEPT ![a.version].extraction = Outcome[a.of]]
            /\ b = [At(a, "ok") EXCEPT !.doomed = {}]
       ELSE UNCHANGED rows /\ b = [At(a, "again") EXCEPT !.doomed = {}]

\* MarkExtractionOutcome.
MarkExtractionOutcome(a, b) ==
  /\ a.step = "mark" /\ b = At(a, IF MayDecide(a) THEN "ok" ELSE "again")
  /\ row' = IF MayDecide(a) THEN [row EXCEPT ![a.version].extraction = Outcome[a.of]] ELSE row
  /\ UNCHANGED <<fact, inserted>>

Runs(a, b) ==
  \/ ExtractReads(a, b) \/ ExtractCalls(a, b) \/ DeleteProposedFacts(a, b)
  \/ InsertFacts(a, b) \/ MarkExtractionOutcome(a, b)

\* Where an attempt may be next, and what it may hold deleted there.
Nexts(a) ==
  LET steps == [read |-> {"call", "not_pending"}, delete |-> {"insert"},
                call |-> {"again", "refused", "unsupported", "ok"},
                insert |-> {"ok", "again"}, mark |-> {"ok", "again"}]
  IN {[At(a, s) EXCEPT !.doomed = d] :
        s \in steps[a.step], d \in {{}, Proposed(a.version), {f \in fact : f.version = a.version}}}

Answered(a) == a.step \in {"ok", "again", "refused", "unsupported", "not_pending"}

----------------------------------------------------------------------------
(* The workflow, one per document for ever.                                *)

Running(v) == reading[v].activity \in Activities

\* The reuse policy: the id of a workflow that ran is taken.
FirstWorkflow(v) == reading[v].activity = "none"

\* startExtraction: a redelivery that finds the id taken is delivered.
StartExtraction(v) ==
  /\ event[v] \in {"pending", "again"}
  /\ event' = [event EXCEPT ![v] = IF @ = "pending" THEN "handled" ELSE "done"]
  /\ reading' = IF FirstWorkflow(v)
                  THEN [reading EXCEPT ![v] =
                          [activity |-> "Extract", attempt |-> Attempt(v, "Extract"), tries |-> 0]]
                  ELSE reading
  /\ UNCHANGED <<rows, store, start, request, late, faults, reviews>>

\* The delivery was not recorded: the event comes again, once.
UploadedAgain(v) ==
  /\ event[v] = "handled" /\ event' = [event EXCEPT ![v] = "again"]
  /\ UNCHANGED <<rows, store, start, request, reading, late, faults, reviews>>

AttemptRuns(v) ==
  /\ Running(v) /\ ~Answered(reading[v].attempt)
  /\ \E b \in Nexts(reading[v].attempt) :
       Runs(reading[v].attempt, b) /\ reading' = [reading EXCEPT ![v].attempt = b]
  /\ UNCHANGED <<store, start, request, event, late, faults, reviews>>

\* An attempt is given up: its statement failed, its worker died or hangs past
\* the 90 seconds, or its answer was lost.  What is left of it may still run.
GivenUp(v) ==
  LET a == reading[v].attempt IN
  /\ Running(v) /\ a.step # "again" /\ faults < MaxFaults
  /\ faults' = faults + 1
  /\ \E kept \in {{}, {a}} : late' = late \cup (IF Answered(a) THEN {} ELSE kept)
  /\ reading' = [reading EXCEPT ![v].attempt = [At(@, "again") EXCEPT !.doomed = {}]]
  /\ UNCHANGED <<rows, store, start, request, event, reviews>>

LateRuns ==
  /\ \E a \in late : \E b \in Nexts(a) :
       Runs(a, b) /\ late' = (late \ {a}) \cup (IF Answered(b) THEN {} ELSE {b})
  /\ UNCHANGED <<store, start, request, event, reading, faults, reviews>>

\* ExtractionWorkflow: what follows an activity that ended.
Follows(activity, answer) ==
  IF activity # "Extract" THEN "ended"
  ELSE CASE answer = "ok" -> "StoreFacts"
         [] answer = "not_pending" -> "ended"
         [] answer = "unsupported" -> "MarkUnsupported"
         [] OTHER -> "MarkFailed"

\* The activities' retry policy.
Retries(w) == w.attempt.step = "again" /\ w.tries + 1 < MaxAttempts

\* The retry policy, then the workflow's own next step.
WorkflowAdvances(v) ==
  LET w == reading[v]
      next == Follows(w.activity, w.attempt.step)
  IN
  /\ Running(v) /\ Answered(w.attempt)
  /\ reading' = [reading EXCEPT ![v] =
       IF Retries(w) THEN [w EXCEPT !.attempt = Attempt(v, w.activity), !.tries = @ + 1]
       ELSE IF next = "ended" THEN [w EXCEPT !.activity = "ended"]
       ELSE [activity |-> next, attempt |-> Attempt(v, next), tries |-> 0]]
  /\ UNCHANGED <<rows, store, start, request, event, late, faults, reviews>>

----------------------------------------------------------------------------
\* ReviewFact: one statement on a row of any status.  A row that an open
\* transaction has deleted makes it wait.
ReviewFact(f, status) ==
  /\ reviews < MaxReviews /\ reviews' = reviews + 1
  /\ \A a \in late \cup {reading[v].attempt : v \in Numbers} : f \notin a.doomed
  /\ fact' = (fact \ {f}) \cup {[f EXCEPT !.status = status]}
  /\ UNCHANGED <<row, inserted, store, start, request, event, reading, late, faults>>

DocumentsNext ==
  \/ \E u \in Uploads : NextDocumentVersion(u) \/ InitiateUpload(u) \/ InsertDocument(u)
  \/ \E r \in VersionRequests :
       \/ \E op \in DOMAIN Begins, v \in Numbers : RequestReads(r, op, v)
       \/ StoreAnswers(r) \/ RequestMarks(r)
  \/ \E v \in Numbers :
       StartExtraction(v) \/ UploadedAgain(v) \/ AttemptRuns(v) \/ GivenUp(v) \/ WorkflowAdvances(v)
  \/ LateRuns
  \/ \E f \in fact, status \in {"confirmed", "corrected", "rejected"} : ReviewFact(f, status)

DocumentsSpec == DocumentsInit /\ [][DocumentsNext]_documentsVars

----------------------------------------------------------------------------
DocumentsTypeOK ==
  /\ row \in [Numbers -> [state : {"absent", "uploading", "stored", "failed", "deleted"},
                          upload : Uploads \cup {NoUpload},
                          extraction : {"none", "pending", "extracted", "unsupported", "failed"}]]
  /\ multipart \in [Uploads -> {"none", "open", "assembled", "discarded"}]
  /\ object \subseteq Numbers
  /\ start \in [Uploads -> [step : {"idle", "initiate", "insert", "started", "refused"},
                           version : Numbers]]
  /\ request \in [VersionRequests -> [step : {"idle", "store", "row", "over"}, op : DOMAIN Begins,
                               version : Numbers, upload : Uploads \cup {NoUpload}]]
  /\ event \in [Numbers -> {"none", "pending", "handled", "again", "done"}]
  /\ \A v \in Numbers : /\ reading[v].activity \in Activities \cup {"none", "ended"}
                        /\ reading[v].tries \in 0 .. MaxAttempts - 1
  /\ \A f \in fact : /\ f.version \in Numbers /\ f.span \in Spans /\ f.batch < inserted
                     /\ f.status \in {"proposed", "confirmed", "corrected", "rejected"}
  /\ inserted \in Nat /\ faults \in 0 .. MaxFaults /\ reviews \in 0 .. MaxReviews

\* A row agrees with the store at every step of every other request: a stored
\* version's object is there unless a delete of it has reached the store, a
\* failed or a deleted version holds none, and no two uploads that StartUpload
\* answered for share a version (CompleteUpload, AbortUpload, Delete).
RowsMatchStore ==
  \A v \in Numbers :
    /\ row[v].state = "stored" =>
         v \in object \/ \E r \in VersionRequests : /\ request[r].op = "delete"
                                             /\ request[r].version = v
                                             /\ request[r].step \in {"row", "over"}
    /\ row[v].state \in {"absent", "failed", "deleted"} => v \notin object
    /\ Cardinality({u \in Uploads : start[u].step = "started" /\ start[u].version = v}) <= 1

\* A version is read into all its spans exactly when its extraction says
\* extracted, whatever order its attempts, the late ones and a failure's mark
\* commit in, and facts are only of versions that were stored; a workflow that
\* ended left its document undecided only because storing, or marking the
\* failure, used up its attempts (StoreFacts, MarkExtractionOutcome,
\* SetDocumentExtractionState, ExtractionWorkflow).
FactsMatchOutcome ==
  \A v \in Numbers :
    LET of == {f \in fact : f.version = v} IN
    /\ row[v].extraction = "extracted" => {f.span : f \in of} = Spans
    /\ row[v].extraction # "extracted" => of = {}
    /\ row[v].extraction # "none" => row[v].state \in {"stored", "deleted"}
    /\ reading[v].activity = "ended" /\ row[v].extraction = "pending" =>
         reading[v].attempt.of # "Extract" /\ reading[v].tries = MaxAttempts - 1

\* No step of the pipeline takes back or rewrites a fact the candidate has
\* reviewed (DeleteProposedFacts, InsertFacts).
ReviewsKept ==
  [][\A f \in fact : f.status # "proposed" /\ f \notin fact' => reviews' > reviews]_documentsVars

Effective(v) == {f.span : f \in {g \in fact : g.version = v /\ g.status # "rejected"}}

\* "rejected facts absent - so the candidate's word wins from the moment they
\* give it" (facts.go).
RejectedStaysAbsent ==
  \A f \in fact : f.status = "rejected" => f.span \notin Effective(f.version)

\* "uploading can be completed or aborted" (0017_candidate_documents.sql).
UploadingCanEnd ==
  \A v \in Numbers : row[v].state = "uploading" =>
    \/ multipart[row[v].upload] = "open"
    \/ \E r \in VersionRequests : request[r].version = v /\ request[r].step = "row"
=============================================================================
