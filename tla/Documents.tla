----------------------------- MODULE Documents ------------------------------
(***************************************************************************)
(* The life of an uploaded document (services/ingestion.py,                *)
(* api/documents.py): it is stored, extracted into one financial item,     *)
(* its questions are answered, and the candidate made of it is approved,   *)
(* which drafts a journal entry, or rejected.  Requests are transactions   *)
(* at READ COMMITTED without row locks: each reads the extraction, then    *)
(* the candidate, and commits.                                             *)
(*                                                                         *)
(* A request names the rows it inserts: the attachment and its extraction  *)
(* by the upload, a source transaction by the upload or rerun that         *)
(* extracted it, a candidate row and a draft by the request they are from. *)
(* Of an item only what decides about a candidate is kept: whether its     *)
(* amount is known, and which blocking questions are open; and of          *)
(* documents those whose type can become a candidate at all (receipts,     *)
(* notes).                                                                 *)
(***************************************************************************)
EXTENDS Naturals, FiniteSets

CONSTANTS Requests,
          Files,     \* the contents of files, as their SHA-256 tells them apart
          Codes,     \* the blocking question codes, "missing_amount" among them
          None,
          Serial     \* TRUE: no two requests in flight are about the same bytes

ASSUME CodesAssumption == "missing_amount" \in Codes
ASSUME DocRequestsAssumption == IsFiniteSet(Requests)
ASSUME DocNoneAssumption == None \notin Requests \cup Files
ASSUME DocSerialAssumption == Serial \in BOOLEAN

VARIABLES requests,      \* requests[r]: how far request r is, and what it has read
          files,         \* files[d]: the bytes of attachment d
          extractions,   \* extractions[d]: the one extraction of attachment d
          candidates,    \* candidates[c]: candidate row c
          transactions,  \* transactions[t]: source transaction t
          drafts,        \* drafts[e]: the journal entry drafted by request e
          links          \* links[d]: attachment d's journal_entry_id

tables == <<files, extractions, candidates, transactions, drafts, links>>
vars == <<requests, tables>>

Item == [amount : BOOLEAN, open : SUBSET Codes]

(* What an extraction can yield: it asks for an amount it did not find.    *)
Extractable == {i \in Item : ~i.amount => "missing_amount" \in i.open}

Extraction == [status    : {"extracted", "needs_review", "approved", "rejected"},
               tx        : Requests,
               item      : Item,
               duplicate : BOOLEAN]

Candidate == [doc    : Requests,
              status : {"suggested", "approved", "rejected"},
              tx     : Requests,
              entry  : Requests \cup {None}]

Transaction == [amount : BOOLEAN, status : {"pending", "matched"}]

(* create_draft refuses lines of zero. *)
Draft == [doc : Requests, tx : Requests, amount : {TRUE}]

ASSUME DocNoRowAssumption == /\ None \notin Extraction /\ None \notin Candidate
                             /\ None \notin Transaction /\ None \notin Draft

Request == [phase      : {"new", "reading", "ready", "committed", "rolledback"},
            doc        : Requests \cup {None},
            file       : Files \cup {None},
            twins      : Nat,                          \* others with the same bytes
            extraction : Extraction \cup {None},
            row        : Requests \cup {None},         \* the candidate's row ...
            candidate  : Candidate \cup {None}]        \* ... and what it said

Fresh == [phase |-> "new", doc |-> None, file |-> None, twins |-> 0,
          extraction |-> None, row |-> None, candidate |-> None]

InFlight(r) == requests[r].phase \in {"reading", "ready"}

Init == /\ requests = [r \in Requests |-> Fresh]
        /\ files = [d \in Requests |-> None]
        /\ extractions = [d \in Requests |-> None]
        /\ candidates = [c \in Requests |-> None]
        /\ transactions = [t \in Requests |-> None]
        /\ drafts = [e \in Requests |-> None]
        /\ links = [d \in Requests |-> None]

Finish(r, phase) == requests' = [requests EXCEPT ![r] = [Fresh EXCEPT !.phase = phase]]

MayStart(r, f) == /\ requests[r].phase = "new"
                  /\ Serial => \A q \in Requests : InFlight(q) => requests[q].file # f

-----------------------------------------------------------------------------
(* store_attachment puts the object and inserts the row; the extraction    *)
(* that follows may take as long as the services it asks.                  *)
Store(r, f) ==
  /\ MayStart(r, f)
  /\ requests' = [requests EXCEPT ![r] = [Fresh EXCEPT !.phase = "reading", !.doc = r, !.file = f]]
  /\ UNCHANGED tables

(* A request about attachment d begins. *)
Open(r, d) ==
  /\ files[d] # None
  /\ MayStart(r, files[d])
  /\ requests' = [requests EXCEPT ![r] =
       [Fresh EXCEPT !.phase = "reading", !.doc = d, !.file = files[d]]]
  /\ UNCHANGED tables

(* Only copies whose review is still open count. *)
TwinsInReview(d, f) == {x \in Requests \ {d} : files[x] = f /\ extractions[x].status = "needs_review"}

(* existing_attachment: the other attachments with the same SHA-256. *)
Twins(d, f) == {x \in Requests \ {d} : files[x] = f}

CandidatesOf(d) == {c \in Requests : candidates[c] # None /\ candidates[c].doc = d}

(* The reads of the request: of the twins, the extraction, the candidate.  *)
(* scalar_one_or_none raises when there are two rows, so a request that    *)
(* finds two candidates can only roll back.                                *)
Read(r) ==
  LET d == requests[r].doc IN
  /\ requests[r].phase = "reading"
  /\ Cardinality(CandidatesOf(d)) <= 1
  /\ \E row \in IF CandidatesOf(d) = {} THEN {None} ELSE CandidatesOf(d) :
       requests' = [requests EXCEPT ![r] =
         [@ EXCEPT !.phase = "ready",
                   !.twins = Cardinality(Twins(d, requests[r].file)),
                   !.extraction = extractions[d],
                   !.row = row,
                   !.candidate = IF row = None THEN None ELSE candidates[row]]]
  /\ UNCHANGED tables

(* The session writes the columns whose value it changed from what it read. *)
Merged(read, new, current) ==
  [f \in DOMAIN new |-> IF new[f] = read[f] THEN current[f] ELSE new[f]]

(* _upsert_extraction_candidate: what makes an item a candidate. *)
Worthy(item) == item.amount /\ item.open = {}

(* The candidate keeps the status it had. *)
ResuggestedKeeping(read, tx) == [read EXCEPT !.tx = tx]

(* The candidate that is there already is suggested anew. *)
Resuggested(read, tx) == [read EXCEPT !.status = "suggested", !.tx = tx]

(* A row is inserted whether or not there is one. *)
InsertsAlways(r) == TRUE

Inserts(r) == requests[r].row = None

(* _upsert_extraction_candidate for an item of transaction tx. *)
Upsert(r, item, tx) ==
  LET q == requests[r] IN
  candidates' =
    CASE ~Worthy(item) -> candidates
      [] Worthy(item) /\ Inserts(r) ->
           [candidates EXCEPT ![r] = [doc |-> q.doc, status |-> "suggested", tx |-> tx, entry |-> None]]
      [] OTHER ->
           [candidates EXCEPT ![q.row] = Merged(q.candidate, Resuggested(q.candidate, tx), @)]

-----------------------------------------------------------------------------
(* What is found in a document: what can be read here, or what the service *)
(* of a model answers in its place; an error of the service leaves the     *)
(* former, and sound without a service leaves the amount to be asked for.  *)
Found == Extractable

(* _store_source_transaction_for_item *)
NewTransaction(item) == [amount |-> item.amount, status |-> "pending"]

(* _extract_document_from_attachment, for a new attachment or again: a new *)
(* transaction each time.  Two twins make scalar_one_or_none raise.        *)
Extract(r) ==
  LET q == requests[r]
      d == q.doc IN
  /\ q.phase = "ready"
  /\ q.twins <= 1
  /\ \E item \in Found :
     \E status \in IF item.open = {} THEN {"extracted", "needs_review"} ELSE {"needs_review"} :
       LET new == [status |-> status, tx |-> r, item |-> item, duplicate |-> q.twins = 1] IN
       /\ transactions' = [transactions EXCEPT ![r] = NewTransaction(item)]
       /\ extractions' = [extractions EXCEPT ![d] =
            IF d = r THEN new ELSE Merged(q.extraction, new, @)]
       /\ Upsert(r, item, r)
  /\ files' = [files EXCEPT ![d] = q.file]
  /\ Finish(r, "committed")
  /\ UNCHANGED <<drafts, links>>

(* classify_document: the candidate is made again from the item as it was  *)
(* read, which is written back where its suggested account is a new one.   *)
Classify(r) ==
  LET q == requests[r] IN
  /\ q.phase = "ready"
  /\ q.extraction # None
  /\ Upsert(r, q.extraction.item, q.extraction.tx)
  /\ \/ UNCHANGED extractions
     \/ /\ Worthy(q.extraction.item)
        /\ extractions' = [extractions EXCEPT ![q.doc].item = q.extraction.item]
  /\ Finish(r, "committed")
  /\ UNCHANGED <<files, transactions, drafts, links>>

(* The item once the question was answered, with an amount that could be   *)
(* parsed or without: the question is closed either way.                   *)
Answered(item, code, parsed) ==
  [amount |-> item.amount \/ (code = "missing_amount" /\ parsed), open |-> item.open \ {code}]

(* answer_document_question, which ends in classify_document. *)
Answer(r) ==
  LET q == requests[r] IN
  /\ q.phase = "ready"
  /\ q.extraction # None
  /\ \E code \in q.extraction.item.open, parsed \in BOOLEAN :
       LET item == Answered(q.extraction.item, code, parsed)
           status == IF item.open = {} THEN "extracted" ELSE "needs_review" IN
       /\ extractions' = [extractions EXCEPT ![q.doc] =
            Merged(q.extraction, [q.extraction EXCEPT !.item = item, !.status = status], @)]
       /\ Upsert(r, item, q.extraction.tx)
  /\ Finish(r, "committed")
  /\ UNCHANGED <<files, transactions, drafts, links>>

MayApprove(r) == /\ requests[r].phase = "ready"
                 /\ requests[r].candidate # None
                 /\ requests[r].candidate.status = "suggested"

(* Lines of zero are drafted too. *)
DraftsAny(tx) == TRUE

Drafts(tx) == transactions[tx].amount

(* approve_candidate: the draft has the amount of the transaction, zero if *)
(* it has none.                                                            *)
Approve(r) ==
  LET q == requests[r]
      tx == q.candidate.tx IN
  /\ MayApprove(r)
  /\ Drafts(tx)
  /\ drafts' = [drafts EXCEPT ![r] = [doc |-> q.doc, tx |-> tx, amount |-> transactions[tx].amount]]
  /\ links' = [links EXCEPT ![q.doc] = r]
  /\ candidates' = [candidates EXCEPT ![q.row] =
       Merged(q.candidate, [q.candidate EXCEPT !.status = "approved", !.entry = r], @)]
  /\ extractions' = [extractions EXCEPT ![q.doc] =
       Merged(q.extraction, [q.extraction EXCEPT !.status = "approved"], @)]
  /\ transactions' = [transactions EXCEPT ![tx].status = "matched"]
  /\ Finish(r, "committed")
  /\ UNCHANGED files

(* reject_document, whatever the status so far. *)
Reject(r) ==
  LET q == requests[r] IN
  /\ q.phase = "ready"
  /\ q.extraction # None
  /\ extractions' = [extractions EXCEPT ![q.doc] =
       Merged(q.extraction, [q.extraction EXCEPT !.status = "rejected"], @)]
  /\ candidates' = IF q.row = None THEN candidates
                   ELSE [candidates EXCEPT ![q.row] =
                          Merged(q.candidate, [q.candidate EXCEPT !.status = "rejected"], @)]
  /\ Finish(r, "committed")
  /\ UNCHANGED <<files, transactions, drafts, links>>

(* A refusal, an error or a crash.  The object that was put stays in the   *)
(* store, where nothing names it.                                          *)
Rollback(r) ==
  /\ InFlight(r)
  /\ Finish(r, "rolledback")
  /\ UNCHANGED tables

Next == \E r \in Requests :
          \/ \E f \in Files : Store(r, f)
          \/ \E d \in Requests : Open(r, d)
          \/ Read(r)
          \/ Extract(r) \/ Classify(r) \/ Answer(r) \/ Approve(r) \/ Reject(r)
          \/ Rollback(r)

Spec == Init /\ [][Next]_vars

-----------------------------------------------------------------------------
(* The rows have the columns' types and name rows that are there, and no   *)
(* draft was made without an amount.                                       *)
TypeOK == /\ requests \in [Requests -> Request]
          /\ files \in [Requests -> Files \cup {None}]
          /\ extractions \in [Requests -> Extraction \cup {None}]
          /\ candidates \in [Requests -> Candidate \cup {None}]
          /\ transactions \in [Requests -> Transaction \cup {None}]
          /\ drafts \in [Requests -> Draft \cup {None}]
          /\ links \in [Requests -> Requests \cup {None}]

(* Of two attachments with the same bytes at least one is flagged, and an  *)
(* attachment that is flagged has a copy ("duplicate document detections   *)
(* are surfaced for review").                                              *)
DuplicatesSurfaced ==
  /\ \A d, x \in Requests :
       d # x /\ files[d] # None /\ files[d] = files[x] =>
         extractions[d].duplicate \/ extractions[x].duplicate
  /\ \A d \in Requests :
       files[d] # None /\ extractions[d].duplicate =>
         \E x \in Requests \ {d} : files[x] = files[d]

(* A document has one candidate, whichever handlers made it: every later   *)
(* read of the document expects one row at most.                           *)
OneCandidate ==
  \A c1, c2 \in Requests :
    candidates[c1] # None /\ candidates[c2] # None /\ candidates[c1].doc = candidates[c2].doc => c1 = c2

(* A candidate that counts as approved names the draft its document links  *)
(* to, made from the transaction the candidate stands for.                 *)
ApprovedIsDrafted ==
  \A c \in Requests : candidates[c] # None /\ candidates[c].status = "approved" =>
    /\ candidates[c].entry = links[candidates[c].doc]
    /\ candidates[c].entry # None
    /\ drafts[candidates[c].entry].tx = candidates[c].tx

(* A source transaction becomes one journal entry ("Raw transaction        *)
(* observed before it becomes a journal entry", "Candidate is not pending  *)
(* approval").                                                             *)
OneDraftPerTransaction ==
  \A e1, e2 \in Requests :
    drafts[e1] # None /\ drafts[e2] # None /\ drafts[e1].tx = drafts[e2].tx => e1 = e2
=============================================================================
