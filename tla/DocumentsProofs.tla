--------------------------- MODULE DocumentsProofs --------------------------
(***************************************************************************)
(* Whatever the requests on documents do to one another, the rows they     *)
(* leave are of the columns' types and name rows that are there, and no    *)
(* draft is made without an amount.  When the requests on the same bytes   *)
(* come one after the other, copies are flagged, a document has one        *)
(* candidate, and an approved one names the draft its document links to.   *)
(***************************************************************************)
EXTENDS Documents, FiniteSetTheorems, TLAPS

(* A request inserts rows under its own name, when it commits. *)
FreshRows ==
  \A r \in Requests : requests[r].phase # "committed" =>
    /\ files[r] = None /\ extractions[r] = None /\ candidates[r] = None
    /\ transactions[r] = None /\ drafts[r] = None

(* What a row names is there. *)
ExtractionNamed(x) == transactions[x.tx] # None

CandidateNamed(k) == /\ files[k.doc] # None
                     /\ transactions[k.tx] # None
                     /\ k.entry # None => drafts[k.entry] # None

RowsNamed ==
  /\ \A d \in Requests : files[d] = None <=> extractions[d] = None
  /\ \A d \in Requests : extractions[d] # None => ExtractionNamed(extractions[d])
  /\ \A c \in Requests : candidates[c] # None => CandidateNamed(candidates[c])

(* And so it is with what a request has read; a request on a document that *)
(* is not there yet is the upload of it.                                   *)
ReadOf(r) ==
  /\ requests[r].doc \in Requests
  /\ requests[r].file \in Files
  /\ requests[r].doc # r => files[requests[r].doc] = requests[r].file

RowsOf(r) ==
  /\ requests[r].extraction = None <=> requests[r].doc = r
  /\ requests[r].extraction # None => ExtractionNamed(requests[r].extraction)
  /\ requests[r].row = None <=> requests[r].candidate = None
  /\ requests[r].row # None =>
       /\ requests[r].doc # r
       /\ candidates[requests[r].row] # None
       /\ candidates[requests[r].row].doc = requests[r].doc
       /\ CandidateNamed(requests[r].candidate)

ReadsNamed == \A r \in Requests : /\ InFlight(r) => ReadOf(r)
                                  /\ requests[r].phase = "ready" => RowsOf(r)

(* The inductive invariant. *)
DocInv == TypeOK /\ FreshRows /\ RowsNamed /\ ReadsNamed

(* One request at a time is about the same bytes, and what it has read is  *)
(* what the tables say.                                                    *)
OneAtATime ==
  \A q, r \in Requests : q # r /\ InFlight(q) /\ InFlight(r) => requests[q].file # requests[r].file

ReadsCurrent ==
  \A r \in Requests : requests[r].phase = "ready" =>
    /\ requests[r].twins = Cardinality(Twins(requests[r].doc, requests[r].file))
    /\ requests[r].extraction = extractions[requests[r].doc]
    /\ requests[r].row = None => CandidatesOf(requests[r].doc) = {}
    /\ requests[r].row # None => requests[r].candidate = candidates[requests[r].row]

SerialDocInv == /\ DocInv /\ OneAtATime /\ ReadsCurrent
                /\ OneCandidate /\ DuplicatesSurfaced /\ ApprovedIsDrafted

LEMMA DocInit == Init => SerialDocInv
<1> SUFFICES ASSUME Init PROVE SerialDocInv
  OBVIOUS
<1>1. /\ \A r \in Requests : /\ requests[r] = Fresh /\ files[r] = None /\ extractions[r] = None
                             /\ candidates[r] = None /\ transactions[r] = None /\ drafts[r] = None
      /\ Fresh.phase = "new" /\ Fresh \in Request
  BY DEF Init, Fresh, Request
<1>2. TypeOK
  BY <1>1 DEF Init, TypeOK
<1>3. FreshRows /\ RowsNamed
  BY <1>1 DEF FreshRows, RowsNamed
<1>4. ReadsNamed /\ OneAtATime /\ ReadsCurrent
  BY <1>1 DEF ReadsNamed, OneAtATime, ReadsCurrent, InFlight
<1>5. OneCandidate /\ DuplicatesSurfaced /\ ApprovedIsDrafted
  BY <1>1 DEF OneCandidate, DuplicatesSurfaced, ApprovedIsDrafted
<1>6. QED
  BY <1>2, <1>3, <1>4, <1>5 DEF SerialDocInv, DocInv

(* What a session writes into a row has each column from what it made of   *)
(* the row it read or from the row as it is; where the row is the one that *)
(* was read it is what the session made of it.                             *)
LEMMA MergedExtraction ==
  ASSUME NEW read, NEW new \in Extraction, NEW current \in Extraction
  PROVE  /\ Merged(read, new, current) \in Extraction
         /\ Merged(read, new, current).tx \in {new.tx, current.tx}
         /\ read = current => Merged(read, new, current) = new
BY DEF Merged, Extraction

LEMMA MergedCandidate ==
  ASSUME NEW read, NEW new \in Candidate, NEW current \in Candidate
  PROVE  /\ Merged(read, new, current) \in Candidate
         /\ Merged(read, new, current).doc \in {new.doc, current.doc}
         /\ new.doc = read.doc => Merged(read, new, current).doc = current.doc
         /\ Merged(read, new, current).tx \in {new.tx, current.tx}
         /\ Merged(read, new, current).entry \in {new.entry, current.entry}
         /\ read = current => Merged(read, new, current) = new
BY DEF Merged, Candidate

(* A request that ends leaves the others as they are.                      *)
LEMMA FinishOnly ==
  ASSUME TypeOK, NEW r \in Requests, NEW phase \in {"committed", "rolledback"}, Finish(r, phase)
  PROVE  /\ requests' \in [Requests -> Request]
         /\ requests'[r].phase = phase
         /\ \A q \in Requests : q # r => requests'[q] = requests[q]
<1>1. [Fresh EXCEPT !.phase = phase] \in Request /\ [Fresh EXCEPT !.phase = phase].phase = phase
  BY DEF Fresh, Request
<1>2. QED
  BY <1>1 DEF Finish, TypeOK

(* What a commit does to the rows of other requests.                       *)
OnlyInserts(r) ==
  /\ \A x \in Requests \ {r} : /\ files[x] = None => files'[x] = None
                               /\ extractions[x] = None => extractions'[x] = None
                               /\ candidates[x] = None => candidates'[x] = None
                               /\ transactions[x] = None => transactions'[x] = None
                               /\ drafts[x] = None => drafts'[x] = None
  /\ \A x \in Requests : /\ files[x] # None => files'[x] = files[x]
                         /\ transactions[x] # None => transactions'[x] # None
                         /\ drafts[x] # None => drafts'[x] = drafts[x]
                         /\ candidates[x] # None =>
                              candidates'[x] # None /\ candidates'[x].doc = candidates[x].doc

TablesTyped == /\ files \in [Requests -> Files \cup {None}]
               /\ extractions \in [Requests -> Extraction \cup {None}]
               /\ candidates \in [Requests -> Candidate \cup {None}]
               /\ transactions \in [Requests -> Transaction \cup {None}]
               /\ drafts \in [Requests -> Draft \cup {None}]
               /\ links \in [Requests -> Requests \cup {None}]

LEMMA NamedStays ==
  ASSUME DocInv, NEW r \in Requests, OnlyInserts(r)
  PROVE  /\ \A x \in Extraction : ExtractionNamed(x) => ExtractionNamed(x)'
         /\ \A k \in Candidate : CandidateNamed(k) => CandidateNamed(k)'
BY DEF OnlyInserts, ExtractionNamed, CandidateNamed, Extraction, Candidate

LEMMA CommitKeeps ==
  ASSUME DocInv, NEW r \in Requests, requests[r].phase = "ready", Finish(r, "committed"),
         TablesTyped', RowsNamed', OnlyInserts(r)
  PROVE  DocInv'
<1>1. /\ requests' \in [Requests -> Request]
      /\ requests'[r].phase = "committed"
      /\ \A q \in Requests : q # r => requests'[q] = requests[q]
  BY FinishOnly DEF DocInv
<1>2. TypeOK'
  BY <1>1 DEF TypeOK, TablesTyped
<1>3. FreshRows'
  BY <1>1 DEF FreshRows, OnlyInserts, DocInv
<1>4. ASSUME NEW q \in Requests, InFlight(q)'
      PROVE  q # r /\ InFlight(q) /\ requests'[q] = requests[q] /\ requests[q] \in Request
  BY <1>1, <1>4 DEF InFlight, DocInv, TypeOK
<1>5. ASSUME NEW q \in Requests, InFlight(q)'
      PROVE  ReadOf(q)'
  <2>1. ReadOf(q) /\ requests'[q] = requests[q]
    BY <1>4, <1>5 DEF DocInv, ReadsNamed
  <2>2. requests[q].doc # q => files[requests[q].doc] # None
    BY <2>1, DocNoneAssumption DEF ReadOf
  <2>3. QED
    BY <2>1, <2>2 DEF ReadOf, OnlyInserts
<1>6. ASSUME NEW q \in Requests, requests'[q].phase = "ready"
      PROVE  RowsOf(q)'
  <2>1. InFlight(q)'
    BY <1>6 DEF InFlight
  <2>2. requests'[q] = requests[q] /\ requests[q] \in Request
    BY <2>1, <1>4
  <2>3. RowsOf(q)
    BY <2>2, <1>6 DEF DocInv, ReadsNamed
  <2>4. /\ requests[q].extraction # None => requests[q].extraction \in Extraction
        /\ requests[q].row # None => requests[q].candidate \in Candidate /\ requests[q].row \in Requests
    BY <2>2, <2>3 DEF Request, RowsOf
  <2>5. /\ requests[q].extraction # None => ExtractionNamed(requests[q].extraction)'
        /\ requests[q].row # None => CandidateNamed(requests[q].candidate)'
    BY <2>2, <2>3, <2>4, NamedStays DEF RowsOf
  <2>6. QED
    BY <2>2, <2>3, <2>4, <2>5 DEF RowsOf, OnlyInserts
<1>7. QED
  BY <1>2, <1>3, <1>5, <1>6 DEF DocInv, ReadsNamed

(* A request that is ready has read rows of the columns' types.            *)
LEMMA ReadyRows ==
  ASSUME DocInv, NEW r \in Requests, requests[r].phase = "ready"
  PROVE  /\ requests[r] \in Request
         /\ requests[r].doc \in Requests /\ requests[r].file \in Files /\ requests[r].twins \in Nat
         /\ requests[r].doc # r => files[requests[r].doc] = requests[r].file
         /\ requests[r].extraction # None =>
              /\ requests[r].extraction \in Extraction
              /\ requests[r].doc # r
              /\ ExtractionNamed(requests[r].extraction)
              /\ files[requests[r].doc] # None
              /\ extractions[requests[r].doc] \in Extraction
         /\ requests[r].row # None =>
              /\ requests[r].row \in Requests
              /\ requests[r].candidate \in Candidate
              /\ CandidateNamed(requests[r].candidate)
              /\ candidates[requests[r].row] \in Candidate
              /\ requests[r].extraction # None
              /\ candidates[requests[r].row].doc = requests[r].doc
              /\ requests[r].row # r
         /\ requests[r].row = None <=> requests[r].candidate = None
         /\ files[r] = None /\ extractions[r] = None /\ candidates[r] = None
         /\ transactions[r] = None /\ drafts[r] = None
<1>1. requests[r] \in Request /\ InFlight(r)
  BY DEF DocInv, TypeOK, InFlight
<1>2. ReadOf(r) /\ RowsOf(r)
  BY <1>1 DEF DocInv, ReadsNamed
<1>3. /\ files[r] = None /\ extractions[r] = None /\ candidates[r] = None
      /\ transactions[r] = None /\ drafts[r] = None
  BY DEF DocInv, FreshRows
<1>4. requests[r].doc # r => files[requests[r].doc] # None /\ extractions[requests[r].doc] \in Extraction
  BY <1>2, DocNoneAssumption DEF ReadOf, DocInv, RowsNamed, TypeOK
<1>5. requests[r].extraction # None => requests[r].extraction \in Extraction /\ requests[r].doc # r
  BY <1>1, <1>2 DEF Request, RowsOf
<1>6. requests[r].row # None =>
        /\ requests[r].row \in Requests
        /\ requests[r].candidate \in Candidate
        /\ candidates[requests[r].row] \in Candidate
        /\ requests[r].row # r
  BY <1>1, <1>2, <1>3 DEF Request, RowsOf, DocInv, TypeOK
<1>7. QED
  BY <1>1, <1>2, <1>3, <1>4, <1>5, <1>6 DEF ReadOf, RowsOf, Request

LEMMA ResuggestedType ==
  ASSUME NEW read \in Candidate, NEW tx \in Requests
  PROVE  /\ Resuggested(read, tx) \in Candidate
         /\ Resuggested(read, tx).status = "suggested"
         /\ Resuggested(read, tx).doc = read.doc
         /\ Resuggested(read, tx).entry = read.entry
         /\ Resuggested(read, tx).tx = tx
BY DEF Resuggested, Candidate

Suggested(doc, tx) == [doc |-> doc, status |-> "suggested", tx |-> tx, entry |-> None]

(* The three outcomes of making a candidate of an item: nothing, a new row *)
(* if there was none, or the row that was read.                            *)
LEMMA UpsertWrites ==
  ASSUME DocInv, NEW r \in Requests, requests[r].phase = "ready",
         NEW item \in Item, NEW tx \in Requests, Upsert(r, item, tx)
  PROVE  \/ candidates' = candidates
         \/ /\ requests[r].row = None
            /\ candidates' = [candidates EXCEPT ![r] = Suggested(requests[r].doc, tx)]
            /\ Suggested(requests[r].doc, tx) \in Candidate
         \/ /\ requests[r].row # None
            /\ \E k \in Candidate :
                 /\ k = Merged(requests[r].candidate, Resuggested(requests[r].candidate, tx),
                               candidates[requests[r].row])
                 /\ candidates' = [candidates EXCEPT ![requests[r].row] = k]
                 /\ k.doc = requests[r].doc
                 /\ k.tx \in {tx, candidates[requests[r].row].tx}
                 /\ k.entry \in {requests[r].candidate.entry, candidates[requests[r].row].entry}
<1>1. CASE ~Worthy(item)
  BY <1>1 DEF Upsert
<1>2. CASE Worthy(item) /\ requests[r].row = None
  BY <1>2, ReadyRows DEF Upsert, Inserts, Suggested, Candidate
<1>3. CASE Worthy(item) /\ requests[r].row # None
  <2>1. /\ requests[r].candidate \in Candidate /\ candidates[requests[r].row] \in Candidate
        /\ requests[r].row \in Requests
        /\ candidates[requests[r].row].doc = requests[r].doc
    BY <1>3, ReadyRows
  <2> DEFINE k == Merged(requests[r].candidate, Resuggested(requests[r].candidate, tx),
                         candidates[requests[r].row])
  <2>2. /\ Resuggested(requests[r].candidate, tx) \in Candidate
        /\ Resuggested(requests[r].candidate, tx).doc = requests[r].candidate.doc
        /\ Resuggested(requests[r].candidate, tx).entry = requests[r].candidate.entry
        /\ Resuggested(requests[r].candidate, tx).tx = tx
    BY <2>1, ResuggestedType
  <2>3. /\ k \in Candidate
        /\ k.doc = candidates[requests[r].row].doc
        /\ k.tx \in {tx, candidates[requests[r].row].tx}
        /\ k.entry \in {requests[r].candidate.entry, candidates[requests[r].row].entry}
    BY <2>1, <2>2, MergedCandidate
  <2>4. candidates' = [candidates EXCEPT ![requests[r].row] = k]
    BY <1>3 DEF Upsert, Inserts
  <2> HIDE DEF k
  <2>5. QED
    BY <1>3, <2>1, <2>3, <2>4 DEF k
<1>4. QED
  BY <1>1, <1>2, <1>3

(* The candidate that was read is rewritten from what was read of it.      *)
LEMMA CandidateRewritten ==
  ASSUME DocInv, NEW r \in Requests, requests[r].phase = "ready",
         requests[r].row # None,
         NEW k \in Candidate,
         candidates' = [candidates EXCEPT ![requests[r].row] = k],
         k.doc = requests[r].doc,
         transactions'[k.tx] # None \/ k.tx = candidates[requests[r].row].tx,
         k.entry \in {requests[r].candidate.entry, candidates[requests[r].row].entry},
         files'[requests[r].doc] # None, drafts' = drafts,
         \A x \in Requests : /\ files[x] # None => files'[x] = files[x]
                             /\ transactions[x] # None => transactions'[x] # None
  PROVE  /\ candidates' \in [Requests -> Candidate \cup {None}]
         /\ \A x \in Requests \ {r} : candidates[x] = None => candidates'[x] = None
         /\ \A x \in Requests : candidates[x] # None =>
              candidates'[x] # None /\ candidates'[x].doc = candidates[x].doc
         /\ \A x \in Requests : candidates'[x] # None => CandidateNamed(candidates[x])'
<1>1. candidates \in [Requests -> Candidate \cup {None}]
  BY DEF DocInv, TypeOK
<1>2. \A k1 \in Candidate : CandidateNamed(k1) => CandidateNamed(k1)'
  BY DEF CandidateNamed, Candidate
<1>3. \A x \in Requests : candidates[x] # None => candidates[x] \in Candidate /\ CandidateNamed(candidates[x])
  BY <1>1 DEF DocInv, RowsNamed
<1>4. /\ requests[r].row \in Requests /\ candidates[requests[r].row] \in Candidate
      /\ candidates[requests[r].row] # None
      /\ candidates[requests[r].row].doc = requests[r].doc
      /\ requests[r].candidate \in Candidate /\ CandidateNamed(requests[r].candidate)
  BY ReadyRows, DocNoRowAssumption
<1>5. CandidateNamed(k)'
  <2>1. CandidateNamed(candidates[requests[r].row])
    BY <1>3, <1>4
  <2>2. k.entry # None => drafts[k.entry] # None
    BY <1>4, <2>1 DEF CandidateNamed
  <2>3. transactions'[k.tx] # None
    BY <1>4, <2>1 DEF CandidateNamed, Candidate
  <2>4. QED
    BY <2>2, <2>3 DEF CandidateNamed
<1>6. k # None
  BY DocNoRowAssumption
<1>7. /\ candidates'[requests[r].row] = k
      /\ \A x \in Requests : x # requests[r].row => candidates'[x] = candidates[x]
      /\ candidates' \in [Requests -> Candidate \cup {None}]
  BY <1>1, <1>4
<1>8. ASSUME NEW x \in Requests, candidates'[x] # None
      PROVE  CandidateNamed(candidates[x])'
  <2>1. CASE x = requests[r].row
    BY <1>5, <1>7, <2>1
  <2>2. CASE x # requests[r].row
    <3>1. candidates'[x] = candidates[x] /\ candidates[x] # None
      BY <1>7, <1>8, <2>2
    <3>2. CandidateNamed(candidates[x])
      BY <1>3, <3>1
    <3>3. QED
      BY <1>2, <1>3, <3>1, <3>2 DEF CandidateNamed
  <2>3. QED
    BY <2>1, <2>2
<1>9. QED
  BY <1>4, <1>6, <1>7, <1>8

LEMMA UpsertKeeps ==
  ASSUME DocInv, NEW r \in Requests, requests[r].phase = "ready",
         NEW item \in Item, NEW tx \in Requests, Upsert(r, item, tx),
         transactions'[tx] # None, files'[requests[r].doc] # None, drafts' = drafts,
         \A x \in Requests : /\ files[x] # None => files'[x] = files[x]
                             /\ transactions[x] # None => transactions'[x] # None
  PROVE  /\ candidates' \in [Requests -> Candidate \cup {None}]
         /\ \A x \in Requests \ {r} : candidates[x] = None => candidates'[x] = None
         /\ \A x \in Requests : candidates[x] # None =>
              candidates'[x] # None /\ candidates'[x].doc = candidates[x].doc
         /\ \A x \in Requests : candidates'[x] # None => CandidateNamed(candidates[x])'
<1>1. candidates \in [Requests -> Candidate \cup {None}]
  BY DEF DocInv, TypeOK
<1>2. \A k \in Candidate : CandidateNamed(k) => CandidateNamed(k)'
  BY DEF CandidateNamed, Candidate
<1>3. \A x \in Requests : candidates[x] # None => candidates[x] \in Candidate /\ CandidateNamed(candidates[x])
  BY <1>1 DEF DocInv, RowsNamed
<1>4. CASE candidates' = candidates
  BY <1>1, <1>2, <1>3, <1>4 DEF CandidateNamed
<1>5. CASE /\ requests[r].row = None
           /\ candidates' = [candidates EXCEPT ![r] = Suggested(requests[r].doc, tx)]
           /\ Suggested(requests[r].doc, tx) \in Candidate
  <2>1. CandidateNamed(candidates[r])'
    <3>1. PICK k \in Candidate : k = Suggested(requests[r].doc, tx)
      BY <1>5
    <3>2. k.doc = requests[r].doc /\ k.tx = tx /\ k.entry = None
      BY <3>1 DEF Suggested
    <3>3. files'[k.doc] # None /\ transactions'[k.tx] # None /\ k.entry = None
      BY <3>2
    <3>4. candidates'[r] = k
      BY <1>1, <1>5, <3>1
    <3>5. CandidateNamed(k)'
      BY <3>3 DEF CandidateNamed
    <3>6. QED
      BY <3>4, <3>5 DEF CandidateNamed
  <2>2. candidates[r] = None
    BY ReadyRows
  <2>3. /\ candidates'[r] \in Candidate
        /\ \A x \in Requests : x # r => candidates'[x] = candidates[x]
        /\ candidates' \in [Requests -> Candidate \cup {None}]
    BY <1>1, <1>5
  <2>4. ASSUME NEW x \in Requests, candidates'[x] # None
        PROVE  CandidateNamed(candidates[x])'
    <3>1. CASE x # r
      <4>1. candidates'[x] = candidates[x] /\ candidates[x] # None
        BY <3>1, <2>3, <2>4
      <4>2. CandidateNamed(candidates[x])
        BY <4>1, <1>3
      <4>3. QED
        BY <4>1, <4>2, <1>2, <1>3 DEF CandidateNamed
    <3>2. QED
      BY <3>1, <2>1
  <2>5. QED
    BY <2>2, <2>3, <2>4
<1>6. ASSUME requests[r].row # None,
             NEW k \in Candidate,
             candidates' = [candidates EXCEPT ![requests[r].row] = k],
             k.doc = requests[r].doc,
             k.tx \in {tx, candidates[requests[r].row].tx},
             k.entry \in {requests[r].candidate.entry, candidates[requests[r].row].entry}
      PROVE  /\ candidates' \in [Requests -> Candidate \cup {None}]
             /\ \A x \in Requests \ {r} : candidates[x] = None => candidates'[x] = None
             /\ \A x \in Requests : candidates[x] # None =>
                  candidates'[x] # None /\ candidates'[x].doc = candidates[x].doc
             /\ \A x \in Requests : candidates'[x] # None => CandidateNamed(candidates[x])'
  <2>1. transactions'[k.tx] # None \/ k.tx = candidates[requests[r].row].tx
    BY <1>6
  <2>2. QED
    BY <1>6, <2>1, CandidateRewritten
<1>7. QED
  BY <1>4, <1>5, <1>6, UpsertWrites

(* The extraction of the document gets a row x; nothing else but the       *)
(* candidate is written.  Classify, Answer and Reject do no more.          *)
LEMMA ExtractionWritten ==
  ASSUME DocInv, NEW r \in Requests, requests[r].phase = "ready", Finish(r, "committed"),
         requests[r].extraction # None,
         NEW x \in Extraction, extractions' = [extractions EXCEPT ![requests[r].doc] = x],
         x.tx \in {requests[r].extraction.tx, extractions[requests[r].doc].tx},
         UNCHANGED <<files, transactions, drafts, links>>,
         candidates' \in [Requests -> Candidate \cup {None}],
         \A y \in Requests \ {r} : candidates[y] = None => candidates'[y] = None,
         \A y \in Requests : candidates[y] # None =>
              candidates'[y] # None /\ candidates'[y].doc = candidates[y].doc,
         \A y \in Requests : candidates'[y] # None => CandidateNamed(candidates[y])'
  PROVE  DocInv'
<1>1. /\ requests[r].doc \in Requests /\ requests[r].doc # r
      /\ files[requests[r].doc] # None
      /\ extractions[requests[r].doc] \in Extraction
      /\ ExtractionNamed(requests[r].extraction)
  BY ReadyRows
<1>2. extractions \in [Requests -> Extraction \cup {None}]
  BY DEF DocInv, TypeOK
<1>3. /\ extractions' \in [Requests -> Extraction \cup {None}]
      /\ extractions'[requests[r].doc] = x
      /\ \A y \in Requests : y # requests[r].doc => extractions'[y] = extractions[y]
  BY <1>1, <1>2
<1>4. TablesTyped'
  BY <1>3 DEF DocInv, TypeOK, TablesTyped
<1>5. OnlyInserts(r)
  BY <1>1, <1>3, DocNoRowAssumption DEF OnlyInserts
<1>6. ExtractionNamed(x)'
  <2>1. ExtractionNamed(extractions[requests[r].doc])
    BY <1>1, DocNoRowAssumption DEF DocInv, RowsNamed
  <2>2. transactions[x.tx] # None
    BY <1>1, <2>1 DEF ExtractionNamed
  <2>3. QED
    BY <2>2 DEF ExtractionNamed
<1>7. ASSUME NEW y \in Requests, extractions'[y] # None
      PROVE  ExtractionNamed(extractions[y])'
  <2>1. CASE y = requests[r].doc
    BY <2>1, <1>3, <1>6 DEF ExtractionNamed
  <2>2. CASE y # requests[r].doc
    BY <2>2, <1>3, <1>7 DEF ExtractionNamed, DocInv, RowsNamed
  <2>3. QED
    BY <2>1, <2>2
<1>8. \A y \in Requests : files'[y] = None <=> extractions'[y] = None
  BY <1>1, <1>3, DocNoRowAssumption DEF DocInv, RowsNamed
<1>9. RowsNamed'
  BY <1>7, <1>8 DEF RowsNamed
<1>10. QED
  BY <1>4, <1>5, <1>9, CommitKeeps

(* The same with the candidate made of an item of the extraction's         *)
(* transaction.                                                            *)
LEMMA ExtractionUpserted ==
  ASSUME DocInv, NEW r \in Requests, requests[r].phase = "ready", Finish(r, "committed"),
         requests[r].extraction # None,
         NEW x \in Extraction, extractions' = [extractions EXCEPT ![requests[r].doc] = x],
         x.tx \in {requests[r].extraction.tx, extractions[requests[r].doc].tx},
         UNCHANGED <<files, transactions, drafts, links>>,
         NEW item \in Item, Upsert(r, item, requests[r].extraction.tx)
  PROVE  DocInv'
<1>1. /\ requests[r].extraction \in Extraction
      /\ ExtractionNamed(requests[r].extraction)
      /\ files[requests[r].doc] # None
  BY ReadyRows
<1>2. PICK tx \in Requests : tx = requests[r].extraction.tx /\ transactions[tx] # None
  BY <1>1 DEF Extraction, ExtractionNamed
<1>3. /\ candidates' \in [Requests -> Candidate \cup {None}]
      /\ \A y \in Requests \ {r} : candidates[y] = None => candidates'[y] = None
      /\ \A y \in Requests : candidates[y] # None =>
              candidates'[y] # None /\ candidates'[y].doc = candidates[y].doc
      /\ \A y \in Requests : candidates'[y] # None => CandidateNamed(candidates[y])'
  BY <1>1, <1>2, UpsertKeeps
<1>4. QED
  BY <1>3, ExtractionWritten

LEMMA ClassifyWrites ==
  ASSUME DocInv, NEW r \in Requests, Classify(r)
  PROVE  \E x \in Extraction :
           /\ extractions' = [extractions EXCEPT ![requests[r].doc] = x]
           /\ x = extractions[requests[r].doc]
                \/ x = [extractions[requests[r].doc] EXCEPT !.item = requests[r].extraction.item]
           /\ x.tx = extractions[requests[r].doc].tx
           /\ x.duplicate = extractions[requests[r].doc].duplicate
<1>1. /\ requests[r].extraction \in Extraction
      /\ extractions[requests[r].doc] \in Extraction
      /\ requests[r].doc \in Requests
  BY ReadyRows DEF Classify
<1>2. extractions \in [Requests -> Extraction \cup {None}]
  BY DEF DocInv, TypeOK
<1>3. CASE UNCHANGED extractions
  <2>1. extractions' = [extractions EXCEPT ![requests[r].doc] = extractions[requests[r].doc]]
    BY <1>1, <1>2, <1>3
  <2>2. QED
    BY <1>1, <2>1
<1>4. CASE extractions' = [extractions EXCEPT ![requests[r].doc].item = requests[r].extraction.item]
  <2>1. PICK x : x = [extractions[requests[r].doc] EXCEPT !.item = requests[r].extraction.item]
    OBVIOUS
  <2>2. extractions' = [extractions EXCEPT ![requests[r].doc] = x]
    BY <1>4, <2>1
  <2>3. /\ x \in Extraction
        /\ x.tx = extractions[requests[r].doc].tx
        /\ x.duplicate = extractions[requests[r].doc].duplicate
    BY <1>1, <2>1 DEF Extraction
  <2>4. QED
    BY <2>1, <2>2, <2>3
<1>5. QED
  BY <1>3, <1>4 DEF Classify

LEMMA ClassifyKeeps ==
  ASSUME DocInv, NEW r \in Requests, Classify(r)
  PROVE  DocInv'
<1>1. /\ requests[r].phase = "ready" /\ requests[r].extraction # None /\ Finish(r, "committed")
      /\ Upsert(r, requests[r].extraction.item, requests[r].extraction.tx)
      /\ UNCHANGED <<files, transactions, drafts, links>>
  BY DEF Classify
<1>2. requests[r].extraction \in Extraction
  BY <1>1, ReadyRows
<1>3. requests[r].extraction.item \in Item
  BY <1>2 DEF Extraction
<1>4. PICK x \in Extraction : /\ extractions' = [extractions EXCEPT ![requests[r].doc] = x]
                              /\ x.tx = extractions[requests[r].doc].tx
  BY ClassifyWrites
<1>5. QED
  BY <1>1, <1>3, <1>4, ExtractionUpserted

(* What an answer makes of the extraction that was read.                   *)
LEMMA AnsweredType ==
  ASSUME NEW item \in Item, NEW code, NEW parsed \in BOOLEAN
  PROVE  Answered(item, code, parsed) \in Item
BY DEF Answered, Item

LEMMA AnswerWrites ==
  ASSUME DocInv, NEW r \in Requests, Answer(r)
  PROVE  \E item \in Item, new \in Extraction, x \in Extraction :
           /\ extractions' = [extractions EXCEPT ![requests[r].doc] = x]
           /\ x = Merged(requests[r].extraction, new, extractions[requests[r].doc])
           /\ new.tx = requests[r].extraction.tx
           /\ new.duplicate = requests[r].extraction.duplicate
           /\ x.tx \in {requests[r].extraction.tx, extractions[requests[r].doc].tx}
           /\ Upsert(r, item, requests[r].extraction.tx)
<1>1. /\ requests[r].extraction \in Extraction
      /\ extractions[requests[r].doc] \in Extraction
      /\ requests[r].doc \in Requests
  BY ReadyRows DEF Answer
<1> DEFINE Item2(code, parsed) == Answered(requests[r].extraction.item, code, parsed)
           New(item, status) == [requests[r].extraction EXCEPT !.item = item, !.status = status]
<1>2. PICK code \in requests[r].extraction.item.open, parsed \in BOOLEAN :
        /\ extractions' = [extractions EXCEPT ![requests[r].doc] =
             Merged(requests[r].extraction,
                    New(Item2(code, parsed), IF Item2(code, parsed).open = {} THEN "extracted" ELSE "needs_review"),
                    @)]
        /\ Upsert(r, Item2(code, parsed), requests[r].extraction.tx)
  BY DEF Answer
<1>3. PICK item \in Item : item = Item2(code, parsed)
  BY <1>1, AnsweredType DEF Extraction
<1>4. PICK new : new = New(item, IF item.open = {} THEN "extracted" ELSE "needs_review")
  OBVIOUS
<1>5. /\ new \in Extraction
      /\ new.tx = requests[r].extraction.tx
      /\ new.duplicate = requests[r].extraction.duplicate
  BY <1>1, <1>4 DEF Extraction
<1>6. PICK x \in Extraction :
        /\ x = Merged(requests[r].extraction, new, extractions[requests[r].doc])
        /\ x.tx \in {new.tx, extractions[requests[r].doc].tx}
  BY <1>1, <1>5, MergedExtraction
<1>7. extractions' = [extractions EXCEPT ![requests[r].doc] = x]
  BY <1>2, <1>3, <1>4, <1>6
<1>8. Upsert(r, item, requests[r].extraction.tx)
  BY <1>2, <1>3
<1> HIDE DEF Item2, New
<1>9. QED
  BY <1>5, <1>6, <1>7, <1>8

LEMMA AnswerKeeps ==
  ASSUME DocInv, NEW r \in Requests, Answer(r)
  PROVE  DocInv'
<1>1. /\ requests[r].phase = "ready" /\ requests[r].extraction # None /\ Finish(r, "committed")
      /\ UNCHANGED <<files, transactions, drafts, links>>
  BY DEF Answer
<1>2. PICK item \in Item, x \in Extraction :
        /\ extractions' = [extractions EXCEPT ![requests[r].doc] = x]
        /\ x.tx \in {requests[r].extraction.tx, extractions[requests[r].doc].tx}
        /\ Upsert(r, item, requests[r].extraction.tx)
  BY AnswerWrites
<1>3. QED
  BY <1>1, <1>2, ExtractionUpserted

(* What an extraction writes: the document is there from then on.          *)
LEMMA ExtractWrites ==
  ASSUME DocInv, NEW r \in Requests, Extract(r)
  PROVE  \E item \in Item, new \in Extraction, x \in Extraction :
           /\ new.duplicate = (requests[r].twins = 1) /\ new.tx = r
           /\ requests[r].doc = r => x = new
           /\ requests[r].doc # r =>
                /\ x = Merged(requests[r].extraction, new, extractions[requests[r].doc])
                /\ x.tx \in {r, extractions[requests[r].doc].tx}
                /\ extractions[requests[r].doc] \in Extraction
           /\ extractions' = [extractions EXCEPT ![requests[r].doc] = x]
           /\ transactions' = [transactions EXCEPT ![r] = NewTransaction(item)]
           /\ Upsert(r, item, r)
<1>1. PICK item \in Found, status \in {"extracted", "needs_review"} :
        LET new == [status |-> status, tx |-> r, item |-> item, duplicate |-> requests[r].twins = 1] IN
        /\ transactions' = [transactions EXCEPT ![r] = NewTransaction(item)]
        /\ extractions' = [extractions EXCEPT ![requests[r].doc] =
             IF requests[r].doc = r THEN new ELSE Merged(requests[r].extraction, new, @)]
        /\ Upsert(r, item, r)
  BY DEF Extract
<1>2. item \in Item
  BY DEF Found, Extractable
<1> DEFINE N == [status |-> status, tx |-> r, item |-> item, duplicate |-> requests[r].twins = 1]
<1>3. /\ N \in Extraction
      /\ N.duplicate = (requests[r].twins = 1) /\ N.tx = r
  BY <1>2 DEF Extraction
<1>4. extractions' = [extractions EXCEPT ![requests[r].doc] =
        IF requests[r].doc = r THEN N ELSE Merged(requests[r].extraction, N, extractions[requests[r].doc])]
  BY <1>1
<1> HIDE DEF N
<1>5. CASE requests[r].doc = r
  BY <1>1, <1>2, <1>3, <1>4, <1>5
<1>6. CASE requests[r].doc # r
  <2>1. extractions[requests[r].doc] \in Extraction
    <3>1. requests[r].phase = "ready" /\ requests[r].doc # r
      BY <1>6 DEF Extract
    <3>2. RowsOf(r)
      BY <3>1 DEF DocInv, ReadsNamed
    <3>3. QED
      BY <3>1, <3>2, ReadyRows DEF RowsOf
  <2>2. PICK x \in Extraction : /\ x = Merged(requests[r].extraction, N, extractions[requests[r].doc])
                                /\ x.tx \in {N.tx, extractions[requests[r].doc].tx}
    BY <1>3, <2>1, MergedExtraction
  <2>3. extractions' = [extractions EXCEPT ![requests[r].doc] = x]
    BY <1>4, <1>6, <2>2
  <2>4. QED
    BY <1>1, <1>2, <1>3, <1>6, <2>1, <2>2, <2>3
<1>7. QED
  BY <1>5, <1>6

LEMMA ExtractKeeps ==
  ASSUME DocInv, NEW r \in Requests, Extract(r)
  PROVE  DocInv'
<1>1. /\ requests[r].phase = "ready" /\ Finish(r, "committed")
      /\ files' = [files EXCEPT ![requests[r].doc] = requests[r].file]
      /\ UNCHANGED <<drafts, links>>
  BY DEF Extract
<1>2. PICK item \in Item, x \in Extraction :
        /\ x.tx = r \/ (requests[r].doc # r /\ x.tx = extractions[requests[r].doc].tx)
        /\ requests[r].doc # r => extractions[requests[r].doc] \in Extraction
        /\ extractions' = [extractions EXCEPT ![requests[r].doc] = x]
        /\ transactions' = [transactions EXCEPT ![r] = NewTransaction(item)]
        /\ Upsert(r, item, r)
  BY ExtractWrites
<1>3. /\ requests[r].doc \in Requests /\ requests[r].file \in Files
      /\ requests[r].doc # r => files[requests[r].doc] = requests[r].file
      /\ files[r] = None /\ transactions[r] = None /\ extractions[r] = None
  BY <1>1, ReadyRows
<1>4. TypeOK
  BY DEF DocInv
<1>5. NewTransaction(item) \in Transaction
  BY DEF NewTransaction, Item, Transaction
<1>6. /\ files' \in [Requests -> Files \cup {None}]
      /\ files'[requests[r].doc] = requests[r].file
      /\ \A y \in Requests : y # requests[r].doc => files'[y] = files[y]
      /\ \A y \in Requests : files[y] # None => files'[y] = files[y]
  BY <1>1, <1>3, <1>4 DEF TypeOK
<1>7. /\ extractions' \in [Requests -> Extraction \cup {None}]
      /\ extractions'[requests[r].doc] = x
      /\ \A y \in Requests : y # requests[r].doc => extractions'[y] = extractions[y]
  BY <1>2, <1>3, <1>4 DEF TypeOK
<1>8. /\ transactions' \in [Requests -> Transaction \cup {None}]
      /\ transactions'[r] # None
      /\ \A y \in Requests : y # r => transactions'[y] = transactions[y]
  BY <1>2, <1>4, <1>5, DocNoRowAssumption DEF TypeOK
<1>9. /\ requests[r].file # None /\ x # None
      /\ \A y \in Requests : transactions[y] # None => transactions'[y] # None
  BY <1>3, <1>8, DocNoneAssumption, DocNoRowAssumption
<1>10. /\ candidates' \in [Requests -> Candidate \cup {None}]
       /\ \A y \in Requests \ {r} : candidates[y] = None => candidates'[y] = None
       /\ \A y \in Requests : candidates[y] # None =>
            candidates'[y] # None /\ candidates'[y].doc = candidates[y].doc
       /\ \A y \in Requests : candidates'[y] # None => CandidateNamed(candidates[y])'
  BY <1>1, <1>2, <1>6, <1>8, <1>9, UpsertKeeps
<1>11. TablesTyped'
  BY <1>1, <1>4, <1>6, <1>7, <1>8, <1>10 DEF TypeOK, TablesTyped
<1>12. requests[r].doc # r => files[requests[r].doc] # None /\ extractions[requests[r].doc] # None
  BY <1>2, <1>3, <1>9, DocNoRowAssumption
<1>13. OnlyInserts(r)
  BY <1>1, <1>6, <1>7, <1>8, <1>9, <1>10, <1>12 DEF OnlyInserts
<1>14. ExtractionNamed(x)'
  <2>1. requests[r].doc # r => ExtractionNamed(extractions[requests[r].doc])
    BY <1>3, <1>12 DEF DocInv, RowsNamed
  <2>2. requests[r].doc # r => transactions[extractions[requests[r].doc].tx] # None
                               /\ extractions[requests[r].doc].tx \in Requests
    BY <1>2, <2>1 DEF ExtractionNamed, Extraction
  <2>3. transactions'[x.tx] # None
    BY <1>2, <1>8, <1>9, <2>2
  <2>4. QED
    BY <2>3 DEF ExtractionNamed
<1>15. ASSUME NEW y \in Requests, extractions'[y] # None
       PROVE  ExtractionNamed(extractions[y])'
  <2>1. CASE y = requests[r].doc
    BY <2>1, <1>7, <1>14 DEF ExtractionNamed
  <2>2. CASE y # requests[r].doc
    <3>1. /\ extractions'[y] = extractions[y] /\ extractions[y] \in Extraction
          /\ ExtractionNamed(extractions[y])
      BY <2>2, <1>4, <1>7, <1>15 DEF DocInv, RowsNamed, TypeOK
    <3>2. ExtractionNamed(extractions[y])'
      BY <3>1, <1>13 DEF ExtractionNamed, OnlyInserts, Extraction
    <3>3. QED
      BY <3>2
  <2>3. QED
    BY <2>1, <2>2
<1>16. \A y \in Requests : files'[y] = None <=> extractions'[y] = None
  BY <1>6, <1>7, <1>9 DEF DocInv, RowsNamed
<1>17. RowsNamed'
  BY <1>10, <1>15, <1>16 DEF RowsNamed
<1>18. QED
  BY <1>1, <1>11, <1>13, <1>17, CommitKeeps

(* What an approval writes. *)
Approves(r, tx, new, k, x) ==
  /\ tx = requests[r].candidate.tx
  /\ new = [requests[r].candidate EXCEPT !.status = "approved", !.entry = r]
  /\ new.tx = tx /\ new.entry = r
  /\ k = Merged(requests[r].candidate, new, candidates[requests[r].row])
  /\ k.doc = requests[r].doc
  /\ k.tx \in {tx, candidates[requests[r].row].tx}
  /\ k.entry \in {r, candidates[requests[r].row].entry}
  /\ candidates' = [candidates EXCEPT ![requests[r].row] = k]
  /\ x.tx \in {requests[r].extraction.tx, extractions[requests[r].doc].tx}
  /\ requests[r].extraction = extractions[requests[r].doc] =>
       x.duplicate = extractions[requests[r].doc].duplicate
  /\ extractions' = [extractions EXCEPT ![requests[r].doc] = x]
  /\ transactions[tx] \in Transaction
  /\ transactions' = [transactions EXCEPT ![tx].status = "matched"]
  /\ [doc |-> requests[r].doc, tx |-> tx, amount |-> transactions[tx].amount] \in Draft
  /\ drafts' = [drafts EXCEPT
       ![r] = [doc |-> requests[r].doc, tx |-> tx, amount |-> transactions[tx].amount]]

LEMMA ApproveWrites ==
  ASSUME DocInv, NEW r \in Requests, Approve(r)
  PROVE  \E tx \in Requests, new \in Candidate, k \in Candidate, x \in Extraction :
           Approves(r, tx, new, k, x)
<1>1. requests[r].phase = "ready" /\ requests[r].candidate # None
  BY DEF Approve, MayApprove
<1>2. /\ requests[r].row # None /\ requests[r].doc \in Requests
      /\ requests[r].candidate \in Candidate /\ CandidateNamed(requests[r].candidate)
      /\ candidates[requests[r].row] \in Candidate
      /\ candidates[requests[r].row].doc = requests[r].doc
      /\ requests[r].extraction \in Extraction
      /\ extractions[requests[r].doc] \in Extraction
  BY <1>1, ReadyRows
<1>3. PICK tx \in Requests : tx = requests[r].candidate.tx
  BY <1>2 DEF Candidate
<1>4. transactions[tx] \in Transaction
  BY <1>2, <1>3 DEF CandidateNamed, DocInv, TypeOK
<1>5. PICK new : new = [requests[r].candidate EXCEPT !.status = "approved", !.entry = r]
  OBVIOUS
<1>6. /\ new \in Candidate /\ new.tx = tx /\ new.entry = r
      /\ new.doc = requests[r].candidate.doc
  BY <1>2, <1>3, <1>5 DEF Candidate
<1>7. PICK k \in Candidate :
        /\ k = Merged(requests[r].candidate, new, candidates[requests[r].row])
        /\ k.doc = requests[r].doc
        /\ k.tx \in {tx, candidates[requests[r].row].tx}
        /\ k.entry \in {r, candidates[requests[r].row].entry}
  BY <1>2, <1>6, MergedCandidate
<1>8. candidates' = [candidates EXCEPT ![requests[r].row] = k]
  BY <1>5, <1>7 DEF Approve
<1>9. PICK xn : xn = [requests[r].extraction EXCEPT !.status = "approved"]
  OBVIOUS
<1>10. /\ xn \in Extraction /\ xn.tx = requests[r].extraction.tx
       /\ xn.duplicate = requests[r].extraction.duplicate
  BY <1>2, <1>9 DEF Extraction
<1>11. PICK x \in Extraction :
         /\ x = Merged(requests[r].extraction, xn, extractions[requests[r].doc])
         /\ x.tx \in {requests[r].extraction.tx, extractions[requests[r].doc].tx}
         /\ requests[r].extraction = extractions[requests[r].doc] => x = xn
  BY <1>2, <1>10, MergedExtraction
<1>12. extractions' = [extractions EXCEPT ![requests[r].doc] = x]
  BY <1>9, <1>11 DEF Approve
<1>13. /\ transactions[tx].amount = TRUE
       /\ transactions' = [transactions EXCEPT ![tx].status = "matched"]
       /\ drafts' = [drafts EXCEPT
            ![r] = [doc |-> requests[r].doc, tx |-> tx, amount |-> transactions[tx].amount]]
  BY <1>3, <1>4 DEF Approve, Drafts, Transaction
<1>14. [doc |-> requests[r].doc, tx |-> tx, amount |-> transactions[tx].amount] \in Draft
  BY <1>2, <1>13 DEF Draft
<1>15. requests[r].extraction = extractions[requests[r].doc] =>
                x.duplicate = extractions[requests[r].doc].duplicate
  BY <1>10, <1>11
<1>16. Approves(r, tx, new, k, x)
  BY <1>3, <1>4, <1>5, <1>6, <1>7, <1>8, <1>11, <1>12, <1>13, <1>14, <1>15 DEF Approves
<1>17. QED
  BY <1>6, <1>16

LEMMA ApproveKeeps ==
  ASSUME DocInv, NEW r \in Requests, Approve(r)
  PROVE  DocInv'
<1>1. /\ requests[r].phase = "ready" /\ Finish(r, "committed")
      /\ links' = [links EXCEPT ![requests[r].doc] = r]
      /\ files' = files /\ requests[r].candidate # None
  BY DEF Approve, MayApprove
<1> PICK tx \in Requests, new \in Candidate, k \in Candidate, x \in Extraction :
        Approves(r, tx, new, k, x)
  BY ApproveWrites
<1>2. /\ tx = requests[r].candidate.tx
      /\ k.doc = requests[r].doc
      /\ k.tx \in {tx, candidates[requests[r].row].tx}
      /\ k.entry \in {r, candidates[requests[r].row].entry}
      /\ candidates' = [candidates EXCEPT ![requests[r].row] = k]
      /\ x.tx \in {requests[r].extraction.tx, extractions[requests[r].doc].tx}
      /\ extractions' = [extractions EXCEPT ![requests[r].doc] = x]
      /\ transactions[tx] \in Transaction
      /\ transactions' = [transactions EXCEPT ![tx].status = "matched"]
      /\ [doc |-> requests[r].doc, tx |-> tx, amount |-> transactions[tx].amount] \in Draft
      /\ drafts' = [drafts EXCEPT
           ![r] = [doc |-> requests[r].doc, tx |-> tx, amount |-> transactions[tx].amount]]
  BY DEF Approves
<1>3. TypeOK
  BY DEF DocInv
<1>4. /\ requests[r].doc \in Requests /\ requests[r].doc # r
      /\ requests[r].row \in Requests /\ requests[r].row # r
      /\ candidates[requests[r].row] \in Candidate
      /\ candidates[requests[r].row].doc = requests[r].doc
      /\ extractions[requests[r].doc] \in Extraction
      /\ ExtractionNamed(requests[r].extraction)
      /\ files[requests[r].doc] # None
      /\ drafts[r] = None
  BY <1>1, ReadyRows
<1>5. /\ candidates' \in [Requests -> Candidate \cup {None}]
      /\ candidates'[requests[r].row] = k
      /\ \A y \in Requests : y # requests[r].row => candidates'[y] = candidates[y]
  BY <1>2, <1>3, <1>4 DEF TypeOK
<1>6. /\ extractions' \in [Requests -> Extraction \cup {None}]
      /\ extractions'[requests[r].doc] = x
      /\ \A y \in Requests : y # requests[r].doc => extractions'[y] = extractions[y]
  BY <1>2, <1>3, <1>4 DEF TypeOK
<1>7. [transactions[tx] EXCEPT !.status = "matched"] \in Transaction
  BY <1>2 DEF Transaction
<1>8. /\ transactions' \in [Requests -> Transaction \cup {None}]
      /\ transactions'[tx] # None
      /\ \A y \in Requests : y # tx => transactions'[y] = transactions[y]
  BY <1>2, <1>3, <1>7, DocNoRowAssumption DEF TypeOK
<1>9. /\ drafts' \in [Requests -> Draft \cup {None}]
      /\ drafts'[r] # None
      /\ \A y \in Requests : y # r => drafts'[y] = drafts[y]
  BY <1>2, <1>3, DocNoRowAssumption DEF TypeOK
<1>10. links' \in [Requests -> Requests \cup {None}]
  BY <1>1, <1>3, <1>4 DEF TypeOK
<1>11. TablesTyped'
  BY <1>1, <1>3, <1>5, <1>6, <1>8, <1>9, <1>10 DEF TypeOK, TablesTyped
<1>12. /\ \A y \in Requests : transactions[y] = None => transactions'[y] = None
       /\ \A y \in Requests : transactions[y] # None => transactions'[y] # None
       /\ \A y \in Requests : drafts[y] # None => drafts'[y] = drafts[y] /\ drafts'[y] # None
       /\ transactions[tx] # None
  BY <1>2, <1>4, <1>8, <1>9, DocNoRowAssumption
<1>13. OnlyInserts(r)
  <2>1. /\ \A y \in Requests : candidates[y] = None => candidates'[y] = None
        /\ \A y \in Requests : candidates[y] # None =>
             candidates'[y] # None /\ candidates'[y].doc = candidates[y].doc
    BY <1>2, <1>4, <1>5, DocNoRowAssumption
  <2>2. \A y \in Requests : extractions[y] = None => extractions'[y] = None
    BY <1>4, <1>6, DocNoRowAssumption
  <2>3. QED
    BY <1>1, <1>9, <1>12, <2>1, <2>2 DEF OnlyInserts
<1>14. CandidateNamed(k)'
  <2>1. CandidateNamed(candidates[requests[r].row])
    BY <1>4, DocNoRowAssumption DEF DocInv, RowsNamed
  <2>2. transactions'[k.tx] # None
    <3>1. PICK c \in Candidate : c = candidates[requests[r].row]
      BY <1>4
    <3>2. c.tx \in Requests /\ transactions[c.tx] # None
      BY <2>1, <3>1 DEF CandidateNamed, Candidate
    <3>3. k.tx \in {c.tx, tx}
      BY <1>2, <3>1
    <3>4. QED
      BY <1>8, <1>12, <3>2, <3>3
  <2>3. k.entry # None => drafts'[k.entry] # None
    BY <1>2, <1>4, <1>9, <1>12, <2>1 DEF CandidateNamed, Candidate
  <2>4. files'[k.doc] # None
    BY <1>1, <1>2, <1>4
  <2>5. QED
    BY <2>2, <2>3, <2>4 DEF CandidateNamed
<1>15. ASSUME NEW y \in Requests, candidates'[y] # None
       PROVE  CandidateNamed(candidates[y])'
  <2>1. CASE y = requests[r].row
    BY <2>1, <1>5, <1>14 DEF CandidateNamed
  <2>2. CASE y # requests[r].row
    <3>1. /\ candidates'[y] = candidates[y] /\ candidates[y] \in Candidate
          /\ CandidateNamed(candidates[y])
      BY <2>2, <1>3, <1>5, <1>15 DEF DocInv, RowsNamed, TypeOK
    <3>2. CandidateNamed(candidates[y])'
      BY <3>1, <1>13, NamedStays DEF CandidateNamed
    <3>3. QED
      BY <3>2
  <2>3. QED
    BY <2>1, <2>2
<1>16. ExtractionNamed(x)'
  <2>1. ExtractionNamed(extractions[requests[r].doc])
    BY <1>4, DocNoRowAssumption DEF DocInv, RowsNamed
  <2>2. x.tx \in Requests /\ transactions[x.tx] # None
    BY <1>2, <1>4, <2>1 DEF ExtractionNamed, Extraction
  <2>3. QED
    BY <1>12, <2>2 DEF ExtractionNamed
<1>17. ASSUME NEW y \in Requests, extractions'[y] # None
       PROVE  ExtractionNamed(extractions[y])'
  <2>1. CASE y = requests[r].doc
    BY <2>1, <1>6, <1>16 DEF ExtractionNamed
  <2>2. CASE y # requests[r].doc
    <3>1. /\ extractions'[y] = extractions[y] /\ extractions[y] \in Extraction
          /\ ExtractionNamed(extractions[y])
      BY <2>2, <1>3, <1>6, <1>17 DEF DocInv, RowsNamed, TypeOK
    <3>2. ExtractionNamed(extractions[y])'
      BY <3>1, <1>12 DEF ExtractionNamed, Extraction
    <3>3. QED
      BY <3>2
  <2>3. QED
    BY <2>1, <2>2
<1>18. \A y \in Requests : files'[y] = None <=> extractions'[y] = None
  BY <1>1, <1>4, <1>6, DocNoRowAssumption DEF DocInv, RowsNamed
<1>19. RowsNamed'
  BY <1>15, <1>17, <1>18 DEF RowsNamed
<1>20. QED
  BY <1>1, <1>11, <1>13, <1>19, CommitKeeps

(* What a rejection writes. *)
Rejects(r, k, x) ==
  /\ x.tx \in {requests[r].extraction.tx, extractions[requests[r].doc].tx}
  /\ requests[r].extraction = extractions[requests[r].doc] =>
       x.duplicate = extractions[requests[r].doc].duplicate
  /\ extractions' = [extractions EXCEPT ![requests[r].doc] = x]
  /\ requests[r].row = None => candidates' = candidates
  /\ requests[r].row # None =>
       /\ candidates' = [candidates EXCEPT ![requests[r].row] = k]
       /\ k \in Candidate
       /\ k.doc = requests[r].doc
       /\ k.tx \in {requests[r].candidate.tx, candidates[requests[r].row].tx}
       /\ k.entry \in {requests[r].candidate.entry, candidates[requests[r].row].entry}
       /\ requests[r].candidate = candidates[requests[r].row] => k.status = "rejected"

LEMMA RejectWrites ==
  ASSUME DocInv, NEW r \in Requests, Reject(r)
  PROVE  \E x \in Extraction : \E k : Rejects(r, k, x)
<1>1. /\ requests[r].phase = "ready" /\ requests[r].extraction # None
  BY DEF Reject
<1>2. /\ requests[r].extraction \in Extraction
      /\ extractions[requests[r].doc] \in Extraction
      /\ requests[r].row # None =>
           /\ requests[r].candidate \in Candidate
           /\ candidates[requests[r].row] \in Candidate
           /\ candidates[requests[r].row].doc = requests[r].doc
  BY <1>1, ReadyRows
<1>3. PICK xn : xn = [requests[r].extraction EXCEPT !.status = "rejected"]
  OBVIOUS
<1>4. /\ xn \in Extraction /\ xn.tx = requests[r].extraction.tx
      /\ xn.duplicate = requests[r].extraction.duplicate
  BY <1>2, <1>3 DEF Extraction
<1>5. PICK x \in Extraction :
        /\ x = Merged(requests[r].extraction, xn, extractions[requests[r].doc])
        /\ x.tx \in {requests[r].extraction.tx, extractions[requests[r].doc].tx}
        /\ requests[r].extraction = extractions[requests[r].doc] => x = xn
  BY <1>2, <1>4, MergedExtraction
<1>6. extractions' = [extractions EXCEPT ![requests[r].doc] = x]
  BY <1>3, <1>5 DEF Reject
<1>7. PICK kn : kn = [requests[r].candidate EXCEPT !.status = "rejected"]
  OBVIOUS
<1>8. PICK k : k = Merged(requests[r].candidate, kn, candidates[requests[r].row])
  OBVIOUS
<1>9. ASSUME requests[r].row # None
      PROVE  /\ candidates' = [candidates EXCEPT ![requests[r].row] = k]
             /\ k \in Candidate
             /\ k.doc = requests[r].doc
             /\ k.tx \in {requests[r].candidate.tx, candidates[requests[r].row].tx}
             /\ k.entry \in {requests[r].candidate.entry, candidates[requests[r].row].entry}
             /\ requests[r].candidate = candidates[requests[r].row] => k.status = "rejected"
  <2>1. /\ kn \in Candidate /\ kn.status = "rejected" /\ kn.doc = requests[r].candidate.doc
        /\ kn.tx = requests[r].candidate.tx /\ kn.entry = requests[r].candidate.entry
    BY <1>2, <1>7, <1>9 DEF Candidate
  <2>2. candidates' = [candidates EXCEPT ![requests[r].row] = k]
    BY <1>7, <1>8, <1>9 DEF Reject
  <2>3. /\ k \in Candidate
        /\ k.doc = candidates[requests[r].row].doc
        /\ k.tx \in {kn.tx, candidates[requests[r].row].tx}
        /\ k.entry \in {kn.entry, candidates[requests[r].row].entry}
        /\ requests[r].candidate = candidates[requests[r].row] => k = kn
    BY <1>2, <1>8, <1>9, <2>1, MergedCandidate
  <2>4. QED
    BY <1>2, <1>9, <2>1, <2>2, <2>3
<1>10. requests[r].row = None => candidates' = candidates
  BY DEF Reject
<1>11. requests[r].extraction = extractions[requests[r].doc] =>
         x.duplicate = extractions[requests[r].doc].duplicate
  BY <1>4, <1>5
<1>12. Rejects(r, k, x)
  BY <1>5, <1>6, <1>9, <1>10, <1>11 DEF Rejects
<1>13. QED
  BY <1>12

LEMMA RejectKeeps ==
  ASSUME DocInv, NEW r \in Requests, Reject(r)
  PROVE  DocInv'
<1>1. /\ requests[r].phase = "ready" /\ requests[r].extraction # None /\ Finish(r, "committed")
      /\ UNCHANGED <<files, transactions, drafts, links>>
  BY DEF Reject
<1> PICK x \in Extraction : \E k : Rejects(r, k, x)
  BY RejectWrites
<1>2. PICK k : Rejects(r, k, x)
  OBVIOUS
<1>3. /\ candidates' \in [Requests -> Candidate \cup {None}]
      /\ \A y \in Requests \ {r} : candidates[y] = None => candidates'[y] = None
      /\ \A y \in Requests : candidates[y] # None =>
              candidates'[y] # None /\ candidates'[y].doc = candidates[y].doc
      /\ \A y \in Requests : candidates'[y] # None => CandidateNamed(candidates[y])'
  <2>1. CASE requests[r].row = None
    <3>1. candidates' = candidates
      BY <1>2, <2>1 DEF Rejects
    <3>2. QED
      BY <1>1, <3>1 DEF DocInv, TypeOK, RowsNamed, CandidateNamed
  <2>2. CASE requests[r].row # None
    <3>1. /\ candidates' = [candidates EXCEPT ![requests[r].row] = k]
          /\ k \in Candidate /\ k.doc = requests[r].doc
          /\ k.tx \in {requests[r].candidate.tx, candidates[requests[r].row].tx}
          /\ k.entry \in {requests[r].candidate.entry, candidates[requests[r].row].entry}
      BY <1>2, <2>2 DEF Rejects
    <3>2. /\ CandidateNamed(requests[r].candidate)
          /\ files[requests[r].doc] # None
      BY <1>1, <2>2, ReadyRows
    <3>3. transactions'[k.tx] # None \/ k.tx = candidates[requests[r].row].tx
      BY <1>1, <3>1, <3>2 DEF CandidateNamed
    <3>4. QED
      BY <1>1, <2>2, <3>1, <3>2, <3>3, CandidateRewritten
  <2>3. QED
    BY <2>1, <2>2
<1>4. /\ extractions' = [extractions EXCEPT ![requests[r].doc] = x]
      /\ x.tx \in {requests[r].extraction.tx, extractions[requests[r].doc].tx}
  BY <1>2 DEF Rejects
<1>5. QED
  BY <1>1, <1>3, <1>4, ExtractionWritten

(* The requests that have not committed yet. *)
LEMMA OnlyRequests ==
  ASSUME DocInv, NEW r \in Requests, requests[r].phase # "committed",
         NEW q \in Request, requests' = [requests EXCEPT ![r] = q],
         UNCHANGED tables,
         InFlight(r)' => ReadOf(r)',
         requests'[r].phase = "ready" => RowsOf(r)'
  PROVE  DocInv'
<1>1. /\ requests' \in [Requests -> Request]
      /\ \A y \in Requests : y # r => requests'[y] = requests[y]
  BY DEF DocInv, TypeOK
<1>2. UNCHANGED <<files, extractions, candidates, transactions, drafts, links>>
  BY DEF tables
<1>3. TypeOK'
  BY <1>1, <1>2 DEF DocInv, TypeOK
<1>4. FreshRows'
  BY <1>1, <1>2 DEF DocInv, FreshRows
<1>5. RowsNamed'
  BY <1>2 DEF DocInv, RowsNamed, ExtractionNamed, CandidateNamed
<1>6. ASSUME NEW y \in Requests
      PROVE  /\ InFlight(y)' => ReadOf(y)'
             /\ requests'[y].phase = "ready" => RowsOf(y)'
  <2>1. CASE y # r
    <3>1. requests'[y] = requests[y]
      BY <1>1, <2>1
    <3>2. /\ InFlight(y) => ReadOf(y)
          /\ requests[y].phase = "ready" => RowsOf(y)
      BY DEF DocInv, ReadsNamed
    <3>3. QED
      BY <1>2, <3>1, <3>2 DEF InFlight, ReadOf, RowsOf, ExtractionNamed, CandidateNamed
  <2>2. QED
    BY <2>1
<1>7. QED
  BY <1>3, <1>4, <1>5, <1>6 DEF DocInv, ReadsNamed

LEMMA BeginKeeps ==
  ASSUME DocInv, NEW r \in Requests,
         (\E f \in Files : Store(r, f)) \/ (\E d \in Requests : Open(r, d))
  PROVE  DocInv'
<1>1. PICK d \in Requests, f \in Files :
        /\ requests[r].phase = "new" /\ UNCHANGED tables
        /\ d # r => files[d] = f
        /\ requests' = [requests EXCEPT ![r] =
             [Fresh EXCEPT !.phase = "reading", !.doc = d, !.file = f]]
  BY DEF Store, Open, MayStart, DocInv, TypeOK
<1>2. PICK q \in Request : /\ q = [Fresh EXCEPT !.phase = "reading", !.doc = d, !.file = f]
                           /\ q.phase = "reading" /\ q.doc = d /\ q.file = f
  <2>1. Fresh \in Request
    BY DEF Fresh, Request
  <2>2. PICK q : q = [Fresh EXCEPT !.phase = "reading", !.doc = d, !.file = f]
    OBVIOUS
  <2>3. q \in Request /\ q.phase = "reading" /\ q.doc = d /\ q.file = f
    BY <2>1, <2>2 DEF Request
  <2>4. QED
    BY <2>2, <2>3
<1>3. requests' = [requests EXCEPT ![r] = q] /\ requests'[r] = q
  BY <1>1, <1>2 DEF DocInv, TypeOK
<1>4. ReadOf(r)'
  BY <1>1, <1>2, <1>3 DEF ReadOf, tables
<1>5. requests[r].phase # "committed" /\ requests'[r].phase # "ready"
  BY <1>1, <1>2, <1>3
<1>6. QED
  BY <1>1, <1>3, <1>4, <1>5, OnlyRequests

(* What the request has read, as a row. *)
LEMMA ReadWrites ==
  ASSUME DocInv, NEW r \in Requests, Read(r)
  PROVE  \E q \in Request :
           /\ requests' = [requests EXCEPT ![r] = q] /\ requests'[r] = q
           /\ requests[r].phase = "reading"
           /\ q.phase = "ready"
           /\ q.doc = requests[r].doc /\ q.file = requests[r].file
           /\ q.doc \in Requests /\ q.file \in Files
           /\ q.twins = Cardinality(Twins(requests[r].doc, requests[r].file))
           /\ q.extraction = extractions[requests[r].doc]
           /\ \/ q.row = None /\ q.candidate = None /\ CandidatesOf(requests[r].doc) = {}
              \/ /\ q.row \in CandidatesOf(requests[r].doc) /\ q.row \in Requests
                 /\ q.candidate = candidates[q.row]
<1>1. requests[r] \in Request /\ ReadOf(r) /\ requests[r].phase = "reading"
  BY DEF DocInv, TypeOK, ReadsNamed, InFlight, Read
<1>2. requests[r].doc \in Requests /\ requests[r].file \in Files
  BY <1>1 DEF ReadOf
<1>3. Cardinality(Twins(requests[r].doc, requests[r].file)) \in Nat
  <2>1. IsFiniteSet(Twins(requests[r].doc, requests[r].file))
    BY DocRequestsAssumption, FS_Subset DEF Twins
  <2>2. QED
    BY <2>1, FS_CardinalityType
<1>4. PICK row \in IF CandidatesOf(requests[r].doc) = {} THEN {None} ELSE CandidatesOf(requests[r].doc) :
        requests' = [requests EXCEPT ![r] =
          [@ EXCEPT !.phase = "ready",
                    !.twins = Cardinality(Twins(requests[r].doc, requests[r].file)),
                    !.extraction = extractions[requests[r].doc],
                    !.row = row,
                    !.candidate = IF row = None THEN None ELSE candidates[row]]]
  BY DEF Read
<1>5. PICK n \in Nat : n = Cardinality(Twins(requests[r].doc, requests[r].file))
  BY <1>3
<1>6. PICK x \in Extraction \cup {None} : x = extractions[requests[r].doc]
  BY <1>2 DEF DocInv, TypeOK
<1>7. /\ row \in Requests \cup {None}
      /\ row = None => CandidatesOf(requests[r].doc) = {}
      /\ row # None => row \in CandidatesOf(requests[r].doc)
  BY <1>4, DocNoneAssumption DEF CandidatesOf
<1>8. PICK k \in Candidate \cup {None} : k = IF row = None THEN None ELSE candidates[row]
  BY <1>7 DEF DocInv, TypeOK
<1>9. PICK q : q = [requests[r] EXCEPT !.phase = "ready", !.twins = n, !.extraction = x,
                                       !.row = row, !.candidate = k]
  OBVIOUS
<1>10. /\ q \in Request /\ q.phase = "ready" /\ q.twins = n /\ q.extraction = x
       /\ q.row = row /\ q.candidate = k
       /\ q.doc = requests[r].doc /\ q.file = requests[r].file
  BY <1>1, <1>5, <1>6, <1>7, <1>8, <1>9, ZenonT(60) DEF Request
<1>11. requests' = [requests EXCEPT ![r] = q]
  BY <1>4, <1>5, <1>6, <1>8, <1>9
<1>12. requests'[r] = q
  BY <1>11 DEF DocInv, TypeOK
<1>13. QED
  BY <1>1, <1>2, <1>5, <1>6, <1>7, <1>8, <1>10, <1>11, <1>12

LEMMA ReadKeeps ==
  ASSUME DocInv, NEW r \in Requests, Read(r)
  PROVE  DocInv'
<1>1. PICK q \in Request :
           /\ requests' = [requests EXCEPT ![r] = q] /\ requests'[r] = q
           /\ requests[r].phase = "reading"
           /\ q.phase = "ready"
           /\ q.doc = requests[r].doc /\ q.file = requests[r].file
           /\ q.doc \in Requests /\ q.file \in Files
           /\ q.extraction = extractions[requests[r].doc]
           /\ \/ q.row = None /\ q.candidate = None
              \/ /\ q.row \in CandidatesOf(requests[r].doc) /\ q.row \in Requests
                 /\ q.candidate = candidates[q.row]
  BY ReadWrites
<1>2. UNCHANGED tables
  BY DEF Read
<1>3. UNCHANGED <<files, extractions, candidates, transactions, drafts, links>>
  BY <1>2 DEF tables
<1>4. ReadOf(r)
  BY <1>1 DEF DocInv, ReadsNamed, InFlight
<1>5. /\ files[r] = None /\ extractions[r] = None
  BY <1>1 DEF DocInv, FreshRows
<1>6. q.extraction = None <=> q.doc = r
  BY <1>1, <1>4, <1>5, DocNoneAssumption DEF ReadOf, DocInv, RowsNamed
<1>7. q.extraction # None => ExtractionNamed(q.extraction)
  BY <1>1 DEF DocInv, RowsNamed
<1>8. q.row # None =>
        /\ candidates[q.row] # None /\ candidates[q.row].doc = q.doc
        /\ q.candidate = candidates[q.row] /\ CandidateNamed(q.candidate)
        /\ files[q.doc] # None
  BY <1>1 DEF CandidatesOf, DocInv, RowsNamed, CandidateNamed
<1>9. q.row = None <=> q.candidate = None
  BY <1>1, <1>8, DocNoneAssumption
<1>10. q.row # None => q.doc # r
  BY <1>5, <1>8
<1>11. RowsOf(r)'
  BY <1>1, <1>3, <1>6, <1>7, <1>8, <1>9, <1>10 DEF RowsOf, ExtractionNamed, CandidateNamed
<1>12. ReadOf(r)'
  BY <1>1, <1>3, <1>4 DEF ReadOf
<1>13. QED
  BY <1>1, <1>2, <1>11, <1>12, OnlyRequests

LEMMA RollbackKeeps ==
  ASSUME DocInv, NEW r \in Requests, Rollback(r)
  PROVE  DocInv'
<1>1. PICK q \in Request : q = [Fresh EXCEPT !.phase = "rolledback"] /\ q.phase = "rolledback"
  <2>1. Fresh \in Request
    BY DEF Fresh, Request
  <2>2. PICK q : q = [Fresh EXCEPT !.phase = "rolledback"]
    OBVIOUS
  <2>3. q \in Request /\ q.phase = "rolledback"
    BY <2>1, <2>2 DEF Request
  <2>4. QED
    BY <2>2, <2>3
<1>2. requests' = [requests EXCEPT ![r] = q] /\ requests'[r] = q /\ UNCHANGED tables
  BY <1>1 DEF Rollback, Finish, DocInv, TypeOK
<1>3. requests[r].phase # "committed" /\ ~InFlight(r)' /\ requests'[r].phase # "ready"
  BY <1>1, <1>2 DEF Rollback, InFlight
<1>4. QED
  BY <1>2, <1>3, OnlyRequests

LEMMA DocStep == DocInv /\ [Next]_vars => DocInv'
<1> SUFFICES ASSUME DocInv, [Next]_vars PROVE DocInv'
  OBVIOUS
<1>1. CASE UNCHANGED vars
  <2>1. UNCHANGED <<requests, files, extractions, candidates, transactions, drafts, links>>
    BY <1>1 DEF vars, tables
  <2>2. TypeOK' /\ FreshRows' /\ RowsNamed'
    BY <2>1 DEF DocInv, TypeOK, FreshRows, RowsNamed, ExtractionNamed, CandidateNamed
  <2>3. ReadsNamed'
    BY <2>1 DEF DocInv, ReadsNamed, InFlight, ReadOf, RowsOf, ExtractionNamed, CandidateNamed
  <2>4. QED
    BY <2>2, <2>3 DEF DocInv
<1>2. ASSUME NEW r \in Requests,
             (\E f \in Files : Store(r, f)) \/ (\E d \in Requests : Open(r, d))
      PROVE  DocInv'
  BY <1>2, BeginKeeps
<1>3. ASSUME NEW r \in Requests, Read(r) \/ Rollback(r)
      PROVE  DocInv'
  BY <1>3, ReadKeeps, RollbackKeeps
<1>4. ASSUME NEW r \in Requests, Extract(r) \/ Classify(r) \/ Answer(r) \/ Approve(r) \/ Reject(r)
      PROVE  DocInv'
  BY <1>4, ExtractKeeps, ClassifyKeeps, AnswerKeeps, ApproveKeeps, RejectKeeps
<1>5. QED
  BY <1>1, <1>2, <1>3, <1>4 DEF Next

(* However the requests on documents overlap, the rows have their columns' *)
(* types and no draft is made without an amount: approve_candidate is      *)
(* refused when the source transaction the candidate names has none.       *)
THEOREM DocumentsTyped == Spec => []TypeOK
<1>1. Init => DocInv
  BY DocInit DEF SerialDocInv
<1>2. DocInv => TypeOK
  BY DEF DocInv
<1>3. QED
  BY <1>1, <1>2, DocStep, PTL DEF Spec

-----------------------------------------------------------------------------
(* From here on the requests about the same bytes come one after the       *)
(* other, so that the others in flight are about other documents.          *)

LEMMA OthersElsewhere ==
  ASSUME SerialDocInv, NEW r \in Requests, requests[r].phase = "ready",
         NEW y \in Requests, y # r, InFlight(y)
  PROVE  /\ requests[y].doc \in Requests
         /\ requests[y].doc # requests[r].doc
         /\ requests[y].file # requests[r].file
<1>1. /\ ReadOf(y) /\ ReadOf(r) /\ InFlight(r)
      /\ requests[y].file # requests[r].file
  BY DEF SerialDocInv, DocInv, ReadsNamed, InFlight, OneAtATime
<1>2. files[r] = None /\ files[y] = None
  BY DEF SerialDocInv, DocInv, FreshRows, InFlight
<1>3. QED
  BY <1>1, <1>2, DocNoneAssumption DEF ReadOf

(* The candidates a commit writes: a new one where the document had none,  *)
(* or the one it had.                                                      *)
CandidateWritten(r) ==
  \A y \in Requests :
    \/ candidates'[y] = candidates[y]
    \/ /\ candidates'[y] # None /\ candidates'[y].doc = requests[r].doc
       /\ \/ y = r /\ requests[r].row = None
          \/ y = requests[r].row /\ requests[r].row # None

LEMMA StillOneCandidate ==
  ASSUME SerialDocInv, NEW r \in Requests, requests[r].phase = "ready", CandidateWritten(r)
  PROVE  OneCandidate'
<1>1. /\ requests[r].row = None => CandidatesOf(requests[r].doc) = {}
      /\ requests[r].row # None => /\ requests[r].row \in Requests
                                   /\ candidates[requests[r].row] # None
                                   /\ candidates[requests[r].row].doc = requests[r].doc
  BY ReadyRows, DocNoRowAssumption DEF SerialDocInv, ReadsCurrent
<1>2. \A y \in Requests : candidates[y] # None /\ candidates[y].doc = requests[r].doc =>
        requests[r].row # None /\ y = requests[r].row
  BY <1>1 DEF CandidatesOf, SerialDocInv, OneCandidate
<1>3. \A y \in Requests : candidates'[y] # None =>
        \/ candidates'[y] = candidates[y]
        \/ /\ candidates'[y].doc = requests[r].doc
           /\ y = IF requests[r].row = None THEN r ELSE requests[r].row
  BY DEF CandidateWritten
<1>4. ASSUME NEW c1 \in Requests, NEW c2 \in Requests, candidates'[c1] # None, candidates'[c2] # None,
             candidates'[c1].doc = candidates'[c2].doc
      PROVE  c1 = c2
  <2>1. CASE candidates'[c1].doc = requests[r].doc
    BY <1>2, <1>3, <1>4, <2>1
  <2>2. CASE candidates'[c1].doc # requests[r].doc
    BY <1>3, <1>4, <2>2 DEF SerialDocInv, OneCandidate
  <2>3. QED
    BY <2>1, <2>2
<1>5. QED
  BY <1>4 DEF OneCandidate

(* A commit changes nothing that another request has read.                 *)
LEMMA SerialCommit ==
  ASSUME SerialDocInv, NEW r \in Requests, requests[r].phase = "ready", Finish(r, "committed"),
         CandidateWritten(r),
         \A y \in Requests : y # requests[r].doc => files'[y] = files[y] /\ extractions'[y] = extractions[y],
         files'[requests[r].doc] = requests[r].file
  PROVE  OneAtATime' /\ ReadsCurrent'
<1>1. /\ requests'[r].phase = "committed"
      /\ \A y \in Requests : y # r => requests'[y] = requests[y]
  BY FinishOnly DEF SerialDocInv, DocInv
<1>2. \A y \in Requests : InFlight(y)' => y # r /\ InFlight(y) /\ requests'[y] = requests[y]
  BY <1>1 DEF InFlight
<1>3. OneAtATime'
  BY <1>2 DEF OneAtATime, SerialDocInv
<1>4. ASSUME NEW y \in Requests, requests'[y].phase = "ready"
      PROVE  /\ requests'[y].twins = Cardinality(Twins(requests[y].doc, requests[y].file))'
             /\ requests'[y].extraction = extractions'[requests'[y].doc]
             /\ requests'[y].row = None => CandidatesOf(requests[y].doc)' = {}
             /\ requests'[y].row # None => requests'[y].candidate = candidates'[requests'[y].row]
  <2>1. y # r /\ InFlight(y) /\ requests'[y] = requests[y] /\ requests[y].phase = "ready"
    BY <1>2, <1>4 DEF InFlight
  <2>2. /\ requests[y].doc \in Requests /\ requests[y].doc # requests[r].doc
        /\ requests[y].file # requests[r].file
    BY <2>1, OthersElsewhere
  <2>3. /\ requests[y].twins = Cardinality(Twins(requests[y].doc, requests[y].file))
        /\ requests[y].extraction = extractions[requests[y].doc]
        /\ requests[y].row = None => CandidatesOf(requests[y].doc) = {}
        /\ requests[y].row # None => requests[y].candidate = candidates[requests[y].row]
    BY <2>1 DEF SerialDocInv, ReadsCurrent
  <2>4. /\ requests[r].doc \in Requests /\ requests[y].file \in Files
        /\ files[requests[r].doc] \in {None, requests[r].file}
        /\ requests[y].row # None => /\ requests[y].row \in Requests
                                     /\ candidates[requests[y].row] # None
                                     /\ candidates[requests[y].row].doc = requests[y].doc
    BY <2>1, ReadyRows, DocNoRowAssumption DEF SerialDocInv
  <2>5. Twins(requests[y].doc, requests[y].file)' = Twins(requests[y].doc, requests[y].file)
    <3>1. ASSUME NEW z \in Requests
          PROVE  files'[z] = requests[y].file <=> files[z] = requests[y].file
      BY <2>2, <2>4, DocNoneAssumption
    <3>2. QED
      BY <2>1, <3>1 DEF Twins
  <2>6. requests[y].row = None => CandidatesOf(requests[y].doc)' = {}
    BY <2>1, <2>2, <2>3 DEF CandidateWritten, CandidatesOf
  <2>7. requests[y].row # None => candidates'[requests[y].row] = candidates[requests[y].row]
    <3>1. SUFFICES ASSUME requests[y].row # None
                   PROVE  candidates'[requests[y].row] = candidates[requests[y].row]
      OBVIOUS
    <3>2. candidates[r] = None
      BY DEF SerialDocInv, DocInv, FreshRows
    <3>3. requests[r].row # None => candidates[requests[r].row].doc = requests[r].doc
      BY ReadyRows DEF SerialDocInv
    <3>4. QED
      BY <2>2, <2>4, <3>1, <3>2, <3>3 DEF CandidateWritten
  <2>8. QED
    BY <2>1, <2>2, <2>3, <2>5, <2>6, <2>7
<1>5. ReadsCurrent'
  BY <1>4 DEF ReadsCurrent
<1>6. QED
  BY <1>3, <1>5

(* Without an extraction the flags are as they were.                       *)
LEMMA FlagsStay ==
  ASSUME DuplicatesSurfaced, files' = files,
         \A y \in Requests : files[y] # None => extractions'[y].duplicate = extractions[y].duplicate
  PROVE  DuplicatesSurfaced'
BY DEF DuplicatesSurfaced

(* Without an approval an approved candidate is one that was.              *)
LEMMA ApprovedStay ==
  ASSUME ApprovedIsDrafted, links' = links, drafts' = drafts,
         \A y \in Requests : candidates'[y] = candidates[y] \/ candidates'[y].status # "approved"
  PROVE  ApprovedIsDrafted'
BY DEF ApprovedIsDrafted

LEMMA UpsertSuggests ==
  ASSUME SerialDocInv, NEW r \in Requests, requests[r].phase = "ready",
         NEW item \in Item, NEW tx \in Requests, Upsert(r, item, tx)
  PROVE  /\ CandidateWritten(r)
         /\ \A y \in Requests : candidates'[y] = candidates[y] \/ candidates'[y].status # "approved"
<1>1. DocInv /\ candidates \in [Requests -> Candidate \cup {None}]
  BY DEF SerialDocInv, DocInv, TypeOK
<1>2. CASE candidates' = candidates
  BY <1>2 DEF CandidateWritten
<1>3. CASE /\ requests[r].row = None
           /\ candidates' = [candidates EXCEPT ![r] = Suggested(requests[r].doc, tx)]
           /\ Suggested(requests[r].doc, tx) \in Candidate
  <2>1. PICK k \in Candidate : k = Suggested(requests[r].doc, tx)
    BY <1>3
  <2>2. k.doc = requests[r].doc /\ k.status = "suggested" /\ k # None
    BY <2>1, DocNoRowAssumption DEF Suggested
  <2>3. candidates'[r] = k /\ \A y \in Requests : y # r => candidates'[y] = candidates[y]
    BY <1>1, <1>3, <2>1
  <2>4. QED
    BY <1>3, <2>2, <2>3 DEF CandidateWritten
<1>4. ASSUME requests[r].row # None,
             NEW k \in Candidate,
             k = Merged(requests[r].candidate, Resuggested(requests[r].candidate, tx),
                        candidates[requests[r].row]),
             candidates' = [candidates EXCEPT ![requests[r].row] = k],
             k.doc = requests[r].doc
      PROVE  /\ CandidateWritten(r)
             /\ \A y \in Requests : candidates'[y] = candidates[y] \/ candidates'[y].status # "approved"
  <2>1. /\ requests[r].row \in Requests
        /\ requests[r].candidate \in Candidate
        /\ candidates[requests[r].row] = requests[r].candidate
    BY <1>1, <1>4, ReadyRows DEF SerialDocInv, ReadsCurrent
  <2>2. /\ Resuggested(requests[r].candidate, tx) \in Candidate
        /\ Resuggested(requests[r].candidate, tx).status = "suggested"
    BY <2>1, ResuggestedType
  <2>3. k.status = "suggested" /\ k # None
    BY <1>4, <2>1, <2>2, MergedCandidate, DocNoRowAssumption
  <2>4. /\ candidates'[requests[r].row] = k
        /\ \A y \in Requests : y # requests[r].row => candidates'[y] = candidates[y]
    BY <1>1, <1>4, <2>1
  <2>5. QED
    BY <1>4, <2>3, <2>4 DEF CandidateWritten
<1>5. QED
  BY <1>1, <1>2, <1>3, <1>4, UpsertWrites

(* A commit that rewrites the extraction without its flag, and perhaps the *)
(* candidate without approving it.                                         *)
LEMMA SerialRewrites ==
  ASSUME SerialDocInv, DocInv', NEW r \in Requests, requests[r].phase = "ready",
         Finish(r, "committed"), requests[r].extraction # None,
         UNCHANGED <<files, drafts, links>>,
         NEW x \in Extraction, extractions' = [extractions EXCEPT ![requests[r].doc] = x],
         x.duplicate = extractions[requests[r].doc].duplicate,
         CandidateWritten(r),
         \A y \in Requests : candidates'[y] = candidates[y] \/ candidates'[y].status # "approved"
  PROVE  SerialDocInv'
<1>1. /\ requests[r].doc \in Requests
      /\ files[requests[r].doc] = requests[r].file
      /\ extractions \in [Requests -> Extraction \cup {None}]
  BY ReadyRows DEF SerialDocInv, DocInv, TypeOK
<1>2. /\ extractions'[requests[r].doc] = x
      /\ \A y \in Requests : y # requests[r].doc => extractions'[y] = extractions[y]
  BY <1>1
<1>3. OneAtATime' /\ ReadsCurrent'
  BY <1>1, <1>2, SerialCommit
<1>4. OneCandidate'
  BY StillOneCandidate
<1>5. DuplicatesSurfaced'
  BY <1>2, FlagsStay DEF SerialDocInv
<1>6. ApprovedIsDrafted'
  BY ApprovedStay DEF SerialDocInv
<1>7. QED
  BY <1>3, <1>4, <1>5, <1>6 DEF SerialDocInv

(* The extraction that was read is the one there is. *)
LEMMA ReadExtraction ==
  ASSUME SerialDocInv, NEW r \in Requests, requests[r].phase = "ready"
  PROVE  requests[r].extraction = extractions[requests[r].doc]
BY DEF SerialDocInv, ReadsCurrent

LEMMA SerialClassify ==
  ASSUME SerialDocInv, NEW r \in Requests, Classify(r)
  PROVE  SerialDocInv'
<1>1. /\ requests[r].phase = "ready" /\ requests[r].extraction # None /\ Finish(r, "committed")
      /\ Upsert(r, requests[r].extraction.item, requests[r].extraction.tx)
      /\ UNCHANGED <<files, drafts, links>>
  BY DEF Classify
<1>2. DocInv /\ DocInv'
  BY ClassifyKeeps DEF SerialDocInv
<1>3. PICK x \in Extraction : /\ extractions' = [extractions EXCEPT ![requests[r].doc] = x]
                              /\ x.duplicate = extractions[requests[r].doc].duplicate
  BY <1>2, ClassifyWrites
<1>4. requests[r].extraction \in Extraction
  BY <1>1, <1>2, ReadyRows
<1>5. requests[r].extraction.item \in Item /\ requests[r].extraction.tx \in Requests
  BY <1>4 DEF Extraction
<1>6. /\ CandidateWritten(r)
      /\ \A y \in Requests : candidates'[y] = candidates[y] \/ candidates'[y].status # "approved"
  BY <1>1, <1>5, UpsertSuggests
<1>7. QED
  BY <1>1, <1>2, <1>3, <1>6, SerialRewrites

LEMMA SerialAnswer ==
  ASSUME SerialDocInv, NEW r \in Requests, Answer(r)
  PROVE  SerialDocInv'
<1>1. /\ requests[r].phase = "ready" /\ requests[r].extraction # None /\ Finish(r, "committed")
      /\ UNCHANGED <<files, drafts, links>>
  BY DEF Answer
<1>2. DocInv /\ DocInv'
  BY AnswerKeeps DEF SerialDocInv
<1>3. PICK item \in Item, new \in Extraction, x \in Extraction :
        /\ extractions' = [extractions EXCEPT ![requests[r].doc] = x]
        /\ x = Merged(requests[r].extraction, new, extractions[requests[r].doc])
        /\ new.duplicate = requests[r].extraction.duplicate
        /\ Upsert(r, item, requests[r].extraction.tx)
  BY <1>2, AnswerWrites
<1>4. /\ requests[r].extraction \in Extraction
      /\ requests[r].extraction = extractions[requests[r].doc]
  BY <1>1, <1>2, ReadyRows, ReadExtraction
<1>5. x.duplicate = extractions[requests[r].doc].duplicate
  BY <1>3, <1>4, MergedExtraction
<1>6. requests[r].extraction.tx \in Requests
  BY <1>4 DEF Extraction
<1>7. /\ CandidateWritten(r)
      /\ \A y \in Requests : candidates'[y] = candidates[y] \/ candidates'[y].status # "approved"
  BY <1>1, <1>3, <1>6, UpsertSuggests
<1>8. QED
  BY <1>1, <1>2, <1>3, <1>5, <1>7, SerialRewrites

LEMMA SerialReject ==
  ASSUME SerialDocInv, NEW r \in Requests, Reject(r)
  PROVE  SerialDocInv'
<1>1. /\ requests[r].phase = "ready" /\ requests[r].extraction # None /\ Finish(r, "committed")
      /\ UNCHANGED <<files, drafts, links>>
  BY DEF Reject
<1>2. DocInv /\ DocInv'
  BY RejectKeeps DEF SerialDocInv
<1> PICK x \in Extraction : \E k : Rejects(r, k, x)
  BY <1>2, RejectWrites
<1>3. PICK k : Rejects(r, k, x)
  OBVIOUS
<1>4. /\ extractions' = [extractions EXCEPT ![requests[r].doc] = x]
      /\ x.duplicate = extractions[requests[r].doc].duplicate
  BY <1>1, <1>3, ReadExtraction DEF Rejects
<1>5. /\ CandidateWritten(r)
      /\ \A y \in Requests : candidates'[y] = candidates[y] \/ candidates'[y].status # "approved"
  <2>1. CASE requests[r].row = None
    BY <1>3, <2>1 DEF Rejects, CandidateWritten
  <2>2. CASE requests[r].row # None
    <3>1. /\ requests[r].row \in Requests
          /\ candidates[requests[r].row] = requests[r].candidate
      BY <1>1, <1>2, <2>2, ReadyRows DEF SerialDocInv, ReadsCurrent
    <3>2. /\ candidates' = [candidates EXCEPT ![requests[r].row] = k]
          /\ k \in Candidate /\ k.doc = requests[r].doc /\ k.status = "rejected"
      BY <1>3, <2>2, <3>1 DEF Rejects
    <3>3. /\ candidates'[requests[r].row] = k
          /\ \A y \in Requests : y # requests[r].row => candidates'[y] = candidates[y]
      BY <1>2, <3>1, <3>2 DEF DocInv, TypeOK
    <3>4. k # None
      BY <3>2, DocNoRowAssumption
    <3>5. QED
      BY <2>2, <3>2, <3>3, <3>4 DEF CandidateWritten
  <2>3. QED
    BY <2>1, <2>2
<1>6. QED
  BY <1>1, <1>2, <1>4, <1>5, SerialRewrites

(* Approval: the draft, the document's link, and the candidate that names  *)
(* the draft are of one transaction.                                       *)
LEMMA SerialApprove ==
  ASSUME SerialDocInv, NEW r \in Requests, Approve(r)
  PROVE  SerialDocInv'
<1>1. /\ requests[r].phase = "ready" /\ Finish(r, "committed")
      /\ links' = [links EXCEPT ![requests[r].doc] = r]
      /\ files' = files /\ requests[r].candidate # None
  BY DEF Approve, MayApprove
<1>2. DocInv /\ DocInv'
  BY ApproveKeeps DEF SerialDocInv
<1>3. TypeOK
  BY <1>2 DEF DocInv
<1>4. /\ requests[r].row # None /\ requests[r].row \in Requests
      /\ requests[r].doc \in Requests
      /\ files[requests[r].doc] = requests[r].file
      /\ requests[r].candidate \in Candidate
      /\ candidates[requests[r].row] = requests[r].candidate
      /\ requests[r].candidate.doc = requests[r].doc
      /\ requests[r].candidate # None
      /\ requests[r].extraction = extractions[requests[r].doc]
  BY <1>1, <1>2, ReadyRows, ReadExtraction DEF SerialDocInv, ReadsCurrent
<1> PICK tx \in Requests, new \in Candidate, k \in Candidate, x \in Extraction :
        Approves(r, tx, new, k, x)
  BY <1>2, ApproveWrites
<1>5. /\ new.tx = tx /\ new.entry = r /\ k.doc = requests[r].doc
      /\ k = Merged(requests[r].candidate, new, candidates[requests[r].row])
      /\ candidates' = [candidates EXCEPT ![requests[r].row] = k]
      /\ x.duplicate = extractions[requests[r].doc].duplicate
      /\ extractions' = [extractions EXCEPT ![requests[r].doc] = x]
      /\ [doc |-> requests[r].doc, tx |-> tx, amount |-> transactions[tx].amount] \in Draft
      /\ drafts' = [drafts EXCEPT
           ![r] = [doc |-> requests[r].doc, tx |-> tx, amount |-> transactions[tx].amount]]
  BY <1>4 DEF Approves
<1>6. k = new /\ k # None
  BY <1>4, <1>5, MergedCandidate, DocNoRowAssumption
<1>7. /\ candidates'[requests[r].row] = k
      /\ \A y \in Requests : y # requests[r].row => candidates'[y] = candidates[y]
  BY <1>3, <1>4, <1>5 DEF TypeOK
<1>8. /\ extractions'[requests[r].doc] = x
      /\ \A y \in Requests : y # requests[r].doc => extractions'[y] = extractions[y]
  BY <1>3, <1>4, <1>5 DEF TypeOK
<1>9. CandidateWritten(r)
  BY <1>4, <1>5, <1>6, <1>7 DEF CandidateWritten
<1>10. OneAtATime' /\ ReadsCurrent'
  BY <1>1, <1>4, <1>8, <1>9, SerialCommit
<1>11. OneCandidate'
  BY <1>1, <1>9, StillOneCandidate
<1>12. DuplicatesSurfaced'
  BY <1>1, <1>5, <1>8, FlagsStay DEF SerialDocInv
<1>13. /\ links'[requests[r].doc] = r
       /\ \A y \in Requests : y # requests[r].doc => links'[y] = links[y]
  BY <1>1, <1>3, <1>4 DEF TypeOK
<1>14. PICK draft : draft = [doc |-> requests[r].doc, tx |-> tx, amount |-> transactions[tx].amount]
  OBVIOUS
<1>15. /\ drafts'[r] = draft /\ draft.tx = tx
       /\ \A y \in Requests : y # r => drafts'[y] = drafts[y]
  BY <1>3, <1>5, <1>14 DEF TypeOK
<1>16. ASSUME NEW c \in Requests, candidates'[c] # None, candidates'[c].status = "approved"
       PROVE  /\ candidates'[c].entry = links'[candidates'[c].doc]
              /\ candidates'[c].entry # None
              /\ drafts'[candidates'[c].entry].tx = candidates'[c].tx
  <2>1. CASE c = requests[r].row
    <3>1. candidates'[c] = k
      BY <1>7, <2>1
    <3>2. k.entry = r /\ k.doc = requests[r].doc /\ k.tx = tx /\ r # None
      BY <1>5, <1>6, DocNoneAssumption
    <3>3. QED
      BY <1>13, <1>15, <3>1, <3>2
  <2>2. CASE c # requests[r].row
    <3>1. /\ candidates'[c] = candidates[c] /\ candidates[c] \in Candidate
          /\ candidates[c] # None /\ candidates[c].status = "approved"
      BY <1>3, <1>7, <1>16, <2>2 DEF TypeOK
    <3>2. candidates[c].doc # requests[r].doc
      BY <1>4, <2>2, <3>1 DEF SerialDocInv, OneCandidate
    <3>3. /\ candidates[c].entry = links[candidates[c].doc]
          /\ candidates[c].entry # None
          /\ drafts[candidates[c].entry].tx = candidates[c].tx
      BY <3>1 DEF SerialDocInv, ApprovedIsDrafted
    <3>4. drafts[candidates[c].entry] # None
      BY <1>2, <3>1, <3>3 DEF DocInv, RowsNamed, CandidateNamed
    <3>5. candidates[c].entry \in Requests /\ candidates[c].entry # r /\ candidates[c].doc \in Requests
      <4>1. drafts[r] = None
        BY <1>1, <1>2 DEF DocInv, FreshRows
      <4>2. QED
        BY <3>1, <3>3, <3>4, <4>1 DEF Candidate
    <3>6. QED
      BY <1>13, <1>15, <3>1, <3>2, <3>3, <3>5
  <2>3. QED
    BY <2>1, <2>2
<1>17. ApprovedIsDrafted'
  BY <1>16 DEF ApprovedIsDrafted
<1>18. QED
  BY <1>2, <1>10, <1>11, <1>12, <1>17 DEF SerialDocInv

(* Extraction: the flag says whether there is another attachment with the  *)
(* same bytes; a request that found two has been refused.                  *)
LEMMA SerialExtract ==
  ASSUME SerialDocInv, NEW r \in Requests, Extract(r)
  PROVE  SerialDocInv'
<1>1. /\ requests[r].phase = "ready" /\ requests[r].twins <= 1 /\ Finish(r, "committed")
      /\ files' = [files EXCEPT ![requests[r].doc] = requests[r].file]
      /\ UNCHANGED <<drafts, links>>
  BY DEF Extract
<1>2. DocInv /\ DocInv'
  BY ExtractKeeps DEF SerialDocInv
<1>3. TypeOK
  BY <1>2 DEF DocInv
<1>4. /\ requests[r].doc \in Requests /\ requests[r].file \in Files /\ requests[r].twins \in Nat
      /\ requests[r].doc # r => files[requests[r].doc] = requests[r].file
      /\ files[r] = None
  BY <1>1, <1>2, ReadyRows
<1>5. PICK item \in Item, new \in Extraction, x \in Extraction :
        /\ new.duplicate = (requests[r].twins = 1)
        /\ requests[r].doc = r => x = new
        /\ requests[r].doc # r =>
             /\ x = Merged(requests[r].extraction, new, extractions[requests[r].doc])
             /\ extractions[requests[r].doc] \in Extraction
        /\ extractions' = [extractions EXCEPT ![requests[r].doc] = x]
        /\ Upsert(r, item, r)
  BY <1>2, ExtractWrites
<1>6. x.duplicate = (requests[r].twins = 1)
  <2>1. requests[r].extraction = extractions[requests[r].doc]
    BY <1>1, ReadExtraction
  <2>2. requests[r].doc # r => x = new
    BY <1>5, <2>1, MergedExtraction
  <2>3. QED
    BY <1>5, <2>2
<1>7. /\ files'[requests[r].doc] = requests[r].file
      /\ \A y \in Requests : y # requests[r].doc => files'[y] = files[y]
  BY <1>1, <1>3, <1>4 DEF TypeOK
<1>8. /\ extractions'[requests[r].doc] = x
      /\ \A y \in Requests : y # requests[r].doc => extractions'[y] = extractions[y]
  BY <1>3, <1>4, <1>5 DEF TypeOK
<1>9. /\ CandidateWritten(r)
      /\ \A y \in Requests : candidates'[y] = candidates[y] \/ candidates'[y].status # "approved"
  BY <1>1, <1>5, UpsertSuggests
<1>10. OneAtATime' /\ ReadsCurrent'
  BY <1>1, <1>7, <1>8, <1>9, SerialCommit
<1>11. OneCandidate'
  BY <1>1, <1>9, StillOneCandidate
<1>12. ApprovedIsDrafted'
  BY <1>1, <1>9, ApprovedStay DEF SerialDocInv
<1>13. x.duplicate <=> \E y \in Requests \ {requests[r].doc} : files[y] = requests[r].file
  <2> DEFINE T == Twins(requests[r].doc, requests[r].file)
  <2>1. requests[r].twins = Cardinality(T)
    BY <1>1 DEF SerialDocInv, ReadsCurrent
  <2>2. IsFiniteSet(T)
    BY DocRequestsAssumption, FS_Subset DEF Twins
  <2>3. Cardinality(T) = 0 <=> T = {}
    BY <2>2, FS_EmptySet
  <2>4. requests[r].twins = 1 <=> T # {}
    BY <1>1, <1>4, <2>1, <2>3
  <2>5. T # {} <=> \E y \in Requests \ {requests[r].doc} : files[y] = requests[r].file
    BY DEF Twins
  <2>6. QED
    BY <1>6, <2>4, <2>5
<1>14. \A y \in Requests : files[y] # None => files'[y] = files[y]
  BY <1>4, <1>7
<1>15. ASSUME NEW d \in Requests, NEW y \in Requests, d # y, files'[d] # None, files'[d] = files'[y]
       PROVE  extractions'[d].duplicate \/ extractions'[y].duplicate
  <2>1. CASE d = requests[r].doc
    BY <1>7, <1>8, <1>13, <1>15, <2>1
  <2>2. CASE y = requests[r].doc
    BY <1>7, <1>8, <1>13, <1>15, <2>2
  <2>3. CASE d # requests[r].doc /\ y # requests[r].doc
    BY <1>7, <1>8, <1>15, <2>3 DEF SerialDocInv, DuplicatesSurfaced
  <2>4. QED
    BY <2>1, <2>2, <2>3
<1>16. ASSUME NEW d \in Requests, files'[d] # None, extractions'[d].duplicate
       PROVE  \E y \in Requests \ {d} : files'[y] = files'[d]
  <2>1. CASE d = requests[r].doc
    <3>1. PICK y \in Requests \ {d} : files[y] = requests[r].file
      BY <1>8, <1>13, <1>16, <2>1
    <3>2. files'[y] = files'[d]
      BY <1>7, <2>1, <3>1
    <3>3. QED
      BY <3>1, <3>2
  <2>2. CASE d # requests[r].doc
    <3>1. files'[d] = files[d] /\ extractions[d].duplicate /\ files[d] # None
      BY <1>7, <1>8, <1>16, <2>2
    <3>2. PICK y \in Requests \ {d} : files[y] = files[d]
      BY <3>1 DEF SerialDocInv, DuplicatesSurfaced
    <3>3. files'[y] = files'[d]
      BY <1>14, <3>1, <3>2
    <3>4. QED
      BY <3>2, <3>3
  <2>3. QED
    BY <2>1, <2>2
<1>17. DuplicatesSurfaced'
  BY <1>15, <1>16 DEF DuplicatesSurfaced
<1>18. QED
  BY <1>2, <1>10, <1>11, <1>12, <1>17 DEF SerialDocInv

(* A step that leaves the tables. *)
LEMMA SerialTables ==
  ASSUME SerialDocInv, DocInv', UNCHANGED tables, OneAtATime', ReadsCurrent'
  PROVE  SerialDocInv'
<1>1. UNCHANGED <<files, extractions, candidates, transactions, drafts, links>>
  BY DEF tables
<1>2. OneCandidate' /\ DuplicatesSurfaced' /\ ApprovedIsDrafted'
  BY <1>1 DEF SerialDocInv, OneCandidate, DuplicatesSurfaced, ApprovedIsDrafted
<1>3. QED
  BY <1>2 DEF SerialDocInv

LEMMA ReadsStayCurrent ==
  ASSUME SerialDocInv, NEW r \in Requests, UNCHANGED tables,
         requests'[r].phase # "ready",
         \A y \in Requests : y # r => requests'[y] = requests[y]
  PROVE  ReadsCurrent'
<1>1. UNCHANGED <<files, extractions, candidates, transactions, drafts, links>>
  BY DEF tables
<1>2. \A y \in Requests : requests'[y].phase = "ready" => requests'[y] = requests[y]
  OBVIOUS
<1>3. QED
  BY <1>1, <1>2 DEF SerialDocInv, ReadsCurrent, Twins, CandidatesOf

LEMMA SerialBegin ==
  ASSUME Serial, SerialDocInv, NEW r \in Requests,
         (\E f \in Files : Store(r, f)) \/ (\E d \in Requests : Open(r, d))
  PROVE  SerialDocInv'
<1>1. PICK d \in Requests, f \in Files :
        /\ \A q \in Requests : InFlight(q) => requests[q].file # f
        /\ UNCHANGED tables
        /\ requests' = [requests EXCEPT ![r] =
             [Fresh EXCEPT !.phase = "reading", !.doc = d, !.file = f]]
  BY DEF Store, Open, MayStart, SerialDocInv, DocInv, TypeOK
<1>2. PICK q : q = [Fresh EXCEPT !.phase = "reading", !.doc = d, !.file = f]
  OBVIOUS
<1>3. q.phase = "reading" /\ q.file = f
  BY <1>2 DEF Fresh
<1>4. requests'[r] = q /\ \A y \in Requests : y # r => requests'[y] = requests[y]
  BY <1>1, <1>2 DEF SerialDocInv, DocInv, TypeOK
<1>5. OneAtATime'
  BY <1>1, <1>3, <1>4 DEF SerialDocInv, OneAtATime, InFlight
<1>6. ReadsCurrent'
  BY <1>1, <1>3, <1>4, ReadsStayCurrent
<1>7. DocInv'
  BY BeginKeeps DEF SerialDocInv
<1>8. QED
  BY <1>1, <1>5, <1>6, <1>7, SerialTables

LEMMA SerialRead ==
  ASSUME SerialDocInv, NEW r \in Requests, Read(r)
  PROVE  SerialDocInv'
<1>1. DocInv /\ DocInv'
  BY ReadKeeps DEF SerialDocInv
<1>2. UNCHANGED tables /\ UNCHANGED <<files, extractions, candidates, transactions, drafts, links>>
  BY DEF Read, tables
<1>3. PICK q \in Request :
           /\ requests' = [requests EXCEPT ![r] = q] /\ requests'[r] = q
           /\ requests[r].phase = "reading"
           /\ q.phase = "ready"
           /\ q.doc = requests[r].doc /\ q.file = requests[r].file
           /\ q.twins = Cardinality(Twins(requests[r].doc, requests[r].file))
           /\ q.extraction = extractions[requests[r].doc]
           /\ \/ q.row = None /\ q.candidate = None /\ CandidatesOf(requests[r].doc) = {}
              \/ /\ q.row \in CandidatesOf(requests[r].doc) /\ q.row \in Requests
                 /\ q.candidate = candidates[q.row]
  BY <1>1, ReadWrites
<1>4. \A y \in Requests : y # r => requests'[y] = requests[y]
  BY <1>1, <1>3 DEF DocInv, TypeOK
<1>5. OneAtATime'
  BY <1>3, <1>4 DEF SerialDocInv, OneAtATime, InFlight
<1>6. Twins(q.doc, q.file)' = Twins(q.doc, q.file) /\ CandidatesOf(q.doc)' = CandidatesOf(q.doc)
  BY <1>2 DEF Twins, CandidatesOf
<1>7. ASSUME NEW y \in Requests, requests'[y].phase = "ready"
      PROVE  /\ requests'[y].twins = Cardinality(Twins(requests[y].doc, requests[y].file))'
             /\ requests'[y].extraction = extractions'[requests'[y].doc]
             /\ requests'[y].row = None => CandidatesOf(requests[y].doc)' = {}
             /\ requests'[y].row # None => requests'[y].candidate = candidates'[requests'[y].row]
  <2>1. CASE y = r
    <3>1. q.row # None => q.candidate = candidates'[q.row]
      BY <1>2, <1>3
    <3>2. q.row = None => CandidatesOf(q.doc)' = {}
      BY <1>3, <1>6, DocNoneAssumption
    <3>3. q.twins = Cardinality(Twins(q.doc, q.file))'
      BY <1>3, <1>6
    <3>4. requests'[y] = q
      BY <1>3, <2>1
    <3>5. Cardinality(Twins(requests[y].doc, requests[y].file))' = Cardinality(Twins(q.doc, q.file))'
      BY <3>4, <1>2 DEF Twins
    <3>6. CandidatesOf(requests[y].doc)' = CandidatesOf(q.doc)'
      BY <3>4, <1>2 DEF CandidatesOf
    <3>7. q.extraction = extractions'[q.doc]
      BY <1>2, <1>3
    <3>8. QED
      BY <3>1, <3>2, <3>3, <3>4, <3>5, <3>6, <3>7
  <2>2. CASE y # r
    BY <1>2, <1>4, <1>7, <2>2, SMTT(60) DEF SerialDocInv, ReadsCurrent, Twins, CandidatesOf
  <2>3. QED
    BY <2>1, <2>2
<1>8. ReadsCurrent'
  BY <1>7 DEF ReadsCurrent
<1>9. QED
  BY <1>1, <1>2, <1>5, <1>8, SerialTables

LEMMA SerialRollback ==
  ASSUME SerialDocInv, NEW r \in Requests, Rollback(r)
  PROVE  SerialDocInv'
<1>1. UNCHANGED tables /\ Finish(r, "rolledback")
  BY DEF Rollback
<1>2. /\ requests'[r].phase = "rolledback"
      /\ \A y \in Requests : y # r => requests'[y] = requests[y]
  BY <1>1, FinishOnly DEF SerialDocInv, DocInv
<1>3. OneAtATime'
  BY <1>2 DEF SerialDocInv, OneAtATime, InFlight
<1>4. ReadsCurrent'
  BY <1>1, <1>2, ReadsStayCurrent
<1>5. DocInv'
  BY RollbackKeeps DEF SerialDocInv
<1>6. QED
  BY <1>1, <1>3, <1>4, <1>5, SerialTables

LEMMA SerialStep ==
  ASSUME Serial, SerialDocInv, [Next]_vars
  PROVE  SerialDocInv'
<1>1. CASE UNCHANGED vars
  <2>1. UNCHANGED tables /\ UNCHANGED <<requests, files, extractions, candidates, transactions, drafts, links>>
    BY <1>1 DEF vars, tables
  <2>2. OneAtATime' /\ ReadsCurrent'
    BY <2>1 DEF SerialDocInv, OneAtATime, ReadsCurrent, InFlight, Twins, CandidatesOf
  <2>3. DocInv'
    BY DocStep DEF SerialDocInv
  <2>4. QED
    BY <2>1, <2>2, <2>3, SerialTables
<1>2. ASSUME NEW r \in Requests,
             (\E f \in Files : Store(r, f)) \/ (\E d \in Requests : Open(r, d))
      PROVE  SerialDocInv'
  BY <1>2, SerialBegin
<1>3. ASSUME NEW r \in Requests, Read(r) \/ Rollback(r)
      PROVE  SerialDocInv'
  BY <1>3, SerialRead, SerialRollback
<1>4. ASSUME NEW r \in Requests, Extract(r) \/ Classify(r) \/ Answer(r) \/ Approve(r) \/ Reject(r)
      PROVE  SerialDocInv'
  BY <1>4, SerialExtract, SerialClassify, SerialAnswer, SerialApprove, SerialReject
<1>5. QED
  BY <1>1, <1>2, <1>3, <1>4 DEF Next

(* When the requests about the same bytes come one after the other, copies *)
(* are flagged (_extract_document_from_attachment), a document has one     *)
(* candidate whatever is done to it (_upsert_extraction_candidate), and an *)
(* approved candidate names the draft its document links to, of the        *)
(* candidate's own transaction (approve_candidate).                        *)
THEOREM DocumentsSafe ==
  ASSUME Serial
  PROVE  Spec => [](DuplicatesSurfaced /\ OneCandidate /\ ApprovedIsDrafted)
<1>1. Init => SerialDocInv
  BY DocInit
<1>2. SerialDocInv /\ [Next]_vars => SerialDocInv'
  BY SerialStep
<1>3. SerialDocInv => DuplicatesSurfaced /\ OneCandidate /\ ApprovedIsDrafted
  BY DEF SerialDocInv
<1>4. QED
  BY <1>1, <1>2, <1>3, PTL DEF Spec

=============================================================================
