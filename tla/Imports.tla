------------------------------ MODULE Imports --------------------------------
(***************************************************************************)
(* Bank rows and what is learned from them: CSV import                     *)
(* (services/ingestion.py, import_csv_transactions), the suggestion of an  *)
(* account (services/classifier.py), the rule a corrected draft teaches    *)
(* when it is posted (services/journal.py, post_entry), and the memories   *)
(* these rules are rows of (services/memory.py, api/memory.py).            *)
(*                                                                         *)
(* An import, a post and an update of a memory read when they begin and    *)
(* write when they commit, at READ COMMITTED; other requests may commit in *)
(* between.  An UPDATE writes the columns that differ from what was read.  *)
(* The other requests are one step.  Dates, amounts, currencies and memos  *)
(* are left out, and of memories the texts, the embedding, which nothing   *)
(* reads, the reviews and the events.                                      *)
(***************************************************************************)
EXTENDS Naturals, Sequences, FiniteSets

CONSTANTS Clients,      \* where requests come from
          Rows,         \* the contents of CSV rows: what content_hash tells apart
          Merchant,     \* Merchant[r]: the merchant of row r
          Flow,         \* Flow[r]: "out", "in", or "bad" when it cannot be parsed
          Files,        \* the files that are imported, sequences of rows
          Alike,        \* Alike[m]: merchants whose rules match m, m among them
          Keyword,      \* Keyword[m]: the account the keywords suggest for m
          Accounts,     \* the active expense accounts
          None,
          MaxTxs,       \* bound: source transactions
          MaxBatches,   \* bound: imports
          MaxMemories   \* bound: memories

Merchants == DOMAIN Alike

ASSUME ImportsAssumption ==
  /\ Files \subseteq Seq(Rows) /\ \A f \in Files : f # <<>>
  /\ Merchant \in [Rows -> Merchants]
  /\ \A m \in Merchants : m \in Alike[m] /\ Keyword[m] \in Accounts
  /\ None \notin Accounts \cup Merchants
  /\ {MaxTxs, MaxBatches, MaxMemories} \subseteq Nat

VARIABLES serial,     \* whether requests come one at a time
          hasCash,    \* whether the chart has an account 1110
          txs,        \* source_transactions
          entries,    \* the journal entries that were drafted from them
          batches,    \* import_batches
          memories,   \* memories
          req         \* req[c]: the request of client c

db == <<hasCash, txs, entries, batches, memories>>
vars == <<serial, db, req>>

Tx == [row : Rows, status : {"pending", "matched"}, batch : 1..MaxBatches]
Entry == [tx : 1..MaxTxs, account : Accounts, status : {"draft", "posted", "deleted"}]
Batch == [total : Nat, imported : Nat, failed : Nat, status : {"completed", "failed"}]

(* merchant and account are the keywords of a rule that was learned, or    *)
(* None when the keywords are a list.                                      *)
Memory == [merchant : Merchants \cup {None}, account : Accounts \cup {None}, active : BOOLEAN]

Idle == [op |-> "idle"]

TypeOK ==
  /\ serial \in BOOLEAN /\ hasCash \in BOOLEAN /\ DOMAIN req = Clients
  /\ txs \in Seq(Tx) /\ entries \in Seq(Entry)
  /\ batches \in Seq(Batch) /\ memories \in Seq(Memory)
  /\ \A i \in DOMAIN memories : memories[i].merchant = None <=> memories[i].account = None

Init == /\ serial \in BOOLEAN /\ hasCash = TRUE
        /\ txs = <<>> /\ entries = <<>> /\ batches = <<>> /\ memories = <<>>
        /\ req = [c \in Clients |-> Idle]

AtOnce(c) == IF serial THEN \A d \in Clients : req[d] = Idle ELSE req[c] = Idle

Begin(c, r) == AtOnce(c) /\ req' = [req EXCEPT ![c] = r] /\ UNCHANGED <<serial, db>>
End(c) == req' = [req EXCEPT ![c] = Idle] /\ UNCHANGED serial
Rollback(c) == req[c] # Idle /\ End(c) /\ UNCHANGED db

-----------------------------------------------------------------------------
(* What account is suggested. *)

(* A row whose keywords are a list is no rule. *)
IsRule(i) == memories[i].merchant # None

(* build_memory_lookup: the active rules that match; there is no order     *)
(* between them, and the first one found decides.                          *)
Matching(m) == {i \in DOMAIN memories :
                  IsRule(i) /\ memories[i].active /\ memories[i].merchant \in Alike[m]}

Suggestions(m) == IF Matching(m) = {} THEN {Keyword[m]}
                                      ELSE {memories[i].account : i \in Matching(m)}

-----------------------------------------------------------------------------
(* import_csv_transactions: of every row what it comes to. *)

(* The rows of the existing transactions, those of the import among them.  *)
KnownBefore(new) == [i \in DOMAIN txs |-> txs[i].row]   \* mutant: not its own
Known(new) == [i \in DOMAIN txs |-> txs[i].row] \o [i \in DOMAIN new |-> new[i].row]

(* _auto_draft_csv_outflow sets its transaction to matched.  Without       *)
(* account 1110 it fails when the transaction is in the session already.   *)
ImportRow(r, pick, s) ==
  LET seen == Cardinality({i \in DOMAIN Known(s.new) : Known(s.new)[i] = r})
      drafted == Flow[r] = "out" /\ hasCash
      done == Flow[r] = "in" \/ drafted
  IN CASE Flow[r] = "bad" \/ seen > 1 -> [s EXCEPT !.failed = @ + 1]
       [] Flow[r] # "bad" /\ seen = 1 -> s
       [] OTHER -> [new      |-> Append(s.new, [row |-> r, status |-> IF drafted THEN "matched" ELSE "pending"]),
                    drafts   |-> IF drafted
                                 THEN Append(s.drafts, [of |-> Len(s.new) + 1, account |-> pick[Merchant[r]]])
                                 ELSE s.drafts,
                    imported |-> s.imported + (IF done THEN 1 ELSE 0),
                    failed   |-> s.failed + (IF done THEN 0 ELSE 1)]

Imported(f, pick) ==
  LET S[k \in 0..Len(f)] == IF k = 0 THEN [new |-> <<>>, drafts |-> <<>>, imported |-> 0, failed |-> 0]
                                     ELSE ImportRow(f[k], pick, S[k - 1])
  IN S[Len(f)]

BeginImport(c, f) ==
  \E pick \in [Merchants -> Accounts] :
    /\ \A m \in Merchants : pick[m] \in Suggestions(m)
    /\ Begin(c, [op |-> "import", total |-> Len(f), done |-> Imported(f, pick)])

(* Mutant of Outcome: a batch is completed when it is through. *)
OutcomeThrough(done) == "completed"
Outcome(done) == IF done.failed = 0 THEN "completed" ELSE "failed"

(* The drafts, of transactions that follow those there are. *)
Drafts(drafts) == [k \in DOMAIN drafts |-> [tx |-> Len(txs) + drafts[k].of,
                                            account |-> drafts[k].account, status |-> "draft"]]

Import(c) ==
  LET done == req[c].done
      b    == Len(batches) + 1
  IN /\ req[c].op = "import" /\ b <= MaxBatches /\ Len(txs) + Len(done.new) <= MaxTxs
     /\ txs' = txs \o [i \in DOMAIN done.new |-> [row |-> done.new[i].row, batch |-> b,
                                                  status |-> done.new[i].status]]
     /\ entries' = entries \o Drafts(done.drafts)
     /\ batches' = Append(batches, [total |-> req[c].total, imported |-> done.imported,
                                    failed |-> done.failed, status |-> Outcome(done)])
     /\ End(c) /\ UNCHANGED <<hasCash, memories>>

(* An account is renumbered, or created, by update_account. *)
ToggleCash == hasCash' = ~hasCash /\ UNCHANGED <<serial, txs, entries, batches, memories, req>>

-----------------------------------------------------------------------------
(* What users make of the drafts: update_draft, delete_draft, post_entry. *)

MerchantOf(k) == Merchant[txs[entries[k].tx].row]

Correct(c, k, a) ==
  /\ AtOnce(c) /\ entries[k].status = "draft" /\ entries[k].account # a
  /\ entries' = [entries EXCEPT ![k].account = a]
  /\ UNCHANGED <<serial, hasCash, txs, batches, memories, req>>

Discard(c, k) ==
  /\ AtOnce(c) /\ entries[k].status = "draft"
  /\ entries' = [entries EXCEPT ![k].status = "deleted"]
  /\ UNCHANGED <<serial, hasCash, txs, batches, memories, req>>

(* record_merchant_correction: the rules it may find and then rewrites. *)
RulesFor(m) == {i \in DOMAIN memories : memories[i].merchant = m}
RulesInUse(m) == {i \in RulesFor(m) : memories[i].active}   \* mutant: forgotten ones are not found

Rewritable(m) == RulesFor(m)

(* _learn_merchant_rule_from_posted_entry: nothing is learned from an      *)
(* entry that keeps the account of the keywords.                           *)
Teaches(k) == entries[k].account # Keyword[MerchantOf(k)]

BeginPost(c, k) ==
  LET m == MerchantOf(k) IN
  /\ entries[k].status = "draft"
  /\ \E i \in IF Teaches(k) /\ Rewritable(m) # {} THEN Rewritable(m) ELSE {0} :
       Begin(c, [op |-> "post", entry |-> k, teaches |-> Teaches(k),
                 merchant |-> m, account |-> entries[k].account, rule |-> i,
                 revive  |-> i # 0 /\ ~memories[i].active,
                 rewrite |-> i # 0 /\ memories[i].account # entries[k].account])

(* Mutant of Learned: a rule that was forgotten stays so. *)
LearnedUnrevived(r) ==
  IF ~r.teaches \/ r.revive THEN memories
  ELSE IF r.rule = 0
  THEN Append(memories, [merchant |-> r.merchant, account |-> r.account, active |-> TRUE])
  ELSE [memories EXCEPT ![r.rule].account = r.account]

(* What a post leaves in the memories. *)
Taught(x, r) == [merchant |-> IF r.rewrite THEN r.merchant ELSE x.merchant,
                 account  |-> IF r.rewrite THEN r.account ELSE x.account,
                 active   |-> x.active \/ r.revive]

Learned(r) ==
  IF ~r.teaches THEN memories
  ELSE IF r.rule = 0
  THEN Append(memories, [merchant |-> r.merchant, account |-> r.account, active |-> TRUE])
  ELSE [memories EXCEPT ![r.rule] = Taught(@, r)]

Post(c) ==
  LET r == req[c] IN
  /\ r.op = "post" /\ entries[r.entry].status # "deleted"
  /\ Len(Learned(r)) <= MaxMemories
  /\ entries' = [entries EXCEPT ![r.entry].status = "posted"]
  /\ memories' = Learned(r)
  /\ End(c) /\ UNCHANGED <<hasCash, txs, batches>>

-----------------------------------------------------------------------------
(* The memories. *)

(* MemoryOut takes keywords that are a list only; an endpoint that answers *)
(* with a learned rule fails, and what it did is rolled back.              *)
Shown(i) == ~IsRule(i)

CreateMemory(c) ==
  /\ AtOnce(c) /\ Len(memories) < MaxMemories
  /\ memories' = Append(memories, [merchant |-> None, account |-> None, active |-> TRUE])
  /\ UNCHANGED <<serial, hasCash, txs, entries, batches, req>>

DeleteMemory(c, i) ==
  /\ AtOnce(c) /\ memories[i].active
  /\ memories' = [memories EXCEPT ![i].active = FALSE]
  /\ UNCHANGED <<serial, hasCash, txs, entries, batches, req>>

ExpireMemory(c, i) == Shown(i) /\ DeleteMemory(c, i)

(* keywords: whether they are replaced, by a list. *)
BeginUpdateMemory(c, i, active, keywords) ==
  /\ Shown(i) \/ keywords
  /\ active # memories[i].active \/ IsRule(i)
  /\ Begin(c, [op |-> "memory", memory |-> i, keywords |-> keywords,
               active |-> active, switch |-> active # memories[i].active])

Updated(x, r) == [merchant |-> IF r.keywords THEN None ELSE x.merchant,
                  account  |-> IF r.keywords THEN None ELSE x.account,
                  active   |-> IF r.switch THEN r.active ELSE x.active]

UpdateMemory(c) ==
  LET r == req[c] IN
  /\ r.op = "memory"
  /\ memories' = [memories EXCEPT ![r.memory] = Updated(@, r)]
  /\ End(c) /\ UNCHANGED <<hasCash, txs, entries, batches>>

Next ==
  \/ ToggleCash
  \/ \E c \in Clients :
       \/ \E f \in Files : BeginImport(c, f)
       \/ \E k \in DOMAIN entries :
            BeginPost(c, k) \/ Discard(c, k) \/ \E a \in Accounts : Correct(c, k, a)
       \/ \E i \in DOMAIN memories :
            \/ DeleteMemory(c, i) \/ ExpireMemory(c, i)
            \/ \E active, keywords \in BOOLEAN : BeginUpdateMemory(c, i, active, keywords)
       \/ CreateMemory(c) \/ Import(c) \/ Post(c) \/ UpdateMemory(c) \/ Rollback(c)

Spec == Init /\ [][Next]_vars

-----------------------------------------------------------------------------
(* A completed import left nothing undone: each outflow it brought in was  *)
(* drafted, exactly once, and an outflow without a draft was counted among *)
(* the failed rows of its import.  Later imports skip it as a duplicate,   *)
(* so that this count is the only trace of it (import_csv_transactions,    *)
(* _auto_draft_csv_outflow).                                               *)
PendingExplained ==
  /\ \A i \in DOMAIN txs : Flow[txs[i].row] = "out" =>
       LET n == Cardinality({k \in DOMAIN entries : entries[k].tx = i}) IN
       IF txs[i].status = "matched" THEN n = 1
       ELSE n = 0 /\ batches[txs[i].batch].status = "failed"
  /\ \A b \in DOMAIN batches :
       LET of == {i \in DOMAIN txs : txs[i].batch = b} IN
       /\ Cardinality(of) \in batches[b].imported..(batches[b].imported + batches[b].failed)
       /\ batches[b].imported + batches[b].failed <= batches[b].total

(* One request at a time: however often a row is imported, within a file   *)
(* or in several, there is one transaction of it.  Overlapping imports     *)
(* make two, and the row fails in every later import.                      *)
ImportedOnce ==
  serial => \A i, j \in DOMAIN txs : txs[i].row = txs[j].row => i = j

(* One request at a time: whatever was learned, forgotten, revived or      *)
(* edited, there is one rule for a merchant; two could disagree, and which *)
(* is used is left to the database (record_merchant_correction).           *)
OneRuleEach ==
  serial => \A i, j \in DOMAIN memories :
              IsRule(i) /\ memories[i].merchant = memories[j].merchant => i = j

(* One request at a time: an entry that is posted with another account     *)
(* than the keywords' is what the next import of the merchant uses, even   *)
(* if its rule had been forgotten, unless the rule of a merchant with a    *)
(* similar name comes first.  One that is posted with the keywords'        *)
(* account, a draft that was corrected back to it among them, changes      *)
(* nothing: a rule learned before stays, and the next import suggests the  *)
(* account the user corrected again (_learn_merchant_rule_from_posted_entry*)
(* returns early; docs/INGESTION.md:226-230 says a rule is learned).       *)
LearnedIsUsed ==
  [][serial => \A k \in DOMAIN entries :
       entries[k].status = "draft" /\ entries'[k].status = "posted" =>
         LET m == MerchantOf(k) IN
         IF Teaches(k)
         THEN /\ entries[k].account \in Suggestions(m)'
              /\ Matching(m)' \subseteq RulesFor(m)' => Suggestions(m)' = {entries[k].account}
         ELSE Suggestions(m)' = Suggestions(m)]_vars

=============================================================================
