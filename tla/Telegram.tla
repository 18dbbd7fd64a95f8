------------------------------- MODULE Telegram -------------------------------
(***************************************************************************)
(* The assistant in Telegram (services/telegram.py, api/telegram.py), over *)
(* one link, and beside the chats of Agent.  A delivery of the webhook is  *)
(* one transaction.  It reads the link; the first statement after it has   *)
(* set link.last_seen_at locks the link's row, and what follows sees what  *)
(* the holder before it has committed, though not the mode, which was read *)
(* with the link.                                                          *)
(*                                                                         *)
(* Whoever delivers the updates may deliver one again, after an error or   *)
(* for want of an answer: telegram_message_id is stored and never looked   *)
(* up.  A delivery waits for the row for less than the window of the       *)
(* limit; the business entity and the accounts of expenses are there.      *)
(***************************************************************************)
EXTENDS Agent

CONSTANTS Texts,        \* what messages say
          MaxInbound,   \* _RATE_LIMIT_MAX
          MaxRows       \* bound: inbound rows, and rows of calls in the audit log

ASSUME TelegramAssumption ==
  /\ MaxInbound \in Nat /\ MaxRows \in Nat
  /\ Texts \subseteq {"expense", "talk", "photo", "personal", "business"}

VARIABLES link,       \* its active_mode, and whether it is_active
          messages,   \* the inbound rows, in the order they are committed
          window      \* those of the link that are less than a minute old

vars == <<serial, today, books, prompts, req, saw, link, messages, window>>

Modes == {"personal", "business"}

(* entry: the number of the entry the reply names, 0 if it names none. *)
Row == [status : {"processed", "rejected", "rate_limited"}, entry : Nat]

Init == /\ AgentInit /\ messages = <<>> /\ window = {}
        /\ link \in [mode : Modes, active : {TRUE}]

Deliveries == {c \in Clients : req[c].op = "message"}

(* A delivery "waits" for the link's row unless it is "refused", and holds *)
(* the row from when it is "limited" or "answered" until it ends.          *)
Holders == {c \in Deliveries : req[c].phase \in {"limited", "answered"}}

-----------------------------------------------------------------------------
(* What _handle_message will do with a text: draft an expense, ask the     *)
(* assistant, switch the mode, or only reply.  It goes by the mode that    *)
(* was read with the link; to set that mode again writes nothing.          *)
Handling(text, mode) ==
  CASE text = "expense" /\ mode = "business"                    -> "draft"
    [] text = "talk" \/ (text = "expense" /\ mode = "personal") -> "ask"
    [] text \in Modes \ {mode}                                  -> text
    [] OTHER                                                    -> "reply"

Message(does, phase) == [op |-> "message", does |-> does, phase |-> phase]

(* process_inbound_message, up to the check of the link.                   *)
Receive(c, text) ==
  /\ Begin(c, IF link.active THEN Message(Handling(text, link.mode), "waits")
                             ELSE Message("reply", "refused"))
  /\ UNCHANGED <<link, messages, window>>

(* Mutant of Limited: the row of the message itself is not counted. *)
LimitedNext == Cardinality(window) > MaxInbound
Limited == Cardinality(window) + 1 > MaxInbound

(* The row is locked and the limits are read.  Past the assistant's own    *)
(* limit there is only Rollback.                                           *)
Lock(c) ==
  /\ c \in Deliveries /\ req[c].phase = "waits" /\ Holders = {}
  /\ ~Limited /\ req[c].does = "ask" => MayChat
  /\ req' = [req EXCEPT ![c] = IF Limited THEN Message("reply", "limited")
                                          ELSE Message(@.does, "answered")]
  /\ UNCHANGED <<serial, today, books, prompts, saw, link, messages, window>>

Recorded(status, n) ==
  messages' = Append(messages, [status |-> status, entry |-> n])

Counted == window' = window \cup {Len(messages) + 1}

Refuse(c) ==
  /\ c \in Deliveries /\ req[c].phase = "refused"
  /\ Recorded("rejected", 0) /\ End(c)
  /\ UNCHANGED <<books, prompts, link, window>>

LimitReply(c) ==
  /\ c \in Deliveries /\ req[c].phase = "limited"
  /\ Recorded("rate_limited", 0) /\ Counted /\ End(c)
  /\ UNCHANGED <<books, prompts, link>>

(* The tools of a turn that _handle_message asks for. *)
ReadForAnswer(c) == /\ c \in Deliveries /\ req[c].phase = "answered" /\ req[c].does = "ask"
                    /\ ReadRows(c) /\ UNCHANGED <<link, messages, window>>

(* The rest of _handle_message, and the reply. *)
Answer(c) ==
  /\ c \in Deliveries /\ req[c].phase = "answered" /\ Counted /\ End(c)
  /\ \/ /\ req[c].does = "draft" /\ books' = Drafted(books, "telegram")
        /\ Recorded("processed", Len(books.entries) + 1)
        /\ UNCHANGED <<prompts, link>>
     \/ /\ req[c].does = "ask" /\ \E turn \in Planned : Chatted(c, Steps(turn))
        /\ Recorded("processed", 0) /\ UNCHANGED link
     \/ /\ req[c].does \in Modes /\ link' = [link EXCEPT !.mode = req[c].does]
        /\ Recorded("processed", 0) /\ UNCHANGED <<books, prompts>>
     \/ /\ req[c].does = "reply"
        /\ Recorded("processed", 0) /\ UNCHANGED <<books, prompts, link>>

(* create_or_update_link, from the web. *)
Relink(l) == /\ Holders = {} /\ l # link /\ link' = l
             /\ UNCHANGED <<serial, today, books, prompts, req, saw, messages, window>>

(* A minute passes for the oldest row; those of deliveries that overlapped *)
(* are in no order.                                                        *)
Expire == \E i \in window :
  /\ serial => \A j \in window : i <= j
  /\ window' = window \ {i}
  /\ UNCHANGED <<serial, today, books, prompts, req, saw, link, messages>>

Bounded == Len(messages) + BagCardinality(books.log) <= MaxRows

Deliver(c) == \/ \E text \in Texts : Receive(c, text)
              \/ Lock(c)
              \/ ReadForAnswer(c)
              \/ Refuse(c) /\ Bounded'
              \/ LimitReply(c) /\ Bounded'
              \/ Answer(c) /\ Bounded'

(* A step of Agent. *)
Apart == UNCHANGED <<link, messages, window>>

Next ==
  \/ \E c \in Clients :
       \/ Deliver(c)
       \/ (BeginChat(c) \/ ReadForChat(c)) /\ Apart
       \/ \E turn \in Turns : Chat(c, turn) /\ Apart /\ Bounded'
       \/ \E k \in DOMAIN books.entries : BeginPostEntry(c, k) /\ Apart
       \/ \E i \in DOMAIN books.docs : BeginPostDocument(c, i) /\ Apart
       \/ (UserPosts(c) \/ Rollback(c)) /\ Apart
  \/ \E l \in [mode : Modes, active : BOOLEAN] : Relink(l)
  \/ Expire
  \/ Leave /\ Apart
  \/ Midnight /\ Apart

Spec == Init /\ [][Next]_vars

-----------------------------------------------------------------------------
Requests == {Idle} \cup [op : {"chat"}] \cup [op : {"entry", "document"}, on : Nat]
            \cup [op : {"message"}, does : {"draft", "ask", "reply"} \cup Modes,
                  phase : {"refused", "waits", "limited", "answered"}]

Seen == {Unread} \cup [entries : Seq(Entry), docs : Seq(Doc),
                       parties : SUBSET ({"invoice", "bill"} \X Nat), day : 1..MaxDay]

TypeOK == /\ serial \in BOOLEAN /\ today \in 1..MaxDay /\ BooksOK /\ prompts \in Nat
          /\ req \in [Clients -> Requests] /\ saw \in [Clients -> Seen]
          /\ link \in [mode : Modes, active : BOOLEAN]
          /\ messages \in Seq(Row) /\ window \subseteq DOMAIN messages

(* What Telegram answers is so: each entry it drafted is named by exactly  *)
(* one reply, that of a processed message; nothing is drafted for one that *)
(* was refused or limited, and none that came over an inactive link counts.*)
(* The link's row makes the limit of a minute exact, however deliveries    *)
(* overlap (process_inbound_message, _is_rate_limited).                    *)
RepliesExplained ==
  /\ \A k \in DOMAIN books.entries : books.entries[k].origin = "telegram" =>
       Cardinality({m \in DOMAIN messages : messages[m].entry = k}) = 1
  /\ \A m \in DOMAIN messages : messages[m].entry # 0 =>
       /\ messages[m].status = "processed"
       /\ books.entries[messages[m].entry].origin = "telegram"
  /\ \A m \in window : messages[m].status # "rejected"
  /\ Cardinality({m \in window : messages[m].status = "processed"}) <= MaxInbound
=============================================================================
