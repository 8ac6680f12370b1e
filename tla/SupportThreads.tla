----------------------------- MODULE SupportThreads -----------------------------
(***************************************************************************)
(* The correspondence of one customer with the staff: the router of free   *)
(* texts (main.py, handlers/ai_chat.py), the customer's conversation       *)
(* (handlers/user_panel.py), the staff's (handlers/admin_panel.py), and    *)
(* the threads (bot_services/communication_service.py).                    *)
(*                                                                         *)
(* Some buttons have no action here because their handlers change nothing: *)
(* "Cancel" of a reply returns at once (a button has no message), "Mark    *)
(* unread" and "Mark important" raise, their data being split at the wrong *)
(* underscore.  Of the texts only their lengths matter: a page holds the   *)
(* newest ones that fit, none at all when already the newest is too long.  *)
(* Updates are handled one at a time.                                      *)
(***************************************************************************)
EXTENDS Naturals

CONSTANTS
  Purchases,   \* the customer's orders
  Staff,
  Lengths,     \* the lengths of texts, of customer and staff
  PageLength,  \* MAX_CHARS, what a page of a thread holds
  MaxTexts,    \* bound: texts of the customer
  MaxReplies   \* bound: replies of the staff

ASSUME SupportAssumption ==
  /\ Lengths \subseteq Nat /\ PageLength \in Nat
  /\ MaxTexts \in Nat /\ MaxReplies \in Nat

VARIABLES
  threads,     \* communication_threads: order -> is_read
  orphaned,    \* there is a thread without an order
  texts,       \* order -> the customer's texts in thread_messages
  tail,        \* order -> the length of the newest of them and of all replies since
  cleared,     \* threads without a text since the customer's data_cleared_at
  typed,       \* texts typed so far; a text is its number
  customer,    \* users.status, the conversation, support_order_id, and the number
               \* and length of pending_message_text
  listed,      \* threads that the staff have a button for
  replying,    \* the thread that each member of staff replies to
  replies,     \* replies so far
  unseen,      \* threads whose newest text of the customer was on no page drawn
               \* for the staff
  refused      \* threads marked read before Telegram refused to send or draw

threadVars == <<threads, orphaned, texts, tail, cleared, unseen>>
staffVars == <<listed, replying, replies, refused>>
supportVars == <<threadVars, typed, customer, staffVars>>

NoText == 0
Nowhere == "nowhere"       \* no order, no thread
Forgotten == "forgotten"   \* a reply without reply_thread_id

Stored == UNION {texts[o] : o \in Purchases}

--------------------------------------------------------------------------------

SupportInit ==
  /\ threads = <<>> /\ orphaned = FALSE
  /\ texts = [o \in Purchases |-> {}]
  /\ tail = [o \in Purchases |-> 0]
  /\ typed = 0
  /\ customer = [approved |-> TRUE, stage |-> "idle", order |-> Nowhere,
                 pending |-> NoText, length |-> 0]
  /\ replying = [s \in Staff |-> Nowhere]
  /\ replies = 0 /\ cleared = {} /\ listed = {} /\ unseen = {} /\ refused = {}

WithThread(o, isRead) ==
  [t \in DOMAIN threads \cup {o} |-> IF t = o THEN isRead ELSE threads[t]]

\* The mark of the thread, or of the one that is created, read by default.
MarkOf(o) == IF o \in DOMAIN threads THEN threads[o] ELSE TRUE

\* Deliberate bug: a text of the customer leaves the mark of the thread alone.
AddSilently(o, text, length) ==
  /\ texts' = [texts EXCEPT ![o] = @ \cup {text}]
  /\ tail' = [tail EXCEPT ![o] = length]
  /\ threads' = WithThread(o, MarkOf(o))
  /\ unseen' = unseen \cup {o} /\ cleared' = cleared \ {o}
  /\ UNCHANGED orphaned

\* The thread is found or created, the text added and the thread marked unread.
AddMessage(o, text, length) ==
  /\ texts' = [texts EXCEPT ![o] = @ \cup {text}]
  /\ tail' = [tail EXCEPT ![o] = length]
  /\ threads' = WithThread(o, FALSE)
  /\ unseen' = unseen \cup {o} /\ cleared' = cleared \ {o}
  /\ UNCHANGED orphaned

\* The database fails: at most an empty thread is left.
AddFails(o) ==
  /\ threads' \in {threads, WithThread(o, MarkOf(o))}
  /\ UNCHANGED <<orphaned, texts, tail, cleared, unseen>>

\* No thread of a consultation can be read, for it has no order: the row is
\* inserted and the exception comes after it.
Consult ==
  /\ orphaned' \in {orphaned, TRUE}
  /\ UNCHANGED <<threads, texts, tail, cleared, unseen>>

--------------------------------------------------------------------------------
\* The customer.

WithoutPending == [customer EXCEPT !.pending = NoText, !.length = 0]

Hangup == [customer EXCEPT !.stage = "idle", !.order = Nowhere]

\* A text outside of every conversation is kept for the router, instead of the
\* one before.
RouteText(length) ==
  /\ customer.stage = "idle" /\ customer.approved
  /\ typed < MaxTexts
  /\ typed' = typed + 1
  /\ customer' = [customer EXCEPT !.pending = typed + 1, !.length = length]
  /\ UNCHANGED <<threadVars, staffVars>>

\* The assistant takes the text.
AskAi ==
  /\ customer.approved
  /\ customer' = WithoutPending
  /\ UNCHANGED <<typed, threadVars, staffVars>>

\* "Contact support" of order o opens the conversation.  What waits in the
\* router stays there.
PromptForMessage(o) ==
  /\ customer.stage = "idle"
  /\ customer' = [customer EXCEPT !.stage = "writing", !.order = o]
  /\ UNCHANGED <<typed, threadVars, staffVars>>

\* Deliberate bug: the text is read from the router and stays there.
RouteToOrderAgain(o) ==
  /\ customer.stage = "writing" /\ customer.approved
  /\ IF customer.pending = NoText
     THEN customer' = [customer EXCEPT !.order = o] /\ UNCHANGED threadVars
     ELSE /\ UNCHANGED customer
          /\ AddMessage(o, customer.pending, customer.length) \/ AddFails(o)
  /\ UNCHANGED <<typed, staffVars>>

\* Within the conversation the button is no entry point and reaches the
\* handler of the router: it sends what waits there, or asks for a text anew.
\* The text leaves the router before it is stored.
RouteToOrder(o) ==
  /\ customer.stage = "writing" /\ customer.approved
  /\ IF customer.pending = NoText
     THEN customer' = [customer EXCEPT !.order = o] /\ UNCHANGED threadVars
     ELSE /\ customer' = WithoutPending
          /\ AddMessage(o, customer.pending, customer.length) \/ AddFails(o)
  /\ UNCHANGED <<typed, staffVars>>

\* "General consultation" takes the text out of the router and raises.  Without
\* a text it asks for one, for which no conversation waits but one that may be
\* open about an order.
RouteToConsultation ==
  /\ customer.approved
  /\ IF customer.pending = NoText
     THEN customer' = [customer EXCEPT !.order = Nowhere] /\ UNCHANGED threadVars
     ELSE customer' = WithoutPending /\ Consult
  /\ UNCHANGED <<typed, staffVars>>

\* Deliberate bug: a text without an order is added to a thread of its own.
HandleAnyMessage(length) ==
  /\ customer.stage = "writing"
  /\ typed < MaxTexts
  /\ typed' = typed + 1
  /\ \/ AddMessage(customer.order, typed + 1, length) /\ customer' = Hangup
     \/ AddFails(customer.order) /\ UNCHANGED customer
  /\ UNCHANGED staffVars

\* The text goes to the thread of the order.  When the database fails, or there
\* is no order, the exception leaves the conversation open.
HandleUserMessage(length) ==
  /\ customer.stage = "writing"
  /\ typed < MaxTexts
  /\ typed' = typed + 1
  /\ \/ /\ customer.order # Nowhere
        /\ AddMessage(customer.order, typed + 1, length)
        /\ customer' = Hangup
     \/ /\ customer.order # Nowhere
        /\ AddFails(customer.order)
        /\ UNCHANGED customer
     \/ /\ customer.order = Nowhere
        /\ Consult
        /\ UNCHANGED customer
  /\ UNCHANGED staffVars

CancelUserMessage ==
  /\ customer.stage = "writing"
  /\ customer' = Hangup
  /\ UNCHANGED <<typed, threadVars, staffVars>>

\* user_data is emptied, the conversations stay open.
Forget(approved) ==
  customer' = [WithoutPending EXCEPT !.approved = approved, !.order = Nowhere]

\* /done of the order conversation.
DoneCustomer ==
  /\ Forget(customer.approved)
  /\ UNCHANGED <<typed, threadVars, staffVars>>

\* Logging out, and with it maybe clearing the history: the texts stay, and from
\* now on are left out of the thread.
LogoutAction(clearsData) ==
  /\ Forget(FALSE)
  /\ cleared' = IF clearsData THEN DOMAIN threads ELSE cleared
  /\ UNCHANGED <<typed, threads, orphaned, texts, tail, unseen, staffVars>>

\* Registration, up to the approval.
RegisterAgain ==
  /\ ~customer.approved
  /\ Forget(TRUE)
  /\ UNCHANGED <<typed, threadVars, staffVars>>

--------------------------------------------------------------------------------
\* The staff.

\* The list of the threads reads every row; one without an order raises.
ShowCommunicationCenter ==
  /\ ~orphaned
  /\ listed' = DOMAIN threads
  /\ UNCHANGED <<threadVars, typed, customer, replying, replies, refused>>

\* Page 0 has the customer's newest text if that and all that came after fit,
\* and the customer has not cleared the data since.
OnFirstPage(o, length) == o \notin cleared /\ length <= PageLength

\* Page 0 of thread o is drawn after a reply of that length, or none, and the
\* thread marked read.
Render(o, reply) ==
  /\ threads' = WithThread(o, TRUE)
  /\ tail' = [tail EXCEPT ![o] = @ + reply]
  /\ unseen' = IF OnFirstPage(o, tail[o] + reply) THEN unseen \ {o} ELSE unseen
  /\ refused' = refused \ {o}
  /\ UNCHANGED <<orphaned, texts, cleared>>

\* The mark comes before the page, and an error of Telegram is not caught.
RenderRaises(o, reply) ==
  /\ threads' = WithThread(o, TRUE)
  /\ tail' = [tail EXCEPT ![o] = @ + reply]
  /\ refused' = refused \cup {o}
  /\ UNCHANGED <<orphaned, texts, cleared, unseen>>

ShowThread(o) ==
  /\ o \in listed
  /\ Render(o, 0) \/ RenderRaises(o, 0)
  /\ UNCHANGED <<typed, customer, listed, replying, replies>>

\* An older page, which marks nothing: what did not fit on page 0 is on one.
TurnPage(o) ==
  /\ o \in listed /\ o \notin cleared /\ tail[o] > PageLength
  /\ unseen' = unseen \ {o}
  /\ UNCHANGED <<threads, orphaned, texts, tail, cleared, typed, customer, staffVars>>

\* The thread is remembered in user_data, if that is not empty: an empty one is
\* replaced by a dictionary that nobody keeps.
PromptForReply(s, o) ==
  /\ replying[s] = Nowhere
  /\ o \in listed
  /\ \E what \in {o, Forgotten} : replying' = [replying EXCEPT ![s] = what]
  /\ UNCHANGED <<threadVars, typed, customer, listed, replies, refused>>

\* /done and logging out empty the user_data of staff as well.
ForgetReply(s) ==
  /\ replying[s] \in DOMAIN threads
  /\ replying' = [replying EXCEPT ![s] = Forgotten]
  /\ UNCHANGED <<threadVars, typed, customer, listed, replies, refused>>

\* The reply is stored, which marks the thread read; it is sent, or an error of
\* the network is reported; then the thread is drawn.
StaffReply(s, length) ==
  /\ replying[s] \in DOMAIN threads
  /\ replies < MaxReplies
  /\ replies' = replies + 1
  /\ replying' = [replying EXCEPT ![s] = Nowhere]
  /\ Render(replying[s], length)
  /\ UNCHANGED <<typed, customer, listed>>

\* An error of Telegram (the bot is blocked, the text is no Markdown, the page is
\* as it was) is not caught: the next text is a reply again.
StaffReplyRaises(s, length) ==
  /\ replying[s] \in DOMAIN threads
  /\ replies < MaxReplies
  /\ replies' = replies + 1
  /\ RenderRaises(replying[s], length)
  /\ UNCHANGED <<typed, customer, listed, replying>>

\* Without the thread there is nothing to reply to.
ReplyToNothing(s) ==
  /\ replying[s] = Forgotten
  /\ replying' = [replying EXCEPT ![s] = Nowhere]
  /\ UNCHANGED <<threadVars, typed, customer, listed, replies, refused>>

\* The conversations do not survive an orderly restart of the bot, user_data
\* does.
RestartSupport ==
  /\ customer' = [customer EXCEPT !.stage = "idle"]
  /\ replying' = [s \in Staff |-> Nowhere]
  /\ UNCHANGED <<threadVars, typed, listed, replies, refused>>

CustomerNext ==
  \/ AskAi \/ RouteToConsultation \/ CancelUserMessage \/ DoneCustomer \/ RegisterAgain
  \/ \E length \in Lengths : RouteText(length) \/ HandleUserMessage(length)
  \/ \E o \in Purchases : PromptForMessage(o) \/ RouteToOrder(o)
  \/ \E clearsData \in BOOLEAN : LogoutAction(clearsData)

StaffNext ==
  \/ ShowCommunicationCenter
  \/ \E o \in Purchases : ShowThread(o) \/ TurnPage(o)
  \/ \E s \in Staff : \/ \E o \in Purchases : PromptForReply(s, o)
                      \/ \E length \in Lengths : \/ StaffReply(s, length)
                                                 \/ StaffReplyRaises(s, length)
                      \/ ForgetReply(s) \/ ReplyToNothing(s)

SupportNext == CustomerNext \/ StaffNext \/ RestartSupport

SupportSpec == SupportInit /\ [][SupportNext]_supportVars

--------------------------------------------------------------------------------
\* Properties.

\* Every variable has its type; a text belongs to an order.
SupportTypeOK ==
  /\ DOMAIN threads \subseteq Purchases /\ \A o \in DOMAIN threads : threads[o] \in BOOLEAN
  /\ orphaned \in BOOLEAN
  /\ texts \in [Purchases -> SUBSET (1 .. MaxTexts)] /\ tail \in [Purchases -> Nat]
  /\ typed \in 0 .. MaxTexts
  /\ customer \in [approved : BOOLEAN, stage : {"idle", "writing"},
                   order : Purchases \cup {Nowhere},
                   pending : 0 .. MaxTexts, length : Lengths \cup {0}]
  /\ replying \in [Staff -> DOMAIN threads \cup {Nowhere, Forgotten}]
  /\ replies \in 0 .. MaxReplies
  /\ cleared \subseteq DOMAIN threads /\ listed \subseteq DOMAIN threads
  /\ unseen \subseteq DOMAIN threads /\ refused \subseteq DOMAIN threads

\* A text reaches the staff at most once, whichever way it goes: it is in the
\* thread of one order, and what still waits in the router is in none.
StoredOnce ==
  /\ \A o1, o2 \in Purchases : o1 # o2 => texts[o1] \cap texts[o2] = {}
  /\ customer.pending \notin Stored

\* Threads that count as read though the newest text of the customer was on no
\* page drawn.
ReadUnseen == {o \in unseen : threads[o]}

\* A text that comes in while a reply to an earlier one is written is drawn with
\* that reply, and every other thread that counts as read was opened since its
\* newest text, which was on the page drawn: unless Telegram refused what was to
\* be sent or drawn, the customer cleared the history, or the text, with the
\* replies after it, does not fit on page 0.
ReadMeansDrawn ==
  \A o \in ReadUnseen : o \in refused \/ o \in cleared \/ tail[o] > PageLength

================================================================================
