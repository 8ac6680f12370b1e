----------------------------- MODULE Registration -----------------------------
(***************************************************************************)
(* The registration conversation of tg_bot/handlers/registration.py, the   *)
(* decision on an application by whoever presses a button first, and the   *)
(* other writers of users.status: logging out and the user card of the     *)
(* staff panel (admin_panel.py), over user_service.py.                     *)
(*                                                                         *)
(* A form is filled in message by message, lives in context.user_data and  *)
(* reaches the database with the contact.  Names and addresses are         *)
(* abstracted to the pass through the wizard in which they were typed.     *)
(* Handlers do not interleave; flush, crash and exceptions strike at any   *)
(* await, so a handler with more than one effect is the steps of a task.   *)
(***************************************************************************)
EXTENDS Integers, FiniteSets

CONSTANTS
  Users,       \* Telegram users
  Owners,      \* users listed in ADMIN_IDS
  Chats,       \* admin_targets: the admin chat and the chats of ADMIN_IDS
  Nobody,      \* no user
  MaxPasses, MaxFaults   \* bounds

ASSUME PeopleAssumption ==
  /\ Owners \subseteq Users
  /\ IsFiniteSet(Chats) /\ Chats # {}
  /\ Nobody \notin Users

ASSUME BoundAssumption == MaxPasses \in Nat /\ MaxFaults \in Nat

\* What a field holds besides the text typed in pass 1, 2, ...
Missing  == 0     \* None, or NULL
Blank    == -1    \* ''
Deleted  == -2    \* '[deleted]'
Official == -3    \* the data create_approved_admin invents

Passes == 1 .. MaxPasses
Fields == Passes \cup {Missing, Blank, Deleted, Official}

VARIABLES
  \* the database
  users,        \* table users
  autoApprove,  \* setting auto_approve_new_users
  \* memory of the bot process
  dialogue,     \* conversation state and form (user_data), by user
  task,         \* the running handler, if it has more than one effect
  \* the chats of the admins
  notices,      \* applications whose two buttons nobody has pressed yet
  \* the pickle file
  stored,       \* dialogue as last flushed
  \* history and bounds
  passes, faults

vars == <<users, autoApprove, dialogue, task, notices, stored, passes, faults>>

Statuses == {"ABSENT", "PENDING", "APPROVED", "BLOCKED"}
Rows == [status : Statuses, fio : Fields, email : Fields,
         linked : BOOLEAN]  \* history: sent from a conversation a link opened

ConvStates == {"END", "AWAITING_FIO", "AWAITING_EMAIL", "AWAITING_PHONE"}
Dialogues == [conv : ConvStates, fio : Fields, email : Fields,
              pass : Passes \cup {Missing},  \* history: the wizard's pass
              linked : BOOLEAN]    \* history: the state was set by a link

Notices == [chat : Chats, user : Users, fio : Fields, email : Fields]

Tasks == [pc   : {"idle", "notify", "clear", "reply"},
          user : Users \cup {Nobody},
          next : ConvStates,
          todo : SUBSET Chats]
Idle == [pc |-> "idle", user |-> Nobody, next |-> "END", todo |-> {}]

NoRow == [status |-> "ABSENT", fio |-> Blank, email |-> Blank, linked |-> FALSE]
NewDialogue == [conv |-> "END", fio |-> Missing, email |-> Missing,
                pass |-> Missing, linked |-> FALSE]

TypeOK ==
  /\ users \in [Users -> Rows]
  /\ autoApprove \in BOOLEAN
  /\ dialogue \in [Users -> Dialogues]
  /\ task \in Tasks
  /\ notices \subseteq Notices
  /\ stored \in [Users -> Dialogues]
  /\ passes \in 0 .. MaxPasses
  /\ faults \in 0 .. MaxFaults

Init ==
  /\ users = [u \in Users |-> NoRow]
  /\ autoApprove \in BOOLEAN
  /\ dialogue = [u \in Users |-> NewDialogue]
  /\ task = Idle
  /\ notices = {}
  /\ stored = dialogue
  /\ passes = 0
  /\ faults = 0

--------------------------------------------------------------------------------
(* user_service.py                                                          *)

Exists(u) == users[u].status # "ABSENT"

\* get_user builds a User, whose phone and email are strings: a row that holds
\* NULL there makes every read of it raise a ValidationError.
Readable(row) == row.status = "ABSENT" \/ row.email # Missing

\* Deliberate bug: the column is nullable and the form is not checked.
AcceptsAnyForm(d) == TRUE

\* users.fio is NOT NULL
AcceptsForm(d) == d.fio # Missing

\* Deliberate bug: any application may be decided again.
AwaitsAnyDecision(row) == row.status # "ABSENT"

\* approve_user and decline_user look at the status they read.
AwaitsDecision(row) == row.status = "PENDING"

WithStatus(row, status) == [row EXCEPT !.status = status]

Registered(d) ==
  [status |-> IF autoApprove THEN "APPROVED" ELSE "PENDING",
   fio |-> d.fio, email |-> d.email, linked |-> d.linked]

\* logout_user: without or with the deletion of the user's saved things
LoggedOut(row) ==
  [status |-> "PENDING", fio |-> Blank, email |-> Blank, linked |-> FALSE]

Anonymized(row) ==
  [status |-> "BLOCKED", fio |-> Deleted, email |-> Missing, linked |-> FALSE]

OwnerRow == [status |-> "APPROVED", fio |-> Official, email |-> Official,
             linked |-> FALSE]

--------------------------------------------------------------------------------
(* The conversation.  "reply" is the rest of a handler that sends its answer *)
(* and returns the next state.                                               *)

DispatcherFree == task = Idle

Reply(u, next) ==
  task' = [pc |-> "reply", user |-> u, next |-> next, todo |-> {}]

InState(u, conv) == DispatcherFree /\ dialogue[u].conv = conv

\* /start without a product: an owner without a row gets one, staff get their
\* menu, everybody else the welcome screen or the main menu.  A dead button
\* ends in start() too (handle_stale_callback), outside the conversation
\* handler, so the state stays.
Start(u) ==
  /\ DispatcherFree
  /\ Readable(users[u])
  /\ IF u \in Owners /\ ~Exists(u)
     THEN users' = [users EXCEPT ![u] = OwnerRow]
     ELSE UNCHANGED users
  /\ \E next \in {"END", dialogue[u].conv} : Reply(u, next)
  /\ UNCHANGED <<autoApprove, dialogue, notices, stored, passes, faults>>

\* /start p123: an approved customer is shown the product, and the handler
\* returns VIEWING_PRODUCT of the order conversation, which is the number of
\* AWAITING_PHONE in this one.
FollowProductLink(u) ==
  /\ DispatcherFree
  /\ users[u].status = "APPROVED" /\ Readable(users[u])
  /\ dialogue' = [dialogue EXCEPT ![u].conv = "AWAITING_PHONE",
                                  ![u].linked = TRUE]
  /\ UNCHANGED <<users, autoApprove, task, notices, stored, passes, faults>>

\* start_fio_step: any "start registration" button, whatever the status.
StartWizard(u) ==
  /\ DispatcherFree
  /\ Readable(users[u])
  /\ passes < MaxPasses
  /\ passes' = passes + 1
  /\ dialogue' = [dialogue EXCEPT ![u].conv = "AWAITING_FIO",
                                  ![u].pass = passes + 1,
                                  ![u].linked = FALSE]
  /\ UNCHANGED <<users, autoApprove, task, notices, stored, faults>>

ReceiveFio(u) ==
  /\ InState(u, "AWAITING_FIO")
  /\ dialogue' = [dialogue EXCEPT ![u].fio = dialogue[u].pass]
  /\ Reply(u, "AWAITING_EMAIL")
  /\ UNCHANGED <<users, autoApprove, notices, stored, passes, faults>>

ReceiveEmail(u) ==
  /\ InState(u, "AWAITING_EMAIL")
  /\ dialogue' = [dialogue EXCEPT ![u].email = dialogue[u].pass]
  /\ Reply(u, "AWAITING_PHONE")
  /\ UNCHANGED <<users, autoApprove, notices, stored, passes, faults>>

\* Deliberate bug: an applicant who was waiting already is not announced again.
NeedsFirstNotice(before, row) ==
  row.status = "PENDING" /\ before.status # "PENDING"

\* Whether received_phone tells the admins: it looks at the row it wrote.
NeedsNotice(before, row) == row.status = "PENDING"

\* received_phone writes the row.  INSERT ... RETURNING has committed when the
\* returned row cannot be read (no email): the handler ends there.
ReceivePhone(u) ==
  /\ InState(u, "AWAITING_PHONE")
  /\ AcceptsForm(dialogue[u])
  /\ LET row == Registered(dialogue[u])
     IN  /\ users' = [users EXCEPT ![u] = row]
         /\ task' =
              IF ~Readable(row) THEN Idle
              ELSE [pc   |-> IF NeedsNotice(users[u], row)
                             THEN "notify" ELSE "clear",
                    user |-> u, next |-> "END",
                    todo |-> IF NeedsNotice(users[u], row)
                             THEN Chats ELSE {}]
  /\ UNCHANGED <<autoApprove, dialogue, notices, stored, passes, faults>>

\* Deliberate bug: the loop does not advance.
NotifyAgain(chat) ==
  /\ task.pc = "notify" /\ chat \in task.todo
  /\ notices' = notices \cup
       {[chat |-> chat, user |-> task.user,
         fio |-> users[task.user].fio, email |-> users[task.user].email]}
  /\ UNCHANGED <<users, autoApprove, dialogue, task, stored, passes, faults>>

\* One send_message per chat; a TelegramError is not caught (HandlerRaises).
Notify(chat) ==
  /\ task.pc = "notify" /\ chat \in task.todo
  /\ notices' = notices \cup
       {[chat |-> chat, user |-> task.user,
         fio |-> users[task.user].fio, email |-> users[task.user].email]}
  /\ task' = [task EXCEPT !.todo = task.todo \ {chat},
                          !.pc = IF task.todo = {chat} THEN "clear" ELSE "notify"]
  /\ UNCHANGED <<users, autoApprove, dialogue, stored, passes, faults>>

Cleared(d) == [d EXCEPT !.fio = Missing, !.email = Missing]

\* user_data.clear(), then the menu or the gate
ClearForm ==
  /\ task.pc = "clear"
  /\ dialogue' = [dialogue EXCEPT ![task.user] = Cleared(dialogue[task.user])]
  /\ Reply(task.user, task.next)
  /\ UNCHANGED <<users, autoApprove, notices, stored, passes, faults>>

\* The conversation handler stores the state the handler returned.
Answered(d, next) ==
  [d EXCEPT !.conv = next, !.linked = d.linked /\ next = d.conv]

SendReply ==
  /\ task.pc = "reply"
  /\ dialogue' = [dialogue EXCEPT
       ![task.user] = Answered(dialogue[task.user], task.next)]
  /\ task' = Idle
  /\ UNCHANGED <<users, autoApprove, notices, stored, passes, faults>>

\* /cancel.  The cart it clears is that of OrderCheckout.
CancelRegistration(u) ==
  /\ DispatcherFree /\ dialogue[u].conv # "END"
  /\ dialogue' = [dialogue EXCEPT
       ![u] = [Cleared(dialogue[u]) EXCEPT !.conv = "END", !.linked = FALSE]]
  /\ UNCHANGED <<users, autoApprove, task, notices, stored, passes, faults>>

\* /done in the order conversation clears all of user_data.
EndOrdering(u) ==
  /\ DispatcherFree
  /\ dialogue' = [dialogue EXCEPT ![u] = Cleared(dialogue[u])]
  /\ UNCHANGED <<users, autoApprove, task, notices, stored, passes, faults>>

\* handle_logout_action does not touch the registration conversation.
Logout(u) ==
  /\ DispatcherFree /\ Exists(u)
  /\ users' = [users EXCEPT ![u] = LoggedOut(users[u])]
  /\ dialogue' = [dialogue EXCEPT ![u] = Cleared(dialogue[u])]
  /\ UNCHANGED <<autoApprove, task, notices, stored, passes, faults>>

--------------------------------------------------------------------------------
(* The staff                                                                *)

Verdicts == {"APPROVED", "BLOCKED"}

\* handle_approval_callback.  The buttons go when the pressed message is edited;
\* they stay if an exception comes first, or on a second copy of the notice.
Decide(n, verdict) ==
  /\ DispatcherFree
  /\ n \in notices
  /\ Readable(users[n.user])
  /\ users' = IF AwaitsDecision(users[n.user])
              THEN [users EXCEPT ![n.user] = WithStatus(users[n.user], verdict)]
              ELSE users
  /\ notices' \in {notices, notices \ {n}}
  /\ UNCHANGED <<autoApprove, dialogue, task, stored, passes, faults>>

CardActions == {"approve", "block", "reset", "gdpr_delete"}

\* handle_user_action: the buttons of a user's card, which may be an old one.
\* Changes of role leave the status alone.
UserCard(u, action) ==
  /\ DispatcherFree
  /\ Exists(u) /\ Readable(users[u])
  /\ u \in Owners => action = "approve"
  /\ users' = [users EXCEPT ![u] =
       CASE action = "approve"     -> WithStatus(users[u], "APPROVED")
         [] action = "block"       -> WithStatus(users[u], "BLOCKED")
         [] action = "reset"       -> LoggedOut(users[u])
         [] action = "gdpr_delete" -> Anonymized(users[u])]
  /\ UNCHANGED <<autoApprove, dialogue, task, notices, stored, passes, faults>>

ToggleAutoApprove ==
  /\ DispatcherFree
  /\ autoApprove' = ~autoApprove
  /\ UNCHANGED <<users, dialogue, task, notices, stored, passes, faults>>

--------------------------------------------------------------------------------
(* The process                                                              *)

Flush ==
  /\ stored' = dialogue
  /\ UNCHANGED <<users, autoApprove, dialogue, task, notices, passes, faults>>

\* A Bot API error in a handler: the conversation keeps its state.
HandlerRaises ==
  /\ task # Idle /\ faults < MaxFaults
  /\ task' = Idle
  /\ faults' = faults + 1
  /\ UNCHANGED <<users, autoApprove, dialogue, notices, stored, passes>>

Crash ==
  /\ faults < MaxFaults
  /\ faults' = faults + 1
  /\ task' = Idle
  /\ dialogue' = stored
  /\ UNCHANGED <<users, autoApprove, notices, stored, passes>>

Converse(u) ==
  \/ Start(u)
  \/ FollowProductLink(u)
  \/ StartWizard(u)
  \/ ReceiveFio(u)
  \/ ReceiveEmail(u)
  \/ ReceivePhone(u)
  \/ CancelRegistration(u)
  \/ EndOrdering(u)
  \/ Logout(u)

AdminPanel ==
  \/ \E n \in notices, verdict \in Verdicts : Decide(n, verdict)
  \/ \E u \in Users, action \in CardActions : UserCard(u, action)
  \/ ToggleAutoApprove

TaskStep == (\E chat \in Chats : Notify(chat)) \/ ClearForm \/ SendReply

Process == Flush \/ HandlerRaises \/ Crash

Next == (\E u \in Users : Converse(u)) \/ AdminPanel \/ TaskStep \/ Process

Spec == Init /\ [][Next]_vars

\* The event loop resumes a handler whose call has returned.
FairSpec == Spec /\ WF_vars(TaskStep)

--------------------------------------------------------------------------------
(* Properties                                                               *)

\* Where a form stands in a dialogue: what was typed belongs to the present pass,
\* unless user_data was cleared meanwhile.
Coherent(d) ==
  /\ d.conv = "AWAITING_EMAIL" => d.fio \in {Missing, d.pass}
  /\ d.conv = "AWAITING_PHONE" /\ ~d.linked
       => d.fio = Missing \/ (d.fio = d.pass /\ d.email = d.pass)

\* A registered row holds the name and the address typed in one pass through the
\* wizard, through every exception, crash and log-out in the middle of it, unless the contact
\* was sent from a conversation that a product link had put there.
RowHoldsOneForm ==
  \A u \in Users :
    users[u].fio \in Passes \cup {Missing} /\ ~users[u].linked
      => users[u].fio # Missing /\ users[u].email = users[u].fio

Announced(u) ==
  \E n \in notices :
    n.user = u /\ n.fio = users[u].fio /\ n.email = users[u].email

\* As long as nothing fails, somebody in the admins' chats has, or is about to
\* get, the buttons for the data every waiting applicant gave last.
PendingIsAnnounced ==
  \A u \in Users :
    /\ users[u].status = "PENDING" /\ users[u].fio \in Passes
    /\ Readable(users[u]) /\ faults = 0
    => Announced(u) \/ (task.pc = "notify" /\ task.user = u)

\* The buttons of an application decide once, however many chats show them and
\* however old they are: from approved to blocked or back only the user's card
\* and a new application lead.
DecisionsStand ==
  [][\A u \in Users :
       \/ users[u].status \notin Verdicts
       \/ users'[u].status \notin Verdicts
       \/ users'[u].status = users[u].status
       \/ ReceivePhone(u)
       \/ \E action \in CardActions : UserCard(u, action)]_vars

\* An applicant whose contact was stored leaves the wizard, unless a call failed.
ApplicationAnswered ==
  \A u \in Users :
    task.pc = "notify" /\ task.user = u
      ~> dialogue[u].conv = "END" \/ faults > 0

\* show_users_menu reads all users to show the staff "all counters"; it can only
\* do so while every row can be read.
RowsReadable == \A u \in Users : Readable(users[u])
================================================================================
