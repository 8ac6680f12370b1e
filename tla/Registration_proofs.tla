------------------------- MODULE Registration_proofs --------------------------
(***************************************************************************)
(* Proofs about Registration for any number of users, owners, chats,       *)
(* passes through the wizard and failures.                                 *)
(***************************************************************************)
EXTENDS Registration, TLAPS

\* What is known of a running handler: whose it is, and that the dialogue it
\* leaves behind is coherent.
TaskInv ==
  /\ task.pc # "idle" => task.user \in Users
  /\ task.pc \in {"notify", "clear"} => task.next = "END"
  /\ task.pc = "reply" =>
       Coherent(Answered(dialogue[task.user], task.next))

\* Forms are coherent in memory and in the pickle file, so that a crash does not
\* bring back half of one pass and half of another.
FormInv ==
  /\ \A u \in Users : Coherent(dialogue[u]) /\ Coherent(stored[u])
  /\ TaskInv

RegInv == TypeOK /\ FormInv /\ RowHoldsOneForm

--------------------------------------------------------------------------------
(* Records the actions build                                                *)

LEMMA RowTypes ==
  ASSUME TypeOK, NEW u \in Users
  PROVE  /\ NoRow \in Rows /\ OwnerRow \in Rows
         /\ LoggedOut(users[u]) \in Rows
         /\ Anonymized(users[u]) \in Rows
         /\ Registered(dialogue[u]) \in Rows
         /\ \A s \in Statuses : WithStatus(users[u], s) \in Rows
BY DEF TypeOK, Rows, Statuses, Fields, NoRow, OwnerRow, LoggedOut, Anonymized,
       Registered, WithStatus, Dialogues, Missing, Blank, Deleted, Official

LEMMA DialogueTypes ==
  ASSUME NEW d \in Dialogues
  PROVE  /\ NewDialogue \in Dialogues
         /\ Cleared(d) \in Dialogues
         /\ \A next \in ConvStates : Answered(d, next) \in Dialogues
         /\ \A p \in Passes \cup {Missing} :
              /\ [d EXCEPT !.fio = p] \in Dialogues
              /\ [d EXCEPT !.email = p] \in Dialogues
BY DEF Dialogues, NewDialogue, Cleared, Answered, ConvStates, Fields

\* Clearing a form, and what a finished conversation holds, is coherent.
LEMMA CoherentForms ==
  ASSUME NEW d \in Dialogues
  PROVE  /\ Coherent(NewDialogue)
         /\ Coherent(Cleared(d))
         /\ Coherent(Answered(d, "END"))
         /\ Answered(d, d.conv) = d
BY DEF Coherent, NewDialogue, Cleared, Answered, Dialogues, Missing

LEMMA InitReg == Init => RegInv
<1> SUFFICES ASSUME Init PROVE RegInv
  OBVIOUS
<1>1. NoRow \in Rows /\ NewDialogue \in Dialogues
  BY DEF NoRow, Rows, Statuses, NewDialogue, Dialogues, ConvStates, Fields,
         Missing, Blank
<1>2. TypeOK
  BY <1>1, BoundAssumption
  DEF Init, TypeOK, Tasks, Idle, ConvStates
<1>3. FormInv
  BY <1>1, CoherentForms DEF Init, FormInv, TaskInv, Idle
<1>4. RowHoldsOneForm
  BY DEF Init, RowHoldsOneForm, NoRow, Passes, Missing, Blank
<1> QED
  BY <1>2, <1>3, <1>4 DEF RegInv

--------------------------------------------------------------------------------
(* The actions                                                              *)

LEMMA StartKeeps ==
  ASSUME RegInv, NEW u \in Users, Start(u)
  PROVE  RegInv'
<1> USE DEF RegInv
<1>1. PICK next \in {"END", dialogue[u].conv} : Reply(u, next)
  BY DEF Start
<1>2. dialogue[u] \in Dialogues /\ next \in ConvStates
  BY DEF TypeOK, Dialogues, ConvStates
<1>3. Coherent(Answered(dialogue[u], next))
  BY <1>2, CoherentForms DEF FormInv
<1>4. TypeOK'
  <2>1. task' \in Tasks
    BY <1>1, <1>2 DEF Reply, Tasks
  <2>2. users' \in [Users -> Rows]
    BY RowTypes DEF Start, TypeOK
  <2> QED
    BY <2>1, <2>2 DEF Start, TypeOK
<1>5. FormInv'
  BY <1>1, <1>3 DEF Start, FormInv, TaskInv, Reply
<1>6. RowHoldsOneForm'
  BY DEF Start, RowHoldsOneForm, OwnerRow, TypeOK, Passes, Missing, Official
<1> QED
  BY <1>4, <1>5, <1>6

LEMMA LinkKeeps ==
  ASSUME RegInv, NEW u \in Users, FollowProductLink(u)
  PROVE  RegInv'
<1> USE DEF RegInv
<1>1. dialogue'[u] \in Dialogues /\ Coherent(dialogue'[u])
  BY DEF FollowProductLink, TypeOK, Dialogues, ConvStates, Coherent
<1>2. TypeOK'
  BY <1>1 DEF FollowProductLink, TypeOK
<1>3. FormInv'
  BY <1>1 DEF FollowProductLink, FormInv, TaskInv, DispatcherFree, Idle, TypeOK
<1>4. RowHoldsOneForm'
  BY DEF FollowProductLink, RowHoldsOneForm
<1> QED
  BY <1>2, <1>3, <1>4

LEMMA WizardKeeps ==
  ASSUME RegInv, NEW u \in Users, StartWizard(u)
  PROVE  RegInv'
<1> USE DEF RegInv
<1>1. passes + 1 \in Passes
  BY BoundAssumption DEF StartWizard, TypeOK, Passes
<1>2. dialogue'[u] \in Dialogues /\ Coherent(dialogue'[u])
  BY <1>1 DEF StartWizard, TypeOK, Dialogues, ConvStates, Coherent
<1>3. TypeOK'
  BY <1>1, <1>2, BoundAssumption DEF StartWizard, TypeOK, Passes
<1>4. FormInv'
  BY <1>2 DEF StartWizard, FormInv, TaskInv, DispatcherFree, Idle, TypeOK
<1>5. RowHoldsOneForm'
  BY DEF StartWizard, RowHoldsOneForm
<1> QED
  BY <1>3, <1>4, <1>5

LEMMA FioKeeps ==
  ASSUME RegInv, NEW u \in Users, ReceiveFio(u)
  PROVE  RegInv'
<1> USE DEF RegInv
<1>1. dialogue[u] \in Dialogues /\ dialogue[u].conv = "AWAITING_FIO"
  BY DEF ReceiveFio, InState, TypeOK
<1>2. dialogue'[u] = [dialogue[u] EXCEPT !.fio = dialogue[u].pass]
  BY DEF ReceiveFio, TypeOK
<1>3. dialogue'[u] \in Dialogues
  BY <1>1, <1>2, DialogueTypes DEF Dialogues
<1>4. Coherent(dialogue'[u])
  BY <1>1, <1>2 DEF Coherent, Dialogues
<1>5. Coherent(Answered(dialogue'[u], "AWAITING_EMAIL"))
  BY <1>1, <1>2 DEF Coherent, Answered, Dialogues
<1>6. TypeOK'
  BY <1>3 DEF ReceiveFio, Reply, Tasks, ConvStates, TypeOK
<1>7. FormInv'
  BY <1>4, <1>5 DEF ReceiveFio, Reply, FormInv, TaskInv, TypeOK
<1>8. RowHoldsOneForm'
  BY DEF ReceiveFio, RowHoldsOneForm
<1> QED
  BY <1>6, <1>7, <1>8

LEMMA EmailKeeps ==
  ASSUME RegInv, NEW u \in Users, ReceiveEmail(u)
  PROVE  RegInv'
<1> USE DEF RegInv
<1>1. /\ dialogue[u] \in Dialogues /\ dialogue[u].conv = "AWAITING_EMAIL"
      /\ dialogue[u].fio \in {Missing, dialogue[u].pass}
  BY DEF ReceiveEmail, InState, TypeOK, FormInv, Coherent
<1>2. dialogue'[u] = [dialogue[u] EXCEPT !.email = dialogue[u].pass]
  BY DEF ReceiveEmail, TypeOK
<1>3. dialogue'[u] \in Dialogues
  BY <1>1, <1>2, DialogueTypes DEF Dialogues
<1>4. Coherent(dialogue'[u])
  BY <1>1, <1>2 DEF Coherent, Dialogues
<1>5. Coherent(Answered(dialogue'[u], "AWAITING_PHONE"))
  BY <1>1, <1>2 DEF Coherent, Answered, Dialogues
<1>6. TypeOK'
  BY <1>3 DEF ReceiveEmail, Reply, Tasks, ConvStates, TypeOK
<1>7. FormInv'
  BY <1>4, <1>5 DEF ReceiveEmail, Reply, FormInv, TaskInv, TypeOK
<1>8. RowHoldsOneForm'
  BY DEF ReceiveEmail, RowHoldsOneForm
<1> QED
  BY <1>6, <1>7, <1>8

LEMMA PhoneKeeps ==
  ASSUME RegInv, NEW u \in Users, ReceivePhone(u)
  PROVE  RegInv'
<1> USE DEF RegInv
<1> DEFINE row == Registered(dialogue[u])
<1>1. /\ dialogue[u] \in Dialogues /\ dialogue[u].conv = "AWAITING_PHONE"
      /\ dialogue[u].fio # Missing
  BY DEF ReceivePhone, InState, AcceptsForm, TypeOK
<1>2. row \in Rows /\ users' = [users EXCEPT ![u] = row]
  BY RowTypes DEF ReceivePhone
<1>3. task' \in Tasks /\ (task'.pc # "idle" => task'.user = u /\ task'.next = "END")
      /\ task'.pc # "reply"
  BY PeopleAssumption DEF ReceivePhone, Tasks, Idle, ConvStates
<1>4. ~row.linked => row.fio # Missing /\ row.email = row.fio
  BY <1>1 DEF Registered, FormInv, Coherent
<1>5. TypeOK'
  BY <1>2, <1>3 DEF ReceivePhone, TypeOK
<1>6. FormInv'
  BY <1>3 DEF ReceivePhone, FormInv, TaskInv
<1>7. RowHoldsOneForm'
  BY <1>2, <1>4 DEF RowHoldsOneForm, TypeOK
<1> QED
  BY <1>5, <1>6, <1>7

LEMMA LeavingKeeps ==
  ASSUME RegInv, NEW u \in Users,
         CancelRegistration(u) \/ EndOrdering(u) \/ Logout(u)
  PROVE  RegInv'
<1> USE DEF RegInv
<1>1. dialogue[u] \in Dialogues /\ Cleared(dialogue[u]) \in Dialogues
  BY DialogueTypes DEF TypeOK
<1>2. Coherent(Cleared(dialogue[u]))
  BY <1>1, CoherentForms
<1>3. [Cleared(dialogue[u]) EXCEPT !.conv = "END", !.linked = FALSE] \in Dialogues
  BY <1>1 DEF Dialogues, ConvStates
<1>4. Coherent([Cleared(dialogue[u]) EXCEPT !.conv = "END", !.linked = FALSE])
  BY <1>1 DEF Coherent, Dialogues
<1>5. LoggedOut(users[u]) \in Rows
  BY RowTypes
<1>6. TypeOK'
  BY <1>1, <1>3, <1>5 DEF CancelRegistration, EndOrdering, Logout, TypeOK
<1>7. FormInv'
  BY <1>2, <1>4
  DEF CancelRegistration, EndOrdering, Logout, FormInv, TaskInv,
      DispatcherFree, Idle, TypeOK
<1>8. RowHoldsOneForm'
  BY DEF CancelRegistration, EndOrdering, Logout, RowHoldsOneForm, LoggedOut,
         TypeOK, Passes, Missing, Blank
<1> QED
  BY <1>6, <1>7, <1>8

\* A handler in the middle of its effects: nothing it has left to do can make a
\* row, and the dialogue it answers with was checked when it was started.
LEMMA TaskKeeps ==
  ASSUME RegInv, TaskStep
  PROVE  RegInv'
<1> USE DEF RegInv
<1>1. ASSUME NEW chat \in Chats, Notify(chat)
      PROVE  RegInv'
  <2>1. task.user \in Users /\ task.next = "END"
    BY <1>1 DEF Notify, FormInv, TaskInv
  <2>2. users[task.user].fio \in Fields /\ users[task.user].email \in Fields
    BY <2>1 DEF TypeOK, Rows
  <2>3. notices' \subseteq Notices
    BY <1>1, <2>1, <2>2 DEF Notify, TypeOK, Notices
  <2>4. task' \in Tasks /\ task'.user = task.user /\ task'.next = task.next
        /\ task'.pc \in {"notify", "clear"}
    BY <1>1 DEF Notify, TypeOK, Tasks
  <2>5. TypeOK'
    BY <1>1, <2>3, <2>4 DEF Notify, TypeOK
  <2>6. FormInv'
    BY <1>1, <2>1, <2>4 DEF Notify, FormInv, TaskInv
  <2>7. RowHoldsOneForm'
    BY <1>1 DEF Notify, RowHoldsOneForm
  <2> QED
    BY <2>5, <2>6, <2>7
<1>2. ASSUME ClearForm
      PROVE  RegInv'
  <2>1. task.user \in Users /\ task.next = "END"
    BY <1>2 DEF ClearForm, FormInv, TaskInv
  <2>2. dialogue[task.user] \in Dialogues
        /\ Cleared(dialogue[task.user]) \in Dialogues
    BY <2>1, DialogueTypes DEF TypeOK
  <2>3. /\ Coherent(Cleared(dialogue[task.user]))
        /\ Coherent(Answered(Cleared(dialogue[task.user]), "END"))
    BY <2>2, CoherentForms
  <2>4. dialogue'[task.user] = Cleared(dialogue[task.user])
    BY <1>2, <2>1 DEF ClearForm, TypeOK
  <2>5. task' = [pc |-> "reply", user |-> task.user, next |-> "END", todo |-> {}]
    BY <1>2, <2>1 DEF ClearForm, Reply
  <2>6. TypeOK'
    BY <1>2, <2>1, <2>2, <2>5 DEF ClearForm, TypeOK, Tasks, ConvStates
  <2>7. FormInv'
    BY <1>2, <2>1, <2>3, <2>4, <2>5 DEF ClearForm, FormInv, TaskInv, TypeOK
  <2>8. RowHoldsOneForm'
    BY <1>2 DEF ClearForm, RowHoldsOneForm
  <2> QED
    BY <2>6, <2>7, <2>8
<1>3. ASSUME SendReply
      PROVE  RegInv'
  <2>1. /\ task.user \in Users
        /\ Coherent(Answered(dialogue[task.user], task.next))
    BY <1>3 DEF SendReply, FormInv, TaskInv
  <2>2. Answered(dialogue[task.user], task.next) \in Dialogues
    BY <2>1, DialogueTypes DEF TypeOK, Tasks
  <2>3. TypeOK'
    BY <1>3, <2>2 DEF SendReply, TypeOK, Tasks, Idle, ConvStates
  <2>4. FormInv'
    BY <1>3, <2>1 DEF SendReply, FormInv, TaskInv, Idle, TypeOK
  <2>5. RowHoldsOneForm'
    BY <1>3 DEF SendReply, RowHoldsOneForm
  <2> QED
    BY <2>3, <2>4, <2>5
<1> QED
  BY <1>1, <1>2, <1>3 DEF TaskStep

\* The staff changes rows only: their status, or the whole of them.
LEMMA StaffKeeps ==
  ASSUME RegInv, AdminPanel
  PROVE  RegInv'
<1> USE DEF RegInv
<1>1. ASSUME NEW n \in notices, NEW verdict \in Verdicts, Decide(n, verdict)
      PROVE  RegInv'
  <2>1. n.user \in Users
    BY DEF TypeOK, Notices
  <2>2. WithStatus(users[n.user], verdict) \in Rows
    BY <2>1, RowTypes DEF Verdicts, Statuses
  <2>3. TypeOK'
    BY <1>1, <2>1, <2>2 DEF Decide, TypeOK
  <2>4. FormInv'
    BY <1>1 DEF Decide, FormInv, TaskInv
  <2>5. RowHoldsOneForm'
    BY <1>1, <2>1 DEF Decide, RowHoldsOneForm, WithStatus, TypeOK, Rows
  <2> QED
    BY <2>3, <2>4, <2>5
<1>2. ASSUME NEW u \in Users, NEW action \in CardActions, UserCard(u, action)
      PROVE  RegInv'
  <2>1. users'[u] \in {WithStatus(users[u], "APPROVED"),
                       WithStatus(users[u], "BLOCKED"),
                       LoggedOut(users[u]), Anonymized(users[u])}
    BY <1>2 DEF UserCard, CardActions, TypeOK
  <2>2. users'[u] \in Rows
    BY <2>1, RowTypes DEF Statuses
  <2>3. TypeOK'
    BY <1>2, <2>2 DEF UserCard, TypeOK
  <2>4. FormInv'
    BY <1>2 DEF UserCard, FormInv, TaskInv
  <2>5. \/ /\ users'[u].fio = users[u].fio /\ users'[u].email = users[u].email
           /\ users'[u].linked = users[u].linked
        \/ users'[u].fio \in {Blank, Deleted}
    <3>1. users[u] \in Rows
      BY DEF TypeOK
    <3>2. \A s : /\ WithStatus(users[u], s).fio = users[u].fio
                 /\ WithStatus(users[u], s).email = users[u].email
                 /\ WithStatus(users[u], s).linked = users[u].linked
      BY <3>1 DEF WithStatus, Rows
    <3>3. LoggedOut(users[u]).fio = Blank /\ Anonymized(users[u]).fio = Deleted
      BY DEF LoggedOut, Anonymized
    <3> QED
      BY <2>1, <3>2, <3>3
  <2>6. \A v \in Users : v # u => users'[v] = users[v]
    BY <1>2 DEF UserCard, TypeOK
  <2>7. Blank \notin Passes \cup {Missing} /\ Deleted \notin Passes \cup {Missing}
    BY DEF Passes, Missing, Blank, Deleted
  <2>8. RowHoldsOneForm'
    BY <2>5, <2>6, <2>7 DEF RowHoldsOneForm
  <2> QED
    BY <2>3, <2>4, <2>8
<1>3. ASSUME ToggleAutoApprove
      PROVE  RegInv'
  BY <1>3
  DEF ToggleAutoApprove, TypeOK, FormInv, TaskInv, RowHoldsOneForm
<1> QED
  BY <1>1, <1>2, <1>3 DEF AdminPanel

\* Flushing copies coherent forms and a crash brings coherent forms back.
LEMMA ProcessKeeps ==
  ASSUME RegInv, Process
  PROVE  RegInv'
<1> USE DEF RegInv
<1>1. Idle \in Tasks
  BY DEF Idle, Tasks, ConvStates
<1>2. CASE Flush
  BY <1>2 DEF Flush, TypeOK, FormInv, TaskInv, RowHoldsOneForm
<1>3. CASE HandlerRaises
  BY <1>1, <1>3, BoundAssumption
  DEF HandlerRaises, TypeOK, FormInv, TaskInv, Idle, RowHoldsOneForm
<1>4. CASE Crash
  BY <1>1, <1>4, BoundAssumption
  DEF Crash, TypeOK, FormInv, TaskInv, Idle, RowHoldsOneForm
<1> QED
  BY <1>2, <1>3, <1>4 DEF Process

LEMMA StepKeeps == RegInv /\ [Next]_vars => RegInv'
<1> SUFFICES ASSUME RegInv, [Next]_vars PROVE RegInv'
  OBVIOUS
<1>1. CASE Next
  BY <1>1, StartKeeps, LinkKeeps, WizardKeeps, FioKeeps, EmailKeeps, PhoneKeeps,
     LeavingKeeps, TaskKeeps, StaffKeeps, ProcessKeeps
  DEF Next, Converse
<1>2. CASE UNCHANGED vars
  BY <1>2 DEF vars, RegInv, TypeOK, FormInv, TaskInv, RowHoldsOneForm
<1> QED
  BY <1>1, <1>2

LEMMA RegInvariant == Spec => []RegInv
BY InitReg, StepKeeps, PTL DEF Spec

\* The dialogues, the rows, the notices and the running handler keep to their
\* types whatever messages, buttons, exceptions and restarts come.
THEOREM TypeCorrect == Spec => []TypeOK
BY RegInvariant, PTL DEF RegInv

\* No row is put together from two passes through the wizard, and none is
\* registered without a name, for any number of passes, users and failures.
THEOREM RowIsOneForm == Spec => []RowHoldsOneForm
BY RegInvariant, PTL DEF RegInv

--------------------------------------------------------------------------------
(* Decisions                                                                *)

\* What DecisionsStand allows a step to do to one user.
Stands(u) ==
  \/ users[u].status \notin Verdicts
  \/ users'[u].status \notin Verdicts
  \/ users'[u].status = users[u].status
  \/ ReceivePhone(u)
  \/ \E action \in CardActions : UserCard(u, action)

\* A step that writes another user's row, or none.
LEMMA OthersStand ==
  ASSUME TypeOK, NEW u \in Users, NEW v \in Users, u # v,
         Converse(v) \/ \E action \in CardActions : UserCard(v, action)
  PROVE  Stands(u)
BY DEF Stands, TypeOK, Converse, Start, FollowProductLink, StartWizard,
       ReceiveFio, ReceiveEmail, ReceivePhone, CancelRegistration, EndOrdering,
       Logout, UserCard

LEMMA StepStands ==
  ASSUME TypeOK, Next, NEW u \in Users
  PROVE  Stands(u)
<1>1. ASSUME NEW v \in Users, Converse(v)
      PROVE  Stands(u)
  <2>1. CASE v # u
    BY <1>1, <2>1, OthersStand
  <2>2. CASE v = u
    <3>1. CASE Start(u)
      BY <3>1 DEF Stands, Start, Exists, Verdicts, TypeOK
    <3>2. CASE ReceivePhone(u)
      BY <3>2 DEF Stands
    <3>3. CASE Logout(u)
      BY <3>3 DEF Stands, Logout, LoggedOut, Verdicts, TypeOK
    <3>4. CASE users' = users
      BY <3>4 DEF Stands
    <3> QED
      BY <1>1, <2>2, <3>1, <3>2, <3>3, <3>4
      DEF Converse, FollowProductLink, StartWizard, ReceiveFio, ReceiveEmail,
          CancelRegistration, EndOrdering
  <2> QED
    BY <2>1, <2>2
<1>2. ASSUME NEW n \in notices, NEW verdict \in Verdicts, Decide(n, verdict)
      PROVE  Stands(u)
  <2>1. CASE AwaitsDecision(users[n.user]) /\ n.user = u
    BY <2>1 DEF Stands, AwaitsDecision, Verdicts
  <2>2. CASE ~(AwaitsDecision(users[n.user]) /\ n.user = u)
    BY <1>2, <2>2 DEF Stands, Decide, TypeOK
  <2> QED
    BY <2>1, <2>2
<1>3. ASSUME NEW v \in Users, NEW action \in CardActions, UserCard(v, action)
      PROVE  Stands(u)
  BY <1>3, OthersStand DEF Stands
<1>4. CASE ToggleAutoApprove \/ TaskStep \/ Process
  BY <1>4
  DEF Stands, ToggleAutoApprove, TaskStep, Notify, ClearForm, SendReply,
      Process, Flush, HandlerRaises, Crash
<1> QED
  BY <1>1, <1>2, <1>3, <1>4 DEF Next, AdminPanel

\* However many admins' chats hold the buttons of an application, and however old
\* they are, pressing them never turns one verdict into the other.
THEOREM VerdictsStand == Spec => DecisionsStand
<1>1. TypeOK /\ [Next]_vars => [\A u \in Users :
         \/ users[u].status \notin Verdicts
         \/ users'[u].status \notin Verdicts
         \/ users'[u].status = users[u].status
         \/ ReceivePhone(u)
         \/ \E action \in CardActions : UserCard(u, action)]_vars
  BY StepStands DEF Stands
<1> QED
  BY <1>1, TypeCorrect, PTL DEF Spec, DecisionsStand

--------------------------------------------------------------------------------
(* Applications                                                             *)

\* What PendingIsAnnounced says of one user.
Awaited(u) ==
  /\ users[u].status = "PENDING" /\ users[u].fio \in Passes
  /\ Readable(users[u]) /\ faults = 0
  => Announced(u) \/ (task.pc = "notify" /\ task.user = u)

\* Only the buttons of a decided application disappear, so that the notice of an
\* undecided one stays while its row does.
LEMMA DecideAwaits ==
  ASSUME TypeOK, NEW u \in Users, Awaited(u),
         NEW n \in notices, NEW verdict \in Verdicts, Decide(n, verdict)
  PROVE  Awaited(u)'
<1>1. CASE n.user = u
  <2>1. users'[u].status # "PENDING"
    BY <1>1 DEF Decide, AwaitsDecision, WithStatus, Verdicts, TypeOK, Rows
  <2> QED
    BY <2>1 DEF Awaited
<1>2. CASE n.user # u
  <2>1. users'[u] = users[u] /\ UNCHANGED <<task, faults>>
    BY <1>2 DEF Decide, TypeOK
  <2>2. Announced(u) => Announced(u)'
    BY <1>2, <2>1 DEF Decide, Announced
  <2> QED
    BY <2>1, <2>2 DEF Awaited
<1> QED
  BY <1>1, <1>2

\* The last notice is sent before the handler goes on to clear the form.
LEMMA NotifyAwaits ==
  ASSUME TypeOK, NEW u \in Users, Awaited(u), NEW chat \in Chats, Notify(chat)
  PROVE  Awaited(u)'
<1>1. users' = users /\ faults' = faults /\ notices \subseteq notices'
  BY DEF Notify
<1>2. CASE task.user = u
  <2> DEFINE n == [chat |-> chat, user |-> u,
                   fio |-> users[u].fio, email |-> users[u].email]
  <2>1. n \in notices'
    BY <1>2 DEF Notify
  <2>2. n.user = u /\ n.fio = users[u].fio /\ n.email = users[u].email
    OBVIOUS
  <2>3. Announced(u)'
    BY <1>1, <2>1, <2>2 DEF Announced
  <2> QED
    BY <2>3 DEF Awaited
<1>3. CASE task.user # u
  BY <1>1, <1>3 DEF Awaited, Announced
<1> QED
  BY <1>2, <1>3

\* A written row is announced by the handler that wrote it; a log-out, a card and
\* an invented owner's row leave nothing to announce.
LEMMA StepAwaits ==
  ASSUME TypeOK, Next, NEW u \in Users, Awaited(u)
  PROVE  Awaited(u)'
<1>1. ASSUME NEW v \in Users, Converse(v)
      PROVE  Awaited(u)'
  <2>1. task = Idle /\ faults' = faults /\ notices' = notices
    BY <1>1
    DEF Converse, Start, FollowProductLink, StartWizard, ReceiveFio,
        ReceiveEmail, ReceivePhone, CancelRegistration, EndOrdering, Logout,
        InState, DispatcherFree
  <2>2. task.pc # "notify"
    BY <2>1 DEF Idle
  <2>3. CASE users'[u] = users[u]
    BY <2>1, <2>2, <2>3 DEF Awaited, Announced
  <2>4. CASE users'[u] # users[u]
    <3>1. v = u /\ (Start(u) \/ ReceivePhone(u) \/ Logout(u))
      BY <1>1, <2>4
      DEF Converse, Start, FollowProductLink, StartWizard, ReceiveFio,
          ReceiveEmail, ReceivePhone, CancelRegistration, EndOrdering, Logout,
          TypeOK
    <3>2. CASE Start(u)
      BY <2>4, <3>2 DEF Start, OwnerRow, Awaited, TypeOK
    <3>3. CASE ReceivePhone(u)
      BY <3>3 DEF ReceivePhone, NeedsNotice, Awaited, TypeOK
    <3>4. CASE Logout(u)
      BY <3>4 DEF Logout, LoggedOut, Awaited, TypeOK, Passes, Blank
    <3> QED
      BY <3>1, <3>2, <3>3, <3>4
  <2> QED
    BY <2>3, <2>4
<1>2. CASE \E n \in notices, verdict \in Verdicts : Decide(n, verdict)
  BY <1>2, DecideAwaits
<1>3. ASSUME NEW v \in Users, NEW action \in CardActions, UserCard(v, action)
      PROVE  Awaited(u)'
  <2>1. UNCHANGED <<task, faults, notices>> /\ users' \in [Users -> Rows]
    BY <1>3, RowTypes DEF UserCard, CardActions, TypeOK, Statuses
  <2>2. CASE users'[u] = users[u]
    BY <2>1, <2>2 DEF Awaited, Announced
  <2>3. CASE users'[u] # users[u]
    <3>1. /\ users[u] \in Rows
          /\ users'[u] \in {WithStatus(users[u], "APPROVED"),
                            WithStatus(users[u], "BLOCKED"),
                            LoggedOut(users[u]), Anonymized(users[u])}
      BY <1>3, <2>3 DEF UserCard, CardActions, TypeOK
    <3>2. users'[u].status # "PENDING" \/ users'[u].fio = Blank
      BY <3>1 DEF WithStatus, LoggedOut, Anonymized, Rows
    <3> QED
      BY <3>2 DEF Awaited, Passes, Blank
  <2> QED
    BY <2>2, <2>3
<1>4. CASE \E chat \in Chats : Notify(chat)
  BY <1>4, NotifyAwaits
<1>5. CASE ToggleAutoApprove \/ ClearForm \/ SendReply \/ Flush
  <2>1. UNCHANGED <<users, notices, faults>> /\ (task.pc # "notify" \/ task' = task)
    BY <1>5 DEF ToggleAutoApprove, ClearForm, SendReply, Flush, DispatcherFree
  <2> QED
    BY <2>1 DEF Awaited, Announced
<1>6. CASE HandlerRaises \/ Crash
  BY <1>6 DEF HandlerRaises, Crash, Awaited, TypeOK
<1> QED
  BY <1>1, <1>2, <1>3, <1>4, <1>5, <1>6
  DEF Next, AdminPanel, TaskStep, Process

\* While no call has failed, every waiting applicant's latest data is in an
\* admin's chat with its buttons, or the handler that sends it is running.
THEOREM ApplicationsAnnounced == Spec => []PendingIsAnnounced
<1>1. Init => PendingIsAnnounced
  BY DEF Init, PendingIsAnnounced, NoRow
<1>2. TypeOK /\ PendingIsAnnounced /\ [Next]_vars => PendingIsAnnounced'
  <2> SUFFICES ASSUME TypeOK, PendingIsAnnounced, [Next]_vars
               PROVE  PendingIsAnnounced'
    OBVIOUS
  <2>1. CASE Next
    BY <2>1, StepAwaits DEF PendingIsAnnounced, Awaited
  <2>2. CASE UNCHANGED vars
    BY <2>2 DEF vars, PendingIsAnnounced, Announced
  <2> QED
    BY <2>1, <2>2
<1> QED
  BY <1>1, <1>2, TypeCorrect, PTL DEF Spec

--------------------------------------------------------------------------------
(* The length of a handler                                                  *)

\* How far a handler is from its end: the steps behind the one it is at, and
\* the chats it has still to tell.
StepsAfter(pc) ==
  CASE pc = "notify" -> 3 [] pc = "clear" -> 2 [] pc = "reply" -> 1 [] OTHER -> 0

NearerEnd(t, s) ==
  \/ StepsAfter(t.pc) < StepsAfter(s.pc)
  \/ t.pc = s.pc /\ t.todo \subseteq s.todo /\ t.todo # s.todo

LEMMA StepIsNearer ==
  ASSUME task \in Tasks, TaskStep PROVE NearerEnd(task', task)
<1>1. ASSUME NEW chat \in Chats, Notify(chat) PROVE NearerEnd(task', task)
  <2>1. task.pc = "notify" /\ chat \in task.todo
    BY <1>1 DEF Notify
  <2>2. /\ task'.pc = IF task.todo = {chat} THEN "clear" ELSE "notify"
        /\ task'.todo = task.todo \ {chat}
    BY <1>1 DEF Notify, Tasks
  <2>3. CASE task.todo = {chat}
    BY <2>1, <2>2, <2>3 DEF NearerEnd, StepsAfter
  <2>4. CASE task.todo # {chat}
    BY <2>1, <2>2, <2>4 DEF NearerEnd
  <2> QED
    BY <2>3, <2>4
<1>2. ASSUME ClearForm PROVE NearerEnd(task', task)
  BY <1>2 DEF ClearForm, Reply, NearerEnd, StepsAfter
<1>3. ASSUME SendReply PROVE NearerEnd(task', task)
  BY <1>3 DEF SendReply, Idle, NearerEnd, StepsAfter
<1> QED
  BY <1>1, <1>2, <1>3 DEF TaskStep

LEMMA OthersWait ==
  ASSUME task # Idle, [Next]_vars, ~TaskStep PROVE task' = task \/ task' = Idle
<1>1. ASSUME NEW u \in Users, Converse(u) PROVE FALSE
  BY <1>1 DEF Converse, Start, FollowProductLink, StartWizard, ReceiveFio, ReceiveEmail,
       ReceivePhone, CancelRegistration, EndOrdering, Logout, InState, DispatcherFree
<1>2. ASSUME AdminPanel PROVE FALSE
  BY <1>2 DEF AdminPanel, Decide, UserCard, ToggleAutoApprove, DispatcherFree
<1>3. ASSUME Process PROVE task' = task \/ task' = Idle
  BY <1>3 DEF Process, Flush, HandlerRaises, Crash
<1>4. CASE UNCHANGED vars
  BY <1>4 DEF vars
<1> QED
  BY <1>1, <1>2, <1>3, <1>4 DEF Next

\* Each step of a handler, the telling of one chat among them, brings it nearer
\* to its end; whatever else happens ends it or leaves it where it was.
THEOREM HandlerWindsDown ==
  Spec => [][task # Idle =>
               IF TaskStep THEN NearerEnd(task', task)
                           ELSE task' = task \/ task' = Idle]_vars
<1>1. TypeOK /\ [Next]_vars
      => (task # Idle => IF TaskStep THEN NearerEnd(task', task)
                                     ELSE task' = task \/ task' = Idle)
  BY StepIsNearer, OthersWait DEF TypeOK
<1> QED
  BY <1>1, TypeCorrect, PTL DEF Spec

================================================================================
