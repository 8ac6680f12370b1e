------------------------- MODULE SupportThreads_proofs -------------------------
(***************************************************************************)
(* What holds of SupportThreads for any number of orders, staff, texts and *)
(* replies: the types, that a text is stored once, and when a read thread  *)
(* was drawn.                                                              *)
(***************************************************************************)
EXTENDS SupportThreads, TLAPS

USE SupportAssumption

\* What is stored or waits in the router was typed.
OnlyTyped ==
  /\ \A o \in Purchases : texts[o] \subseteq 1 .. typed
  /\ customer.pending \in 0 .. typed

\* The inductive invariant.
SupportInv == SupportTypeOK /\ OnlyTyped /\ StoredOnce /\ ReadMeansDrawn

\* What is inductive of the texts.
Shelf == OnlyTyped /\ StoredOnce

Customers == [approved : BOOLEAN, stage : {"idle", "writing"}, order : Purchases \cup {Nowhere},
              pending : 0 .. MaxTexts, length : Lengths \cup {0}]

\* The customer with another conversation, text in the router or status.
LEMMA CustomerFields ==
  ASSUME customer \in Customers, NEW approved \in BOOLEAN, NEW stage \in {"idle", "writing"},
         NEW order \in Purchases \cup {Nowhere}, NEW pending \in 0 .. MaxTexts,
         NEW length \in Lengths \cup {0}
  PROVE  /\ [customer EXCEPT !.approved = approved] \in Customers
         /\ [customer EXCEPT !.order = order] \in Customers
         /\ [customer EXCEPT !.stage = stage, !.order = order] \in Customers
         /\ [customer EXCEPT !.pending = pending, !.length = length] \in Customers
  BY DEF Customers

\* The conversation is over, or the router is empty.
LEMMA CustomerEmptied ==
  ASSUME customer \in Customers
  PROVE  /\ WithoutPending \in Customers /\ WithoutPending.pending = NoText
         /\ Hangup \in Customers /\ Hangup.pending = customer.pending
         /\ \A approved \in BOOLEAN : Forget(approved) =>
              customer' \in Customers /\ customer'.pending = NoText
<1>1. NoText \in 0 .. MaxTexts /\ 0 \in Lengths \cup {0} /\ Nowhere \in Purchases \cup {Nowhere}
  BY DEF NoText
<1>2. WithoutPending \in Customers
  BY <1>1, CustomerFields DEF WithoutPending
<1>3. Hangup \in Customers
  BY <1>1, CustomerFields DEF Hangup
<1>4. DOMAIN customer = {"approved", "stage", "order", "pending", "length"}
  BY DEF Customers
<1>5. WithoutPending.pending = NoText /\ Hangup.pending = customer.pending
  BY <1>4 DEF WithoutPending, Hangup
<1>6. ASSUME NEW approved \in BOOLEAN, Forget(approved)
      PROVE  customer' \in Customers /\ customer'.pending = NoText
  <2>1. customer' = [WithoutPending EXCEPT !.approved = approved, !.order = Nowhere]
    BY <1>6 DEF Forget
  <2>2. customer' \in Customers
    BY <1>1, <1>2, <2>1 DEF Customers
  <2>3. DOMAIN WithoutPending = {"approved", "stage", "order", "pending", "length"}
    BY <1>2 DEF Customers
  <2> QED
    BY <1>5, <2>1, <2>2, <2>3
<1> QED
  BY <1>2, <1>3, <1>5, <1>6

\* The table of threads and the texts have their types.
Tables ==
  /\ DOMAIN threads \subseteq Purchases /\ \A o \in DOMAIN threads : threads[o] \in BOOLEAN
  /\ orphaned \in BOOLEAN
  /\ texts \in [Purchases -> SUBSET (1 .. MaxTexts)] /\ tail \in [Purchases -> Nat]
  /\ cleared \subseteq DOMAIN threads /\ unseen \subseteq DOMAIN threads

\* A text that is new to the tables is stored in one place, and its thread is
\* unread.
LEMMA AddTables ==
  ASSUME SupportInv, NEW o \in Purchases, NEW text \in 1 .. MaxTexts, text \notin Stored,
         NEW length \in Lengths \cup {0}, AddMessage(o, text, length), UNCHANGED refused
  PROVE  /\ Tables' /\ ReadMeansDrawn' /\ DOMAIN threads \subseteq DOMAIN threads'
         /\ \A p \in Purchases : texts'[p] = IF p = o THEN texts[p] \cup {text} ELSE texts[p]
         /\ \A p, q \in Purchases : p # q => texts'[p] \cap texts'[q] = {}
<1> USE DEF SupportInv, SupportTypeOK
<1>1. /\ threads' = WithThread(o, FALSE) /\ unseen' = unseen \cup {o}
      /\ cleared' = cleared \ {o} /\ orphaned' = orphaned
  BY DEF AddMessage
<1>2. DOMAIN threads' = DOMAIN threads \cup {o} /\ threads'[o] = FALSE
      /\ \A t \in DOMAIN threads : t # o => threads'[t] = threads[t]
  BY <1>1 DEF WithThread
<1>3. texts' \in [Purchases -> SUBSET (1 .. MaxTexts)]
      /\ \A p \in Purchases : texts'[p] = IF p = o THEN texts[p] \cup {text} ELSE texts[p]
  BY DEF AddMessage
<1>4. tail' \in [Purchases -> Nat] /\ \A p \in Purchases : p # o => tail'[p] = tail[p]
  BY DEF AddMessage
<1>5. Tables'
  BY <1>1, <1>2, <1>3, <1>4 DEF Tables
<1>6. ReadMeansDrawn'
  <2>1. ASSUME NEW t \in ReadUnseen' PROVE t \in ReadUnseen /\ t # o
    BY <1>1, <1>2, <2>1 DEF ReadUnseen
  <2> QED
    BY <1>1, <1>4, <2>1 DEF ReadMeansDrawn, ReadUnseen
<1>7. \A p \in Purchases : text \notin texts[p]
  BY DEF Stored
<1>8. \A p, q \in Purchases : p # q => texts'[p] \cap texts'[q] = {}
  BY <1>3, <1>7 DEF StoredOnce
<1> QED
  BY <1>2, <1>3, <1>5, <1>6, <1>8

\* A failure leaves at most an empty thread, of an order or of none.
LEMMA FailTables ==
  ASSUME SupportInv, UNCHANGED refused, Consult \/ \E o \in Purchases : AddFails(o)
  PROVE  /\ Tables' /\ ReadMeansDrawn' /\ DOMAIN threads \subseteq DOMAIN threads'
         /\ texts' = texts
<1> USE DEF SupportInv, SupportTypeOK
<1>1. /\ texts' = texts /\ unseen' = unseen /\ tail' = tail /\ cleared' = cleared
      /\ orphaned' \in BOOLEAN
  BY DEF AddFails, Consult
<1>2. CASE threads' = threads
  BY <1>1, <1>2 DEF Tables, ReadMeansDrawn, ReadUnseen
<1>3. CASE \E o \in Purchases : threads' = WithThread(o, MarkOf(o))
  <2>1. PICK o \in Purchases : threads' = WithThread(o, MarkOf(o))
    BY <1>3
  <2>2. DOMAIN threads' = DOMAIN threads \cup {o}
        /\ \A t \in DOMAIN threads : threads'[t] = threads[t]
    BY <2>1 DEF WithThread, MarkOf
  <2>3. o \notin DOMAIN threads => threads'[o] = TRUE
    BY <2>1 DEF WithThread, MarkOf
  <2> QED
    BY <1>1, <2>2, <2>3 DEF Tables, ReadMeansDrawn, ReadUnseen
<1> QED
  BY <1>2, <1>3 DEF AddFails, Consult

\* The invariant from the tables, when the staff's side stays.
LEMMA Assemble ==
  ASSUME SupportInv, UNCHANGED staffVars,
         Tables', ReadMeansDrawn', DOMAIN threads \subseteq DOMAIN threads',
         typed' \in 0 .. MaxTexts, customer' \in Customers, Shelf'
  PROVE  SupportInv'
<1> USE DEF SupportInv, SupportTypeOK
<1>1. /\ listed' \subseteq DOMAIN threads' /\ refused' \subseteq DOMAIN threads'
      /\ replying' \in [Staff -> DOMAIN threads' \cup {Nowhere, Forgotten}]
      /\ replies' \in 0 .. MaxReplies
  BY DEF staffVars
<1> QED
  BY <1>1 DEF Tables, Customers, Shelf

LEMMA RouteTextInv ==
  ASSUME SupportInv, NEW length \in Lengths, RouteText(length) PROVE SupportInv'
<1> USE DEF SupportInv, SupportTypeOK
<1>1. typed' = typed + 1 /\ typed' \in 1 .. MaxTexts
      /\ customer' = [customer EXCEPT !.pending = typed + 1, !.length = length]
      /\ UNCHANGED <<threadVars, staffVars>>
  BY DEF RouteText
<1>2. customer' \in Customers /\ customer'.pending = typed'
  <2>1. customer \in Customers
    BY DEF Customers
  <2>2. customer' \in Customers
    <3>1. typed + 1 \in 0 .. MaxTexts /\ length \in Lengths \cup {0}
      BY <1>1
    <3>2. [customer EXCEPT !.pending = typed + 1, !.length = length] \in Customers
      BY <2>1, <3>1, CustomerFields
    <3> QED
      BY <1>1, <3>2
  <2>3. DOMAIN customer = {"approved", "stage", "order", "pending", "length"}
    BY <2>1 DEF Customers
  <2> QED
    BY <1>1, <2>2, <2>3
<1>3. typed' \notin Stored' /\ texts' = texts
  BY <1>1 DEF OnlyTyped, Stored, threadVars
<1>4. Shelf'
  BY <1>1, <1>2, <1>3 DEF Shelf, OnlyTyped, StoredOnce
<1>5. Tables' /\ ReadMeansDrawn' /\ threads' = threads
  BY <1>1 DEF threadVars, staffVars, Tables, ReadMeansDrawn, ReadUnseen
<1> QED
  BY <1>1, <1>2, <1>4, <1>5, Assemble

\* Nothing is stored: a text leaves the router, a conversation begins or ends.
LEMMA ConversationInv ==
  ASSUME SupportInv, UNCHANGED <<typed, staffVars>>, texts' = texts,
         Tables', ReadMeansDrawn', DOMAIN threads \subseteq DOMAIN threads',
         customer' \in Customers, customer'.pending \in {customer.pending, NoText}
  PROVE  SupportInv'
<1> USE DEF SupportInv, SupportTypeOK
<1>1. NoText \notin Stored
  BY DEF NoText, Stored
<1>2. Shelf'
  BY <1>1 DEF Shelf, OnlyTyped, StoredOnce, Stored, NoText
<1> QED
  BY <1>2, Assemble

LEMMA TablesStay ==
  ASSUME SupportInv, UNCHANGED <<threadVars, staffVars>>
  PROVE  /\ Tables' /\ ReadMeansDrawn' /\ DOMAIN threads \subseteq DOMAIN threads'
         /\ texts' = texts
  BY DEF SupportInv, SupportTypeOK, threadVars, staffVars, Tables, ReadMeansDrawn, ReadUnseen

LEMMA RouteToOrderInv == ASSUME SupportInv, NEW o \in Purchases, RouteToOrder(o) PROVE SupportInv'
<1> USE DEF SupportInv, SupportTypeOK
<1>1. customer \in Customers
  BY DEF Customers
<1>2. CASE customer.pending = NoText
  <2>1. customer' = [customer EXCEPT !.order = o] /\ UNCHANGED <<typed, threadVars, staffVars>>
    BY <1>2 DEF RouteToOrder
  <2>2. customer' \in Customers /\ customer'.pending = customer.pending
    BY <1>1, <2>1 DEF Customers
  <2> QED
    BY <2>1, <2>2, TablesStay, ConversationInv
<1>3. CASE customer.pending # NoText
  <2> DEFINE text == customer.pending
             length == customer.length
  <2>1. text \in 1 .. MaxTexts /\ text \notin Stored /\ length \in Lengths \cup {0}
    BY <1>1, <1>3 DEF Customers, NoText, StoredOnce
  <2>2. customer' = WithoutPending
        /\ UNCHANGED <<typed, staffVars>>
        /\ (AddMessage(o, text, length) \/ AddFails(o))
    BY <1>3 DEF RouteToOrder
  <2>3. customer' \in Customers /\ customer'.pending = 0
    BY <1>1, <2>2, CustomerEmptied DEF NoText
  <2>4. refused' = refused
    BY <2>2 DEF staffVars
  <2> HIDE DEF text, length
  <2>5. CASE AddMessage(o, text, length)
    <3>1. /\ Tables' /\ ReadMeansDrawn' /\ DOMAIN threads \subseteq DOMAIN threads'
          /\ \A p \in Purchases : texts'[p] = IF p = o THEN texts[p] \cup {text} ELSE texts[p]
          /\ \A p, q \in Purchases : p # q => texts'[p] \cap texts'[q] = {}
      BY <2>1, <2>4, <2>5, AddTables
    <3>2. text \in 1 .. typed
      BY <1>1, <1>3 DEF text, OnlyTyped, Customers, NoText
    <3>3. \A p \in Purchases : texts'[p] \subseteq 1 .. typed
      BY <3>1, <3>2 DEF OnlyTyped
    <3>4. Shelf'
      BY <2>2, <2>3, <3>1, <3>3 DEF Shelf, OnlyTyped, StoredOnce, Stored, Tables
    <3> QED
      BY <2>2, <2>3, <3>1, <3>4, Assemble
  <2>6. CASE AddFails(o)
    BY <2>2, <2>3, <2>4, <2>6, FailTables, ConversationInv DEF NoText
  <2> QED
    BY <2>2, <2>5, <2>6
<1> QED
  BY <1>2, <1>3

LEMMA HandleInv ==
  ASSUME SupportInv, NEW length \in Lengths, HandleUserMessage(length) PROVE SupportInv'
<1> USE DEF SupportInv, SupportTypeOK
<1> DEFINE text == typed + 1
           o == customer.order
<1>1. customer \in Customers
  BY DEF Customers
<1>2. /\ text \in 1 .. MaxTexts /\ typed' = text /\ text \notin Stored /\ typed \in Nat
      /\ UNCHANGED staffVars /\ refused' = refused
  BY DEF HandleUserMessage, OnlyTyped, Stored, staffVars
<1> HIDE DEF text, o
<1>3. \A p \in Purchases : texts[p] \subseteq 1 .. text
  <2>1. 1 .. typed \subseteq 1 .. text
    BY <1>2 DEF text
  <2> QED
    BY <2>1 DEF OnlyTyped
<1>4. customer.pending \in 0 .. text /\ customer.pending # text
  <2>1. customer.pending \in 0 .. typed
    BY DEF OnlyTyped
  <2> QED
    BY <1>2, <2>1 DEF text
<1>5. CASE /\ o # Nowhere /\ AddMessage(o, text, length) /\ customer' = Hangup
  <2>1. o \in Purchases
    BY <1>1, <1>5 DEF Customers, o
  <2>2. customer' \in Customers /\ customer'.pending = customer.pending
    BY <1>1, <1>5, CustomerEmptied
  <2>3. /\ Tables' /\ ReadMeansDrawn' /\ DOMAIN threads \subseteq DOMAIN threads'
        /\ \A p \in Purchases : texts'[p] = IF p = o THEN texts[p] \cup {text} ELSE texts[p]
        /\ \A p, q \in Purchases : p # q => texts'[p] \cap texts'[q] = {}
    BY <1>2, <1>5, <2>1, AddTables
  <2>4. \A p \in Purchases : texts'[p] \subseteq 1 .. typed'
    <3>1. text \in 1 .. text
      BY <1>2
    <3>2. ASSUME NEW p \in Purchases PROVE texts'[p] \subseteq 1 .. text
      <4>1. texts'[p] = IF p = o THEN texts[p] \cup {text} ELSE texts[p]
        BY <2>3
      <4>2. texts[p] \subseteq 1 .. text
        BY <1>3
      <4> QED
        BY <3>1, <4>1, <4>2
    <3> QED
      BY <1>2, <3>2
  <2>5. \A p \in Purchases : customer.pending \notin texts'[p]
    <3>1. \A p \in Purchases : customer.pending \notin texts[p]
      BY DEF StoredOnce, Stored
    <3>2. ASSUME NEW p \in Purchases PROVE customer.pending \notin texts'[p]
      <4>1. texts'[p] = IF p = o THEN texts[p] \cup {text} ELSE texts[p]
        BY <2>3
      <4> QED
        BY <1>4, <3>1, <4>1
    <3> QED
      BY <3>2
  <2>6. Shelf'
    BY <1>2, <1>4, <2>2, <2>3, <2>4, <2>5 DEF Shelf, OnlyTyped, StoredOnce, Stored
  <2> QED
    BY <1>2, <2>2, <2>3, <2>6, Assemble
<1>6. ASSUME customer' = customer, Consult \/ \E p \in Purchases : AddFails(p)
      PROVE  SupportInv'
  <2>1. /\ Tables' /\ ReadMeansDrawn' /\ DOMAIN threads \subseteq DOMAIN threads'
        /\ texts' = texts
    BY <1>2, <1>6, FailTables
  <2>2. Shelf'
    BY <1>2, <1>3, <1>4, <1>6, <2>1 DEF Shelf, OnlyTyped, StoredOnce, Stored
  <2> QED
    BY <1>1, <1>2, <1>6, <2>1, <2>2, Assemble
<1> QED
  <2>1. o \in Purchases \/ o = Nowhere
    BY <1>1 DEF Customers, o
  <2> QED
    <3>1. \/ o # Nowhere /\ AddMessage(o, text, length) /\ customer' = Hangup
          \/ o # Nowhere /\ AddFails(o) /\ customer' = customer
          \/ Consult /\ customer' = customer
      <4> USE DEF text, o
      <4>1. CASE /\ customer.order # Nowhere
                 /\ AddMessage(customer.order, typed + 1, length)
                 /\ customer' = Hangup
        BY <4>1
      <4>2. CASE customer.order # Nowhere /\ AddFails(customer.order) /\ customer' = customer
        BY <4>2
      <4>3. CASE Consult /\ customer' = customer
        BY <4>3
      <4> QED
        BY <4>1, <4>2, <4>3 DEF HandleUserMessage
    <3>2. CASE o # Nowhere /\ AddMessage(o, text, length) /\ customer' = Hangup
      BY <1>5, <3>2
    <3>3. CASE o # Nowhere /\ AddFails(o) /\ customer' = customer
      BY <1>6, <2>1, <3>3
    <3>4. CASE Consult /\ customer' = customer
      BY <1>6, <3>4
    <3> QED
      BY <3>1, <3>2, <3>3, <3>4

\* The other steps of the customer store nothing.
LEMMA CustomerInv == ASSUME SupportInv, CustomerNext PROVE SupportInv'
<1>1. customer \in Customers
  BY DEF SupportInv, SupportTypeOK, Customers
<1>2. WithoutPending \in Customers /\ WithoutPending.pending = NoText
      /\ Hangup \in Customers /\ Hangup.pending = customer.pending
  BY <1>1, CustomerEmptied
<1>3. ASSUME NEW approved \in BOOLEAN, Forget(approved)
      PROVE  customer' \in Customers /\ customer'.pending = NoText
  BY <1>1, <1>3, CustomerEmptied
<1>4. ASSUME UNCHANGED <<typed, threadVars, staffVars>>,
             customer' \in Customers, customer'.pending \in {customer.pending, NoText}
      PROVE  SupportInv'
  BY <1>4, TablesStay, ConversationInv
<1>5. CASE AskAi \/ CancelUserMessage
  BY <1>2, <1>4, <1>5 DEF AskAi, CancelUserMessage
<1>6. CASE DoneCustomer \/ RegisterAgain
  <2>1. customer.approved \in BOOLEAN
    BY <1>1 DEF Customers
  <2> QED
    BY <1>3, <1>4, <1>6, <2>1 DEF DoneCustomer, RegisterAgain
<1>7. ASSUME NEW o \in Purchases, PromptForMessage(o) PROVE SupportInv'
  <2>1. customer' \in Customers /\ customer'.pending = customer.pending
    BY <1>1, <1>7 DEF PromptForMessage, Customers
  <2> QED
    BY <1>4, <1>7, <2>1 DEF PromptForMessage
<1>8. CASE RouteToConsultation
  <2>1. CASE customer.pending = NoText
    <3>1. customer' = [customer EXCEPT !.order = Nowhere] /\ UNCHANGED <<typed, threadVars, staffVars>>
      BY <1>8, <2>1 DEF RouteToConsultation
    <3>2. customer' \in Customers /\ customer'.pending = customer.pending
      BY <1>1, <3>1 DEF Customers
    <3> QED
      BY <1>4, <3>1, <3>2
  <2>2. CASE customer.pending # NoText
    <3>1. customer' = WithoutPending /\ Consult /\ UNCHANGED <<typed, staffVars>>
      BY <1>8, <2>2 DEF RouteToConsultation
    <3>2. refused' = refused
      BY <3>1 DEF staffVars
    <3> QED
      BY <1>2, <3>1, <3>2, FailTables, ConversationInv
  <2> QED
    BY <2>1, <2>2
<1>9. ASSUME NEW clearsData \in BOOLEAN, LogoutAction(clearsData) PROVE SupportInv'
  <2> USE DEF SupportInv, SupportTypeOK
  <2>1. /\ UNCHANGED <<typed, threads, orphaned, texts, tail, unseen, staffVars>>
        /\ cleared' \subseteq DOMAIN threads /\ cleared \subseteq cleared' /\ refused' = refused
    BY <1>9 DEF LogoutAction, staffVars
  <2>2. Tables' /\ ReadMeansDrawn'
    BY <2>1 DEF Tables, ReadMeansDrawn, ReadUnseen
  <2> QED
    BY <1>3, <1>9, <2>1, <2>2, ConversationInv DEF LogoutAction
<1> QED
  BY <1>5, <1>6, <1>7, <1>8, <1>9, RouteTextInv, HandleInv, RouteToOrderInv DEF CustomerNext

\* A thread is drawn and marked read, or only marked.
LEMMA MarkInv ==
  ASSUME SupportInv, UNCHANGED <<typed, customer, listed>>, NEW o \in DOMAIN threads,
         NEW reply \in Nat, Render(o, reply) \/ RenderRaises(o, reply),
         replying' \in [Staff -> DOMAIN threads \cup {Nowhere, Forgotten}],
         replies' \in 0 .. MaxReplies
  PROVE  SupportInv'
<1> USE DEF SupportInv, SupportTypeOK
<1>1. DOMAIN threads' = DOMAIN threads /\ threads'[o] = TRUE
      /\ \A t \in DOMAIN threads : t # o => threads'[t] = threads[t]
  BY DEF WithThread, Render, RenderRaises
<1>2. /\ tail' \in [Purchases -> Nat] /\ tail'[o] = tail[o] + reply
      /\ \A t \in Purchases : t # o => tail'[t] = tail[t]
      /\ UNCHANGED <<orphaned, texts, cleared>> /\ unseen' \subseteq unseen
      /\ \A t \in DOMAIN threads : t # o => (t \in refused' <=> t \in refused)
      /\ refused' \subseteq DOMAIN threads
  <2>1. tail' = [tail EXCEPT ![o] = @ + reply] /\ UNCHANGED <<orphaned, texts, cleared>>
    BY DEF Render, RenderRaises
  <2>2. o \in Purchases /\ tail[o] + reply \in Nat
    OBVIOUS
  <2>3. /\ tail' \in [Purchases -> Nat] /\ tail'[o] = tail[o] + reply
        /\ \A t \in Purchases : t # o => tail'[t] = tail[t]
    BY <2>1, <2>2
  <2>4. unseen' \subseteq unseen /\ refused' \in {refused \ {o}, refused \cup {o}}
    BY DEF Render, RenderRaises
  <2> QED
    BY <2>1, <2>3, <2>4
<1>3. SupportTypeOK'
  BY <1>1, <1>2
<1>4. o \in ReadUnseen' => o \in refused' \/ o \in cleared' \/ tail'[o] > PageLength
  <2>1. CASE RenderRaises(o, reply)
    BY <2>1 DEF RenderRaises
  <2>2. CASE Render(o, reply)
    <3>1. o \in unseen' => ~OnFirstPage(o, tail[o] + reply)
      BY <2>2 DEF Render
    <3>2. tail[o] + reply \in Nat /\ PageLength \in Nat
      OBVIOUS
    <3> QED
      BY <1>2, <3>1, <3>2 DEF OnFirstPage, ReadUnseen
  <2> QED
    BY <2>1, <2>2
<1>5. ReadMeansDrawn'
  <2>1. ASSUME NEW t \in ReadUnseen', t # o PROVE t \in refused' \/ t \in cleared' \/ tail'[t] > PageLength
    BY <1>1, <1>2, <2>1 DEF ReadUnseen, ReadMeansDrawn
  <2> QED
    BY <1>4, <2>1 DEF ReadMeansDrawn
<1> QED
  BY <1>2, <1>3, <1>5 DEF OnlyTyped, StoredOnce, Stored

LEMMA StaffInv == ASSUME SupportInv, StaffNext PROVE SupportInv'
<1> USE DEF SupportInv, SupportTypeOK
<1>1. CASE ShowCommunicationCenter
  BY <1>1 DEF ShowCommunicationCenter, threadVars, OnlyTyped, StoredOnce, Stored,
              ReadMeansDrawn, ReadUnseen
<1>2. ASSUME NEW o \in Purchases, ShowThread(o) PROVE SupportInv'
  <2>1. o \in DOMAIN threads /\ replying' \in [Staff -> DOMAIN threads \cup {Nowhere, Forgotten}]
        /\ replies' \in 0 .. MaxReplies
    BY <1>2 DEF ShowThread
  <2> QED
    BY <1>2, <2>1, MarkInv DEF ShowThread
<1>3. ASSUME NEW o \in Purchases, TurnPage(o) PROVE SupportInv'
  BY <1>3 DEF TurnPage, staffVars, OnlyTyped, StoredOnce, Stored, ReadMeansDrawn, ReadUnseen
<1>4. ASSUME NEW s \in Staff, \/ \E o \in Purchases : PromptForReply(s, o)
                              \/ ForgetReply(s) \/ ReplyToNothing(s)
      PROVE  SupportInv'
  <2>1. replying' \in [Staff -> DOMAIN threads \cup {Nowhere, Forgotten}]
        /\ UNCHANGED <<threadVars, typed, customer, listed, replies, refused>>
    BY <1>4 DEF PromptForReply, ForgetReply, ReplyToNothing
  <2> QED
    BY <2>1 DEF threadVars, OnlyTyped, StoredOnce, Stored, ReadMeansDrawn, ReadUnseen
<1>5. ASSUME NEW s \in Staff, NEW length \in Lengths,
             StaffReply(s, length) \/ StaffReplyRaises(s, length)
      PROVE  SupportInv'
  <2>1. replying[s] \in DOMAIN threads /\ replies' \in 0 .. MaxReplies
        /\ replying' \in [Staff -> DOMAIN threads \cup {Nowhere, Forgotten}]
    BY <1>5 DEF StaffReply, StaffReplyRaises
  <2> QED
    BY <1>5, <2>1, MarkInv DEF StaffReply, StaffReplyRaises
<1> QED
  BY <1>1, <1>2, <1>3, <1>4, <1>5 DEF StaffNext

LEMMA SupportInvariant == SupportSpec => []SupportInv
<1>1. SupportInit => SupportInv
  <2> SUFFICES ASSUME SupportInit PROVE SupportInv
    OBVIOUS
  <2> USE DEF SupportInit
  <2>1. customer \in Customers
    BY DEF Customers, NoText
  <2>2. DOMAIN threads = {} /\ 0 \in 0 .. MaxTexts /\ 0 \in 0 .. MaxReplies
    OBVIOUS
  <2>3. SupportTypeOK
    BY <2>1, <2>2 DEF SupportTypeOK, Customers
  <2>4. OnlyTyped /\ StoredOnce /\ ReadMeansDrawn
    BY DEF OnlyTyped, StoredOnce, Stored, ReadMeansDrawn, ReadUnseen, NoText
  <2> QED
    BY <2>3, <2>4 DEF SupportInv
<1>2. ASSUME SupportInv, [SupportNext]_supportVars PROVE SupportInv'
  <2>1. CASE RestartSupport
    BY <1>2, <2>1 DEF RestartSupport, threadVars, SupportInv, SupportTypeOK, OnlyTyped,
                      StoredOnce, Stored, ReadMeansDrawn, ReadUnseen
  <2>2. CASE UNCHANGED supportVars
    BY <1>2, <2>2 DEF supportVars, threadVars, staffVars, SupportInv, SupportTypeOK, OnlyTyped,
                      StoredOnce, Stored, ReadMeansDrawn, ReadUnseen
  <2> QED
    BY <1>2, <2>1, <2>2, CustomerInv, StaffInv DEF SupportNext
<1> QED
  BY <1>1, <1>2, PTL DEF SupportSpec

\* Every variable of the correspondence has its type: a text belongs to an order.
THEOREM SupportTypes == SupportSpec => []SupportTypeOK
<1>1. SupportInv => SupportTypeOK
  BY DEF SupportInv
<1> QED
  BY <1>1, SupportInvariant, PTL

\* Whatever the customer types and taps in whatever order, and whatever fails, no
\* text is in the threads of two orders, or both stored and waiting.
THEOREM TextsStoredOnce == SupportSpec => []StoredOnce
<1>1. SupportInv => StoredOnce
  BY DEF SupportInv
<1> QED
  BY <1>1, SupportInvariant, PTL

\* However many staff read and answer, and whatever the lengths of texts and
\* pages: a thread marked read was drawn since its newest text, which was on the
\* page, unless Telegram refused, the customer has cleared the history, or the
\* newest text and the replies after it are longer than a page.
THEOREM ReadWasDrawn == SupportSpec => []ReadMeansDrawn
<1>1. SupportInv => ReadMeansDrawn
  BY DEF SupportInv
<1> QED
  BY <1>1, SupportInvariant, PTL

================================================================================
