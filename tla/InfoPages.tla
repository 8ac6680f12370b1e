------------------------------- MODULE InfoPages -------------------------------
(***************************************************************************)
(* The pages "About us" and their editor: the table info_pages             *)
(* (bot_services/info_service.py) and the conversation in which the staff  *)
(* creates, renames, fills, orders and deletes pages (handlers/info.py).   *)
(*                                                                         *)
(* A page is its place in the tree and its number among its siblings; what *)
(* it says is left out, and so is the redrawing of the screens.  Buttons   *)
(* of earlier messages stay, so that any page that ever was can be named   *)
(* by a button.  Updates are handled one at a time.                        *)
(***************************************************************************)
EXTENDS Integers, FiniteSets

CONSTANTS
  Editors,      \* staff who open the editor's conversation
  MaxPages      \* bound: pages ever created

ASSUME PagesAssumption == MaxPages \in Nat

VARIABLES
  pages,      \* the table: id -> parent and sort_order
  created,    \* ids given out so far
  awaiting,   \* the conversation with each editor
  memory,     \* cms_action, cms_page_id and cms_parent_id in user_data
  prompted    \* the page that the question under way is about

pagesVars == <<pages, created, awaiting, memory, prompted>>

Ids == 1 .. MaxPages
Root == 0         \* the parent of the first level
NoPage == 0       \* cms_page_id is not set
Numbers == 0 .. MaxPages

Actions == {"none", "create", "edit_title", "edit_content", "edit_order"}
Questions == {"none", "title", "rename", "order", "content"}

NoMemory == [action |-> "none", page |-> NoPage, parent |-> Root]

Exists(p) == p \in DOMAIN pages

Siblings(p) == {s \in DOMAIN pages : pages[s].parent = pages[p].parent}

--------------------------------------------------------------------------------
\* The table.

PagesInit ==
  /\ pages = <<>> /\ created = 0
  /\ awaiting = [e \in Editors |-> "none"]
  /\ memory = [e \in Editors |-> NoMemory]
  /\ prompted = [e \in Editors |-> NoPage]

\* INSERT: sort_order has the default 0.
WithNewPage(parent) ==
  [p \in DOMAIN pages \cup {created + 1} |->
     IF p = created + 1 THEN [parent |-> parent, order |-> 0] ELSE pages[p]]

WithOrder(p, n) ==
  IF Exists(p) THEN [pages EXCEPT ![p].order = n] ELSE pages

\* With a page in it the set has the pages right below it.
WithChildren(set) == \A c \in DOMAIN pages : pages[c].parent \in set => c \in set

\* p and what lies below it: the least closed set with p in it.
Subtree(p) ==
  {c \in DOMAIN pages :
     \A set \in SUBSET (DOMAIN pages \cup {p}) : p \in set /\ WithChildren(set) => c \in set}

\* Deliberate bug: the children of a deleted page stay.
WithoutOne(p) == [c \in DOMAIN pages \ {p} |-> pages[c]]

\* DELETE: the foreign key cascades.
Without(p) == [c \in DOMAIN pages \ Subtree(p) |-> pages[c]]

\* Page a comes before its sibling b: by number, then by id.
Before(a, b) ==
  \/ pages[a].order < pages[b].order
  \/ pages[a].order = pages[b].order /\ a < b

\* How many siblings come before page c.
Place(c) == Cardinality({s \in Siblings(c) : Before(s, c)})

\* The places of the siblings after p has exchanged its place with its
\* neighbour, if there is one.
Moved(p, direction) ==
  LET there == IF direction = "up" THEN Place(p) - 1 ELSE Place(p) + 1
      moves == \E s \in Siblings(p) : Place(s) = there
  IN  [c \in Siblings(p) |-> IF moves /\ c = p THEN there
                             ELSE IF moves /\ Place(c) = there THEN Place(p) ELSE Place(c)]

\* Deliberate bug: the two pages that move get new numbers, the others keep the
\* numbers they had.
NumberedByHalves(p, place) ==
  [c \in DOMAIN pages |->
     IF c \in Siblings(p) /\ (c = p \/ place[c] # Place(c))
     THEN [pages[c] EXCEPT !.order = place[c]]
     ELSE pages[c]]

\* All siblings are numbered anew from 0.
Renumbered(p, place) ==
  [c \in DOMAIN pages |->
     IF c \in Siblings(p) THEN [pages[c] EXCEPT !.order = place[c]] ELSE pages[c]]

--------------------------------------------------------------------------------
\* Buttons outside the conversation: they work while a text is awaited.

\* The arrows of a page; a deleted page stays where it is.
MoveItem(p, direction) ==
  /\ Exists(p)
  /\ pages' = Renumbered(p, Moved(p, direction))
  /\ UNCHANGED <<created, awaiting, memory, prompted>>

--------------------------------------------------------------------------------
\* Buttons that open the conversation: while a text is awaited they are no
\* entry points and fall through to the handler of dead buttons.

Idle(e) == awaiting[e] = "none"

Await(e, question, mem, page) ==
  /\ awaiting' = [awaiting EXCEPT ![e] = question]
  /\ memory' = [memory EXCEPT ![e] = mem]
  /\ prompted' = [prompted EXCEPT ![e] = page]

\* The conversation of e ends with what it remembers.
Conclude(e, mem) == Await(e, "none", mem, NoPage)

StartAddPage(e, parent) ==
  /\ Idle(e)
  /\ Await(e, "title", [memory[e] EXCEPT !.action = "create", !.parent = parent], NoPage)
  /\ UNCHANGED <<pages, created>>

\* Deliberate bug: the menu of another page opens while a text is awaited.
StartEditAnyTime(e, p) ==
  /\ memory' = [memory EXCEPT ![e].page = p]
  /\ UNCHANGED <<pages, created, awaiting, prompted>>

\* The menu of page p is remembered even if the page is gone.
StartEditPage(e, p) ==
  /\ Idle(e)
  /\ memory' = [memory EXCEPT ![e].page = p]
  /\ UNCHANGED <<pages, created, awaiting, prompted>>

\* The buttons of that menu do not name the page: they mean the menu opened
\* last.  Only the one for the content makes sure that there is a page.
AskEditTitle(e) ==
  /\ Idle(e)
  /\ Await(e, "rename", [memory[e] EXCEPT !.action = "edit_title"], memory[e].page)
  /\ UNCHANGED <<pages, created>>

AskEditOrder(e) ==
  /\ Idle(e)
  /\ Await(e, "order", [memory[e] EXCEPT !.action = "edit_order"], memory[e].page)
  /\ UNCHANGED <<pages, created>>

AskEditContent(e) ==
  /\ Idle(e)
  /\ LET mem == [memory[e] EXCEPT !.action = "edit_content"] IN
     IF mem.page = NoPage
     THEN Conclude(e, mem)
     ELSE Await(e, "content", mem, mem.page)
  /\ UNCHANGED <<pages, created>>

StartQuickRename(e, p) ==
  /\ Idle(e)
  /\ Await(e, "rename", [memory[e] EXCEPT !.action = "edit_title", !.page = p], p)
  /\ UNCHANGED <<pages, created>>

DeletePage(e, p) ==
  /\ Idle(e)
  /\ pages' = Without(p)
  /\ UNCHANGED <<created, awaiting, memory, prompted>>

--------------------------------------------------------------------------------
\* Texts.  An empty or overlong title and a number that is none are asked for
\* again.

HandleTitle(e) ==
  /\ awaiting[e] = "title"
  /\ awaiting' = [awaiting EXCEPT ![e] = "content"]
  /\ UNCHANGED <<pages, created, memory, prompted>>

\* A page is created where it was asked for.  When the parent has been deleted
\* the insertion raises: nothing changes, and the text is still awaited.
HandleNewContent(e) ==
  /\ awaiting[e] = "content" /\ memory[e].action = "create"
  /\ memory[e].parent = Root \/ Exists(memory[e].parent)
  /\ created < MaxPages
  /\ created' = created + 1
  /\ pages' = WithNewPage(memory[e].parent)
  /\ Conclude(e, [memory[e] EXCEPT !.action = "none", !.parent = Root])

Forgetting(mem) ==
  IF mem.page = NoPage THEN mem ELSE [mem EXCEPT !.action = "none", !.page = NoPage]

\* The new content replaces the old one, if the page is still there.
HandleContent(e) ==
  /\ awaiting[e] = "content" /\ memory[e].action = "edit_content"
  /\ Conclude(e, Forgetting(memory[e]))
  /\ UNCHANGED <<pages, created>>

\* Without a page the text is answered by an error.
HandleRename(e) ==
  /\ awaiting[e] = "rename"
  /\ Conclude(e, Forgetting(memory[e]))
  /\ UNCHANGED <<pages, created>>

HandleOrder(e, n) ==
  /\ awaiting[e] = "order"
  /\ pages' = WithOrder(memory[e].page, n)
  /\ Conclude(e, Forgetting(memory[e]))
  /\ UNCHANGED created

\* After a log-out there is nothing that the content could be for: the text is
\* answered by an error.
HandleInactive(e) ==
  /\ awaiting[e] = "content" /\ memory[e].action \notin {"create", "edit_content"}
  /\ Conclude(e, memory[e])
  /\ UNCHANGED <<pages, created>>

CancelCms(e) ==
  /\ ~Idle(e)
  /\ Conclude(e, NoMemory)
  /\ UNCHANGED <<pages, created>>

\* A log-out, /done and the end of a registration clear user_data, and leave
\* the conversation where it is.
ForgetUserData(e) ==
  /\ memory' = [memory EXCEPT ![e] = NoMemory]
  /\ UNCHANGED <<pages, created, awaiting, prompted>>

\* The conversation does not survive an orderly restart of the bot, user_data
\* does.
RestartEditor ==
  /\ awaiting' = [e \in Editors |-> "none"]
  /\ prompted' = [e \in Editors |-> NoPage]
  /\ UNCHANGED <<pages, created, memory>>

PagesNext ==
  \/ \E p \in 1 .. created, direction \in {"up", "down"} : MoveItem(p, direction)
  \/ \E e \in Editors : \/ \E parent \in 0 .. created : StartAddPage(e, parent)
                        \/ \E p \in 1 .. created : \/ StartEditPage(e, p)
                                                   \/ StartQuickRename(e, p)
                                                   \/ DeletePage(e, p)
                        \/ AskEditTitle(e) \/ AskEditOrder(e) \/ AskEditContent(e)
                        \/ HandleTitle(e) \/ HandleNewContent(e) \/ HandleContent(e)
                        \/ HandleInactive(e) \/ HandleRename(e)
                        \/ \E n \in Numbers : HandleOrder(e, n)
                        \/ CancelCms(e) \/ ForgetUserData(e)
  \/ RestartEditor

PagesSpec == PagesInit /\ [][PagesNext]_pagesVars

--------------------------------------------------------------------------------
\* Properties.

\* Every variable has its type, and no page has lost its parent.
PagesTypeOK ==
  /\ created \in Numbers
  /\ DOMAIN pages \subseteq 1 .. created
  /\ pages \in [DOMAIN pages -> [parent : DOMAIN pages \cup {Root}, order : Numbers]]
  /\ awaiting \in [Editors -> Questions]
  /\ memory \in [Editors -> [action : Actions, page : Ids \cup {NoPage}, parent : Ids \cup {Root}]]
  /\ prompted \in [Editors -> Ids \cup {NoPage}]

\* What is remembered fits the question that e is asked.
FitsQuestion(e) ==
  /\ awaiting[e] \in {"title", "content"} =>
       \/ memory[e].action = "create"
       \/ /\ awaiting[e] = "content" /\ memory[e].action = "edit_content"
          /\ memory[e].page = prompted[e] /\ prompted[e] # NoPage
  /\ awaiting[e] = "rename" => memory[e].action = "edit_title" /\ memory[e].page = prompted[e]
  /\ awaiting[e] = "order" => memory[e].action = "edit_order" /\ memory[e].page = prompted[e]

\* The text that answers a question goes to the page that the question was
\* about, and is taken for what was asked; or the question is forgotten with
\* everything else (a log-out, /done), and the text goes nowhere.  The
\* conversation keeps the page and the kind of the change in user_data, apart
\* from its own state: menus of other pages and the buttons of other
\* conversations write there.
AnswerGoesWhereAsked ==
  \A e \in Editors : FitsQuestion(e) \/ memory[e] = NoMemory

\* The siblings listed above p, by number alone.
Above(p) == {s \in Siblings(p) : pages[s].order < pages[p].order}

Distinct(set) == \A a, b \in set : a # b => pages[a].order # pages[b].order

\* Once the siblings have different numbers, an arrow moves the page one place
\* in the list and leaves the others in their order, though the list is sorted
\* by number and title, the arrows count by number and id, and numbers typed by
\* hand have gaps.  (New pages all have the number 0: among them the first
\* arrow counts places in an order that nobody sees.)
ArrowsMoveOnePlace ==
  [][\A p \in DOMAIN pages, direction \in {"up", "down"} :
       Distinct(Siblings(p)) /\ MoveItem(p, direction) =>
         LET above == Cardinality(Above(p))
             below == Cardinality(Siblings(p)) - 1 - above
         IN  /\ Cardinality(Above(p)') = IF direction = "up"
                                         THEN IF above = 0 THEN 0 ELSE above - 1
                                         ELSE IF below = 0 THEN above ELSE above + 1
             /\ Distinct(Siblings(p))'
             /\ \A a, b \in Siblings(p) \ {p} :
                  a \in Above(b) <=> a \in Above(b)'
    ]_pagesVars

================================================================================
