# Kojo bot: a TLA+ verification project

This directory models the Kojo shop bot (a Telegram bot: catalogue, cart,
checkout, payment links, staff panel): its ordering core, the registration of
its customers, the synchronisation of its catalogue, the shop's screens, the
correspondence with the staff, the staff's settings, and the services beneath
(gateway client, idempotency keys, dead letters, cache). It checks the models
with TLC and proves the main results with TLAPS. Paths below are relative to the
repository root; `OS`, `CS`, `HD`, ... stand for
`tg_bot/bot_services/order_service.py`, `.../cart_service.py`,
`tg_bot/handlers/order_delivery_checkout.py`.

## 1. The system

### Process and scheduling

One asyncio process (`tg_bot/main.py`). A webhook puts updates into
`application.update_queue`; the dispatcher of python-telegram-bot takes **one
update at a time** (`concurrent_updates` is not set), wrapped in an
observability and a rate-limit middleware. Beside the dispatcher run: the job
queue (undo countdowns), the dead-letter loop, the metrics reporter, the health
server and the persistence flush (`PicklePersistence`, every 60 s, with
`user_data` and the conversation states of persistent conversations). During a
rolling update a second process starts, syncs the catalogue in `post_init` and
only then replaces the first (`MANIFEST.md`, section 4).

| component | code | state it keeps | operations | hard behaviour | what makes it correct |
|---|---|---|---|---|---|
| order aggregate | `domain/order.py` | - | `can_transition`, `VALID_TRANSITIONS` | statuses set without asking it | statuses move along the table (finding 4), a finished order stays finished |
| order service | `bot_services/order_service.py` | tables `orders`, `order_items` | create, status, cancel, payment link, delivery | unconditional updates, no transaction around the caller's several calls | items never change, totals and links agree |
| cart | `cart_service.py`, `order_cart.py` | `cart_items` with price snapshot | update, remove, clear, validate | a sync hides products from `get_cart` | what is deleted from a cart was ordered (finding 3 shows where it was not) |
| checkout | `order_delivery_checkout.py`, `order_gift.py` | `temp_delivery_data`, `editing_order_id`, `current_active_order_id` in `user_data` | choose delivery, gift, finalize | six awaits with writes, any may fail; old session after a crash | no lost goods, no wrong charge, an answer for the customer |
| order conversation | `order.py` | conversation state per user | browse, repeat, exit | re-entrant entry points keep half a checkout | session refers to own orders |
| cancellation, logout | `user_panel.py` | `cancellation_order_id` | prompt, reason, keep | reason arrives long after the prompt | own order only |
| staff buttons | `admin_panel.py`, `keyboards.py` | - | six moves of an order | old screens; keyboard against transition table | every offered move is legal |
| payment link | `payment_service.py` | - | one HTTP call | timeouts, error markers | link charges the order's total |
| catalogue sync | `product_sync_service.py` | `products`, `product_variants`, `sync_metadata`, the product files | per folder: hash, enrich the file, upsert, delete variants, insert variants, record the hash | no transaction; aborts half-way; files edited and rolled back meanwhile | a recorded hash means the tables hold the file; ids stay; carts survive it |
| shop screens | `handlers/order.py`, `order_product_view.py`, `order_search_sort.py`, `order_cart.py`, `keyboards.py` | conversation state, `user_data`, the menu on the screen | list, card, gallery, quantities, search, sort, brewing, cart | three copies of "which product", kept apart by 50 handlers | every button is answered (three are broken), the card's button adds the card's product |
| registration, approval | `registration.py`, `user_service.py` | `users.status` | register, approve, decline | several admins, auto-approval | one decision |
| addresses | `user_address_service.py`, `user_panel.py` | `user_saved_addresses` | add, delete, default, rename | buttons of old messages name rows by id | one default per delivery service |
| messaging | `communication_service.py`, `ai_chat.py`, `user_panel.py`, `admin_panel.py` | threads with a read mark, messages, `pending_message_text` | ask, route, show, reply | two ways for one text; staff and customer race; Telegram refuses after the mark | a text is stored once, "read" means opened and drawn since the newest text |
| info pages | `info.py`, `info_service.py` | `info_pages`, `cms_*` in `user_data` | create, rename, fill, order, delete | the page a text is for lives beside the conversation's state | an answer goes to the page asked about |
| delivery settings | `admin_panel.py`, `order_delivery_checkout.py` | two JSON lists in `bot_settings` | add, hide, rename, delete; the customer's choice | a button names a list index | the point pressed is the point taken |
| gateway client | `services/gateway`, `ai_communication_service.py` | counters of a breaker, requests | request, retry, fall back | late results against a newer state | the breaker is the documented one and always recovers |
| idempotency | `infrastructure/idempotency.py` with `order_service.py`, `payment_service.py` | a key in Redis | check, start, complete | failures between key, effect and commit | one effect per key |
| dead letters | `infrastructure/dlq.py`, `main.py` | a list | put, reprocess, drain | the list is replaced after awaits | no event lost |
| cache | `infrastructure/cache.py` | Redis and a copy per pod | get, set, delete, invalidate | invalidation racing a fill, missed messages | bounded staleness |
| event store and bus | `infrastructure/event_store.py` | `event_store` rows | append, replay | not reached by the bot | - |
| notifications | `notification_service.py`, `favorite_service.py` | `user_favorites.notify_on_restock` | send, then disable | none: nobody can subscribe (section 2) | - |
| shutdown | `main.py:600` | - | drain, stop, close | the drain of the dead letters is cut short | modelled in `DeadLetters` as far as it goes |
| tenants, FSM router, state manager, unit of work | `tenant/`, `core/`, `di/` | - | - | not reached by the bot's handlers | - |
| observability, health, alerting | `infrastructure/observability`, ... | metrics | read and report | - | - |

Components interact through the database (every service), through
`context.user_data` (handlers of one customer), and through calls
handler -> service -> HTTP. The only messages between components are Telegram
updates and, between pods, the cache's invalidations over Redis Pub/Sub.

Two sets of migrations describe the schema, `alembic/versions` (which
`docker/Dockerfile` copies) and `migrations/versions`, and neither has everything
the queries name. Alembic lacks `users.data_cleared_at`,
`communication_threads.subject`, `info_pages.updated_at`, `products.search_variants`
and `orders.idempotency_key`; the other lacks the tables `user_favorites` and
`user_saved_addresses`. All modules follow one rule: **the tables have every column
and table that a query of the code names, with the constraints that the migrations
which create them state.** So both `order_id` of a thread and `subject` may be what
migration 010 makes them, `fio` is NOT NULL, `telegram_id` is unique (until
`alembic/versions/005_tenant_rls.py` makes it one row of each tenant), and the
cascade of `info_pages` is the foreign key's.

Built from alembic alone the code does less: `get_messages_for_thread`
(`communication_service.py:149`) and `get_orders_by_user_id` (OS:148) always raise,
so that no thread can be drawn or marked read; `update_page_content`
(`info_service.py:66`) always raises, so that the text of a page stays awaited;
a log-out that clears the data raises (`user_service.py`), a synchronisation
raises at its first folder, and a consultation at its INSERT. Each of these is
an exception where the models have a step, and the models have that exception
as an alternative only where it can come from something else too. Which schema a
given installation has cannot be told from the repository.

## 2. Modules

| module | models | state |
|---|---|---|
| `OrderDomain` | statuses, `VALID_TRANSITIONS`, `can_transition`, what the staff's and customers' buttons ask for | constant definitions |
| `CartService` | the queries of `cart_service.py` as operators on a cart and the table of variants | constant definitions |
| `OrderBook` | what the shop promises about its orders (abstract) | `book` |
| `OrderCheckout` | carts, checkout, links, statuses, cancellation, staff, sync, persistence, crash | 14 variables |
| `OrderCheckout_proofs` | theorems about `OrderCheckout` | - |
| `MCOrderCheckout` | `OrderCheckout` for TLC (symmetry) | - |
| `Registration` | wizard, approval in several admins' chats, user card, log-out, persistence, crash | 8 variables |
| `Registration_proofs` | theorems about `Registration` | - |
| `CatalogueSync` | the files, the flags, one synchronisation statement by statement, failures, starts and rollbacks, favourites | 17 variables |
| `CatalogueSync_proofs` | theorems about `CatalogueSync` | - |
| `MCCatalogueSync` | `CatalogueSync` for TLC (contents of files) | - |
| `Breaker` | the circuit breaker that the docstring promises (abstract) | `circuit` |
| `Gateway` | breaker counters, concurrent callers, retries, fallbacks | `breaker`, `request` |
| `Idempotency` | one key, the three operations it is meant for, failures, expiry | 8 variables |
| `DeadLetters` | the queue, its task, the drain | 11 variables |
| `ConfigCache` | one key of the two-level cache seen by several pods | 8 variables |
| `InfoPages` | the tree of pages and its editor | 5 variables |
| `SupportThreads` | the correspondence of a customer with the staff | 12 variables |
| `MCConversations` | `Registration` and `SupportThreads` for TLC, one of them in each behaviour | `part` |
| `DeliveryAdmin` | pickup points, cities, their wizards, the customer's choice | 6 variables |
| `AddressBook` | the saved pickup points of a customer | 3 variables |
| `ShopScreens` | the order conversation from the catalogue to the cart | 5 variables |
| `MCServices` | eight parts for TLC, one of them in each behaviour: `Gateway`, `Idempotency`, `DeadLetters`, `ConfigCache`, `InfoPages`, `DeliveryAdmin`, `AddressBook`, `ShopScreens` | `part` |
| `Filtering` | the list comprehension that takes entries out of a list | - |
| `SupportThreads_proofs`, `ShopScreens_proofs` | theorems about one part | - |
| `Infrastructure_proofs` | theorems about `Gateway`, `ConfigCache`, `Idempotency`, `DeadLetters` | - |
| `Settings_proofs` | theorems about `AddressBook`, `DeliveryAdmin`, `InfoPages` | - |
| `Filtering_proofs` | induction over the numbers, what `Dropping` leaves | - |

`Registration` and `OrderCheckout` share the dispatcher and `user_data` in the
code. They meet in two places, both modelled on the side that is affected:
`/done` of the order conversation clears the form (`EndOrdering`), and a product
link opened with `/start` leaves the registration conversation in a state of the
order conversation (`FollowProductLink`). `OrderCheckout` takes its customers to
be outside the registration conversation, which would otherwise take their
messages first.

`CatalogueSync` is a second, closer view of the writer that `OrderCheckout` knows
as `SyncWipe` and `SyncFill`: there the catalogue changes under the customers'
carts in the two statements that carts can see, here the question is whether the
tables end up holding what the files say.

### How `OrderCheckout` corresponds to the code

* `orders`, `cart`, `avail`, `variants`: the tables. An order keeps the fields a
  property can tell apart: customer, items with prices, status, total, price of
  the delivery, gift kind, and for the payment URL the amount it was asked for.
  A cart row keeps quantity, price snapshot (`saved_price`) and whether it is
  older than the 24 hours of `validate_cart`.
* `conv`, `session`, `cancelling`: the conversation state of `order_handler`,
  the three checkout keys of `user_data`, the key of the cancellation
  conversation. `SHOPPING` stands for every catalogue state, `ASKING_GIFT` for
  the three states of the gift question: none of the handlers between them
  changes anything a property reads.
* `stored`: the pickle file. `Flush` copies `conv` and `session`; a `Crash`
  restores them and forgets `cancelling` (the cancellation conversation is not
  persistent) and the running handler.
* `task`: the handler that is running, if it writes more than once. The
  `pc` names the next write of `finalize_order_and_pay`
  (`persist`, `forget`, `clear`, `pay`, `link`, `present`, `approve`) or of the loop that
  refills a cart (`empty`, `refill`). Every other handler writes once and is one
  action. `HandlerRaises` is an exception at any of the awaits; one between the
  update of a re-delivered order and the deletion of `editing_order_id` (`forget`)
  leaves the id in the session. `task.lines` is the snapshot of the cart that
  `get_cart` took, `task.hidden` (history) the rows of the cart its JOIN left out.
* `syncing`: the product whose variants a sync has deleted and not yet inserted.
  The upsert of the product row and the deletion are one action: the state
  between them is also reached after `SyncFill` with the same prices.
* `ordered` is history: the customer's cart rows have been written to an order
  already. `faults`, `syncs`, `days` count against the bounds.

Two constants say which of two programs is meant:

* `ItemRowsLoad` - `get_full_order_details` (OS:174) builds `OrderItem(**dict(row))`
  from rows with columns `id` and `order_id` the dataclass does not have. In the
  committed code the call always raises, and with it the screens that need it
  (details, repeat, change of delivery, cancel, staff's buttons).
* `OrderHasDeliveryFields` - the admin notice reads `order.delivery_type` and
  `order.delivery_address`, which `Order` does not have.

Both are `FALSE` in the committed code. The tests assume `TRUE` through mocks
(`tests/test_order_delivery_handler.py:595` and `:738`,
`tests/test_admin_panel_handler.py:413`, `tests/test_order_handler.py:261`,
`tests/test_user_panel_handler.py:193`). Much of the code is only reached when they
are `TRUE`, so the three passing runs take the code as its tests describe it
(`checkout_faults`, `checkout_customers`, `checkout_orders`), and so does
`checkout_status`, whose finding says so. `checkout_unanswered`,
`checkout_retry` and `checkout_hidden` take it as committed. The proofs hold for
both. A third constant, `AdminTargets`, says whether there is a chat to notify of
new orders; a bot that has started has one, because `main.py:401` requires
`ADMIN_CHAT_ID`, and the proofs hold without.

### How `Registration` corresponds to the code

* `users` is the table, with the columns a property can tell apart: `status`,
  `fio`, `email`. A field holds the number of the pass through the wizard in
  which it was typed, or one of four special values: NULL (`Missing`), the empty
  string a log-out leaves (`Blank`), `'[deleted]'` (`Deleted`), and what
  `create_approved_admin` invents (`Official`). The schema is the one of
  `migrations/versions`, whose columns the queries of `user_service.py` name.
* `dialogue` is the conversation state and the two form fields of `user_data`;
  `pass` and `linked` are history. The middleware writes a correlation id into
  `user_data` before each handler (`observability_middleware.py:52`), so the
  handlers' `context.user_data or {}` is always the shared dictionary.
* `task` is a running handler with more than one effect. `received_phone` is
  `ReceivePhone` (the row), `Notify` once per chat of `admin_targets`,
  `ClearForm`, `SendReply`; the handlers that change memory and then call the
  Bot API are an action and `SendReply`, because an exception in between keeps
  the memory and loses the state they would have returned.
* `notices` are the applications in the admins' chats that still have buttons.
  `Decide` takes the buttons away or not: the message is edited after the update
  and that edit may fail.
* `Start` leaves the conversation, or leaves its state alone when it was called
  by a dead button (`handle_stale_callback`), outside the conversation handler.
* Input that a handler refuses (a name with digits, a text instead of a contact)
  changes nothing and is a stuttering step.

### How `CatalogueSync` corresponds to the code

* `files` are the files `tg_bot/products/*/product.txt`, each reduced to what the
  tables receive and a property can tell apart: `sale`, whether the parser finds
  a price, and the line `search:` (missing, the name alone, or variants). The
  hash of a file is the file. A folder keeps the name of its product and names
  are distinct, as the 46 folders of the repository are, so a folder also stands
  for the row of its product.
* `products`, `variants`, `serial`, `metadata`, `favourites` are the tables (and
  the sequence behind `products.id`, which a conflicting INSERT uses up too).
* `sync.pc` is the next step of `sync_products`: the flags of `config.json` with
  the TRUNCATE, writing the flags back, reading the hashes, the loop (`next`),
  and for the folder in hand `parse`, `enrich`, `upsert`, `delete`, `insert`,
  `record`. Steps end where the code awaits something that takes time.
* The four exceptions the code catches lose the folder (`FolderFails`), the
  hashes (`HashesFail`) or the flags (`FlagsFail`) and the loop goes on. Any other
  one, and asyncpg's and httpx's own are others, ends the synchronisation
  (`SyncRaises`), in `post_init` with the process.
* `Edit` changes a file under the running process when `EditedInPlace` (bare
  metal), and only between two processes when an image brings the files.
* `past`, `reverted`, `redone`, `truncated` and `sync.quiet` are history.
  `Undisturbed` excepts two situations that the code does not handle: a file
  that returned to an earlier content (finding 6 is one), and a folder that is
  processed although its hash is recorded (a forced search recache, or hashes
  that could not be read) and fails half-way, so that its old hash stays with
  half-written rows.
* The notices of restock that follow a synchronisation are not here because they
  have no recipients: `get_product_by_id` returns only products on sale,
  so the list of favourites never shows a sold-out one, and the button that asks
  for a notice (`keyboards.py:531`) is never built. The knowledge file for the
  assistant, overwritten with the folders of the last synchronisation only, and
  rows of folders that were removed or renamed, which stay on sale, are not
  modelled either.

### The other modules

The eight parts of `MCServices` share no state with each other, so that a behaviour
of all of them together is no more than one of each. `MCServices` gives every
behaviour one `part` that takes the steps while the others rest, and checks all of
them in one run. `MCConversations` does the same with `Registration` and
`SupportThreads`.

`Gateway`. `breaker` holds the two counters, the flag and the time since the last
failure; half-open is computed from the flag and that time, as in
`circuit_breaker.py`. A caller gives up the event loop while it waits for a
reply, between attempts, for the local history server, and for a request that
bypasses the gateway; each such wait is one `stage`, so that another caller's
success or failure may come in between. Whatever ends a request (an answer, an
error of the server, an answer that is no JSON, an open circuit) becomes what
`ai_communication_service.py` makes of it for this kind of request: a result, a
notice or an exception. `Breaker` is the abstract machine and `CircuitBreaks` the
refinement, with `circuit <- Circuit(breaker)`.

`Idempotency`. `scope` chooses one of the protocols. `create_order` completes its
key inside the transaction; the other two act first and complete the key
afterwards. `Fail` may end a request between any two steps and stands for an
exception, an error of either store and a crash; only uncommitted rows are rolled
back.

`DeadLetters`. One action per await of `reprocess` and `drain`. `wired` says whether
a handler is set; `main.py` sets none. While the handler works, `Put` appends to
the queue that the cycle will replace. `Filtering` holds the comprehension that
`reprocess`, the list of cities and the customer's list of points share; it is a
function on the prefixes of the list, which the proofs can unfold.

`ConfigCache`. An operation waits for Redis at each command. `Read` is the moment
Redis executes a get, `Got` the moment its answer arrives, at most `Flight` ticks
later. Values are numbered; `gone[v]` counts the ticks since Redis last held
value `v`. Listeners may miss messages, and after an error that their loop does
not catch they are gone for good.

`InfoPages`. `memory` is `cms_action`, `cms_page_id` and `cms_parent_id` of
`user_data`; `awaiting` is the conversation's state; `prompted` is history: what
the question on the screen was about. The place of a page among its siblings is
the number of those before it, which is the index that `move_page` gives it in
the sorted list; `Moved` exchanges two places and `Renumbered` writes them all.
`Subtree` is what the foreign key's cascade takes: the least set with the page
that has the children of all its members. `ForgetUserData` is a log-out, `/done` of
the order conversation or the end of a registration: each clears `user_data`, of
which the three keys are part, and leaves the editor's conversation where it is. A
content typed after that is answered with "scenario not active"
(`HandleInactive`); a title is still followed by the question for a content, which
is then answered so.

`SupportThreads`. `customer.pending` is the text that waits in the router's
keyboard for a recipient. A text is its number and its length; `tail[o]` is the
length of the customer's newest text in thread `o` together with all replies
since, and `OnFirstPage` whether page 0 reaches back to that text: the loop of
`_render_thread_interface` fills pages from the newest block backwards and closes
an empty one before a block that is longer than a page. `cleared` are the threads
whose texts are all older than the customer's `data_cleared_at`. `Render` is page
0 with its mark, after a reply or without, and `RenderRaises` an error of Telegram
that comes after the mark; `TurnPage` is an older page, which marks nothing. A
consultation inserts a thread without an order (`orphaned`) and raises, and so
does every list of threads from then on. `/done` and a log-out empty `user_data`:
the text that waits and the thread a reply is for are gone (`Forget`,
`ForgetReply`). `unseen` and `refused` are history. Buttons that lie in the chat
stay pressable: `panel_start` (`admin_panel.py:224`) returns at once for a button,
so the list of threads is reached by the buttons of other screens and of earlier
messages.

`DeliveryAdmin`. A point is an index into `points`. `offered.straight` and
`taken.straight` say whether the list on the customer's screen was drawn
without hidden points and whether none was deleted since.

`AddressBook`. One table, five handlers; the buttons of every earlier message stay,
so that any id may come back at any time.

`ShopScreens`. `conv` is the state of the `ConversationHandler`, `ud` the keys of
`user_data` that the handlers share, `screen` the newest menu: its kind, the
product and quantity its buttons carry, and whether it is a photo. `Keyboard(screen)`
is the set of buttons that `keyboards.py` builds, `Handled(conv)` the set of
buttons that the tables of `order_handler` accept in a state; each handler takes
the three to their next values. `Broken(screen)` names the three buttons that come
to nothing (favourites; the cart button of the main menu; ± where the category's
name is not plain ASCII). `Restart` is a start with `RESET_PERSISTENCE` or
without the pickle file; an orderly restart restores everything. Restarts that
bring back an older `user_data` are the subject of `OrderCheckout` and
`Registration`, not of this module.

## 3. Runs

| run | question | bounds | result |
|---|---|---|---|
| `checkout_faults` | Do total, link and the goods that were shown survive an exception, a crash and a sync anywhere in a checkout? | 1 customer, 2 products at one price, 1 order, 1 fault, 1 sync, auto approval on | pass |
| `checkout_customers` | Does every handler end, does each order written end on its screen, do sessions stay with their owners? | 2 customers, prices 0 and 1, carts a day old, 1 order, no faults | pass |
| `checkout_orders` | Is the table of orders an `OrderBook`, does a finished order stay finished but for its own re-delivery? | 1 customer, 2 products, 2 orders, every customer and staff button | pass |
| `checkout_unanswered` | the committed code: is the customer shown the new order? | 1 customer, 1 order | violation |
| `checkout_retry` | the committed code: is a repeated request harmless? | 2 orders, 1 fault | violation |
| `checkout_hidden` | the committed code: is everything that `clear_cart` deletes in the order? | 2 products, 1 sync | violation |
| `checkout_status` | does every status move along the table? | 1 order | violation |
| `conversations` | Do rows hold one form, are applicants announced and answered, do verdicts stand? Is a text stored once, and was a thread that counts as read opened and drawn since its newest text? | 1 applicant, 2 passes, 2 chats, 1 fault; 2 orders, 2 staff, 2 texts, 1 reply, texts that fit on a page or not | pass |
| `registration_gdpr` | Can the staff list its users after a deletion of data? | 1 applicant, 1 pass | violation |
| `catalogue` | Do recorded hashes, repeated synchronisations and favourites survive edits and failures at any step? | 1 folder, 4 contents, 2 edits, 2 synchronisations, 1 fault, 1 flag | pass |
| `catalogue_rollback` | Does a start put the files of its version on sale? | 2 folders, 2 contents, files from an image, 3 synchronisations, 1 fault | violation |
| `services` | Does each of the eight parts keep its promise? (see below) | see below | pass |

Why the bounds are enough. One fault reaches every prefix of the writes of a
checkout, because it may strike at any step, and the state after a crash can be
followed by a second, complete checkout of the same order. Two orders are needed
for an edit of one while another is on the screen; two customers for sessions
that could point at the wrong owner; two products for items that could be
rewritten partly, and for a cart of which a sync hides one row. Carts with price 0 reach the rejected total. In `checkout_faults` totals
differ because an order of one product is re-delivered with the price of a cart of
two. `MaxDays` ages rows once: a second
day changes nothing.

In `conversations`, two passes are what it takes to mix two forms or to replace
an announced one, two chats what it takes to press an old pair of buttons. One
user is enough: users share nothing but the dispatcher and the setting. The
branch of `Start` that invents an owner's row is reached with `Owners = Users`;
the proofs cover every set of owners. Two of the staff meet over one thread; two
texts are one before and one during a reply, in one thread or in two; lengths 1
and 3 against a page of 2 give a text that fits alone, with another, or not at all.

In `catalogue`, folders share nothing but the loop and the sequence of ids; one
folder, two synchronisations and one fault make the second one meet every state
the first may leave behind, and two edits let a file change and change back. The
proofs cover any number of folders. The rollback has two folders to show that
one may be new while the other is old.

What `services` checks, part by part:

| part | properties | bounds |
|---|---|---|
| gateway | `GatewayTypeOK`, `ClosedBelowThreshold`, `CircuitBreaks` (refines `Breaker`), `GatewayRecovers`, `RequestsEnd` | 2 callers, thresholds 2, timeout 2 ticks, 2 attempts |
| dead letters | `NoEventLost`, `UntriedMoveUp`, `GoodEventsHandled` | 3 events, one poisonous, batches of 1 |
| idempotency | `OneEffectPerKey` | 4 requests, 3 expiries, all three scopes |
| cache | `StalenessBounded` | 2 pods, copies live 1 tick, answers take up to 1, 1 value written |
| pages | `PagesTypeOK`, `AnswerGoesWhereAsked`, `ArrowsMoveOnePlace` | 1 editor, 3 pages |
| delivery | `PickupAsPressed`, `CityTypedAtOnce` | 2 points, 1 city name, 2 entries, 2 passes |
| addresses | `OneDefaultPerService` | 2 services, 2 spots, 5 addresses |
| shop | `ButtonsAnswered`, `CardMatchesMemory`, `GalleryWithinList`, `ChosenIsShown` | 2 products (one with an album), 5 listed categories and "all", quantity up to 2, 1 restart |

Two callers and thresholds of 2 let one caller's failure fall between another's
entry and its success, which is where the counters could go wrong; the proofs
cover any number. Batches of one event with one that is never accepted are the
tightest case for the others to get their turn. The cache's single value already
expires, is deleted and is published late while an answer is under way; that one
value replaces another is covered by the proof, which holds for any number of
pods, values and ticks. Three pages are two siblings with a page below one of
them, or three siblings. Three addresses of one
service are what an order of succession needs, five let two services have
them.  The shop's catalogue has a root with two subcategories, one with one (whose
list is opened at once) and one without, names that the callback validator
refuses, and a search that finds the other product.

`services` says `CHECK_DEADLOCK FALSE`: when every event was put and handled and the
process is down, or every request was made and no key is left to expire, that
part has nothing left to do.

Fairness of `services`: time passes (`Tick`); an attempt that is under way ends,
because every HTTP request has a timeout and every delay between attempts is
finite (`Proceed(c)`); the task of the dead letters goes on (`Cycle`: its timer
goes off, and a call of the handler ends, whatever it returns). `SF` on `CycleAccepts` is the assumption about the handler that
`GoodEventsHandled` is about: an event that is not poisonous is accepted in the
end if it is tried again and again. That customers or staff do anything is
assumed nowhere; `GatewayRecovers` has "keeps being asked" as its hypothesis.

Fairness of the other runs. `FairSpec` has `WF_vars(TaskStep)` and nothing else: the event loop
resumes a handler whose awaited call has returned, and every awaited call has a
timeout (pool `command_timeout=10`, `main.py:240`; HTTP client 20 s,
`base_integration.py:36`; Bot API `main.py:774`). Customers, staff, syncs, faults
and the passing of time are never assumed to happen.

`Registration` has the same fairness on its `TaskStep`, `CatalogueSync` on
`SyncStep`: requests to the model end after 60 seconds (SY:212) and statements
after 10. That staff or operators do anything is never assumed.

Each property has a mutant: a plausible bug in one definition, written beside
it as "Deliberate bug", with which TLC must find the property violated.

## 4. Findings

1. `checkout_unanswered`: the admin notice raises `AttributeError` after the
   order was written; the customer stays at the gift question.
2. `checkout_retry`: no idempotency key is passed to `create_order`, and
   `clear_cart` is a separate statement. A retry after an exception or crash
   orders the same goods twice.
3. `checkout_hidden`: the JOIN of `get_cart` (`cart_service.py:85`) leaves out a
   product that has no variants, as it has none between two statements of a
   synchronisation, and for good when its price no longer parses. The checkout
   orders what it was shown, and `clear_cart` then deletes the whole cart: the
   hidden product is in no order and no longer in the cart. `MANIFEST.md:82`
   promises that replacing a process loses nothing from a cart.
4. `checkout_status`: `set_payment_url` and `cancel_order_with_reason` set the
   status without asking the transition table, where `MANIFEST.md:38` says that a
   move outside it is refused. The run re-opens a cancelled order by changing its
   delivery. It concerns the code with `get_full_order_details` repaired: no
   customer reaches that screen in the committed code.
5. `registration_gdpr`: `anonymize_user` stores NULL where `User` wants strings.
   The row cannot be read again, nor can any list of users it belongs to; the
   staff's user menu is such a list. Only a log-out of the deleted user repairs
   the row.
6. `catalogue_rollback`: a start that raises between writing a folder's rows and
   recording its hash leaves the hash of the version before. After the rollback
   that `docs/DEPLOYMENT_RUNBOOK.md:94` prescribes for exactly this case, the old
   version finds its own hash and passes over the folder: rows of the new
   version, or a product without a price, stay on sale until its file changes.

Not a run, because no document says otherwise: a product link puts an approved
customer into the wizard's state `AWAITING_PHONE` (`registration.py:124` returns
`VIEWING_PRODUCT`, which has the same number). Messages are then answered with
the request for a contact, and a contact registers whatever form is left.
`RowHoldsOneForm` therefore excepts rows registered that way; without the
exception TLC finds a row with a name and no address.

Observed while modelling, and modelled as the code has it. These have no run of
their own: the runs are kept to few questions. Some contradict a comment or a
document, which is then named (paths under `src/`, most below `tg_bot/`):

* Orders: `get_full_order_details` always raises for an order with items (OS:174,
  against its docstring at OS:165), so that no customer opens an order to cancel
  it and no member of staff moves one; the tests of the screens behind it mock it.
  Once it is repaired, changing the delivery stores the total of the cart of the
  moment on an order whose items stay as they were (`domain/order.py:127` calls
  the total that of items and delivery), and a paid order offers the staff one
  button (`keyboards.py:710`), SHIPPED, which the transition table refuses, while
  no handler ever asks for `ASSEMBLING`.
* Threads: "read by the staff" (`communication_service.py:77`) is set whenever page
  0 is drawn (`admin_panel.py:206`), also when the newest text did not fit on it
  or is older than `data_cleared_at` and left out; `ReadMeansDrawn` excepts both.
  A consultation inserts a thread without an order, as
  `migrations/versions/010_allow_consultations.py:19` intends, and
  `CommunicationThread` (`models.py:111`) cannot load it: the text is lost, and
  from then on `show_communication_center` (`admin_panel.py:1021`, "shows the list
  of all threads") raises for the staff. `panel_start` (`admin_panel.py:224`)
  returns at once.
* Buttons: ± end with the category (`keyboards.py:399`), which the validator
  around `change_quantity` refuses unless it is plain ASCII
  (`callback_validator.py:13`, `order.py:632`), and the chapters of the catalogue
  are Cyrillic (`products/Ассам_Мангалам/product.txt:30`); the cart button of the
  main menu (`keyboards.py:984`, drawn by `order_ui_helpers.py:101`, which ends the
  conversation) is known to no handler outside the conversation.
* Shop: the cart editor's keyboard looks its rows up by the wrong kind of key
  (`order_cart.py:41`, `keyboards.py:584`) and has none; the entry point of the
  favourites raises at the quantity grid; the gallery's "add n pieces" adds one;
  `gallery_selecting` is never reset, nor is the quantity of the last product;
  changing the quantity from a card in gallery mode jumps to the gallery; an
  expired cart opened from a photo is emptied and then raises, and so does a
  brewing guide opened from a text card; `handle_repeat_order` with nothing in
  stock returns a state the conversation lacks.
* Gateway: a 4xx answer counts as a failure of the server, contrary to
  `services/gateway/circuit_breaker.py:96` to 105 and `exceptions.py:12`; the HALF_OPEN branch of
  `record_failure` cannot be reached; successes are never reset; any number of
  requests is let through half-open; the fallbacks bypass the breaker; the
  animated message never stops when an error of httpx escapes.
* Cache: copies live 3600 seconds by default where `MANIFEST.md:116` says 60 (the
  model's life is a constant); a circuit that opened never closes again; `delete` and the
  listener do not catch the client's own errors; a pod drops the value it has just
  stored when it hears its own message; hashes publish another key.
* Dead letters: no handler is set and nothing is stored; an unexpected
  exception loses the event during a drain and ends the task during a cycle; a
  cancelled cycle leaves handled events in the queue.
* Idempotency: a failed request keeps its key for a day, where `MANIFEST.md:92`
  reads otherwise; a completed key whose
  transaction was not committed names an order that does not exist; no handler
  passes a key.
* Delivery: a hidden point shifts the buttons of the customer's list against the
  settings; the wizard for points cannot pass its first question and the one for
  cities ends only with a restart; customers cannot reach the courier.
* Pages: new pages all have the number 0; the list is sorted by title, the
  arrows by id; the buttons of the edit menu do not carry their page.
* Support: "cancel" of a reply
  and two marks have no effect; a text that waits in the router goes to whichever
  order's contact button is pressed next; errors of Telegram after the mark leave
  a thread read that was not shown.
* Addresses: "cancel" of a renaming assigns to a read-only attribute
  (`user_panel.py:777`) and raises, so that the next text still renames; saving a
  point again replaces the customer's own name.

## 5. Proofs

`OrderCheckout_proofs` proves, for every finite catalogue, every set of
customers, every bound and both values of the flags:

| theorem | says |
|---|---|
| `TypeCorrect` | `Spec => []TypeInv` |
| `TypesHold` | `Spec => []TypeOK` |
| `SessionCorrect` | order ids in sessions, in the pickle file and in the cancellation conversation are orders of that customer |
| `PayButtonCorrect` | the link of an unpaid order charges its total |
| `GoodsKept` | the goods that a running checkout was shown are in the cart until the order is written and in the order from then on, beside the rows that the catalogue hid at that moment |
| `FinishedStays` | a completed or cancelled order stays so unless its own customer re-delivers it |
| `BookImplemented` | `OrderCheckout` implements `OrderBook` |

Assumptions: `CatalogueAssumption` (finite sets, natural prices),
`OptionAssumption`, `BoundAssumption`, `MoneyAssumption` (picking up is free;
delivery prices and the price of goods are integers), `NoneAssumption` (`None`
is none of the values). TLC evaluates them in every run.

Argument. `TypeOK` alone is not inductive: `ClearCart` writes `task.order` into
the session and `SetPaymentUrl` updates `orders[task.order]`, so the running
handler must be known to hold an order of its own customer; and a crash restores
a session from the pickle file, so what the file holds must be known too. Hence

    TypeInv == TypeOK /\ TaskInv /\ SessionPointsAtOwnOrder

`TaskInv` says what each `pc` knows about the handler's locals; in particular
until the link is stored `task.total` is the total of the order, and at `link`
the link was asked for that total. Nobody but the running handler changes totals
or items, because the dispatcher is busy: this is what `PayButtonCorrect` and
`GoodsKept` rest on. `TypeStep` goes through the actions, grouped as
`BrowsingType`, `StartTaskType`, `MoveOrderType`, `CheckoutTaskType`,
`RefillTaskType`, `EnvironmentType`. Everything about the table of orders follows
from `WritesOfOrders`: each step leaves the table alone, appends one new order,
re-delivers one, stores a link, or sets one status. `BookImplemented` maps each
of these to a step of `OrderBook` or to a stutter.

`Registration_proofs` proves, for every set of users, owners and chats and every
bound:

| theorem | says |
|---|---|
| `TypeCorrect` | `Spec => []TypeOK` |
| `RowIsOneForm` | a registered row holds the fields of one pass and has a name |
| `VerdictsStand` | an application's buttons never turn one verdict into the other |
| `ApplicationsAnnounced` | while nothing failed, waiting applicants are announced |

`RowHoldsOneForm` is about rows, which `ReceivePhone` copies from a dialogue, and
a crash brings a dialogue back from the pickle file. The inductive invariant
`RegInv` therefore adds `FormInv`: forms in memory *and* in the file are
`Coherent` (at the address step the name is of this pass or was cleared, at the
contact step both fields are, or the name was cleared), and so is the dialogue
that a handler in the middle of its effects will leave behind. Clearing is the
delicate case: a log-out between two messages leaves a form with an address and no
name, which `AcceptsForm`, the NOT NULL of `users.fio`, keeps out of the table.
`ApplicationsAnnounced` needs `TypeOK` only: the handler that writes a waiting row
holds the dispatcher until the last chat has its notice.

`CatalogueSync_proofs` proves, for every set of folders, contents, prices and
customers, every bound, and files edited in place or brought by an image:

| theorem | says |
|---|---|
| `TypeCorrect` | `Spec => []TypeOK` |
| `RecordedCorrect` | a hash is recorded only for a file that the tables hold |
| `CompletedCorrect` | an undisturbed synchronisation ends with every file in the tables |
| `FavouritesCorrect` | the row a favourite refers to stays the product chosen |

`RecordedIsInCatalogue` is about the hash of a file that may change at any time
between its hash, its parsing and its rewriting. The inductive invariant `SyncInv`
says why the recorded hash is still honest: a file that equals the hash in hand
was not edited since, unless it came back (`ParsedInv`, with `PastInv` for "came
back"), so what was parsed is the file; the rows are those of what was parsed
(`RowInv`); and until they are, the recorded hash is not the file's (`HandInv`),
because the loop would have passed over the folder (`LoopInv`: the hashes in
memory are the recorded ones). `DoneInv` collects what the loop leaves behind.
Assumptions: `PriceAssumption`, `BoundAssumption`, `DeploymentAssumption`,
`NoneAssumption`, `WrittenAssumption` (people write files of the kind described).

`Infrastructure_proofs`, `Gateway`: for any number of callers and any thresholds:

| theorem | says |
|---|---|
| `GatewayTypes` | `GatewaySpec => []GatewayTypeOK` |
| `ThresholdKept` | a closed circuit has counted fewer failures than open it |
| `BreakerRefined` | every step is a step of `Breaker` or none |

With the types, `ClosedBelowThreshold` is inductive: a success clears the failures
and never opens the circuit, a failure that reaches the threshold opens it at
once. The refinement needs the types only: whatever a caller knew when it entered,
its failure opens a circuit or keeps it open and starts the clock anew, and its
success closes only a circuit that is half-open (`BreakerSteps` lists what a
step can do to the counters).

`Infrastructure_proofs`, `ConfigCache`: for any pods, lives, answer times and
thresholds:

| theorem | says |
|---|---|
| `CacheTypes` | `CacheSpec => []CacheTypeOK` |
| `NeverTooStale` | `CacheSpec => []StalenessBounded` |

`StalenessBounded` is not inductive: an answer under way becomes a copy. `CacheInv`
adds that a value that Redis holds, that is being written or that is yet to come is
not gone (`LivingIsNotGone`), that an answer under way is at most as stale as it
is old (`AnswersAgeWithValue`), and that a delete writes no value. All but the tick
leave the clocks alone (`SameClocks`): a copy or an answer is then new only if its
value lives or was an answer. At a tick both sides of the bound grow by one. No
message and no listener occurs in the argument: invalidation shortens staleness,
and the bound does not depend on it.

`Infrastructure_proofs`, `Idempotency`: for any number of requests and expiries:

| theorem | says |
|---|---|
| `IdempotencyTypes` | `IdemSpec => []IdemTypeOK` |
| `EffectsPerKey` | `IdemSpec => []OneEffectPerKey` |

The bound counts effects, and a step that adds one knows nothing of how many there
are: what it knows is the key. `IdemInv` therefore says what the key tells of the
count. For orders (`OrdersFollowKey`) the key is completed before the commit, so
that only a completed key with no request between the two stands for an effect
that is not yet counted as forgotten. For the other two protocols
(`WorkFollowsKey`) a key that is absent, or was just written, says that nothing
has been done since it last expired. The two are different invariants for two
orders of the same calls, which is why the property has two bounds.

`Infrastructure_proofs`, `DeadLetters`: for any events and any size of a batch:

| theorem | says |
|---|---|
| `DeadLetterTypes` | the queue, the batch and the copies are lists of events |
| `DeadLettersKept` | `DlqSpec => []NoEventLost` |
| `NobodyOvertaken` | `DlqSpec => UntriedMoveUp` |

The cycle works on a copy and rewrites the queue at its end, and events arrive in
between. `DlqInv` says that until then the queue still holds everything
(`Kept`, without the event in hand unless a drain took it out), and that what was
copied is handled, put aside again, in hand or still to be tried
(`CopiesAccounted`), so that dropping the copies and appending what remains loses
nothing. A cycle that is cancelled has only given up its copies. What `Dropping`
leaves (`DroppingElements`) and what appending, joining and taking the head do to
the members of a list (`ElementsOfLists`) are lemmas of `Filtering_proofs`.
`UntriedMoveUp` is about order, not membership, and needs an invariant of its own
(`OrderInv`): no event is in the queue twice, what a cycle copied still is the front
of the queue when it ends, and it works through the copy in order (`InTurn`).
Filtering the copies out of the queue by equality, as the code does, is then the
same as cutting off its front (`DroppingFront`).

`SupportThreads_proofs`, for any orders, staff, texts and replies:

| theorem | says |
|---|---|
| `SupportTypes` | `SupportSpec => []SupportTypeOK` |
| `TextsStoredOnce` | `SupportSpec => []StoredOnce` |
| `ReadWasDrawn` | `SupportSpec => []ReadMeansDrawn` |

`SupportInv` adds that whatever is stored or waits was typed (`OnlyTyped`), so
that a new text is in no thread yet; a text leaves the router in the step that
stores it, so that it is never in both. `ReadMeansDrawn` says of a thread that
counts as read that its newest text was on page 0 when it was drawn, or which of
three things kept it off: Telegram refused, the history was cleared, or the text and
the replies after it are longer than a page.

`Settings_proofs`, `AddressBook`: for any services, spots and number of addresses:

| theorem | says |
|---|---|
| `AddressTypes` | `AddressSpec => []AddressTypeOK` |
| `OneDefault` | `AddressSpec => []OneDefaultPerService` |

The property is inductive with the types. Deleting a default needs that the
address created last exists (`LastCreated`, by well-foundedness of the natural
numbers), so that `Successor` is one of the same service.

`Settings_proofs`, `DeliveryAdmin`: for any finite set of points, any cities, and
any number of entries and passes:

| theorem | says |
|---|---|
| `DeliveryTypes` | both lists, the conversations and the customer's choice have their types |
| `TakenAsPressed` | `DeliverySpec => []PickupAsPressed` |
| `TypedAtOnce` | `DeliverySpec => []CityTypedAtOnce` |

`PickupAsPressed` is about the moment a button is pressed; what makes it true is
older: a list drawn while no point was hidden shows the points in the places where
the settings have them (`StraightList`), and hiding leaves every place as it is,
while a deletion, which moves the later ones, makes every list crooked.
`CityTypedAtOnce` needs that the answers so far are those of the pass under way
(`AnswersOfThisPass`): a restart drops the conversation and keeps its answers, but
the only way back in is the first question. `DeliveryAssumption` now says that the
points of the settings are finitely many, as a list in a JSON text is.

`Settings_proofs`, `InfoPages`: for any editors and number of pages:

| theorem | says |
|---|---|
| `PagesTypes` | types, and no page below a deleted one |
| `AnswersReachPage` | `PagesSpec => []AnswerGoesWhereAsked` |
| `ArrowsOnePlace` | `PagesSpec => ArrowsMoveOnePlace` |

That no page loses its parent is a property of the cascade: a page that stays is
left out by some set that has the deleted page and the children of all its
members, and then so is its parent (`DeleteTypes`). `AnswerGoesWhereAsked`
compares the memory with the question on the screen, unless the memory was emptied
meanwhile: then no text reaches a page.
It is inductive with the types (`TalkSteps`). The arrows are about counting:
pages with different numbers have the places 0 to n - 1, each once (`PlacesInOrder`,
`PlacesTaken`: an injection between finite sets of one size), so that an arrow
exchanges two of them, and after the renumbering the number of pages above one is
its new place (`CountedBelow`). Bijections and cardinalities come from
`FiniteSetTheorems`.

`ShopScreens_proofs`, for any catalogue that the assumptions describe:

| theorem | says |
|---|---|
| `ShopTypes` | `ShopSpec => []ShopTypeOK` |
| `CardsMatch` | `ShopSpec => []CardMatchesMemory` |
| `GalleryShowsIndexed` | `ShopSpec => []GalleryWithinList` |
| `ChosenShown` | `ShopSpec => ChosenIsShown` |
| `NoDeadButton` | `ShopSpec => ButtonsAnswered` |

`Coherent(ud, screen, conv)` is the inductive invariant: besides the two
invariants it says which menus carry a product or a category, that the category
"search" has results, and that nothing about products is on the screen while a
search text is awaited. Each handler is a function from coherent triples to
coherent triples (`DrawGood`, `ListGood`, ...), and the handlers that draw through
one another are proved in that order. For `NoDeadButton` the two tables are compared
once: `Fits` names the states that answer every button of a kind of menu, and
`FitsIsButtonsFit` shows that they are exactly those whose handlers hold its
keyboard, but for the three broken buttons, whatever is in the cart. What a handler draws is then of a kind that fits
the state it returns (`DrawingsFit`). Three handlers leave the old menu and need the
hypothesis that it was answered before: results without a photo (the list answers
whatever the search does), an expired cart behind a photo (an empty cart only takes
buttons away) and the repetition of an order without goods. `ShopTypeOK`, like the
types of `Registration`, `ConfigCache` and `AddressBook`, is proved and therefore not
repeated in a run.

How data are reasoned about. What a recursive definition computes is proved by
induction, and the induction theorems of the library take an operator as a
parameter, which the provers here cannot instantiate. `SetInduction` states
induction for a *set* of numbers instead, from `WFMin` and the well-foundedness of
the natural numbers; a predicate becomes the set of the numbers that satisfy it.
`DroppingExists` shows in this way that the function on which `Dropping` recurs
exists, and `DroppingElements` and `DroppingFront` what it leaves.

What liveness rests on. TLC checks the liveness properties; that no scheduling of
the steps can put an end off for ever is proved, as action properties that name a
bound, or an order, in which every step goes down:

| theorem | says | for |
|---|---|---|
| `RequestsWindDown` (`Infrastructure_proofs`) | what a request has before it (`Left`) falls with each of its steps and changes with no other | `RequestsEnd` |
| `RecoveryAdvances` (`Infrastructure_proofs`) | while the last failure stays old, each attempt that ends is one success more or closes the circuit, and nothing reopens it | `GatewayRecovers` |
| `NobodyOvertaken` (`Infrastructure_proofs`) | untried dead letters move up | `GoodEventsHandled` |
| `HandlerWindsDown` (`OrderCheckout_proofs`) | a step of the handler leaves it fewer steps, or fewer lines to copy; what comes between ends it or leaves it alone | `DispatcherFreed`, `CheckoutAnswered` |
| `OrderScreenReached` (`OrderCheckout_proofs`) | a checkout without a failed call ends on the order's screen, except in two ways that the theorem names | `CheckoutAnswered` |
| `HandlerWindsDown` (`Registration_proofs`) | the same with the chats still to tell | `ApplicationAnswered` |
| `SyncWindsDown` (`CatalogueSync_proofs`) | a synchronisation has fewer phases, folders or steps before it after each step; an edit or a flag during it adds nothing | `StartEnds` |

The orders are well-founded because carts, folders and admins' chats are finitely many.
What is left to fairness is that the event loop takes the steps, and to TLC that one
can always be taken. Of the two exceptions of `OrderScreenReached` the first is finding 1; the
second needs `auto_approve_orders`.

Only model-checked: the liveness properties `CircuitBreaks` (its fairness part),
`GatewayRecovers`, `RequestsEnd`, `GoodEventsHandled`, `DispatcherFreed`,
`CheckoutAnswered`, `ApplicationAnswered` and `StartEnds` themselves: fairness and
ENABLED are beyond the prover. Every invariant and every action property that a passing run
checks is stated by a theorem.

## 6. Not modelled

See the components with status `not_modelled` in `PROJECT.json`:

* Event store and event bus: created and never used; nothing appends an event.
* Notifications of favourites: nobody can subscribe (section 2).
* Tenants, state machine, state manager, unit of work: no handler reaches them.
* Observability, health, alerting: they read and report.

Inside the modelled ones: texts, the layout of keyboards, images, page drawing,
prompts and answers of the assistant; sorting; comments and ratings of orders; the
semantic search (in no table); the editor of the cart's rows and its undo (its
keyboard has no rows), so that the countdown job beside it is out of reach; the
courier choice (its handler is shadowed by `choose_delivery_method` and never
runs) and the switch of that service; the importance mark of a thread (its button
raises); `_load_from_redis` of the dead letters (nothing writes the list); the
cache's hashes and the product cache in front of Redis; registries that drop
breakers unused for an hour; the HTTP payload of the payment request (its product
list is always empty); updates still in the in-memory queue at a crash (they are
customers' actions that did not happen); two processes handling updates, or
synchronising, at once.

## 7. Plan

Done, in this order: `OrderDomain`, `CartService`, `OrderBook`, `OrderCheckout`;
`Registration`; `CatalogueSync`; `Gateway`, `Idempotency`, `DeadLetters`; the screens
(`ShopScreens`), correspondence (`SupportThreads`), settings (`InfoPages`,
`DeliveryAdmin`, `AddressBook`) and `ConfigCache`; proofs about all of them.

What would come next:

1. the overlap of two processes during a rolling update: two synchronisations,
   and a synchronisation beside the handlers of the older process;
2. the stop sequence of `main.py` around a running checkout, whether its handler
   still finishes its writes before the pool is closed;
3. `EventStore` as soon as something appends, and the undo of removals as soon as
   the cart editor has rows: an undo restores what was removed, or nothing.
