----------------------------- MODULE CatalogueSync -----------------------------
(***************************************************************************)
(* The synchronisation of the catalogue, product_sync_service.py: one file *)
(* product.txt per folder is copied into products and product_variants,    *)
(* and the hash of the file into sync_metadata, statement by statement and *)
(* without a transaction.  It runs when the process starts (post_init) and *)
(* when the staff ask for it; the shop's staff edit files and deployments  *)
(* replace them at any time.                                               *)
(*                                                                         *)
(* A file is abstracted to what the tables receive from it, and its hash   *)
(* to the file itself.  A folder keeps the name of its product, and names  *)
(* are distinct, so folders stand for names.                               *)
(***************************************************************************)
EXTENDS Integers

CONSTANTS
  Folders,      \* tg_bot/products/*
  Prices,       \* price blocks with a price the parser finds
  Unreadable,   \* a price block without one
  Written,      \* contents of files that people write
  Users,        \* customers with favourites
  None,         \* no file, no row, no hash
  EditedInPlace,  \* are files edited under a running process (bare metal), or
                  \* does an image bring them (Docker)?
  MaxEdits, MaxSyncs, MaxFaults, MaxFlags   \* bounds

ASSUME PriceAssumption == Unreadable \notin Prices /\ None \notin Prices

ASSUME BoundAssumption ==
  MaxEdits \in Nat /\ MaxSyncs \in Nat /\ MaxFaults \in Nat /\ MaxFlags \in Nat

\* The line "search:" of a file: missing, the name only, or with variants.
Searches == {"none", "name", "full"}

Files == [sale : BOOLEAN, price : Prices \cup {Unreadable}, search : Searches]

Rows == [id : Nat \ {0}, sale : BOOLEAN, search : Searches]

ASSUME DeploymentAssumption == EditedInPlace \in BOOLEAN

ASSUME NoneAssumption == None \notin Files \cup Rows \cup Folders

\* What people write.
ASSUME WrittenAssumption == Written \subseteq Files

VARIABLES
  files,      \* the product files of the running deployment
  flags,      \* the two force_recache flags of config.json
  \* the database
  products,   \* table products, by folder
  variants,   \* the price in product_variants, by folder
  serial,     \* the sequence behind products.id
  metadata,   \* table sync_metadata
  favourites, \* table user_favorites, with the product chosen (history)
  \* the process
  mode,       \* "down", in post_init ("starting"), or "serving"
  sync,       \* the running synchronisation
  \* history and bounds
  past,       \* every content a folder's file has had
  reverted,   \* some file has returned to an earlier content
  redone,     \* a folder was processed although its hash was recorded
  truncated,  \* force_recache_product has emptied the tables
  edits, syncs, faults, raised

disk   == <<files, past, reverted>>
tables == <<products, variants, serial, metadata>>
counts == <<edits, syncs, faults, raised>>
vars   == <<disk, flags, tables, favourites, mode, sync, redone, truncated, counts>>

\* The two steps of _handle_force_recache, the reading of the hashes, the loop
\* over the folders ("next"), and the steps of
\* _process_single_product_directory with the record of the hash.
InFolder == {"parse", "enrich", "upsert", "delete", "insert", "record"}
Steps == {"idle", "flags", "reset", "hashes", "next"} \cup InFolder

Syncs == [pc     : Steps,
          fresh  : BOOLEAN,                      \* db_recache
          forced : BOOLEAN,                      \* search_recache
          known  : [Folders -> Files \cup {None}],  \* sync_hashes
          todo   : SUBSET Folders,
          folder : Folders \cup {None},
          hash   : Files \cup {None},            \* current_hash
          parsed : Files \cup {None},            \* parsed_data
          quiet  : BOOLEAN]                      \* history: undisturbed so far

NoHashes == [f \in Folders |-> None]

NewSync == [pc |-> "flags", fresh |-> FALSE, forced |-> FALSE,
            known |-> NoHashes, todo |-> {}, folder |-> None,
            hash |-> None, parsed |-> None, quiet |-> TRUE]
NoSync == [NewSync EXCEPT !.pc = "idle"]

Favourites == [id : Nat \ {0}, of : Folders]

TypeOK ==
  /\ files \in [Folders -> Files \cup {None}]
  /\ flags \in [products : BOOLEAN, search : BOOLEAN]
  /\ products \in [Folders -> Rows \cup {None}]
  /\ variants \in [Folders -> Prices \cup {None}]
  /\ serial \in Nat \ {0}
  /\ metadata \in [Folders -> Files \cup {None}]
  /\ favourites \in [Users -> SUBSET Favourites]
  /\ mode \in {"down", "starting", "serving"}
  /\ sync \in Syncs
  /\ past \in [Folders -> SUBSET Files]
  /\ reverted \in BOOLEAN /\ redone \in BOOLEAN /\ truncated \in BOOLEAN
  /\ edits \in 0 .. MaxEdits /\ syncs \in 0 .. MaxSyncs
  /\ faults \in 0 .. MaxFaults /\ raised \in 0 .. MaxFlags

\* A first deployment on an empty database.
Init ==
  /\ files \in [Folders -> Written]
  /\ flags = [products |-> FALSE, search |-> FALSE]
  /\ products = [f \in Folders |-> None]
  /\ variants = [f \in Folders |-> None]
  /\ serial = 1
  /\ metadata = NoHashes
  /\ favourites = [u \in Users |-> {}]
  /\ mode = "down"
  /\ sync = NoSync
  /\ past = [f \in Folders |-> {files[f]}]
  /\ reverted = FALSE /\ redone = FALSE /\ truncated = FALSE
  /\ edits = 0 /\ syncs = 0 /\ faults = 0 /\ raised = 0

Exists(f) == files[f] # None

--------------------------------------------------------------------------------
(* The files                                                                *)

\* Folder f's file becomes c.
Becomes(f, c) ==
  /\ files' = [files EXCEPT ![f] = c]
  /\ past' = [past EXCEPT ![f] = @ \cup ({c} \ {None})]
  /\ reverted' = (reverted \/ (c # files[f] /\ c \in past[f]))

\* The staff edit a file, or a deployment adds, replaces or removes it.
Edit(f, c) ==
  /\ EditedInPlace \/ mode = "down"
  /\ edits < MaxEdits
  /\ c # files[f]
  /\ Becomes(f, c)
  /\ edits' = edits + 1
  /\ sync' = [sync EXCEPT !.quiet = FALSE]
  /\ UNCHANGED <<flags, tables, favourites, mode, redone, truncated, syncs, faults, raised>>

\* Someone asks for a recache in config.json.
RaiseFlag(flag) ==
  /\ raised < MaxFlags
  /\ ~flags[flag]
  /\ flags' = [flags EXCEPT ![flag] = TRUE]
  /\ raised' = raised + 1
  /\ UNCHANGED <<disk, tables, favourites, mode, sync, redone, truncated, edits, syncs, faults>>

--------------------------------------------------------------------------------
(* sync_products                                                            *)

\* main.py:389 and the two handlers of the staff.
StartSync(newMode) ==
  /\ sync.pc = "idle"
  /\ syncs < MaxSyncs
  /\ syncs' = syncs + 1
  /\ sync' = NewSync
  /\ mode' = newMode
  /\ UNCHANGED <<disk, flags, tables, favourites, redone, truncated, edits, faults, raised>>

Start     == mode = "down" /\ StartSync("starting")
StaffSync == mode = "serving" /\ StartSync("serving")

\* The process is stopped between two updates, for a deployment.
Stop ==
  /\ mode = "serving" /\ sync.pc = "idle"
  /\ mode' = "down"
  /\ UNCHANGED <<disk, flags, tables, favourites, sync, redone, truncated, counts>>

OnlySync == UNCHANGED <<disk, flags, tables, favourites, mode, redone, truncated, counts>>

\* Reading config.json, and the TRUNCATE that follows if its flag is up.
ReadFlags ==
  /\ sync.pc = "flags"
  /\ sync' = [sync EXCEPT !.fresh = flags.products, !.forced = flags.search,
                !.pc = IF flags.products \/ flags.search THEN "reset" ELSE "hashes"]
  /\ IF flags.products
     THEN /\ products' = [f \in Folders |-> None]
          /\ variants' = [f \in Folders |-> None]
          /\ metadata' = NoHashes
          /\ serial' = 1
          /\ truncated' = TRUE
     ELSE UNCHANGED <<tables, truncated>>
  /\ UNCHANGED <<disk, flags, favourites, mode, redone, counts>>

\* The copy read before is written back with the flags that were up put down.
ResetFlags ==
  /\ sync.pc = "reset"
  /\ flags' = [products |-> FALSE, search |-> FALSE]
  /\ sync' = [sync EXCEPT !.pc = "hashes"]
  /\ UNCHANGED <<disk, tables, favourites, mode, redone, truncated, counts>>

\* PRODUCTS_DIR.iterdir() lists the folders once, after the hashes were read.
Looping(known) ==
  [sync EXCEPT !.known = known, !.pc = "next",
               !.todo = {f \in Folders : Exists(f)}]

ReadHashes ==
  /\ sync.pc = "hashes"
  /\ sync' = Looping(IF sync.fresh THEN NoHashes ELSE metadata)
  /\ OnlySync

\* Deliberate bug: a folder that was synchronised once is never looked at again.
SkippedOnce(f) == ~sync.forced /\ sync.known[f] # None

\* The condition of the continue.
Skipped(f) == ~sync.forced /\ sync.known[f] = files[f]

\* Deliberate bug: a folder stays in the list.
StillToDo(f) == sync.todo

\* The folders after f in the loop.
Rest(f) == sync.todo \ {f}

\* The loop passes over a folder without product.txt or with a known hash.
Skip(f) ==
  /\ sync.pc = "next" /\ f \in sync.todo
  /\ ~Exists(f) \/ Skipped(f)
  /\ sync' = [sync EXCEPT !.todo = Rest(f)]
  /\ OnlySync

\* get_file_hash
Hash(f) ==
  /\ sync.pc = "next" /\ f \in sync.todo
  /\ Exists(f) /\ ~Skipped(f)
  /\ sync' = [sync EXCEPT !.pc = "parse", !.todo = Rest(f), !.folder = f,
                          !.hash = files[f]]
  /\ redone' = (redone \/ metadata[f] = files[f])
  /\ UNCHANGED <<disk, flags, tables, favourites, mode, truncated, counts>>

\* On to the next folder.
NextFolder == [sync EXCEPT !.pc = "next", !.folder = None, !.hash = None,
                           !.parsed = None]

\* parse_product_file, and whether the line "search:" is to be made.
Parse ==
  LET f == sync.folder IN
  /\ sync.pc = "parse"
  /\ Exists(f)
  /\ sync' = [sync EXCEPT !.parsed = files[f],
                !.pc = IF sync.forced \/ files[f].search # "full"
                       THEN "enrich" ELSE "upsert"]
  /\ OnlySync

\* The model was asked for variants of the name, and answers or not; the line
\* goes into the file as it is now.
Enrich(search) ==
  LET f == sync.folder IN
  /\ sync.pc = "enrich"
  /\ Exists(f)
  /\ Becomes(f, [files[f] EXCEPT !.search = search])
  /\ sync' = [sync EXCEPT !.parsed.search = search, !.pc = "upsert"]
  /\ UNCHANGED <<flags, tables, favourites, mode, redone, truncated, counts>>

\* The file is gone when it is read: open() raises, which the loop catches.
FileGone ==
  /\ sync.pc \in {"parse", "enrich"}
  /\ ~Exists(sync.folder)
  /\ sync' = NextFolder
  /\ OnlySync

\* Deliberate bug: the row is replaced, not updated.
ReplacedId(f) == serial

\* ON CONFLICT (name) DO UPDATE keeps the id.
RowId(f) == IF products[f] = None THEN serial ELSE products[f].id

\* The sequence is used up by the conflicting INSERT, too.
Upsert ==
  LET f == sync.folder IN
  /\ sync.pc = "upsert"
  /\ products' = [products EXCEPT ![f] =
       [id |-> RowId(f), sale |-> sync.parsed.sale, search |-> sync.parsed.search]]
  /\ serial' = serial + 1
  /\ sync' = [sync EXCEPT !.pc = "delete"]
  /\ UNCHANGED <<disk, flags, variants, metadata, favourites, mode, redone, truncated, counts>>

DeleteVariants ==
  LET f == sync.folder IN
  /\ sync.pc = "delete"
  /\ variants' = [variants EXCEPT ![f] = None]
  /\ sync' = [sync EXCEPT !.pc = "insert"]
  /\ UNCHANGED <<disk, flags, products, serial, metadata, favourites, mode, redone, truncated, counts>>

\* Deliberate bug: whatever the price block says is inserted.
AnyPrice(c) == c.price

\* _parse_and_insert_variants: without a price it inserts nothing.
PriceOf(c) == IF c.price = Unreadable THEN None ELSE c.price

InsertVariants ==
  LET f == sync.folder IN
  /\ sync.pc = "insert"
  /\ variants' = [variants EXCEPT ![f] = PriceOf(sync.parsed)]
  /\ sync' = [sync EXCEPT !.pc = "record"]
  /\ UNCHANGED <<disk, flags, products, serial, metadata, favourites, mode, redone, truncated, counts>>

\* Deliberate bug: the hash is taken when it is recorded.
HashNow(f) == files[f]

\* The hash was taken before the file was parsed and enriched.
HashTaken(f) == sync.hash

Record ==
  LET f == sync.folder IN
  /\ sync.pc = "record"
  /\ metadata' = [metadata EXCEPT ![f] = HashTaken(f)]
  /\ sync' = NextFolder
  /\ UNCHANGED <<disk, flags, products, variants, serial, favourites, mode, redone, truncated, counts>>

\* The end of sync_products.  The notices of restock that follow have nobody to
\* go to: the list of favourites never offers them (see README.md).
Finish ==
  /\ sync.pc = "next" /\ sync.todo = {}
  /\ sync' = NoSync
  /\ mode' = "serving"
  /\ UNCHANGED <<disk, flags, tables, favourites, redone, truncated, counts>>

SyncStep ==
  \/ ReadFlags \/ ResetFlags \/ ReadHashes
  \/ \E f \in Folders : Skip(f) \/ Hash(f)
  \/ Parse \/ (\E s \in {"name", "full"} : Enrich(s)) \/ FileGone
  \/ Upsert \/ DeleteVariants \/ InsertVariants \/ Record
  \/ Finish

--------------------------------------------------------------------------------
(* Failures                                                                 *)

Fault ==
  /\ faults < MaxFaults
  /\ faults' = faults + 1
  /\ UNCHANGED <<disk, flags, tables, favourites, redone, truncated, edits, syncs, raised>>

\* One of the four exceptions the loop catches.
FolderFails ==
  /\ sync.pc \in InFolder
  /\ sync' = [NextFolder EXCEPT !.quiet = FALSE]
  /\ UNCHANGED mode
  /\ Fault

\* The same while the hashes are read: all folders are then processed.
HashesFail ==
  /\ sync.pc = "hashes" /\ ~sync.fresh
  /\ sync' = [Looping(NoHashes) EXCEPT !.quiet = FALSE]
  /\ UNCHANGED mode
  /\ Fault

\* config.json cannot be read, the tables not be emptied, or the flags not be
\* written; what was done so far counts.
FlagsFail ==
  /\ sync.pc \in {"flags", "reset"}
  /\ sync' = [sync EXCEPT !.pc = "hashes", !.quiet = FALSE]
  /\ UNCHANGED mode
  /\ Fault

\* Any other exception, asyncpg's among them, ends the synchronisation.  In
\* post_init it ends the process.
SyncRaises ==
  /\ sync.pc # "idle"
  /\ sync' = NoSync
  /\ mode' = IF mode = "starting" THEN "down" ELSE mode
  /\ Fault

Crash ==
  /\ mode # "down"
  /\ mode' = "down"
  /\ sync' = NoSync
  /\ Fault

--------------------------------------------------------------------------------
(* The customers                                                            *)

\* A product's card carries the id of its row.
ToggleFavourite(u, f) ==
  LET favourite == [id |-> products[f].id, of |-> f]
      same == {v \in favourites[u] : v.id = favourite.id}
  IN /\ mode = "serving" /\ sync.pc = "idle"
     /\ products[f] # None
     /\ favourites' = [favourites EXCEPT ![u] =
                         IF same = {} THEN @ \cup {favourite} ELSE @ \ same]
     /\ UNCHANGED <<disk, flags, tables, mode, sync, redone, truncated, counts>>

--------------------------------------------------------------------------------

Environment ==
  \/ \E f \in Folders, c \in Written \cup {None} : Edit(f, c)
  \/ \E flag \in {"products", "search"} : RaiseFlag(flag)
  \/ Start \/ StaffSync \/ Stop
  \/ FolderFails \/ HashesFail \/ FlagsFail \/ SyncRaises \/ Crash
  \/ \E u \in Users, f \in Folders : ToggleFavourite(u, f)

Next == SyncStep \/ Environment

Spec == Init /\ [][Next]_vars

\* The event loop goes on with a synchronisation: its statements have a timeout
\* (main.py:240), and so have its requests to the model.
FairSpec == Spec /\ WF_vars(SyncStep)

--------------------------------------------------------------------------------
(* Properties                                                               *)

\* The tables hold what folder f's file says.
Agrees(f) ==
  /\ products[f] # None
  /\ products[f].sale = files[f].sale
  /\ products[f].search = files[f].search
  /\ variants[f] = PriceOf(files[f])

InHand(f) == sync.pc \in InFolder /\ sync.folder = f

\* No file has returned to an earlier content, and if a folder was processed
\* although its hash was recorded, then nothing failed.
Undisturbed == ~reverted /\ (redone => faults = 0)

\* A recorded hash is what makes a synchronisation pass over a folder, so it may
\* only be there when the tables hold the file: whatever fails, and whenever the
\* file is edited during the steps of _process_single_product_directory.
RecordedIsInCatalogue ==
  Undisturbed =>
    \A f \in Folders :
      Exists(f) /\ metadata[f] = files[f] /\ ~InHand(f) => Agrees(f)

\* A synchronisation in which nothing failed and nobody edited repairs what
\* earlier ones have left half done.
CompletedSyncRepairs ==
  [][sync.pc = "next" /\ sync.todo = {} /\ sync'.pc = "idle" /\ sync.quiet
       /\ Undisturbed
     => \A f \in Folders : Exists(f) => Agrees(f)]_vars

\* The same of a start of the process, without exception: after a rollback, the
\* product files of the version rolled back to are on sale.
StartPutsFilesOnSale ==
  [][mode = "starting" /\ mode' = "serving" /\ sync.quiet
     => \A f \in Folders : Exists(f) => Agrees(f)]_vars

\* user_favorites refers to products by id and no foreign key ties it to them:
\* the row of that id has to stay the product the customer chose.
FavouriteKeepsItsProduct ==
  ~truncated =>
    \A u \in Users : \A v \in favourites[u] :
      products[v.of] # None /\ products[v.of].id = v.id

\* post_init comes to an end: the process serves customers or has stopped.
StartEnds == mode = "starting" ~> mode # "starting"
================================================================================
