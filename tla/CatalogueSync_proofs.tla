-------------------------- MODULE CatalogueSync_proofs --------------------------
(***************************************************************************)
(* Theorems about CatalogueSync, for every set of folders, files, prices   *)
(* and customers and every bound.                                          *)
(***************************************************************************)
EXTENDS CatalogueSync, TLAPS

--------------------------------------------------------------------------------
(* The inductive invariant                                                  *)

Looped == {"next"} \cup InFolder

\* What the loop's variables hold where it uses them.
LoopInv ==
  /\ sync.pc \in InFolder =>
       sync.folder \in Folders \ sync.todo /\ sync.hash \in past[sync.folder]
  /\ sync.pc \in InFolder \ {"parse"} => sync.parsed \in Files
  /\ sync.pc \in Looped =>
       \A f \in sync.todo : sync.known[f] \in {None, metadata[f]}

\* What a file is, or was recorded as, it has been.
PastInv ==
  \A f \in Folders :
    /\ Exists(f) => files[f] \in past[f]
    /\ metadata[f] # None => metadata[f] \in past[f]

\* The folder in hand is there because its hash was not the recorded one.
HandInv ==
  ~reverted /\ ~redone /\ sync.pc \in InFolder /\ Exists(sync.folder) =>
    metadata[sync.folder] # files[sync.folder]

\* If the file in hand still is the one that was hashed, it is the one parsed;
\* undisturbed, the file is the one parsed.
ParsedInv ==
  sync.pc \in InFolder \ {"parse"} =>
    /\ ~reverted /\ files[sync.folder] = sync.hash => sync.parsed = sync.hash
    /\ sync.quiet => files[sync.folder] = sync.parsed

\* The tables of the folder in hand, as far as they were written.
RowInv ==
  /\ sync.pc \in {"delete", "insert", "record"} =>
       /\ products[sync.folder] # None
       /\ products[sync.folder].sale = sync.parsed.sale
       /\ products[sync.folder].search = sync.parsed.search
  /\ sync.pc = "record" => variants[sync.folder] = PriceOf(sync.parsed)

\* Undisturbed, the folders that the loop has left behind are in order.
DoneInv ==
  sync.quiet /\ sync.pc \in Looped /\ Undisturbed =>
    \A f \in Folders \ sync.todo : Exists(f) /\ ~InHand(f) => Agrees(f)

SyncInv ==
  /\ TypeOK
  /\ LoopInv
  /\ PastInv
  /\ HandInv
  /\ ParsedInv
  /\ RowInv
  /\ RecordedIsInCatalogue
  /\ DoneInv

--------------------------------------------------------------------------------

\* Nothing is recorded, nothing is in hand.
LEMMA InitInv == Init => SyncInv
  <1> SUFFICES ASSUME Init PROVE SyncInv
    OBVIOUS
  <1>1. TypeOK
    <2>1. sync \in Syncs
      BY DEF Init, Syncs, NoSync, NewSync, NoHashes, Steps
    <2>2. files \in [Folders -> Files \cup {None}] /\ past \in [Folders -> SUBSET Files]
      BY WrittenAssumption DEF Init
    <2>3. /\ products \in [Folders -> Rows \cup {None}]
          /\ variants \in [Folders -> Prices \cup {None}]
          /\ metadata \in [Folders -> Files \cup {None}]
          /\ favourites \in [Users -> SUBSET Favourites]
      BY DEF Init, NoHashes
    <2>4. flags \in [products : BOOLEAN, search : BOOLEAN]
      BY DEF Init
    <2>5. /\ edits \in 0 .. MaxEdits /\ syncs \in 0 .. MaxSyncs
          /\ faults \in 0 .. MaxFaults /\ raised \in 0 .. MaxFlags
      BY BoundAssumption DEF Init
    <2>6. serial \in Nat \ {0} /\ mode \in {"down", "starting", "serving"}
      BY DEF Init
    <2>7. reverted \in BOOLEAN /\ redone \in BOOLEAN /\ truncated \in BOOLEAN
      BY DEF Init
    <2> QED
      BY <2>1, <2>2, <2>3, <2>4, <2>5, <2>6, <2>7 DEF TypeOK
  <1>2. PastInv
    BY DEF Init, PastInv, Exists, NoHashes
  <1>3. LoopInv /\ HandInv /\ ParsedInv /\ RowInv /\ DoneInv
    BY DEF Init, LoopInv, HandInv, ParsedInv, RowInv, DoneInv, Looped, InFolder,
           NoSync
  <1>4. RecordedIsInCatalogue
    BY DEF Init, RecordedIsInCatalogue, Exists, NoHashes
  <1> QED
    BY <1>1, <1>2, <1>3, <1>4 DEF SyncInv

\* Outside the loop, what is said about the loop says nothing.
LEMMA OutsideLoop ==
  ASSUME sync'.pc \notin Looped
  PROVE  LoopInv' /\ HandInv' /\ ParsedInv' /\ RowInv' /\ DoneInv'
  BY DEF LoopInv, HandInv, ParsedInv, RowInv, DoneInv, Looped, InFolder

\* Steps that leave files, tables and the synchronisation alone.
LEMMA ElsewhereInv ==
  ASSUME SyncInv, TypeOK',
         UNCHANGED <<disk, products, variants, metadata, sync, redone, faults>>
  PROVE  SyncInv'
  <1>1. LoopInv' /\ PastInv' /\ HandInv'
    BY DEF SyncInv, LoopInv, PastInv, HandInv, Exists, disk
  <1>2. ParsedInv' /\ RowInv'
    BY DEF SyncInv, ParsedInv, RowInv, disk, PriceOf
  <1>3. RecordedIsInCatalogue' /\ DoneInv'
    BY DEF SyncInv, RecordedIsInCatalogue, DoneInv, disk, Exists, Agrees,
           InHand, Undisturbed
  <1> QED
    BY <1>1, <1>2, <1>3 DEF SyncInv

(* The steps of others. *)

LEMMA RaiseFlagInv ==
  ASSUME SyncInv, NEW flag \in {"products", "search"}, RaiseFlag(flag)
  PROVE  SyncInv'
  <1>1. TypeOK'
    <2>1. flag = "products" => flags' = [flags EXCEPT !.products = TRUE]
      BY DEF RaiseFlag
    <2>2. flag = "search" => flags' = [flags EXCEPT !.search = TRUE]
      BY DEF RaiseFlag
    <2>3. flags' \in [products : BOOLEAN, search : BOOLEAN]
      BY <2>1, <2>2 DEF SyncInv, TypeOK
    <2>4. raised' \in 0 .. MaxFlags
      BY BoundAssumption DEF SyncInv, TypeOK, RaiseFlag
    <2> QED
      BY <2>1, <2>2, <2>3, <2>4 DEF SyncInv, TypeOK, RaiseFlag, disk, tables
  <1> QED
    BY <1>1, ElsewhereInv DEF RaiseFlag, disk, tables

LEMMA StopInv ==
  ASSUME SyncInv, Stop
  PROVE  SyncInv'
  <1>1. TypeOK'
    BY DEF SyncInv, TypeOK, Stop, disk, tables, counts
  <1> QED
    BY <1>1, ElsewhereInv DEF Stop, disk, tables, counts

LEMMA ToggleFavouriteInv ==
  ASSUME SyncInv, NEW u \in Users, NEW f \in Folders, ToggleFavourite(u, f)
  PROVE  SyncInv'
  <1>1. TypeOK'
    <2>1. products[f].id \in Nat \ {0}
      BY DEF SyncInv, TypeOK, ToggleFavourite, Rows
    <2>2. favourites' \in [Users -> SUBSET Favourites]
      BY <2>1 DEF SyncInv, TypeOK, ToggleFavourite, Favourites
    <2> QED
      BY <2>1, <2>2 DEF SyncInv, TypeOK, ToggleFavourite, disk, tables, counts
  <1> QED
    BY <1>1, ElsewhereInv DEF ToggleFavourite, disk, tables, counts

\* An edit makes the file differ from the hash in hand, or is a return to an
\* earlier content.
LEMMA EditInv ==
  ASSUME SyncInv, NEW f \in Folders, NEW c \in Written \cup {None}, Edit(f, c)
  PROVE  SyncInv'
  <1>1. TypeOK'
    <2>1. files' \in [Folders -> Files \cup {None}] /\ past' \in [Folders -> SUBSET Files]
      BY WrittenAssumption, NoneAssumption DEF SyncInv, TypeOK, Edit, Becomes
    <2>2. sync' \in Syncs
      BY DEF SyncInv, TypeOK, Edit, Syncs
    <2>3. edits' \in 0 .. MaxEdits /\ reverted' \in BOOLEAN
      BY BoundAssumption DEF SyncInv, TypeOK, Edit, Becomes
    <2> QED
      BY <2>1, <2>2, <2>3 DEF SyncInv, TypeOK, Edit, tables
  <1>2. LoopInv'
    BY DEF SyncInv, Edit, Becomes, tables, LoopInv
  <1>3. PastInv'
    BY DEF SyncInv, TypeOK, Edit, Becomes, tables, PastInv, Exists
  <1>4. HandInv'
    BY DEF SyncInv, TypeOK, Edit, Becomes, tables, Syncs, HandInv, PastInv,
           LoopInv, Exists
  <1>5. ParsedInv'
    BY DEF SyncInv, TypeOK, Edit, Becomes, Syncs, ParsedInv, LoopInv
  <1>6. RowInv'
    BY DEF SyncInv, Edit, tables, RowInv
  <1>7. RecordedIsInCatalogue'
    BY DEF SyncInv, TypeOK, Edit, Becomes, tables, Syncs, RecordedIsInCatalogue,
           PastInv, InHand, Agrees, Undisturbed, Exists
  <1>8. DoneInv'
    BY DEF SyncInv, Edit, DoneInv
  <1> QED
    BY <1>1, <1>2, <1>3, <1>4, <1>5, <1>6, <1>7, <1>8 DEF SyncInv

(* The steps before and after the loop. *)

LEMMA StartSyncInv ==
  ASSUME SyncInv, NEW m \in {"starting", "serving"}, StartSync(m)
  PROVE  SyncInv'
  <1>1. TypeOK'
    <2>1. sync' \in Syncs
      BY DEF SyncInv, StartSync, Syncs, NewSync, NoHashes, Steps
    <2>2. syncs' \in 0 .. MaxSyncs
      BY BoundAssumption DEF SyncInv, TypeOK, StartSync
    <2> QED
      BY <2>1, <2>2 DEF SyncInv, TypeOK, StartSync, disk, tables, NewSync
  <1>2. PastInv'
    BY DEF SyncInv, PastInv, Exists, StartSync, disk, tables
  <1>3. RecordedIsInCatalogue'
    BY DEF SyncInv, RecordedIsInCatalogue, InHand, InFolder, Agrees,
           Undisturbed, Exists, StartSync, disk, tables
  <1>4. sync'.pc \notin Looped
    BY DEF SyncInv, Looped, InFolder, StartSync, NewSync
  <1> QED
    BY <1>1, <1>2, <1>3, <1>4, OutsideLoop DEF SyncInv

\* After a TRUNCATE nothing is recorded.
LEMMA ReadFlagsInv ==
  ASSUME SyncInv, ReadFlags
  PROVE  SyncInv'
  <1>1. sync' \in Syncs /\ sync'.pc \notin Looped
    BY DEF SyncInv, TypeOK, ReadFlags, Syncs, Steps, Looped, InFolder
  <1>2. CASE flags.products
    <2>1. /\ products' = [g \in Folders |-> None]
          /\ variants' = [g \in Folders |-> None]
          /\ metadata' = [g \in Folders |-> None]
          /\ serial' = 1 /\ truncated' = TRUE
      BY <1>2 DEF ReadFlags, NoHashes
    <2>2. TypeOK'
      BY <1>1, <2>1 DEF SyncInv, TypeOK, ReadFlags, disk, counts
    <2>3. PastInv'
      BY <2>1 DEF SyncInv, PastInv, Exists, ReadFlags, disk
    <2>4. RecordedIsInCatalogue'
      BY <2>1 DEF RecordedIsInCatalogue, Exists
    <2> QED
      BY <1>1, <2>2, <2>3, <2>4, OutsideLoop DEF SyncInv
  <1>3. CASE ~flags.products
    <2>1. UNCHANGED tables /\ UNCHANGED truncated
      BY <1>3 DEF ReadFlags, tables
    <2>2. TypeOK'
      BY <1>1, <2>1 DEF SyncInv, TypeOK, ReadFlags, disk, tables, counts
    <2>3. PastInv'
      BY <2>1 DEF SyncInv, PastInv, Exists, ReadFlags, disk, tables
    <2>4. RecordedIsInCatalogue'
      BY <2>1
         DEF SyncInv, RecordedIsInCatalogue, Exists, InHand, InFolder, Agrees,
             Undisturbed, ReadFlags, disk, tables, counts
    <2> QED
      BY <1>1, <2>2, <2>3, <2>4, OutsideLoop DEF SyncInv
  <1> QED
    BY <1>2, <1>3

LEMMA ResetFlagsInv ==
  ASSUME SyncInv, ResetFlags
  PROVE  SyncInv'
  <1>1. TypeOK'
    <2>1. sync' \in Syncs
      BY DEF SyncInv, TypeOK, ResetFlags, Syncs, Steps
    <2>2. flags' \in [products : BOOLEAN, search : BOOLEAN]
      BY DEF ResetFlags
    <2> QED
      BY <2>1, <2>2 DEF SyncInv, TypeOK, ResetFlags, disk, tables, counts
  <1>2. PastInv'
    BY DEF SyncInv, PastInv, Exists, ResetFlags, disk, tables
  <1>3. RecordedIsInCatalogue'
    BY DEF SyncInv, RecordedIsInCatalogue, InHand, InFolder, Agrees,
           Undisturbed, Exists, ResetFlags, disk, tables, counts
  <1>4. sync'.pc \notin Looped
    BY DEF SyncInv, Looped, InFolder, ResetFlags
  <1> QED
    BY <1>1, <1>2, <1>3, <1>4, OutsideLoop DEF SyncInv

LEMMA FinishInv ==
  ASSUME SyncInv, Finish
  PROVE  SyncInv'
  <1>1. TypeOK'
    <2>1. sync' \in Syncs
      BY DEF SyncInv, Finish, NoSync, NewSync, NoHashes, Syncs, Steps
    <2> QED
      BY <2>1 DEF SyncInv, TypeOK, Finish, disk, tables, counts
  <1>2. PastInv'
    BY DEF SyncInv, PastInv, Exists, Finish, disk, tables
  <1>3. RecordedIsInCatalogue'
    BY DEF SyncInv, RecordedIsInCatalogue, InHand, InFolder, Agrees,
           Undisturbed, Exists, Finish, disk, tables, counts
  <1>4. sync'.pc \notin Looped
    BY DEF SyncInv, Looped, InFolder, Finish, NoSync
  <1> QED
    BY <1>1, <1>2, <1>3, <1>4, OutsideLoop DEF SyncInv

LEMMA FlagsFailInv ==
  ASSUME SyncInv, FlagsFail
  PROVE  SyncInv'
  <1>1. TypeOK'
    <2>1. sync' \in Syncs
      BY DEF SyncInv, TypeOK, FlagsFail, Syncs, Steps
    <2>2. faults' \in 0 .. MaxFaults
      BY BoundAssumption DEF SyncInv, TypeOK, FlagsFail, Fault
    <2> QED
      BY <2>1, <2>2 DEF SyncInv, TypeOK, FlagsFail, Fault, disk, tables
  <1>2. PastInv'
    BY DEF SyncInv, PastInv, Exists, FlagsFail, Fault, disk, tables
  <1>3. RecordedIsInCatalogue'
    BY DEF SyncInv, TypeOK, RecordedIsInCatalogue, InHand, InFolder, Agrees,
           Undisturbed, Exists, FlagsFail, Fault, disk, tables
  <1>4. sync'.pc \notin Looped
    BY DEF SyncInv, Looped, InFolder, FlagsFail
  <1> QED
    BY <1>1, <1>2, <1>3, <1>4, OutsideLoop DEF SyncInv

\* The folder in hand is left behind: HandInv has its recorded hash differ.
LEMMA SyncRaisesInv ==
  ASSUME SyncInv, SyncRaises
  PROVE  SyncInv'
  <1>1. TypeOK'
    <2>1. sync' \in Syncs
      BY DEF SyncInv, NoSync, NewSync, NoHashes, SyncRaises, Syncs, Steps
    <2>2. faults' \in 0 .. MaxFaults
      BY BoundAssumption DEF SyncInv, TypeOK, SyncRaises, Fault
    <2> QED
      BY <2>1, <2>2 DEF SyncInv, TypeOK, SyncRaises, Fault, disk, tables
  <1>2. PastInv'
    BY DEF SyncInv, PastInv, Exists, SyncRaises, Fault, disk, tables
  <1>3. RecordedIsInCatalogue'
    BY DEF SyncInv, TypeOK, RecordedIsInCatalogue, HandInv, InHand, Agrees,
           Undisturbed, Exists, SyncRaises, Fault, disk, tables
  <1>4. sync'.pc \notin Looped
    BY DEF SyncInv, Looped, InFolder, SyncRaises, NoSync
  <1> QED
    BY <1>1, <1>2, <1>3, <1>4, OutsideLoop DEF SyncInv

LEMMA CrashInv ==
  ASSUME SyncInv, Crash
  PROVE  SyncInv'
  <1>1. TypeOK'
    <2>1. sync' \in Syncs
      BY DEF SyncInv, NoSync, NewSync, NoHashes, Crash, Syncs, Steps
    <2>2. faults' \in 0 .. MaxFaults
      BY BoundAssumption DEF SyncInv, TypeOK, Crash, Fault
    <2> QED
      BY <2>1, <2>2 DEF SyncInv, TypeOK, Crash, Fault, disk, tables
  <1>2. PastInv'
    BY DEF SyncInv, PastInv, Exists, Crash, Fault, disk, tables
  <1>3. RecordedIsInCatalogue'
    BY DEF SyncInv, TypeOK, RecordedIsInCatalogue, HandInv, InHand, Agrees,
           Undisturbed, Exists, Crash, Fault, disk, tables
  <1>4. sync'.pc \notin Looped
    BY DEF SyncInv, Looped, InFolder, Crash, NoSync
  <1> QED
    BY <1>1, <1>2, <1>3, <1>4, OutsideLoop DEF SyncInv

(* The loop. *)

\* Here the hashes in memory become those recorded.
LEMMA ReadHashesInv ==
  ASSUME SyncInv, ReadHashes
  PROVE  SyncInv'
  <1>1. TypeOK'
    <2>1. sync' \in Syncs
      BY DEF SyncInv, TypeOK, ReadHashes, Looping, Syncs, Steps, NoHashes
    <2> QED
      BY <2>1 DEF SyncInv, TypeOK, ReadHashes, OnlySync, disk, tables, counts
  <1>2. LoopInv'
    BY DEF SyncInv, LoopInv, InFolder, ReadHashes, Looping, OnlySync, tables,
           NoHashes
  <1>3. PastInv'
    BY DEF SyncInv, PastInv, Exists, ReadHashes, OnlySync, disk, tables
  <1>4. HandInv'
    BY DEF SyncInv, HandInv, InFolder, ReadHashes, Looping
  <1>5. ParsedInv'
    BY DEF SyncInv, ParsedInv, InFolder, ReadHashes, Looping
  <1>6. RowInv'
    BY DEF SyncInv, RowInv, ReadHashes, Looping
  <1>7. RecordedIsInCatalogue'
    BY DEF SyncInv, RecordedIsInCatalogue, InHand, InFolder, Agrees,
           Undisturbed, Exists, ReadHashes, OnlySync, disk, tables, counts
  <1>8. DoneInv'
    BY DEF SyncInv, DoneInv, Exists, ReadHashes, Looping, OnlySync, disk
  <1> QED
    BY <1>1, <1>2, <1>3, <1>4, <1>5, <1>6, <1>7, <1>8 DEF SyncInv

\* Without hashes nothing is passed over.
LEMMA HashesFailInv ==
  ASSUME SyncInv, HashesFail
  PROVE  SyncInv'
  <1>1. TypeOK'
    <2>1. sync' \in Syncs
      BY DEF SyncInv, TypeOK, HashesFail, Looping, NoHashes, Syncs, Steps
    <2>2. faults' \in 0 .. MaxFaults
      BY BoundAssumption DEF SyncInv, TypeOK, HashesFail, Fault
    <2> QED
      BY <2>1, <2>2 DEF SyncInv, TypeOK, HashesFail, Fault, disk, tables
  <1>2. LoopInv'
    BY DEF SyncInv, LoopInv, InFolder, HashesFail, Looping, NoHashes
  <1>3. PastInv'
    BY DEF SyncInv, PastInv, Exists, HashesFail, Fault, disk, tables
  <1>4. HandInv'
    BY DEF SyncInv, HandInv, InFolder, HashesFail, Looping
  <1>5. ParsedInv'
    BY DEF SyncInv, ParsedInv, InFolder, HashesFail, Looping
  <1>6. RowInv'
    BY DEF SyncInv, RowInv, HashesFail, Looping
  <1>7. RecordedIsInCatalogue'
    BY DEF SyncInv, TypeOK, RecordedIsInCatalogue, InHand, InFolder, Agrees,
           Undisturbed, Exists, HashesFail, Fault, disk, tables
  <1>8. DoneInv'
    BY DEF SyncInv, DoneInv, HashesFail
  <1> QED
    BY <1>1, <1>2, <1>3, <1>4, <1>5, <1>6, <1>7, <1>8 DEF SyncInv

\* A folder is passed over when its file is the recorded one: it is in order.
LEMMA SkipInv ==
  ASSUME SyncInv, NEW f \in Folders, Skip(f)
  PROVE  SyncInv'
  <1>1. TypeOK'
    <2>1. sync' \in Syncs
      BY DEF SyncInv, TypeOK, Skip, Rest, Syncs
    <2> QED
      BY <2>1 DEF SyncInv, TypeOK, Skip, OnlySync, disk, tables, counts
  <1>2. LoopInv'
    BY DEF SyncInv, LoopInv, Skip, Rest, OnlySync, disk, tables
  <1>3. PastInv'
    BY DEF SyncInv, PastInv, Exists, Skip, OnlySync, disk, tables
  <1>4. HandInv'
    BY DEF SyncInv, HandInv, InFolder, Skip
  <1>5. ParsedInv'
    BY DEF SyncInv, ParsedInv, Skip, OnlySync, disk
  <1>6. RowInv'
    BY DEF SyncInv, RowInv, Skip
  <1>7. RecordedIsInCatalogue'
    BY DEF SyncInv, RecordedIsInCatalogue, InHand, Agrees, Undisturbed, Exists,
           Skip, OnlySync, disk, tables, counts
  <1>8. DoneInv'
    BY DEF SyncInv, DoneInv, RecordedIsInCatalogue, LoopInv, InHand, Agrees,
           Undisturbed, Exists, Skip, Skipped, Rest, OnlySync, disk, tables,
           counts
  <1> QED
    BY <1>1, <1>2, <1>3, <1>4, <1>5, <1>6, <1>7, <1>8 DEF SyncInv

\* The folder comes into hand with its recorded hash different, or is redone.
LEMMA HashInv ==
  ASSUME SyncInv, NEW f \in Folders, Hash(f)
  PROVE  SyncInv'
  <1>1. TypeOK'
    <2>1. sync' \in Syncs
      BY DEF SyncInv, TypeOK, Hash, Rest, Syncs, Steps, InFolder
    <2>2. redone' \in BOOLEAN
      BY DEF SyncInv, TypeOK, Hash
    <2> QED
      BY <2>1, <2>2 DEF SyncInv, TypeOK, Hash, disk, tables, counts
  <1>2. LoopInv'
    BY DEF SyncInv, LoopInv, PastInv, Looped, Hash, Rest, disk, tables
  <1>3. PastInv'
    BY DEF SyncInv, PastInv, Exists, Hash, disk, tables
  <1>4. HandInv'
    BY DEF SyncInv, TypeOK, Syncs, HandInv, Hash, disk, tables
  <1>5. ParsedInv'
    BY DEF SyncInv, ParsedInv, Hash
  <1>6. RowInv'
    BY DEF SyncInv, RowInv, Hash
  <1>7. RecordedIsInCatalogue'
    BY DEF SyncInv, RecordedIsInCatalogue, InHand, InFolder, Agrees,
           Undisturbed, Exists, Hash, disk, tables, counts
  <1>8. DoneInv'
    BY DEF SyncInv, TypeOK, DoneInv, Looped, InHand, InFolder, Agrees,
           Undisturbed, Exists, Hash, Rest, disk, tables, counts
  <1> QED
    BY <1>1, <1>2, <1>3, <1>4, <1>5, <1>6, <1>7, <1>8 DEF SyncInv

LEMMA ParseInv ==
  ASSUME SyncInv, Parse
  PROVE  SyncInv'
  <1>1. TypeOK'
    <2>1. sync' \in Syncs
      BY DEF SyncInv, TypeOK, LoopInv, Parse, Syncs, Steps, InFolder
    <2> QED
      BY <2>1 DEF SyncInv, TypeOK, Parse, OnlySync, disk, tables, counts
  <1>2. LoopInv'
    BY DEF SyncInv, TypeOK, LoopInv, Exists, Looped, InFolder, Parse, OnlySync,
           disk, tables
  <1>3. PastInv'
    BY DEF SyncInv, PastInv, Exists, Parse, OnlySync, disk, tables
  <1>4. HandInv'
    BY DEF SyncInv, HandInv, InFolder, Parse, OnlySync, disk, tables
  <1>5. ParsedInv'
    BY DEF SyncInv, ParsedInv, Parse, OnlySync, disk
  <1>6. RowInv'
    BY DEF SyncInv, RowInv, Parse
  <1>7. RecordedIsInCatalogue'
    BY DEF SyncInv, RecordedIsInCatalogue, InHand, InFolder, Agrees,
           Undisturbed, Exists, Parse, OnlySync, disk, tables, counts
  <1>8. DoneInv'
    BY DEF SyncInv, DoneInv, Looped, InHand, InFolder, Agrees, Undisturbed,
           Exists, Parse, OnlySync, disk, tables, counts
  <1> QED
    BY <1>1, <1>2, <1>3, <1>4, <1>5, <1>6, <1>7, <1>8 DEF SyncInv

\* The file and what was parsed get the same line "search:".
LEMMA EnrichInv ==
  ASSUME SyncInv, NEW s \in {"name", "full"}, Enrich(s)
  PROVE  SyncInv'
  <1>1. TypeOK'
    <2>1. [files[sync.folder] EXCEPT !.search = s] \in Files
      BY DEF SyncInv, TypeOK, LoopInv, InFolder, Enrich, Exists, Files, Searches
    <2>2. files' \in [Folders -> Files \cup {None}] /\ past' \in [Folders -> SUBSET Files]
      BY <2>1 DEF SyncInv, TypeOK, Enrich, Becomes
    <2>3. [sync.parsed EXCEPT !.search = s] \in Files
      BY DEF SyncInv, LoopInv, InFolder, Enrich, Files, Searches
    <2>4. sync' \in Syncs
      BY <2>3 DEF SyncInv, TypeOK, Enrich, Syncs, Steps, InFolder
    <2>5. reverted' \in BOOLEAN
      BY DEF Enrich, Becomes, SyncInv, TypeOK
    <2> QED
      BY <2>1, <2>2, <2>3, <2>4, <2>5
         DEF SyncInv, TypeOK, Enrich, Becomes, tables, counts
  <1>2. LoopInv'
    <2>1. sync'.parsed \in Files
      BY DEF SyncInv, LoopInv, InFolder, Enrich, Files, Searches
    <2> QED
      BY <2>1 DEF SyncInv, LoopInv, Looped, InFolder, Enrich, Becomes, tables
  <1>3. PastInv'
    BY DEF SyncInv, TypeOK, PastInv, Exists, Enrich, Becomes, tables
  <1>4. HandInv'
    BY DEF SyncInv, TypeOK, Syncs, HandInv, LoopInv, PastInv, Exists, InFolder,
           Enrich, Becomes, tables
  <1>5. ParsedInv'
    BY DEF SyncInv, TypeOK, Syncs, ParsedInv, LoopInv, InFolder, Enrich, Becomes
  <1>6. RowInv'
    BY DEF SyncInv, RowInv, Enrich
  <1>7. RecordedIsInCatalogue'
    BY DEF SyncInv, TypeOK, RecordedIsInCatalogue, InHand, InFolder, Agrees,
           Undisturbed, Exists, Enrich, Becomes, tables, counts
  <1>8. DoneInv'
    BY DEF SyncInv, TypeOK, DoneInv, Looped, InHand, InFolder, Agrees,
           Undisturbed, Exists, Enrich, Becomes, tables, counts
  <1> QED
    BY <1>1, <1>2, <1>3, <1>4, <1>5, <1>6, <1>7, <1>8 DEF SyncInv

LEMMA FileGoneInv ==
  ASSUME SyncInv, FileGone
  PROVE  SyncInv'
  <1>1. TypeOK'
    <2>1. sync' \in Syncs
      BY DEF SyncInv, TypeOK, FileGone, NextFolder, Syncs, Steps
    <2> QED
      BY <2>1 DEF SyncInv, TypeOK, FileGone, OnlySync, disk, tables, counts
  <1>2. LoopInv'
    BY DEF SyncInv, LoopInv, Looped, InFolder, FileGone, NextFolder, OnlySync,
           tables
  <1>3. PastInv'
    BY DEF SyncInv, PastInv, Exists, FileGone, OnlySync, disk, tables
  <1>4. HandInv'
    BY DEF SyncInv, HandInv, InFolder, FileGone, NextFolder
  <1>5. ParsedInv'
    BY DEF SyncInv, ParsedInv, InFolder, FileGone, NextFolder
  <1>6. RowInv'
    BY DEF SyncInv, RowInv, FileGone, NextFolder
  <1>7. RecordedIsInCatalogue'
    BY DEF SyncInv, RecordedIsInCatalogue, InHand, Agrees, Undisturbed, Exists,
           FileGone, OnlySync, disk, tables, counts
  <1>8. DoneInv'
    BY DEF SyncInv, DoneInv, Looped, InHand, InFolder, Agrees, Undisturbed,
           Exists, FileGone, NextFolder, OnlySync, disk, tables, counts
  <1> QED
    BY <1>1, <1>2, <1>3, <1>4, <1>5, <1>6, <1>7, <1>8 DEF SyncInv

(* The statements of the folder in hand disturb no other folder. *)

LEMMA UpsertInv ==
  ASSUME SyncInv, Upsert
  PROVE  SyncInv'
  <1>1. TypeOK'
    <2>1. RowId(sync.folder) \in Nat \ {0}
      BY DEF SyncInv, TypeOK, LoopInv, InFolder, Upsert, RowId, Rows
    <2>2. products' \in [Folders -> Rows \cup {None}]
      BY <2>1 DEF SyncInv, TypeOK, LoopInv, InFolder, Upsert, Rows, Files
    <2>3. serial' \in Nat \ {0}
      BY DEF SyncInv, TypeOK, Upsert
    <2>4. sync' \in Syncs
      BY DEF SyncInv, TypeOK, Upsert, Syncs, Steps, InFolder
    <2> QED
      BY <2>1, <2>2, <2>3, <2>4 DEF SyncInv, TypeOK, Upsert, disk, counts
  <1>2. LoopInv'
    BY DEF SyncInv, LoopInv, Looped, InFolder, Upsert, disk
  <1>3. PastInv'
    BY DEF SyncInv, PastInv, Exists, Upsert, disk
  <1>4. HandInv'
    BY DEF SyncInv, HandInv, Exists, InFolder, Upsert, disk
  <1>5. ParsedInv'
    BY DEF SyncInv, ParsedInv, InFolder, Upsert, disk
  <1>6. RowInv'
    <2>1. products'[sync.folder] \in Rows
      BY <1>1 DEF TypeOK, SyncInv, LoopInv, InFolder, Upsert, RowId, Rows, Files
    <2> QED
      BY <2>1, NoneAssumption
         DEF SyncInv, TypeOK, LoopInv, InFolder, RowInv, Upsert
  <1>7. RecordedIsInCatalogue'
    BY DEF SyncInv, RecordedIsInCatalogue, InHand, InFolder, Agrees,
           Undisturbed, Exists, Upsert, disk, counts
  <1>8. DoneInv'
    BY DEF SyncInv, DoneInv, Looped, InHand, InFolder, Agrees, Undisturbed,
           Exists, Upsert, disk, counts
  <1> QED
    BY <1>1, <1>2, <1>3, <1>4, <1>5, <1>6, <1>7, <1>8 DEF SyncInv

LEMMA DeleteVariantsInv ==
  ASSUME SyncInv, DeleteVariants
  PROVE  SyncInv'
  <1>1. TypeOK'
    <2>1. variants' \in [Folders -> Prices \cup {None}]
      BY DEF SyncInv, TypeOK, DeleteVariants
    <2>2. sync' \in Syncs
      BY DEF SyncInv, TypeOK, DeleteVariants, Syncs, Steps, InFolder
    <2> QED
      BY <2>1, <2>2 DEF SyncInv, TypeOK, DeleteVariants, disk, counts
  <1>2. LoopInv'
    BY DEF SyncInv, LoopInv, Looped, InFolder, DeleteVariants, disk
  <1>3. PastInv'
    BY DEF SyncInv, PastInv, Exists, DeleteVariants, disk
  <1>4. HandInv'
    BY DEF SyncInv, HandInv, Exists, InFolder, DeleteVariants, disk
  <1>5. ParsedInv'
    BY DEF SyncInv, ParsedInv, InFolder, DeleteVariants, disk
  <1>6. RowInv'
    BY DEF SyncInv, RowInv, DeleteVariants
  <1>7. RecordedIsInCatalogue'
    BY DEF SyncInv, RecordedIsInCatalogue, InHand, InFolder, Agrees,
           Undisturbed, Exists, DeleteVariants, disk, counts
  <1>8. DoneInv'
    BY DEF SyncInv, DoneInv, Looped, InHand, InFolder, Agrees, Undisturbed,
           Exists, DeleteVariants, disk, counts
  <1> QED
    BY <1>1, <1>2, <1>3, <1>4, <1>5, <1>6, <1>7, <1>8 DEF SyncInv

LEMMA InsertVariantsInv ==
  ASSUME SyncInv, InsertVariants
  PROVE  SyncInv'
  <1>1. TypeOK'
    <2>1. variants' \in [Folders -> Prices \cup {None}]
      BY DEF SyncInv, TypeOK, LoopInv, InFolder, InsertVariants, PriceOf, Files
    <2>2. sync' \in Syncs
      BY DEF SyncInv, TypeOK, InsertVariants, Syncs, Steps, InFolder
    <2> QED
      BY <2>1, <2>2 DEF SyncInv, TypeOK, InsertVariants, disk, counts
  <1>2. LoopInv'
    BY DEF SyncInv, LoopInv, Looped, InFolder, InsertVariants, disk
  <1>3. PastInv'
    BY DEF SyncInv, PastInv, Exists, InsertVariants, disk
  <1>4. HandInv'
    BY DEF SyncInv, HandInv, Exists, InFolder, InsertVariants, disk
  <1>5. ParsedInv'
    BY DEF SyncInv, ParsedInv, InFolder, InsertVariants, disk
  <1>6. RowInv'
    BY DEF SyncInv, TypeOK, RowInv, LoopInv, InFolder, InsertVariants
  <1>7. RecordedIsInCatalogue'
    BY DEF SyncInv, RecordedIsInCatalogue, InHand, InFolder, Agrees,
           Undisturbed, Exists, InsertVariants, disk, counts
  <1>8. DoneInv'
    BY DEF SyncInv, DoneInv, Looped, InHand, InFolder, Agrees, Undisturbed,
           Exists, InsertVariants, disk, counts
  <1> QED
    BY <1>1, <1>2, <1>3, <1>4, <1>5, <1>6, <1>7, <1>8 DEF SyncInv

\* The folder leaves the hand: if its file is the hashed one, it was parsed and
\* is in the tables.
LEMMA RecordInv ==
  ASSUME SyncInv, Record
  PROVE  SyncInv'
  <1>1. TypeOK'
    <2>1. metadata' \in [Folders -> Files \cup {None}]
      BY DEF SyncInv, TypeOK, LoopInv, InFolder, Record, HashTaken
    <2>2. sync' \in Syncs
      BY DEF SyncInv, TypeOK, Record, NextFolder, Syncs, Steps
    <2> QED
      BY <2>1, <2>2 DEF SyncInv, TypeOK, Record, disk, counts
  <1>2. LoopInv'
    BY DEF SyncInv, LoopInv, Looped, InFolder, Record, NextFolder
  <1>3. PastInv'
    BY DEF SyncInv, PastInv, LoopInv, Exists, InFolder, Record, HashTaken, disk
  <1>4. HandInv'
    BY DEF SyncInv, HandInv, InFolder, Record, NextFolder
  <1>5. ParsedInv'
    BY DEF SyncInv, ParsedInv, InFolder, Record, NextFolder
  <1>6. RowInv'
    BY DEF SyncInv, RowInv, Record, NextFolder
  <1>7. RecordedIsInCatalogue'
    BY DEF SyncInv, TypeOK, RecordedIsInCatalogue, ParsedInv, RowInv, InHand,
           InFolder, Agrees, Undisturbed, Exists, Record, HashTaken, disk,
           counts
  <1>8. DoneInv'
    BY DEF SyncInv, DoneInv, ParsedInv, RowInv, Looped, InHand, InFolder,
           Agrees, Undisturbed, Exists, Record, NextFolder, disk, counts
  <1> QED
    BY <1>1, <1>2, <1>3, <1>4, <1>5, <1>6, <1>7, <1>8 DEF SyncInv

\* The folder leaves the hand with its recorded hash different from its file.
LEMMA FolderFailsInv ==
  ASSUME SyncInv, FolderFails
  PROVE  SyncInv'
  <1>1. TypeOK'
    <2>1. sync' \in Syncs
      BY DEF SyncInv, TypeOK, FolderFails, NextFolder, Syncs, Steps
    <2>2. faults' \in 0 .. MaxFaults
      BY BoundAssumption DEF SyncInv, TypeOK, FolderFails, Fault
    <2> QED
      BY <2>1, <2>2 DEF SyncInv, TypeOK, FolderFails, Fault, disk, tables
  <1>2. LoopInv'
    BY DEF SyncInv, LoopInv, Looped, InFolder, FolderFails, NextFolder, Fault,
           tables
  <1>3. PastInv'
    BY DEF SyncInv, PastInv, Exists, FolderFails, Fault, disk, tables
  <1>4. HandInv'
    BY DEF SyncInv, HandInv, InFolder, FolderFails, NextFolder
  <1>5. ParsedInv'
    BY DEF SyncInv, ParsedInv, FolderFails, NextFolder
  <1>6. RowInv'
    BY DEF SyncInv, RowInv, FolderFails, NextFolder
  <1>7. RecordedIsInCatalogue'
    BY DEF SyncInv, TypeOK, RecordedIsInCatalogue, HandInv, InHand, Agrees,
           Undisturbed, Exists, FolderFails, Fault, disk, tables
  <1>8. DoneInv'
    BY DEF SyncInv, DoneInv, FolderFails
  <1> QED
    BY <1>1, <1>2, <1>3, <1>4, <1>5, <1>6, <1>7, <1>8 DEF SyncInv

--------------------------------------------------------------------------------
(* The theorems                                                             *)

\* Every step preserves the invariant.
LEMMA StepInv ==
  ASSUME SyncInv, [Next]_vars
  PROVE  SyncInv'
  <1>1. CASE SyncStep
    BY <1>1, ReadFlagsInv, ResetFlagsInv, ReadHashesInv, SkipInv, HashInv,
       ParseInv, EnrichInv, FileGoneInv, UpsertInv, DeleteVariantsInv,
       InsertVariantsInv, RecordInv, FinishInv
       DEF SyncStep
  <1>2. CASE Environment
    BY <1>2, EditInv, RaiseFlagInv, StartSyncInv, StopInv, FolderFailsInv,
       HashesFailInv, FlagsFailInv, SyncRaisesInv, CrashInv, ToggleFavouriteInv
       DEF Environment, Start, StaffSync
  <1>3. CASE UNCHANGED vars
    <2>1. TypeOK'
      BY <1>3 DEF SyncInv, TypeOK, vars, disk, tables, counts
    <2> QED
      BY <1>3, <2>1, ElsewhereInv DEF vars, tables, counts
  <1> QED
    BY <1>1, <1>2, <1>3 DEF Next

\* The invariant holds.
LEMMA SyncInvariant == Spec => []SyncInv
  <1>1. SyncInv /\ [Next]_vars => SyncInv'
    BY StepInv
  <1> QED
    BY InitInv, <1>1, PTL DEF Spec

\* Every variable keeps its type.
THEOREM TypeCorrect == Spec => []TypeOK
  BY SyncInvariant, PTL DEF SyncInv

\* A hash is recorded only for a file that the tables hold, for any number of
\* folders, edits, synchronisations and failures.
THEOREM RecordedCorrect == Spec => []RecordedIsInCatalogue
  BY SyncInvariant, PTL DEF SyncInv

\* What a synchronisation was asked to do is done when it ends undisturbed,
\* whatever earlier ones have left behind.
THEOREM CompletedCorrect == Spec => CompletedSyncRepairs
  <1>1. SyncInv =>
          [sync.pc = "next" /\ sync.todo = {} /\ sync'.pc = "idle" /\ sync.quiet
             /\ Undisturbed
           => \A f \in Folders : Exists(f) => Agrees(f)]_vars
    BY DEF SyncInv, DoneInv, Looped, InHand, InFolder
  <1> QED
    BY SyncInvariant, <1>1, PTL DEF CompletedSyncRepairs

\* Synchronisations keep the ids that the favourites refer to.
THEOREM FavouritesCorrect == Spec => []FavouriteKeepsItsProduct
  <1>1. Init => FavouriteKeepsItsProduct
    BY DEF Init, FavouriteKeepsItsProduct
  <1>2. TypeOK /\ LoopInv /\ FavouriteKeepsItsProduct /\ [Next]_vars
          => FavouriteKeepsItsProduct'
    <2> SUFFICES ASSUME TypeOK, LoopInv, FavouriteKeepsItsProduct, [Next]_vars
                 PROVE  FavouriteKeepsItsProduct'
      OBVIOUS
    <2>1. CASE Upsert
      <3>1. ASSUME NEW f \in Folders, products[f] # None
            PROVE  products'[f] # None /\ products'[f].id = products[f].id
        <4>1. CASE f = sync.folder
          <5>1. products'[f].id = products[f].id
            BY <2>1, <3>1, <4>1 DEF Upsert, RowId, TypeOK
          <5>2. products'[f] \in Rows
            BY <2>1, <3>1, <4>1
               DEF Upsert, RowId, TypeOK, LoopInv, InFolder, Rows, Files
          <5> QED
            BY <5>1, <5>2, NoneAssumption
        <4>2. CASE f # sync.folder
          BY <2>1, <3>1, <4>2 DEF Upsert, TypeOK
        <4> QED
          BY <4>1, <4>2
      <3> QED
        BY <2>1, <3>1 DEF FavouriteKeepsItsProduct, TypeOK, Favourites, Upsert
    <2>2. CASE ReadFlags
      <3>1. CASE flags.products
        BY <2>2, <3>1 DEF FavouriteKeepsItsProduct, ReadFlags
      <3>2. CASE ~flags.products
        <4>1. UNCHANGED <<products, favourites, truncated>>
          BY <2>2, <3>2 DEF ReadFlags, tables
        <4> QED
          BY <4>1 DEF FavouriteKeepsItsProduct
      <3> QED
        BY <3>1, <3>2
    <2>3. ASSUME NEW u \in Users, NEW f \in Folders, ToggleFavourite(u, f)
          PROVE  FavouriteKeepsItsProduct'
      BY <2>3 DEF FavouriteKeepsItsProduct, TypeOK, ToggleFavourite, tables
    <2>4. ASSUME UNCHANGED <<products, favourites, truncated>>
          PROVE  FavouriteKeepsItsProduct'
      BY <2>4 DEF FavouriteKeepsItsProduct
    <2>5. CASE SyncStep
      BY <2>1, <2>2, <2>4, <2>5
         DEF SyncStep, ResetFlags, ReadHashes, Skip, Hash, Parse, Enrich,
             FileGone, DeleteVariants, InsertVariants, Record, Finish, OnlySync,
             tables
    <2>6. CASE Environment
      BY <2>3, <2>4, <2>6
         DEF Environment, Edit, RaiseFlag, Start, StaffSync, StartSync, Stop,
             FolderFails, HashesFail, FlagsFail, SyncRaises, Crash, Fault,
             tables
    <2> QED
      BY <2>4, <2>5, <2>6 DEF Next, vars, tables
  <1> QED
    BY <1>1, <1>2, SyncInvariant, PTL DEF Spec, SyncInv

--------------------------------------------------------------------------------
(* The length of a synchronisation                                          *)

\* How far a synchronisation is from its end: the phases behind the one it is
\* in, the folders it has still to look at, and the steps behind the one it is
\* at in the folder in hand.
PhasesAfter(pc) ==
  CASE pc = "flags" -> 4 [] pc = "reset" -> 3 [] pc = "hashes" -> 2
    [] pc = "idle" -> 0 [] OTHER -> 1

StepsAfter(pc) ==
  CASE pc = "parse" -> 6 [] pc = "enrich" -> 5 [] pc = "upsert" -> 4
    [] pc = "delete" -> 3 [] pc = "insert" -> 2 [] pc = "record" -> 1
    [] OTHER -> 0

NearerEnd(t, s) ==
  \/ PhasesAfter(t.pc) < PhasesAfter(s.pc)
  \/ /\ PhasesAfter(t.pc) = PhasesAfter(s.pc)
     /\ \/ t.todo \subseteq s.todo /\ t.todo # s.todo
        \/ t.todo = s.todo /\ StepsAfter(t.pc) < StepsAfter(s.pc)

LEMMA FolderIsNearer ==
  ASSUME NEW s \in Syncs, NEW t, s.pc \in InFolder, t.pc \in {"next"} \cup InFolder,
         t.todo = s.todo, StepsAfter(t.pc) < StepsAfter(s.pc)
  PROVE  NearerEnd(t, s)
  BY DEF NearerEnd, PhasesAfter, InFolder

LEMMA StepIsNearer ==
  ASSUME sync \in Syncs, SyncStep PROVE NearerEnd(sync', sync)
<1> DEFINE Nearer == NearerEnd(sync', sync)
<1>1. ASSUME ReadFlags PROVE Nearer
  <2>1. sync.pc = "flags" /\ sync'.pc \in {"reset", "hashes"}
    BY <1>1 DEF ReadFlags, Syncs
  <2> QED
    BY <2>1 DEF NearerEnd, PhasesAfter
<1>2. ASSUME ResetFlags PROVE Nearer
  <2>1. sync.pc = "reset" /\ sync'.pc = "hashes"
    BY <1>2 DEF ResetFlags, Syncs
  <2> QED
    BY <2>1 DEF NearerEnd, PhasesAfter
<1>3. ASSUME ReadHashes PROVE Nearer
  <2>1. sync.pc = "hashes" /\ sync'.pc = "next"
    BY <1>3 DEF ReadHashes, Looping, Syncs
  <2> QED
    BY <2>1 DEF NearerEnd, PhasesAfter
<1>4. ASSUME NEW f \in Folders, Skip(f) PROVE Nearer
  <2>1. f \in sync.todo /\ sync'.pc = sync.pc /\ sync'.todo = sync.todo \ {f}
    BY <1>4 DEF Skip, Rest, Syncs
  <2> QED
    BY <2>1 DEF NearerEnd
<1>5. ASSUME NEW f \in Folders, Hash(f) PROVE Nearer
  <2>1. /\ f \in sync.todo /\ sync'.todo = sync.todo \ {f}
        /\ sync.pc = "next" /\ sync'.pc = "parse"
    BY <1>5 DEF Hash, Rest, Syncs
  <2> QED
    BY <2>1 DEF NearerEnd, PhasesAfter
<1>6. ASSUME Parse PROVE Nearer
  <2>1. /\ sync.pc = "parse" /\ sync'.pc \in {"enrich", "upsert"}
        /\ sync'.todo = sync.todo
    BY <1>6 DEF Parse, Syncs
  <2> QED
    BY <2>1, FolderIsNearer DEF InFolder, StepsAfter
<1>7. ASSUME NEW s \in {"name", "full"}, Enrich(s) PROVE Nearer
  <2>1. sync.pc = "enrich" /\ sync'.pc = "upsert" /\ sync'.todo = sync.todo
    BY <1>7 DEF Enrich, Syncs
  <2> QED
    BY <2>1, FolderIsNearer DEF InFolder, StepsAfter
<1>8. ASSUME FileGone \/ Record PROVE Nearer
  <2>1. /\ sync.pc \in {"parse", "enrich", "record"} /\ sync'.pc = "next"
        /\ sync'.todo = sync.todo
    BY <1>8 DEF FileGone, Record, NextFolder, Syncs
  <2> QED
    BY <2>1, FolderIsNearer DEF InFolder, StepsAfter
<1>9. ASSUME Upsert PROVE Nearer
  <2>1. sync.pc = "upsert" /\ sync'.pc = "delete" /\ sync'.todo = sync.todo
    BY <1>9 DEF Upsert, Syncs
  <2> QED
    BY <2>1, FolderIsNearer DEF InFolder, StepsAfter
<1>10. ASSUME DeleteVariants PROVE Nearer
  <2>1. sync.pc = "delete" /\ sync'.pc = "insert" /\ sync'.todo = sync.todo
    BY <1>10 DEF DeleteVariants, Syncs
  <2> QED
    BY <2>1, FolderIsNearer DEF InFolder, StepsAfter
<1>11. ASSUME InsertVariants PROVE Nearer
  <2>1. sync.pc = "insert" /\ sync'.pc = "record" /\ sync'.todo = sync.todo
    BY <1>11 DEF InsertVariants, Syncs
  <2> QED
    BY <2>1, FolderIsNearer DEF InFolder, StepsAfter
<1>12. ASSUME Finish PROVE Nearer
  <2>1. sync.pc = "next" /\ sync'.pc = "idle"
    BY <1>12 DEF Finish, NoSync, NewSync
  <2> QED
    BY <2>1 DEF NearerEnd, PhasesAfter
<1> HIDE DEF Nearer
<1>13. Nearer
  BY <1>1, <1>2, <1>3, <1>4, <1>5, <1>6, <1>7, <1>8, <1>9, <1>10, <1>11, <1>12
     DEF SyncStep
<1> QED
  BY <1>13 DEF Nearer

\* The environment may end a synchronisation, or end one of its steps early;
\* an edit is only noted.
LEMMA EnvironmentIsNearer ==
  ASSUME sync \in Syncs, sync.pc # "idle", [Next]_vars, ~SyncStep
  PROVE  \/ sync' \in {sync, [sync EXCEPT !.quiet = FALSE]}
         \/ NearerEnd(sync', sync)
<1> DEFINE Goal == \/ sync' \in {sync, [sync EXCEPT !.quiet = FALSE]}
                   \/ NearerEnd(sync', sync)
<1>1. ASSUME Environment PROVE Goal
  <2>1. ASSUME NEW f \in Folders, NEW c \in Written \cup {None}, Edit(f, c) PROVE Goal
    BY <2>1 DEF Edit
  <2>2. ASSUME \/ \E flag \in {"products", "search"} : RaiseFlag(flag)
               \/ \E u \in Users, f \in Folders : ToggleFavourite(u, f)
               \/ Stop
        PROVE  Goal
    BY <2>2 DEF RaiseFlag, ToggleFavourite, Stop
  <2>3. ~Start /\ ~StaffSync
    BY DEF Start, StaffSync, StartSync
  <2>4. ASSUME FolderFails PROVE Goal
    <3>1. sync.pc \in InFolder /\ sync'.pc = "next" /\ sync'.todo = sync.todo
      BY <2>4 DEF FolderFails, NextFolder, Syncs
    <3> QED
      BY <3>1, FolderIsNearer DEF InFolder, StepsAfter
  <2>5. ASSUME HashesFail PROVE Goal
    <3>1. sync.pc = "hashes" /\ sync'.pc = "next"
      BY <2>5 DEF HashesFail, Looping, Syncs
    <3> QED
      BY <3>1 DEF NearerEnd, PhasesAfter
  <2>6. ASSUME FlagsFail PROVE Goal
    <3>1. sync.pc \in {"flags", "reset"} /\ sync'.pc = "hashes"
      BY <2>6 DEF FlagsFail, Syncs
    <3> QED
      BY <3>1 DEF NearerEnd, PhasesAfter
  <2>7. ASSUME SyncRaises \/ Crash PROVE Goal
    <3>1. sync'.pc = "idle"
      BY <2>7 DEF SyncRaises, Crash, NoSync, NewSync
    <3> QED
      BY <3>1 DEF NearerEnd, PhasesAfter, Syncs
  <2> HIDE DEF Goal
  <2> QED
    BY <1>1, <2>1, <2>2, <2>3, <2>4, <2>5, <2>6, <2>7 DEF Environment
<1>2. ASSUME UNCHANGED vars PROVE Goal
  BY <1>2 DEF vars
<1> HIDE DEF Goal
<1>3. Goal
  BY <1>1, <1>2 DEF Next
<1> QED
  BY <1>3 DEF Goal

\* A synchronisation comes nearer to its end with each of its steps, and no
\* edit, flag or failure in between lengthens its list or sets it back; one
\* that starts the process does not keep it out of service for ever if the
\* event loop goes on with it and the folders are finitely many.
THEOREM SyncWindsDown ==
  Spec => [][sync.pc # "idle" =>
               \/ NearerEnd(sync', sync)
               \/ ~SyncStep /\ sync' \in {sync, [sync EXCEPT !.quiet = FALSE]}]_vars
<1>1. TypeOK /\ [Next]_vars
      => (sync.pc # "idle" =>
            \/ NearerEnd(sync', sync)
            \/ ~SyncStep /\ sync' \in {sync, [sync EXCEPT !.quiet = FALSE]})
  BY StepIsNearer, EnvironmentIsNearer DEF TypeOK
<1> QED
  BY <1>1, TypeCorrect, PTL DEF Spec

================================================================================
