---------------------------- MODULE ContentIndex ----------------------------
(***************************************************************************)
(* The index of the content a node stores (exchange/index.go): a map of    *)
(* refs, a list of LFU buckets over the same refs, the bytes in use, a     *)
(* HAMT that is written to the blockstore at the end of every operation,   *)
(* and the set of blocks the next GC deletes.                              *)
(*                                                                         *)
(* What lives in memory (refs, blist, size, root, gcSet) is lost when the  *)
(* process stops; NewIndex rebuilds it from the last HAMT that was         *)
(* flushed.  Operations that hold idx.mu are one step.  UpdateRef takes no *)
(* lock: its lookup and its writes are two.                                *)
(***************************************************************************)
EXTENDS Integers, Sequences, FiniteSetsExt, Functions

CONSTANTS
  Contents,   \* the root CIDs content is indexed by
  Dag,        \* the blocks of a content
  Size,       \* PayloadSize of a content
  Names,      \* the keys of the entries of a content
  Ub, Lb,     \* the bounds of the LFU store
  Word,       \* 2^64: the sizes are uint64
  MaxBucket,  \* how far reads move a ref up
  MaxSize,    \* how far the size is let grow
  None

ASSUME DagAssumption ==
  DOMAIN Dag = Contents /\ \A k \in Contents : k \in Dag[k]

(* WithBounds panics otherwise. *)
ASSUME BoundAssumption ==
  /\ Word \in Nat /\ Lb \in Nat /\ Ub \in Lb..MaxSize /\ MaxSize \in 0..(Word - 1)
  /\ MaxBucket \in Nat \ {0}

Blocks == UNION Range(Dag)

(* What is serialized of a ref besides PayloadCID and PayloadSize. *)
DataRef == [Freq : 0..MaxBucket, BucketID : 0..MaxBucket, Keys : SUBSET Names]
Refs == UNION {[S -> DataRef] : S \in SUBSET Contents}

(* A call of UpdateRef after its lookup.  live: curef is still the ref the *)
(* map holds.                                                              *)
Update == [k : Contents, Keys : SUBSET Names, live : BOOLEAN]

VARIABLES
  refs,     \* idx.Refs
  blist,    \* the buckets, from least to most used
  size,     \* idx.size
  root,     \* the HAMT in memory
  saved,    \* the HAMT the datastore's KIndex entry names
  rootCID,  \* its root block: "undef", "stored" or "swept"
  gcSet,
  blocks,   \* the blocks of contents in the blockstore
  update,   \* the UpdateRef under way, or None
  open,     \* whether NewIndex returned an index
  dropped   \* whether this process called DropRef or CleanBlockStore

vars == <<refs, blist, size, root, saved, rootCID, gcSet, blocks, update,
          open, dropped>>

Empty == [k \in {} |-> None]
SizeOf(S) == SumFunctionOnSet(Size, S)

(* All the contents there are have less than 2^64 bytes together. *)
ASSUME SizeAssumption ==
  /\ IsFiniteSet(Contents) /\ Size \in [Contents -> Nat \ {0}]
  /\ SizeOf(Contents) < Word

NewRef(names) == [Freq |-> 0, BucketID |-> 0, Keys |-> names]
Without(f, S) == Restrict(f, DOMAIN f \ S)
Put(f, k, ref) == [x \in DOMAIN f \cup {k} |-> IF x = k THEN ref ELSE f[x]]

(***************************************************************************)
(* The LFU list.  A ref's bucketNode is the place of the bucket that holds *)
(* it.                                                                     *)
(***************************************************************************)

Bucket(id, S) == [id |-> id, entries |-> S]

(* Remove and the inserts of container/list. *)
Remove(bl, i) == [j \in 1..(Len(bl) - 1) |-> IF j < i THEN bl[j] ELSE bl[j + 1]]
Insert(bl, i, b) ==
  [j \in 1..(Len(bl) + 1) |-> IF j < i THEN bl[j] ELSE IF j = i THEN b ELSE bl[j - 1]]
Join(bl, i, k) == [bl EXCEPT ![i] = Bucket(@.id, @.entries \cup {k})]
NodeOf(bl, k) == CHOOSE i \in DOMAIN bl : k \in bl[i].entries
IdOf(bl, k) == bl[NodeOf(bl, k)].id

(* Mutant: the emptied bucket stays. *)
KeepEmptyBucket(bl, i, k) == [bl EXCEPT ![i] = Bucket(@.id, @.entries \ {k})]

(* An emptied bucket leaves the list. *)
remBlistEntry(bl, i, k) ==
  IF bl[i].entries = {k} THEN Remove(bl, i)
  ELSE [bl EXCEPT ![i] = Bucket(@.id, @.entries \ {k})]

remBlistEntries(bl, S) ==
  FoldSet(LAMBDA k, b : remBlistEntry(b, NodeOf(b, k), k), bl, S)

(* increment of a ref that is in no bucket. *)
Place(bl, k) ==
  IF bl = <<>> THEN <<Bucket(1, {k})>> ELSE Join(bl, Len(bl), k)

(* Mutant: the next id is two up. *)
SkipBucket(bl, k) ==
  LET i == NodeOf(bl, k)
  IN  remBlistEntry(Insert(bl, i + 1, Bucket(bl[i].id + 2, {k})), i, k)

(* increment of a ref that has a bucket. *)
MoveUp(bl, k) ==
  LET i == NodeOf(bl, k)
      id == bl[i].id + 1
      up == IF i < Len(bl) /\ bl[i + 1].id = id THEN Join(bl, i + 1, k)
            ELSE Insert(bl, i + 1, Bucket(id, {k}))
  IN  remBlistEntry(up, i, k)

(* NewIndex puts the refs it loads in the bucket of their BucketID. *)
LoadEntry(bl, k, id) ==
  LET above == {i \in DOMAIN bl : bl[i].id >= id}
  IN  IF above = {} THEN Append(bl, Bucket(id, {k}))
      ELSE IF bl[Min(above)].id = id THEN Join(bl, Min(above), k)
      ELSE Insert(bl, Min(above), Bucket(id, {k}))

LoadList(f) == FoldSet(LAMBDA k, bl : LoadEntry(bl, k, f[k].BucketID), <<>>, DOMAIN f)

(* Mutant: the most used bucket goes first. *)
MostUsed(n) == IF blist = <<>> THEN {{}} ELSE {blist[Len(blist)].entries}

(* The sets a call of evict(n) can remove: entries of the front bucket, in *)
(* the order of a map, until n bytes are gone.  When the bucket runs out   *)
(* first its place has left the list, place.Next() is nil and the loop     *)
(* ends.                                                                   *)
Victims(n) ==
  IF blist = <<>> THEN {{}}
  ELSE {S \in SUBSET blist[1].entries :
          /\ \E k \in S : SizeOf(S \ {k}) < n
          /\ SizeOf(S) >= n \/ S = blist[1].entries}

(* Mutant: the evicted bytes are not given back. *)
EvictionUncounted(total, S) == total

(* idx.size -= PayloadSize for every ref that goes. *)
AfterEviction(total, S) == (total - SizeOf(S)) % Word

(* The blocks tagForGC adds for k.  The walk stops at the first missing    *)
(* block, after any of the others.                                         *)
Tags(k) ==
  IF Dag[k] \subseteq blocks THEN {Dag[k]}
  ELSE {T \in SUBSET (Dag[k] \cap blocks) : IF k \in blocks THEN k \in T ELSE T = {}}

TagsOf(S) ==
  {UNION Range(t) : t \in {f \in [S -> SUBSET Blocks] : \A k \in S : f[k] \in Tags(k)}}

(* Mutant: the HAMT is written, its CID is not. *)
FlushBlock(h) == root' = h /\ UNCHANGED saved /\ rootCID' = "stored"

(* The CID of the new root is in the datastore once its block is written. *)
Flush(h) == root' = h /\ saved' = h /\ rootCID' = "stored"

(* An update that looked up a ref which left the map works on it alone. *)
Detach(S) ==
  update' = IF update # None /\ update.k \in S THEN [update EXCEPT !.live = FALSE]
            ELSE update

-----------------------------------------------------------------------------
Init ==
  /\ refs = Empty /\ root = Empty /\ saved = Empty
  /\ blist = <<>> /\ size = 0
  /\ rootCID = "undef"
  /\ gcSet = {} /\ blocks = {}
  /\ update = None
  /\ open = TRUE /\ dropped = FALSE

(* MigrateBlocks: a transaction or a replication moves the blocks it got   *)
(* to the blockstore, before the ref is set or after.  A transaction for   *)
(* some of the entries has some of the blocks.                             *)
Migrate(k) ==
  /\ open
  /\ \E T \in SUBSET Dag[k] : k \in T /\ ~ T \subseteq blocks /\ blocks' = blocks \cup T
  /\ UNCHANGED <<refs, blist, size, root, saved, rootCID, gcSet, update, open, dropped>>

(* A ref that exists is refused.  The refs over the bound go before the    *)
(* new one gets its place in the list; they stay in the HAMT.              *)
SetRef(k, names) ==
  /\ open
  /\ k \notin DOMAIN refs
  /\ size + Size[k] <= MaxSize
  /\ LET total == size + Size[k]
         over == Ub > 0 /\ Lb > 0 /\ total > Ub
     IN \E S \in IF over THEN Victims(total - Lb) ELSE {{}} :
          LET bl == Place(remBlistEntries(blist, S), k)
              ref == [NewRef(names) EXCEPT !.BucketID = IdOf(bl, k)]
          IN  /\ \E T \in TagsOf(S) : gcSet' = gcSet \cup T
              /\ size' = AfterEviction(total, S)
              /\ blist' = bl
              /\ refs' = Put(Without(refs, S), k, ref)
              /\ Flush(Put(root, k, ref))
              /\ Detach(S)
  /\ UNCHANGED <<blocks, open, dropped>>

(* A read moves the ref up one bucket. *)
GetRef(k) ==
  /\ open
  /\ k \in DOMAIN refs
  /\ refs[k].BucketID < MaxBucket
  /\ LET bl == MoveUp(blist, k)
         ref == [refs[k] EXCEPT !.Freq = @ + 1, !.BucketID = IdOf(bl, k)]
     IN  /\ blist' = bl
         /\ refs' = [refs EXCEPT ![k] = ref]
         /\ Flush(Put(root, k, ref))
  /\ UNCHANGED <<size, gcSet, blocks, update, open, dropped>>

(* The lookup of UpdateRef. *)
UpdateRef(k, names) ==
  /\ open
  /\ update = None
  /\ k \in DOMAIN refs
  /\ update' = [k |-> k, Keys |-> names, live |-> TRUE]
  /\ UNCHANGED <<refs, blist, size, root, saved, rootCID, gcSet, blocks, open, dropped>>

(* The rest of UpdateRef: the keys are merged into the ref in memory, the  *)
(* HAMT gets the ref of the caller, which has neither the other keys nor   *)
(* the place in the list.                                                  *)
UpdateRefWrite ==
  /\ open
  /\ update # None
  /\ refs' = IF update.live
             THEN [refs EXCEPT ![update.k].Keys = @ \cup update.Keys] ELSE refs
  /\ Flush(Put(root, update.k, NewRef(update.Keys)))
  /\ update' = None
  /\ UNCHANGED <<blist, size, gcSet, blocks, open, dropped>>

(* DropRef leaves idx.size alone. *)
DropRef(k) ==
  /\ open
  /\ k \in DOMAIN root \cap DOMAIN refs
  /\ Dag[k] \subseteq blocks
  /\ gcSet' = gcSet \cup Dag[k]
  /\ blist' = remBlistEntry(blist, NodeOf(blist, k), k)
  /\ refs' = Without(refs, {k})
  /\ Flush(Without(root, {k}))
  /\ Detach({k})
  /\ dropped' = TRUE
  /\ UNCHANGED <<size, blocks, open>>

(* The content cannot be walked: the key is gone from the HAMT in memory,  *)
(* which is not flushed.                                                   *)
DropRefFails(k) ==
  /\ open
  /\ k \in DOMAIN root \cap DOMAIN refs
  /\ ~ Dag[k] \subseteq blocks
  /\ \E T \in Tags(k) : gcSet' = gcSet \cup T
  /\ root' = Without(root, {k})
  /\ dropped' = TRUE
  /\ UNCHANGED <<refs, blist, size, saved, rootCID, blocks, update, open>>

GC ==
  /\ open
  /\ gcSet # {}
  /\ blocks' = blocks \ gcSet
  /\ gcSet' = {}
  /\ UNCHANGED <<refs, blist, size, root, saved, rootCID, update, open, dropped>>

(* The walk goes from the saved HAMT over the contents it names, refs that *)
(* were evicted included.  A ref whose CID is missing is removed and the   *)
(* HAMT flushed; the new root block is not one the walk has seen, so the   *)
(* sweep deletes it with everything else the walk has not seen.            *)
CleanBlockStore ==
  /\ open
  /\ rootCID = "stored"
  /\ LET links == DOMAIN saved \cup UNION {Dag[k] : k \in DOMAIN saved \cap blocks}
         gone == (links \ blocks) \cap DOMAIN refs
         clean == Without(root, gone)
     IN  /\ refs' = Without(refs, gone)
         /\ blist' = remBlistEntries(blist, gone)
         /\ blocks' = blocks \cap links
         /\ root' = clean
         /\ saved' = IF gone = {} THEN saved ELSE clean
         /\ rootCID' = IF gone = {} THEN rootCID ELSE "swept"
         /\ Detach(gone)
  /\ dropped' = TRUE
  /\ UNCHANGED <<size, gcSet, open>>

(* The process stops and NewIndex loads what the datastore names. *)
Load ==
  /\ gcSet' = {} /\ update' = None /\ dropped' = FALSE
  /\ open' = (rootCID # "swept")
  /\ LET h == IF open' THEN saved ELSE Empty
     IN refs' = h /\ root' = h /\ blist' = LoadList(h) /\ size' = SizeOf(DOMAIN h) % Word
  /\ UNCHANGED <<saved, rootCID, blocks>>

Restart == open /\ Load

(* DropRef of a ref that was evicted finds it in the HAMT but not in the   *)
(* map, and dereferences nil before it flushes.                            *)
DropRefPanics(k) == open /\ k \in DOMAIN root \ DOMAIN refs /\ Load

Next ==
  \/ \E k \in Contents :
       \/ Migrate(k)
       \/ \E names \in SUBSET Names : SetRef(k, names) \/ UpdateRef(k, names)
       \/ GetRef(k)
       \/ DropRef(k)
       \/ DropRefFails(k)
       \/ DropRefPanics(k)
  \/ UpdateRefWrite
  \/ GC
  \/ CleanBlockStore
  \/ Restart

Spec == Init /\ [][Next]_vars

-----------------------------------------------------------------------------
TypeOK ==
  /\ refs \in Refs /\ root \in Refs /\ saved \in Refs
  /\ blist \in Seq([id : 0..MaxBucket, entries : SUBSET Contents])
  /\ size \in 0..(Word - 1)
  /\ rootCID \in {"undef", "stored", "swept"}
  /\ gcSet \subseteq Blocks /\ blocks \subseteq Blocks
  /\ update \in Update \cup {None}
  /\ open \in BOOLEAN /\ dropped \in BOOLEAN

(* The list and the map agree whatever sequence of sets, reads, evictions, *)
(* drops, clean-ups and reloads led here: every ref is in exactly one      *)
(* bucket, the one of its BucketID, no bucket is empty and their ids rise. *)
(* evict relies on the order, ListRefs on there being no duplicate         *)
(* ("This is a bug and should never happen", index.go:371).                *)
ListMatchesRefs ==
  /\ \A i, j \in DOMAIN blist : i < j => blist[i].id < blist[j].id
  /\ \A i \in DOMAIN blist : blist[i].entries # {}
  /\ UNION {blist[i].entries : i \in DOMAIN blist} = DOMAIN refs
  /\ \A i \in DOMAIN blist : \A k \in blist[i].entries : refs[k].BucketID = blist[i].id

(* idx.size is the bytes of the refs in the map, so that evict and         *)
(* Available work on what is stored and size -= never wraps; after DropRef *)
(* and CleanBlockStore, which do not adjust it, it is never less.          *)
SizeAccounts ==
  /\ size >= SizeOf(DOMAIN refs)
  /\ ~ dropped => size = SizeOf(DOMAIN refs)

(* A crash loses no ref (outside the clean-up calls): each is in the HAMT  *)
(* the datastore names, with its keys and its place in the list, unless    *)
(* UpdateRef has overwritten it and no read has written it again.          *)
Durable ==
  (open /\ ~ dropped) =>
    \A k \in DOMAIN refs :
      /\ k \in DOMAIN saved
      /\ saved[k] = refs[k] \/ saved[k] = NewRef(saved[k].Keys)

(* Outside the clean-up calls a ref leaves the map only when SetRef evicts *)
(* it, and what it evicts was in no higher a bucket than what it keeps;    *)
(* reads between the two, and a reload, move refs without upsetting this.  *)
EvictsLeastUsed ==
  [][(~ dropped /\ ~ dropped' /\ open') =>
       \A j \in DOMAIN refs \ DOMAIN refs', k \in DOMAIN refs \cap DOMAIN refs' :
         refs[j].BucketID <= refs[k].BucketID]_vars

(* "Index contains the information about which objects are currently       *)
(* stored" (index.go:36): while a process has content indexed whose blocks *)
(* are in the blockstore, and nobody calls DropRef or CleanBlockStore, the *)
(* blocks stay.                                                            *)
IndexedStaysStored ==
  [][~ dropped' =>
       \A k \in DOMAIN refs \cap DOMAIN refs' :
         Dag[k] \subseteq blocks => Dag[k] \subseteq blocks']_vars
=============================================================================
