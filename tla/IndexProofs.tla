---------------------------- MODULE IndexProofs ----------------------------
(***************************************************************************)
(* Proofs about the content index: the list of LFU buckets and the map of  *)
(* refs agree, the size is that of the refs, every ref is saved, and what  *)
(* is evicted is used least.                                               *)
(*                                                                         *)
(* The list is described by a function use from bucket ids to the entries  *)
(* of the bucket: Lists(bl, use) says that bl has the buckets of use that  *)
(* are not empty, in the order of their ids.  Every operation on the list  *)
(* is shown to be a simple update of use.                                  *)
(***************************************************************************)
EXTENDS ContentIndex, NumberLemmas

Ids == 0..MaxBucket
Uses == [Ids -> SUBSET Contents]

Lists(bl, use) ==
  /\ bl = [i \in 1..Len(bl) |-> bl[i]] /\ Len(bl) \in Nat
  /\ \A i \in 1..Len(bl) : /\ bl[i].id \in Ids /\ bl[i].entries = use[bl[i].id]
                           /\ bl[i] = Bucket(bl[i].id, bl[i].entries)
                           /\ bl[i].entries # {}
  /\ \A i, j \in 1..Len(bl) : i < j => bl[i].id < bl[j].id
  /\ \A id \in Ids : use[id] # {} => \E i \in 1..Len(bl) : bl[i].id = id

(* An entry joins a bucket, and leaves one. *)
Gains(use, id, k) == [use EXCEPT ![id] = @ \cup {k}]
Loses(use, id, k) == [use EXCEPT ![id] = @ \ {k}]

(* Where the refs of a map are in the list. *)
UseOf(f) == [id \in Ids |-> {k \in DOMAIN f : f[k].BucketID = id}]

(* A map of refs as the HAMT and the process keep it: a ref is never read  *)
(* more often than it has moved up.                                        *)
IsRef(ref) == ref \in DataRef /\ ref.Freq <= ref.BucketID
RefMap(f) == f \in Refs /\ \A k \in DOMAIN f : IsRef(f[k])

(* The parts of the inductive invariant: the maps hold refs, the list has  *)
(* the refs of the map, the other fields have their types, the HAMT in     *)
(* memory is the one saved but for the clean-up calls, and an update that  *)
(* is live is of a ref in the map.                                         *)
MapsOK == RefMap(refs) /\ RefMap(root) /\ RefMap(saved)
ListOK == Lists(blist, UseOf(refs))
StateOK ==
  /\ size \in 0..(Word - 1) /\ rootCID \in {"undef", "stored", "swept"}
  /\ gcSet \subseteq Blocks /\ blocks \subseteq Blocks
  /\ open \in BOOLEAN /\ dropped \in BOOLEAN
SavedOK == open /\ ~dropped => root = saved
UpdateOK ==
  /\ update \in Update \cup {None}
  /\ update # None /\ update.live => update.k \in DOMAIN refs

(* The inductive invariant. *)
IndexInv ==
  /\ MapsOK /\ ListOK /\ StateOK /\ SizeAccounts /\ Durable /\ SavedOK /\ UpdateOK
-----------------------------------------------------------------------------
(* The fields of a bucket. *)
LEMMA BucketFields ==
  ASSUME NEW id, NEW S
  PROVE  /\ Bucket(id, S).id = id /\ Bucket(id, S).entries = S
BY Zenon DEF Bucket

(* Joining a bucket. *)
LEMMA JoinLists ==
  ASSUME NEW bl, NEW use \in Uses, Lists(bl, use), NEW i \in 1..Len(bl), NEW k \in Contents
  PROVE  Lists(Join(bl, i, k), Gains(use, bl[i].id, k))
<1> USE DEF Gains, Loses
<1> DEFINE id == bl[i].id
           new == Join(bl, i, k)
           now == [use EXCEPT ![id] = @ \cup {k}]
<1>1. /\ Len(bl) \in Nat /\ DOMAIN bl = 1..Len(bl) /\ id \in Ids
      /\ bl[i] = Bucket(id, use[id])
  BY Zenon DEF Lists
<1>2. /\ new = [j \in 1..Len(bl) |-> new[j]]
      /\ new[i] = Bucket(id, use[id] \cup {k})
      /\ \A j \in 1..Len(bl) : j # i => new[j] = bl[j]
  <2>1. bl[i].entries = use[id]
    BY Zenon DEF Lists
  <2> QED BY <1>1, <2>1, Zenon DEF Join, Lists
<1>3. now[id] = use[id] \cup {k} /\ \A x \in Ids : x # id => now[x] = use[x]
  BY <1>1, Zenon DEF Uses
<1>4. Len(new) = Len(bl)
  BY <1>1, <1>2
<1> HIDE DEF new, now
<1>5. \A j \in 1..Len(bl) : new[j].id = bl[j].id
  BY <1>1, <1>2 DEF Bucket
<1>6. ASSUME NEW j \in 1..Len(bl)
      PROVE  /\ new[j].id \in Ids /\ new[j].entries = now[new[j].id]
             /\ new[j] = Bucket(new[j].id, new[j].entries)
             /\ new[j].entries # {}
  <2>1. CASE j = i
    <3>1. new[j].id = id /\ new[j].entries = use[id] \cup {k}
      BY <1>2, <2>1, BucketFields
    <3> HIDE DEF id
    <3> QED BY <1>1, <1>2, <1>3, <2>1, <3>1, Zenon
  <2>2. CASE j # i
    <3>1. bl[j].id # id
      BY <2>2, <1>1 DEF Lists, Ids
    <3> QED BY <1>2, <1>3, <2>2, <3>1 DEF Lists
  <2> QED BY <2>1, <2>2, Zenon
<1>7. \A x, y \in 1..Len(bl) : x < y => new[x].id < new[y].id
  BY <1>5, Zenon DEF Lists
<1>8. ASSUME NEW x \in Ids, now[x] # {} PROVE \E j \in 1..Len(bl) : new[j].id = x
  BY <1>1, <1>3, <1>5, <1>8 DEF Lists
<1>9. Lists(new, now)
  BY <1>1, <1>2, <1>4, <1>6, <1>7, <1>8, Zenon DEF Lists
<1> QED BY <1>9, Zenon DEF new, now

(* Inserting a bucket between those with lower and those with higher ids. *)
LEMMA InsertLists ==
  ASSUME NEW bl, NEW use \in Uses, Lists(bl, use), NEW p \in 1..(Len(bl) + 1),
         NEW id \in Ids, NEW k \in Contents,
         \A j \in 1..Len(bl) : IF j < p THEN bl[j].id < id ELSE bl[j].id > id
  PROVE  /\ use[id] = {}
         /\ Lists(Insert(bl, p, Bucket(id, {k})), Gains(use, id, k))
<1> USE DEF Gains, Loses
<1> DEFINE new == Insert(bl, p, Bucket(id, {k}))
           now == [use EXCEPT ![id] = @ \cup {k}]
           n == Len(bl)
<1>1. n \in Nat /\ \A j \in 1..n : bl[j].id \in Ids /\ bl[j].id # id
  BY DEF Lists, Ids
<1>2. use[id] = {}
  BY <1>1, Zenon DEF Lists
<1>3. /\ new = [j \in 1..(n + 1) |-> new[j]]
      /\ new[p] = Bucket(id, {k})
      /\ \A j \in 1..(n + 1) : /\ j < p => j \in 1..n /\ new[j] = bl[j]
                               /\ j > p => j - 1 \in 1..n /\ new[j] = bl[j - 1]
  BY <1>1 DEF Insert
<1>4. now[id] = {k} /\ \A x \in Ids : x # id => now[x] = use[x]
  BY <1>2, Zenon DEF Uses
<1>5. Len(new) = n + 1
  BY <1>1, <1>3
<1> HIDE DEF new, now
<1>6. ASSUME NEW j \in 1..(n + 1)
      PROVE  /\ new[j].id \in Ids /\ new[j].entries = now[new[j].id]
             /\ new[j] = Bucket(new[j].id, new[j].entries)
             /\ new[j].entries # {}
  <2>1. CASE j = p
    <3>1. new[j].id = id /\ new[j].entries = {k}
      BY <1>3, <2>1, BucketFields
    <3> QED BY <1>3, <1>4, <2>1, <3>1, Zenon
  <2>2. CASE j # p
    <3>1. PICK i \in 1..n : new[j] = bl[i]
      BY <1>3, <2>2
    <3> QED BY <1>1, <1>4, <3>1 DEF Lists
  <2> QED BY <2>1, <2>2, Zenon
<1>7. ASSUME NEW x \in 1..(n + 1), NEW y \in 1..(n + 1), x < y PROVE new[x].id < new[y].id
  <2>1. CASE x = p
    BY <1>1, <1>3, <1>7, <2>1 DEF Bucket
  <2>2. CASE y = p
    BY <1>1, <1>3, <1>7, <2>2 DEF Bucket
  <2>3. CASE x < p /\ y < p
    BY <1>1, <1>3, <1>7, <2>3, Zenon DEF Lists
  <2>4. CASE x < p /\ y > p
    <3>1. x \in 1..n /\ y - 1 \in 1..n /\ new[x] = bl[x] /\ new[y] = bl[y - 1] /\ x < y - 1
      BY <1>1, <1>3, <2>4
    <3> QED BY <3>1, Zenon DEF Lists
  <2>5. CASE x > p /\ y > p
    <3>1. /\ x - 1 \in 1..n /\ y - 1 \in 1..n /\ new[x] = bl[x - 1] /\ new[y] = bl[y - 1]
          /\ x - 1 < y - 1
      BY <1>1, <1>3, <1>7, <2>5
    <3> QED BY <3>1, Zenon DEF Lists
  <2> QED BY <1>1, <1>7, <2>1, <2>2, <2>3, <2>4, <2>5
<1>8. ASSUME NEW x \in Ids, now[x] # {} PROVE \E j \in 1..(n + 1) : new[j].id = x
  <2>1. CASE x = id
    BY <1>1, <1>3, <2>1 DEF Bucket
  <2>2. CASE x # id
    <3>1. PICK i \in 1..n : bl[i].id = x
      BY <1>4, <1>8, <2>2, Zenon DEF Lists
    <3>2. CASE i < p
      BY <1>1, <1>3, <3>1, <3>2
    <3>3. CASE i >= p
      <4>1. i + 1 \in 1..(n + 1) /\ i + 1 > p /\ (i + 1) - 1 = i
        BY <1>1, <3>3
      <4> QED BY <1>3, <3>1, <4>1, Zenon
    <3> QED BY <3>2, <3>3, <1>1
  <2> QED BY <2>1, <2>2, Zenon
<1>9. Lists(new, now)
  BY <1>1, <1>3, <1>5, <1>6, <1>7, <1>8, SMTT(60) DEF Lists
<1> QED BY <1>2, <1>9, Zenon DEF new, now

(* Taking an entry out of its bucket; an empty bucket leaves the list. *)
LEMMA RemoveLists ==
  ASSUME NEW bl, NEW use \in Uses, Lists(bl, use), NEW i \in 1..Len(bl),
         NEW k \in bl[i].entries
  PROVE  Lists(remBlistEntry(bl, i, k), Loses(use, bl[i].id, k))
<1> USE DEF Gains, Loses
<1> DEFINE id == bl[i].id
           new == remBlistEntry(bl, i, k)
           now == [use EXCEPT ![id] = @ \ {k}]
           n == Len(bl)
<1>1. /\ n \in Nat /\ DOMAIN bl = 1..n /\ id \in Ids
      /\ bl[i] = Bucket(id, use[id]) /\ bl[i].entries = use[id]
  BY Zenon DEF Lists
<1>2. now[id] = use[id] \ {k} /\ \A x \in Ids : x # id => now[x] = use[x]
  BY <1>1, Zenon DEF Uses
<1>3. \A j \in 1..n : j # i => bl[j].id # id
  BY <1>1 DEF Lists, Ids
<1>4. CASE bl[i].entries = {k}
  <2>1. /\ new = [j \in 1..(n - 1) |-> new[j]]
        /\ \A j \in 1..(n - 1) : IF j < i THEN new[j] = bl[j] ELSE new[j] = bl[j + 1]
    BY <1>1, <1>4, Zenon DEF remBlistEntry, Remove
  <2>2. Len(new) = n - 1 /\ n - 1 \in Nat
    BY <1>1, <2>1
  <2>3. now[id] = {}
    BY <1>1, <1>2, <1>4, Zenon
  <2> HIDE DEF new, now, id
  <2> DEFINE At(j) == IF j < i THEN j ELSE j + 1
  <2>4. \A j \in 1..(n - 1) : new[j] = bl[At(j)] /\ At(j) \in 1..n /\ At(j) # i
    BY <1>1, <2>1
  <2>5. \A x, y \in 1..(n - 1) : x < y => At(x) < At(y)
    BY <1>1
  <2>6. \A x \in 1..n : x # i => \E j \in 1..(n - 1) : x = At(j)
    <3> SUFFICES ASSUME NEW x \in 1..n, x # i PROVE \E j \in 1..(n - 1) : x = At(j)
      OBVIOUS
    <3>1. CASE x < i
      BY <1>1, <3>1
    <3>2. CASE x > i
      <4>1. x - 1 \in 1..(n - 1) /\ x = At(x - 1)
        BY <1>1, <3>2
      <4> QED BY <4>1, Zenon
    <3> QED BY <1>1, <3>1, <3>2
  <2> HIDE DEF At
  <2>7. ASSUME NEW j \in 1..(n - 1)
        PROVE  /\ new[j].id \in Ids /\ new[j].entries = now[new[j].id]
               /\ new[j] = Bucket(new[j].id, new[j].entries)
               /\ new[j].entries # {}
    <3>1. PICK x \in 1..n : new[j] = bl[x] /\ x # i
      BY <2>4, Zenon
    <3> QED BY <1>2, <1>3, <3>1 DEF Lists
  <2>8. \A x, y \in 1..(n - 1) : x < y => new[x].id < new[y].id
    BY <2>4, <2>5 DEF Lists
  <2>9. ASSUME NEW x \in Ids, now[x] # {} PROVE \E j \in 1..(n - 1) : new[j].id = x
    <3>1. PICK y \in 1..n : bl[y].id = x /\ y # i
      BY <1>1, <1>2, <2>3, <2>9, Zenon DEF Lists, id
    <3> QED BY <2>4, <2>6, <3>1, Zenon
  <2>10. Lists(new, now)
    BY <2>1, <2>2, <2>7, <2>8, <2>9, Zenon DEF Lists
  <2> QED BY <2>10, Zenon DEF new, now, id
<1>5. CASE bl[i].entries # {k}
  <2>1. /\ new = [j \in 1..n |-> new[j]]
        /\ new[i] = Bucket(id, use[id] \ {k})
        /\ \A j \in 1..n : j # i => new[j] = bl[j]
    BY <1>1, <1>5, Zenon DEF remBlistEntry, Lists
  <2>2. Len(new) = n
    BY <1>1, <2>1
  <2>3. use[id] \ {k} # {}
    BY <1>1, <1>5, Zenon
  <2> HIDE DEF new, now
  <2>4. new[i].id = id /\ new[i].entries = use[id] \ {k}
    BY <2>1, BucketFields
  <2>5. \A j \in 1..n : new[j].id = bl[j].id
    BY <2>1, <2>4, Zenon
  <2>6. ASSUME NEW j \in 1..n
        PROVE  /\ new[j].id \in Ids /\ new[j].entries = now[new[j].id]
               /\ new[j] = Bucket(new[j].id, new[j].entries)
               /\ new[j].entries # {}
    <3>1. CASE j = i
      <4> HIDE DEF id
      <4> QED BY <1>1, <1>2, <2>1, <2>3, <2>4, <3>1, Zenon
    <3>2. CASE j # i
      BY <1>2, <1>3, <2>1, <3>2 DEF Lists
    <3> QED BY <3>1, <3>2, Zenon
  <2>7. \A x, y \in 1..n : x < y => new[x].id < new[y].id
    BY <2>5, Zenon DEF Lists
  <2>8. ASSUME NEW x \in Ids, now[x] # {} PROVE \E j \in 1..n : new[j].id = x
    BY <1>1, <1>2, <2>5, <2>8 DEF Lists
  <2>9. Lists(new, now)
    BY <1>1, <2>1, <2>2, <2>6, <2>7, <2>8, Zenon DEF Lists
  <2> QED BY <2>9, Zenon DEF new, now
<1> QED BY <1>4, <1>5, Zenon

(* The place of a ref that is in one bucket. *)
Finds(bl, id, k) ==
  /\ NodeOf(bl, k) \in 1..Len(bl) /\ k \in bl[NodeOf(bl, k)].entries
  /\ bl[NodeOf(bl, k)].id = id /\ IdOf(bl, k) = id

(* NodeOf finds the bucket of a ref that is in one bucket only. *)
LEMMA NodeLists ==
  ASSUME NEW bl, NEW use \in Uses, Lists(bl, use), NEW id \in Ids, NEW k \in use[id],
         \A x \in Ids : k \in use[x] => x = id
  PROVE  Finds(bl, id, k)
<1>1. DOMAIN bl = 1..Len(bl) /\ \E i \in DOMAIN bl : k \in bl[i].entries
  BY DEF Lists
<1>2. NodeOf(bl, k) \in 1..Len(bl) /\ k \in bl[NodeOf(bl, k)].entries
  BY <1>1, Zenon DEF NodeOf
<1>3. bl[NodeOf(bl, k)].id = id
  BY <1>2, Zenon DEF Lists
<1> QED BY <1>2, <1>3, Zenon DEF IdOf, Finds

(* increment of a new ref. *)
LEMMA PlaceLists ==
  ASSUME NEW bl, NEW use \in Uses, Lists(bl, use), NEW k \in Contents
  PROVE  \E id \in Ids : Lists(Place(bl, k), Gains(use, id, k))
<1> USE DEF Gains, Loses
<1>1. CASE bl = <<>>
  <2>1. Len(bl) = 0 /\ \A x \in Ids : use[x] = {}
    BY <1>1 DEF Lists
  <2>2. 1 \in Ids
    BY BoundAssumption DEF Ids
  <2>3. Lists(Insert(bl, 1, Bucket(1, {k})), [use EXCEPT ![1] = @ \cup {k}])
    <3>1. PICK p \in 1..(Len(bl) + 1) : p = 1
      BY <2>1
    <3>2. \A j \in 1..Len(bl) : IF j < p THEN bl[j].id < 1 ELSE bl[j].id > 1
      BY <2>1
    <3> QED BY <2>2, <3>1, <3>2, InsertLists, Zenon
  <2>4. Insert(bl, 1, Bucket(1, {k})) = <<Bucket(1, {k})>>
    BY <2>1 DEF Insert
  <2> QED BY <1>1, <2>2, <2>3, <2>4, Zenon DEF Place
<1>2. CASE bl # <<>>
  <2>1. Len(bl) \in 1..Len(bl) /\ bl[Len(bl)].id \in Ids
    BY <1>2 DEF Lists
  <2> QED BY <1>2, <2>1, JoinLists, Zenon DEF Place
<1> QED BY <1>1, <1>2, Zenon

(* increment of a ref that has a bucket. *)
LEMMA MoveUpLists ==
  ASSUME NEW bl, NEW use \in Uses, Lists(bl, use), NEW id \in Ids, id < MaxBucket,
         NEW k \in use[id], \A x \in Ids : k \in use[x] => x = id
  PROVE  Lists(MoveUp(bl, k), Loses(Gains(use, id + 1, k), id, k))
<1> USE DEF Gains, Loses
<1> DEFINE i == NodeOf(bl, k)
           up == IF i < Len(bl) /\ bl[i + 1].id = id + 1 THEN Join(bl, i + 1, k)
                 ELSE Insert(bl, i + 1, Bucket(id + 1, {k}))
           now == [use EXCEPT ![id + 1] = @ \cup {k}]
<1>1. /\ i \in 1..Len(bl) /\ k \in bl[i].entries /\ bl[i].id = id
      /\ Len(bl) \in Nat /\ DOMAIN bl = 1..Len(bl)
  <2>1. i \in 1..Len(bl) /\ k \in bl[i].entries /\ bl[i].id = id
    BY NodeLists DEF Finds
  <2> HIDE DEF i
  <2> QED BY <2>1, Zenon DEF Lists
<1> HIDE DEF i
<1>2. id + 1 \in Ids /\ k \in Contents /\ id \in Nat
  BY BoundAssumption DEF Ids, Uses
<1>3. now \in Uses
  BY <1>2, Zenon DEF Uses
<1>4. Lists(up, now) /\ i \in 1..Len(up) /\ up[i] = bl[i]
  <2>1. CASE i < Len(bl) /\ bl[i + 1].id = id + 1
    <3>1. i + 1 \in 1..Len(bl)
      BY <1>1, <2>1
    <3>2. Lists(Join(bl, i + 1, k), now)
      BY <1>2, <2>1, <3>1, JoinLists, Zenon
    <3>3. Len(Join(bl, i + 1, k)) = Len(bl) /\ Join(bl, i + 1, k)[i] = bl[i]
      BY <1>1, <3>1 DEF Join
    <3> QED BY <1>1, <2>1, <3>2, <3>3, Zenon
  <2>2. CASE ~ (i < Len(bl) /\ bl[i + 1].id = id + 1)
    <3>1. i + 1 \in 1..(Len(bl) + 1)
      BY <1>1
    <3>2. ASSUME NEW j \in 1..Len(bl)
          PROVE  IF j < i + 1 THEN bl[j].id < id + 1 ELSE bl[j].id > id + 1
      <4>1. bl[j].id \in Nat
        BY BoundAssumption DEF Lists, Ids
      <4>2. CASE j < i
        <5>1. bl[j].id < bl[i].id
          BY <1>1, <4>2, Zenon DEF Lists
        <5> QED BY <1>1, <1>2, <4>1, <4>2, <5>1
      <4>3. CASE j = i
        BY <1>1, <1>2, <4>3
      <4>4. CASE j > i
        <5>1. i + 1 \in 1..Len(bl) /\ i < i + 1 /\ i < Len(bl)
          BY <1>1, <4>4
        <5>2. bl[i + 1].id \in Nat /\ bl[i + 1].id > id /\ bl[i + 1].id # id + 1
          BY <1>1, <2>2, <5>1, BoundAssumption, SMTT(60) DEF Lists, Ids
        <5>3. j = i + 1 \/ bl[i + 1].id < bl[j].id
          BY <1>1, <4>4, <5>1 DEF Lists
        <5> QED BY <1>1, <1>2, <4>1, <4>4, <5>2, <5>3
      <4> QED BY <1>1, <4>2, <4>3, <4>4
    <3>3. Lists(Insert(bl, i + 1, Bucket(id + 1, {k})), now)
      BY <1>2, <3>1, <3>2, InsertLists, Zenon
    <3>4. LET b == Insert(bl, i + 1, Bucket(id + 1, {k}))
          IN  Len(b) = Len(bl) + 1 /\ b[i] = bl[i]
      BY <1>1 DEF Insert
    <3> QED BY <1>1, <2>2, <3>3, <3>4
  <2> QED BY <2>1, <2>2, Zenon
<1>5. MoveUp(bl, k) = remBlistEntry(up, i, k)
  BY <1>1, Zenon DEF MoveUp, i
<1> HIDE DEF up, now
<1>6. Lists(remBlistEntry(up, i, k), [now EXCEPT ![id] = @ \ {k}])
  BY <1>1, <1>3, <1>4, RemoveLists, Zenon
<1> QED BY <1>5, <1>6, Zenon DEF now

(* Loading a ref into the bucket of its id. *)
LEMMA LoadLists ==
  ASSUME NEW bl, NEW use \in Uses, Lists(bl, use), NEW id \in Ids, NEW k \in Contents
  PROVE  Lists(LoadEntry(bl, k, id), Gains(use, id, k))
<1> USE DEF Gains, Loses
<1> DEFINE above == {i \in DOMAIN bl : bl[i].id >= id}
           n == Len(bl)
<1>1. n \in Nat /\ DOMAIN bl = 1..n /\ id \in Nat /\ \A i \in 1..n : bl[i].id \in Nat
  BY BoundAssumption DEF Lists, Ids
<1>2. CASE above = {}
  <2>1. \A j \in 1..n : bl[j].id < id
    BY <1>1, <1>2
  <2>2. Lists(Insert(bl, n + 1, Bucket(id, {k})), [use EXCEPT ![id] = @ \cup {k}])
    <3>1. n + 1 \in 1..(n + 1) /\ \A j \in 1..n : j < n + 1
      BY <1>1
    <3> QED BY <2>1, <3>1, InsertLists, Zenon
  <2>3. Insert(bl, n + 1, Bucket(id, {k})) = Append(bl, Bucket(id, {k}))
    BY <1>1 DEF Insert, Lists
  <2> QED BY <1>2, <2>2, <2>3, Zenon DEF LoadEntry
<1>3. CASE above # {}
  <2> DEFINE m == Min(above)
  <2>1. m \in above /\ \A y \in above : m <= y
    <3>1. above \in SUBSET Nat
      BY <1>1
    <3> HIDE DEF above
    <3> QED BY <1>3, <3>1, MinIsLeast, Zenon
  <2>2. m \in 1..n /\ bl[m].id >= id
    BY <1>1, <2>1, Zenon
  <2>3. ASSUME NEW j \in 1..n, j < m PROVE bl[j].id < id
    <3>1. j \notin above
      <4> HIDE DEF above
      <4> QED BY <1>1, <2>1, <2>2, <2>3
    <3> QED BY <1>1, <3>1
  <2>4. LoadEntry(bl, k, id) = IF bl[m].id = id THEN Join(bl, m, k)
                               ELSE Insert(bl, m, Bucket(id, {k}))
    BY <1>3, Zenon DEF LoadEntry
  <2> HIDE DEF m
  <2>5. CASE bl[m].id = id
    BY <2>2, <2>4, <2>5, JoinLists
  <2>6. CASE bl[m].id # id
    <3>1. ASSUME NEW j \in 1..n PROVE IF j < m THEN bl[j].id < id ELSE bl[j].id > id
      <4>1. CASE j < m
        BY <2>3, <4>1, Zenon
      <4>2. CASE j = m
        BY <1>1, <2>2, <2>6, <4>2
      <4>3. CASE j > m
        <5>1. bl[m].id < bl[j].id
          BY <2>2, <4>3, Zenon DEF Lists
        <5> QED BY <1>1, <2>2, <4>3, <5>1
      <4> QED BY <1>1, <2>2, <4>1, <4>2, <4>3
    <3>2. m \in 1..(n + 1)
      BY <1>1, <2>2
    <3> QED BY <2>4, <2>6, <3>1, <3>2, InsertLists
  <2> QED BY <2>5, <2>6, Zenon
<1> QED BY <1>2, <1>3, Zenon
-----------------------------------------------------------------------------
(* The folds that take entries out of the list and that load it. *)
Step(op, f, k, b) ==
  IF op = "remove" THEN remBlistEntry(b, NodeOf(b, k), k) ELSE LoadEntry(b, k, f[k].BucketID)

Iterates(op, f, base, S, g) ==
  g = [s \in SUBSET S |-> IF s = {} THEN base
         ELSE Step(op, f, CHOOSE x \in s : TRUE, g[s \ {CHOOSE x \in s : TRUE}])]

(* The fold of remBlistEntries. *)
LEMMA RemoveDef ==
  ASSUME NEW bl, NEW S
  PROVE  remBlistEntries(bl, S) = (CHOOSE g : Iterates("remove", Empty, bl, S, g))[S]
BY Zenon DEF remBlistEntries, FoldSet, MapThenFoldSet, Iterates, Step

(* The fold of LoadList. *)
LEMMA LoadDef ==
  ASSUME NEW f
  PROVE  LoadList(f) = (CHOOSE g : Iterates("load", f, <<>>, DOMAIN f, g))[DOMAIN f]
BY Zenon DEF LoadList, FoldSet, MapThenFoldSet, Iterates, Step

(* Two such functions agree where both are defined. *)
LEMMA IteratesUnique ==
  ASSUME NEW op, NEW f, NEW base, NEW S, IsFiniteSet(S), NEW T \in SUBSET S, NEW g, NEW h,
         Iterates(op, f, base, S, g), Iterates(op, f, base, T, h)
  PROVE  \A s \in SUBSET T : g[s] = h[s]
<1> DEFINE B == {s \in SUBSET T : g[s] # h[s]}
<1> SUFFICES ASSUME B # {} PROVE FALSE
  OBVIOUS
<1>1. PICK s \in B : \A t \in SUBSET s : t \in B => t = s
  <2>1. IsFiniteSet(T)
    BY FS_Subset, Zenon
  <2>2. B \in SUBSET (SUBSET T)
    OBVIOUS
  <2> HIDE DEF B
  <2> QED BY <2>1, <2>2, MinimalSubset
<1> DEFINE x == CHOOSE x \in s : TRUE
<1>2. s \in SUBSET S /\ s \in SUBSET T /\ g[s] # h[s]
  OBVIOUS
<1>3. CASE s = {}
  BY <1>2, <1>3, Zenon DEF Iterates
<1>4. CASE s # {}
  <2>1. x \in s
    BY <1>4, Zenon
  <2>2. /\ g[s] = Step(op, f, x, g[s \ {x}])
        /\ h[s] = Step(op, f, x, h[s \ {x}])
    BY <1>2, <1>4, Zenon DEF Iterates
  <2> HIDE DEF x
  <2>3. s \ {x} \in SUBSET s /\ s \ {x} \in SUBSET T /\ s \ {x} # s
    BY <1>2, <2>1, Zenon
  <2>4. g[s \ {x}] = h[s \ {x}]
    BY <1>1, <2>3, Zenon
  <2> QED BY <1>2, <2>2, <2>4, Zenon
<1> QED BY <1>3, <1>4, Zenon

(* There is one for a finite set. *)
LEMMA IteratesExists ==
  ASSUME NEW op, NEW f, NEW base, NEW S, IsFiniteSet(S)
  PROVE  \E g : Iterates(op, f, base, S, g)
<1> DEFINE B == {s \in SUBSET S : ~ \E g : Iterates(op, f, base, s, g)}
           Pick(s) == CHOOSE x \in s : TRUE
           H(s) == CHOOSE h : Iterates(op, f, base, s, h)
<1> SUFFICES ASSUME B # {} PROVE FALSE
  OBVIOUS
<1>1. PICK s \in B : \A t \in SUBSET s : t \in B => t = s
  <2>2. B \in SUBSET (SUBSET S)
    OBVIOUS
  <2> HIDE DEF B
  <2> QED BY <2>2, MinimalSubset
<1>2. s \in SUBSET S /\ ~ \E g : Iterates(op, f, base, s, g) /\ IsFiniteSet(s)
  BY FS_Subset, Zenon
<1>3. \A t \in SUBSET s : t # s => Iterates(op, f, base, t, H(t)) /\ IsFiniteSet(t)
  BY <1>1, <1>2, FS_Subset, Zenon
<1>4. \A t \in SUBSET s : t # {} => Pick(t) \in t
  OBVIOUS
<1> DEFINE g == [t \in SUBSET s |-> IF t = {} THEN base
                   ELSE Step(op, f, Pick(t), H(t \ {Pick(t)})[t \ {Pick(t)}])]
<1>5. ASSUME NEW t \in SUBSET s, t # s PROVE g[t] = H(t)[t]
  <2>1. Iterates(op, f, base, t, H(t))
    BY <1>3, <1>5, Zenon
  <2>2. CASE t = {}
    BY <2>1, <2>2, Zenon DEF Iterates
  <2>3. CASE t # {}
    <3> DEFINE u == t \ {Pick(t)}
    <3>1. u \in SUBSET t /\ u \in SUBSET s /\ u # s
      BY <1>4, <2>3, Zenon
    <3>2. H(t)[t] = Step(op, f, Pick(t), H(t)[u])
      <4> DEFINE k == H(t)
      <4>1. Iterates(op, f, base, t, k)
        BY <2>1, Zenon
      <4> HIDE DEF H, k
      <4>2. k[t] = Step(op, f, Pick(t), k[u])
        BY <4>1, <2>3, Zenon DEF Iterates
      <4> QED BY <4>2, Zenon DEF k
    <3>3. H(t)[u] = H(u)[u]
      <4>1. Iterates(op, f, base, u, H(u)) /\ IsFiniteSet(t)
        BY <1>3, <1>5, <3>1, Zenon
      <4> HIDE DEF H, u
      <4> QED BY <2>1, <3>1, <4>1, IteratesUnique
    <3> HIDE DEF H
    <3> QED BY <2>3, <3>2, <3>3, Zenon
  <2> QED BY <2>2, <2>3, Zenon
<1>6. Iterates(op, f, base, s, g)
  <2>1. ASSUME NEW t \in SUBSET s, t # {}
        PROVE  H(t \ {Pick(t)})[t \ {Pick(t)}] = g[t \ {Pick(t)}]
    <3>1. t \ {Pick(t)} \in SUBSET s /\ t \ {Pick(t)} # s
      BY <1>4, <2>1, Zenon
    <3> HIDE DEF g, H, Pick
    <3> QED BY <1>5, <3>1, Zenon
  <2> DEFINE v(t) == IF t = {} THEN base ELSE Step(op, f, Pick(t), H(t \ {Pick(t)})[t \ {Pick(t)}])
             w(t) == IF t = {} THEN base ELSE Step(op, f, Pick(t), g[t \ {Pick(t)}])
  <2>2. \A t \in SUBSET s : v(t) = w(t)
    <3> SUFFICES ASSUME NEW t \in SUBSET s PROVE v(t) = w(t)
      BY Zenon
    <3>1. CASE t = {}
      BY <3>1, Zenon
    <3>2. CASE t # {}
      <4>1. H(t \ {Pick(t)})[t \ {Pick(t)}] = g[t \ {Pick(t)}]
        BY <2>1, <3>2, Zenon
      <4> HIDE DEF g, H, Pick
      <4> QED BY <3>2, <4>1, Zenon
    <3> QED BY <3>1, <3>2, Zenon
  <2>3. g = [t \in SUBSET s |-> v(t)]
    OBVIOUS
  <2> HIDE DEF v, w, g
  <2>4. g = [t \in SUBSET s |-> w(t)]
    BY <2>2, <2>3, Zenon
  <2> QED BY <2>4, Zenon DEF Iterates, w
<1> QED BY <1>2, <1>6, Zenon

(* What the fold comes to after the entries of S. *)
Folded(op, f, base, S) == (CHOOSE g : Iterates(op, f, base, S, g))[S]

(* The fold over no entries. *)
LEMMA FoldedNone ==
  ASSUME NEW op, NEW f, NEW base
  PROVE  Folded(op, f, base, {}) = base
<1> DEFINE g == CHOOSE k : Iterates(op, f, base, {}, k)
<1>1. Iterates(op, f, base, {}, g)
  BY FS_EmptySet, IteratesExists, Zenon
<1> HIDE DEF g
<1>2. g[{}] = base
  BY <1>1, Zenon DEF Iterates
<1> QED BY <1>2, Zenon DEF Folded, g

(* The fold over the chosen entry and the others. *)
LEMMA FoldedPick ==
  ASSUME NEW op, NEW f, NEW base, NEW S, IsFiniteSet(S), S # {}
  PROVE  LET x == CHOOSE x \in S : TRUE
         IN  Folded(op, f, base, S) = Step(op, f, x, Folded(op, f, base, S \ {x}))
<1> DEFINE x == CHOOSE x \in S : TRUE
           T == S \ {x}
           g == CHOOSE k : Iterates(op, f, base, S, k)
           h == CHOOSE k : Iterates(op, f, base, T, k)
<1>1. IsFiniteSet(T) /\ T \in SUBSET S
  BY FS_Subset, Zenon
<1>2. Iterates(op, f, base, S, g) /\ Iterates(op, f, base, T, h)
  BY <1>1, IteratesExists, Zenon
<1>3. Folded(op, f, base, S) = g[S] /\ Folded(op, f, base, T) = h[T]
  BY Zenon DEF Folded
<1>4. g[S] = Step(op, f, x, g[T])
  <2> HIDE DEF g
  <2> QED BY <1>2, Zenon DEF Iterates
<1> HIDE DEF g, h, T, x
<1>5. g[T] = h[T]
  BY <1>1, <1>2, IteratesUnique
<1> QED BY <1>3, <1>4, <1>5, Zenon DEF x, T
-----------------------------------------------------------------------------
(* The fold ends with a step for one of the entries. *)
StepLast(op, f, base, S) ==
  \E x \in S : Folded(op, f, base, S) = Step(op, f, x, Folded(op, f, base, S \ {x}))

(* FoldedPick without the name of the chosen entry. *)
LEMMA FoldedSome ==
  ASSUME NEW op, NEW f, NEW base, NEW S, IsFiniteSet(S), S # {}
  PROVE  StepLast(op, f, base, S)
<1> DEFINE x == CHOOSE x \in S : TRUE
<1>1. Folded(op, f, base, S) = Step(op, f, x, Folded(op, f, base, S \ {x}))
  BY FoldedPick
<1>2. x \in S
  OBVIOUS
<1> HIDE DEF x
<1> QED BY <1>1, <1>2, Zenon DEF StepLast

(* What it is to be a map of refs. *)
LEMMA RefsShape ==
  ASSUME NEW f
  PROVE  f \in Refs <=> /\ DOMAIN f \subseteq Contents /\ f = [k \in DOMAIN f |-> f[k]]
                        /\ \A k \in DOMAIN f : f[k] \in DataRef
BY DEF Refs

(* The maps of refs are finite, and so are their parts. *)
LEMMA FiniteContents ==
  ASSUME NEW S \in SUBSET Contents
  PROVE  IsFiniteSet(S)
BY FS_Subset, SizeAssumption, Zenon

(* A ref is in the bucket of its BucketID and in no other. *)
LEMMA UseIsUse ==
  ASSUME NEW f, f \in Refs
  PROVE  /\ UseOf(f) \in Uses
         /\ \A k \in DOMAIN f : f[k].BucketID \in Ids /\ k \in UseOf(f)[f[k].BucketID]
         /\ \A k \in Contents, id \in Ids :
               k \in UseOf(f)[id] <=> k \in DOMAIN f /\ f[k].BucketID = id
<1>1. DOMAIN f \subseteq Contents /\ \A k \in DOMAIN f : f[k].BucketID \in Ids
  BY RefsShape, Zenon DEF DataRef, Ids
<1> QED BY <1>1, Zenon DEF UseOf, Uses

(* Parts of a map. *)
LEMMA PartOfRefs ==
  ASSUME NEW f, f \in Refs, NEW S \in SUBSET DOMAIN f
  PROVE  /\ Restrict(f, S) \in Refs /\ DOMAIN Restrict(f, S) = S
         /\ \A k \in S : Restrict(f, S)[k] = f[k]
<1>1. DOMAIN Restrict(f, S) = S /\ \A k \in S : Restrict(f, S)[k] = f[k]
  BY Zenon DEF Restrict
<1> QED BY <1>1, RefsShape, Zenon DEF Restrict

(* How the buckets change when a ref leaves, enters or changes its bucket. *)
LEMMA UseWithout ==
  ASSUME NEW r, r \in Refs, NEW x \in DOMAIN r, NEW id, r[x].BucketID = id,
         NEW q, DOMAIN q = DOMAIN r \ {x}, \A k \in DOMAIN q : q[k] = r[k]
  PROVE  UseOf(q) = Loses(UseOf(r), id, x)
<1> USE DEF Gains, Loses
<1>1. id \in Ids /\ UseOf(r) \in Uses
  BY UseIsUse, Zenon
<1>2. \A y \in Ids : UseOf(q)[y] = IF y = id THEN UseOf(r)[y] \ {x} ELSE UseOf(r)[y]
  BY Zenon DEF UseOf
<1>3. UseOf(q) = [y \in Ids |-> UseOf(q)[y]]
  BY Zenon DEF UseOf
<1> QED BY <1>1, <1>2, <1>3, Zenon DEF Uses

(* A ref that enters the map joins the bucket of its id. *)
LEMMA UseWith ==
  ASSUME NEW r, r \in Refs, NEW x \in Contents, x \notin DOMAIN r, NEW id \in Ids,
         NEW q, DOMAIN q = DOMAIN r \cup {x}, q[x].BucketID = id,
         \A k \in DOMAIN r : q[k] = r[k]
  PROVE  UseOf(q) = Gains(UseOf(r), id, x)
<1> USE DEF Gains, Loses
<1>1. UseOf(r) \in Uses
  BY UseIsUse, Zenon
<1>2. \A y \in Ids : UseOf(q)[y] = IF y = id THEN UseOf(r)[y] \cup {x} ELSE UseOf(r)[y]
  BY Zenon DEF UseOf
<1>3. UseOf(q) = [y \in Ids |-> UseOf(q)[y]]
  BY Zenon DEF UseOf
<1> QED BY <1>1, <1>2, <1>3, Zenon DEF Uses

(* A ref that moves up leaves its bucket for the next. *)
LEMMA UseMoved ==
  ASSUME NEW r, r \in Refs, NEW x \in DOMAIN r, NEW id \in Ids, r[x].BucketID = id,
         id + 1 \in Ids, NEW q, DOMAIN q = DOMAIN r, q[x].BucketID = id + 1,
         \A k \in DOMAIN r : k # x => q[k] = r[k]
  PROVE  UseOf(q) = Loses(Gains(UseOf(r), id + 1, x), id, x)
<1> USE DEF Gains, Loses
<1> DEFINE up == [UseOf(r) EXCEPT ![id + 1] = @ \cup {x}]
<1>0. id # id + 1
  BY BoundAssumption DEF Ids
<1>1. UseOf(r) \in Uses /\ x \in Contents
  BY UseIsUse, RefsShape, Zenon
<1>2. up \in Uses /\ up[id + 1] = UseOf(r)[id + 1] \cup {x}
      /\ \A y \in Ids : y # id + 1 => up[y] = UseOf(r)[y]
  BY <1>1, Zenon DEF Uses
<1>3. \A y \in Ids : UseOf(q)[y] = IF y = id THEN UseOf(r)[y] \ {x}
                                   ELSE IF y = id + 1 THEN UseOf(r)[y] \cup {x}
                                   ELSE UseOf(r)[y]
  BY <1>0 DEF UseOf
<1>4. UseOf(q) = [y \in Ids |-> UseOf(q)[y]]
  BY Zenon DEF UseOf
<1> HIDE DEF up
<1> DEFINE down == [up EXCEPT ![id] = @ \ {x}]
<1>5. down = [y \in Ids |-> IF y = id THEN up[y] \ {x} ELSE up[y]]
  BY <1>2, Zenon DEF Uses
<1> HIDE DEF down
<1>6. \A y \in Ids : down[y] = UseOf(q)[y]
  BY <1>0, <1>2, <1>3, <1>5, Zenon
<1>7. UseOf(q) = down
  BY <1>4, <1>5, <1>6, Zenon
<1> QED BY <1>7, Zenon DEF up, down

(* The empty list. *)
LEMMA EmptyLists ==
  ASSUME NEW use, \A id \in Ids : use[id] = {}
  PROVE  Lists(<<>>, use)
<1>1. Len(<<>>) = 0 /\ <<>> = [i \in 1..0 |-> <<>>[i]]
  OBVIOUS
<1> QED BY <1>1 DEF Lists

(* Taking refs out of the list takes them out of their buckets. *)
LEMMA RemoveAllLists ==
  ASSUME NEW bl, NEW f, f \in Refs, Lists(bl, UseOf(f)), NEW S \in SUBSET DOMAIN f
  PROVE  Lists(remBlistEntries(bl, S), UseOf(Without(f, S)))
<1> DEFINE Rest(s) == Restrict(f, DOMAIN f \ s)
           L(s) == Folded("remove", Empty, bl, s)
           Good(s) == Lists(L(s), UseOf(Rest(s)))
           B == {s \in SUBSET S : ~Good(s)}
<1>1. IsFiniteSet(S)
  BY FiniteContents, RefsShape, Zenon
<1>2. SUFFICES Good(S)
  BY RemoveDef, Zenon DEF Without, Folded
<1>3. SUFFICES ASSUME B # {} PROVE FALSE
  OBVIOUS
<1>4. PICK s \in B : \A t \in SUBSET s : t \in B => t = s
  <2>1. B \in SUBSET (SUBSET S)
    OBVIOUS
  <2> HIDE DEF B
  <2> QED BY <1>1, <1>3, <2>1, MinimalSubset
<1>5. s \in SUBSET S /\ ~Good(s) /\ IsFiniteSet(s)
  BY <1>1, FS_Subset, Zenon
<1>6. CASE s = {}
  <2>1. L(s) = bl
    BY <1>6, FoldedNone, Zenon
  <2>2. Rest(s) = f
    BY <1>6, RefsShape, Zenon DEF Restrict
  <2> QED BY <1>5, <2>1, <2>2, Zenon
<1>7. CASE s # {}
  <2> DEFINE x == CHOOSE x \in s : TRUE
             u == s \ {x}
  <2>1. x \in s /\ L(s) = remBlistEntry(L(u), NodeOf(L(u), x), x)
    BY <1>5, <1>7, FoldedPick DEF Step
  <2> HIDE DEF x
  <2>2. u \in SUBSET s /\ u \in SUBSET S /\ u # s
    BY <1>5, <2>1, Zenon
  <2>3. Good(u)
    <3> HIDE DEF Good
    <3> QED BY <1>4, <2>2, Zenon
  <2> DEFINE r == Rest(u)
             id == f[x].BucketID
  <2>4. r \in Refs /\ DOMAIN r = DOMAIN f \ u /\ r[x] = f[x] /\ x \in DOMAIN r
    BY <1>5, <2>1, PartOfRefs
  <2> HIDE DEF L, u
  <2>5. /\ UseOf(r) \in Uses /\ id \in Ids /\ x \in UseOf(r)[id]
        /\ \A y \in Ids : x \in UseOf(r)[y] => y = id
    <3> HIDE DEF r
    <3>1. x \in Contents
      BY <2>4, RefsShape, Zenon
    <3> QED BY <2>4, <3>1, UseIsUse
  <2>6. UseOf(Rest(s)) = Loses(UseOf(r), id, x)
    <3>1. DOMAIN Rest(s) = DOMAIN r \ {x} /\ \A k \in DOMAIN Rest(s) : Rest(s)[k] = r[k]
      BY <2>1, <2>4, Zenon DEF Restrict, u
    <3>2. r[x].BucketID = id
      BY <2>4, Zenon
    <3> HIDE DEF r, Rest, id
    <3> QED BY <2>4, <3>1, <3>2, UseWithout, Zenon
  <2>7. Lists(L(u), UseOf(r))
    BY <2>3, Zenon
  <2> HIDE DEF r, id
  <2>8. /\ NodeOf(L(u), x) \in 1..Len(L(u)) /\ x \in L(u)[NodeOf(L(u), x)].entries
        /\ L(u)[NodeOf(L(u), x)].id = id
    BY <2>5, <2>7, NodeLists DEF Finds
  <2>9. Lists(L(s), Loses(UseOf(r), id, x))
    BY <2>1, <2>5, <2>7, <2>8, RemoveLists, Zenon
  <2> QED BY <1>5, <2>6, <2>9, Zenon
<1> QED BY <1>6, <1>7, Zenon

(* The list that NewIndex builds has every ref in the bucket of its id. *)
LEMMA LoadListLists ==
  ASSUME NEW f, f \in Refs
  PROVE  Lists(LoadList(f), UseOf(f))
<1> DEFINE S == DOMAIN f
           L(s) == Folded("load", f, <<>>, s)
           Good(s) == Lists(L(s), UseOf(Restrict(f, s)))
           B == {s \in SUBSET S : ~Good(s)}
<1>1. IsFiniteSet(S)
  BY FiniteContents, RefsShape, Zenon
<1>2. SUFFICES Good(S)
  <2>1. Restrict(f, S) = f
    BY RefsShape, Zenon DEF Restrict
  <2> QED BY <2>1, LoadDef, Zenon DEF Folded
<1>3. SUFFICES ASSUME B # {} PROVE FALSE
  OBVIOUS
<1>4. PICK s \in B : \A t \in SUBSET s : t \in B => t = s
  <2>1. B \in SUBSET (SUBSET S)
    OBVIOUS
  <2> HIDE DEF B
  <2> QED BY <1>1, <1>3, <2>1, MinimalSubset
<1>5. s \in SUBSET S /\ ~Good(s) /\ IsFiniteSet(s)
  BY <1>1, FS_Subset, Zenon
<1>6. CASE s = {}
  <2>1. L(s) = <<>>
    BY <1>6, FoldedNone, Zenon
  <2>2. \A id \in Ids : UseOf(Restrict(f, s))[id] = {}
    BY <1>6, Zenon DEF Restrict, UseOf
  <2> QED BY <1>5, <2>1, <2>2, EmptyLists, Zenon
<1>7. CASE s # {}
  <2>0. PICK x \in s : L(s) = Step("load", f, x, L(s \ {x}))
    <3>1. StepLast("load", f, <<>>, s)
      BY <1>5, <1>7, FoldedSome, Zenon
    <3> QED BY <3>1, Zenon DEF StepLast
  <2> DEFINE u == s \ {x}
             id == f[x].BucketID
  <2>1. x \in s /\ L(s) = LoadEntry(L(u), x, id)
    <3> HIDE DEF L
    <3> QED BY <2>0, Zenon DEF Step
  <2>2. u \in SUBSET s /\ u \in SUBSET S /\ u # s
    BY <1>5, <2>1, Zenon
  <2>3. Good(u)
    <3> HIDE DEF Good
    <3> QED BY <1>4, <2>2, Zenon
  <2> DEFINE r == Restrict(f, u)
  <2>4. /\ r \in Refs /\ DOMAIN r = u /\ \A k \in u : r[k] = f[k]
        /\ DOMAIN Restrict(f, s) = s /\ \A k \in s : Restrict(f, s)[k] = f[k]
    BY <1>5, <2>2, PartOfRefs, Zenon
  <2>5. UseOf(r) \in Uses /\ id \in Ids /\ x \in Contents
    BY <1>5, <2>1, <2>4, UseIsUse, RefsShape, Zenon
  <2>6. UseOf(Restrict(f, s)) = Gains(UseOf(r), id, x)
    <3>1. s = u \cup {x} /\ x \notin u
      BY <2>1, Zenon
    <3>2. Restrict(f, s)[x].BucketID = id
      BY <2>1, <2>4, Zenon
    <3>3. PICK q : q = Restrict(f, s)
      OBVIOUS
    <3>4. DOMAIN q = DOMAIN r \cup {x} /\ q[x].BucketID = id /\ \A k \in DOMAIN r : q[k] = r[k]
      BY <2>4, <3>1, <3>2, <3>3, Zenon
    <3> HIDE DEF r, u, id
    <3>5. x \notin DOMAIN r
      BY <2>4, <3>1, Zenon
    <3>6. UseOf(q) = Gains(UseOf(r), id, x)
      BY <2>4, <2>5, <3>4, <3>5, UseWith, Zenon
    <3> QED BY <3>3, <3>6, Zenon
  <2>7. Lists(L(u), UseOf(r))
    BY <2>3, Zenon
  <2> HIDE DEF r, id, L, u
  <2>8. Lists(L(s), Gains(UseOf(r), id, x))
    BY <2>1, <2>5, <2>7, LoadLists, Zenon
  <2> QED BY <1>5, <2>6, <2>8, Zenon
<1> QED BY <1>6, <1>7, Zenon
-----------------------------------------------------------------------------
(* The bytes of a set of contents. *)
LEMMA SizeNat ==
  ASSUME NEW S \in SUBSET Contents
  PROVE  /\ IsFiniteSet(S) /\ SizeOf(S) \in Nat
         /\ \A x \in S : Size[x] \in Nat /\ SizeOf(S) = Size[x] + SizeOf(S \ {x})
<1>1. IsFiniteSet(S) /\ \A x \in S : Size[x] \in Nat
  BY FiniteContents, SizeAssumption, Zenon
<1> QED BY <1>1, SumRemove, Zenon DEF SizeOf

(* The bytes of a part and of the rest add up. *)
LEMMA SizeSplit ==
  ASSUME NEW T \in SUBSET Contents, NEW S \in SUBSET T
  PROVE  SizeOf(T) = SizeOf(S) + SizeOf(T \ S)
<1> DEFINE Good(s) == SizeOf(T) = SizeOf(s) + SizeOf(T \ s)
           B == {s \in SUBSET S : ~Good(s)}
<1>1. SUFFICES ASSUME B # {} PROVE FALSE
  BY Zenon
<1>2. PICK s \in B : \A t \in SUBSET s : t \in B => t = s
  <2>1. B \in SUBSET (SUBSET S) /\ IsFiniteSet(S)
    BY FiniteContents, Zenon
  <2> HIDE DEF B
  <2> QED BY <1>1, <2>1, MinimalSubset
<1>3. s \in SUBSET S /\ ~Good(s) /\ s \in SUBSET Contents
  OBVIOUS
<1>4. CASE s = {}
  <2>1. SizeOf({}) = 0 /\ T \ s = T
    BY <1>4, SumEmpty, Zenon DEF SizeOf
  <2>2. SizeOf(T) \in Nat
    BY SizeNat, Zenon
  <2> QED BY <1>3, <1>4, <2>1, <2>2
<1>5. CASE s # {}
  <2>1. PICK x \in s : TRUE
    BY <1>5, Zenon
  <2>2. PICK u : u = s \ {x}
    BY Zenon
  <2>3. u \in SUBSET s /\ u # s /\ u \in SUBSET S /\ u \in SUBSET Contents
    BY <1>3, <2>1, <2>2, Zenon
  <2>4. SizeOf(T) = SizeOf(u) + SizeOf(T \ u)
    BY <1>2, <2>3, Zenon
  <2>5. SizeOf(s) = Size[x] + SizeOf(u)
    BY <1>3, <2>1, <2>2, SizeNat, Zenon
  <2>6. SizeOf(T \ u) = Size[x] + SizeOf(T \ s)
    <3>1. T \ u \in SUBSET Contents /\ x \in T \ u /\ (T \ u) \ {x} = T \ s
      BY <1>3, <2>1, <2>2, Zenon
    <3> QED BY <3>1, SizeNat
  <2>7. /\ SizeOf(s) \in Nat /\ SizeOf(u) \in Nat /\ Size[x] \in Nat
        /\ SizeOf(T \ u) \in Nat /\ SizeOf(T \ s) \in Nat
    <3>1. T \ u \in SUBSET Contents /\ T \ s \in SUBSET Contents
      OBVIOUS
    <3> QED BY <1>3, <2>3, <3>1, SizeNat, Zenon
  <2> QED BY <1>3, <2>4, <2>5, <2>6, <2>7
<1> QED BY <1>4, <1>5, Zenon

(* There are never as many bytes as a uint64 counts. *)
LEMMA SizeBound ==
  ASSUME NEW S \in SUBSET Contents
  PROVE  SizeOf(S) \in 0..(Word - 1)
<1>1. SizeOf(Contents) = SizeOf(S) + SizeOf(Contents \ S)
  BY SizeSplit, Zenon
<1>2. SizeOf(S) \in Nat /\ SizeOf(Contents \ S) \in Nat
  BY SizeNat, Zenon
<1>3. Word \in Int
  BY BoundAssumption
<1> QED BY <1>1, <1>2, <1>3, SizeAssumption

-----------------------------------------------------------------------------
(* The map of refs after refs leave it, and after one is put in it. *)
Less(f, S, g) ==
  RefMap(g) /\ DOMAIN g = DOMAIN f \ S /\ \A k \in DOMAIN f \ S : g[k] = f[k]
More(f, k, ref, g) ==
  /\ RefMap(g) /\ DOMAIN g = DOMAIN f \cup {k} /\ g[k] = ref
  /\ \A j \in DOMAIN f : j # k => g[j] = f[j]

(* Without keeps the refs it does not remove. *)
LEMMA WithoutRefs ==
  ASSUME NEW f, RefMap(f), NEW S, NEW g, g = Without(f, S)
  PROVE  Less(f, S, g)
<1>1. DOMAIN f \ S \in SUBSET DOMAIN f /\ f \in Refs
  BY Zenon DEF RefMap
<1>2. g \in Refs /\ DOMAIN g = DOMAIN f \ S /\ \A k \in DOMAIN f \ S : g[k] = f[k]
  BY <1>1, PartOfRefs, Zenon DEF Without
<1>3. \A k \in DOMAIN f \ S : IsRef(f[k])
  BY Zenon DEF RefMap
<1>4. \A k \in DOMAIN f \ S : IsRef(g[k])
  BY <1>2, <1>3, Zenon
<1> QED BY <1>2, <1>4, Zenon DEF RefMap, Less

(* Put leaves the other refs as they are. *)
LEMMA PutRefs ==
  ASSUME NEW f, RefMap(f), NEW k \in Contents, NEW ref, IsRef(ref), NEW g, g = Put(f, k, ref)
  PROVE  More(f, k, ref, g)
<1>1. /\ DOMAIN g = DOMAIN f \cup {k} /\ g[k] = ref
      /\ \A j \in DOMAIN f : j # k => g[j] = f[j]
      /\ g = [j \in DOMAIN g |-> g[j]]
  BY Zenon DEF Put
<1>2. DOMAIN f \subseteq Contents /\ \A j \in DOMAIN f : IsRef(f[j])
  BY RefsShape, Zenon DEF RefMap
<1>3. DOMAIN g \subseteq Contents /\ \A j \in DOMAIN g : IsRef(g[j])
  BY <1>1, <1>2, Zenon
<1>4. g \in Refs
  BY <1>1, <1>3, RefsShape, Zenon DEF IsRef
<1> QED BY <1>1, <1>3, <1>4, Zenon DEF RefMap, More

(* The list has the refs of the map, as ListMatchesRefs says. *)
LEMMA ListsMatch ==
  ASSUME refs \in Refs, Lists(blist, UseOf(refs))
  PROVE  /\ ListMatchesRefs
         /\ blist \in Seq([id : 0..MaxBucket, entries : SUBSET Contents])
<1>1. /\ Len(blist) \in Nat /\ DOMAIN blist = 1..Len(blist)
      /\ blist = [i \in 1..Len(blist) |-> blist[i]]
  BY Zenon DEF Lists
<1>2. ASSUME NEW i \in 1..Len(blist)
      PROVE  /\ blist[i].id \in Ids /\ blist[i].entries = UseOf(refs)[blist[i].id]
             /\ blist[i].entries # {}
             /\ blist[i] = Bucket(blist[i].id, blist[i].entries)
  BY Zenon DEF Lists
<1>3. ASSUME NEW i \in 1..Len(blist), NEW k \in blist[i].entries
      PROVE  k \in DOMAIN refs /\ refs[k].BucketID = blist[i].id
  <2>1. blist[i].id \in Ids /\ k \in UseOf(refs)[blist[i].id]
    BY <1>2, <1>3, Zenon
  <2> QED BY <2>1, Zenon DEF UseOf
<1>4. ASSUME NEW k \in DOMAIN refs
      PROVE  \E i \in 1..Len(blist) : k \in blist[i].entries
  <2>1. refs[k].BucketID \in Ids /\ k \in UseOf(refs)[refs[k].BucketID]
    BY UseIsUse, Zenon
  <2>2. PICK i \in 1..Len(blist) : blist[i].id = refs[k].BucketID
    BY <2>1, Zenon DEF Lists
  <2> QED BY <1>2, <2>1, <2>2, Zenon
<1>5. UNION {blist[i].entries : i \in DOMAIN blist} = DOMAIN refs
  <2>1. ASSUME NEW k, k \in DOMAIN refs PROVE \E i \in DOMAIN blist : k \in blist[i].entries
    BY <1>1, <1>4, <2>1, Zenon
  <2>2. ASSUME NEW i \in DOMAIN blist, NEW k \in blist[i].entries PROVE k \in DOMAIN refs
    BY <1>1, <1>3, Zenon
  <2> QED BY <2>1, <2>2, Zenon
<1>6. ListMatchesRefs
  <2>1. \A i, j \in DOMAIN blist : i < j => blist[i].id < blist[j].id
    BY <1>1, Zenon DEF Lists
  <2> QED BY <1>1, <1>2, <1>3, <1>5, <2>1, Zenon DEF ListMatchesRefs
<1>7. ASSUME NEW i \in 1..Len(blist)
      PROVE  blist[i] \in [id : 0..MaxBucket, entries : SUBSET Contents]
  <2>1. blist[i].entries \subseteq Contents
    BY <1>3, RefsShape, Zenon
  <2>2. PICK id \in Ids, T \in SUBSET Contents : blist[i] = Bucket(id, T)
    BY <1>2, <2>1, Zenon
  <2> QED BY <2>2 DEF Bucket, Ids
<1>8. blist \in Seq([id : 0..MaxBucket, entries : SUBSET Contents])
  <2>1. PICK T : T = [id : 0..MaxBucket, entries : SUBSET Contents]
    BY Zenon
  <2>2. \A i \in 1..Len(blist) : blist[i] \in T
    BY <1>7, <2>1, Zenon
  <2>3. blist \in Seq(T)
    BY <1>1, <2>2
  <2> QED BY <2>1, <2>3, Zenon
<1> QED BY <1>6, <1>8, Zenon
-----------------------------------------------------------------------------
(* What an update that is under way is left with when refs leave the map. *)
LEMMA DetachKeeps ==
  ASSUME UpdateOK, NEW S, Detach(S), DOMAIN refs \ S \subseteq DOMAIN refs'
  PROVE  UpdateOK'
<1>1. CASE update # None /\ update.k \in S
  <2>1. update \in Update /\ update' = [update EXCEPT !.live = FALSE]
    BY <1>1, Zenon DEF UpdateOK, Detach
  <2>2. update' \in Update /\ update'.live = FALSE
    <3>1. ASSUME NEW u \in Update
          PROVE  [u EXCEPT !.live = FALSE] \in Update /\ [u EXCEPT !.live = FALSE].live = FALSE
      BY Zenon DEF Update
    <3> QED BY <2>1, <3>1, Zenon
  <2> QED BY <2>2, Zenon DEF UpdateOK
<1>2. CASE ~(update # None /\ update.k \in S)
  <2>1. update' = update
    BY <1>2, Zenon DEF Detach
  <2> QED BY <1>2, <2>1, Zenon DEF UpdateOK
<1> QED BY <1>1, <1>2, Zenon

(* The refs that a call of evict removes are in the first bucket. *)
LEMMA VictimsLeast ==
  ASSUME refs \in Refs, ListOK, NEW n, NEW S \in Victims(n)
  PROVE  /\ S \subseteq DOMAIN refs
         /\ \A j \in S, x \in DOMAIN refs : refs[j].BucketID <= refs[x].BucketID
<1>1. CASE blist = <<>>
  BY <1>1, Zenon DEF Victims
<1>2. CASE blist # <<>>
  <2>0. ListMatchesRefs
    BY ListsMatch, Zenon DEF ListOK
  <2>1. /\ S \subseteq blist[1].entries /\ Len(blist) \in Nat /\ 1 \in DOMAIN blist
        /\ DOMAIN blist = 1..Len(blist)
    <3>1. Len(blist) \in Nat /\ DOMAIN blist = 1..Len(blist) /\ Len(blist) # 0
      BY <1>2 DEF ListOK, Lists
    <3> QED BY <1>2, <3>1 DEF Victims
  <2>2. \A j \in S : j \in DOMAIN refs /\ refs[j].BucketID = blist[1].id
    BY <2>0, <2>1, Zenon DEF ListMatchesRefs
  <2>3. ASSUME NEW x \in DOMAIN refs PROVE blist[1].id <= refs[x].BucketID
    <3>1. PICK i \in DOMAIN blist : x \in blist[i].entries
      BY <2>0, Zenon DEF ListMatchesRefs
    <3>2. refs[x].BucketID = blist[i].id /\ (i = 1 \/ blist[1].id < blist[i].id)
      BY <2>0, <2>1, <3>1 DEF ListMatchesRefs
    <3>3. blist[1].id \in Int /\ blist[i].id \in Int
      BY <2>1, BoundAssumption DEF ListOK, Lists, Ids
    <3> QED BY <3>2, <3>3
  <2> QED BY <2>2, <2>3, Zenon
<1> QED BY <1>1, <1>2, Zenon

(* The blocks tagged for the garbage collector are blocks of contents. *)
LEMMA TagsAreBlocks ==
  ASSUME NEW k \in Contents
  PROVE  /\ Dag[k] \subseteq Blocks
         /\ \A T \in Tags(k) : T \subseteq Blocks
<1>1. Dag[k] \subseteq Blocks
  BY DagAssumption, Zenon DEF Blocks, Range
<1> QED BY <1>1, Zenon DEF Tags

(* The ref SetRef stores, placed in the list. *)
PlacedRef(names, bl, k) == [NewRef(names) EXCEPT !.BucketID = IdOf(bl, k)]

(* SetRef: what it removes, and what it leaves. *)
SetRefMoves(k, names, S, ref) ==
  /\ k \notin DOMAIN refs /\ S \subseteq DOMAIN refs
  /\ \A j \in S, x \in DOMAIN refs : refs[j].BucketID <= refs[x].BucketID
  /\ size + Size[k] <= MaxSize
  /\ blist' = Place(remBlistEntries(blist, S), k)
  /\ ref = PlacedRef(names, blist', k)
  /\ refs' = Put(Without(refs, S), k, ref)
  /\ root' = Put(root, k, ref) /\ saved' = root' /\ rootCID' = "stored"
  /\ size' = AfterEviction(size + Size[k], S)
  /\ gcSet' \subseteq Blocks /\ Detach(S)
  /\ UNCHANGED <<blocks, open, dropped>>

(* Every SetRef is such a move: the evicted refs are those of Victims. *)
LEMMA SetRefMove ==
  ASSUME IndexInv, NEW k \in Contents, NEW names \in SUBSET Names, SetRef(k, names)
  PROVE  \E S \in SUBSET DOMAIN refs : \E ref : SetRefMoves(k, names, S, ref)
<1>1. PICK S \in IF Ub > 0 /\ Lb > 0 /\ size + Size[k] > Ub
                 THEN Victims((size + Size[k]) - Lb) ELSE {{}} :
        LET bl == Place(remBlistEntries(blist, S), k)
            ref == PlacedRef(names, bl, k)
        IN  /\ \E T \in TagsOf(S) : gcSet' = gcSet \cup T
            /\ size' = AfterEviction(size + Size[k], S)
            /\ blist' = bl
            /\ refs' = Put(Without(refs, S), k, ref)
            /\ Flush(Put(root, k, ref))
            /\ Detach(S)
  BY Zenon DEF SetRef, PlacedRef
<1>2. PICK ref : ref = PlacedRef(names, blist', k)
  BY Zenon
<1>3. /\ S \subseteq DOMAIN refs
      /\ \A j \in S, x \in DOMAIN refs : refs[j].BucketID <= refs[x].BucketID
  <2>1. refs \in Refs /\ ListOK
    BY Zenon DEF IndexInv, MapsOK, RefMap
  <2>2. CASE S = {}
    BY <2>2, Zenon
  <2>3. CASE \E n : S \in Victims(n)
    BY <2>1, <2>3, VictimsLeast, Zenon
  <2> QED BY <2>2, <2>3, Zenon
<1>4. gcSet' \subseteq Blocks
  <2>1. PICK T \in TagsOf(S) : gcSet' = gcSet \cup T
    BY <1>1, Zenon
  <2>2. T \subseteq Blocks
    BY DEF TagsOf, Range
  <2>3. gcSet \subseteq Blocks
    BY Zenon DEF IndexInv, StateOK
  <2> QED BY <2>1, <2>2, <2>3, Zenon
<1>5. /\ k \notin DOMAIN refs /\ size + Size[k] <= MaxSize
      /\ UNCHANGED <<blocks, open, dropped>>
  BY Zenon DEF SetRef
<1>6. SetRefMoves(k, names, S, ref)
  BY <1>1, <1>2, <1>3, <1>4, <1>5, Zenon DEF SetRefMoves, Flush
<1> QED BY <1>3, <1>6, Zenon

(* The list and the map after SetRef. *)
LEMMA SetRefLists ==
  ASSUME NEW f, RefMap(f), NEW bl, Lists(bl, UseOf(f)), NEW k \in Contents, k \notin DOMAIN f,
         NEW names \in SUBSET Names, NEW ref,
         ref = PlacedRef(names, Place(bl, k), k)
  PROVE  IsRef(ref) /\ Lists(Place(bl, k), UseOf(Put(f, k, ref)))
<1>0. f \in Refs
  BY Zenon DEF RefMap
<1>1. PICK use \in Uses : use = UseOf(f) /\ \A x \in Ids : k \notin use[x]
  <2>1. UseOf(f) \in Uses /\ \A x \in Ids : k \notin UseOf(f)[x]
    BY <1>0, UseIsUse, Zenon
  <2> QED BY <2>1, Zenon
<1>2. PICK id \in Ids : Lists(Place(bl, k), Gains(use, id, k))
  BY <1>1, PlaceLists, Zenon
<1>3. PICK now \in Uses : /\ now = Gains(use, id, k)
                          /\ k \in now[id] /\ \A x \in Ids : k \in now[x] => x = id
  <2> DEFINE now == Gains(use, id, k)
  <2>1. now \in Uses /\ k \in now[id] /\ \A x \in Ids : k \in now[x] => x = id
    BY <1>1, Zenon DEF Uses, Gains
  <2> QED BY <2>1, Zenon
<1>4. IdOf(Place(bl, k), k) = id
  <2>1. Lists(Place(bl, k), now)
    BY <1>2, <1>3, Zenon
  <2>2. Finds(Place(bl, k), id, k)
    BY <1>3, <2>1, NodeLists, Zenon
  <2> QED BY <2>2, Zenon DEF Finds
<1>5. ref = [Freq |-> 0, BucketID |-> id, Keys |-> names]
  BY <1>4, Zenon DEF NewRef, PlacedRef
<1>6. IsRef(ref) /\ ref.BucketID = id
  <2>1. 0 \in 0..MaxBucket /\ id \in 0..MaxBucket /\ 0 <= id
    BY BoundAssumption DEF Ids
  <2>2. ref \in DataRef
    <3>1. [Freq |-> 0, BucketID |-> id, Keys |-> names] \in DataRef
      BY <2>1, Zenon DEF DataRef
    <3> QED BY <1>5, <3>1, Zenon
  <2>3. ref.Freq = 0 /\ ref.BucketID = id
    BY <1>5
  <2>4. ref.Freq <= ref.BucketID
    BY <2>1, <2>3, Zenon
  <2> QED BY <2>2, <2>3, <2>4, Zenon DEF IsRef
<1>7. UseOf(Put(f, k, ref)) = now
  <2>0. PICK q : q = Put(f, k, ref)
    BY Zenon
  <2>1. DOMAIN q = DOMAIN f \cup {k} /\ q[k] = ref /\ \A j \in DOMAIN f : j # k => q[j] = f[j]
    <3>m. More(f, k, ref, q)
      BY <1>6, <2>0, PutRefs, Zenon
    <3> QED BY <3>m, Zenon DEF More
  <2>2. q[k].BucketID = id /\ \A j \in DOMAIN f : q[j] = f[j]
    BY <1>6, <2>1, Zenon
  <2>3. UseOf(q) = Gains(UseOf(f), id, k)
    BY <1>0, <2>1, <2>2, UseWith, Zenon
  <2> QED BY <1>1, <1>3, <2>0, <2>3, Zenon
<1> QED BY <1>2, <1>3, <1>6, <1>7, Zenon

(* SetRef: the refs it evicts leave the map and the list, and their bytes  *)
(* the size; the new ref is in all three and saved.                        *)
LEMMA SetRefKeeps ==
  ASSUME IndexInv, NEW k \in Contents, NEW names \in SUBSET Names,
         NEW S \in SUBSET DOMAIN refs, NEW ref, SetRefMoves(k, names, S, ref)
  PROVE  IndexInv'
<1>i. MapsOK /\ ListOK /\ StateOK /\ SizeAccounts /\ Durable /\ SavedOK /\ UpdateOK
  BY Zenon DEF IndexInv
<1>m. /\ k \notin DOMAIN refs /\ size + Size[k] <= MaxSize
      /\ blist' = Place(remBlistEntries(blist, S), k)
      /\ ref = PlacedRef(names, blist', k)
      /\ refs' = Put(Without(refs, S), k, ref)
      /\ root' = Put(root, k, ref) /\ saved' = root' /\ rootCID' = "stored"
      /\ size' = AfterEviction(size + Size[k], S)
      /\ gcSet' \subseteq Blocks /\ Detach(S)
      /\ UNCHANGED <<blocks, open, dropped>>
  BY Zenon DEF SetRefMoves
<1>0. PICK f : f = Without(refs, S)
  BY Zenon
<1>1. /\ f = Without(refs, S) /\ RefMap(f) /\ DOMAIN f = DOMAIN refs \ S
      /\ \A j \in DOMAIN refs \ S : f[j] = refs[j]
  <2>m. Less(refs, S, f)
    BY <1>i, <1>0, WithoutRefs, Zenon DEF MapsOK
  <2> QED BY <1>0, <2>m, Zenon DEF Less
<1>2. Lists(remBlistEntries(blist, S), UseOf(f))
  <2>1. refs \in Refs /\ Lists(blist, UseOf(refs))
    BY <1>i, Zenon DEF MapsOK, RefMap, ListOK
  <2> QED BY <1>1, <2>1, RemoveAllLists, Zenon
<1>3. k \notin DOMAIN f
  BY <1>m, <1>1, Zenon
<1>4. IsRef(ref) /\ Lists(blist', UseOf(refs'))
  <2>1. PICK bl : bl = remBlistEntries(blist, S)
    BY Zenon
  <2>2. Lists(bl, UseOf(f)) /\ blist' = Place(bl, k) /\ refs' = Put(f, k, ref)
        /\ ref = PlacedRef(names, Place(bl, k), k)
    BY <1>m, <1>1, <1>2, <2>1, Zenon
  <2> QED BY <1>1, <1>3, <2>2, SetRefLists, Zenon
<1>5. /\ RefMap(refs') /\ DOMAIN refs' = (DOMAIN refs \ S) \cup {k} /\ refs'[k] = ref
      /\ \A j \in DOMAIN refs \ S : j # k => refs'[j] = refs[j]
  <2>1. refs' = Put(f, k, ref) /\ IsRef(ref) /\ RefMap(f)
    BY <1>m, <1>1, <1>4, Zenon
  <2>2. /\ RefMap(refs') /\ DOMAIN refs' = DOMAIN f \cup {k} /\ refs'[k] = ref
        /\ \A j \in DOMAIN f : j # k => refs'[j] = f[j]
    <3>m. More(f, k, ref, refs')
      BY <2>1, PutRefs, Zenon
    <3> QED BY <3>m, Zenon DEF More
  <2> QED BY <1>1, <2>2, Zenon
<1>6. /\ RefMap(root') /\ RefMap(saved') /\ DOMAIN root' = DOMAIN root \cup {k} /\ root'[k] = ref
      /\ \A j \in DOMAIN root : j # k => root'[j] = root[j]
  <2>1. RefMap(root)
    BY <1>i, Zenon DEF MapsOK
  <2>2. root' = Put(root, k, ref) /\ saved' = root' /\ IsRef(ref)
    BY <1>m, <1>4, Zenon
  <2>3. More(root, k, ref, root')
    BY <2>1, <2>2, PutRefs, Zenon
  <2> QED BY <2>2, <2>3, Zenon DEF More
<1>7. MapsOK' /\ ListOK' /\ SavedOK'
  BY <1>m, <1>4, <1>5, <1>6, Zenon DEF MapsOK, ListOK, SavedOK
<1>8. Durable'
  <2> SUFFICES ASSUME open, ~dropped, NEW j \in DOMAIN refs'
               PROVE  /\ j \in DOMAIN saved'
                      /\ saved'[j] = refs'[j] \/ saved'[j] = NewRef(saved'[j].Keys)
    BY <1>m, Zenon DEF Durable
  <2>1. CASE j = k
    BY <1>m, <1>5, <1>6, <2>1, Zenon
  <2>2. CASE j # k
    <3>1. j \in DOMAIN refs \ S /\ root = saved
      BY <1>i, <1>5, <2>2, Zenon DEF SavedOK
    <3>2. j \in DOMAIN saved /\ (saved[j] = refs[j] \/ saved[j] = NewRef(saved[j].Keys))
      BY <1>i, <3>1, Zenon DEF Durable
    <3> QED BY <1>m, <1>5, <1>6, <2>2, <3>1, <3>2, ZenonT(60)
  <2> QED BY <2>1, <2>2, Zenon
<1>9. UpdateOK'
  <2>1. DOMAIN refs \ S \subseteq DOMAIN refs'
    BY <1>5, Zenon
  <2> QED BY <1>i, <1>m, <2>1, DetachKeeps, Zenon
<1>10. SizeAccounts' /\ size' \in 0..(Word - 1)
  <2>1. DOMAIN refs \in SUBSET Contents
    BY <1>i, RefsShape, Zenon DEF MapsOK, RefMap
  <2>2. PICK a \in Nat, b \in Nat, c \in Nat :
          a = SizeOf(DOMAIN refs) /\ b = SizeOf(S) /\ c = SizeOf(DOMAIN refs \ S)
    <3>1. S \in SUBSET Contents /\ DOMAIN refs \ S \in SUBSET Contents
      BY <2>1, Zenon
    <3> QED BY <2>1, <3>1, SizeNat, Zenon
  <2>3. a = b + c
    BY <2>1, <2>2, SizeSplit, Zenon
  <2>4. PICK d \in Nat : d = Size[k]
    BY SizeAssumption, Zenon
  <2>5. SizeOf(DOMAIN refs') = d + c
    <3>1. (DOMAIN refs \ S) \cup {k} \in SUBSET Contents
      BY <2>1, Zenon
    <3>2. SizeOf((DOMAIN refs \ S) \cup {k})
            = Size[k] + SizeOf(((DOMAIN refs \ S) \cup {k}) \ {k})
      BY <3>1, SizeNat, Zenon
    <3>3. ((DOMAIN refs \ S) \cup {k}) \ {k} = DOMAIN refs \ S
      BY <1>m, Zenon
    <3> QED BY <1>5, <2>2, <2>4, <3>2, <3>3, Zenon
  <2>6. PICK z \in Nat : z = size /\ z >= a /\ (~dropped => z = a)
    BY <1>i, <2>2, BoundAssumption DEF StateOK, SizeAccounts
  <2>7. PICK w \in Nat : w = Word /\ z + d <= w - 1
    <3>1. z + d <= MaxSize
      BY <1>m, <2>4, <2>6, Zenon
    <3>2. Word \in Nat /\ z + d <= Word - 1
      BY <3>1, BoundAssumption
    <3> QED BY <3>2, Zenon
  <2>8. ((z + d) - b) % w = (z + d) - b
    BY <2>3, <2>6, <2>7
  <2>9. size' = (z + d) - b
    <3>1. size' = ((size + Size[k]) - SizeOf(S)) % Word
      BY <1>m, Zenon DEF AfterEviction
    <3> QED BY <2>2, <2>4, <2>6, <2>7, <2>8, <3>1, ZenonT(60)
  <2>10. size' \in 0..(w - 1) /\ size' >= d + c /\ (~dropped => size' = d + c)
    BY <2>3, <2>6, <2>7, <2>9
  <2> QED BY <1>m, <2>5, <2>7, <2>10, Zenon DEF SizeAccounts
<1>11. StateOK'
  BY <1>i, <1>m, <1>10, Zenon DEF StateOK
<1> QED BY <1>7, <1>8, <1>9, <1>10, <1>11, Zenon DEF IndexInv

(* GetRef: the ref moves up one bucket in the list, in the map and in the  *)
(* HAMT.                                                                   *)
LEMMA GetRefKeeps ==
  ASSUME IndexInv, NEW k \in Contents, GetRef(k)
  PROVE  IndexInv'
<1>i. MapsOK /\ ListOK /\ StateOK /\ SizeAccounts /\ Durable /\ SavedOK /\ UpdateOK
  BY Zenon DEF IndexInv
<1>0. PICK ref : ref = [refs[k] EXCEPT !.Freq = @ + 1, !.BucketID = IdOf(MoveUp(blist, k), k)]
  OBVIOUS
<1>m. /\ k \in DOMAIN refs /\ refs[k].BucketID < MaxBucket
      /\ blist' = MoveUp(blist, k) /\ refs' = [refs EXCEPT ![k] = ref]
      /\ root' = Put(root, k, ref) /\ saved' = root' /\ rootCID' = "stored"
      /\ UNCHANGED <<size, gcSet, blocks, update, open, dropped>>
  BY <1>0, Zenon DEF GetRef, Flush
<1>1. refs \in Refs /\ RefMap(refs) /\ RefMap(root) /\ Lists(blist, UseOf(refs))
  BY <1>i, Zenon DEF MapsOK, RefMap, ListOK
<1>2. PICK use \in Uses, id \in Ids :
        /\ use = UseOf(refs) /\ id = refs[k].BucketID /\ k \in use[id]
        /\ \A x \in Ids : k \in use[x] => x = id
  <2>1. UseOf(refs) \in Uses /\ refs[k].BucketID \in Ids /\ k \in UseOf(refs)[refs[k].BucketID]
        /\ \A x \in Ids : k \in UseOf(refs)[x] => x = refs[k].BucketID
    BY <1>m, <1>1, UseIsUse, Zenon
  <2> QED BY <2>1, Zenon
<1>3. id < MaxBucket /\ id + 1 \in Ids /\ id # id + 1
  BY <1>m, <1>2, BoundAssumption DEF Ids
<1>4. PICK now : now = Loses(Gains(use, id + 1, k), id, k)
  BY Zenon
<1>5. now \in Uses /\ k \in now[id + 1] /\ \A x \in Ids : k \in now[x] => x = id + 1
  <2>1. PICK up \in Uses : /\ up = Gains(use, id + 1, k) /\ up[id + 1] = use[id + 1] \cup {k}
                           /\ \A x \in Ids : x # id + 1 => up[x] = use[x]
    <3>1. Gains(use, id + 1, k) \in Uses
      BY <1>3, Zenon DEF Gains, Uses
    <3>2. /\ Gains(use, id + 1, k)[id + 1] = use[id + 1] \cup {k}
          /\ \A x \in Ids : x # id + 1 => Gains(use, id + 1, k)[x] = use[x]
      BY <1>3, Zenon DEF Gains, Uses
    <3> QED BY <3>1, <3>2, Zenon
  <2>2. now \in Uses /\ now[id] = up[id] \ {k} /\ \A x \in Ids : x # id => now[x] = up[x]
    <3>1. now = Loses(up, id, k)
      BY <1>4, <2>1, Zenon
    <3> QED BY <3>1, Zenon DEF Loses, Uses
  <2> QED BY <1>2, <1>3, <2>1, <2>2
<1>6. Lists(blist', now)
  BY <1>m, <1>1, <1>2, <1>3, <1>4, MoveUpLists, Zenon
<1>7. IdOf(MoveUp(blist, k), k) = id + 1
  <2>1. Finds(blist', id + 1, k)
    BY <1>3, <1>5, <1>6, NodeLists, Zenon
  <2> QED BY <1>m, <2>1, Zenon DEF Finds
<1>8. IsRef(ref) /\ ref.BucketID = id + 1
  <2>1. refs[k] \in DataRef /\ refs[k].Freq <= id
    BY <1>m, <1>1, <1>2, Zenon DEF RefMap, IsRef
  <2>2. ref = [refs[k] EXCEPT !.Freq = @ + 1, !.BucketID = id + 1]
    BY <1>0, <1>7, Zenon
  <2>3. refs[k].Freq + 1 \in 0..MaxBucket /\ id + 1 \in 0..MaxBucket /\ refs[k].Freq + 1 <= id + 1
    <3>1. refs[k].Freq \in 0..MaxBucket
      BY <2>1, Zenon DEF DataRef
    <3> QED BY <1>2, <1>3, <2>1, <3>1, BoundAssumption, SMTT(60) DEF Ids
  <2>4. ref \in DataRef /\ ref.Freq = refs[k].Freq + 1 /\ ref.BucketID = id + 1
    <3>1. PICK d \in DataRef, n \in 0..MaxBucket, m \in 0..MaxBucket :
            d = refs[k] /\ n = d.Freq + 1 /\ m = id + 1
      BY <2>1, <2>3, Zenon
    <3>2. ref = [d EXCEPT !.Freq = n, !.BucketID = m]
      BY <2>2, <3>1, Zenon
    <3>3. ref \in DataRef /\ ref.Freq = n /\ ref.BucketID = m
      <4>1. [d EXCEPT !.Freq = n, !.BucketID = m] \in DataRef
        BY Zenon DEF DataRef
      <4>2. /\ [d EXCEPT !.Freq = n, !.BucketID = m].Freq = n
            /\ [d EXCEPT !.Freq = n, !.BucketID = m].BucketID = m
        BY Zenon DEF DataRef
      <4> QED BY <3>2, <4>1, <4>2, Zenon
    <3> QED BY <3>1, <3>3, Zenon
  <2> QED BY <2>3, <2>4, Zenon DEF IsRef
<1>9. /\ RefMap(refs') /\ DOMAIN refs' = DOMAIN refs /\ refs'[k] = ref
      /\ \A j \in DOMAIN refs : j # k => refs'[j] = refs[j]
  <2>1. refs' = Put(refs, k, ref)
    <3>1. refs = [j \in DOMAIN refs |-> refs[j]]
      BY <1>1, RefsShape, Zenon
    <3> QED BY <1>m, <3>1, Zenon DEF Put
  <2>2. DOMAIN refs \cup {k} = DOMAIN refs
    BY <1>m, Zenon
  <2>3. More(refs, k, ref, refs')
    BY <1>1, <1>8, <2>1, PutRefs, Zenon
  <2> QED BY <2>2, <2>3, Zenon DEF More
<1>10. UseOf(refs') = now
  <2>1. PICK q : q = refs'
    BY Zenon
  <2>2. /\ DOMAIN q = DOMAIN refs /\ q[k].BucketID = id + 1
        /\ \A j \in DOMAIN refs : j # k => q[j] = refs[j]
    BY <1>8, <1>9, <2>1, Zenon
  <2>3. UseOf(q) = Loses(Gains(UseOf(refs), id + 1, k), id, k)
    BY <1>m, <1>1, <1>2, <1>3, <2>2, UseMoved, Zenon
  <2> QED BY <1>2, <1>4, <2>1, <2>3, Zenon
<1>11. /\ RefMap(root') /\ DOMAIN root' = DOMAIN root \cup {k} /\ root'[k] = ref
       /\ \A j \in DOMAIN root : j # k => root'[j] = root[j]
  <2>m. More(root, k, ref, root')
    BY <1>m, <1>1, <1>8, PutRefs, Zenon
  <2> QED BY <2>m, Zenon DEF More
<1>12. MapsOK' /\ ListOK' /\ SavedOK'
  BY <1>m, <1>6, <1>9, <1>10, <1>11, Zenon DEF MapsOK, ListOK, SavedOK
<1>13. Durable'
  <2> SUFFICES ASSUME open, ~dropped, NEW j \in DOMAIN refs'
               PROVE  /\ j \in DOMAIN saved'
                      /\ saved'[j] = refs'[j] \/ saved'[j] = NewRef(saved'[j].Keys)
    BY <1>m, Zenon DEF Durable
  <2>1. CASE j = k
    BY <1>m, <1>9, <1>11, <2>1, Zenon
  <2>2. CASE j # k
    <3>1. j \in DOMAIN refs /\ root = saved
      BY <1>i, <1>9, Zenon DEF SavedOK
    <3>2. j \in DOMAIN saved /\ (saved[j] = refs[j] \/ saved[j] = NewRef(saved[j].Keys))
      BY <1>i, <3>1, Zenon DEF Durable
    <3> QED BY <1>m, <1>9, <1>11, <2>2, <3>1, <3>2, ZenonT(60)
  <2> QED BY <2>1, <2>2, Zenon
<1>14. StateOK' /\ SizeAccounts' /\ UpdateOK'
  BY <1>i, <1>m, <1>9, Zenon DEF StateOK, SizeAccounts, UpdateOK
<1> QED BY <1>12, <1>13, <1>14, Zenon DEF IndexInv

(* UpdateRef, after its lookup: the ref in the map gets the keys, the HAMT *)
(* the ref of the caller.                                                  *)
LEMMA UpdateRefWriteKeeps ==
  ASSUME IndexInv, UpdateRefWrite
  PROVE  IndexInv'
<1>i. MapsOK /\ ListOK /\ StateOK /\ SizeAccounts /\ Durable /\ SavedOK /\ UpdateOK
  BY Zenon DEF IndexInv
<1>0. PICK k \in Contents, names \in SUBSET Names : k = update.k /\ names = update.Keys
  BY <1>i, Zenon DEF UpdateRefWrite, UpdateOK, Update
<1>m. /\ update # None /\ update' = None
      /\ refs' = IF update.live THEN [refs EXCEPT ![k].Keys = @ \cup names] ELSE refs
      /\ root' = Put(root, k, NewRef(names)) /\ saved' = root' /\ rootCID' = "stored"
      /\ UNCHANGED <<blist, size, gcSet, blocks, open, dropped>>
  BY <1>0, Zenon DEF UpdateRefWrite, Flush
<1>1. refs \in Refs /\ RefMap(refs) /\ RefMap(root) /\ Lists(blist, UseOf(refs))
  BY <1>i, Zenon DEF MapsOK, RefMap, ListOK
<1>2. /\ RefMap(refs') /\ DOMAIN refs' = DOMAIN refs
      /\ \A j \in DOMAIN refs : /\ refs'[j].BucketID = refs[j].BucketID
                                /\ j # k => refs'[j] = refs[j]
  <2>1. CASE update.live
    <3>1. k \in DOMAIN refs
      BY <1>i, <1>0, <1>m, <2>1, Zenon DEF UpdateOK
    <3>2. PICK ref : ref = [refs[k] EXCEPT !.Keys = @ \cup names]
      BY Zenon
    <3>3. refs[k] \in DataRef /\ refs[k].Freq <= refs[k].BucketID
      BY <1>1, <3>1, Zenon DEF RefMap, IsRef
    <3>4. ref \in DataRef /\ ref.Freq = refs[k].Freq /\ ref.BucketID = refs[k].BucketID
      BY <3>2, <3>3, Zenon DEF DataRef
    <3>5. refs' = Put(refs, k, ref)
      <4>1. refs = [j \in DOMAIN refs |-> refs[j]]
        BY <1>1, RefsShape, Zenon
      <4>2. refs' = [refs EXCEPT ![k] = ref]
        BY <1>m, <2>1, <3>2, Zenon
      <4> QED BY <3>1, <4>1, <4>2, Zenon DEF Put
    <3>6. DOMAIN refs \cup {k} = DOMAIN refs
      BY <3>1, Zenon
    <3>7. IsRef(ref)
      BY <3>3, <3>4, Zenon DEF IsRef
    <3>8. /\ RefMap(refs') /\ DOMAIN refs' = DOMAIN refs /\ refs'[k] = ref
          /\ \A j \in DOMAIN refs : j # k => refs'[j] = refs[j]
      <4>m. More(refs, k, ref, refs')
        BY <1>1, <3>5, <3>7, PutRefs, Zenon
      <4> QED BY <3>6, <4>m, Zenon DEF More
    <3> QED BY <3>4, <3>8, Zenon
  <2>2. CASE ~update.live
    BY <1>1, <1>m, <2>2, Zenon
  <2> QED BY <2>1, <2>2, Zenon
<1>3. UseOf(refs') = UseOf(refs)
  BY <1>2, Zenon DEF UseOf
<1>4. IsRef(NewRef(names)) /\ NewRef(names).Keys = names
  BY BoundAssumption DEF NewRef, DataRef, IsRef
<1>5. /\ RefMap(root') /\ DOMAIN root' = DOMAIN root \cup {k} /\ root'[k] = NewRef(names)
      /\ \A j \in DOMAIN root : j # k => root'[j] = root[j]
  <2>m. More(root, k, NewRef(names), root')
    BY <1>m, <1>1, <1>4, PutRefs, Zenon
  <2> QED BY <2>m, Zenon DEF More
<1>6. MapsOK' /\ ListOK' /\ SavedOK'
  BY <1>m, <1>1, <1>2, <1>3, <1>5, Zenon DEF MapsOK, ListOK, SavedOK
<1>7. Durable'
  <2> SUFFICES ASSUME open, ~dropped, NEW j \in DOMAIN refs'
               PROVE  /\ j \in DOMAIN saved'
                      /\ saved'[j] = refs'[j] \/ saved'[j] = NewRef(saved'[j].Keys)
    BY <1>m, Zenon DEF Durable
  <2>1. CASE j = k
    BY <1>m, <1>4, <1>5, <2>1, Zenon
  <2>2. CASE j # k
    <3>1. j \in DOMAIN refs /\ root = saved
      BY <1>i, <1>2, Zenon DEF SavedOK
    <3>2. j \in DOMAIN saved /\ (saved[j] = refs[j] \/ saved[j] = NewRef(saved[j].Keys))
      BY <1>i, <3>1, Zenon DEF Durable
    <3> QED BY <1>m, <1>2, <1>5, <2>2, <3>1, <3>2, Zenon
  <2> QED BY <2>1, <2>2, Zenon
<1>8. StateOK' /\ SizeAccounts' /\ UpdateOK'
  BY <1>i, <1>m, <1>2, Zenon DEF StateOK, SizeAccounts, UpdateOK
<1> QED BY <1>6, <1>7, <1>8, Zenon DEF IndexInv

(* The calls that take refs out of the map and leave the size: DropRef and *)
(* CleanBlockStore.                                                        *)
LEMMA DropKeeps ==
  ASSUME IndexInv, NEW S \in SUBSET DOMAIN refs, Lists(blist', UseOf(Without(refs, S))),
         refs' = Without(refs, S), RefMap(root'), RefMap(saved'), StateOK',
         Detach(S), dropped', UNCHANGED size
  PROVE  IndexInv'
<1>i. MapsOK /\ ListOK /\ StateOK /\ SizeAccounts /\ Durable /\ SavedOK /\ UpdateOK
  BY Zenon DEF IndexInv
<1>1. RefMap(refs') /\ DOMAIN refs' = DOMAIN refs \ S
  <2>m. Less(refs, S, refs')
    BY <1>i, WithoutRefs, Zenon DEF MapsOK
  <2> QED BY <2>m, Zenon DEF Less
<1>2. MapsOK' /\ ListOK' /\ SavedOK' /\ Durable'
  BY <1>1, Zenon DEF MapsOK, ListOK, SavedOK, Durable
<1>3. UpdateOK'
  <2>1. DOMAIN refs \ S \subseteq DOMAIN refs'
    BY <1>1, Zenon
  <2> QED BY <1>i, <2>1, DetachKeeps, Zenon
<1>4. SizeAccounts'
  <2>1. DOMAIN refs \in SUBSET Contents
    BY <1>i, RefsShape, Zenon DEF MapsOK, RefMap
  <2>2. S \in SUBSET Contents /\ DOMAIN refs \ S \in SUBSET Contents
    BY <2>1, Zenon
  <2>3. SizeOf(DOMAIN refs) = SizeOf(S) + SizeOf(DOMAIN refs \ S)
    BY <2>1, SizeSplit, Zenon
  <2>4. SizeOf(S) \in Nat /\ SizeOf(DOMAIN refs \ S) \in Nat
    BY <2>2, SizeNat, Zenon
  <2>5. size \in Int /\ size >= SizeOf(DOMAIN refs)
    BY <1>i, BoundAssumption DEF StateOK, SizeAccounts
  <2>6. size >= SizeOf(DOMAIN refs \ S)
    BY <2>3, <2>4, <2>5
  <2> QED BY <1>1, <2>6, Zenon DEF SizeAccounts
<1> QED BY <1>2, <1>3, <1>4, Zenon DEF IndexInv

(* DropRef: the ref leaves the map, its bucket and the saved HAMT. *)
LEMMA DropRefKeeps ==
  ASSUME IndexInv, NEW k \in Contents, DropRef(k)
  PROVE  IndexInv'
<1>i. MapsOK /\ ListOK /\ StateOK
  BY Zenon DEF IndexInv
<1>m. /\ k \in DOMAIN refs /\ gcSet' = gcSet \cup Dag[k]
      /\ blist' = remBlistEntry(blist, NodeOf(blist, k), k)
      /\ refs' = Without(refs, {k}) /\ root' = Without(root, {k}) /\ saved' = root'
      /\ rootCID' = "stored" /\ Detach({k}) /\ dropped' = TRUE /\ UNCHANGED <<size, blocks, open>>
  BY Zenon DEF DropRef, Flush
<1>1. refs \in Refs /\ RefMap(refs) /\ RefMap(root) /\ Lists(blist, UseOf(refs))
  BY <1>i, Zenon DEF MapsOK, RefMap, ListOK
<1>2. PICK use \in Uses, id \in Ids :
        /\ use = UseOf(refs) /\ id = refs[k].BucketID /\ k \in use[id]
        /\ \A x \in Ids : k \in use[x] => x = id
  <2>1. UseOf(refs) \in Uses /\ refs[k].BucketID \in Ids /\ k \in UseOf(refs)[refs[k].BucketID]
        /\ \A x \in Ids : k \in UseOf(refs)[x] => x = refs[k].BucketID
    BY <1>m, <1>1, UseIsUse, Zenon
  <2> QED BY <2>1, Zenon
<1>3. PICK i : i = NodeOf(blist, k)
  BY Zenon
<1>4. i \in 1..Len(blist) /\ k \in blist[i].entries /\ blist[i].id = id
  <2>1. Finds(blist, id, k)
    BY <1>1, <1>2, NodeLists, Zenon
  <2> QED BY <1>3, <2>1, Zenon DEF Finds
<1>5. Lists(blist', Loses(use, id, k))
  BY <1>m, <1>1, <1>2, <1>3, <1>4, RemoveLists, Zenon
<1>6. UseOf(Without(refs, {k})) = Loses(use, id, k)
  <2>0. PICK q : q = Without(refs, {k})
    BY Zenon
  <2>m. Less(refs, {k}, q)
    BY <1>1, <2>0, WithoutRefs, Zenon
  <2>1. DOMAIN q = DOMAIN refs \ {k} /\ \A j \in DOMAIN q : q[j] = refs[j]
    BY <2>m, Zenon DEF Less
  <2>2. UseOf(q) = Loses(UseOf(refs), id, k)
    BY <1>m, <1>1, <1>2, <2>1, UseWithout, Zenon
  <2> QED BY <1>2, <2>0, <2>2, Zenon
<1>7. RefMap(root') /\ RefMap(saved')
  <2>1. Less(root, {k}, root')
    BY <1>m, <1>1, WithoutRefs, Zenon
  <2> QED BY <1>m, <2>1, Zenon DEF Less
<1>8. StateOK'
  <2>1. gcSet' \subseteq Blocks
    BY <1>i, <1>m, TagsAreBlocks, Zenon DEF StateOK
  <2> QED BY <1>i, <1>m, <2>1, Zenon DEF StateOK
<1>9. {k} \in SUBSET DOMAIN refs
  BY <1>m, Zenon
<1> QED BY <1>m, <1>5, <1>6, <1>7, <1>8, <1>9, DropKeeps, Zenon

(* CleanBlockStore: the refs whose CID is missing leave the map and the   *)
(* list; the size and the evicted refs of the HAMT stay.                  *)
LEMMA CleanBlockStoreKeeps ==
  ASSUME IndexInv, CleanBlockStore
  PROVE  IndexInv'
<1>i. MapsOK /\ ListOK /\ StateOK
  BY Zenon DEF IndexInv
<1>m. PICK S \in SUBSET DOMAIN refs :
        /\ refs' = Without(refs, S) /\ blist' = remBlistEntries(blist, S)
        /\ blocks' \subseteq blocks /\ root' = Without(root, S)
        /\ (saved' = saved \/ saved' = root') /\ rootCID' \in {rootCID, "swept"}
        /\ Detach(S) /\ dropped' = TRUE /\ UNCHANGED <<size, gcSet, open>>
  <2> DEFINE links == DOMAIN saved \cup UNION {Dag[k] : k \in DOMAIN saved \cap blocks}
             gone == (links \ blocks) \cap DOMAIN refs
  <2>1. /\ refs' = Without(refs, gone) /\ blist' = remBlistEntries(blist, gone)
        /\ blocks' = blocks \cap links /\ root' = Without(root, gone)
        /\ saved' = IF gone = {} THEN saved ELSE root'
        /\ rootCID' = IF gone = {} THEN rootCID ELSE "swept"
        /\ Detach(gone) /\ dropped' = TRUE /\ UNCHANGED <<size, gcSet, open>>
    BY Zenon DEF CleanBlockStore
  <2>2. gone \in SUBSET DOMAIN refs
    BY Zenon
  <2>3. PICK S : S = gone
    BY Zenon
  <2>4. blocks' \subseteq blocks
    BY <2>1, Zenon
  <2>5. saved' = saved \/ saved' = root'
    BY <2>1, Zenon
  <2>6. rootCID' \in {rootCID, "swept"}
    BY <2>1, Zenon
  <2> HIDE DEF gone, links
  <2> QED BY <2>1, <2>2, <2>3, <2>4, <2>5, <2>6, Zenon
<1>1. refs \in Refs /\ RefMap(root) /\ RefMap(saved) /\ Lists(blist, UseOf(refs))
  BY <1>i, Zenon DEF MapsOK, RefMap, ListOK
<1>2. Lists(blist', UseOf(Without(refs, S)))
  BY <1>m, <1>1, RemoveAllLists, Zenon
<1>3. RefMap(root') /\ RefMap(saved')
  <2>1. Less(root, S, root')
    BY <1>m, <1>1, WithoutRefs, Zenon
  <2> QED BY <1>m, <1>1, <2>1, Zenon DEF Less
<1>4. StateOK'
  BY <1>i, <1>m, Zenon DEF StateOK
<1> QED BY <1>m, <1>2, <1>3, <1>4, DropKeeps, Zenon

(* NewIndex: what was saved is what there is. *)
LEMMA LoadKeeps ==
  ASSUME IndexInv, Load
  PROVE  IndexInv'
<1>i. MapsOK /\ StateOK
  BY Zenon DEF IndexInv
<1>m. PICK h : /\ h = (IF open' THEN saved ELSE Empty)
               /\ refs' = h /\ root' = h /\ blist' = LoadList(h)
               /\ size' = SizeOf(DOMAIN h) % Word
               /\ gcSet' = {} /\ update' = None /\ dropped' = FALSE
               /\ open' = (rootCID # "swept")
               /\ UNCHANGED <<saved, rootCID, blocks>>
  BY Zenon DEF Load
<1>1. RefMap(h)
  <2>1. RefMap(Empty)
    <3>1. DOMAIN Empty = {} /\ Empty = [k \in DOMAIN Empty |-> Empty[k]]
      BY Zenon DEF Empty
    <3>2. Empty \in Refs
      BY <3>1, RefsShape, Zenon
    <3> QED BY <3>1, <3>2, Zenon DEF RefMap
  <2> QED BY <1>i, <1>m, <2>1, Zenon DEF MapsOK
<1>2. h \in Refs /\ DOMAIN h \in SUBSET Contents
  BY <1>1, RefsShape, Zenon DEF RefMap
<1>3. MapsOK' /\ ListOK'
  BY <1>i, <1>m, <1>1, <1>2, LoadListLists, Zenon DEF MapsOK, ListOK
<1>4. size' = SizeOf(DOMAIN h) /\ size' \in 0..(Word - 1)
  <2>1. PICK a : a = SizeOf(DOMAIN h) /\ a \in 0..(Word - 1)
    BY <1>2, SizeBound, Zenon
  <2>2. a % Word = a
    BY <2>1, BoundAssumption
  <2> QED BY <1>m, <2>1, <2>2, Zenon
<1>5. SizeAccounts'
  <2>1. SizeOf(DOMAIN h) \in Int
    BY <1>2, SizeNat
  <2>2. SizeOf(DOMAIN h) >= SizeOf(DOMAIN h)
    BY <2>1
  <2> QED BY <1>m, <1>4, <2>2, Zenon DEF SizeAccounts
<1>6. StateOK'
  <2>1. open' \in BOOLEAN
    BY <1>m, Zenon
  <2> QED BY <1>i, <1>m, <1>4, <2>1, Zenon DEF StateOK
<1>7. SavedOK' /\ UpdateOK' /\ Durable'
  BY <1>m, Zenon DEF SavedOK, UpdateOK, Durable
<1> QED BY <1>3, <1>4, <1>5, <1>6, <1>7, Zenon DEF IndexInv

(* The steps that leave refs, list and size alone. *)
LEMMA OthersKeep ==
  ASSUME IndexInv, UNCHANGED <<refs, blist, size, saved, rootCID, open>>,
         gcSet' \subseteq Blocks, blocks' \subseteq Blocks, dropped' \in BOOLEAN,
         RefMap(root'), ~dropped' => ~dropped /\ root' = root, UpdateOK'
  PROVE  IndexInv'
<1>i. MapsOK /\ ListOK /\ StateOK /\ SizeAccounts /\ Durable /\ SavedOK /\ UpdateOK
  BY Zenon DEF IndexInv
<1>1. MapsOK' /\ ListOK' /\ StateOK' /\ SavedOK'
  BY <1>i, Zenon DEF MapsOK, ListOK, StateOK, SavedOK
<1>2. SizeAccounts'
  BY <1>i, Zenon DEF SizeAccounts
<1>3. Durable'
  BY <1>i, Zenon DEF Durable
<1> QED BY <1>1, <1>2, <1>3, Zenon DEF IndexInv

(* Every action of the index keeps the invariant. *)
LEMMA IndexInvStep ==
  ASSUME IndexInv, [Next]_vars
  PROVE  IndexInv'
<1>i. MapsOK /\ StateOK /\ UpdateOK
  BY Zenon DEF IndexInv
<1>0. RefMap(root) /\ gcSet \subseteq Blocks /\ blocks \subseteq Blocks /\ dropped \in BOOLEAN
  BY <1>i, Zenon DEF MapsOK, StateOK
<1>1. ASSUME NEW k \in Contents, Migrate(k) PROVE IndexInv'
  <2>1. UNCHANGED <<refs, blist, size, root, saved, rootCID, gcSet, update, open, dropped>>
    BY <1>1, Zenon DEF Migrate
  <2>2. blocks' \subseteq Blocks
    <3>1. PICK T \in SUBSET Dag[k] : blocks' = blocks \cup T
      BY <1>1, Zenon DEF Migrate
    <3> QED BY <1>0, <3>1, TagsAreBlocks, Zenon
  <2>3. UpdateOK'
    BY <1>i, <2>1, Zenon DEF UpdateOK
  <2> QED BY <1>0, <2>1, <2>2, <2>3, OthersKeep, Zenon
<1>2. ASSUME NEW k \in Contents, NEW names \in SUBSET Names, SetRef(k, names) PROVE IndexInv'
  <2>1. PICK S \in SUBSET DOMAIN refs : \E ref : SetRefMoves(k, names, S, ref)
    BY <1>2, SetRefMove, Zenon
  <2>2. PICK ref : SetRefMoves(k, names, S, ref)
    BY <2>1, Zenon
  <2> QED BY <2>2, SetRefKeeps, Zenon
<1>3. ASSUME NEW k \in Contents, NEW names \in SUBSET Names, UpdateRef(k, names)
      PROVE  IndexInv'
  <2>1. /\ UNCHANGED <<refs, blist, size, root, saved, rootCID, gcSet, blocks, open, dropped>>
        /\ update' = [k |-> k, Keys |-> names, live |-> TRUE] /\ k \in DOMAIN refs
    BY <1>3, Zenon DEF UpdateRef
  <2>2. UpdateOK'
    <3>1. update' \in Update /\ update'.k = k
      BY <2>1, Zenon DEF Update
    <3> QED BY <2>1, <3>1, Zenon DEF UpdateOK
  <2> QED BY <1>0, <2>1, <2>2, OthersKeep, Zenon
<1>4. ASSUME NEW k \in Contents, GetRef(k) PROVE IndexInv'
  BY <1>4, GetRefKeeps, Zenon
<1>5. ASSUME NEW k \in Contents, DropRef(k) PROVE IndexInv'
  BY <1>5, DropRefKeeps, Zenon
<1>6. ASSUME NEW k \in Contents, DropRefFails(k) PROVE IndexInv'
  <2>1. /\ UNCHANGED <<refs, blist, size, saved, rootCID, blocks, update, open>>
        /\ dropped' = TRUE /\ root' = Without(root, {k})
        /\ \E T \in Tags(k) : gcSet' = gcSet \cup T
    BY <1>6, Zenon DEF DropRefFails
  <2>2. gcSet' \subseteq Blocks
    <3>1. PICK T \in Tags(k) : gcSet' = gcSet \cup T
      BY <2>1, Zenon
    <3>2. T \subseteq Blocks
      BY TagsAreBlocks, Zenon
    <3> QED BY <1>0, <3>1, <3>2, Zenon
  <2>3. RefMap(root')
    <3>m. Less(root, {k}, root')
      BY <1>0, <2>1, WithoutRefs, Zenon
    <3> QED BY <3>m, Zenon DEF Less
  <2>4. UpdateOK'
    BY <1>i, <2>1, Zenon DEF UpdateOK
  <2> QED BY <1>0, <2>1, <2>2, <2>3, <2>4, OthersKeep, Zenon
<1>7. ASSUME NEW k \in Contents, DropRefPanics(k) PROVE IndexInv'
  BY <1>7, LoadKeeps, Zenon DEF DropRefPanics
<1>8. CASE UpdateRefWrite
  BY <1>8, UpdateRefWriteKeeps, Zenon
<1>9. CASE GC
  <2>1. /\ UNCHANGED <<refs, blist, size, root, saved, rootCID, update, open, dropped>>
        /\ gcSet' = {} /\ blocks' = blocks \ gcSet
    BY <1>9, Zenon DEF GC
  <2>2. UpdateOK'
    BY <1>i, <2>1, Zenon DEF UpdateOK
  <2>3. gcSet' \subseteq Blocks /\ blocks' \subseteq Blocks
    BY <1>0, <2>1, Zenon
  <2> QED BY <1>0, <2>1, <2>2, <2>3, OthersKeep, Zenon
<1>10. CASE CleanBlockStore
  BY <1>10, CleanBlockStoreKeeps, Zenon
<1>11. CASE Restart
  BY <1>11, LoadKeeps, Zenon DEF Restart
<1>12. CASE UNCHANGED vars
  <2>1. UNCHANGED <<refs, blist, size, root, saved, rootCID, gcSet, blocks, update, open,
                    dropped>>
    BY <1>12, Zenon DEF vars
  <2>2. UpdateOK'
    BY <1>i, <2>1, Zenon DEF UpdateOK
  <2> QED BY <1>0, <2>1, <2>2, OthersKeep, Zenon
<1> QED BY <1>1, <1>2, <1>3, <1>4, <1>5, <1>6, <1>7, <1>8, <1>9, <1>10, <1>11, <1>12, ZenonT(60)
        DEF Next

(* The empty index has it. *)
LEMMA IndexInvInit ==
  ASSUME Init
  PROVE  IndexInv
<1>0. /\ refs = Empty /\ root = Empty /\ saved = Empty /\ blist = <<>> /\ size = 0
      /\ rootCID = "undef" /\ gcSet = {} /\ blocks = {} /\ update = None
      /\ open = TRUE /\ dropped = FALSE
  BY Zenon DEF Init
<1>1. DOMAIN Empty = {} /\ Empty = [k \in DOMAIN Empty |-> Empty[k]]
  BY Zenon DEF Empty
<1>2. Empty \in Refs
  BY <1>1, RefsShape, Zenon
<1>3. MapsOK
  BY <1>0, <1>1, <1>2, Zenon DEF MapsOK, RefMap
<1>4. ListOK
  <2>1. \A id \in Ids : UseOf(Empty)[id] = {}
    BY <1>1, Zenon DEF UseOf
  <2> QED BY <1>0, <2>1, EmptyLists, Zenon DEF ListOK
<1>5. StateOK
  <2>1. 0 \in 0..(Word - 1)
    BY BoundAssumption
  <2> QED BY <1>0, <2>1, Zenon DEF StateOK
<1>6. SizeAccounts
  <2>1. SizeOf({}) = 0
    BY SumEmpty, Zenon DEF SizeOf
  <2> QED BY <1>0, <1>1, <2>1 DEF SizeAccounts
<1>7. Durable /\ SavedOK /\ UpdateOK
  BY <1>0, <1>1, Zenon DEF Durable, SavedOK, UpdateOK
<1> QED BY <1>3, <1>4, <1>5, <1>6, <1>7, Zenon DEF IndexInv

(* The invariant of the index, for any contents, bounds and number of      *)
(* reads: every sequence of SetRef, GetRef, UpdateRef, DropRef,            *)
(* CleanBlockStore, GC and restarts of index.go keeps it.                  *)
THEOREM IndexInvariant == Spec => []IndexInv
BY IndexInvInit, IndexInvStep, PTL DEF Spec

(* The list of buckets and the map of refs of index.go agree: every ref is *)
(* in exactly one bucket, that of its BucketID, and ids rise.              *)
THEOREM ListAgrees == Spec => []ListMatchesRefs
<1>1. IndexInv => ListMatchesRefs
  BY ListsMatch, Zenon DEF IndexInv, MapsOK, RefMap, ListOK
<1> QED BY <1>1, IndexInvariant, PTL

(* The fields of Index keep their types; in particular idx.size, which     *)
(* SetRef adds to and evict subtracts from, stays a uint64.                *)
THEOREM IndexTypeCorrect == Spec => []TypeOK
<1>1. ASSUME IndexInv PROVE TypeOK
  <2>1. refs \in Refs /\ root \in Refs /\ saved \in Refs
        /\ blist \in Seq([id : 0..MaxBucket, entries : SUBSET Contents])
    BY <1>1, ListsMatch, Zenon DEF IndexInv, MapsOK, RefMap, ListOK
  <2> QED BY <1>1, <2>1, Zenon DEF IndexInv, StateOK, UpdateOK, TypeOK
<1> QED BY <1>1, IndexInvariant, PTL

(* idx.size is what the refs in the map have, and never less after DropRef *)
(* and CleanBlockStore: idx.size -= PayloadSize in evict never wraps.      *)
THEOREM SizeIsKept == Spec => []SizeAccounts
<1>1. IndexInv => SizeAccounts
  BY Zenon DEF IndexInv
<1> QED BY <1>1, IndexInvariant, PTL

(* A crash between two operations of index.go loses no ref, nor its place  *)
(* in the list but for what UpdateRef overwrote.                           *)
THEOREM RefsAreDurable == Spec => []Durable
<1>1. IndexInv => Durable
  BY Zenon DEF IndexInv
<1> QED BY <1>1, IndexInvariant, PTL

(* What evict removes was read no more often than what it leaves.          *)
THEOREM LeastUsedGoesFirst == Spec => EvictsLeastUsed
<1> DEFINE Order == (~ dropped /\ ~ dropped' /\ open') =>
             \A j \in DOMAIN refs \ DOMAIN refs', k \in DOMAIN refs \cap DOMAIN refs' :
               refs[j].BucketID <= refs[k].BucketID
<1>1. ASSUME IndexInv, [Next]_vars PROVE Order
  <2> SUFFICES ASSUME ~dropped, ~dropped', open' PROVE
         \A j \in DOMAIN refs \ DOMAIN refs', k \in DOMAIN refs \cap DOMAIN refs' :
            refs[j].BucketID <= refs[k].BucketID
    BY Zenon
  <2>i. MapsOK /\ ListOK /\ Durable
    BY <1>1, Zenon DEF IndexInv
  <2>1. CASE DOMAIN refs \subseteq DOMAIN refs'
    BY <2>1, Zenon
  <2>2. ASSUME NEW k \in Contents, NEW names \in SUBSET Names, SetRef(k, names)
        PROVE  \A j \in DOMAIN refs \ DOMAIN refs', x \in DOMAIN refs \cap DOMAIN refs' :
                  refs[j].BucketID <= refs[x].BucketID
    <3>1. PICK S \in SUBSET DOMAIN refs : \E ref : SetRefMoves(k, names, S, ref)
      BY <1>1, <2>2, SetRefMove, Zenon
    <3>2. PICK ref : SetRefMoves(k, names, S, ref)
      BY <3>1, Zenon
    <3>3. \A j \in S, x \in DOMAIN refs : refs[j].BucketID <= refs[x].BucketID
      BY <3>2, Zenon DEF SetRefMoves
    <3>4. DOMAIN refs \ S \subseteq DOMAIN refs'
      <4>1. DOMAIN Without(refs, S) = DOMAIN refs \ S
        <5>1. Less(refs, S, Without(refs, S))
          BY <2>i, WithoutRefs, Zenon DEF MapsOK
        <5> QED BY <5>1, Zenon DEF Less
      <4>2. refs' = Put(Without(refs, S), k, ref)
        BY <3>2, Zenon DEF SetRefMoves
      <4> QED BY <4>1, <4>2, Zenon DEF Put
    <3> QED BY <3>3, <3>4, Zenon
  <2>3. CASE UNCHANGED refs
    BY <2>3, Zenon
  <2>4. ASSUME NEW k \in Contents, GetRef(k) PROVE DOMAIN refs \subseteq DOMAIN refs'
    BY <2>4, Zenon DEF GetRef
  <2>5. CASE UpdateRefWrite
    <3>1. DOMAIN refs \subseteq DOMAIN refs'
      BY <2>5, Zenon DEF UpdateRefWrite
    <3> QED BY <2>1, <3>1, Zenon
  <2>6. ASSUME open, Load PROVE DOMAIN refs \subseteq DOMAIN refs'
    <3>1. refs' = saved
      BY <2>6, Zenon DEF Load
    <3> QED BY <2>i, <2>6, <3>1, Zenon DEF Durable
  <2>7. ASSUME NEW k \in Contents, NEW names \in SUBSET Names,
               Migrate(k) \/ UpdateRef(k, names) \/ GC \/ UNCHANGED vars
        PROVE  UNCHANGED refs
    BY <2>7, Zenon DEF Migrate, UpdateRef, GC, vars
  <2>8. ASSUME NEW k \in Contents, DropRef(k) \/ DropRefFails(k) \/ CleanBlockStore
        PROVE  dropped'
    BY <2>8, Zenon DEF DropRef, DropRefFails, CleanBlockStore
  <2>9. GC \/ UNCHANGED vars => UNCHANGED refs
    BY Zenon DEF GC, vars
  <2>10. CleanBlockStore => dropped'
    BY Zenon DEF CleanBlockStore
  <2> QED BY <1>1, <2>1, <2>2, <2>3, <2>4, <2>5, <2>6, <2>7, <2>8, <2>9, <2>10, ZenonT(60)
          DEF Next, Restart, DropRefPanics
<1>2. IndexInv /\ [Next]_vars => [Order]_vars
  BY <1>1, Zenon
<1> QED BY <1>2, IndexInvariant, PTL DEF Spec, EvictsLeastUsed
=============================================================================
