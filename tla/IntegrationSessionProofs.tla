----------------------- MODULE IntegrationSessionProofs -----------------------
(* Whatever the records, the reviewer's verdicts and the kills: theorems     *)
(* about IntegrationSession.                                                 *)
EXTENDS IntegrationSession, SequenceTheorems, TLAPS

-----------------------------------------------------------------------------
(* Lists of records. *)

LEMMA ListIs ==
  ASSUME NEW rs \in Lists
  PROVE  /\ rs \in Seq(Records) /\ Len(rs) \in Nat /\ DOMAIN rs = 1 .. Len(rs)
         /\ \A k \in DOMAIN rs : rs[k] \in Records /\ rs[k].id \in RecordIds /\ rs[k].body \in Bodies
         /\ Ids(rs) \subseteq RecordIds
         /\ \A k, m \in DOMAIN rs : rs[k].id = rs[m].id => k = m
<1>1. rs \in Seq(Records) /\ \A k, m \in DOMAIN rs : rs[k].id = rs[m].id => k = m
  BY DEF Lists, Unique
<1>2. Len(rs) \in Nat /\ DOMAIN rs = 1 .. Len(rs)  BY <1>1
<1>3. \A k \in DOMAIN rs : rs[k] \in Records  BY <1>1, <1>2
<1>4. \A r \in Records : r.id \in RecordIds /\ r.body \in Bodies  BY DEF Records
<1> QED  BY <1>1, <1>2, <1>3, <1>4 DEF Ids

LEMMA HashIs ==
  ASSUME NEW rs \in Lists
  PROVE  /\ DOMAIN HashOf(rs) = Ids(rs)
         /\ \A k \in DOMAIN rs : HashOf(rs)[rs[k].id] = rs[k].body
         /\ \A i \in Ids(rs) : HashOf(rs)[i] \in Bodies
         /\ HashOf(rs) = [i \in Ids(rs) |-> HashOf(rs)[i]]
<1>1. DOMAIN HashOf(rs) = Ids(rs) /\ HashOf(rs) = [i \in Ids(rs) |-> HashOf(rs)[i]]
  BY DEF HashOf
<1>2. ASSUME NEW k \in DOMAIN rs PROVE HashOf(rs)[rs[k].id] = rs[k].body
  <2> DEFINE c == CHOOSE r \in ToSet(rs) : r.id = rs[k].id
  <2>1. rs[k] \in ToSet(rs) /\ rs[k].id \in Ids(rs)  BY DEF ToSet, Ids
  <2>2. c \in ToSet(rs) /\ c.id = rs[k].id  BY <2>1
  <2>3. HashOf(rs)[rs[k].id] = c.body  BY <2>1 DEF HashOf
  <2> HIDE DEF c
  <2>4. PICK m \in DOMAIN rs : c = rs[m]  BY <2>2 DEF ToSet
  <2>5. m = k  BY <2>2, <2>4, ListIs
  <2> QED  BY <2>3, <2>4, <2>5
<1>3. ASSUME NEW i \in Ids(rs) PROVE HashOf(rs)[i] \in Bodies
  <2>1. PICK k \in DOMAIN rs : i = rs[k].id  BY DEF Ids
  <2> QED  BY <1>2, <2>1, ListIs
<1> QED  BY <1>1, <1>2, <1>3

\* A record that is in two lists has the same hash in both.
LEMMA HashSame ==
  ASSUME NEW rs \in Lists, NEW t \in Lists, NEW k \in DOMAIN rs, NEW m \in DOMAIN t, t[m] = rs[k]
  PROVE  HashOf(t)[rs[k].id] = HashOf(rs)[rs[k].id]
BY HashIs

LEMMA WithoutIs ==
  ASSUME NEW rs \in Lists, NEW i \in Ids(rs)
  PROVE  LET t == Without(rs, i)
         IN  /\ t \in Lists /\ Ids(t) = Ids(rs) \ {i}
             /\ \A j \in Ids(t) : HashOf(t)[j] = HashOf(rs)[j]
<1> DEFINE at == CHOOSE k \in DOMAIN rs : rs[k].id = i
           n == Len(rs)
           a == SubSeq(rs, 1, at - 1)
           b == SubSeq(rs, at + 1, n)
           t == Without(rs, i)
           old(k) == IF k < at THEN k ELSE k + 1
<1>1. at \in DOMAIN rs /\ rs[at].id = i
  <2>1. \E k \in DOMAIN rs : rs[k].id = i  BY DEF Ids
  <2> QED  BY <2>1
<1>2. t = a \o b  BY DEF Without, RemoveAt
<1> HIDE DEF at, t
<1>3. rs \in Seq(Records) /\ n \in Nat /\ at \in 1 .. n /\ DOMAIN rs = 1 .. n  BY <1>1, ListIs
<1>4. /\ a \in Seq(Records) /\ Len(a) = at - 1 /\ \A k \in 1 .. at - 1 : a[k] = rs[k]
  <2>1. \A k \in 1 .. at - 1 : rs[k] \in Records  BY <1>3, ListIs
  <2> QED  BY <1>3, <2>1, SubSeqProperties
<1>5. /\ b \in Seq(Records) /\ Len(b) = n - at /\ \A k \in 1 .. n - at : b[k] = rs[at + k]
  <2> DEFINE m == at + 1
  <2>1. m \in Int /\ n \in Int /\ \A k \in m .. n : rs[k] \in Records  BY <1>3, ListIs
  <2>2. /\ SubSeq(rs, m, n) \in Seq(Records)
        /\ Len(SubSeq(rs, m, n)) = IF m <= n THEN n - m + 1 ELSE 0
        /\ \A k \in 1 .. n - m + 1 : SubSeq(rs, m, n)[k] = rs[m + k - 1]
    <3> HIDE DEF m, n
    <3> QED  BY <2>1, SubSeqProperties
  <2>3. b = SubSeq(rs, m, n)  OBVIOUS
  <2> HIDE DEF b
  <2>4. n - m + 1 = n - at /\ (m <= n \/ n - at = 0)
    <3> HIDE DEF n
    <3>1. at \in Int /\ n \in Int /\ at <= n  BY <1>3
    <3> QED  BY <3>1
  <2>5. Len(b) = n - at  BY <2>2, <2>3, <2>4
  <2>6. ASSUME NEW k \in 1 .. n - at PROVE b[k] = rs[at + k]
    <3>1. m + k - 1 = at + k  BY <1>3
    <3>2. b[k] = rs[m + k - 1]  BY <2>2, <2>3, <2>4
    <3> QED  BY <3>1, <3>2
  <2> QED  BY <2>2, <2>3, <2>5, <2>6
<1> HIDE DEF a, b
<1>6. /\ t \in Seq(Records) /\ Len(t) = n - 1 /\ DOMAIN t = 1 .. n - 1
      /\ \A k \in 1 .. n - 1 : t[k] = rs[old(k)]
  <2>1. t \in Seq(Records) /\ Len(t) = n - 1
    <3>1. Len(a \o b) = Len(a) + Len(b) /\ a \o b \in Seq(Records)
      BY <1>4, <1>5, ConcatProperties
    <3> QED  BY <1>2, <1>3, <1>4, <1>5, <3>1
  <2>2. ASSUME NEW k \in 1 .. n - 1 PROVE t[k] = rs[old(k)]
    <3>1. t[k] = IF k <= Len(a) THEN a[k] ELSE b[k - Len(a)]
      BY <1>2, <1>3, <1>4, <1>5, ConcatProperties
    <3>2. CASE k < at
      <4>1. k \in 1 .. at - 1 /\ k <= Len(a)  BY <1>3, <1>4, <3>2
      <4> QED  BY <1>4, <3>1, <3>2, <4>1
    <3>3. CASE k >= at
      <4>1. ~(k <= Len(a)) /\ k - Len(a) \in 1 .. n - at /\ at + (k - Len(a)) = k + 1
        BY <1>3, <1>4, <3>3
      <4>2. ~(k < at)  BY <1>3, <3>3
      <4> QED  BY <1>5, <3>1, <4>1, <4>2
    <3> QED  BY <1>3, <3>2, <3>3
  <2> QED  BY <1>3, <2>1, <2>2
<1> HIDE DEF n
<1>7. \A k \in DOMAIN t : old(k) \in DOMAIN rs /\ old(k) # at  BY <1>3, <1>6
<1>8. \A k, m \in DOMAIN t : old(k) = old(m) => k = m  BY <1>3, <1>6
<1> HIDE DEF old
<1>9. \A k \in DOMAIN t : t[k] = rs[old(k)]  BY <1>6
<1>10. Unique(t)  BY <1>7, <1>8, <1>9, ListIs DEF Unique
<1>11. t \in Lists  BY <1>6, <1>10 DEF Lists
<1>12. ASSUME NEW j \in Ids(t) PROVE j \in Ids(rs) \ {i} /\ HashOf(t)[j] = HashOf(rs)[j]
  <2>1. PICK k \in DOMAIN t : j = t[k].id  BY DEF Ids
  <2>2. old(k) \in DOMAIN rs /\ old(k) # at /\ t[k] = rs[old(k)]  BY <1>7, <1>9
  <2>3. j \in Ids(rs) /\ j # i  BY <1>1, <2>1, <2>2, ListIs DEF Ids
  <2> QED  BY <1>11, <2>1, <2>2, <2>3, HashSame
<1>13. ASSUME NEW j \in Ids(rs) \ {i} PROVE j \in Ids(t)
  <2>1. PICK k \in DOMAIN rs : j = rs[k].id  BY DEF Ids
  <2>2. k # at  BY <1>1, <2>1
  <2>3. \E m \in DOMAIN t : old(m) = k
    <3>1. CASE k < at  BY <1>3, <1>6, <3>1 DEF old
    <3>2. CASE k > at
      <4>1. k - 1 \in DOMAIN t /\ old(k - 1) = k  BY <1>3, <1>6, <3>2 DEF old
      <4> QED  BY <4>1
    <3> QED  BY <1>3, <2>2, <3>1, <3>2
  <2> QED  BY <1>9, <2>1, <2>3 DEF Ids
<1> QED  BY <1>11, <1>12, <1>13 DEF t

LEMMA CorrectedIs ==
  ASSUME NEW rs \in Lists, NEW i \in Ids(rs), NEW b \in Bodies
  PROVE  LET t == Corrected(rs, i, b)
         IN  /\ t \in Lists /\ Ids(t) = Ids(rs) /\ HashOf(t)[i] = b
             /\ \A j \in Ids(t) \ {i} : HashOf(t)[j] = HashOf(rs)[j]
<1> DEFINE t == Corrected(rs, i, b)
<1>1. i \in RecordIds /\ Len(rs) \in Nat /\ DOMAIN rs = 1 .. Len(rs)  BY ListIs
<1>2. \A k \in DOMAIN rs : (IF rs[k].id = i THEN [id |-> i, body |-> b] ELSE rs[k]) \in Records
  BY <1>1, ListIs DEF Records
<1>3. t = [k \in 1 .. Len(rs) |-> IF rs[k].id = i THEN [id |-> i, body |-> b] ELSE rs[k]]
  BY <1>1 DEF Corrected
<1>4. t \in Seq(Records) /\ DOMAIN t = DOMAIN rs  BY <1>1, <1>2, <1>3
<1>5. \A k \in DOMAIN t : /\ rs[k].id = i => t[k] = [id |-> i, body |-> b]
                          /\ rs[k].id # i => t[k] = rs[k]
                          /\ t[k].id = rs[k].id
  BY <1>1, <1>3, <1>4
<1> HIDE DEF t
<1>6. t \in Lists  BY <1>4, <1>5, ListIs DEF Lists, Unique
<1>7. Ids(t) = Ids(rs)  BY <1>4, <1>5 DEF Ids
<1>8. HashOf(t)[i] = b
  <2>1. PICK k \in DOMAIN rs : i = rs[k].id  BY DEF Ids
  <2> QED  BY <1>4, <1>5, <1>6, <2>1, HashIs
<1>9. ASSUME NEW j \in Ids(t) \ {i} PROVE HashOf(t)[j] = HashOf(rs)[j]
  <2>1. PICK k \in DOMAIN rs : j = rs[k].id  BY <1>7 DEF Ids
  <2> QED  BY <1>4, <1>5, <1>6, <2>1, HashSame
<1> QED  BY <1>6, <1>7, <1>8, <1>9 DEF t

LEMMA AppendedIs ==
  ASSUME NEW rs \in Lists, NEW i \in RecordIds \ Ids(rs), NEW b \in Bodies
  PROVE  LET t == Append(rs, [id |-> i, body |-> b])
         IN  /\ t \in Lists /\ Ids(rs) \subseteq Ids(t)
             /\ \A j \in Ids(rs) : HashOf(t)[j] = HashOf(rs)[j]
<1> DEFINE r == [id |-> i, body |-> b]
           t == Append(rs, r)
<1>1. r \in Records /\ r.id = i  BY DEF Records
<1> HIDE DEF r
<1>2. rs \in Seq(Records) /\ Len(rs) \in Nat /\ DOMAIN rs = 1 .. Len(rs)  BY ListIs
<1>3. /\ t \in Seq(Records) /\ DOMAIN t = 1 .. Len(rs) + 1
      /\ \A k \in DOMAIN rs : t[k] = rs[k]
      /\ t[Len(rs) + 1] = r
  BY <1>1, <1>2, AppendProperties
<1> HIDE DEF t
<1>4. \A k \in DOMAIN rs : rs[k].id # i  BY DEF Ids
<1>5. \A k \in DOMAIN t : k \in DOMAIN rs \/ k = Len(rs) + 1  BY <1>2, <1>3
<1>6. Unique(t)  BY <1>1, <1>3, <1>4, <1>5, ListIs DEF Unique
<1>7. t \in Lists  BY <1>3, <1>6 DEF Lists
<1>8. ASSUME NEW j \in Ids(rs) PROVE j \in Ids(t) /\ HashOf(t)[j] = HashOf(rs)[j]
  <2>1. PICK k \in DOMAIN rs : j = rs[k].id  BY DEF Ids
  <2>2. k \in DOMAIN t /\ t[k] = rs[k]  BY <1>2, <1>3
  <2> QED  BY <1>7, <2>1, <2>2, HashSame DEF Ids
<1> QED  BY <1>7, <1>8 DEF t, r

LEMMA AssetsAre ==
  ASSUME NEW rs \in Lists
  PROVE  /\ AssetsOf(rs) \subseteq Records
         /\ \A k \in 0 .. Len(rs) : AssetsOf(SubSeq(rs, 1, k)) \subseteq AssetsOf(rs)
         /\ AssetsOf(SubSeq(rs, 1, Len(rs))) = AssetsOf(rs)
<1>1. AssetsOf(rs) \subseteq Records  BY ListIs DEF AssetsOf, ToSet
<1>2. ASSUME NEW k \in 0 .. Len(rs) PROVE AssetsOf(SubSeq(rs, 1, k)) \subseteq AssetsOf(rs)
  <2> DEFINE t == SubSeq(rs, 1, k)
  <2>1. rs \in Seq(Records) /\ Len(rs) \in Nat /\ DOMAIN rs = 1 .. Len(rs)  BY ListIs
  <2>2. \A m \in 1 .. k : rs[m] \in Records  BY <2>1
  <2>3. t \in Seq(Records) /\ Len(t) = k /\ \A m \in 1 .. k : t[m] = rs[m]
    BY <2>1, <2>2, SubSeqProperties
  <2>4. DOMAIN t = 1 .. k  BY <2>3
  <2> HIDE DEF t
  <2>5. ToSet(t) \subseteq ToSet(rs)  BY <2>1, <2>3, <2>4 DEF ToSet
  <2>6. AssetsOf(t) \subseteq AssetsOf(rs)  BY <2>5 DEF AssetsOf
  <2> QED  BY <2>6 DEF t
<1>3. SubSeq(rs, 1, Len(rs)) = rs  BY ListIs, SubSeqFull
<1> QED  BY <1>1, <1>2, <1>3

-----------------------------------------------------------------------------
(* The invariant. *)

\* A repair is permitted by a review of the staged records, and what it may
\* not touch is as it was reviewed.
Permitted(d) ==
  d.auth # None =>
    /\ d.snap # None /\ d.result # None
    /\ d.result.kind = "targeted" \/ d.result.verdict = "repair_once"
    /\ d.auth.affected \cap d.auth.deps = {} /\ d.auth.affected \subseteq DOMAIN d.auth.base
    /\ \A i \in DOMAIN d.auth.base \ d.auth.affected :
         i \in Ids(Current(d)) /\ HashOf(Current(d))[i] = d.auth.base[i]

\* The packet was written when no more was removed than now, and a correction
\* corrects.
Progressed(d) ==
  d.progress # None =>
    /\ d.auth # None /\ d.packet # None
    /\ DOMAIN d.auth.base \ d.progress.removed \subseteq Ids(d.packet)
    /\ \A i \in DOMAIN d.progress.corrected :
         i \in DOMAIN d.auth.base /\ d.progress.corrected[i] # d.auth.base[i]

\* A recheck has every finding worked off, and stays the last review.
Rechecked(d) ==
  d.result # None /\ d.result.kind = "targeted" =>
    d.auth # None /\ d.progress # None /\ d.auth.affected \subseteq Done(d)

\* Assets are registered for an intent only, which is what is committed.
Planned(d) ==
  /\ d.committed # None => d.intent = d.committed
  /\ d.intent = None => d.registry = {}
  /\ d.intent # None => d.registry \subseteq AssetsOf(d.intent)

Good(d) == d \in DiskType /\ Permitted(d) /\ Progressed(d) /\ Rechecked(d) /\ Planned(d)

\* Only a kill leaves a journal, and one kill leaves one that is taken up, if no
\* other item has come in its way.
Unopposed(d) == d.journal # None => ~Collides(d, d.journal.after)
Journaled1(d, n) == /\ n = 0 => d.journal = None
                    /\ n <= 1 /\ Unopposed(d) => Reconcilable(d)

IInv == /\ Good(disk) /\ Journaled1(disk, kills) /\ kills \in 0 .. MaxKills
        /\ sess \in [Sessions -> {"none", "held", "released"}]

\* What the run is promised does not change.
SamePlan(d, t) == /\ t.intent = d.intent /\ t.committed = d.committed
                  /\ t.registry = d.registry /\ t.item = d.item
SameOutcome(d, t) == /\ t.intent = d.intent /\ t.committed = d.committed
                     /\ t.registry = d.registry /\ t.item = d.item /\ t.taken = d.taken
SameReview(d, t) == /\ t.packet = d.packet /\ t.result = d.result
                    /\ t.auth = d.auth /\ t.progress = d.progress

-----------------------------------------------------------------------------
(* The parts of a disk, and of one that an operation has written. *)

LEMMA Fields ==
  ASSUME NEW d \in DiskType
  PROVE  /\ d.snap \in Snapshots \cup {None} /\ d.packet \in Lists \cup {None}
         /\ d.result \in Reviews \cup {None} /\ d.auth \in Permits \cup {None}
         /\ d.progress \in Repairs \cup {None} /\ d.journal \in Journals \cup {None}
         /\ d.intent \in Lists \cup {None} /\ d.committed \in Lists \cup {None}
         /\ d.registry \in SUBSET Records /\ d.taken \in SUBSET Records
         /\ d.item \in {"pending", "integrated", "technical_failure"}
         /\ d.snap # None => Current(d) \in Lists
BY DEF DiskType, Current, Snapshots

LEMMA NoneIsNot ==
  /\ \A rs \in Lists : rs # None
  /\ \A x \in Snapshots : x # None
  /\ \A x \in Reviews : x # None
  /\ \A x \in Permits : x # None
  /\ \A x \in Repairs : x # None
  /\ \A x \in Journals : x # None
BY NoneIsNoRecord

LEMMA SnapSet ==
  ASSUME NEW d \in DiskType, NEW x \in Snapshots, NEW t, t = [d EXCEPT !.snap = x]
  PROVE  /\ t \in DiskType /\ t.snap = x /\ Current(t) = x.records
         /\ SameReview(d, t) /\ SameOutcome(d, t) /\ t.journal = d.journal
BY DEF DiskType, Current, SameReview, SameOutcome

LEMMA RecordsSet ==
  ASSUME NEW d \in DiskType, d.snap # None, NEW rs \in Lists,
         NEW t, t = [d EXCEPT !.snap.records = rs]
  PROVE  /\ t \in DiskType /\ t.snap # None /\ Current(t) = rs /\ t.snap.status = d.snap.status
         /\ SameReview(d, t) /\ SameOutcome(d, t) /\ t.journal = d.journal
<1> DEFINE x == [d.snap EXCEPT !.records = rs]
<1>1. d.snap \in Snapshots  BY Fields
<1>2. x \in Snapshots /\ x.records = rs /\ x.status = d.snap.status  BY <1>1 DEF Snapshots
<1>3. t = [d EXCEPT !.snap = x]  OBVIOUS
<1> HIDE DEF x
<1>4. /\ t \in DiskType /\ t.snap = x /\ Current(t) = x.records
      /\ SameReview(d, t) /\ SameOutcome(d, t) /\ t.journal = d.journal
  <2>1. \A u : u = [d EXCEPT !.snap = x] =>
          /\ u \in DiskType /\ u.snap = x /\ Current(u) = x.records
          /\ SameReview(d, u) /\ SameOutcome(d, u) /\ u.journal = d.journal
    BY <1>2, SnapSet
  <2> QED  BY <1>3, <2>1
<1>5. x # None  BY <1>2, NoneIsNot
<1> QED  BY <1>2, <1>4, <1>5

LEMMA ClosedIs ==
  ASSUME NEW d \in DiskType, d.snap # None, NEW status \in {"committed", "technical_failure"},
         NEW t, t = Closed(d, status)
  PROVE  /\ t \in DiskType /\ t.snap # None /\ Current(t) = Current(d)
         /\ SameReview(d, t) /\ SameOutcome(d, t) /\ t.journal = d.journal
<1> DEFINE x == [d.snap EXCEPT !.status = status]
<1>1. d.snap \in Snapshots  BY Fields
<1>2. x \in Snapshots /\ x.records = Current(d)  BY <1>1 DEF Snapshots, Current
<1>3. t = [d EXCEPT !.snap = x]  BY DEF Closed
<1> HIDE DEF x
<1>4. /\ t \in DiskType /\ t.snap = x /\ Current(t) = x.records
      /\ SameReview(d, t) /\ SameOutcome(d, t) /\ t.journal = d.journal
  BY <1>2, <1>3, SnapSet
<1>5. x # None  BY <1>2, NoneIsNot
<1> QED  BY <1>2, <1>4, <1>5

\* A disk whose records and reviews are the same is as good a one.
LEMMA ReviewKept ==
  ASSUME NEW d, Good(d), NEW t \in DiskType, SameReview(d, t),
         d.snap # None => t.snap # None /\ Current(t) = Current(d)
  PROVE  Permitted(t) /\ Progressed(t) /\ Rechecked(t)
BY DEF Good, SameReview, Permitted, Progressed, Rechecked, Done

LEMMA OutcomeKept ==
  ASSUME NEW d, Good(d), NEW t, SameOutcome(d, t)
  PROVE  Planned(t)
BY DEF Good, SameOutcome, Planned

LEMMA PacketWrittenIs ==
  ASSUME NEW d \in DiskType, d.snap # None, NEW t, t = PacketWritten(d)
  PROVE  /\ t \in DiskType /\ t.snap = d.snap /\ t.auth = d.auth /\ t.packet = Current(d)
         /\ SameOutcome(d, t) /\ t.journal = d.journal
         /\ t.result = None <=> d.result = None
         /\ d.result # None => /\ t.result.kind = d.result.kind
                               /\ t.result.verdict = d.result.verdict
         /\ t.progress = None <=> d.progress = None
         /\ d.progress # None => /\ t.progress.corrected = d.progress.corrected
                                 /\ t.progress.removed = d.progress.removed
                                 /\ t.progress \in Repairs
<1> DEFINE r == IF d.result = None THEN None ELSE [d.result EXCEPT !.fresh = FALSE]
           p == IF d.progress = None \/ d.progress.packet = "none" THEN d.progress
                ELSE [d.progress EXCEPT !.packet = "other"]
<1>1. Current(d) \in Lists  BY Fields
<1>2. /\ r \in Reviews \cup {None} /\ (r = None <=> d.result = None)
      /\ d.result # None => r.kind = d.result.kind /\ r.verdict = d.result.verdict
  BY Fields, NoneIsNot DEF Reviews
<1>3. /\ p \in Repairs \cup {None} /\ (p = None <=> d.progress = None)
      /\ d.progress # None => /\ p.corrected = d.progress.corrected
                              /\ p.removed = d.progress.removed /\ p \in Repairs
  BY Fields, NoneIsNot DEF Repairs
<1>4. t = [d EXCEPT !.packet = Current(d), !.result = r, !.progress = p]
  BY DEF PacketWritten, DiskType
<1> HIDE DEF r, p
<1>5. /\ t \in DiskType /\ t.snap = d.snap /\ t.auth = d.auth /\ t.packet = Current(d)
      /\ SameOutcome(d, t) /\ t.journal = d.journal /\ t.result = r /\ t.progress = p
  BY <1>1, <1>2, <1>3, <1>4 DEF DiskType, SameOutcome
<1> QED  BY <1>2, <1>3, <1>5

LEMMA PackedIs ==
  ASSUME NEW d \in DiskType, d.snap # None, d.auth # None => d.progress # None,
         NEW t, t = Packed(d)
  PROVE  /\ t \in DiskType /\ t.snap = d.snap /\ t.auth = d.auth /\ t.packet = Current(d)
         /\ SameOutcome(d, t) /\ t.journal = d.journal
         /\ t.result = None <=> d.result = None
         /\ d.result # None => /\ t.result.kind = d.result.kind
                               /\ t.result.verdict = d.result.verdict
         /\ t.progress = None <=> d.progress = None
         /\ d.progress # None => /\ t.progress.corrected = d.progress.corrected
                                 /\ t.progress.removed = d.progress.removed
<1> DEFINE u == PacketWritten(d)
           p == [u.progress EXCEPT !.records = Current(d), !.packet = "current"]
<1>1. /\ u \in DiskType /\ u.snap = d.snap /\ u.auth = d.auth /\ u.packet = Current(d)
      /\ SameOutcome(d, u) /\ u.journal = d.journal
      /\ u.result = None <=> d.result = None
      /\ d.result # None => u.result.kind = d.result.kind /\ u.result.verdict = d.result.verdict
      /\ u.progress = None <=> d.progress = None
      /\ d.progress # None => /\ u.progress.corrected = d.progress.corrected
                              /\ u.progress.removed = d.progress.removed
                              /\ u.progress \in Repairs
  BY PacketWrittenIs
<1> HIDE DEF u
<1>2. CASE d.auth = None
  <2>1. t = u  BY <1>2 DEF Packed, u
  <2> QED  BY <1>1, <2>1
<1>3. CASE d.auth # None
  <2>1. Current(d) \in Lists /\ u.progress \in Repairs  BY <1>1, <1>3, Fields
  <2>2. /\ p \in Repairs /\ p.corrected = d.progress.corrected
        /\ p.removed = d.progress.removed
    BY <1>1, <1>3, <2>1 DEF Repairs
  <2>3. t = [u EXCEPT !.progress = p]
    <3>1. t = [u EXCEPT !.progress.records = Current(d), !.progress.packet = "current"]
      BY <1>3 DEF Packed, u
    <3> QED  BY <1>1, <2>1, <3>1 DEF DiskType, Repairs
  <2> HIDE DEF p
  <2>4. /\ t \in DiskType /\ t.snap = u.snap /\ t.auth = u.auth /\ t.packet = u.packet
        /\ SameOutcome(u, t) /\ t.journal = u.journal /\ t.result = u.result /\ t.progress = p
    BY <1>1, <2>2, <2>3 DEF DiskType, SameOutcome
  <2>5. SameOutcome(d, t)  BY <1>1, <2>4 DEF SameOutcome
  <2>6. p # None  BY <2>2, NoneIsNot
  <2> QED  BY <1>1, <1>3, <2>2, <2>4, <2>5, <2>6
<1> QED  BY <1>2, <1>3

-----------------------------------------------------------------------------
(* The packet and the reviews. *)

\* What a repair left of the reviewed records is staged, and nothing else.
LEMMA RepairedIs ==
  ASSUME NEW d, NEW rs \in Lists, NEW removed, Repaired(d, rs, removed)
  PROVE  /\ Ids(rs) = DOMAIN d.auth.base \ removed
         /\ \A i \in Ids(rs) :
              HashOf(rs)[i] = IF i \in DOMAIN d.progress.corrected
                              THEN d.progress.corrected[i] ELSE d.auth.base[i]
<1>1. DOMAIN HashOf(rs) = Ids(rs)  BY HashIs
<1> QED  BY <1>1 DEF Repaired

\* The records may be packed: the packet is of what is staged.
PacketFits(d) == d.auth # None => Authorized(d) /\ Progressing(d)

LEMMA PackingGood ==
  ASSUME NEW d, Good(d), d.snap # None, PacketFits(d), NEW t \in {PacketWritten(d), Packed(d)}
  PROVE  /\ Good(t) /\ SameOutcome(d, t) /\ t.journal = d.journal
         /\ t.snap = d.snap /\ t.auth = d.auth /\ t.packet = Current(d)
         /\ t.progress = None <=> d.progress = None
         /\ d.progress # None => Done(t) = Done(d)
<1>1. d \in DiskType /\ Current(d) \in Lists  BY Fields DEF Good
<1>2. d.auth # None => d.progress # None  BY DEF PacketFits, Progressing
<1>3. /\ t \in DiskType /\ t.snap = d.snap /\ t.auth = d.auth /\ t.packet = Current(d)
      /\ SameOutcome(d, t) /\ t.journal = d.journal
      /\ t.result = None <=> d.result = None
      /\ d.result # None => t.result.kind = d.result.kind /\ t.result.verdict = d.result.verdict
      /\ t.progress = None <=> d.progress = None
      /\ d.progress # None => /\ t.progress.corrected = d.progress.corrected
                              /\ t.progress.removed = d.progress.removed
  BY <1>1, <1>2, PacketWrittenIs, PackedIs
<1>4. Current(t) = Current(d)  BY <1>3 DEF Current
<1>5. Permitted(t)  BY <1>3, <1>4 DEF Good, Permitted
<1>6. Progressed(t)
  <2> SUFFICES ASSUME t.progress # None PROVE Progressed(t)
    BY DEF Progressed
  <2>1. d.auth # None  BY <1>3 DEF Good, Progressed
  <2>2. Ids(Current(d)) = DOMAIN d.auth.base \ d.progress.removed
    BY <1>1, <2>1, RepairedIs DEF PacketFits, Progressing
  <2>3. t.packet # None  BY <1>1, <1>3, NoneIsNot
  <2> QED  BY <1>3, <2>1, <2>2, <2>3 DEF Good, Progressed
<1>7. d.progress # None => Done(t) = Done(d)  BY <1>3 DEF Done
<1>8. Rechecked(t)  BY <1>3, <1>7 DEF Good, Rechecked
<1>9. Planned(t)  BY <1>3, OutcomeKept
<1> QED  BY <1>3, <1>5, <1>6, <1>7, <1>8, <1>9 DEF Good

LEMMA ReviewedIs ==
  ASSUME NEW d \in DiskType, d.snap # None, NEW kind \in {"initial", "targeted"},
         NEW verdict \in Verdicts, NEW affected \in SUBSET RecordIds,
         NEW deps \in SUBSET RecordIds, NEW t, t = Reviewed(d, kind, verdict, affected, deps)
  PROVE  /\ t \in DiskType /\ t.snap = d.snap /\ t.auth = d.auth /\ t.packet = d.packet
         /\ t.progress = d.progress /\ SameOutcome(d, t) /\ t.journal = d.journal
         /\ t.result # None /\ t.result.kind = kind /\ t.result.verdict = verdict
<1> DEFINE r == [kind |-> kind, verdict |-> verdict, records |-> Current(d),
                 affected |-> affected, deps |-> deps, fresh |-> TRUE]
<1>1. r \in Reviews /\ r.kind = kind /\ r.verdict = verdict  BY Fields DEF Reviews
<1>2. t = [d EXCEPT !.result = r]  BY DEF Reviewed
<1> HIDE DEF r
<1>3. /\ t \in DiskType /\ t.snap = d.snap /\ t.auth = d.auth /\ t.packet = d.packet
      /\ t.progress = d.progress /\ SameOutcome(d, t) /\ t.journal = d.journal /\ t.result = r
  BY <1>1, <1>2 DEF DiskType, SameOutcome
<1>4. r # None  BY <1>1, NoneIsNot
<1> QED  BY <1>1, <1>3, <1>4

\* The packet of a first review, when no repair is permitted.
LEMMA FirstPacketGood ==
  ASSUME NEW d, Good(d), d.snap # None, NEW verdict, Initial(d, verdict)
  PROVE  /\ d.auth = None /\ d.progress = None
         /\ \A t \in PacketMids(d) \cup {Packet(d)} :
              /\ Good(t) /\ SameOutcome(d, t) /\ t.journal = d.journal /\ t.snap = d.snap
              /\ t.auth = None /\ t.progress = None /\ t.packet = Current(d)
<1>1. d.auth = None  BY DEF Good, Permitted, Initial
<1>2. d.progress = None  BY <1>1 DEF Good, Progressed
<1>3. ASSUME NEW t \in PacketMids(d) \cup {Packet(d)}
      PROVE  /\ Good(t) /\ SameOutcome(d, t) /\ t.journal = d.journal /\ t.snap = d.snap
             /\ t.auth = None /\ t.progress = None /\ t.packet = Current(d)
  <2>1. CASE t = d /\ d.packet = Current(d)
    BY <1>1, <1>2, <2>1 DEF SameOutcome
  <2>2. CASE t \in {PacketWritten(d), Packed(d)}
    <3>1. PacketFits(d)  BY <1>1 DEF PacketFits
    <3> QED  BY <1>1, <1>2, <2>2, <3>1, PackingGood
  <2> QED  BY <2>1, <2>2 DEF PacketMids, Packet
<1> QED  BY <1>1, <1>2, <1>3

LEMMA ReviewInitialGood ==
  ASSUME NEW d, Good(d), d.snap # None, NEW verdict \in Verdicts, Initial(d, verdict),
         NEW t, t = Reviewed(Packet(d), "initial", verdict, {}, {})
  PROVE  Good(t) /\ SameOutcome(d, t) /\ t.journal = d.journal
<1> DEFINE u == Packet(d)
<1>1. /\ Good(u) /\ SameOutcome(d, u) /\ u.journal = d.journal /\ u.snap # None
      /\ u.auth = None /\ u.progress = None
  BY FirstPacketGood
<1> HIDE DEF u
<1>2. t = Reviewed(u, "initial", verdict, {}, {})  BY DEF u
<1>3. /\ t \in DiskType /\ t.snap = u.snap /\ t.auth = u.auth /\ t.packet = u.packet
      /\ t.progress = u.progress /\ SameOutcome(u, t) /\ t.journal = u.journal
      /\ t.result # None /\ t.result.kind = "initial"
  <2>1. u \in DiskType  BY <1>1 DEF Good
  <2> QED  BY <1>1, <1>2, <2>1, ReviewedIs
<1>4. Permitted(t) /\ Progressed(t) /\ Rechecked(t)
  BY <1>1, <1>3 DEF Permitted, Progressed, Rechecked
<1>5. SameOutcome(d, t)  BY <1>1, <1>3 DEF SameOutcome
<1>6. Planned(t)  BY <1>5, OutcomeKept
<1> QED  BY <1>1, <1>3, <1>4, <1>5, <1>6 DEF Good

\* The review that permits a repair, the permit, and its empty progress.
FirstReview(d, affected, deps) ==
  Reviewed(Packet(d), "initial", "repair_once", affected, deps)
WithPermit(d, affected, deps) ==
  [FirstReview(d, affected, deps) EXCEPT
     !.auth = [base |-> HashOf(Current(d)), affected |-> affected, deps |-> deps]]
WithRepair(d, affected, deps) ==
  [WithPermit(d, affected, deps) EXCEPT
     !.progress = [corrected |-> <<>>, removed |-> {},
                   records |-> Current(d), packet |-> "current"]]

LEMMA ReviewRepairGood ==
  ASSUME NEW d, Good(d), d.snap # None, "repair_once" \in Verdicts, Initial(d, "repair_once"),
         NEW affected \in SUBSET RecordIds, NEW deps \in SUBSET RecordIds,
         affected \cap deps = {}, affected \subseteq Ids(Current(d)),
         NEW t \in {FirstReview(d, affected, deps), WithPermit(d, affected, deps),
                    WithRepair(d, affected, deps)}
  PROVE  Good(t) /\ SameOutcome(d, t) /\ t.journal = d.journal
<1> DEFINE r == FirstReview(d, affected, deps)
           a == WithPermit(d, affected, deps)
           p == WithRepair(d, affected, deps)
<1> DEFINE u == Packet(d)
           x == [base |-> HashOf(Current(d)), affected |-> affected, deps |-> deps]
           y == [corrected |-> <<>>, removed |-> {}, records |-> Current(d), packet |-> "current"]
<1>1. /\ Good(u) /\ SameOutcome(d, u) /\ u.journal = d.journal /\ u.snap = d.snap
      /\ u.auth = None /\ u.progress = None /\ u.packet = Current(d)
  BY FirstPacketGood
<1>2. d \in DiskType /\ Current(d) \in Lists  BY Fields DEF Good
<1>3. r = Reviewed(u, "initial", "repair_once", affected, deps)  BY DEF FirstReview
<1> HIDE DEF u, r
<1>4. /\ r \in DiskType /\ r.snap = d.snap /\ r.auth = None /\ r.packet = Current(d)
      /\ r.progress = None /\ SameOutcome(d, r) /\ r.journal = d.journal
      /\ r.result # None /\ r.result.kind = "initial" /\ r.result.verdict = "repair_once"
  <2>1. u \in DiskType /\ u.snap # None  BY <1>1 DEF Good
  <2>2. /\ r \in DiskType /\ r.snap = u.snap /\ r.auth = u.auth /\ r.packet = u.packet
        /\ r.progress = u.progress /\ SameOutcome(u, r) /\ r.journal = u.journal
        /\ r.result # None /\ r.result.kind = "initial" /\ r.result.verdict = "repair_once"
    BY <1>3, <2>1, ReviewedIs
  <2> QED  BY <1>1, <2>2 DEF SameOutcome
<1>5. /\ x \in Permits /\ x.base = HashOf(Current(d)) /\ x.affected = affected /\ x.deps = deps
      /\ DOMAIN x.base = Ids(Current(d))
  <2>1. /\ Ids(Current(d)) \in SUBSET RecordIds /\ DOMAIN HashOf(Current(d)) = Ids(Current(d))
        /\ HashOf(Current(d)) \in [Ids(Current(d)) -> Bodies]
    <3>1. Ids(Current(d)) \in SUBSET RecordIds  BY <1>2, ListIs
    <3>2. /\ HashOf(Current(d)) = [i \in Ids(Current(d)) |-> HashOf(Current(d))[i]]
          /\ \A i \in Ids(Current(d)) : HashOf(Current(d))[i] \in Bodies
          /\ DOMAIN HashOf(Current(d)) = Ids(Current(d))
      BY <1>2, HashIs
    <3> DEFINE h == HashOf(Current(d))
               S == Ids(Current(d))
    <3> HIDE DEF h, S
    <3>3. h = [i \in S |-> h[i]] /\ \A i \in S : h[i] \in Bodies  BY <3>2 DEF h, S
    <3>4. h \in [S -> Bodies]  BY <3>3
    <3> QED  BY <3>1, <3>2, <3>4 DEF h, S
  <2>2. HashOf(Current(d)) \in Contents  BY <2>1 DEF Contents
  <2> QED  BY <2>1, <2>2 DEF Permits
<1>6. y \in Repairs /\ DOMAIN y.corrected = {} /\ y.removed = {}
  <2>1. <<>> \in [{} -> Bodies] /\ DOMAIN <<>> = {}  OBVIOUS
  <2>2. <<>> \in Contents  BY <2>1 DEF Contents
  <2> QED  BY <1>2, <2>1, <2>2 DEF Repairs
<1>7. a = [r EXCEPT !.auth = x] /\ p = [a EXCEPT !.progress = y]
  BY DEF WithPermit, WithRepair, r
<1> HIDE DEF x, y, a, p
<1>8. /\ a \in DiskType /\ a.snap = r.snap /\ a.auth = x /\ a.packet = r.packet
      /\ a.progress = r.progress /\ SameOutcome(r, a) /\ a.journal = r.journal
      /\ a.result = r.result
  BY <1>4, <1>5, <1>7 DEF DiskType, SameOutcome
<1>9. /\ p \in DiskType /\ p.snap = r.snap /\ p.auth = x /\ p.packet = r.packet
      /\ p.progress = y /\ SameOutcome(r, p) /\ p.journal = r.journal
      /\ p.result = r.result
  <2>1. /\ p \in DiskType /\ p.snap = a.snap /\ p.auth = a.auth /\ p.packet = a.packet
        /\ p.progress = y /\ SameOutcome(a, p) /\ p.journal = a.journal
        /\ p.result = a.result
    BY <1>6, <1>7, <1>8 DEF DiskType, SameOutcome
  <2> QED  BY <1>8, <2>1 DEF SameOutcome
<1>10. Permitted(r) /\ Progressed(r) /\ Rechecked(r)
  BY <1>4 DEF Permitted, Progressed, Rechecked
<1>11. Current(a) = Current(d) /\ Current(p) = Current(d)  BY <1>4, <1>8, <1>9 DEF Current
<1>12. Permitted(a) /\ Permitted(p)
  BY <1>4, <1>5, <1>8, <1>9, <1>11 DEF Permitted
<1>13. Progressed(a) /\ Rechecked(a)  BY <1>4, <1>8 DEF Progressed, Rechecked
<1>14. Progressed(p) /\ Rechecked(p)
  <2>1. x # None /\ Current(d) # None  BY <1>2, <1>5, NoneIsNot
  <2> QED  BY <1>4, <1>5, <1>6, <1>9, <2>1 DEF Progressed, Rechecked
<1>15. SameOutcome(d, r) /\ SameOutcome(d, a) /\ SameOutcome(d, p)
  BY <1>4, <1>8, <1>9 DEF SameOutcome
<1>16. Planned(r) /\ Planned(a) /\ Planned(p)  BY <1>15, OutcomeKept
<1>17. Good(r) /\ Good(a) /\ Good(p)
  BY <1>4, <1>8, <1>9, <1>10, <1>12, <1>13, <1>14, <1>16 DEF Good
<1>18. r.journal = d.journal /\ a.journal = d.journal /\ p.journal = d.journal
  BY <1>4, <1>8, <1>9
<1> QED  BY <1>15, <1>17, <1>18 DEF r, a, p

\* The recheck of a repair whose findings are all worked off.
LEMMA ReviewTargetedGood ==
  ASSUME NEW d, Good(d), d.snap # None, NEW verdict \in Verdicts,
         Authorized(d), Progressing(d), d.auth.affected \subseteq Done(d),
         NEW t, t = Reviewed(Packed(d), "targeted", verdict, d.auth.affected, d.auth.deps)
  PROVE  Good(t) /\ SameOutcome(d, t) /\ t.journal = d.journal
<1> DEFINE u == Packed(d)
<1>1. PacketFits(d) /\ d.auth # None /\ d.progress # None
  BY DEF PacketFits, Authorized, Progressing
<1>2. /\ Good(u) /\ SameOutcome(d, u) /\ u.journal = d.journal
      /\ u.snap = d.snap /\ u.auth = d.auth /\ u.packet = Current(d)
      /\ u.progress # None /\ Done(u) = Done(d)
  BY <1>1, PackingGood
<1> HIDE DEF u
<1>3. d.auth.affected \in SUBSET RecordIds /\ d.auth.deps \in SUBSET RecordIds
  BY <1>1, Fields DEF Good, Permits
<1>4. t = Reviewed(u, "targeted", verdict, d.auth.affected, d.auth.deps)  BY DEF u
<1>5. /\ t \in DiskType /\ t.snap = u.snap /\ t.auth = u.auth /\ t.packet = u.packet
      /\ t.progress = u.progress /\ SameOutcome(u, t) /\ t.journal = u.journal
      /\ t.result # None /\ t.result.kind = "targeted"
  <2>1. u \in DiskType  BY <1>2 DEF Good
  <2> QED  BY <1>2, <1>3, <1>4, <2>1, ReviewedIs
<1>6. Current(t) = Current(u)  BY <1>5 DEF Current
<1>7. Permitted(t)  BY <1>2, <1>5, <1>6 DEF Permitted, Good
<1>8. Progressed(t)  BY <1>2, <1>5 DEF Progressed, Good
<1>9. Rechecked(t)  BY <1>1, <1>2, <1>5 DEF Rechecked, Done
<1>10. SameOutcome(d, t)  BY <1>2, <1>5 DEF SameOutcome
<1>11. Planned(t)  BY <1>10, OutcomeKept
<1> QED  BY <1>2, <1>5, <1>7, <1>8, <1>9, <1>10, <1>11 DEF Good

-----------------------------------------------------------------------------
(* The staged records, and the removal of one. *)

\* The records may change outside what a review left untouched.
LEMMA RecordsGood ==
  ASSUME NEW d, Good(d), d.snap # None, NEW rs \in Lists,
         d.auth # None => \A i \in DOMAIN d.auth.base \ d.auth.affected :
                            i \in Ids(rs) /\ HashOf(rs)[i] = HashOf(Current(d))[i],
         NEW t, t = [d EXCEPT !.snap.records = rs]
  PROVE  /\ Good(t) /\ SameOutcome(d, t) /\ SameReview(d, t) /\ t.journal = d.journal
         /\ t.snap # None /\ Current(t) = rs /\ t.snap.status = d.snap.status
<1>1. /\ t \in DiskType /\ t.snap # None /\ Current(t) = rs /\ t.snap.status = d.snap.status
      /\ SameReview(d, t) /\ SameOutcome(d, t) /\ t.journal = d.journal
  BY RecordsSet DEF Good
<1>2. Permitted(t)  BY <1>1 DEF Good, Permitted, SameReview
<1>3. Progressed(t) /\ Rechecked(t)  BY <1>1 DEF Good, Progressed, Rechecked, SameReview, Done
<1>4. Planned(t)  BY <1>1, OutcomeKept
<1> QED  BY <1>1, <1>2, <1>3, <1>4 DEF Good

LEMMA StageGood ==
  ASSUME NEW d, Good(d), d.snap # None, NEW i \in RecordIds \ Ids(Current(d)), NEW b \in Bodies,
         NEW t, t = [d EXCEPT !.snap.records = Append(@, [id |-> i, body |-> b])]
  PROVE  Good(t) /\ SameOutcome(d, t) /\ t.journal = d.journal
<1> DEFINE rs == Append(Current(d), [id |-> i, body |-> b])
<1>1. d \in DiskType /\ Current(d) \in Lists  BY Fields DEF Good
<1>2. /\ rs \in Lists /\ Ids(Current(d)) \subseteq Ids(rs)
      /\ \A j \in Ids(Current(d)) : HashOf(rs)[j] = HashOf(Current(d))[j]
  BY <1>1, AppendedIs
<1>3. t = [d EXCEPT !.snap.records = rs]  BY DEF Current
<1> HIDE DEF rs
<1>4. d.auth # None => \A j \in DOMAIN d.auth.base \ d.auth.affected :
                         j \in Ids(rs) /\ HashOf(rs)[j] = HashOf(Current(d))[j]
  BY <1>2 DEF Good, Permitted
<1> QED  BY <1>2, <1>3, <1>4, RecordsGood

LEMMA RepairedWithout ==
  ASSUME NEW d, NEW rs \in Lists, NEW removed, Repaired(d, rs, removed),
         NEW i \in DOMAIN d.auth.base \ removed, NEW t, t = Without(rs, i)
  PROVE  /\ t \in Lists /\ i \in Ids(rs) /\ Ids(t) = Ids(rs) \ {i}
         /\ \A j \in Ids(t) : HashOf(t)[j] = HashOf(rs)[j]
         /\ Repaired(d, t, removed \cup {i})
<1>1. Ids(rs) = DOMAIN d.auth.base \ removed  BY RepairedIs
<1>2. t \in Lists /\ Ids(t) = Ids(rs) \ {i} /\ \A j \in Ids(t) : HashOf(t)[j] = HashOf(rs)[j]
  BY <1>1, WithoutIs
<1> DEFINE S == DOMAIN d.auth.base \ (removed \cup {i})
           v(j) == IF j \in DOMAIN d.progress.corrected
                   THEN d.progress.corrected[j] ELSE d.auth.base[j]
<1>3. S = Ids(t)  BY <1>1, <1>2
<1>4. \A j \in S : HashOf(t)[j] = v(j)  BY <1>2, <1>3, RepairedIs
<1>5. HashOf(t) = [j \in S |-> HashOf(t)[j]]  BY <1>2, <1>3, HashIs
<1>6. HashOf(t) = [j \in S |-> v(j)]
  <2> HIDE DEF S, v
  <2> QED  BY <1>4, <1>5
<1> QED  BY <1>1, <1>2, <1>6 DEF Repaired

LEMMA JournalSet ==
  ASSUME NEW d, Good(d), NEW x \in Journals \cup {None}, NEW t, t = [d EXCEPT !.journal = x]
  PROVE  /\ Good(t) /\ SameOutcome(d, t) /\ SameReview(d, t) /\ t.snap = d.snap
         /\ Current(t) = Current(d) /\ t.journal = x
<1>1. /\ t \in DiskType /\ t.snap = d.snap /\ SameReview(d, t) /\ SameOutcome(d, t)
      /\ t.journal = x /\ Current(t) = Current(d)
  BY DEF Good, DiskType, SameReview, SameOutcome, Current
<1>2. Permitted(t) /\ Progressed(t) /\ Rechecked(t)  BY <1>1, ReviewKept
<1>3. Planned(t)  BY <1>1, OutcomeKept
<1> QED  BY <1>1, <1>2, <1>3 DEF Good

LEMMA PhaseIs ==
  ASSUME NEW d, Good(d), d.journal # None,
         NEW phase \in {"prepared", "records_persisted", "progress_persisted"},
         NEW t, t = Phase(d, phase)
  PROVE  /\ Good(t) /\ SameOutcome(d, t) /\ SameReview(d, t) /\ t.snap = d.snap
         /\ Current(t) = Current(d) /\ t.journal # None /\ t.journal.phase = phase
         /\ t.journal.target = d.journal.target /\ t.journal.before = d.journal.before
         /\ t.journal.after = d.journal.after
<1> DEFINE x == [d.journal EXCEPT !.phase = phase]
<1>1. d.journal \in Journals  BY Fields DEF Good
<1>2. /\ x \in Journals /\ x.phase = phase /\ x.target = d.journal.target
      /\ x.before = d.journal.before /\ x.after = d.journal.after
  BY <1>1 DEF Journals
<1>3. t = [d EXCEPT !.journal = x]  BY DEF Phase
<1> HIDE DEF x
<1>4. x # None  BY <1>2, NoneIsNot
<1>5. /\ Good(t) /\ SameOutcome(d, t) /\ SameReview(d, t) /\ t.snap = d.snap
      /\ Current(t) = Current(d) /\ t.journal = x
  BY <1>2, <1>3, JournalSet
<1> QED  BY <1>2, <1>4, <1>5

\* The progress says what is removed, once.
LEMMA ProgressWrittenIs ==
  ASSUME NEW d, Good(d), d.journal # None, d.progress # None, d.result # None,
         d.result.kind = "initial", NEW t, t = ProgressWritten(d)
  PROVE  /\ Good(t) /\ SameOutcome(d, t) /\ t.snap = d.snap /\ t.journal = d.journal
         /\ Current(t) = Current(d) /\ t.packet = d.packet /\ t.result = d.result
         /\ t.auth = d.auth /\ t.progress # None
         /\ t.progress.corrected = d.progress.corrected
         /\ t.progress.removed = d.progress.removed \cup {d.journal.target}
         /\ d.journal.target \notin d.progress.removed =>
              t.progress.packet = "none" /\ t.progress.records = d.journal.after
<1> DEFINE j == d.journal
           p == [d.progress EXCEPT !.removed = @ \cup {j.target}, !.records = j.after,
                                   !.packet = "none"]
<1>1. d \in DiskType /\ j \in Journals /\ d.progress \in Repairs  BY Fields DEF Good
<1>2. CASE j.target \in d.progress.removed
  <2>1. t = d  BY <1>2 DEF ProgressWritten
  <2> QED  BY <1>2, <2>1 DEF SameOutcome
<1>3. CASE j.target \notin d.progress.removed
  <2>1. /\ p \in Repairs /\ p.corrected = d.progress.corrected
        /\ p.removed = d.progress.removed \cup {j.target}
        /\ p.packet = "none" /\ p.records = j.after
    BY <1>1 DEF Repairs, Journals
  <2>2. t = [d EXCEPT !.progress = p]  BY <1>3 DEF ProgressWritten
  <2> HIDE DEF p, j
  <2>3. /\ t \in DiskType /\ t.snap = d.snap /\ t.journal = d.journal /\ SameOutcome(d, t)
        /\ t.packet = d.packet /\ t.result = d.result /\ t.auth = d.auth /\ t.progress = p
    BY <1>1, <2>1, <2>2 DEF DiskType, SameOutcome
  <2>4. Current(t) = Current(d)  BY <2>3 DEF Current
  <2>5. Permitted(t)  BY <2>3, <2>4 DEF Good, Permitted
  <2>6. Progressed(t)  BY <2>1, <2>3 DEF Good, Progressed
  <2>7. Rechecked(t)  BY <2>3 DEF Rechecked
  <2>8. Planned(t)  BY <2>3, OutcomeKept
  <2>9. p # None  BY <2>1, NoneIsNot
  <2> QED  BY <1>3, <2>1, <2>3, <2>4, <2>5, <2>6, <2>7, <2>8, <2>9 DEF Good, j
<1> QED  BY <1>2, <1>3

\* What a journal that can be taken up tells of its removal.
LEMMA ReconcilableIs ==
  ASSUME NEW d, Good(d), d.journal # None, Reconcilable(d),
         NEW j, j = d.journal
  PROVE  /\ d.snap # None /\ d.result # None /\ d.result.kind = "initial" /\ d.progress # None
         /\ d.auth # None /\ j.target \in d.auth.affected /\ j.target \in DOMAIN d.auth.base
         /\ j.after \in Lists /\ j.before \in Lists /\ Current(d) \in Lists
         /\ \/ /\ Current(d) = j.before /\ j.after = Without(Current(d), j.target)
               /\ Repaired(d, Current(d), d.progress.removed)
               /\ j.target \notin d.progress.removed /\ j.phase = "prepared"
               /\ d.progress.records = j.before
            \/ Current(d) = j.after
<1>1. d.auth # None /\ d.result # None /\ d.result.kind = "initial" /\ d.progress # None
  BY DEF Reconcilable, Authorized
<1>2. d.snap # None /\ d.auth.affected \subseteq DOMAIN d.auth.base
  BY <1>1 DEF Good, Permitted
<1>3. d \in DiskType /\ j \in Journals /\ Current(d) \in Lists  BY <1>2, Fields DEF Good
<1>4. j.after \in Lists /\ j.before \in Lists  BY <1>3 DEF Journals
<1> QED  BY <1>1, <1>2, <1>3, <1>4 DEF Reconcilable

\* The records without the target: a good disk, from whatever phase.
LEMMA RecordsWrittenGood ==
  ASSUME NEW d, Good(d), d.journal # None, Reconcilable(d), NEW t, t = RecordsWritten(d)
  PROVE  /\ Good(t) /\ SameOutcome(d, t) /\ SameReview(d, t) /\ t.journal = d.journal
         /\ Current(t) = d.journal.after /\ t.snap # None /\ t.snap.status = d.snap.status
<1> DEFINE j == d.journal
           rs == j.after
<1>1. /\ d.snap # None /\ d.auth # None /\ j.target \in d.auth.affected
      /\ j.target \in DOMAIN d.auth.base /\ rs \in Lists /\ Current(d) \in Lists
      /\ \/ /\ rs = Without(Current(d), j.target)
            /\ Repaired(d, Current(d), d.progress.removed)
            /\ j.target \notin d.progress.removed
         \/ Current(d) = rs
  BY ReconcilableIs
<1>2. ASSUME NEW i \in DOMAIN d.auth.base \ d.auth.affected
      PROVE  i \in Ids(rs) /\ HashOf(rs)[i] = HashOf(Current(d))[i]
  <2>1. i \in Ids(Current(d))  BY <1>1 DEF Good, Permitted
  <2>2. CASE Current(d) = rs  BY <2>1, <2>2
  <2>3. CASE /\ rs = Without(Current(d), j.target)
             /\ Repaired(d, Current(d), d.progress.removed)
             /\ j.target \notin d.progress.removed
    <3>1. i # j.target /\ j.target \in DOMAIN d.auth.base \ d.progress.removed
      BY <1>1, <2>3
    <3> DEFINE c == Current(d)
               x == d.progress.removed
               k == j.target
    <3>2. /\ c \in Lists /\ Repaired(d, c, x) /\ k \in DOMAIN d.auth.base \ x /\ rs = Without(c, k)
      BY <1>1, <2>3, <3>1
    <3> HIDE DEF rs, j, c, x, k
    <3>3. /\ rs \in Lists /\ k \in Ids(c) /\ Ids(rs) = Ids(c) \ {k}
          /\ \A n \in Ids(rs) : HashOf(rs)[n] = HashOf(c)[n]
          /\ Repaired(d, rs, x \cup {k})
      BY <3>2, RepairedWithout
    <3>4. Ids(rs) = Ids(Current(d)) \ {j.target} /\ \A n \in Ids(rs) : HashOf(rs)[n] = HashOf(Current(d))[n]
      BY <3>3 DEF c, k
    <3> QED  BY <2>1, <3>1, <3>4
  <2> QED  BY <1>1, <2>2, <2>3
<1>3. t = [d EXCEPT !.snap.records = rs]  BY DEF RecordsWritten
<1> HIDE DEF rs
<1>4. /\ Good(t) /\ SameOutcome(d, t) /\ SameReview(d, t) /\ t.journal = d.journal
      /\ t.snap # None /\ Current(t) = rs /\ t.snap.status = d.snap.status
  BY <1>1, <1>2, <1>3, RecordsGood
<1> QED  BY <1>4 DEF rs

LEMMA RemovalGood ==
  ASSUME NEW d, Good(d), d.journal # None, Reconcilable(d),
         NEW t \in RemovalMids(d) \cup {Removed(d)}
  PROVE  /\ Good(t) /\ SameOutcome(d, t)
         /\ t = Removed(d) => t.journal = None
<1> DEFINE w == RecordsWritten(d)
           m == Phase(w, "records_persisted")
           moved == IF Current(d) = d.journal.before THEN m ELSE d
           p == ProgressWritten(moved)
           q == Phase(p, "progress_persisted")
           r == ProgressWritten(w)
           end == [r EXCEPT !.journal = None]
<1>1. d.progress # None /\ d.result # None /\ d.result.kind = "initial"
  BY ReconcilableIs
<1>2. /\ Good(w) /\ SameOutcome(d, w) /\ SameReview(d, w) /\ w.journal = d.journal
  BY RecordsWrittenGood
<1>3. t \in {d, w, m, p, q} \/ (t = end /\ Removed(d) = end)
  BY DEF RemovalMids, Removed
<1>4. Removed(d) = end  BY DEF Removed
<1> HIDE DEF w
<1>5. /\ Good(m) /\ SameOutcome(w, m) /\ SameReview(w, m) /\ m.journal # None
  BY <1>2, PhaseIs
<1> HIDE DEF m
<1>6. /\ Good(moved) /\ SameOutcome(d, moved) /\ SameReview(d, moved) /\ moved.journal # None
  BY <1>2, <1>5 DEF SameOutcome, SameReview
<1>7. moved.progress # None /\ moved.result # None /\ moved.result.kind = "initial"
  BY <1>1, <1>6 DEF SameReview
<1> HIDE DEF moved
<1>8. Good(p) /\ SameOutcome(moved, p) /\ p.journal # None  BY <1>6, <1>7, ProgressWrittenIs
<1> HIDE DEF p
<1>9. Good(q) /\ SameOutcome(p, q)  BY <1>8, PhaseIs
<1> HIDE DEF q
<1>10. w.progress # None /\ w.result # None /\ w.result.kind = "initial"
  BY <1>1, <1>2 DEF SameReview
<1>11. Good(r) /\ SameOutcome(w, r)  BY <1>2, <1>10, ProgressWrittenIs
<1> HIDE DEF r
<1>12. Good(end) /\ SameOutcome(r, end) /\ end.journal = None  BY <1>11, JournalSet
<1> HIDE DEF end
<1>13. SameOutcome(d, d) /\ SameOutcome(d, m) /\ SameOutcome(d, p) /\ SameOutcome(d, q)
       /\ SameOutcome(d, end)
  BY <1>2, <1>5, <1>6, <1>8, <1>9, <1>11, <1>12 DEF SameOutcome
<1> QED  BY <1>2, <1>3, <1>4, <1>5, <1>8, <1>9, <1>12, <1>13

\* Wherever the first kill of a removal comes, what it leaves can be taken up.
LEMMA RemovalReconcilable ==
  ASSUME NEW d, Good(d), d.journal # None, Reconcilable(d), Current(d) = d.journal.before,
         d.journal.phase = "prepared",
         d.journal.after = Without(Current(d), d.journal.target),
         Repaired(d, Current(d), d.progress.removed),
         d.progress.records = d.journal.before, d.journal.target \notin d.progress.removed,
         NEW t \in RemovalMids(d)
  PROVE  Reconcilable(t)
<1> DEFINE j == d.journal
           w == RecordsWritten(d)
           m == Phase(w, "records_persisted")
           p == ProgressWritten(m)
           q == Phase(p, "progress_persisted")
<1>1. /\ d.snap # None /\ d.result # None /\ d.result.kind = "initial" /\ d.progress # None
      /\ d.auth # None /\ j.target \in DOMAIN d.auth.base /\ Current(d) \in Lists
      /\ j.after \in Lists
  BY ReconcilableIs
<1>2. /\ d.snap.status = "open" /\ d.intent = None /\ Authorized(d)
      /\ j.target \in d.auth.affected \ d.auth.deps /\ PacketBound(d)
      /\ j.target \notin DOMAIN d.progress.corrected /\ Preflight(d, j.after)
  BY DEF Reconcilable
<1>3. /\ Ids(j.after) = Ids(Current(d)) \ {j.target}
      /\ Repaired(d, j.after, d.progress.removed \cup {j.target})
  <2> DEFINE rs == j.after
             i == j.target
             c == Current(d)
             x == d.progress.removed
  <2>1. /\ c \in Lists /\ Repaired(d, c, x) /\ i \in DOMAIN d.auth.base \ x /\ rs = Without(c, i)
    BY <1>1
  <2> HIDE DEF rs, i, c, x
  <2>2. /\ rs \in Lists /\ i \in Ids(c) /\ Ids(rs) = Ids(c) \ {i}
        /\ \A n \in Ids(rs) : HashOf(rs)[n] = HashOf(c)[n]
        /\ Repaired(d, rs, x \cup {i})
    BY <2>1, RepairedWithout
  <2> QED  BY <2>2 DEF rs, i, c, x
<1>4. j.after # d.packet
  <2>1. j.target \in Ids(d.packet)  BY <1>1 DEF Good, Progressed
  <2> QED  BY <1>3, <2>1
<1>5. /\ Good(w) /\ SameOutcome(d, w) /\ SameReview(d, w) /\ w.journal = j
      /\ Current(w) = j.after /\ w.snap.status = "open"
  BY <1>2, RecordsWrittenGood
<1>6. t \in {d, w, m, p, q}  BY DEF RemovalMids
<1> HIDE DEF w
<1>7. /\ Good(m) /\ SameOutcome(w, m) /\ SameReview(w, m) /\ m.snap = w.snap
      /\ Current(m) = j.after /\ m.journal # None /\ m.journal.phase = "records_persisted"
      /\ m.journal.target = j.target /\ m.journal.before = j.before /\ m.journal.after = j.after
  BY <1>5, PhaseIs
<1> HIDE DEF m
<1>8. m.progress # None /\ m.result # None /\ m.result.kind = "initial"
      /\ m.progress = d.progress
  BY <1>1, <1>5, <1>7 DEF SameReview
<1>9. /\ Good(p) /\ SameOutcome(m, p) /\ p.snap = m.snap /\ p.journal = m.journal
      /\ Current(p) = j.after /\ p.packet = d.packet /\ p.result = d.result
      /\ p.auth = d.auth /\ p.progress # None
      /\ p.progress.corrected = d.progress.corrected
      /\ p.progress.removed = d.progress.removed \cup {j.target}
      /\ p.progress.packet = "none" /\ p.progress.records = j.after
  <2>1. /\ Good(p) /\ SameOutcome(m, p) /\ p.snap = m.snap /\ p.journal = m.journal
        /\ Current(p) = Current(m) /\ p.packet = m.packet /\ p.result = m.result
        /\ p.auth = m.auth /\ p.progress # None
        /\ p.progress.corrected = m.progress.corrected
        /\ p.progress.removed = m.progress.removed \cup {m.journal.target}
        /\ m.journal.target \notin m.progress.removed =>
             p.progress.packet = "none" /\ p.progress.records = m.journal.after
    BY <1>7, <1>8, ProgressWrittenIs
  <2>2. m.packet = d.packet /\ m.result = d.result /\ m.auth = d.auth
    BY <1>5, <1>7 DEF SameReview
  <2> HIDE DEF p
  <2> QED  BY <1>7, <1>8, <2>1, <2>2
<1> HIDE DEF p
<1>10. /\ SameReview(p, q) /\ SameOutcome(p, q) /\ q.snap = p.snap
       /\ Current(q) = j.after /\ q.journal # None /\ q.journal.phase = "progress_persisted"
       /\ q.journal.target = j.target /\ q.journal.before = j.before /\ q.journal.after = j.after
  BY <1>7, <1>9, PhaseIs
<1> HIDE DEF q, j
\* Records written, progress not: it is the progress of before.
<1>11. ASSUME NEW x, SameReview(d, x), x.intent = None, x.taken = d.taken, x.snap.status = "open",
              Current(x) = j.after, x.journal.target = j.target, x.journal.before = j.before,
              x.journal.after = j.after, x.journal.phase \in {"prepared", "records_persisted"}
       PROVE  Reconcilable(x)
  <2>1. x.progress = d.progress /\ x.auth = d.auth /\ x.result = d.result /\ x.packet = d.packet
    BY <1>11 DEF SameReview
  <2>2. Authorized(x) /\ PacketBound(x)  BY <1>2, <2>1 DEF Authorized, PacketBound
  <2>3. Repaired(x, j.after, d.progress.removed \cup {j.target})  BY <1>3, <2>1 DEF Repaired
  <2>4. x.progress.records = j.before /\ j.target \notin x.progress.removed  BY <2>1 DEF j
  <2>5. Preflight(x, j.after)  BY <1>2, <1>11 DEF Preflight, Collides
  <2> QED  BY <1>1, <1>2, <1>11, <2>1, <2>2, <2>3, <2>4, <2>5 DEF Reconcilable
\* Progress written.
<1>12. ASSUME NEW x, SameReview(p, x), x.intent = None, x.taken = d.taken, x.snap.status = "open",
              Current(x) = j.after, x.journal.target = j.target, x.journal.before = j.before,
              x.journal.after = j.after,
              x.journal.phase \in {"records_persisted", "progress_persisted"}
       PROVE  Reconcilable(x)
  <2>1. x.progress = p.progress /\ x.auth = d.auth /\ x.result = d.result /\ x.packet = d.packet
    BY <1>9, <1>12 DEF SameReview
  <2>2. Authorized(x)  BY <1>2, <2>1 DEF Authorized
  <2>3. PacketBound(x)  BY <1>4, <1>9, <2>1 DEF PacketBound
  <2>4. (d.progress.removed \cup {j.target}) \cup {j.target} = d.progress.removed \cup {j.target}
    OBVIOUS
  <2>5. Repaired(x, j.after, x.progress.removed \cup {j.target})
    BY <1>3, <1>9, <2>1, <2>4 DEF Repaired
  <2>6. Preflight(x, j.after)  BY <1>2, <1>12 DEF Preflight, Collides
  <2> QED  BY <1>2, <1>9, <1>12, <2>1, <2>2, <2>3, <2>5, <2>6 DEF Reconcilable
<1>13. /\ w.intent = None /\ m.intent = None /\ p.intent = None /\ q.intent = None
       /\ w.taken = d.taken /\ m.taken = d.taken /\ p.taken = d.taken /\ q.taken = d.taken
  BY <1>2, <1>5, <1>7, <1>9, <1>10 DEF SameOutcome
<1>14. Reconcilable(w)
  <2>1. w.journal.phase = "prepared"  BY <1>5 DEF j
  <2> QED  BY <1>5, <1>11, <1>13, <2>1
<1>15. Reconcilable(m)
  <2>1. SameReview(d, m)  BY <1>5, <1>7 DEF SameReview
  <2> QED  BY <1>5, <1>7, <1>11, <1>13, <2>1
<1>16. Reconcilable(p)
  <2>1. SameReview(p, p)  BY DEF SameReview
  <2> QED  BY <1>5, <1>7, <1>9, <1>12, <1>13, <2>1
<1>17. Reconcilable(q)  BY <1>5, <1>7, <1>9, <1>10, <1>12, <1>13
<1> QED  BY <1>6, <1>14, <1>15, <1>16, <1>17

-----------------------------------------------------------------------------
(* The operations. *)

\* An operation that ends, or is killed, in good disks.
LEMMA Keeps ==
  ASSUME IInv, NEW s \in Sessions, NEW mids, NEW final,
         NEW after \in {"none", "held", "released"}, Perform(s, mids, final, after),
         Good(final), Journaled1(final, kills), SameOutcome(disk, final),
         \A t \in mids : Good(t) /\ SameOutcome(disk, t) /\ (kills = 0 => Reconcilable(t))
  PROVE  IInv' /\ SameOutcome(disk, disk')
<1>1. sess' \in [Sessions -> {"none", "held", "released"}]  BY DEF IInv, Perform
<1>2. CASE disk' = final /\ kills' = kills
  BY <1>1, <1>2 DEF IInv
<1>3. CASE disk' \in mids /\ kills < MaxKills /\ kills' = kills + 1
  <2>1. Good(disk') /\ SameOutcome(disk, disk') /\ (kills = 0 => Reconcilable(disk'))
    BY <1>3
  <2>2. kills' \in 0 .. MaxKills /\ kills' # 0 /\ (kills' <= 1 => kills = 0)
    BY <1>3, SessionAssumption DEF IInv
  <2> QED  BY <1>1, <2>1, <2>2 DEF IInv, Journaled1
<1> QED  BY <1>2, <1>3 DEF Perform

\* Without a journal there is nothing to take up.
LEMMA NoJournal ==
  ASSUME NEW t, t.journal = None, NEW n
  PROVE  Reconcilable(t) /\ Journaled1(t, n)
BY DEF Reconcilable, Journaled1

LEMMA OpenedIs ==
  ASSUME IInv, NEW s \in Sessions, Usable(s) \/ (disk.snap # None /\ disk.journal = None)
  PROVE  /\ Good(disk) /\ disk \in DiskType /\ disk.snap # None /\ disk.journal = None
         /\ Current(disk) \in Lists /\ SameOutcome(disk, disk)
BY Fields DEF IInv, Good, Usable, SameOutcome

LEMMA LoadKeeps ==
  ASSUME IInv, NEW s \in Sessions, Load(s)
  PROVE  IInv' /\ SameOutcome(disk, disk')
<1>1. Good(disk) /\ disk \in DiskType /\ Journaled1(disk, kills)  BY DEF IInv, Good
<1>2. SameOutcome(disk, disk)  BY DEF SameOutcome
<1>3. CASE disk.snap = None
  <2> DEFINE x == [status |-> "open", records |-> <<>>]
             t == [disk EXCEPT !.snap = x]
  <2>1. x \in Snapshots
    <3>1. <<>> \in Seq(Records) /\ DOMAIN <<>> = {}  OBVIOUS
    <3>2. <<>> \in Lists  BY <3>1 DEF Lists, Unique
    <3> QED  BY <3>2 DEF Snapshots
  <2>2. Perform(s, {}, t, "held")  BY <1>3 DEF Load
  <2>3. disk.auth = None  BY <1>1, <1>3 DEF Good, Permitted
  <2>4. disk.progress = None  BY <1>1, <2>3 DEF Good, Progressed
  <2>5. ~(disk.result # None /\ disk.result.kind = "targeted")  BY <1>1, <2>3 DEF Good, Rechecked
  <2> HIDE DEF x, t
  <2>6. /\ t \in DiskType /\ SameReview(disk, t) /\ SameOutcome(disk, t) /\ t.journal = disk.journal
    BY <1>1, <2>1, SnapSet DEF t
  <2>7. Permitted(t) /\ Progressed(t) /\ Rechecked(t)
    BY <2>3, <2>4, <2>5, <2>6 DEF Permitted, Progressed, Rechecked, SameReview
  <2>8. Planned(t)  BY <1>1, <2>6, OutcomeKept
  <2>9. Journaled1(t, kills)
    BY <1>1, <2>3, <2>6 DEF Journaled1, Unopposed, Collides, SameOutcome, Reconcilable, Authorized
  <2>10. Good(t)  BY <2>6, <2>7, <2>8 DEF Good
  <2> QED  BY <2>2, <2>6, <2>9, <2>10, Keeps
<1>4. CASE disk.snap # None /\ disk.journal = None
  <2>1. \/ Perform(s, {}, disk, "released")
        \/ Perform(s, {}, disk, "held")
    BY <1>4 DEF Load
  <2> QED  BY <1>1, <1>2, <2>1, Keeps
<1>5. CASE disk.snap # None /\ disk.journal # None
  <2>1. Reconcilable(disk) /\ Perform(s, RemovalMids(disk), Removed(disk), "held")
    BY <1>5 DEF Load
  <2>2. \A t \in RemovalMids(disk) \cup {Removed(disk)} : Good(t) /\ SameOutcome(disk, t)
    BY <1>1, <1>5, <2>1, RemovalGood
  <2>3. Removed(disk).journal = None  BY <1>1, <1>5, <2>1, RemovalGood
  <2>4. kills # 0  BY <1>1, <1>5 DEF Journaled1
  <2>5. Journaled1(Removed(disk), kills)  BY <2>3, NoJournal
  <2> DEFINE mids == RemovalMids(disk)
             final == Removed(disk)
  <2> HIDE DEF mids, final
  <2>6. Perform(s, mids, final, "held") /\ Journaled1(final, kills) /\ Good(final)
        /\ SameOutcome(disk, final) /\ \A t \in mids : Good(t) /\ SameOutcome(disk, t)
    BY <2>1, <2>2, <2>5 DEF mids, final
  <2> QED  BY <2>4, <2>6, Keeps
<1> QED  BY <1>3, <1>4, <1>5

\* An operation on the records that is a single write.
LEMMA WriteKeeps ==
  ASSUME IInv, NEW s \in Sessions, Opened(s), NEW rs \in Lists,
         disk.auth # None => \A i \in DOMAIN disk.auth.base \ disk.auth.affected :
                               i \in Ids(rs) /\ HashOf(rs)[i] = HashOf(Current(disk))[i],
         NEW t, t = [disk EXCEPT !.snap.records = rs], Perform(s, {}, t, "held")
  PROVE  IInv' /\ SameOutcome(disk, disk')
<1>1. Good(disk) /\ disk.snap # None /\ disk.journal = None  BY OpenedIs DEF Opened
<1>2. Good(t) /\ SameOutcome(disk, t) /\ t.journal = None  BY <1>1, RecordsGood
<1>3. Journaled1(t, kills)  BY <1>2, NoJournal
<1> QED  BY <1>2, <1>3, Keeps

LEMMA StageKeeps ==
  ASSUME IInv, NEW s \in Sessions, NEW i \in RecordIds, NEW b \in Bodies, Stage(s, i, b)
  PROVE  IInv' /\ SameOutcome(disk, disk')
<1> DEFINE t == [disk EXCEPT !.snap.records = Append(@, [id |-> i, body |-> b])]
<1>1. Good(disk) /\ disk.snap # None /\ disk.journal = None  BY OpenedIs DEF Stage, Opened
<1>2. i \notin Ids(Current(disk)) /\ Perform(s, {}, t, "held")  BY DEF Stage
<1>3. Good(t) /\ SameOutcome(disk, t) /\ t.journal = None  BY <1>1, <1>2, StageGood
<1> HIDE DEF t
<1>4. Journaled1(t, kills)  BY <1>3, NoJournal
<1> QED  BY <1>2, <1>3, <1>4, Keeps

LEMMA RemoveUnreviewedKeeps ==
  ASSUME IInv, NEW s \in Sessions, NEW i \in RecordIds, RemoveUnreviewed(s, i)
  PROVE  IInv' /\ SameOutcome(disk, disk')
<1> DEFINE rs == Without(Current(disk), i)
           t == [disk EXCEPT !.snap.records = rs]
<1>1. Opened(s) /\ Current(disk) \in Lists /\ disk.auth = None /\ i \in Ids(Current(disk))
  BY OpenedIs DEF RemoveUnreviewed, Opened, Unreviewed
<1>2. rs \in Lists  BY <1>1, WithoutIs
<1>3. Perform(s, {}, t, "held")  BY DEF RemoveUnreviewed, Current
<1>4. t = [disk EXCEPT !.snap.records = rs]  OBVIOUS
<1> HIDE DEF rs, t
<1> QED  BY <1>1, <1>2, <1>3, <1>4, WriteKeeps

LEMMA CorrectInvalidKeeps ==
  ASSUME IInv, NEW s \in Sessions, NEW i \in RecordIds, NEW b \in Bodies, CorrectInvalid(s, i, b)
  PROVE  IInv' /\ SameOutcome(disk, disk')
<1> DEFINE rs == Corrected(Current(disk), i, b)
           t == [disk EXCEPT !.snap.records = rs]
<1>1. Opened(s) /\ Current(disk) \in Lists /\ disk.auth = None /\ i \in Ids(Current(disk))
  BY OpenedIs DEF CorrectInvalid, Opened, Good, Permitted, Invalid, Ids
<1>2. rs \in Lists  BY <1>1, CorrectedIs
<1>3. Perform(s, {}, t, "held")  BY DEF CorrectInvalid
<1>4. t = [disk EXCEPT !.snap.records = rs]  OBVIOUS
<1> HIDE DEF rs, t
<1> QED  BY <1>1, <1>2, <1>3, <1>4, WriteKeeps

LEMMA BuildPacketKeeps ==
  ASSUME IInv, NEW s \in Sessions, BuildPacket(s)
  PROVE  IInv' /\ SameOutcome(disk, disk')
<1> DEFINE m == PacketWritten(disk)
           t == Packed(disk)
<1>1. Good(disk) /\ disk.snap # None /\ disk.journal = None /\ PacketFits(disk)
  BY OpenedIs DEF BuildPacket, Packable, PacketFits
<1>2. /\ Good(m) /\ SameOutcome(disk, m) /\ m.journal = None
      /\ Good(t) /\ SameOutcome(disk, t) /\ t.journal = None
  BY <1>1, PackingGood
<1>3. Perform(s, {m}, t, sess[s])  BY DEF BuildPacket
<1>4. sess[s] \in {"none", "held", "released"}  BY DEF IInv
<1> HIDE DEF m, t
<1>5. Reconcilable(m) /\ Journaled1(t, kills)  BY <1>2, NoJournal
<1> QED  BY <1>2, <1>3, <1>4, <1>5, Keeps

LEMMA ReviewInitialKeeps ==
  ASSUME IInv, NEW s \in Sessions, NEW verdict \in Verdicts, ReviewInitial(s, verdict)
  PROVE  IInv' /\ SameOutcome(disk, disk')
<1> DEFINE mids == PacketMids(disk)
           t == Reviewed(Packet(disk), "initial", verdict, {}, {})
<1>1. Good(disk) /\ disk.snap # None /\ disk.journal = None /\ Initial(disk, verdict)
  BY OpenedIs DEF ReviewInitial, Opened
<1>2. \A m \in mids : Good(m) /\ SameOutcome(disk, m) /\ m.journal = None
  BY <1>1, FirstPacketGood
<1>3. Good(t) /\ SameOutcome(disk, t) /\ t.journal = None  BY <1>1, ReviewInitialGood
<1>4. Perform(s, mids, t, "held")  BY DEF ReviewInitial
<1> HIDE DEF mids, t
<1>5. Journaled1(t, kills) /\ \A m \in mids : Reconcilable(m)  BY <1>2, <1>3, NoJournal
<1> QED  BY <1>2, <1>3, <1>4, <1>5, Keeps

LEMMA ReviewRepairKeeps ==
  ASSUME IInv, NEW s \in Sessions, "repair_once" \in Verdicts,
         NEW affected \in SUBSET RecordIds, NEW deps \in SUBSET RecordIds,
         ReviewRepair(s, affected, deps)
  PROVE  IInv' /\ SameOutcome(disk, disk')
<1> DEFINE r == FirstReview(disk, affected, deps)
           a == WithPermit(disk, affected, deps)
           t == WithRepair(disk, affected, deps)
           mids == PacketMids(disk) \cup {r, a}
<1>1. Good(disk) /\ disk.snap # None /\ disk.journal = None /\ Initial(disk, "repair_once")
  BY OpenedIs DEF ReviewRepair, Opened
<1>2. affected \cap deps = {} /\ affected \subseteq Ids(Current(disk))  BY DEF ReviewRepair
<1>3. \A m \in PacketMids(disk) : Good(m) /\ SameOutcome(disk, m) /\ m.journal = None
  BY <1>1, FirstPacketGood
<1>4. Perform(s, mids, t, "held")
  BY DEF ReviewRepair, FirstReview, WithPermit, WithRepair
<1>5. \A m \in {r, a, t} : Good(m) /\ SameOutcome(disk, m) /\ m.journal = None
  BY <1>1, <1>2, ReviewRepairGood
<1>6. \A m \in mids : Good(m) /\ SameOutcome(disk, m) /\ m.journal = None
  <2> HIDE DEF r, a, t
  <2> QED  BY <1>3, <1>5
<1> HIDE DEF mids, r, a, t
<1>7. Journaled1(t, kills) /\ \A m \in mids : Reconcilable(m)  BY <1>5, <1>6, NoJournal
<1> QED  BY <1>4, <1>5, <1>6, <1>7, Keeps

LEMMA ReviewTargetedKeeps ==
  ASSUME IInv, NEW s \in Sessions, NEW verdict \in Verdicts, ReviewTargeted(s, verdict)
  PROVE  IInv' /\ SameOutcome(disk, disk')
<1> DEFINE mids == {PacketWritten(disk), Packed(disk)}
           t == Reviewed(Packed(disk), "targeted", verdict, disk.auth.affected, disk.auth.deps)
<1>1. Good(disk) /\ disk.snap # None /\ disk.journal = None
  BY OpenedIs DEF ReviewTargeted, Opened
<1>2. Authorized(disk) /\ Progressing(disk) /\ disk.auth.affected \subseteq Done(disk)
  BY DEF ReviewTargeted
<1>3. \A m \in mids : Good(m) /\ SameOutcome(disk, m) /\ m.journal = None
  BY <1>1, <1>2, PackingGood DEF PacketFits
<1>4. Good(t) /\ SameOutcome(disk, t) /\ t.journal = None  BY <1>1, <1>2, ReviewTargetedGood
<1>5. Perform(s, mids, t, "held")  BY DEF ReviewTargeted
<1> HIDE DEF mids, t
<1>6. Journaled1(t, kills) /\ \A m \in mids : Reconcilable(m)  BY <1>3, <1>4, NoJournal
<1> QED  BY <1>3, <1>4, <1>5, <1>6, Keeps

\* What a repair may work on.
LEMMA RepairingIs ==
  ASSUME IInv, NEW s \in Sessions, Repairing(s), NEW i \in disk.auth.affected \ Done(disk)
  PROVE  /\ Good(disk) /\ disk \in DiskType /\ disk.snap # None /\ disk.journal = None
         /\ disk.snap.status = "open" /\ disk.intent = None
         /\ Authorized(disk) /\ PacketBound(disk) /\ disk.progress # None /\ disk.auth # None
         /\ Current(disk) \in Lists /\ disk.progress.records = Current(disk)
         /\ Repaired(disk, Current(disk), disk.progress.removed)
         /\ i \in DOMAIN disk.auth.base \ disk.progress.removed /\ i \in RecordIds
         /\ i \notin disk.auth.deps /\ i \notin DOMAIN disk.progress.corrected
         /\ i \in Ids(Current(disk)) /\ HashOf(Current(disk))[i] = disk.auth.base[i]
<1>1. /\ Good(disk) /\ disk \in DiskType /\ disk.snap # None /\ disk.journal = None
      /\ Current(disk) \in Lists
  BY OpenedIs DEF Repairing, Opened
<1>2. /\ disk.snap.status = "open" /\ disk.intent = None
      /\ Authorized(disk) /\ PacketBound(disk) /\ disk.progress # None /\ disk.auth # None
      /\ disk.progress.records = Current(disk)
      /\ Repaired(disk, Current(disk), disk.progress.removed)
  BY DEF Repairing, Opened, Authorized, Progressing
<1>3. /\ i \in DOMAIN disk.auth.base /\ i \notin disk.auth.deps
      /\ i \notin DOMAIN disk.progress.corrected /\ i \notin disk.progress.removed
  BY <1>1, <1>2 DEF Good, Permitted, Done
<1>4. i \in RecordIds  BY <1>1, <1>2, Fields DEF Permits
<1>5. /\ Ids(Current(disk)) = DOMAIN disk.auth.base \ disk.progress.removed
      /\ \A n \in Ids(Current(disk)) :
           HashOf(Current(disk))[n] = IF n \in DOMAIN disk.progress.corrected
                                      THEN disk.progress.corrected[n] ELSE disk.auth.base[n]
  BY <1>1, <1>2, RepairedIs
<1> QED  BY <1>1, <1>2, <1>3, <1>4, <1>5

LEMMA JournaledIs ==
  ASSUME IInv, NEW s \in Sessions, Repairing(s), NEW i \in disk.auth.affected \ Done(disk),
         Preflight(disk, Without(Current(disk), i)), NEW d, d = Journaled(i)
  PROVE  /\ Good(d) /\ SameOutcome(disk, d) /\ d.journal # None /\ Reconcilable(d)
         /\ Current(d) = d.journal.before /\ d.journal.phase = "prepared"
         /\ d.journal.after = Without(Current(d), d.journal.target)
         /\ Repaired(d, Current(d), d.progress.removed)
         /\ d.progress.records = d.journal.before /\ d.journal.target \notin d.progress.removed
<1> DEFINE c == Current(disk)
           j == [target |-> i, before |-> c, after |-> Without(c, i), phase |-> "prepared"]
<1>1. /\ Good(disk) /\ disk \in DiskType /\ disk.snap # None /\ disk.journal = None
      /\ disk.snap.status = "open" /\ disk.intent = None
      /\ Authorized(disk) /\ PacketBound(disk) /\ disk.progress # None /\ disk.auth # None
      /\ c \in Lists /\ disk.progress.records = c
      /\ Repaired(disk, c, disk.progress.removed)
      /\ i \in DOMAIN disk.auth.base \ disk.progress.removed /\ i \in RecordIds
      /\ i \notin disk.auth.deps /\ i \notin DOMAIN disk.progress.corrected
      /\ i \in Ids(c)
  BY RepairingIs
<1>2. Without(c, i) \in Lists  BY <1>1, WithoutIs
<1>3. d = [disk EXCEPT !.journal = j]  BY DEF Journaled
<1>4. Preflight(disk, Without(c, i))  OBVIOUS
<1> HIDE DEF c
<1>5. /\ j \in Journals /\ j.target = i /\ j.before = c /\ j.after = Without(c, i)
      /\ j.phase = "prepared"
  BY <1>1, <1>2 DEF Journals
<1> HIDE DEF j
<1>6. /\ Good(d) /\ SameOutcome(disk, d) /\ SameReview(disk, d) /\ d.snap = disk.snap
      /\ Current(d) = c /\ d.journal = j
  BY <1>1, <1>3, <1>5, JournalSet DEF c
<1>7. j # None  BY <1>5, NoneIsNot
<1>8. Authorized(d) /\ PacketBound(d) /\ Repaired(d, c, d.progress.removed)
  BY <1>1, <1>6 DEF SameReview, Authorized, PacketBound, Repaired
<1>9. /\ d.progress = disk.progress /\ d.auth = disk.auth /\ d.intent = None
      /\ d.snap.status = "open"
  BY <1>1, <1>6 DEF SameReview, SameOutcome
<1>10. Preflight(d, Without(c, i))  BY <1>4, <1>6 DEF Preflight, Collides, SameOutcome
<1>11. Reconcilable(d)
  BY <1>1, <1>5, <1>6, <1>8, <1>9, <1>10 DEF Reconcilable
<1> QED  BY <1>1, <1>5, <1>6, <1>7, <1>8, <1>9, <1>11

LEMMA RemoveRecordKeeps ==
  ASSUME IInv, NEW s \in Sessions, NEW i \in RecordIds, RemoveRecord(s, i)
  PROVE  IInv' /\ SameOutcome(disk, disk')
<1> DEFINE d == Journaled(i)
           mids == RemovalMids(d)
           final == Removed(d)
<1>1. /\ Repairing(s) /\ i \in disk.auth.affected \ Done(disk)
      /\ Preflight(disk, Without(Current(disk), i))
      /\ Perform(s, mids, final, "held")
  BY DEF RemoveRecord
<1> HIDE DEF d
<1>2. /\ Good(d) /\ SameOutcome(disk, d) /\ d.journal # None /\ Reconcilable(d)
      /\ Current(d) = d.journal.before /\ d.journal.phase = "prepared"
      /\ d.journal.after = Without(Current(d), d.journal.target)
      /\ Repaired(d, Current(d), d.progress.removed)
      /\ d.progress.records = d.journal.before /\ d.journal.target \notin d.progress.removed
  BY <1>1, JournaledIs DEF d
<1>3. \A t \in mids \cup {final} :
        Good(t) /\ SameOutcome(d, t) /\ (t = Removed(d) => t.journal = None)
  BY <1>2, RemovalGood
<1>4. \A t \in mids : Reconcilable(t)  BY <1>2, RemovalReconcilable
<1>5. final.journal = None  BY <1>3
<1> HIDE DEF mids, final
<1>6. \A t \in mids \cup {final} : SameOutcome(disk, t)  BY <1>2, <1>3 DEF SameOutcome
<1>7. Journaled1(final, kills)  BY <1>5, NoJournal
<1> QED  BY <1>1, <1>3, <1>4, <1>6, <1>7, Keeps

LEMMA CorrectKeeps ==
  ASSUME IInv, NEW s \in Sessions, NEW i \in RecordIds, NEW b \in Bodies, Correct(s, i, b)
  PROVE  IInv' /\ SameOutcome(disk, disk')
<1> DEFINE rs == Corrected(Current(disk), i, b)
           d == [disk EXCEPT !.snap.records = rs]
           corrected == [j \in DOMAIN disk.progress.corrected \cup {i} |->
                           IF j = i THEN b ELSE disk.progress.corrected[j]]
           x == [disk.progress EXCEPT !.corrected = corrected, !.records = rs, !.packet = "none"]
           t == [d EXCEPT !.progress = x]
<1>1. Repairing(s) /\ i \in disk.auth.affected \ Done(disk) /\ HashOf(Current(disk))[i] # b
  BY DEF Correct
<1>2. Perform(s, {d}, t, "held")  BY DEF Correct
<1>3. /\ Good(disk) /\ disk \in DiskType /\ disk.snap # None /\ disk.journal = None
      /\ Authorized(disk) /\ disk.progress # None /\ disk.auth # None
      /\ Current(disk) \in Lists
      /\ i \in DOMAIN disk.auth.base /\ i \in Ids(Current(disk))
      /\ HashOf(Current(disk))[i] = disk.auth.base[i]
  BY <1>1, RepairingIs
<1>4. /\ rs \in Lists /\ Ids(rs) = Ids(Current(disk))
      /\ \A j \in Ids(rs) \ {i} : HashOf(rs)[j] = HashOf(Current(disk))[j]
  BY <1>3, CorrectedIs
<1>5. d = [disk EXCEPT !.snap.records = rs]  OBVIOUS
<1> HIDE DEF rs, d
<1>6. /\ Good(d) /\ SameOutcome(disk, d) /\ SameReview(disk, d) /\ d.journal = None
      /\ d.snap # None /\ Current(d) = rs
  <2>1. \A j \in DOMAIN disk.auth.base \ disk.auth.affected :
          j \in Ids(rs) /\ HashOf(rs)[j] = HashOf(Current(disk))[j]
    BY <1>1, <1>3, <1>4 DEF Good, Permitted
  <2> QED  BY <1>3, <1>4, <1>5, <2>1, RecordsGood
<1>7. corrected \in Contents /\ DOMAIN corrected = DOMAIN disk.progress.corrected \cup {i}
  <2> DEFINE c == disk.progress.corrected
  <2>1. c \in Contents  BY <1>3, Fields DEF Repairs
  <2>2. PICK S \in SUBSET RecordIds : c \in [S -> Bodies]  BY <2>1 DEF Contents
  <2> HIDE DEF c
  <2>3. corrected = [j \in DOMAIN c \cup {i} |-> IF j = i THEN b ELSE c[j]]  BY DEF c
  <2> HIDE DEF corrected
  <2>4. corrected \in [S \cup {i} -> Bodies]  BY <2>2, <2>3
  <2>5. corrected \in Contents  BY <2>4 DEF Contents
  <2> QED  BY <2>3, <2>5 DEF c
<1>8. \A j \in DOMAIN corrected : j \in DOMAIN disk.auth.base /\ corrected[j] # disk.auth.base[j]
  BY <1>1, <1>3 DEF Good, Progressed
<1> HIDE DEF corrected
<1>9. x \in Repairs /\ x.corrected = corrected /\ x.removed = disk.progress.removed
  BY <1>3, <1>4, <1>7, Fields DEF Repairs
<1>10. t = [d EXCEPT !.progress = x]  OBVIOUS
<1> HIDE DEF x, t
<1>11. /\ t \in DiskType /\ t.snap = d.snap /\ t.auth = disk.auth /\ t.packet = disk.packet
       /\ t.result = disk.result /\ t.progress = x /\ t.journal = None
       /\ SameOutcome(disk, t) /\ Current(t) = Current(d)
  BY <1>6, <1>9, <1>10 DEF Good, DiskType, SameOutcome, SameReview, Current
<1>12. Permitted(t)  BY <1>6, <1>11 DEF Good, Permitted, SameReview
<1>13. Progressed(t)  BY <1>3, <1>8, <1>9, <1>11 DEF Good, Progressed
<1>14. Rechecked(t)  BY <1>3, <1>11 DEF Rechecked, Authorized
<1>15. Planned(t)  BY <1>3, <1>11, OutcomeKept
<1>16. Good(t)  BY <1>11, <1>12, <1>13, <1>14, <1>15 DEF Good
<1>17. Reconcilable(d) /\ Journaled1(t, kills)  BY <1>6, <1>11, NoJournal
<1> QED  BY <1>2, <1>6, <1>11, <1>16, <1>17, Keeps

LEMMA ReleaseKeeps ==
  ASSUME IInv, NEW s \in Sessions, Release(s)
  PROVE  IInv' /\ SameOutcome(disk, disk')
BY DEF IInv, Release, SameOutcome

-----------------------------------------------------------------------------
(* The commit and the failure. *)

\* As Keeps, of an operation that may change what the run was promised.
LEMMA EndsGood ==
  ASSUME IInv, NEW s \in Sessions, NEW mids, NEW final,
         NEW after \in {"none", "held", "released"}, Perform(s, mids, final, after),
         \A t \in mids \cup {final} : Good(t) /\ t.journal = None
  PROVE  IInv' /\ disk' \in mids \cup {final}
<1>1. sess' \in [Sessions -> {"none", "held", "released"}]  BY DEF IInv, Perform
<1>2. disk' \in mids \cup {final} /\ kills' \in 0 .. MaxKills
  BY SessionAssumption DEF IInv, Perform
<1>3. Good(disk') /\ disk'.journal = None  BY <1>2
<1>4. Journaled1(disk', kills')  BY <1>3, NoJournal
<1> QED  BY <1>1, <1>2, <1>3, <1>4 DEF IInv

\* A step that carries out a plan, or a part of it.
Advances(d, t) ==
  /\ d.item = "pending"
  /\ t.intent \in Lists /\ (d.intent # None => t.intent = d.intent)
  /\ d.registry \subseteq t.registry /\ t.registry \subseteq AssetsOf(t.intent)
  /\ \/ t.item = "pending"
     \/ t.item = "integrated" /\ t.registry = AssetsOf(t.intent)

\* A disk of which only what a commit writes has changed.
LEMMA WrittenGood ==
  ASSUME NEW d, Good(d), NEW t \in DiskType, SameReview(d, t), t.snap = d.snap, Planned(t)
  PROVE  Good(t)
<1>1. Current(t) = Current(d)  BY DEF Current
<1>2. Permitted(t) /\ Progressed(t) /\ Rechecked(t)  BY <1>1, ReviewKept
<1> QED  BY <1>2 DEF Good

LEMMA AppliedIs ==
  ASSUME NEW d, Good(d), d.snap # None, d.journal = None, d.item = "pending",
         d.intent = Current(d), NEW k \in 0 .. Len(Current(d)), NEW t, t = Applied(d, k)
  PROVE  /\ Good(t) /\ SameReview(d, t) /\ t.snap = d.snap /\ t.journal = None
         /\ t.intent = d.intent /\ t.committed = d.committed /\ t.item = "pending"
         /\ d.registry \subseteq t.registry /\ t.registry \subseteq AssetsOf(d.intent)
         /\ k = Len(Current(d)) => t.registry = AssetsOf(d.intent)
<1> DEFINE c == Current(d)
           g == d.registry \cup AssetsOf(SubSeq(c, 1, k))
<1>1. d \in DiskType /\ c \in Lists /\ d.registry \in SUBSET Records /\ d.intent # None
  BY Fields, NoneIsNot DEF Good
<1>2. d.registry \subseteq AssetsOf(d.intent)  BY <1>1 DEF Good, Planned
<1>3. /\ AssetsOf(c) \subseteq Records /\ AssetsOf(SubSeq(c, 1, k)) \subseteq AssetsOf(c)
      /\ AssetsOf(SubSeq(c, 1, Len(c))) = AssetsOf(c)
  BY <1>1, AssetsAre
<1>4. /\ g \in SUBSET Records /\ d.registry \subseteq g /\ g \subseteq AssetsOf(d.intent)
      /\ k = Len(c) => g = AssetsOf(d.intent)
  BY <1>1, <1>2, <1>3
<1>5. t = [d EXCEPT !.registry = g]  BY DEF Applied
<1> HIDE DEF c, g
<1>6. /\ t \in DiskType /\ SameReview(d, t) /\ t.snap = d.snap /\ t.journal = None
      /\ t.intent = d.intent /\ t.committed = d.committed /\ t.item = "pending"
      /\ t.registry = g
  BY <1>1, <1>4, <1>5 DEF DiskType, SameReview
<1>7. Planned(t)  BY <1>1, <1>4, <1>6 DEF Good, Planned
<1>8. Good(t)  BY <1>6, <1>7, WrittenGood
<1> QED  BY <1>4, <1>6, <1>8 DEF c

LEMMA IntegratedIs ==
  ASSUME NEW d \in DiskType, d.committed # None, NEW t, t = Integrated(d)
  PROVE  /\ t \in DiskType /\ SameReview(d, t) /\ t.snap = d.snap /\ t.journal = d.journal
         /\ t.intent = d.intent /\ t.committed = d.committed /\ t.item = "integrated"
         /\ t.registry = d.registry
BY DEF Integrated, DiskType, SameReview

LEMMA PublishGood ==
  ASSUME NEW d, Good(d), d.snap # None, d.journal = None, d.item = "pending",
         d.intent = Current(d),
         NEW p, p = [AllApplied(d) EXCEPT !.committed = Current(d)],
         NEW t \in Applying(d) \cup {p, Integrated(p), Closed(Integrated(p), "committed")}
  PROVE  /\ Good(t) /\ t.journal = None /\ t.committed \in {d.committed, Current(d)}
         /\ t.intent = d.intent /\ Advances(d, t)
<1> DEFINE a == AllApplied(d)
           i == Integrated(p)
           e == Closed(i, "committed")
<1>1. d \in DiskType /\ Current(d) \in Lists /\ Len(Current(d)) \in Nat
  BY Fields, ListIs DEF Good
<1>2. /\ Good(a) /\ SameReview(d, a) /\ a.snap = d.snap /\ a.journal = None
      /\ a.intent = d.intent /\ a.committed = d.committed /\ a.item = "pending"
      /\ d.registry \subseteq a.registry /\ a.registry = AssetsOf(d.intent)
  <2>1. Len(Current(d)) \in 0 .. Len(Current(d))  BY <1>1
  <2> QED  BY <2>1, AppliedIs DEF AllApplied
<1>3. p = [a EXCEPT !.committed = Current(d)]  OBVIOUS
<1> HIDE DEF a
<1>4. /\ p \in DiskType /\ SameReview(a, p) /\ p.snap = a.snap /\ p.journal = None
      /\ p.intent = d.intent /\ p.committed = Current(d) /\ p.item = "pending"
      /\ p.registry = AssetsOf(d.intent)
  BY <1>1, <1>2, <1>3 DEF Good, DiskType, SameReview
<1>5. d.intent # None  BY <1>1, NoneIsNot
<1>6. Good(p)
  <2>1. Planned(p)  BY <1>4, <1>5 DEF Planned
  <2> QED  BY <1>2, <1>4, <2>1, WrittenGood
<1>7. i = Integrated(p)  OBVIOUS
<1> HIDE DEF i
<1>8. /\ i \in DiskType /\ SameReview(p, i) /\ i.snap = p.snap /\ i.journal = None
      /\ i.intent = d.intent /\ i.committed = Current(d) /\ i.item = "integrated"
      /\ i.registry = AssetsOf(d.intent)
  <2>1. p.committed # None  BY <1>1, <1>4, NoneIsNot
  <2> QED  BY <1>4, <1>7, <2>1, IntegratedIs
<1>9. Good(i)
  <2>1. Planned(i)  BY <1>5, <1>8 DEF Planned
  <2> QED  BY <1>6, <1>8, <2>1, WrittenGood
<1>10. i.snap # None  BY <1>2, <1>4, <1>8
<1>11. /\ e \in DiskType /\ e.snap # None /\ Current(e) = Current(i)
       /\ SameReview(i, e) /\ SameOutcome(i, e) /\ e.journal = i.journal
  BY <1>8, <1>10, ClosedIs
<1> HIDE DEF e
<1>12. Good(e)
  <2>1. Permitted(e) /\ Progressed(e) /\ Rechecked(e)  BY <1>9, <1>11, ReviewKept
  <2>2. Planned(e)  BY <1>9, <1>11, OutcomeKept
  <2> QED  BY <1>11, <2>1, <2>2 DEF Good
<1>13. CASE t \in Applying(d)
  <2>1. PICK k \in 0 .. Len(Current(d)) : t = Applied(d, k)  BY <1>13 DEF Applying
  <2>2. /\ Good(t) /\ t.journal = None
        /\ t.intent = d.intent /\ t.committed = d.committed /\ t.item = "pending"
        /\ d.registry \subseteq t.registry /\ t.registry \subseteq AssetsOf(d.intent)
    BY <2>1, AppliedIs
  <2> QED  BY <1>1, <2>2 DEF Advances
<1>14. CASE t = p  BY <1>1, <1>2, <1>4, <1>6, <1>14 DEF Advances
<1>15. CASE t = i  BY <1>1, <1>2, <1>8, <1>9, <1>15 DEF Advances
<1>16. CASE t = e
  <2>1. e.intent = d.intent /\ e.committed = Current(d) /\ e.item = "integrated"
        /\ e.registry = AssetsOf(d.intent) /\ e.journal = None
    BY <1>8, <1>11 DEF SameOutcome
  <2> QED  BY <1>1, <1>2, <1>12, <1>16, <2>1 DEF Advances
<1> QED  BY <1>13, <1>14, <1>15, <1>16 DEF i, e

LEMMA PublishKeeps ==
  ASSUME IInv, NEW s \in Sessions, NEW d, Publish(s, d), Good(d), d.snap # None,
         d.journal = None, d.item = "pending", d.intent = Current(d)
  PROVE  /\ IInv' /\ disk'.committed \in {d.committed, Current(d)}
         /\ disk'.intent = d.intent /\ Advances(d, disk')
<1> DEFINE p == [AllApplied(d) EXCEPT !.committed = Current(d)]
           final == Closed(Integrated(p), "committed")
           mids == Applying(d) \cup {p, Integrated(p)}
<1>1. Perform(s, mids, final, "released")  BY DEF Publish
<1>2. mids \cup {final} = Applying(d) \cup {p, Integrated(p), Closed(Integrated(p), "committed")}
  OBVIOUS
<1> HIDE DEF p
<1>3. p = [AllApplied(d) EXCEPT !.committed = Current(d)]  BY DEF p
<1>4. ASSUME NEW t \in mids \cup {final}
      PROVE  /\ Good(t) /\ t.journal = None /\ t.committed \in {d.committed, Current(d)}
             /\ t.intent = d.intent /\ Advances(d, t)
  BY <1>2, <1>3, <1>4, PublishGood
<1> HIDE DEF mids, final
<1>5. IInv' /\ disk' \in mids \cup {final}  BY <1>1, <1>4, EndsGood
<1> QED  BY <1>4, <1>5

\* The disk with the intent, which a commit then carries out.
LEMMA IntentIs ==
  ASSUME IInv, NEW s \in Sessions, Committable(s),
         NEW d, d = [disk EXCEPT !.intent = Current(disk)]
  PROVE  /\ Good(d) /\ d.snap # None /\ d.journal = None /\ d.item = "pending"
         /\ d.intent = Current(d) /\ Current(d) = Current(disk) /\ Current(disk) \in Lists
         /\ d.committed = None /\ Advances(disk, d)
         /\ \A t : Advances(d, t) => Advances(disk, t)
<1>1. /\ Good(disk) /\ disk \in DiskType /\ disk.snap # None /\ disk.journal = None
      /\ Current(disk) \in Lists
  BY OpenedIs DEF Committable, Opened
<1>2. /\ disk.committed = None /\ disk.item = "pending" /\ disk.intent \in {None, Current(disk)}
  BY DEF Committable
<1>3. /\ d \in DiskType /\ SameReview(disk, d) /\ d.snap = disk.snap /\ d.journal = None
      /\ d.intent = Current(disk) /\ d.committed = None /\ d.item = "pending"
      /\ d.registry = disk.registry /\ Current(d) = Current(disk)
  BY <1>1, <1>2 DEF DiskType, SameReview, Current
<1>4. Current(disk) # None  BY <1>1, NoneIsNot
<1>5. Planned(d)  BY <1>1, <1>2, <1>3, <1>4 DEF Good, Planned
<1>6. Good(d)  BY <1>1, <1>3, <1>5, WrittenGood
<1>7. disk.intent # None => d.intent = disk.intent  BY <1>2, <1>3
<1>8. Advances(disk, d)  BY <1>1, <1>2, <1>3, <1>4, <1>5, <1>7 DEF Advances, Planned
<1>9. \A t : Advances(d, t) => Advances(disk, t)  BY <1>2, <1>3, <1>4, <1>7 DEF Advances
<1> QED  BY <1>1, <1>3, <1>6, <1>8, <1>9

LEMMA CommitKeeps ==
  ASSUME IInv, NEW s \in Sessions, Commit(s)
  PROVE  /\ IInv' /\ disk'.committed \in {None, Current(disk)} /\ Advances(disk, disk')
<1>1. PICK d : d = [disk EXCEPT !.intent = Current(disk)]  OBVIOUS
<1>2. Committable(s) /\ Publish(s, d)  BY <1>1 DEF Commit
<1>3. /\ Good(d) /\ d.snap # None /\ d.journal = None /\ d.item = "pending"
      /\ d.intent = Current(d) /\ Current(d) = Current(disk) /\ d.committed = None
      /\ \A t : Advances(d, t) => Advances(disk, t)
  BY <1>1, <1>2, IntentIs
<1>4. IInv' /\ disk'.committed \in {d.committed, Current(d)} /\ Advances(d, disk')
  BY <1>2, <1>3, PublishKeeps
<1> QED  BY <1>3, <1>4

\* What another item publishes is no part of what this one was promised.
LEMMA TakenIs ==
  ASSUME NEW d, Good(d), NEW t \in Rivals, NEW e, e = Taken(d, t)
  PROVE  /\ Good(e) /\ SamePlan(d, e) /\ SameReview(d, e) /\ e.journal = d.journal
         /\ e.snap = d.snap /\ d.taken \subseteq e.taken
<1>1. t \in Records  BY SessionAssumption DEF Records
<1>2. /\ e \in DiskType /\ SamePlan(d, e) /\ SameReview(d, e) /\ e.journal = d.journal
      /\ e.snap = d.snap /\ d.taken \subseteq e.taken
  BY <1>1 DEF Good, DiskType, Taken, SamePlan, SameReview
<1>3. Planned(e)  BY <1>2 DEF Good, Planned, SamePlan
<1> QED  BY <1>2, <1>3, WrittenGood

LEMMA OtherPublishesKeeps ==
  ASSUME IInv, NEW t \in Rivals, OtherPublishes(t)
  PROVE  IInv' /\ SamePlan(disk, disk')
<1>1. Good(disk) /\ Journaled1(disk, kills)  BY DEF IInv
<1>2. PICK e : e = Taken(disk, t)  OBVIOUS
<1>3. disk' = e /\ kills' = kills /\ sess' = sess  BY <1>2 DEF OtherPublishes
<1>4. /\ Good(e) /\ SamePlan(disk, e) /\ SameReview(disk, e) /\ e.journal = disk.journal
      /\ e.snap = disk.snap /\ disk.taken \subseteq e.taken
  BY <1>1, <1>2, TakenIs
<1>5. Journaled1(e, kills)
  <2>1. ASSUME kills <= 1, Unopposed(e), e.journal # None
        PROVE  Reconcilable(e)
    <3>1. ~Collides(e, disk.journal.after)  BY <1>4, <2>1 DEF Unopposed
    <3>2. Unopposed(disk)  BY <1>4, <3>1 DEF Unopposed, Collides
    <3>3. Reconcilable(disk)  BY <1>1, <2>1, <3>2 DEF Journaled1
    <3>4. Preflight(e, disk.journal.after)
      BY <1>4, <2>1, <3>1, <3>3 DEF Reconcilable, Preflight
    <3>5. /\ Authorized(disk) <=> Authorized(e)
          /\ PacketBound(disk) <=> PacketBound(e)
          /\ \A rs, x : Repaired(disk, rs, x) <=> Repaired(e, rs, x)
      BY <1>4 DEF Authorized, PacketBound, Repaired, SameReview
    <3>6. /\ e.intent = disk.intent /\ e.progress = disk.progress /\ e.auth = disk.auth
          /\ Current(e) = Current(disk)
      BY <1>4 DEF SamePlan, SameReview, Current
    <3> QED  BY <1>4, <2>1, <3>3, <3>4, <3>5, <3>6 DEF Reconcilable
  <2>2. e.journal = None => Journaled1(e, kills)  BY NoJournal
  <2> QED  BY <1>1, <1>4, <2>1, <2>2 DEF Journaled1
<1> QED  BY <1>3, <1>4, <1>5 DEF IInv

\* A commit that another item overtakes is a part of its plan.
LEMMA OvertakenKeeps ==
  ASSUME IInv, NEW s \in Sessions, NEW t \in Rivals, Overtaken(s, t)
  PROVE  /\ IInv' /\ Committable(s)
         /\ disk'.committed \in {None, Current(disk)} /\ Advances(disk, disk')
<1>1. PICK d : d = [disk EXCEPT !.intent = Current(disk)]  OBVIOUS
<1>2. PICK m \in Stops(d, t) : disk' = Taken(m, t)  BY <1>1 DEF Overtaken
<1>3. Committable(s) /\ kills' = kills /\ sess' = sess  BY DEF Overtaken
<1>4. /\ Good(d) /\ d.snap # None /\ d.journal = None /\ d.item = "pending"
      /\ d.intent = Current(d) /\ Current(d) = Current(disk) /\ Current(disk) \in Lists
      /\ d.committed = None /\ Advances(disk, d)
      /\ \A x : Advances(d, x) => Advances(disk, x)
  BY <1>1, <1>3, IntentIs
<1>5. PICK p : p = [AllApplied(d) EXCEPT !.committed = Current(d)]  OBVIOUS
<1>6. m \in Applying(d) \cup {d, p}
  <2>1. CASE t.id \in Assets
    <3>1. PICK k \in DOMAIN Current(d) : m = Applied(d, k - 1)
      BY <1>2, <2>1 DEF Stops
    <3>2. k - 1 \in 0 .. Len(Current(d))  BY <1>4, <3>1, ListIs
    <3> QED  BY <3>1, <3>2 DEF Applying
  <2>2. CASE t.id \notin Assets  BY <1>2, <1>5, <2>2 DEF Stops
  <2> QED  BY <2>1, <2>2
<1>7. /\ Good(m) /\ m.journal = None /\ m.committed \in {None, Current(disk)}
      /\ Advances(disk, m)
  <2>1. CASE m = d  BY <1>4, <2>1
  <2>2. CASE m \in Applying(d) \cup {p}
    <3>1. /\ Good(m) /\ m.journal = None /\ m.committed \in {d.committed, Current(d)}
          /\ Advances(d, m)
      BY <1>4, <1>5, <2>2, PublishGood
    <3> QED  BY <1>4, <3>1
  <2> QED  BY <1>6, <2>1, <2>2
<1>8. PICK e : e = Taken(m, t)  OBVIOUS
<1>9. /\ Good(e) /\ SamePlan(m, e) /\ e.journal = None  BY <1>7, <1>8, TakenIs
<1>10. Journaled1(e, kills)  BY <1>9, NoJournal
<1>11. disk' = e  BY <1>2, <1>8
<1>12. IInv'  BY <1>3, <1>9, <1>10, <1>11 DEF IInv
<1>13. Advances(disk, e) /\ e.committed \in {None, Current(disk)}
  BY <1>7, <1>9 DEF Advances, SamePlan
<1> QED  BY <1>3, <1>11, <1>12, <1>13

LEMMA CommitAgainKeeps ==
  ASSUME IInv, NEW s \in Sessions, CommitAgain(s)
  PROVE  /\ IInv' /\ disk.committed # None
         /\ Advances(disk, disk') \/ SameOutcome(disk, disk')
<1>1. /\ Good(disk) /\ disk \in DiskType /\ disk.snap # None /\ disk.journal = None
      /\ disk.committed # None /\ disk.committed = Current(disk)
  BY OpenedIs DEF CommitAgain, Recommittable, Opened
<1>2. CASE disk.item = "pending" /\ Publish(s, disk)
  <2>1. disk.intent = Current(disk)  BY <1>1 DEF Good, Planned
  <2> QED  BY <1>1, <1>2, <2>1, PublishKeeps
<1>3. CASE Perform(s, {}, Closed(disk, "committed"), "released")
  <2> DEFINE t == Closed(disk, "committed")
  <2>1. /\ t \in DiskType /\ t.snap # None /\ Current(t) = Current(disk)
        /\ SameReview(disk, t) /\ SameOutcome(disk, t) /\ t.journal = None
    BY <1>1, ClosedIs
  <2>2. Perform(s, {}, t, "released")  BY <1>3
  <2> HIDE DEF t
  <2>3. Permitted(t) /\ Progressed(t) /\ Rechecked(t)  BY <1>1, <2>1, ReviewKept
  <2>4. Planned(t)  BY <1>1, <2>1, OutcomeKept
  <2>5. Good(t)  BY <2>1, <2>3, <2>4 DEF Good
  <2>6. IInv' /\ disk' \in {} \cup {t}  BY <2>1, <2>2, <2>5, EndsGood
  <2> QED  BY <1>1, <2>1, <2>6
<1> QED  BY <1>1, <1>2, <1>3 DEF CommitAgain

LEMMA FailKeeps ==
  ASSUME IInv, NEW s \in Sessions, Fail(s)
  PROVE  /\ IInv' /\ disk.intent = None /\ disk'.intent = None
         /\ disk'.committed = disk.committed /\ disk'.registry = disk.registry
         /\ \/ disk'.item = disk.item
            \/ disk.item = "pending" /\ disk'.item = "technical_failure"
<1> DEFINE f == [disk EXCEPT !.failure = TRUE]
           t == [f EXCEPT !.item = "technical_failure"]
           e == Closed(t, "technical_failure")
<1>1. /\ Good(disk) /\ disk \in DiskType /\ disk.snap # None /\ disk.journal = None
      /\ disk.intent = None
  BY OpenedIs DEF Fail, Usable
<1>2. disk.item # "integrated" /\ Perform(s, {f, t}, e, "released")
  BY DEF Fail, Failing
<1>3. /\ f \in DiskType /\ SameReview(disk, f) /\ f.snap = disk.snap /\ f.journal = None
      /\ SameOutcome(disk, f)
  BY <1>1 DEF DiskType, SameReview, SameOutcome
<1> HIDE DEF f
<1>4. /\ t \in DiskType /\ SameReview(f, t) /\ t.snap = f.snap /\ t.journal = None
      /\ t.intent = f.intent /\ t.committed = f.committed /\ t.registry = f.registry
      /\ t.item = "technical_failure"
  BY <1>3 DEF DiskType, SameReview
<1>5. /\ e \in DiskType /\ e.snap # None /\ Current(e) = Current(t)
      /\ SameReview(t, e) /\ SameOutcome(t, e) /\ e.journal = None
  BY <1>1, <1>3, <1>4, ClosedIs
<1> HIDE DEF t, e
<1>6. Planned(f) /\ Planned(t) /\ Planned(e)
  BY <1>1, <1>3, <1>4, <1>5 DEF Good, Planned, SameOutcome
<1>7. Good(f) /\ Good(t)
  <2>1. Good(f)  BY <1>1, <1>3, <1>6, WrittenGood
  <2> QED  BY <1>4, <1>6, <2>1, WrittenGood
<1>8. Good(e)
  <2>1. Permitted(e) /\ Progressed(e) /\ Rechecked(e)  BY <1>1, <1>3, <1>4, <1>5, <1>7, ReviewKept
  <2> QED  BY <1>5, <1>6, <2>1 DEF Good
<1>9. IInv' /\ disk' \in {f, t} \cup {e}
  BY <1>2, <1>3, <1>4, <1>5, <1>7, <1>8, EndsGood
<1>10. disk.item \in {"pending", "technical_failure"}  BY <1>1, <1>2, Fields
<1> QED  BY <1>1, <1>3, <1>4, <1>5, <1>9, <1>10 DEF SameOutcome

-----------------------------------------------------------------------------
(* Every step, and the theorems. *)

Fails(d, t) ==
  /\ d.intent = None /\ t.intent = None
  /\ t.committed = d.committed /\ t.registry = d.registry
  /\ t.item = d.item \/ (d.item = "pending" /\ t.item = "technical_failure")

LEMMA Start ==
  ASSUME Init
  PROVE  IInv
<1>1. disk \in DiskType  BY DEF Init, DiskType
<1>2. Permitted(disk) /\ Progressed(disk) /\ Rechecked(disk) /\ Planned(disk)
  BY DEF Init, Permitted, Progressed, Rechecked, Planned
<1>3. Journaled1(disk, kills)  BY NoJournal DEF Init
<1>4. kills \in 0 .. MaxKills /\ sess \in [Sessions -> {"none", "held", "released"}]
  BY SessionAssumption DEF Init
<1> QED  BY <1>1, <1>2, <1>3, <1>4 DEF IInv, Good

LEMMA Step ==
  ASSUME IInv, Next
  PROVE  /\ IInv'
         /\ \/ SamePlan(disk, disk') \/ Fails(disk, disk')
            \/ disk.committed # None /\ Advances(disk, disk')
            \/ /\ \E s \in Sessions : Committable(s)
               /\ Advances(disk, disk') /\ disk'.committed \in {None, Current(disk)}
<1> DEFINE Quiet == IInv' /\ SamePlan(disk, disk')
<1> PICK s \in Sessions :
      \/ Load(s) \/ Release(s) \/ BuildPacket(s)
      \/ \E i \in RecordIds :
           \/ RemoveUnreviewed(s, i) \/ RemoveRecord(s, i)
           \/ \E b \in Bodies : Stage(s, i, b) \/ CorrectInvalid(s, i, b) \/ Correct(s, i, b)
      \/ \E v \in Verdicts : ReviewInitial(s, v) \/ ReviewTargeted(s, v)
      \/ /\ "repair_once" \in Verdicts
         /\ \E affected, deps \in SUBSET RecordIds : ReviewRepair(s, affected, deps)
      \/ Commit(s) \/ CommitAgain(s) \/ Fail(s)
      \/ \E t \in Rivals : OtherPublishes(t) \/ Overtaken(s, t)
  BY DEF Next
<1>0. SameOutcome(disk, disk') => SamePlan(disk, disk')  BY DEF SameOutcome, SamePlan
<1>1. CASE Load(s) \/ Release(s) \/ BuildPacket(s)
  <2>1. Quiet  BY <1>0, <1>1, LoadKeeps, ReleaseKeeps, BuildPacketKeeps
  <2> QED  BY <2>1
<1>2. CASE \E i \in RecordIds :
             \/ RemoveUnreviewed(s, i) \/ RemoveRecord(s, i)
             \/ \E b \in Bodies : Stage(s, i, b) \/ CorrectInvalid(s, i, b) \/ Correct(s, i, b)
  <2>1. Quiet
    BY <1>0, <1>2, RemoveUnreviewedKeeps, RemoveRecordKeeps, StageKeeps, CorrectInvalidKeeps,
       CorrectKeeps
  <2> QED  BY <2>1
<1>3. CASE \E v \in Verdicts : ReviewInitial(s, v) \/ ReviewTargeted(s, v)
  <2>1. Quiet  BY <1>0, <1>3, ReviewInitialKeeps, ReviewTargetedKeeps
  <2> QED  BY <2>1
<1>4. CASE /\ "repair_once" \in Verdicts
           /\ \E affected, deps \in SUBSET RecordIds : ReviewRepair(s, affected, deps)
  <2>1. Quiet  BY <1>0, <1>4, ReviewRepairKeeps
  <2> QED  BY <2>1
<1>5. CASE Commit(s)
  <2>1. Committable(s)  BY <1>5 DEF Commit
  <2> QED  BY <1>5, <2>1, CommitKeeps
<1>6. CASE CommitAgain(s)  BY <1>0, <1>6, CommitAgainKeeps
<1>7. CASE Fail(s)  BY <1>7, FailKeeps DEF Fails
<1>8. CASE \E t \in Rivals : OtherPublishes(t) \/ Overtaken(s, t)
  <2>1. PICK t \in Rivals : OtherPublishes(t) \/ Overtaken(s, t)  BY <1>8
  <2>2. CASE OtherPublishes(t)  BY <2>2, OtherPublishesKeeps
  <2>3. CASE Overtaken(s, t)  BY <2>3, OvertakenKeeps
  <2> QED  BY <2>1, <2>2, <2>3
<1> QED  BY <1>1, <1>2, <1>3, <1>4, <1>5, <1>6, <1>7, <1>8

LEMMA Stutter == ASSUME IInv, UNCHANGED vars PROVE IInv'
BY DEF IInv, vars

LEMMA Invariant == Spec => []IInv
<1>1. Init => IInv  BY Start
<1>2. IInv /\ [Next]_vars => IInv'  BY Step, Stutter
<1> QED  BY <1>1, <1>2, PTL DEF Spec

\* Types, and with them: no two staged records ever have the same id, whatever
\* is staged, corrected, removed or taken up again after a kill.
THEOREM TypeCorrect == Spec => []TypeOK
<1>1. IInv => TypeOK  BY DEF IInv, Good, TypeOK
<1> QED  BY <1>1, Invariant, PTL

\* Whatever the reviewer asks for and the owner does, the records of the review
\* that no finding names stay as they were reviewed (record_fidelity_review,
\* remove_record, correct_record).
THEOREM ScopeIsKept == Spec => []RepairStaysInScope
<1>1. IInv => RepairStaysInScope  BY DEF IInv, Good, Permitted, RepairStaysInScope
<1> QED  BY <1>1, Invariant, PTL

\* One kill, wherever in a removal, leaves a journal that load accepts, unless
\* another item has come in its way (_reconcile_fidelity_removal_unlocked).
THEOREM RemovalIsTakenUp == Spec => []RemovalRecovers
<1>1. IInv => RemovalRecovers  BY DEF IInv, Journaled1, Unopposed, RemovalRecovers
<1> QED  BY <1>1, Invariant, PTL

\* A commit step commits what was accepted.
LEMMA CommitsReviewed ==
  ASSUME IInv, NEW s \in Sessions, Committable(s), disk'.committed = Current(disk)
  PROVE  /\ disk.result # None /\ disk.result.verdict = "accept"
         /\ disk.result.records = disk'.committed
         /\ disk.auth # None =>
              \A i \in disk.auth.affected :
                i \notin Ids(disk'.committed) \/ HashOf(disk'.committed)[i] # disk.auth.base[i]
<1> DEFINE c == Current(disk)
<1>1. disk'.committed = c  OBVIOUS
<1>2. /\ Good(disk) /\ c \in Lists  BY OpenedIs DEF Committable, Opened
<1>3. /\ disk.result # None /\ disk.result.verdict = "accept" /\ disk.result.records = c
      /\ disk.result.kind = "targeted" => Progressing(disk)
  BY DEF Committable, ResultBound
<1>4. ASSUME disk.auth # None, NEW i \in disk.auth.affected, i \in Ids(c)
      PROVE  HashOf(c)[i] # disk.auth.base[i]
  <2>1. disk.result.kind = "targeted"  BY <1>2, <1>3, <1>4 DEF Good, Permitted
  <2>2. disk.progress # None /\ i \in Done(disk)  BY <1>2, <1>3, <1>4, <2>1 DEF Good, Rechecked
  <2>3. Repaired(disk, c, disk.progress.removed)  BY <1>3, <2>1 DEF Progressing
  <2>4. /\ Ids(c) = DOMAIN disk.auth.base \ disk.progress.removed
        /\ \A n \in Ids(c) : HashOf(c)[n] = IF n \in DOMAIN disk.progress.corrected
                                            THEN disk.progress.corrected[n]
                                            ELSE disk.auth.base[n]
    BY <1>2, <2>3, RepairedIs
  <2>5. i \in DOMAIN disk.progress.corrected  BY <1>4, <2>2, <2>4 DEF Done
  <2> QED  BY <1>2, <1>4, <2>2, <2>4, <2>5 DEF Good, Progressed
<1> QED  BY <1>1, <1>3, <1>4

\* What commit publishes is what the fidelity reviewer accepted, with every
\* finding of an authorized repair worked off.
THEOREM OnlyReviewedIsCommitted == Spec => CommitIsReviewed
<1> DEFINE A == disk.committed = None /\ disk'.committed # None =>
                  /\ disk.result # None /\ disk.result.verdict = "accept"
                  /\ disk.result.records = disk'.committed
                  /\ disk.auth # None =>
                       \A i \in disk.auth.affected :
                         i \notin Ids(disk'.committed) \/ HashOf(disk'.committed)[i] # disk.auth.base[i]
<1>1. ASSUME IInv, [Next]_vars PROVE [A]_vars
  <2>1. CASE UNCHANGED vars  BY <2>1
  <2>2. CASE Next
    <3> SUFFICES ASSUME disk.committed = None, disk'.committed # None
                 PROVE  A
      OBVIOUS
    <3>1. \E s \in Sessions : Committable(s) /\ disk'.committed = Current(disk)
      BY <1>1, <2>2, Step DEF SamePlan, Fails
    <3> QED  BY <1>1, <3>1, CommitsReviewed
  <2> QED  BY <1>1, <2>1, <2>2
<1> QED  BY <1>1, Invariant, PTL DEF Spec, CommitIsReviewed

\* The session, with its kills and retries, implements the outcome that the run
\* is promised: one plan, carried out in full, or a failure that left nothing.
THEOREM PlansThenPublishes == Spec => PlanThenPublish
<1>1. Init => Outcome!Init  BY DEF Init, Outcome!Init
<1>2. ASSUME IInv, [Next]_vars PROVE [Outcome!Next]_(Outcome!ovars)
  <2>1. CASE UNCHANGED vars  BY <2>1 DEF vars, Outcome!ovars
  <2>2. CASE SamePlan(disk, disk')  BY <2>2 DEF SamePlan, Outcome!ovars
  <2>3. CASE Advances(disk, disk')
    <3>1. disk'.intent \in Seq([id : RecordIds, body : Bodies])
      BY <2>3 DEF Advances, Lists, Records
    <3>2. Outcome!Commit  BY <2>3, <3>1 DEF Advances, Outcome!Commit
    <3> QED  BY <3>2 DEF Outcome!Next
  <2>4. CASE Fails(disk, disk')
    <3>1. Outcome!Fail \/ UNCHANGED Outcome!ovars
      BY <2>4 DEF Fails, Outcome!Fail, Outcome!ovars
    <3> QED  BY <3>1 DEF Outcome!Next
  <2> QED  BY <1>2, <2>1, <2>2, <2>3, <2>4, Step
<1> QED  BY <1>1, <1>2, Invariant, PTL DEF Spec, PlanThenPublish, Outcome!Spec
=============================================================================
