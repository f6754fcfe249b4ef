-------------------------- MODULE DashboardDeltaProofs --------------------------
(***************************************************************************)
(* TLAPS proofs about DashboardDelta: what is visible is whole, a product  *)
(* makes way for a later one only, and stays once another stands on it.    *)
(*                                                                         *)
(* The inductive invariant says of every list of writes a call may be in   *)
(* the middle of (Swapping, Firsting, Finishing, Restoring, Settling) what *)
(* its next write relies on, and of a call between two lists (Resting)     *)
(* what it has seen that still holds. The run lock and the lock of the     *)
(* generation keep the others from it (Excluded), but for a directory that *)
(* is made anew where none is, and for the undoing of a first publication. *)
(***************************************************************************)
EXTENDS Publication, SequenceTheorems, TLAPS

-----------------------------------------------------------------------------
(* The invariant. *)

\* A dashboard, with its manifest or still without.
Shown(tree) ==
  tree.kind = "product" /\ tree.dash \in Plans /\ tree.manifest \in {None, tree.dash}
Fine(tree) == tree \in {Gone, Empty} \/ Whole(tree)

\* The files of one generation.
Good(r) ==
  /\ r.root \in {Gone, Empty} \/ Shown(r.root)
  /\ Fine(r.root) \/ (r.first # None /\ r.root.dash = r.first.plan)
  /\ r.backup \in {Gone, Part} \/ Whole(r.backup)
  /\ r.swap # None => /\ Whole(r.swap.old) /\ Whole(r.swap.new)
                      /\ r.swap.old.dash < r.swap.new.dash
  /\ Whole(r.backup) /\ ~Whole(r.root) => r.swap # None
  /\ r.first # None => r.first.manifest \in {None, r.first.plan}

\* The product of g's parent is visible, with the manifest m.
Parent(g, m) ==
  g > 1 => Whole(disk.gen[g - 1].root) /\ disk.gen[g - 1].root.manifest = m

\* r has, or had, or will have a product that extends a manifest m.
Extends(r, m) ==
  \/ r.root.dash # None /\ r.root.parent = m
  \/ r.backup.dash # None /\ r.backup.parent = m
  \/ r.swap # None /\ m \in {r.swap.old.parent, r.swap.new.parent}

\* Every product of g stands on its parent's.
Stands(g) == \A m : Extends(disk.gen[g], m) => Parent(g, m)

\* The lists that replace a product, publish a first one, finish the
\* publication of a first one, undo it, and end a swap.
SwapTodos ==
  {Replace,
   <<"copyStarted", "copied", "swapPrepared", "manifestTemp", "manifestIn", "aside", "visible">>,
   <<"copied", "swapPrepared", "manifestTemp", "manifestIn", "aside", "visible">>,
   <<"swapPrepared", "manifestTemp", "manifestIn", "aside", "visible">>,
   <<"manifestTemp", "manifestIn", "aside", "visible">>,
   <<"manifestIn", "aside", "visible">>, Publish, <<"visible">>}
FirstTodos ==
  {FirstStage,
   <<"firstIntent", "stageStarted", "staged", "firstPrepared", "published">>,
   <<"stageStarted", "staged", "firstPrepared", "published">>,
   <<"staged", "firstPrepared", "published">>,
   <<"firstPrepared", "published">>, <<"published">>}
Commit == <<"firstManifest", "manifest", "dropSaved", "dropFirst">>
Bound == <<"dropSaved", "dropFirst">>
Unnamed == {Commit, <<"manifest", "dropSaved", "dropFirst">>, <<"firstState">> \o Commit,
            <<"complete">> \o (<<"firstState">> \o Commit)}
Named == {Bound, <<"dropFirst">>, <<"firstState">> \o Bound,
          <<"complete">> \o (<<"firstState">> \o Bound)}
Undoing == {<<"oldState", "dropSaved", "dropFirst">>, <<"dropSaved", "dropFirst">>,
            <<"dropFirst">>, <<"dropFirst", "refuse">>, <<"dropStaging", "dropFirst", "refuse">>}
RestoreTodos ==
  Undoing \cup {<<"dropStaging">> \o t :
                  t \in {<<"oldState", "dropSaved", "dropFirst">>, <<"refuse">>}}
\* What ends with the intent, or the copy after it, and what does not.
Dropping == {<<"dropCandidate", "dropSwap", "dropBackup">>, <<"dropSwap", "dropBackup">>,
             <<"dropCandidate", "dropBackup", "dropSwap">>, <<"dropBackup", "dropSwap">>,
             <<"dropCandidate", "dropSwap">>, <<"dropSwap">>}
EndTodos == Dropping \cup
  {<<"dropBackup">>, <<"dropCandidate">>, <<"dropCandidate", "refuse">>,
   <<"dropCandidate", "dropSwap", "refuse">>, <<"dropSwap", "refuse">>}
SettleTodos == EndTodos \cup
  {<<"complete">> \o t : t \in {<<"dropCandidate", "dropBackup", "dropSwap">>, <<"refuse">>}} \cup
  {<<"restore">> \o t : t \in Dropping \cup {<<"refuse">>}}

\* p publishes, under the run lock and the lock of the active generation.
Owns(c, a) == c.run /\ c.lock /\ c.target = c.gen /\ c.gen = a

Swapping(c, r, a) ==
  /\ c.todo \in SwapTodos /\ Owns(c, a)
  /\ (c.at = "finish" /\ r.first = None) \/ (c.at = "inspect" /\ c.swapping)
  /\ Head(c.todo) = "swapIntent" =>
       c.at = "finish" /\ r.swap = None /\ Whole(r.root) /\ r.root.dash < c.plan
  /\ Head(c.todo) # "swapIntent" => r.swap # None
  /\ Head(c.todo) \notin {"swapIntent", "aside", "visible"} => r.root = r.swap.old
  /\ Head(c.todo) = "visible" => r.candidate = r.swap.new /\ r.backup = r.swap.old

Firsting(c, r, a) ==
  /\ c.todo \in FirstTodos /\ Owns(c, a) /\ c.at = "finish"
  /\ r.root = Empty /\ r.swap = None
  /\ Head(c.todo) \notin {"save", "firstIntent"} => r.first # None /\ r.first.plan = c.plan
  /\ Head(c.todo) \in {"firstPrepared", "published"} =>
       r.staging = Product(c.plan, None, c.parent)

Finishing(c, r, a) ==
  /\ Owns(c, a) /\ c.at \in {"parent", "done"}
  /\ r.swap = None /\ r.first # None /\ r.root.dash = r.first.plan
  /\ c.todo \in Unnamed \/ (c.todo \in Named /\ Whole(r.root))

Restoring(c, r, a) ==
  /\ c.todo \in RestoreTodos /\ c.lock /\ c.target = c.gen
  /\ r.first # None /\ Fine(r.root)
  /\ \/ c.run /\ c.at = "done"
     \/ ~c.run /\ c.at = "inspect" /\ ~c.swapping /\ (c.gen = a => r.swap = None)

Settling(c, r, a) ==
  /\ c.todo \in SettleTodos /\ c.run
  /\ c.target < a \/ Owns(c, a)
  /\ IF Head(c.todo) = "restore" THEN Whole(r.backup) ELSE Whole(r.root)
  /\ \/ c.at \in {"enter", "again", "done", "parent"}
     \/ Owns(c, a) /\ c.at \in {"first", "inspect"}
  /\ c.at = "inspect" =>
       \/ c.todo = <<"dropCandidate">> /\ c.swapping /\ r.swap # None /\ r.root = r.swap.new
       \/ c.todo = <<"restore">> \o <<"refuse">>
  /\ c.at = "first" =>
       \/ r.swap = None
       \/ c.todo \in Dropping \cup {<<"restore">> \o t : t \in Dropping}

\* p is between two lists.
Resting(c, r, a) ==
  /\ c.run => c.at \in {"finish", "parent"}
  /\ c.at = "parent" => c.run
  /\ c.at = "finish" =>
       /\ Owns(c, a)
       /\ \/ r.first # None /\ r.root.dash = r.first.plan /\ r.swap = None
          \/ r.first = None /\ r.swap # None /\ r.root = r.swap.new
  /\ c.gen = a =>
       /\ c.at = "first" => r.swap = None
       /\ c.at = "inspect" =>
            IF c.swapping THEN r.swap # None /\ r.root = r.swap.new
            ELSE r.swap = None /\ (r.first # None => r.root.dash = r.first.plan)
       /\ c.at = "publish" =>
            /\ r.swap = None
            /\ r.root = Empty \/ (Whole(r.root) /\ r.first = None /\ r.root.dash <= c.plan)

InCall(c, r, a) ==
  /\ c.gen <= a /\ c.target <= c.gen
  /\ c.at \in {"recover", "first", "inspect", "publish", "finish", "parent"} =>
       c.lock /\ c.target = c.gen
  /\ c.at = "first" => ~c.swapping
  /\ \/ c.todo = <<>> /\ Resting(c, r, a)
     \/ c.todo = <<"refuse">>
     \/ Swapping(c, r, a) \/ Firsting(c, r, a) \/ Finishing(c, r, a)
     \/ Restoring(c, r, a) \/ Settling(c, r, a)

CallOK(c) ==
  /\ InCall(c, disk.gen[c.target], disk.active)
  /\ c.at \in {"first", "inspect", "publish", "finish"} => Parent(c.gen, c.parent)

Excluded ==
  \A p, q \in Procs : call[p] # None /\ call[q] # None /\ p # q =>
    /\ ~(call[p].run /\ call[q].run)
    /\ ~(call[p].lock /\ call[q].lock /\ call[p].gen = call[q].gen)

IInv ==
  /\ TypeOK
  /\ \A g \in Gens : Good(disk.gen[g]) /\ Stands(g)
  /\ \A g \in Gens : g > disk.active => disk.gen[g] = Blank
  /\ \A p \in Procs : call[p] # None => CallOK(call[p])
  /\ Excluded

-----------------------------------------------------------------------------
(* The lists. *)

\* The head and the tail of a list that is put together.
LEMMA Cons ==
  ASSUME NEW S, NEW s \in Seq(S), NEW x \in S
  PROVE  /\ <<x>> \o s \in Seq(S) /\ <<x>> \o s # <<>>
         /\ Head(<<x>> \o s) = x /\ Tail(<<x>> \o s) = s
<1> DEFINE l == <<x>> \o s
<1>1. <<x>> \in Seq(S) /\ Len(<<x>>) = 1 /\ <<x>>[1] = x
  OBVIOUS
<1>2. /\ l \in Seq(S) /\ Len(l) = Len(s) + 1 /\ l[1] = x
      /\ \A i \in 1 .. Len(s) : l[i + 1] = s[i]
  BY <1>1, ConcatProperties
<1> HIDE DEF l
<1>3. Head(l) = x /\ l # <<>>
  BY <1>2
<1>4. Tail(l) = s
  BY <1>2
<1> QED  BY <1>2, <1>3, <1>4 DEF l

LEMMA Pop ==
  ASSUME NEW S, NEW t \in Seq(S), t # <<>>
  PROVE  /\ Tail(t) \in Seq(S) /\ Head(t) \in S
         /\ Len(t) = 1 <=> Tail(t) = <<>>
         /\ Len(t) > 1 <=> Tail(t) # <<>>
<1>1. Len(t) \in Nat /\ Len(t) > 0 /\ Len(Tail(t)) = Len(t) - 1 /\ Tail(t) \in Seq(S)
  OBVIOUS
<1>2. Len(t) = 1 <=> Len(Tail(t)) = 0
  BY <1>1
<1>3. Len(Tail(t)) = 0 <=> Tail(t) = <<>>
  BY <1>1, EmptySeq
<1>4. Head(t) \in S
  BY <1>1
<1> QED  BY <1>1, <1>2, <1>3, <1>4

\* The orders of the writes that replace a product, and of those of a first one.
LEMMA SwapOrder ==
  ASSUME NEW t \in SwapTodos
  PROVE  /\ t \in Seq(Writes) /\ t # <<>>
         /\ \/ Head(t) = "visible" /\ Tail(t) = <<>>
            \/ /\ Tail(t) \in SwapTodos
               /\ <<Head(t), Head(Tail(t))>> \in
                    {<<"swapIntent", "copyStarted">>, <<"copyStarted", "copied">>,
                     <<"copied", "swapPrepared">>, <<"swapPrepared", "manifestTemp">>,
                     <<"manifestTemp", "manifestIn">>, <<"manifestIn", "aside">>,
                     <<"aside", "visible">>}
<1>1. CASE t = Replace
  BY <1>1 DEF SwapTodos, Replace, Writes
<1>2. CASE t = <<"copyStarted", "copied", "swapPrepared", "manifestTemp", "manifestIn",
                 "aside", "visible">>
  BY <1>2 DEF SwapTodos, Writes
<1>3. CASE t = <<"copied", "swapPrepared", "manifestTemp", "manifestIn", "aside", "visible">>
  BY <1>3 DEF SwapTodos, Writes
<1>4. CASE t = <<"swapPrepared", "manifestTemp", "manifestIn", "aside", "visible">>
  BY <1>4 DEF SwapTodos, Writes
<1>5. CASE t = <<"manifestTemp", "manifestIn", "aside", "visible">>
  BY <1>5 DEF SwapTodos, Writes
<1>6. CASE t = <<"manifestIn", "aside", "visible">>
  BY <1>6 DEF SwapTodos, Writes, Publish
<1>7. CASE t = Publish
  BY <1>7 DEF SwapTodos, Writes, Publish
<1>8. CASE t = <<"visible">>
  BY <1>8 DEF SwapTodos, Writes
<1> QED  BY <1>1, <1>2, <1>3, <1>4, <1>5, <1>6, <1>7, <1>8 DEF SwapTodos

LEMMA FirstOrder ==
  ASSUME NEW t \in FirstTodos
  PROVE  /\ t \in Seq(Writes) /\ t # <<>>
         /\ \/ Head(t) = "published" /\ Tail(t) = <<>>
            \/ /\ Tail(t) \in FirstTodos
               /\ <<Head(t), Head(Tail(t))>> \in
                    {<<"save", "firstIntent">>, <<"firstIntent", "stageStarted">>,
                     <<"stageStarted", "staged">>, <<"staged", "firstPrepared">>,
                     <<"firstPrepared", "published">>}
<1>1. CASE t = FirstStage
  BY <1>1 DEF FirstTodos, FirstStage, Writes
<1>2. CASE t = <<"firstIntent", "stageStarted", "staged", "firstPrepared", "published">>
  BY <1>2 DEF FirstTodos, Writes
<1>3. CASE t = <<"stageStarted", "staged", "firstPrepared", "published">>
  BY <1>3 DEF FirstTodos, Writes
<1>4. CASE t = <<"staged", "firstPrepared", "published">>
  BY <1>4 DEF FirstTodos, Writes
<1>5. CASE t = <<"firstPrepared", "published">>
  BY <1>5 DEF FirstTodos, Writes
<1>6. CASE t = <<"published">>
  BY <1>6 DEF FirstTodos, Writes
<1> QED  BY <1>1, <1>2, <1>3, <1>4, <1>5, <1>6 DEF FirstTodos

\* The commit of a first publication, with its manifest and after it.
LEMMA FinishOrder ==
  /\ \A t \in Unnamed :
       /\ t \in Seq(Writes) /\ t # <<>>
       /\ \/ Head(t) \in {"complete", "firstState", "firstManifest"} /\ Tail(t) \in Unnamed
          \/ Head(t) = "manifest" /\ Tail(t) \in Named
  /\ \A t \in Named :
       /\ t \in Seq(Writes) /\ t # <<>>
       /\ \/ Head(t) \in {"complete", "firstState", "dropSaved"} /\ Tail(t) \in Named
          \/ Head(t) = "dropFirst" /\ Tail(t) = <<>>
<1>1. ASSUME NEW t, t \in {Commit, <<"manifest", "dropSaved", "dropFirst">>, Bound,
                           <<"dropFirst">>}
      PROVE  /\ t \in Seq(Writes) /\ t # <<>>
             /\ t = Commit => /\ Head(t) = "firstManifest"
                              /\ Tail(t) = <<"manifest", "dropSaved", "dropFirst">>
             /\ t = <<"manifest", "dropSaved", "dropFirst">> =>
                  Head(t) = "manifest" /\ Tail(t) = Bound
             /\ t = Bound => Head(t) = "dropSaved" /\ Tail(t) = <<"dropFirst">>
             /\ t = <<"dropFirst">> => Head(t) = "dropFirst" /\ Tail(t) = <<>>
  <2>1. CASE t = Commit
    BY <2>1 DEF Commit, Bound, Writes
  <2>2. CASE t = <<"manifest", "dropSaved", "dropFirst">>
    BY <2>2 DEF Commit, Bound, Writes
  <2>3. CASE t = Bound
    BY <2>3 DEF Commit, Bound, Writes
  <2>4. CASE t = <<"dropFirst">>
    BY <2>4 DEF Commit, Bound, Writes
  <2> QED  BY <1>1, <2>1, <2>2, <2>3, <2>4
<1>2. "firstState" \in Writes /\ "complete" \in Writes
  BY DEF Writes
<1>3. \A t \in {Commit, Bound} :
        LET s == <<"firstState">> \o t
            u == <<"complete">> \o s
        IN  /\ s \in Seq(Writes) /\ s # <<>> /\ Head(s) = "firstState" /\ Tail(s) = t
            /\ u \in Seq(Writes) /\ u # <<>> /\ Head(u) = "complete" /\ Tail(u) = s
  BY <1>1, <1>2, Cons
<1>4. ASSUME NEW t \in Unnamed
      PROVE  /\ t \in Seq(Writes) /\ t # <<>>
             /\ \/ Head(t) \in {"complete", "firstState", "firstManifest"}
                  /\ Tail(t) \in Unnamed
                \/ Head(t) = "manifest" /\ Tail(t) \in Named
  BY <1>1, <1>3 DEF Unnamed, Named
<1>5. ASSUME NEW t \in Named
      PROVE  /\ t \in Seq(Writes) /\ t # <<>>
             /\ \/ Head(t) \in {"complete", "firstState", "dropSaved"} /\ Tail(t) \in Named
                \/ Head(t) = "dropFirst" /\ Tail(t) = <<>>
  BY <1>1, <1>3 DEF Named
<1> QED  BY <1>4, <1>5

\* The undoing of a first publication.
LEMMA RestoreOrder ==
  ASSUME NEW t \in RestoreTodos
  PROVE  /\ t \in Seq(Writes) /\ t # <<>>
         /\ \/ /\ Head(t) \in {"dropStaging", "oldState", "dropSaved"}
               /\ Tail(t) \in RestoreTodos \cup {<<"refuse">>}
            \/ Head(t) = "dropFirst" /\ Tail(t) \in {<<>>, <<"refuse">>}
<1>1. ASSUME NEW u \in Undoing
      PROVE  /\ u \in Seq(Writes) /\ u # <<>>
             /\ \/ Head(u) \in {"dropStaging", "oldState", "dropSaved"} /\ Tail(u) \in Undoing
                \/ Head(u) = "dropFirst" /\ Tail(u) \in {<<>>, <<"refuse">>}
  <2>1. CASE u = <<"oldState", "dropSaved", "dropFirst">>
    BY <2>1 DEF Undoing, Writes
  <2>2. CASE u = <<"dropSaved", "dropFirst">>
    BY <2>2 DEF Undoing, Writes
  <2>3. CASE u = <<"dropFirst">>
    BY <2>3 DEF Undoing, Writes
  <2>4. CASE u = <<"dropFirst", "refuse">>
    BY <2>4 DEF Undoing, Writes
  <2>5. CASE u = <<"dropStaging", "dropFirst", "refuse">>
    BY <2>5 DEF Undoing, Writes
  <2> QED  BY <2>1, <2>2, <2>3, <2>4, <2>5 DEF Undoing
<1>2. "dropStaging" \in Writes /\ <<"refuse">> \in Seq(Writes)
  BY DEF Writes
<1>3. CASE t \notin Undoing
  <2>1. PICK s \in {<<"oldState", "dropSaved", "dropFirst">>, <<"refuse">>} :
          t = <<"dropStaging">> \o s
    BY <1>3 DEF RestoreTodos
  <2>2. s \in Seq(Writes) /\ s \in RestoreTodos \cup {<<"refuse">>}
    BY <1>1, <1>2, <2>1 DEF Undoing, RestoreTodos
  <2> QED  BY <1>2, <2>1, <2>2, Cons
<1> QED  BY <1>1, <1>3 DEF RestoreTodos

\* The end of a swap.
LEMMA SettleOrder ==
  ASSUME NEW t \in SettleTodos
  PROVE  /\ t \in Seq(Writes) /\ t # <<>>
         /\ Head(t) \in {"complete", "restore", "dropCandidate", "dropBackup", "dropSwap"}
         /\ Tail(t) \in EndTodos \cup {<<>>, <<"refuse">>}
         /\ Tail(t) \in EndTodos => Head(Tail(t)) # "restore"
         /\ t \in Dropping \cup {<<"restore">> \o s : s \in Dropping} =>
              Tail(t) \in Dropping \/ Head(t) = "dropSwap"
         /\ t = <<"dropCandidate">> => Tail(t) = <<>>
         /\ t = <<"restore">> \o <<"refuse">> => Tail(t) = <<"refuse">>
         /\ t \in EndTodos => Head(t) \in {"dropCandidate", "dropBackup", "dropSwap"}
<1>1. ASSUME NEW u \in EndTodos
      PROVE  /\ u \in Seq(Writes) /\ u # <<>>
             /\ Head(u) \in {"dropCandidate", "dropBackup", "dropSwap"}
             /\ Tail(u) \in EndTodos \cup {<<>>, <<"refuse">>}
             /\ u \in Dropping => Tail(u) \in Dropping \/ Head(u) = "dropSwap"
             /\ u = <<"dropCandidate">> => Tail(u) = <<>>
  <2>1. CASE u = <<"dropCandidate", "dropSwap", "dropBackup">>
    BY <2>1 DEF EndTodos, Dropping, Writes
  <2>2. CASE u = <<"dropSwap", "dropBackup">>
    BY <2>2 DEF EndTodos, Dropping, Writes
  <2>3. CASE u = <<"dropCandidate", "dropBackup", "dropSwap">>
    BY <2>3 DEF EndTodos, Dropping, Writes
  <2>4. CASE u = <<"dropBackup", "dropSwap">>
    BY <2>4 DEF EndTodos, Dropping, Writes
  <2>5. CASE u = <<"dropCandidate", "dropSwap">>
    BY <2>5 DEF EndTodos, Dropping, Writes
  <2>6. CASE u = <<"dropSwap">>
    BY <2>6 DEF EndTodos, Dropping, Writes
  <2>7. CASE u = <<"dropBackup">>
    BY <2>7 DEF EndTodos, Dropping, Writes
  <2>8. CASE u = <<"dropCandidate">>
    BY <2>8 DEF EndTodos, Dropping, Writes
  <2>9. CASE u = <<"dropCandidate", "refuse">>
    BY <2>9 DEF EndTodos, Dropping, Writes
  <2>10. CASE u = <<"dropCandidate", "dropSwap", "refuse">>
    BY <2>10 DEF EndTodos, Dropping, Writes
  <2>11. CASE u = <<"dropSwap", "refuse">>
    BY <2>11 DEF EndTodos, Dropping, Writes
  <2> QED  BY <2>1, <2>2, <2>3, <2>4, <2>5, <2>6, <2>7, <2>8, <2>9, <2>10, <2>11 DEF EndTodos, Dropping
<1>2. /\ "complete" \in Writes /\ "restore" \in Writes /\ <<"refuse">> \in Seq(Writes)
      /\ <<"refuse">> # <<>>
  BY DEF Writes
<1>3. ASSUME NEW s \in Dropping \cup {<<"refuse">>}, t = <<"restore">> \o s
      PROVE  t \in Seq(Writes) /\ t # <<>> /\ Head(t) = "restore" /\ Tail(t) = s
  BY <1>1, <1>2, <1>3, Cons DEF EndTodos
<1>4. ASSUME NEW s \in {<<"dropCandidate", "dropBackup", "dropSwap">>, <<"refuse">>},
             t = <<"complete">> \o s
      PROVE  t \in Seq(Writes) /\ t # <<>> /\ Head(t) = "complete" /\ Tail(t) = s
  <2>1. s \in Seq(Writes)
    BY <1>1, <1>2, <1>4 DEF EndTodos, Dropping
  <2> QED  BY <1>2, <1>4, <2>1, Cons
<1>5. CASE t \in EndTodos
  <2>1. \A s \in Dropping : t # <<"restore">> \o s
    BY <1>1, <1>2, <1>5, Cons DEF EndTodos
  <2>2. t # <<"restore">> \o <<"refuse">>
    BY <1>1, <1>2, <1>5, Cons
  <2> QED  BY <1>1, <1>5, <2>1, <2>2
<1>6. CASE \E s \in Dropping \cup {<<"refuse">>} : t = <<"restore">> \o s
  <2>1. PICK s \in Dropping \cup {<<"refuse">>} : t = <<"restore">> \o s
    BY <1>6
  <2>2. t \in Seq(Writes) /\ t # <<>> /\ Head(t) = "restore" /\ Tail(t) = s
    BY <1>3, <2>1
  <2>3. t \notin EndTodos
    BY <1>1, <2>2
  <2>4. \A u \in Dropping \cup {<<"refuse">>} : t = <<"restore">> \o u => Tail(t) = u
    BY <1>3
  <2>5. t # <<"dropCandidate">>
    BY <2>2
  <2> QED  BY <1>1, <2>1, <2>2, <2>3, <2>4, <2>5 DEF EndTodos
<1>7. CASE \E s \in {<<"dropCandidate", "dropBackup", "dropSwap">>, <<"refuse">>} :
             t = <<"complete">> \o s
  <2>1. PICK s \in {<<"dropCandidate", "dropBackup", "dropSwap">>, <<"refuse">>} :
          t = <<"complete">> \o s
    BY <1>7
  <2>2. t \in Seq(Writes) /\ t # <<>> /\ Head(t) = "complete" /\ Tail(t) = s
    BY <1>4, <2>1
  <2>3. t \notin EndTodos /\ \A u \in Dropping \cup {<<"refuse">>} : t # <<"restore">> \o u
    BY <1>1, <1>3, <2>2
  <2>4. t # <<"dropCandidate">>
    BY <2>2
  <2>5. s \in EndTodos \cup {<<"refuse">>}
    BY <2>1 DEF EndTodos, Dropping
  <2>6. t \notin Dropping
    BY <2>3 DEF EndTodos
  <2>7. s \in EndTodos => Head(s) # "restore"
    BY <1>1
  <2> QED  BY <2>2, <2>3, <2>4, <2>5, <2>6, <2>7
<1> QED  BY <1>5, <1>6, <1>7 DEF SettleTodos

-----------------------------------------------------------------------------
(* One write, seen from the generation r it is for and from the call c. *)

After(c) ==
  [c EXCEPT !.todo = Tail(c.todo),
            !.run = c.run /\ (Len(c.todo) > 1 \/ c.at \in {"finish", "parent"})]

\* A product makes way for a later one only.
Kept(r, s) ==
  /\ Whole(r.root) => s.root = r.root \/ (s.root = Gone /\ s.backup = r.root)
  /\ Whole(r.backup) /\ ~Whole(r.root) =>
       \/ s.backup = r.backup /\ (Whole(s.root) => s.root.dash > r.backup.dash)
       \/ s.root = r.backup

LEMMA AfterIsCall ==
  ASSUME NEW c \in Calls, c.todo # <<>>
  PROVE  /\ After(c) \in Calls /\ After(c).todo = Tail(c.todo)
         /\ Tail(c.todo) # <<>> => After(c).run = c.run
         /\ Tail(c.todo) = <<>> => After(c).run = (c.run /\ c.at \in {"finish", "parent"})
         /\ After(c).gen = c.gen /\ After(c).plan = c.plan /\ After(c).parent = c.parent
         /\ After(c).lock = c.lock /\ After(c).target = c.target /\ After(c).at = c.at
         /\ After(c).swapping = c.swapping
<1>1. c.todo \in Seq(Writes) /\ c.run \in BOOLEAN  BY DEF Calls
<1>2. /\ Tail(c.todo) \in Seq(Writes)
      /\ Len(c.todo) > 1 <=> Tail(c.todo) # <<>>
  BY <1>1, Pop
<1> DEFINE run == c.run /\ (Len(c.todo) > 1 \/ c.at \in {"finish", "parent"})
<1>3. /\ run \in BOOLEAN
      /\ Tail(c.todo) # <<>> => run = c.run
      /\ Tail(c.todo) = <<>> => run = (c.run /\ c.at \in {"finish", "parent"})
  BY <1>1, <1>2
<1>4. After(c) = [c EXCEPT !.todo = Tail(c.todo), !.run = run]
  BY DEF After
<1> HIDE DEF run
<1> QED  BY <1>2, <1>3, <1>4 DEF Calls

\* Shapes of the trees that have a name.
LEMMA Shapes ==
  /\ Gone \in Trees /\ Empty \in Trees /\ Part \in Trees /\ Gone # Empty
  /\ Gone.dash = None /\ Empty.dash = None /\ Gone.manifest = None /\ Empty.manifest = None
  /\ Gone.kind = "gone" /\ Empty.kind = "product"
  /\ Part.dash = None /\ Part.kind = "part"
  /\ ~Whole(Gone) /\ ~Whole(Empty) /\ ~Whole(Part)
  /\ \A n \in Plans : n # None
  /\ Plans \subseteq Nat
BY DeltaAssumption DEF Gone, Empty, Part, Dir, Trees, Whole, Plans

LEMMA SettleWrite ==
  ASSUME NEW r \in Generations, NEW c \in Calls, NEW a \in Gens, disk.clock \in Nat, Good(r),
         InCall(c, r, a), Settling(c, r, a), Possible(Head(c.todo), r),
         NEW s, s = Effect(Head(c.todo), r, c)
  PROVE  /\ s \in Generations /\ Good(s) /\ Kept(r, s)
         /\ \A m : Extends(s, m) => Extends(r, m)
         /\ s.first = r.first /\ (Fine(r.root) => Fine(s.root))
         /\ Whole(r.root) => s.root = r.root
         /\ InCall(After(c), s, a)
<1> DEFINE t == c.todo  w == Head(t)  n == After(c)
<1>1. /\ t \in SettleTodos /\ t \in Seq(Writes) /\ t # <<>>
      /\ w \in {"complete", "restore", "dropCandidate", "dropBackup", "dropSwap"}
  BY SettleOrder DEF Settling
<1>2. IF w = "restore" THEN Whole(r.backup) ELSE Whole(r.root)
  BY DEF Settling
<1>3. /\ s \in Generations /\ Good(s) /\ Kept(r, s) /\ s.first = r.first /\ Whole(s.root)
      /\ \A m : Extends(s, m) => Extends(r, m)
      /\ Whole(r.root) => s.root = r.root
      /\ s.root # r.root => w = "restore"
      /\ s.swap = IF w = "dropSwap" THEN None ELSE r.swap
  <2>1. CASE w = "complete"
    <3>1. PICK st \in States : s = [r EXCEPT !.state = st]
      <4>1. r.state \in States /\ r = [r EXCEPT !.state = r.state]
        BY DEF Generations
      <4>2. [status |-> "complete", resume |-> None, stamp |-> disk.clock + 1] \in States
        BY DEF States
      <4> QED  BY <2>1, <4>1, <4>2 DEF Effect, Stamped
    <3> QED  BY <1>2, <2>1, <3>1, Shapes DEF Generations, Good, Kept, Extends, Whole
  <2>2. CASE w = "restore"
    <3>1. r.root = Gone /\ s = [r EXCEPT !.root = r.backup, !.backup = Gone]
      BY <2>2 DEF Possible, Effect
    <3> QED  BY <1>2, <2>2, <3>1, Shapes DEF Generations, Good, Kept, Extends, Whole, Shown, Fine
  <2>3. CASE w = "dropCandidate"
    BY <1>1, <1>2, <2>3, Shapes DEF Effect, Generations, Good, Kept, Extends, Whole
  <2>4. CASE w = "dropBackup"
    BY <1>1, <1>2, <2>4, Shapes DEF Effect, Generations, Good, Kept, Extends, Whole
  <2>5. CASE w = "dropSwap"
    BY <1>1, <1>2, <2>5, Shapes DEF Effect, Generations, Good, Kept, Extends, Whole
  <2> QED  BY <1>1, <2>1, <2>2, <2>3, <2>4, <2>5
<1>4. InCall(n, s, a)
  <2>1. /\ n \in Calls /\ n.todo = Tail(t)
        /\ Tail(t) # <<>> => n.run = c.run
        /\ Tail(t) = <<>> => n.run = (c.run /\ c.at \in {"finish", "parent"})
        /\ n.gen = c.gen /\ n.plan = c.plan /\ n.lock = c.lock /\ n.target = c.target
        /\ n.at = c.at /\ n.swapping = c.swapping
    BY <1>1, AfterIsCall
  <2>2. Tail(t) \in EndTodos \cup {<<>>, <<"refuse">>}
    BY <1>1, SettleOrder
  <2>3. /\ n.gen <= a /\ n.target <= n.gen
        /\ n.at \in {"recover", "first", "inspect", "publish", "finish", "parent"} =>
             n.lock /\ n.target = n.gen
        /\ n.at = "first" => ~n.swapping
    BY <2>1 DEF InCall
  <2>0. /\ <<>> \notin EndTodos /\ <<>> \notin Dropping /\ Dropping \subseteq EndTodos
        /\ <<"refuse">> # <<>> /\ Head(<<"dropCandidate">>) = "dropCandidate"
        /\ <<"refuse">> \notin EndTodos
    <3>1. Head(<<"refuse">>) = "refuse" /\ EndTodos \subseteq SettleTodos
      BY DEF SettleTodos
    <3>2. \A u \in EndTodos : Head(u) # "refuse" /\ u # <<>>
      BY <3>1, SettleOrder
    <3> QED  BY <3>1, <3>2 DEF EndTodos
  <2>4. CASE Tail(t) = <<>>
    <3>1. c.at = "first" => s.swap = None
      BY <1>1, <1>3, <2>0, <2>4, SettleOrder DEF Settling
    <3>2. c.at = "inspect" => c.swapping /\ s.swap # None /\ s.root = s.swap.new
      <4>1. c.at = "inspect" => t # <<"restore">> \o <<"refuse">>
        BY <1>1, <2>0, <2>4, SettleOrder
      <4> QED  BY <1>3, <2>0, <4>1 DEF Settling
    <3>3. c.at \in {"first", "inspect", "enter", "again", "done", "parent"} /\ c.run
      BY DEF Settling
    <3>4. Resting(n, s, a)
      BY <2>1, <2>4, <3>1, <3>2, <3>3 DEF Resting
    <3> QED  BY <2>1, <2>3, <2>4, <3>4 DEF InCall
  <2>5. CASE Tail(t) = <<"refuse">>
    BY <2>1, <2>3, <2>5 DEF InCall
  <2>6. CASE Tail(t) \in EndTodos
    <3>1. n.todo \in SettleTodos /\ n.run /\ Head(n.todo) # "restore" /\ Tail(t) # <<>>
      BY <1>1, <2>1, <2>6, SettleOrder DEF SettleTodos, Settling
    <3>2. c.at # "inspect"
      <4>1. t # <<"dropCandidate">>
        BY <1>1, <2>0, <2>6, SettleOrder
      <4>2. t # <<"restore">> \o <<"refuse">>
        BY <1>1, <2>0, <2>6, SettleOrder
      <4> QED  BY <4>1, <4>2 DEF Settling
    <3>3. c.at = "first" => \/ s.swap = None
                            \/ n.todo \in Dropping
      BY <1>1, <1>3, <2>1, SettleOrder DEF Settling
    <3>4. /\ c.target < a \/ Owns(n, a)
          /\ \/ c.at \in {"enter", "again", "done", "parent"}
             \/ Owns(n, a) /\ c.at \in {"first", "inspect"}
      BY <2>1, <3>1 DEF Settling, Owns
    <3>5. Settling(n, s, a)
      BY <1>3, <2>1, <3>1, <3>2, <3>3, <3>4 DEF Settling
    <3> QED  BY <2>3, <3>5 DEF InCall
  <2> QED  BY <2>2, <2>4, <2>5, <2>6
<1> QED  BY <1>3, <1>4 DEF Fine

LEMMA SwapWrite ==
  ASSUME NEW r \in Generations, NEW c \in Calls, NEW a \in Gens, Good(r),
         InCall(c, r, a), Swapping(c, r, a), Possible(Head(c.todo), r),
         NEW s, s = Effect(Head(c.todo), r, c)
  PROVE  /\ s \in Generations /\ Good(s) /\ Kept(r, s)
         /\ \A m : Extends(s, m) => Extends(r, m) \/ m = c.parent
         /\ InCall(After(c), s, a)
<1> DEFINE t == c.todo  w == Head(t)  n == After(c)
           new == Product(c.plan, c.plan, c.parent)
<1>1. /\ t \in SwapTodos /\ t \in Seq(Writes) /\ t # <<>>
      /\ w = "swapIntent" => r.swap = None /\ Whole(r.root) /\ r.root.dash < c.plan
      /\ w # "swapIntent" => r.swap # None
      /\ w \notin {"swapIntent", "aside", "visible"} => r.root = r.swap.old
      /\ w = "visible" => r.candidate = r.swap.new /\ r.backup = r.swap.old
  BY SwapOrder DEF Swapping
<1>2. w \in {"swapIntent", "copyStarted", "copied", "swapPrepared", "manifestTemp",
             "manifestIn", "aside", "visible"}
  BY <1>1, SwapOrder
<1>3. r.swap # None => r.swap \in Swaps /\ r.swap.new \in Trees /\ r.swap.old \in Trees
  BY DEF Generations, Swaps
<1>4. new \in Trees /\ Whole(new) /\ new.dash = c.plan /\ new.parent = c.parent
  BY Shapes DEF Product, Trees, Whole, Calls
<1>5. /\ s \in Generations /\ Good(s) /\ Kept(r, s) /\ s.first = r.first /\ s.swap # None
      /\ \A m : Extends(s, m) => Extends(r, m) \/ m = c.parent
      /\ w \in {"swapIntent", "copyStarted", "copied", "swapPrepared", "manifestTemp"} =>
           s.root = s.swap.old
      /\ w = "aside" => s.candidate = s.swap.new /\ s.backup = s.swap.old
      /\ w = "visible" => s.root = s.swap.new
  <2>1. CASE w = "swapIntent"
    <3>1. s = [r EXCEPT !.swap = [phase |-> "preparing", old |-> r.root, new |-> new]]
      BY <2>1 DEF Effect
    <3>2. [phase |-> "preparing", old |-> r.root, new |-> new] \in Swaps /\ r.root \in Trees
      BY <1>4 DEF Generations, Swaps, Phases
    <3> HIDE DEF new
    <3>3. /\ s \in Generations /\ s.root = r.root /\ s.backup = r.backup /\ s.first = r.first
          /\ s.swap # None /\ s.swap.old = r.root /\ s.swap.new = new
      BY <3>1, <3>2, NoneIsNoRecord DEF Generations
    <3> QED  BY <1>1, <1>4, <2>1, <3>3, Shapes DEF Good, Kept, Extends, Whole
  <2>2. CASE w = "copyStarted"
    BY <1>1, <1>3, <2>2, Shapes DEF Effect, Generations, Good, Kept, Extends
  <2>3. CASE w = "copied"
    <3>1. s = [r EXCEPT !.candidate = Product(c.plan, r.root.manifest, c.parent)]
      BY <2>3 DEF Effect
    <3>2. Product(c.plan, r.root.manifest, c.parent) \in Trees
      BY DEF Product, Trees, Calls, Generations
    <3> QED  BY <1>1, <1>3, <2>3, <3>1, <3>2, Shapes DEF Generations, Good, Kept, Extends
  <2>4. CASE w = "swapPrepared"
    <3>1. s = [r EXCEPT !.swap = [r.swap EXCEPT !.phase = "prepared"]]
      BY <2>4 DEF Effect
    <3>2. /\ [r.swap EXCEPT !.phase = "prepared"] \in Swaps
          /\ [r.swap EXCEPT !.phase = "prepared"].old = r.swap.old
          /\ [r.swap EXCEPT !.phase = "prepared"].new = r.swap.new
      BY <1>1, <1>3, <2>4 DEF Swaps, Phases
    <3>3. /\ s \in Generations /\ s.root = r.root /\ s.backup = r.backup /\ s.first = r.first
          /\ s.swap # None /\ s.swap.old = r.swap.old /\ s.swap.new = r.swap.new
      BY <3>1, <3>2, NoneIsNoRecord DEF Generations
    <3> QED  BY <1>1, <2>4, <3>3 DEF Good, Kept, Extends, Whole
  <2>5. CASE w = "manifestTemp"
    <3>1. s = [r EXCEPT !.candidate = [r.candidate EXCEPT !.kind = "torn"]]
      BY <2>5 DEF Effect
    <3>2. [r.candidate EXCEPT !.kind = "torn"] \in Trees
      BY DEF Trees, Generations
    <3> QED  BY <1>1, <1>3, <2>5, <3>1, <3>2, Shapes DEF Generations, Good, Kept, Extends
  <2>6. CASE w = "manifestIn"
    BY <1>1, <1>3, <2>6, Shapes DEF Effect, Generations, Good, Kept, Extends
  <2>7. CASE w = "aside"
    <3>1. /\ s = [r EXCEPT !.backup = r.root, !.root = Gone]
          /\ r.root = r.swap.old /\ r.candidate = r.swap.new
      BY <2>7 DEF Effect, Possible
    <3>2. /\ s \in Generations /\ s.root = Gone /\ s.backup = r.swap.old
          /\ s.swap = r.swap /\ s.first = r.first /\ s.candidate = r.swap.new
      BY <3>1, Shapes DEF Generations
    <3>3. Whole(r.root) /\ Whole(s.backup) /\ r.swap # None
      BY <1>1, <2>7, <3>1, <3>2 DEF Good
    <3> QED  BY <2>7, <3>1, <3>2, <3>3, Shapes DEF Good, Kept, Extends, Fine
  <2>8. CASE w = "visible"
    <3>1. s = [r EXCEPT !.root = r.candidate, !.candidate = Gone] /\ r.root = Gone
      BY <2>8 DEF Effect, Possible
    <3>2. /\ s \in Generations /\ s.root = r.swap.new /\ s.backup = r.swap.old
          /\ s.swap = r.swap /\ s.first = r.first
          /\ r.backup = r.swap.old /\ r.swap # None
      BY <1>1, <2>8, <3>1, Shapes DEF Generations
    <3>3. /\ Whole(s.root) /\ Whole(s.backup) /\ ~Whole(r.root)
          /\ s.root.dash > r.backup.dash
      BY <3>1, <3>2, Shapes DEF Good, Whole, Plans
    <3>4. Shown(s.root) /\ Fine(s.root)
      BY <3>3 DEF Whole, Shown, Fine
    <3> QED  BY <2>8, <3>1, <3>2, <3>3, <3>4 DEF Good, Kept, Extends
  <2> QED  BY <1>2, <2>1, <2>2, <2>3, <2>4, <2>5, <2>6, <2>7, <2>8
<1>6. InCall(n, s, a)
  <2>1. /\ n \in Calls /\ n.todo = Tail(t)
        /\ Tail(t) # <<>> => n.run = c.run
        /\ Tail(t) = <<>> => n.run = (c.run /\ c.at \in {"finish", "parent"})
        /\ n.gen = c.gen /\ n.plan = c.plan /\ n.lock = c.lock /\ n.target = c.target
        /\ n.at = c.at /\ n.swapping = c.swapping
    BY <1>1, AfterIsCall
  <2>2. /\ n.gen <= a /\ n.target <= n.gen
        /\ n.at \in {"recover", "first", "inspect", "publish", "finish", "parent"} =>
             n.lock /\ n.target = n.gen
        /\ n.at = "first" => ~n.swapping
    BY <2>1 DEF InCall
  <2>3. /\ Owns(c, a) /\ c.at \in {"finish", "inspect"}
        /\ (c.at = "finish" /\ s.first = None) \/ (c.at = "inspect" /\ c.swapping)
    BY <1>5 DEF Swapping
  <2>4. CASE Tail(t) = <<>>
    <3>1. w = "visible"
      BY <1>1, <2>4, SwapOrder
    <3>2. Resting(n, s, a)
      BY <1>5, <2>1, <2>3, <2>4, <3>1 DEF Resting, Owns
    <3> QED  BY <2>1, <2>2, <2>4, <3>2 DEF InCall
  <2>5. CASE Tail(t) # <<>>
    <3>1. /\ Tail(t) \in SwapTodos
          /\ <<w, Head(Tail(t))>> \in
               {<<"swapIntent", "copyStarted">>, <<"copyStarted", "copied">>,
                <<"copied", "swapPrepared">>, <<"swapPrepared", "manifestTemp">>,
                <<"manifestTemp", "manifestIn">>, <<"manifestIn", "aside">>,
                <<"aside", "visible">>}
      BY <1>1, <2>5, SwapOrder
    <3>2. Owns(n, a)
      BY <2>1, <2>3, <2>5 DEF Owns
    <3>3. Swapping(n, s, a)
      BY <1>5, <2>1, <2>3, <3>1, <3>2 DEF Swapping
    <3> QED  BY <2>2, <3>3 DEF InCall
  <2> QED  BY <2>4, <2>5
<1> QED  BY <1>5, <1>6

LEMMA FirstWrite ==
  ASSUME NEW r \in Generations, NEW c \in Calls, NEW a \in Gens, Good(r),
         InCall(c, r, a), Firsting(c, r, a), Possible(Head(c.todo), r),
         NEW s, s = Effect(Head(c.todo), r, c)
  PROVE  /\ s \in Generations /\ Good(s) /\ Kept(r, s)
         /\ \A m : Extends(s, m) => Extends(r, m) \/ m = c.parent
         /\ InCall(After(c), s, a)
<1> DEFINE t == c.todo  w == Head(t)  n == After(c)
           new == Product(c.plan, None, c.parent)
<1>1. /\ t \in FirstTodos /\ t \in Seq(Writes) /\ t # <<>>
      /\ r.root = Empty /\ r.swap = None
      /\ w \notin {"save", "firstIntent"} => r.first # None /\ r.first.plan = c.plan
      /\ w \in {"firstPrepared", "published"} => r.staging = new
  BY FirstOrder DEF Firsting
<1>2. w \in {"save", "firstIntent", "stageStarted", "staged", "firstPrepared", "published"}
  BY <1>1, FirstOrder
<1>3. r.first # None => r.first \in Firsts /\ r.first.plan \in Plans
  BY DEF Generations, Firsts
<1>4. /\ new \in Trees /\ Shown(new) /\ new.dash = c.plan /\ new.parent = c.parent
      /\ ~Whole(new) /\ new # Empty
  BY Shapes DEF Product, Trees, Whole, Calls, Shown
<1>5. ~Whole(r.root) /\ ~Whole(r.backup) /\ r.backup \in {Gone, Part}
  BY <1>1, Shapes DEF Good
<1>6. /\ s \in Generations /\ Good(s) /\ Kept(r, s) /\ s.swap = None
      /\ \A m : Extends(s, m) => Extends(r, m) \/ m = c.parent
      /\ w # "published" => s.root = Empty
      /\ w # "save" => s.first # None /\ s.first.plan = c.plan
      /\ w \in {"staged", "firstPrepared"} => s.staging = new
      /\ w = "published" => s.root.dash = s.first.plan
  <2>1. CASE w = "save"
    BY <1>1, <1>3, <1>5, <2>1, Shapes DEF Effect, Generations, Good, Kept, Extends
  <2>2. CASE w = "firstIntent"
    <3> DEFINE i == [phase |-> "preparing", plan |-> c.plan, old |-> r.state,
                     new |-> None, manifest |-> None]
    <3>1. s = [r EXCEPT !.first = i]
      BY <2>2 DEF Effect
    <3>2. i \in Firsts /\ i.plan = c.plan /\ i.manifest = None /\ i # None
      BY NoneIsNoRecord DEF Generations, Firsts, Phases, Calls
    <3> HIDE DEF i
    <3> QED  BY <1>1, <1>5, <2>2, <3>1, <3>2, Shapes DEF Generations, Good, Kept, Extends, Fine
  <2>3. CASE w = "stageStarted"
    BY <1>1, <1>3, <1>5, <2>3, Shapes DEF Effect, Generations, Good, Kept, Extends
  <2>4. CASE w = "staged"
    <3>1. s = [r EXCEPT !.staging = new]
      BY <2>4 DEF Effect
    <3> HIDE DEF new
    <3> QED  BY <1>1, <1>3, <1>4, <1>5, <2>4, <3>1, Shapes
             DEF Generations, Good, Kept, Extends
  <2>5. CASE w = "firstPrepared"
    <3>1. s = [r EXCEPT !.first = [r.first EXCEPT !.phase = "prepared"]]
      BY <2>5 DEF Effect
    <3>2. /\ [r.first EXCEPT !.phase = "prepared"] \in Firsts
          /\ [r.first EXCEPT !.phase = "prepared"].plan = r.first.plan
          /\ [r.first EXCEPT !.phase = "prepared"].manifest = r.first.manifest
      BY <1>1, <1>3, <2>5 DEF Firsts, Phases
    <3>3. /\ s \in Generations /\ s.root = r.root /\ s.backup = r.backup /\ s.swap = r.swap
          /\ s.staging = r.staging
          /\ s.first # None /\ s.first.plan = r.first.plan /\ s.first.manifest = r.first.manifest
      BY <3>1, <3>2, NoneIsNoRecord DEF Generations
    <3> HIDE DEF new
    <3> QED  BY <1>1, <1>5, <2>5, <3>3, Shapes DEF Good, Kept, Extends, Fine
  <2>6. CASE w = "published"
    <3>1. s = [r EXCEPT !.root = new, !.staging = Gone]
      BY <1>1, <2>6 DEF Effect
    <3> HIDE DEF new
    <3>2. /\ s \in Generations /\ s.root = new /\ s.backup = r.backup
          /\ s.swap = None /\ s.first = r.first /\ s.first # None /\ s.first.plan = c.plan
      BY <1>1, <1>4, <2>6, <3>1, Shapes DEF Generations
    <3>3. Good(s)
      BY <1>4, <1>5, <3>2, Shapes DEF Good
    <3>4. Kept(r, s)
      BY <1>4, <1>5, <3>2 DEF Kept
    <3> QED  BY <1>4, <2>6, <3>2, <3>3, <3>4 DEF Extends
  <2> QED  BY <1>2, <2>1, <2>2, <2>3, <2>4, <2>5, <2>6
<1>7. InCall(n, s, a)
  <2>1. /\ n \in Calls /\ n.todo = Tail(t)
        /\ Tail(t) # <<>> => n.run = c.run
        /\ Tail(t) = <<>> => n.run = (c.run /\ c.at \in {"finish", "parent"})
        /\ n.gen = c.gen /\ n.plan = c.plan /\ n.lock = c.lock /\ n.target = c.target
        /\ n.at = c.at /\ n.swapping = c.swapping /\ n.parent = c.parent
    BY <1>1, AfterIsCall
  <2>2. /\ n.gen <= a /\ n.target <= n.gen
        /\ n.at \in {"recover", "first", "inspect", "publish", "finish", "parent"} =>
             n.lock /\ n.target = n.gen
        /\ n.at = "first" => ~n.swapping
    BY <2>1 DEF InCall
  <2>3. Owns(c, a) /\ c.at = "finish"
    BY DEF Firsting
  <2>4. CASE Tail(t) = <<>>
    <3>1. w = "published"
      BY <1>1, <2>4, FirstOrder
    <3>2. Resting(n, s, a)
      BY <1>6, <2>1, <2>3, <2>4, <3>1 DEF Resting, Owns
    <3> QED  BY <2>1, <2>2, <2>4, <3>2 DEF InCall
  <2>5. CASE Tail(t) # <<>>
    <3>1. /\ Tail(t) \in FirstTodos
          /\ <<w, Head(Tail(t))>> \in
               {<<"save", "firstIntent">>, <<"firstIntent", "stageStarted">>,
                <<"stageStarted", "staged">>, <<"staged", "firstPrepared">>,
                <<"firstPrepared", "published">>}
      BY <1>1, <2>5, FirstOrder
    <3>2. Owns(n, a)
      BY <2>1, <2>3, <2>5 DEF Owns
    <3>3. Firsting(n, s, a)
      BY <1>6, <2>1, <2>3, <3>1, <3>2 DEF Firsting
    <3> QED  BY <2>2, <3>3 DEF InCall
  <2> QED  BY <2>4, <2>5
<1> QED  BY <1>6, <1>7

LEMMA FinishWrite ==
  ASSUME NEW r \in Generations, NEW c \in Calls, NEW a \in Gens, disk.clock \in Nat, Good(r),
         InCall(c, r, a), Finishing(c, r, a), Possible(Head(c.todo), r),
         NEW s, s = Effect(Head(c.todo), r, c)
  PROVE  /\ s \in Generations /\ Good(s) /\ Kept(r, s)
         /\ \A m : Extends(s, m) => Extends(r, m)
         /\ InCall(After(c), s, a)
<1> DEFINE t == c.todo  w == Head(t)  n == After(c)
<1>1. /\ t \in Unnamed \/ (t \in Named /\ Whole(r.root))
      /\ t \in Seq(Writes) /\ t # <<>>
      /\ r.swap = None /\ r.first # None /\ r.root.dash = r.first.plan
  BY FinishOrder DEF Finishing
<1>2. \/ /\ w \in {"complete", "firstState", "firstManifest"}
         /\ (t \in Unnamed /\ Tail(t) \in Unnamed)
      \/ w = "manifest" /\ Tail(t) \in Named
      \/ /\ w \in {"complete", "firstState", "dropSaved"} /\ Whole(r.root)
         /\ Tail(t) \in Named
      \/ w = "dropFirst" /\ Tail(t) = <<>> /\ Whole(r.root)
  BY <1>1, FinishOrder
<1>3. r.first \in Firsts /\ r.first.plan \in Plans /\ r.state \in States /\ r.root \in Trees
  BY <1>1 DEF Generations, Firsts
<1>4. /\ Shown(r.root) /\ (Whole(r.root) \/ ~Whole(r.backup))
      /\ r.backup \in {Gone, Part} \/ Whole(r.backup)
  BY <1>1, <1>3, Shapes DEF Good
<1>5. /\ s \in Generations /\ Good(s) /\ Kept(r, s) /\ s.swap = None
      /\ \A m : Extends(s, m) => Extends(r, m)
      /\ w # "dropFirst" => s.first # None /\ s.root.dash = s.first.plan
      /\ Whole(r.root) \/ w = "manifest" => Whole(s.root)
  <2>1. CASE w = "complete"
    <3>1. PICK st \in States : s = [r EXCEPT !.state = st]
      <4>1. r = [r EXCEPT !.state = r.state]
        BY DEF Generations
      <4>2. [status |-> "complete", resume |-> None, stamp |-> disk.clock + 1] \in States
        BY DEF States
      <4> QED  BY <1>3, <2>1, <4>1, <4>2 DEF Effect, Stamped
    <3> QED  BY <1>1, <2>1, <3>1, Shapes DEF Generations, Good, Kept, Extends
  <2>2. CASE w \in {"firstState", "firstManifest"}
    <3>1. PICK i \in Firsts : /\ s = [r EXCEPT !.first = i] /\ i.plan = r.first.plan
                              /\ i.manifest \in {None, i.plan}
      <4>1. CASE w = "firstState"
        <5>1. s = [r EXCEPT !.first = [r.first EXCEPT !.new = r.state]]
          BY <4>1 DEF Effect
        <5>2. /\ [r.first EXCEPT !.new = r.state] \in Firsts
              /\ [r.first EXCEPT !.new = r.state].plan = r.first.plan
              /\ [r.first EXCEPT !.new = r.state].manifest = r.first.manifest
          BY <1>3 DEF Firsts
        <5> QED  BY <1>1, <5>1, <5>2 DEF Good
      <4>2. CASE w = "firstManifest"
        <5>1. s = [r EXCEPT !.first = [r.first EXCEPT !.manifest = r.root.dash]]
          BY <4>2 DEF Effect
        <5>2. /\ [r.first EXCEPT !.manifest = r.root.dash] \in Firsts
              /\ [r.first EXCEPT !.manifest = r.root.dash].plan = r.first.plan
              /\ [r.first EXCEPT !.manifest = r.root.dash].manifest = r.root.dash
          BY <1>1, <1>3 DEF Firsts
        <5> QED  BY <1>1, <5>1, <5>2
      <4> QED  BY <2>2, <4>1, <4>2
    <3>2. /\ s \in Generations /\ s.root = r.root /\ s.backup = r.backup /\ s.swap = None
          /\ s.first = i /\ i # None
      BY <1>1, <3>1, NoneIsNoRecord DEF Generations
    <3> QED  BY <1>1, <2>2, <3>1, <3>2 DEF Good, Kept, Extends
  <2>3. CASE w = "manifest"
    <3> DEFINE root == [r.root EXCEPT !.manifest = r.root.dash]
    <3>1. s = [r EXCEPT !.root = root]
      BY <2>3 DEF Effect
    <3>2. /\ root \in Trees /\ Whole(root) /\ Shown(root) /\ Fine(root)
          /\ root.dash = r.root.dash /\ root.parent = r.root.parent
          /\ Whole(r.root) => root = r.root
      BY <1>1, <1>3, <1>4 DEF Trees, Whole, Shown, Fine
    <3> HIDE DEF root
    <3>3. /\ s \in Generations /\ s.root = root /\ s.backup = r.backup /\ s.swap = None
          /\ s.first = r.first
      BY <1>1, <3>1, <3>2 DEF Generations
    <3>4. Kept(r, s)
      BY <1>4, <3>2, <3>3 DEF Kept
    <3> QED  BY <1>1, <2>3, <3>2, <3>3, <3>4 DEF Good, Extends
  <2>4. CASE w = "dropSaved"
    BY <1>1, <2>4 DEF Effect, Generations, Good, Kept, Extends
  <2>5. CASE w = "dropFirst"
    <3>1. /\ s \in Generations /\ s.root = r.root /\ s.backup = r.backup /\ s.swap = None
          /\ s.first = None /\ Whole(r.root)
      BY <1>1, <1>2, <2>5 DEF Effect, Generations
    <3> QED  BY <2>5, <3>1 DEF Good, Kept, Extends, Fine
  <2> QED  BY <1>2, <2>1, <2>2, <2>3, <2>4, <2>5
<1>6. InCall(n, s, a)
  <2>1. /\ n \in Calls /\ n.todo = Tail(t)
        /\ Tail(t) # <<>> => n.run = c.run
        /\ Tail(t) = <<>> => n.run = (c.run /\ c.at \in {"finish", "parent"})
        /\ n.gen = c.gen /\ n.plan = c.plan /\ n.lock = c.lock /\ n.target = c.target
        /\ n.at = c.at /\ n.swapping = c.swapping
    BY <1>1, AfterIsCall
  <2>2. /\ n.gen <= a /\ n.target <= n.gen
        /\ n.at \in {"recover", "first", "inspect", "publish", "finish", "parent"} =>
             n.lock /\ n.target = n.gen
        /\ n.at = "first" => ~n.swapping
    BY <2>1 DEF InCall
  <2>3. Owns(c, a) /\ c.at \in {"parent", "done"}
    BY DEF Finishing
  <2>4. CASE Tail(t) = <<>>
    BY <2>1, <2>2, <2>3, <2>4 DEF InCall, Resting, Owns
  <2>5. CASE Tail(t) # <<>>
    <3>1. Owns(n, a)
      BY <2>1, <2>3, <2>5 DEF Owns
    <3>2. Finishing(n, s, a)
      BY <1>2, <1>5, <2>1, <2>3, <2>5, <3>1 DEF Finishing
    <3> QED  BY <2>2, <3>2 DEF InCall
  <2> QED  BY <2>4, <2>5
<1> QED  BY <1>5, <1>6

LEMMA RestoreWrite ==
  ASSUME NEW r \in Generations, NEW c \in Calls, NEW a \in Gens, Good(r),
         InCall(c, r, a), Restoring(c, r, a), Possible(Head(c.todo), r),
         NEW s, s = Effect(Head(c.todo), r, c)
  PROVE  /\ s \in Generations /\ Good(s)
         /\ s.root = r.root /\ s.backup = r.backup /\ s.swap = r.swap
         /\ InCall(After(c), s, a)
<1> DEFINE t == c.todo  w == Head(t)  n == After(c)
<1>1. /\ t \in RestoreTodos /\ t \in Seq(Writes) /\ t # <<>>
      /\ r.first # None /\ Fine(r.root)
      /\ \/ /\ w \in {"dropStaging", "oldState", "dropSaved"}
            /\ Tail(t) \in RestoreTodos \cup {<<"refuse">>}
         \/ w = "dropFirst" /\ Tail(t) \in {<<>>, <<"refuse">>}
  BY RestoreOrder DEF Restoring
<1>2. r.first \in Firsts /\ r.first.old \in States
  BY <1>1 DEF Generations, Firsts
<1>3. /\ s \in Generations /\ Good(s)
      /\ s.root = r.root /\ s.backup = r.backup /\ s.swap = r.swap
      /\ IF w = "dropFirst" THEN s.first = None ELSE s.first = r.first
  <2>1. CASE w = "dropStaging"
    BY <2>1, Shapes DEF Effect, Generations, Good
  <2>2. CASE w = "oldState"
    BY <1>2, <2>2 DEF Effect, Generations, Good
  <2>3. CASE w = "dropSaved"
    BY <2>3 DEF Effect, Generations, Good
  <2>4. CASE w = "dropFirst"
    BY <1>1, <2>4 DEF Effect, Generations, Good
  <2> QED  BY <1>1, <2>1, <2>2, <2>3, <2>4
<1>4. InCall(n, s, a)
  <2>1. /\ n \in Calls /\ n.todo = Tail(t)
        /\ Tail(t) # <<>> => n.run = c.run
        /\ Tail(t) = <<>> => n.run = (c.run /\ c.at \in {"finish", "parent"})
        /\ n.gen = c.gen /\ n.plan = c.plan /\ n.lock = c.lock /\ n.target = c.target
        /\ n.at = c.at /\ n.swapping = c.swapping
    BY <1>1, AfterIsCall
  <2>2. /\ n.gen <= a /\ n.target <= n.gen
        /\ n.at \in {"recover", "first", "inspect", "publish", "finish", "parent"} =>
             n.lock /\ n.target = n.gen
        /\ n.at = "first" => ~n.swapping
    BY <2>1 DEF InCall
  <2>3. /\ c.lock /\ c.target = c.gen
        /\ \/ c.run /\ c.at = "done"
           \/ ~c.run /\ c.at = "inspect" /\ ~c.swapping /\ (c.gen = a => r.swap = None)
    BY DEF Restoring
  <2>4. CASE Tail(t) = <<>>
    <3>1. w = "dropFirst"
      <4>1. <<>> \notin RestoreTodos /\ <<"refuse">> # <<>>
        BY RestoreOrder
      <4> QED  BY <1>1, <2>4, <4>1
    <3> QED  BY <1>3, <2>1, <2>2, <2>3, <2>4, <3>1 DEF InCall, Resting
  <2>5. CASE Tail(t) = <<"refuse">>
    BY <2>1, <2>2, <2>5 DEF InCall
  <2>6. CASE Tail(t) # <<>> /\ Tail(t) # <<"refuse">>
    <3>1. Restoring(n, s, a)
      BY <1>1, <1>3, <2>1, <2>3, <2>6 DEF Restoring
    <3> QED  BY <2>2, <3>1 DEF InCall
  <2> QED  BY <2>4, <2>5, <2>6
<1> QED  BY <1>3, <1>4

-----------------------------------------------------------------------------
(* What a call relies on while others write. *)

\* One that does not hold the run lock, while the holder of it writes.
LEMMA Undisturbed ==
  ASSUME NEW r \in Generations, NEW s \in Generations, NEW c \in Calls, NEW a \in Gens,
         InCall(c, r, a), ~c.run,
         c.lock /\ c.target = c.gen =>
           c.gen # a /\ s.first = r.first /\ (Fine(r.root) => Fine(s.root))
  PROVE  InCall(c, s, a)
<1>1. /\ c.gen <= a /\ c.target <= c.gen
      /\ c.at \in {"recover", "first", "inspect", "publish", "finish", "parent"} =>
           c.lock /\ c.target = c.gen
      /\ c.at = "first" => ~c.swapping
      /\ \/ c.todo = <<>> /\ Resting(c, r, a)
         \/ c.todo = <<"refuse">>
         \/ Restoring(c, r, a)
  BY DEF InCall, Swapping, Firsting, Finishing, Settling, Owns
<1>2. ASSUME Resting(c, r, a) PROVE Resting(c, s, a)
  BY <1>1, <1>2 DEF Resting, Owns
<1>3. ASSUME Restoring(c, r, a) PROVE Restoring(c, s, a)
  BY <1>3 DEF Restoring
<1> QED  BY <1>1, <1>2, <1>3 DEF InCall

\* One that does not hold the generation's lock, while the first publication
\* is undone.
LEMMA Unconcerned ==
  ASSUME NEW r \in Generations, NEW s \in Generations, NEW c \in Calls, NEW a \in Gens,
         InCall(c, r, a), ~(c.lock /\ c.target = c.gen),
         s.root = r.root, s.backup = r.backup, s.swap = r.swap
  PROVE  InCall(c, s, a)
<1>1. /\ c.gen <= a /\ c.target <= c.gen
      /\ c.at \notin {"recover", "first", "inspect", "publish", "finish", "parent"}
      /\ c.at = "first" => ~c.swapping
      /\ \/ c.todo = <<>> /\ Resting(c, r, a)
         \/ c.todo = <<"refuse">>
         \/ Settling(c, r, a)
  BY DEF InCall, Swapping, Firsting, Finishing, Restoring, Owns
<1>2. ASSUME Resting(c, r, a) PROVE Resting(c, s, a)
  BY <1>1, <1>2 DEF Resting
<1>3. ASSUME Settling(c, r, a) PROVE Settling(c, s, a)
  BY <1>3 DEF Settling
<1> QED  BY <1>1, <1>2, <1>3 DEF InCall

\* Any, while the run is paused or resumed.
LEMMA Unaware ==
  ASSUME NEW r \in Generations, NEW s \in Generations, NEW c \in Calls, NEW a \in Gens,
         InCall(c, r, a), s.root = r.root, s.candidate = r.candidate, s.backup = r.backup,
         s.swap = r.swap, s.first = r.first, s.staging = r.staging
  PROVE  InCall(c, s, a)
<1>1. Resting(c, r, a) => Resting(c, s, a)
  BY DEF Resting
<1>2. Swapping(c, r, a) => Swapping(c, s, a)
  BY DEF Swapping
<1>3. Firsting(c, r, a) => Firsting(c, s, a)
  BY DEF Firsting
<1>4. Finishing(c, r, a) => Finishing(c, s, a)
  BY DEF Finishing
<1>5. Restoring(c, r, a) => Restoring(c, s, a)
  BY DEF Restoring
<1>6. Settling(c, r, a) => Settling(c, s, a)
  BY DEF Settling
<1> QED  BY <1>1, <1>2, <1>3, <1>4, <1>5, <1>6 DEF InCall

\* Any, while the directory is made where it is missing.
LEMMA Remade ==
  ASSUME NEW r \in Generations, Good(r), r.root = Gone, NEW s, s = [r EXCEPT !.root = Empty]
  PROVE  /\ s \in Generations /\ Good(s) /\ Kept(r, s)
         /\ \A m : Extends(s, m) => Extends(r, m)
         /\ \A c \in Calls, a \in Gens : InCall(c, r, a) => InCall(c, s, a)
<1>1. /\ s \in Generations /\ s.root = Empty /\ s.candidate = r.candidate
      /\ s.backup = r.backup /\ s.swap = r.swap /\ s.first = r.first /\ s.staging = r.staging
  BY Shapes DEF Generations
<1>2. Good(s)
  BY <1>1, Shapes DEF Good, Fine
<1>3. Kept(r, s) /\ \A m : Extends(s, m) => Extends(r, m)
  BY <1>1, Shapes DEF Kept, Extends
<1>4. ASSUME NEW c \in Calls, NEW a \in Gens, InCall(c, r, a)
      PROVE  InCall(c, s, a)
  <2>1. r.first # None => r.root.dash # r.first.plan
    BY Shapes DEF Generations, Firsts
  <2>2. r.swap # None => r.root # r.swap.old /\ r.root # r.swap.new
    BY Shapes DEF Good
  <2>3. Resting(c, r, a) => Resting(c, s, a)
    BY <1>1, <2>1, <2>2, Shapes DEF Resting
  <2>4. Swapping(c, r, a) => Swapping(c, s, a)
    BY <1>1, <2>1, <2>2, Shapes DEF Swapping
  <2>5. Firsting(c, r, a) => Firsting(c, s, a)
    BY <1>1, Shapes DEF Firsting
  <2>6. Finishing(c, r, a) => Finishing(c, s, a)
    BY <1>1, <2>1 DEF Finishing
  <2>7. Restoring(c, r, a) => Restoring(c, s, a)
    BY <1>1 DEF Restoring, Fine
  <2>8. Settling(c, r, a) => Settling(c, s, a)
    BY <1>1, <2>2, Shapes DEF Settling
  <2> QED  BY <1>4, <2>3, <2>4, <2>5, <2>6, <2>7, <2>8 DEF InCall
<1> QED  BY <1>1, <1>2, <1>3, <1>4

\* One that does not hold the run lock, while a generation is appended.
LEMMA Appended ==
  ASSUME NEW r \in Generations, NEW c \in Calls, NEW a \in Gens,
         InCall(c, r, a), ~c.run
  PROVE  InCall(c, r, a + 1)
<1>1. c.gen \in Nat /\ c.target \in Nat /\ a \in Nat /\ c.gen <= a /\ c.gen # a + 1
  BY DEF Calls, Gens, InCall
<1>2. /\ c.gen <= a + 1 /\ c.target <= c.gen
      /\ c.at \in {"recover", "first", "inspect", "publish", "finish", "parent"} =>
           c.lock /\ c.target = c.gen
      /\ c.at = "first" => ~c.swapping
      /\ \/ c.todo = <<>> /\ Resting(c, r, a)
         \/ c.todo = <<"refuse">>
         \/ Restoring(c, r, a)
  BY <1>1 DEF InCall, Swapping, Firsting, Finishing, Settling, Owns
<1>3. Resting(c, r, a) => Resting(c, r, a + 1)
  BY <1>1 DEF Resting, Owns
<1>4. Restoring(c, r, a) => Restoring(c, r, a + 1)
  BY <1>1 DEF Restoring
<1> QED  BY <1>2, <1>3, <1>4 DEF InCall

-----------------------------------------------------------------------------
(* Steps. *)

Keeping == \A g \in Gens : Kept(disk.gen[g], disk'.gen[g])
Uses == [faults : 0 .. MaxFaults, switches : 0 .. MaxSwitches]

\* The files of one generation change, and no call loses what it relies on.
LEMMA DiskStep ==
  ASSUME IInv, TypeOK', Excluded', NEW t \in Gens, NEW s \in Generations, t <= disk.active,
         disk'.active = disk.active, disk'.gen = [disk.gen EXCEPT ![t] = s],
         Good(s), Kept(disk.gen[t], s),
         \A m : Extends(s, m) => Extends(disk.gen[t], m) \/ Parent(t, m),
         t < disk.active /\ Whole(disk.gen[t].root) => s.root = disk.gen[t].root,
         \A q \in Procs : call'[q] # None =>
           /\ InCall(call'[q], disk'.gen[call'[q].target], disk.active)
           /\ call'[q].at \in {"first", "inspect", "publish", "finish"} =>
                Parent(call'[q].gen, call'[q].parent)
  PROVE  IInv' /\ Keeping
<1>1. /\ disk.active \in Gens /\ disk.gen \in [Gens -> Generations]
      /\ \A g \in Gens : disk'.gen[g] = IF g = t THEN s ELSE disk.gen[g]
  BY DEF IInv, TypeOK
<1>2. \A g \in Gens : g - 1 \in Nat /\ g \in Nat /\ (g > 1 => g - 1 \in Gens)
  BY DeltaAssumption DEF Gens
<1>3. ASSUME NEW g \in Gens, NEW m, g <= disk.active, Parent(g, m)
      PROVE  Parent(g, m)'
  <2>1. CASE g > 1 /\ g - 1 = t
    <3>1. t < disk.active
      BY <1>1, <1>2, <1>3, <2>1 DEF Gens
    <3> QED  BY <1>1, <1>2, <1>3, <2>1, <3>1 DEF Parent
  <2>2. CASE ~(g > 1 /\ g - 1 = t)
    BY <1>1, <1>2, <1>3, <2>2 DEF Parent
  <2> QED  BY <2>1, <2>2
<1>4. ASSUME NEW g \in Gens PROVE Good(disk'.gen[g]) /\ Stands(g)' /\ Kept(disk.gen[g], disk'.gen[g])
  <2>1. Good(disk'.gen[g])
    BY <1>1 DEF IInv
  <2>2. ASSUME NEW m, Extends(disk'.gen[g], m) PROVE Parent(g, m)'
    <3>1. CASE g = t
      <4>1. Parent(g, m)
        BY <1>1, <2>2, <3>1 DEF IInv, Stands
      <4> QED  BY <1>3, <3>1, <4>1
    <3>2. CASE g # t /\ g <= disk.active
      <4>1. Parent(g, m)
        BY <1>1, <2>2, <3>2 DEF IInv, Stands
      <4> QED  BY <1>3, <3>2, <4>1
    <3>3. CASE g > disk.active
      <4>1. disk'.gen[g] = Blank
        BY <1>1, <3>3 DEF IInv, Gens
      <4> QED  BY <2>2, <4>1, Shapes DEF Extends, Blank
    <3> QED  BY <1>1, <1>2, <3>1, <3>2, <3>3 DEF Gens
  <2>3. Kept(disk.gen[g], disk'.gen[g])
    BY <1>1 DEF Kept
  <2> QED  BY <2>1, <2>2, <2>3 DEF Stands
<1>5. \A g \in Gens : g > disk'.active => disk'.gen[g] = Blank
  BY <1>1 DEF IInv, Gens
<1>6. ASSUME NEW q \in Procs, call'[q] # None PROVE CallOK(call[q])'
  <2>1. call'[q] \in Calls /\ call'[q].gen \in Gens /\ call'[q].gen <= disk.active
    BY <1>6 DEF TypeOK, Calls, InCall
  <2>2. call'[q].at \in {"first", "inspect", "publish", "finish"} =>
          Parent(call'[q].gen, call'[q].parent)
    BY <1>6
  <2>3. call'[q].at \in {"first", "inspect", "publish", "finish"} =>
          Parent(call[q].gen, call[q].parent)'
    BY <1>3, <2>1, <2>2
  <2> QED  BY <1>6, <2>3 DEF CallOK
<1> QED  BY <1>4, <1>5, <1>6 DEF IInv, Keeping

\* A call goes on without a write, or ends.
LEMMA CallStep ==
  ASSUME IInv, UNCHANGED disk, used' \in Uses, NEW p \in Procs, NEW n,
         call' = [call EXCEPT ![p] = n],
         \/ n = None
         \/ /\ n \in Calls /\ CallOK(n)
            /\ n.run => RunFree \/ (call[p] # None /\ call[p].run)
            /\ n.lock => \/ GenFree(n.gen)
                         \/ call[p] # None /\ call[p].lock /\ call[p].gen = n.gen
  PROVE  IInv' /\ Keeping
<1>1. call \in [Procs -> Calls \cup {None}] /\ \A q \in Procs : call'[q] = IF q = p THEN n ELSE call[q]
  BY DEF IInv, TypeOK
<1>2. TypeOK'
  BY <1>1 DEF IInv, TypeOK, Uses
<1>3. \A c : CallOK(c) => CallOK(c)'
  BY DEF CallOK, Parent
<1>4. \A q \in Procs : call'[q] # None => CallOK(call[q])'
  <2> TAKE q \in Procs
  <2>1. call'[q] # None => CallOK(call'[q])
    BY <1>1 DEF IInv
  <2> QED  BY <2>1 DEF CallOK, Parent
<1>5. Excluded'
  <2> SUFFICES ASSUME NEW u \in Procs, NEW v \in Procs, call'[u] # None, call'[v] # None,
                      u # v
               PROVE  /\ ~(call'[u].run /\ call'[v].run)
                      /\ ~(call'[u].lock /\ call'[v].lock /\ call'[u].gen = call'[v].gen)
    BY DEF Excluded
  <2>1. CASE u # p /\ v # p
    BY <1>1, <2>1 DEF IInv, Excluded
  <2>2. CASE u = p
    BY <1>1, <2>2 DEF IInv, Excluded, RunFree, GenFree
  <2>3. CASE v = p
    BY <1>1, <2>3 DEF IInv, Excluded, RunFree, GenFree
  <2> QED  BY <2>1, <2>2, <2>3
<1>6. \A g \in Gens : Good(disk'.gen[g]) /\ Stands(g)'
  BY DEF IInv, Stands, Parent
<1>7. Keeping
  BY DEF Keeping, Kept
<1> QED  BY <1>2, <1>4, <1>5, <1>6, <1>7 DEF IInv

\* What the invariant says of one call.
LEMMA Started ==
  ASSUME IInv, NEW p \in Procs, call[p] # None
  PROVE  /\ call[p] \in Calls /\ CallOK(call[p]) /\ disk.gen[call[p].target] \in Generations
         /\ Good(disk.gen[call[p].target]) /\ disk.active \in Gens /\ disk.clock \in Nat
         /\ call[p].gen \in Gens /\ call[p].target \in Gens /\ call[p].gen <= disk.active
         /\ call[p].target <= call[p].gen
BY DEF IInv, TypeOK, Calls, CallOK, InCall

\* A write leaves the files good, the writer in order and the others alone.
LEMMA Written ==
  ASSUME IInv, NEW p \in Procs, call[p] # None, call[p].todo # <<>>,
         NEW c, c = call[p], NEW r, r = disk.gen[c.target], Possible(Head(c.todo), r),
         NEW s, s = Effect(Head(c.todo), r, c)
  PROVE  /\ s \in Generations /\ Good(s) /\ Kept(r, s)
         /\ \A m : Extends(s, m) => Extends(r, m) \/ Parent(c.target, m)
         /\ c.target < disk.active /\ Whole(r.root) => s.root = r.root
         /\ InCall(After(c), s, disk.active)
         /\ \A q \in Procs \ {p} : call[q] # None /\ call[q].target = c.target =>
              InCall(call[q], s, disk.active)
<1> DEFINE a == disk.active
<1>1. /\ c \in Calls /\ CallOK(c) /\ r \in Generations /\ Good(r) /\ a \in Gens
      /\ disk.clock \in Nat /\ InCall(c, r, a)
      /\ c.at \in {"first", "inspect", "publish", "finish"} => Parent(c.gen, c.parent)
  BY Started DEF CallOK
<1>2. ASSUME NEW q \in Procs \ {p}, call[q] # None, call[q].target = c.target
      PROVE  /\ call[q] \in Calls /\ InCall(call[q], r, a)
             /\ ~(c.run /\ call[q].run)
             /\ c.lock => ~(call[q].lock /\ call[q].gen = c.gen)
  BY <1>2, Started DEF CallOK, IInv, Excluded
<1>3. ASSUME c.run, s \in Generations, Owns(c, a)
      PROVE  \A q \in Procs \ {p} : call[q] # None /\ call[q].target = c.target =>
               InCall(call[q], s, a)
  <2> SUFFICES ASSUME NEW q \in Procs \ {p}, call[q] # None, call[q].target = c.target
               PROVE  InCall(call[q], s, a)
    OBVIOUS
  <2>1. ~call[q].run /\ ~(call[q].lock /\ call[q].target = call[q].gen)
    BY <1>2, <1>3 DEF Owns
  <2> HIDE DEF a
  <2> QED  BY <1>1, <1>2, <1>3, <2>1, Undisturbed
<1>4. CASE Swapping(c, r, a)
  <2>1. /\ s \in Generations /\ Good(s) /\ Kept(r, s)
        /\ \A m : Extends(s, m) => Extends(r, m) \/ m = c.parent
        /\ InCall(After(c), s, a)
    BY <1>1, <1>4, SwapWrite
  <2>2. Owns(c, a) /\ c.run /\ c.at \in {"finish", "inspect"} /\ ~(c.target < a)
    BY <1>1, <1>4 DEF Swapping, Owns, Gens
  <2> QED  BY <1>1, <1>3, <2>1, <2>2 DEF Owns
<1>5. CASE Firsting(c, r, a)
  <2>1. /\ s \in Generations /\ Good(s) /\ Kept(r, s)
        /\ \A m : Extends(s, m) => Extends(r, m) \/ m = c.parent
        /\ InCall(After(c), s, a)
    BY <1>1, <1>5, FirstWrite
  <2>2. Owns(c, a) /\ c.run /\ c.at = "finish" /\ ~(c.target < a)
    BY <1>1, <1>5 DEF Firsting, Owns, Gens
  <2> QED  BY <1>1, <1>3, <2>1, <2>2 DEF Owns
<1>6. CASE Finishing(c, r, a)
  <2>1. /\ s \in Generations /\ Good(s) /\ Kept(r, s)
        /\ \A m : Extends(s, m) => Extends(r, m)
        /\ InCall(After(c), s, a)
    BY <1>1, <1>6, FinishWrite
  <2>2. Owns(c, a) /\ c.run /\ ~(c.target < a)
    BY <1>1, <1>6 DEF Finishing, Owns, Gens
  <2> QED  BY <1>3, <2>1, <2>2
<1>7. CASE Restoring(c, r, a)
  <2>1. /\ s \in Generations /\ Good(s)
        /\ s.root = r.root /\ s.backup = r.backup /\ s.swap = r.swap
        /\ InCall(After(c), s, a)
    BY <1>1, <1>7, RestoreWrite
  <2>2. Kept(r, s) /\ \A m : Extends(s, m) => Extends(r, m)
    BY <2>1 DEF Kept, Extends
  <2>3. ASSUME NEW q \in Procs \ {p}, call[q] # None, call[q].target = c.target
        PROVE  InCall(call[q], s, a)
    <3>1. ~(call[q].lock /\ call[q].target = call[q].gen)
      BY <1>2, <1>7, <2>3 DEF Restoring
    <3> HIDE DEF a
    <3> QED  BY <1>1, <1>2, <2>1, <2>3, <3>1, Unconcerned
  <2> QED  BY <2>1, <2>2, <2>3
<1>8. CASE Settling(c, r, a)
  <2>1. /\ s \in Generations /\ Good(s) /\ Kept(r, s)
        /\ \A m : Extends(s, m) => Extends(r, m)
        /\ s.first = r.first /\ (Fine(r.root) => Fine(s.root))
        /\ Whole(r.root) => s.root = r.root
        /\ InCall(After(c), s, a)
    BY <1>1, <1>8, SettleWrite
  <2>2. c.run /\ (c.target < a \/ Owns(c, a))
    BY <1>8 DEF Settling
  <2>3. ASSUME NEW q \in Procs \ {p}, call[q] # None, call[q].target = c.target, c.target < a
        PROVE  InCall(call[q], s, a)
    <3>1. ~call[q].run /\ (call[q].target = call[q].gen => call[q].gen # a)
      BY <1>1, <1>2, <2>2, <2>3 DEF Gens
    <3> HIDE DEF a
    <3> QED  BY <1>1, <1>2, <2>1, <2>3, <3>1, Undisturbed
  <2> QED  BY <1>3, <2>1, <2>2, <2>3
<1>9. c.todo # <<"refuse">>
  BY DEF Possible
<1> QED  BY <1>1, <1>4, <1>5, <1>6, <1>7, <1>8, <1>9 DEF InCall

LEMMA WriteStep ==
  ASSUME IInv, NEW p \in Procs, Write(p)
  PROVE  IInv' /\ Keeping
<1> DEFINE c == call[p]  w == Head(c.todo)  r == disk.gen[c.target]  s == Effect(w, r, c)
<1>0. used' \in Uses /\ used' = used
  BY DEF IInv, TypeOK, Write, Uses
<1>1. call[p] # None /\ c.todo # <<>>
  BY DEF Write
<1>2. /\ c \in Calls /\ CallOK(c) /\ r \in Generations /\ disk.active \in Gens
      /\ c.target \in Gens /\ c.target <= disk.active /\ c.at \in Ats
      /\ call \in [Procs -> Calls \cup {None}]
  <2>1. c.target \in Nat /\ c.gen \in Nat /\ disk.active \in Nat
    BY <1>1, Started DEF Gens
  <2> QED  BY <1>1, <2>1, Started DEF IInv, TypeOK, Calls
<1>3. CASE ~Possible(w, r)
  <2>1. call' = [call EXCEPT ![p] = None] /\ UNCHANGED disk
    BY <1>3 DEF Write, Idle
  <2> QED  BY <1>0, <2>1, CallStep
<1>4. CASE Possible(w, r)
  <2>1. PICK k \in Nat : disk' = [disk EXCEPT !.gen[c.target] = s, !.clock = k]
    <3>1. disk.clock \in Nat /\ disk.clock + 1 \in Nat
      BY DEF IInv, TypeOK
    <3> QED  BY <1>4, <3>1 DEF Write
  <2>2. PICK n \in {None, After(c)} : call' = [call EXCEPT ![p] = n]
    <3> DEFINE run == c.run /\ (Len(c.todo) > 1 \/ c.at \in {"finish", "parent"})
    <3>1. \/ call' = [call EXCEPT ![p] = None]
          \/ call' = [call EXCEPT ![p] = [c EXCEPT !.target = c.target, !.todo = Tail(c.todo),
                                                  !.run = run, !.at = c.at]]
      BY <1>4 DEF Write, Idle, Does
    <3>2. After(c) = [c EXCEPT !.todo = Tail(c.todo), !.run = run]
      BY DEF After
    <3> HIDE DEF run
    <3>3. [c EXCEPT !.target = c.target, !.todo = Tail(c.todo), !.run = run, !.at = c.at]
            = After(c)
      BY <1>2, <3>2 DEF Calls
    <3> QED  BY <3>1, <3>3
  <2>3. /\ s \in Generations /\ Good(s) /\ Kept(r, s)
        /\ \A m : Extends(s, m) => Extends(r, m) \/ Parent(c.target, m)
        /\ c.target < disk.active /\ Whole(r.root) => s.root = r.root
        /\ InCall(After(c), s, disk.active)
        /\ \A q \in Procs \ {p} : call[q] # None /\ call[q].target = c.target =>
             InCall(call[q], s, disk.active)
    BY <1>1, <1>4, Written
  <2> HIDE DEF s
  <2>4. /\ disk'.active = disk.active /\ disk'.gen = [disk.gen EXCEPT ![c.target] = s]
        /\ disk'.bound = disk.bound /\ disk'.clock = k
        /\ disk' \in [active : Gens, clock : Nat, gen : [Gens -> Generations],
                      bound : [Gens -> States \cup {None}]]
    BY <1>2, <2>1, <2>3 DEF IInv, TypeOK
  <2>5. /\ n = None \/ n \in Calls
        /\ \A q \in Procs : call'[q] = IF q = p THEN n ELSE call[q]
        /\ n # None => /\ n.gen = c.gen /\ n.parent = c.parent /\ n.lock = c.lock
                       /\ n.at = c.at /\ n.target = c.target /\ (n.run => c.run)
    <3>1. /\ After(c) \in Calls /\ After(c).gen = c.gen /\ After(c).parent = c.parent
          /\ After(c).lock = c.lock /\ After(c).at = c.at /\ After(c).target = c.target
          /\ After(c).run => c.run
      BY <1>1, <1>2, AfterIsCall
    <3> QED  BY <1>2, <2>2, <3>1
  <2>6. TypeOK'
    BY <1>0, <1>2, <2>2, <2>4, <2>5 DEF IInv, TypeOK
  <2>7. Excluded'
    BY <1>1, <2>5 DEF IInv, Excluded
  <2>8. ASSUME NEW q \in Procs, call'[q] # None
        PROVE  /\ InCall(call'[q], disk'.gen[call'[q].target], disk.active)
               /\ call'[q].at \in {"first", "inspect", "publish", "finish"} =>
                    Parent(call'[q].gen, call'[q].parent)
    <3>1. CASE q = p
      <4>1. disk'.gen[c.target] = s /\ call'[q] = n /\ n = After(c)
        BY <1>2, <2>2, <2>4, <2>5, <2>8, <3>1 DEF IInv, TypeOK
      <4>2. c.at \in {"first", "inspect", "publish", "finish"} => Parent(c.gen, c.parent)
        BY <1>2 DEF CallOK
      <4> QED  BY <2>3, <2>5, <2>8, <3>1, <4>1, <4>2
    <3>2. CASE q # p
      <4>1. call'[q] = call[q] /\ call[q] # None /\ CallOK(call[q]) /\ call[q].target \in Gens
        BY <2>5, <2>8, <3>2, Started
      <4>2. InCall(call[q], disk'.gen[call[q].target], disk.active)
        <5>1. CASE call[q].target = c.target
          BY <1>2, <2>3, <2>4, <3>2, <4>1, <5>1 DEF IInv, TypeOK
        <5>2. CASE call[q].target # c.target
          BY <2>4, <4>1, <5>2 DEF IInv, TypeOK, CallOK
        <5> QED  BY <5>1, <5>2
      <4> QED  BY <4>1, <4>2 DEF CallOK
    <3> QED  BY <3>1, <3>2
  <2> HIDE DEF c, r
  <2> QED  BY <1>2, <2>3, <2>4, <2>6, <2>7, <2>8, DiskStep DEF r
<1> QED  BY <1>3, <1>4

-----------------------------------------------------------------------------
(* The lists that are chosen. *)

Ends(t) == t # <<>> /\ \E k \in DOMAIN t : t[k] = "dropSwap"
WholeFor(t, r) == IF Head(t) = "restore" THEN Whole(r.backup) ELSE Whole(r.root)

\* The lists that take the intent of a swap away.
LEMMA EndsSwap ==
  /\ \A t \in Dropping : Ends(t) /\ Ends(<<"restore">> \o t)
  /\ \A t \in {<<>>, <<"refuse">>, Publish, <<"visible">>, <<"dropCandidate">>} : ~Ends(t)
  /\ ~Ends(<<"restore">> \o <<"refuse">>)
<1>1. ASSUME NEW s \in Seq(Writes), s # <<>>
      PROVE  Ends(<<"restore">> \o s) <=> Ends(s)
  <2> DEFINE l == <<"restore">> \o s
  <2>1. <<"restore">> \in Seq(Writes) /\ Len(<<"restore">>) = 1 /\ <<"restore">>[1] = "restore"
    BY DEF Writes
  <2>2. /\ l \in Seq(Writes) /\ Len(l) = Len(s) + 1 /\ l[1] = "restore"
        /\ \A i \in 1 .. Len(s) : l[i + 1] = s[i]
    BY <2>1, ConcatProperties
  <2> HIDE DEF l
  <2>3. DOMAIN l = 1 .. Len(s) + 1 /\ DOMAIN s = 1 .. Len(s) /\ Len(s) \in Nat /\ l # <<>>
    BY <2>2
  <2>4. ASSUME Ends(l) PROVE Ends(s)
    <3>1. PICK k \in 1 .. Len(s) + 1 : l[k] = "dropSwap"
      BY <2>3, <2>4 DEF Ends
    <3>2. k # 1 /\ k - 1 \in 1 .. Len(s)
      BY <2>2, <2>3, <3>1
    <3>3. s[k - 1] = "dropSwap"
      BY <2>2, <2>3, <3>1, <3>2
    <3> QED  BY <1>1, <2>3, <3>2, <3>3 DEF Ends
  <2>5. ASSUME Ends(s) PROVE Ends(l)
    <3>1. PICK k \in 1 .. Len(s) : s[k] = "dropSwap"
      BY <2>3, <2>5 DEF Ends
    <3>2. l[k + 1] = "dropSwap" /\ k + 1 \in 1 .. Len(s) + 1
      BY <2>2, <2>3, <3>1
    <3> QED  BY <2>3, <3>2 DEF Ends
  <2> QED  BY <2>4, <2>5 DEF l
<1>2. ASSUME NEW t \in Dropping PROVE Ends(t) /\ t \in Seq(Writes) /\ t # <<>>
  <2>1. CASE t = <<"dropCandidate", "dropSwap", "dropBackup">>
    BY <2>1 DEF Ends, Writes
  <2>2. CASE t = <<"dropSwap", "dropBackup">>
    BY <2>2 DEF Ends, Writes
  <2>3. CASE t = <<"dropCandidate", "dropBackup", "dropSwap">>
    BY <2>3 DEF Ends, Writes
  <2>4. CASE t = <<"dropBackup", "dropSwap">>
    BY <2>4 DEF Ends, Writes
  <2>5. CASE t = <<"dropCandidate", "dropSwap">>
    BY <2>5 DEF Ends, Writes
  <2>6. CASE t = <<"dropSwap">>
    BY <2>6 DEF Ends, Writes
  <2> QED  BY <2>1, <2>2, <2>3, <2>4, <2>5, <2>6 DEF Dropping
<1>3. /\ ~Ends(<<>>) /\ ~Ends(<<"refuse">>) /\ ~Ends(Publish) /\ ~Ends(<<"visible">>)
      /\ ~Ends(<<"dropCandidate">>)
  BY DEF Ends, Publish
<1>4. <<"refuse">> \in Seq(Writes) /\ <<"refuse">> # <<>>
  BY DEF Writes
<1> QED  BY <1>1, <1>2, <1>3, <1>4

\* What the active generation does with a swap it finds.
LEMMA RecoverList ==
  ASSUME NEW r \in Generations, Good(r), NEW t, t = Recover(r)
  PROVE  \/ t = <<>> /\ r.swap = None
         \/ t = <<"refuse">> /\ r.swap # None
         \/ r.swap # None /\ t = Publish
         \/ /\ r.swap # None /\ t = <<"visible">>
            /\ r.candidate = r.swap.new /\ r.backup = r.swap.old
         \/ r.swap # None /\ t = <<"dropCandidate">> /\ r.root = r.swap.new
         \/ /\ r.swap # None /\ WholeFor(t, r)
            /\ t \in Dropping \cup {<<"restore">> \o u : u \in Dropping \cup {<<"refuse">>}}
<1>1. r.swap # None => Whole(r.swap.old) /\ Whole(r.swap.new)
  BY DEF Good
<1>2. /\ <<"dropCandidate", "dropSwap">> \in Dropping
      /\ <<"dropCandidate", "dropSwap", "dropBackup">> \in Dropping
      /\ Head(<<"dropCandidate", "dropSwap">>) = "dropCandidate"
      /\ Head(<<"dropCandidate", "dropSwap", "dropBackup">>) = "dropCandidate"
      /\ \A u \in Dropping \cup {<<"refuse">>} : Head(<<"restore">> \o u) = "restore"
  <2>1. "restore" \in Writes /\ <<"refuse">> \in Seq(Writes)
    BY DEF Writes
  <2>2. \A u \in Dropping : u \in Seq(Writes)
    BY SettleOrder DEF SettleTodos, EndTodos
  <2>3. \A u \in Dropping \cup {<<"refuse">>} : Head(<<"restore">> \o u) = "restore"
    BY <2>1, <2>2, Cons
  <2> QED  BY <2>3 DEF Dropping
<1>3. CASE r.swap = None
  BY <1>3 DEF Recover
<1>4. CASE r.swap # None /\ r.swap.phase = "preparing"
  <2>1. t = IF r.root = r.swap.old THEN <<"dropCandidate", "dropSwap">> ELSE <<"refuse">>
    BY <1>4 DEF Recover
  <2> QED  BY <1>1, <1>2, <1>4, <2>1 DEF WholeFor
<1>5. CASE r.swap # None /\ r.swap.phase # "preparing"
  <2> DEFINE rest == IF r.candidate = r.swap.new \/ r.candidate = Gone
                     THEN <<"dropCandidate", "dropSwap", "dropBackup">> ELSE <<"refuse">>
  <2>1. \/ t = Publish
        \/ t = <<"visible">> /\ r.candidate = r.swap.new /\ r.backup = r.swap.old
        \/ t = <<"dropCandidate">> /\ r.root = r.swap.new
        \/ t = <<"refuse">>
        \/ r.backup = r.swap.old /\ r.root = r.swap.old /\ t = rest
        \/ r.backup = r.swap.old /\ r.root = Gone /\ t = <<"restore">> \o rest
        \/ r.root = r.swap.old /\ t = <<"dropCandidate", "dropSwap">>
    <3> HIDE DEF rest
    <3>1. t = CASE r.root = r.swap.old /\ r.candidate = r.swap.new /\ r.backup = Gone -> Publish
               [] r.root = Gone /\ r.backup = r.swap.old /\ r.candidate = r.swap.new ->
                    <<"visible">>
               [] r.root = r.swap.new /\ r.backup \in {Gone, r.swap.old} ->
                    IF r.candidate = r.swap.new \/ r.candidate = Gone
                    THEN <<"dropCandidate">> ELSE <<"refuse">>
               [] r.backup = r.swap.old /\ r.root \in {Gone, r.swap.old}
                  /\ (r.root = Gone => r.candidate # r.swap.new) ->
                    IF r.root = Gone THEN <<"restore">> \o rest ELSE rest
               [] r.root = r.swap.old /\ r.candidate \in {PreManifest(r.swap), r.swap.old}
                  /\ r.backup = Gone -> <<"dropCandidate", "dropSwap">>
               [] OTHER -> <<"refuse">>
      BY <1>5 DEF Recover, rest
    <3> QED  BY <3>1
  <2>2. rest = <<"refuse">> \/ rest = <<"dropCandidate", "dropSwap", "dropBackup">>
    OBVIOUS
  <2> HIDE DEF rest
  <2> QED  BY <1>1, <1>2, <1>5, <2>1, <2>2 DEF WholeFor
<1> QED  BY <1>3, <1>4, <1>5

\* What is done with the swap of a generation that is not active any more.
LEMMA AbortList ==
  ASSUME NEW g \in Gens, NEW r \in Generations, r = disk.gen[g], Good(r), NEW t, t = Abort(g)
  PROVE  t \in {<<>>, <<"refuse">>} \/ (t \in SettleTodos /\ WholeFor(t, r))
<1>1. r.swap # None => Whole(r.swap.old) /\ Whole(r.swap.new)
  BY DEF Good
<1>2. /\ <<"dropCandidate", "dropSwap">> \in Dropping
      /\ <<"dropCandidate", "dropBackup", "dropSwap">> \in EndTodos
      /\ <<"dropCandidate", "dropSwap">> \in EndTodos
      /\ <<"dropCandidate", "refuse">> \in EndTodos
      /\ EndTodos \subseteq SettleTodos
      /\ \A u \in Dropping \cup {<<"refuse">>} : <<"restore">> \o u \in SettleTodos
  BY DEF Dropping, EndTodos, SettleTodos
<1>3. /\ Head(<<"dropCandidate", "dropSwap">>) = "dropCandidate"
      /\ Head(<<"dropCandidate", "dropBackup", "dropSwap">>) = "dropCandidate"
      /\ Head(<<"dropCandidate", "refuse">>) = "dropCandidate"
      /\ \A u \in Dropping \cup {<<"refuse">>} : Head(<<"restore">> \o u) = "restore"
  <2>1. "restore" \in Writes /\ <<"refuse">> \in Seq(Writes)
    BY DEF Writes
  <2>2. \A u \in Dropping : u \in Seq(Writes)
    BY SettleOrder DEF SettleTodos, EndTodos
  <2>3. \A u \in Dropping \cup {<<"refuse">>} : Head(<<"restore">> \o u) = "restore"
    BY <2>1, <2>2, Cons
  <2> QED  BY <2>3
<1>4. CASE r.swap = None
  BY <1>4 DEF Abort
<1>5. CASE r.swap # None /\ r.swap.phase = "preparing"
  <2>1. t = IF r.root # r.swap.old THEN <<"refuse">>
            ELSE IF r.backup # Gone THEN <<"dropCandidate", "refuse">>
            ELSE <<"dropCandidate", "dropSwap">>
    BY <1>5 DEF Abort
  <2> QED  BY <1>1, <1>2, <1>3, <1>5, <2>1 DEF WholeFor
<1>6. CASE r.swap # None /\ r.swap.phase # "preparing"
  <2> DEFINE proven == r.candidate \in {Gone, r.swap.new, PreManifest(r.swap), r.swap.old}
             rest == IF proven THEN <<"dropCandidate", "dropSwap">> ELSE <<"refuse">>
  <2>1. \/ t \in {<<>>, <<"refuse">>}
        \/ /\ r.root \in {r.swap.old, r.swap.new}
           /\ t \in {<<"dropCandidate", "refuse">>,
                     <<"dropCandidate", "dropBackup", "dropSwap">>}
        \/ r.backup = r.swap.old /\ t = <<"restore">> \o rest
    <3> HIDE DEF rest, proven
    <3>1. t = CASE r.root = r.swap.old \/ (r.root = r.swap.new /\ Adopted(g)) ->
                    IF ~proven THEN <<"refuse">>
                    ELSE IF ~(r.backup \in {Gone, r.swap.old}) THEN <<"dropCandidate", "refuse">>
                    ELSE <<"dropCandidate", "dropBackup", "dropSwap">>
               [] r.root = Gone /\ r.backup = r.swap.old -> <<"restore">> \o rest
               [] /\ r.root = r.swap.new /\ ~Adopted(g)
                  /\ disk.gen[disk.active].root.manifest = None -> <<>>
               [] OTHER -> <<"refuse">>
      BY <1>6 DEF Abort, rest, proven
    <3> QED  BY <3>1
  <2>2. rest \in Dropping \cup {<<"refuse">>}
    BY <1>2
  <2> HIDE DEF rest, proven
  <2> QED  BY <1>1, <1>2, <1>3, <1>6, <2>1, <2>2 DEF WholeFor
<1> QED  BY <1>4, <1>5, <1>6

\* The end of a swap whose product is visible.
LEMMA FinishList ==
  ASSUME NEW r \in Generations, Good(r), r.swap # None, r.root = r.swap.new
  PROVE  Finish(r) \in SettleTodos /\ WholeFor(Finish(r), r)
<1> DEFINE rest == IF r.candidate \in {Gone, r.swap.new} /\ r.backup \in {Gone, r.swap.old}
                   THEN <<"dropCandidate", "dropBackup", "dropSwap">> ELSE <<"refuse">>
<1>1. Finish(r) = <<"complete">> \o rest
  BY DEF Finish
<1>2. rest \in {<<"dropCandidate", "dropBackup", "dropSwap">>, <<"refuse">>}
  OBVIOUS
<1>3. "complete" \in Writes /\ rest \in Seq(Writes)
  <2>1. /\ "complete" \in Writes /\ <<"refuse">> \in Seq(Writes)
        /\ <<"dropCandidate", "dropBackup", "dropSwap">> \in Seq(Writes)
    BY DEF Writes
  <2> QED  BY <1>2, <2>1
<1> HIDE DEF rest
<1>4. Head(Finish(r)) = "complete"
  BY <1>1, <1>3, Cons
<1> QED  BY <1>1, <1>2, <1>4 DEF SettleTodos, WholeFor, Good

\* The commit of a first publication that is visible.
LEMMA FinishFirstList ==
  ASSUME NEW r \in Generations, Good(r), r.first # None, r.root.dash = r.first.plan
  PROVE  \/ FinishFirst(r) = <<"refuse">>
         \/ FinishFirst(r) \in Unnamed
         \/ FinishFirst(r) \in Named /\ Whole(r.root)
<1> DEFINE commit == IF r.first.manifest # None /\ r.root.manifest = r.first.manifest
                     THEN Bound ELSE Commit
<1>1. FinishFirst(r) = IF r.first.new # None /\ r.state = r.first.new THEN commit
                       ELSE IF r.state = r.first.old
                       THEN <<"complete">> \o (<<"firstState">> \o commit)
                       ELSE <<"refuse">>
  BY DEF FinishFirst, Bound, Commit
<1>2. commit = Commit \/ (commit = Bound /\ r.root.manifest = r.root.dash /\ r.root.manifest # None)
  BY DEF Good
<1>3. r.root.manifest = r.root.dash /\ r.root.manifest # None => Whole(r.root)
  BY Shapes DEF Good, Shown, Whole
<1> HIDE DEF commit
<1> QED  BY <1>1, <1>2, <1>3 DEF Named, Unnamed

LEMMA RestoreFirstList ==
  ASSUME NEW r
  PROVE  RestoreFirst(r) \in RestoreTodos
BY DEF RestoreFirst, RestoreTodos

-----------------------------------------------------------------------------
(* The steps of a call. *)

\* What is done with the swap of the parent, or of a generation that is not
\* active any more, is the end of a swap.
LEMMA ReconcileList ==
  ASSUME IInv, NEW g \in Gens, g <= disk.active, NEW t, t = ReconcileParent(g)
  PROVE  \/ t = <<>>
         \/ /\ g - 1 \in Gens /\ g - 1 < disk.active
            /\ t = <<"refuse">> \/ (t \in SettleTodos /\ WholeFor(t, disk.gen[g - 1]))
<1>1. /\ disk.active \in Nat /\ g \in Nat /\ disk.gen \in [Gens -> Generations]
      /\ g # 1 => g - 1 \in Gens /\ g - 1 < disk.active
  BY DeltaAssumption DEF IInv, TypeOK, Gens
<1>2. CASE t # <<>> /\ t # <<"refuse">>
  <2>1. g # 1 /\ t = Abort(g - 1)
    BY <1>2 DEF ReconcileParent
  <2>2. disk.gen[g - 1] \in Generations /\ Good(disk.gen[g - 1]) /\ g - 1 \in Gens
    BY <1>1, <2>1 DEF IInv
  <2> QED  BY <1>1, <1>2, <2>1, <2>2, AbortList
<1>3. CASE t = <<"refuse">>
  <2>1. g # 1
    <3>1. <<>> # <<"refuse">>
      OBVIOUS
    <3> QED  BY <1>3, <3>1 DEF ReconcileParent
  <2> QED  BY <1>1, <1>3, <2>1
<1> QED  BY <1>2, <1>3

LEMMA StartStep ==
  ASSUME IInv, NEW p \in Procs, NEW plan \in Plans, Start(p, plan)
  PROVE  IInv' /\ Keeping
<1> DEFINE g == disk.active  t == ReconcileParent(g)  c == NewCall(p, plan)
           target == IF t = <<>> THEN g ELSE g - 1
<1>1. /\ RunFree /\ UNCHANGED disk /\ used' \in Uses
      /\ call' = [call EXCEPT ![p] = [c EXCEPT !.target = target, !.todo = t,
                                               !.run = (t # <<>>), !.at = "enter"]]
  BY DEF Start, Does, IInv, TypeOK, Uses
<1>2. g \in Gens /\ g \in Nat /\ g <= g /\ disk.gen \in [Gens -> Generations]
  BY DeltaAssumption DEF IInv, TypeOK, Gens
<1>3. \/ t = <<>>
      \/ /\ g - 1 \in Gens /\ g - 1 < g
         /\ t = <<"refuse">> \/ (t \in SettleTodos /\ WholeFor(t, disk.gen[g - 1]))
  BY <1>2, ReconcileList
<1>4. target \in Gens /\ t \in Seq(Writes) /\ "enter" \in Ats /\ (t # <<>>) \in BOOLEAN
  <2>1. <<>> \in Seq(Writes) /\ <<"refuse">> \in Seq(Writes) /\ "enter" \in Ats
    BY DEF Writes, Ats
  <2> HIDE DEF t
  <2> QED  BY <1>2, <1>3, <2>1, SettleOrder
<1>5. c \in Calls /\ c.gen = g /\ ~c.lock
  <2>1. 1 \in Gens /\ <<>> \in Seq(Writes)
    BY DeltaAssumption DEF Gens
  <2> QED  BY <1>2, <2>1 DEF NewCall, Calls, Ats
<1> HIDE DEF c, t
<1> DEFINE n == [c EXCEPT !.target = target, !.todo = t, !.run = (t # <<>>), !.at = "enter"]
<1>6. /\ n \in Calls /\ n.target = target /\ n.todo = t /\ n.run = (t # <<>>)
      /\ n.at = "enter" /\ n.gen = g /\ ~n.lock
  BY <1>4, <1>5 DEF Calls
<1> HIDE DEF n
<1>7. CallOK(n)
  <2>1. CASE t = <<>>
    BY <1>2, <1>6, <2>1 DEF CallOK, InCall, Resting
  <2>2. CASE t = <<"refuse">>
    <3>1. t # <<>>
      BY <2>2
    <3> QED  BY <1>2, <1>3, <1>6, <2>2, <3>1 DEF CallOK, InCall, Gens
  <2>3. CASE t # <<>> /\ t # <<"refuse">>
    <3>1. Settling(n, disk.gen[n.target], g)
      BY <1>3, <1>6, <2>3 DEF Settling, WholeFor
    <3> QED  BY <1>2, <1>3, <1>6, <2>3, <3>1 DEF CallOK, InCall, Gens
  <2> QED  BY <2>1, <2>2, <2>3
<1>8. call' = [call EXCEPT ![p] = n]
  BY <1>1 DEF n
<1> QED  BY <1>1, <1>6, <1>7, <1>8, CallStep

LEMMA EnterStep ==
  ASSUME IInv, NEW p \in Procs, Enter(p)
  PROVE  IInv' /\ Keeping
<1> DEFINE c == call[p]
<1>1. PICK at \in {"lock", "mkdir"} :
        call' = [call EXCEPT ![p] = [c EXCEPT !.target = c.target, !.todo = <<>>,
                                              !.run = FALSE, !.at = at]]
  BY DEF Enter, Does
<1>2. c # None /\ UNCHANGED disk /\ used' \in Uses
  BY DEF Enter, At, IInv, TypeOK, Uses
<1>3. /\ c \in Calls /\ CallOK(c) /\ c.target \in Gens /\ <<>> \in Seq(Writes) /\ at \in Ats
      /\ c.gen \in Gens
  BY <1>2, Started DEF Ats
<1> DEFINE n == [c EXCEPT !.target = c.target, !.todo = <<>>, !.run = FALSE, !.at = at]
<1>4. /\ n \in Calls /\ n.target = c.target /\ n.todo = <<>> /\ n.run = FALSE
      /\ n.at = at /\ n.gen = c.gen /\ n.lock = c.lock
  BY <1>3 DEF Calls
<1> HIDE DEF n
<1>5. CallOK(n)
  BY <1>1, <1>3, <1>4 DEF CallOK, InCall, Resting
<1>6. call' = [call EXCEPT ![p] = n]
  BY <1>1 DEF n
<1> HIDE DEF c
<1> QED  BY <1>2, <1>4, <1>5, <1>6, CallStep DEF c

LEMMA MakeRootStep ==
  ASSUME IInv, NEW p \in Procs, MakeRoot(p)
  PROVE  IInv' /\ Keeping
<1> DEFINE c == call[p]  r == disk.gen[c.gen]
           n == [c EXCEPT !.target = c.target, !.todo = <<>>, !.run = FALSE, !.at = "lock"]
           s == [r EXCEPT !.root = IF r.root = Gone THEN Empty ELSE r.root]
<1>1. /\ c # None /\ c.todo = <<>> /\ used' \in Uses /\ used' = used
      /\ call' = [call EXCEPT ![p] = n] /\ disk' = [disk EXCEPT !.gen[c.gen] = s]
  BY DEF MakeRoot, At, Does, IInv, TypeOK, Uses
<1>2. /\ c \in Calls /\ CallOK(c) /\ c.target \in Gens /\ <<>> \in Seq(Writes)
      /\ "lock" \in Ats /\ c.gen \in Gens /\ c.gen <= disk.active
  BY <1>1, Started DEF Ats
<1>3. r \in Generations /\ Good(r) /\ call \in [Procs -> Calls \cup {None}]
  BY <1>2 DEF IInv, TypeOK
<1>4. /\ n \in Calls /\ n.target = c.target /\ n.todo = <<>> /\ n.run = FALSE
      /\ n.at = "lock" /\ n.gen = c.gen /\ n.lock = c.lock
  BY <1>2 DEF Calls
<1>5. /\ s \in Generations /\ Good(s) /\ Kept(r, s)
      /\ \A m : Extends(s, m) => Extends(r, m)
      /\ \A d \in Calls, a \in Gens : InCall(d, r, a) => InCall(d, s, a)
      /\ Whole(r.root) => s.root = r.root
  <2>1. CASE r.root = Gone
    <3>1. s = [r EXCEPT !.root = Empty]
      BY <2>1
    <3> HIDE DEF s, r
    <3> QED  BY <1>3, <2>1, <3>1, Remade, Shapes
  <2>2. CASE r.root # Gone
    <3>1. s = r
      BY <1>3, <2>2 DEF Generations
    <3> QED  BY <1>3, <3>1 DEF Kept
  <2> QED  BY <2>1, <2>2
<1> HIDE DEF n, s, r
<1>6. /\ disk'.active = disk.active /\ disk'.gen = [disk.gen EXCEPT ![c.gen] = s]
      /\ disk' \in [active : Gens, clock : Nat, gen : [Gens -> Generations],
                    bound : [Gens -> States \cup {None}]]
  BY <1>1, <1>2, <1>5 DEF IInv, TypeOK
<1>7. TypeOK' /\ \A q \in Procs : call'[q] = IF q = p THEN n ELSE call[q]
  BY <1>1, <1>3, <1>4, <1>6 DEF IInv, TypeOK
<1>8. Excluded'
  BY <1>1, <1>4, <1>7 DEF IInv, Excluded
<1>9. ASSUME NEW q \in Procs, call'[q] # None
      PROVE  /\ InCall(call'[q], disk'.gen[call'[q].target], disk.active)
             /\ call'[q].at \in {"first", "inspect", "publish", "finish"} =>
                  Parent(call'[q].gen, call'[q].parent)
  <2>1. /\ disk.active \in Gens /\ disk.gen \in [Gens -> Generations]
        /\ r = disk.gen[c.gen]
    BY DEF IInv, TypeOK, r
  <2>2. /\ call'[q] \in Calls /\ call'[q].target \in Gens
        /\ InCall(call'[q], disk.gen[call'[q].target], disk.active)
        /\ call'[q].at \in {"first", "inspect", "publish", "finish"} =>
             Parent(call'[q].gen, call'[q].parent)
    <3>1. CASE q = p
      BY <1>2, <1>4, <1>7, <3>1 DEF CallOK, InCall, Resting
    <3>2. CASE q # p
      BY <1>7, <1>9, <3>2, Started DEF CallOK
    <3> QED  BY <3>1, <3>2
  <2> QED  BY <1>2, <1>5, <1>6, <2>1, <2>2
<1> HIDE DEF c
<1> QED  BY <1>2, <1>5, <1>6, <1>7, <1>8, <1>9, DiskStep DEF r

\* A call like c that goes on with `todo' is in order.
Fits(c, target, todo, run, at) ==
  \A n \in Calls :
    n.gen = c.gen /\ n.plan = c.plan /\ n.parent = c.parent /\ n.lock = c.lock
      /\ n.swapping = c.swapping /\ n.target = target /\ n.todo = todo
      /\ n.run = run /\ n.at = at
    => CallOK(n)

\* A call goes on with the list it has chosen.
LEMMA DoesStep ==
  ASSUME IInv, UNCHANGED disk, used' \in Uses, NEW p \in Procs, NEW c \in Calls,
         NEW target \in Gens, NEW todo \in Seq(Writes), NEW run \in BOOLEAN, NEW at \in Ats,
         Does(p, c, target, todo, run, at),
         run => RunFree \/ (call[p] # None /\ call[p].run),
         c.lock => \/ GenFree(c.gen)
                   \/ call[p] # None /\ call[p].lock /\ call[p].gen = c.gen,
         Fits(c, target, todo, run, at)
  PROVE  IInv' /\ Keeping
<1> DEFINE n == [c EXCEPT !.target = target, !.todo = todo, !.run = run, !.at = at]
<1>1. call' = [call EXCEPT ![p] = n]
  BY DEF Does
<1>2. /\ n \in Calls /\ n.gen = c.gen /\ n.plan = c.plan /\ n.parent = c.parent
      /\ n.lock = c.lock /\ n.swapping = c.swapping /\ n.target = target /\ n.todo = todo
      /\ n.run = run /\ n.at = at
  BY DEF Calls
<1> HIDE DEF n
<1>3. CallOK(n)
  BY <1>2 DEF Fits
<1> QED  BY <1>1, <1>2, <1>3, CallStep

LEMMA EndStep ==
  ASSUME IInv, UNCHANGED disk, used' \in Uses, NEW p \in Procs, Idle(p)
  PROVE  IInv' /\ Keeping
BY CallStep DEF Idle

LEMMA LockStep ==
  ASSUME IInv, NEW p \in Procs, Lock(p)
  PROVE  IInv' /\ Keeping
<1> DEFINE o == call[p]  c == [o EXCEPT !.lock = TRUE]
           t == IF Lineage(disk.active) THEN Abort(c.gen) ELSE <<"refuse">>
<1>1. o # None /\ UNCHANGED disk /\ used' \in Uses /\ GenFree(o.gen)
  BY DEF Lock, At, IInv, TypeOK, Uses
<1>2. /\ o \in Calls /\ o.gen \in Gens /\ o.gen <= disk.active /\ disk.active \in Gens
      /\ disk.gen \in [Gens -> Generations]
  BY <1>1, Started DEF IInv, TypeOK
<1>3. /\ c \in Calls /\ c.gen = o.gen /\ c.lock
  BY <1>2 DEF Calls
<1>4. \/ disk.active = c.gen /\ Does(p, c, c.gen, <<>>, FALSE, "recover")
      \/ disk.active # c.gen /\ RunFree /\ Does(p, c, c.gen, t, t # <<>>, "again")
  BY DEF Lock
<1> HIDE DEF c, o
<1>5. <<>> \in Seq(Writes) /\ <<"refuse">> \in Seq(Writes) /\ {"recover", "again"} \subseteq Ats
  BY DEF Writes, Ats
<1>6. CASE disk.active = c.gen
  <2>1. ASSUME NEW n \in Calls, n.gen = c.gen, n.lock = c.lock, n.target = c.gen,
               n.todo = <<>>, n.run = FALSE, n.at = "recover"
        PROVE  CallOK(n)
    BY <1>2, <1>3, <2>1 DEF CallOK, InCall, Resting, Gens
  <2>2. Does(p, c, c.gen, <<>>, FALSE, "recover")
    BY <1>4, <1>6
  <2>3. Fits(c, c.gen, <<>>, FALSE, "recover")
    BY <2>1 DEF Fits
  <2> QED  BY <1>1, <1>2, <1>3, <1>5, <2>2, <2>3, DoesStep
<1>7. CASE disk.active # c.gen
  <2>1. t \in {<<>>, <<"refuse">>} \/ (t \in SettleTodos /\ WholeFor(t, disk.gen[c.gen]))
    <3>1. Good(disk.gen[c.gen]) /\ disk.gen[c.gen] \in Generations
      BY <1>2, <1>3 DEF IInv
    <3> QED  BY <1>2, <1>3, <3>1, AbortList
  <2>2. RunFree /\ Does(p, c, c.gen, t, t # <<>>, "again")
    BY <1>4, <1>7
  <2> HIDE DEF t
  <2>3. t \in Seq(Writes) /\ (t # <<>>) \in BOOLEAN
    BY <1>5, <2>1, SettleOrder
  <2>4. ASSUME NEW n \in Calls, n.gen = c.gen, n.lock = c.lock, n.target = c.gen,
               n.todo = t, n.run = (t # <<>>), n.at = "again"
        PROVE  CallOK(n)
    <3>1. n.gen < disk.active /\ n.target <= n.gen /\ n.gen <= disk.active
      BY <1>2, <1>3, <1>7, <2>4 DEF Gens
    <3>2. CASE t = <<>>
      BY <2>4, <3>1, <3>2 DEF CallOK, InCall, Resting
    <3>3. CASE t = <<"refuse">>
      BY <2>4, <3>1, <3>3 DEF CallOK, InCall
    <3>4. CASE t # <<>> /\ t # <<"refuse">>
      <4>1. Settling(n, disk.gen[n.target], disk.active)
        BY <2>1, <2>4, <3>1, <3>4 DEF Settling, WholeFor
      <4> QED  BY <2>4, <3>1, <4>1 DEF CallOK, InCall
    <3> QED  BY <3>2, <3>3, <3>4
  <2>5. Fits(c, c.gen, t, t # <<>>, "again")
    BY <2>4 DEF Fits
  <2> QED  BY <1>1, <1>2, <1>3, <1>5, <2>2, <2>3, <2>5, DoesStep
<1> QED  BY <1>6, <1>7

LEMMA AgainStep ==
  ASSUME IInv, NEW p \in Procs, Again(p)
  PROVE  IInv' /\ Keeping
<1>1. call[p] # None /\ Start(p, call[p].plan)
  BY DEF Again, At
<1>2. call[p].plan \in Plans
  BY <1>1, Started DEF Calls
<1> QED  BY <1>1, <1>2, StartStep

LEMMA RecoverSwapStep ==
  ASSUME IInv, NEW p \in Procs, RecoverSwap(p)
  PROVE  IInv' /\ Keeping
<1> DEFINE o == call[p]  c == [o EXCEPT !.parent = Extended(o.gen)]
           r == disk.gen[c.gen]
           t == IF disk.active = c.gen THEN Recover(r) ELSE Abort(c.gen)
           swapping == r.swap # None /\ ~Ends(t)
           at == IF disk.active # c.gen THEN "again" ELSE IF swapping THEN "inspect" ELSE "first"
           d == [c EXCEPT !.swapping = swapping]
<1>1. /\ o # None /\ UNCHANGED disk /\ used' \in Uses /\ RunFree
      /\ o.at = "recover"
  BY DEF RecoverSwap, At, IInv, TypeOK, Uses
<1>2. /\ o \in Calls /\ o.gen \in Gens /\ o.gen <= disk.active /\ disk.active \in Gens
      /\ disk.gen \in [Gens -> Generations] /\ o.lock
  BY <1>1, Started DEF IInv, TypeOK, CallOK, InCall
<1>3. /\ c \in Calls /\ c.gen = o.gen /\ c.parent = Extended(o.gen) /\ c.lock = o.lock
      /\ c.parent # None => Parent(c.gen, c.parent)
  <2>1. /\ Extended(o.gen) \in Nat \cup {None}
        /\ Extended(o.gen) # None => Parent(o.gen, Extended(o.gen))
    <3>1. CASE o.gen = 1
      BY <3>1 DEF Extended, Parent
    <3>2. CASE o.gen # 1
      <4>1. o.gen - 1 \in Gens /\ o.gen > 1
        BY <1>2, <3>2, DeltaAssumption DEF Gens
      <4>2. Good(disk.gen[o.gen - 1]) /\ disk.gen[o.gen - 1].root \in Trees
        BY <1>2, <4>1 DEF IInv, Generations
      <4>3. Extended(o.gen) = disk.gen[o.gen - 1].root.manifest
        BY <3>2 DEF Extended
      <4>4. Extended(o.gen) \in Nat \cup {None}
        BY <4>2, <4>3, Shapes DEF Trees
      <4>5. Extended(o.gen) # None => Whole(disk.gen[o.gen - 1].root)
        BY <4>2, <4>3, Shapes DEF Good, Shown, Whole
      <4> QED  BY <4>3, <4>4, <4>5 DEF Parent
    <3> QED  BY <3>1, <3>2
  <2> QED  BY <1>2, <2>1 DEF Calls
<1>4. Idle(p) \/ (c.parent # None /\ Does(p, d, c.gen, t, t # <<>>, at))
  BY DEF RecoverSwap, Ends
<1> HIDE DEF c, o
<1>5. /\ r \in Generations /\ Good(r) /\ swapping \in BOOLEAN
  BY <1>2, <1>3 DEF IInv
<1>6. /\ d \in Calls /\ d.gen = c.gen /\ d.lock = c.lock /\ d.parent = c.parent
      /\ d.swapping = swapping
  <2> HIDE DEF swapping
  <2> QED  BY <1>3, <1>5 DEF Calls
<1> HIDE DEF d
<1>7. CASE Idle(p)
  BY <1>1, <1>7, EndStep
<1>8. ASSUME c.parent # None, disk.active # c.gen, Does(p, d, c.gen, t, t # <<>>, at)
      PROVE  IInv' /\ Keeping
  <2>1. t \in {<<>>, <<"refuse">>} \/ (t \in SettleTodos /\ WholeFor(t, r))
    <3> HIDE DEF r
    <3> QED  BY <1>2, <1>3, <1>5, <1>8, AbortList DEF r
  <2>2. at = "again" /\ at \in Ats
    BY <1>8 DEF Ats
  <2> HIDE DEF t, at
  <2>3. t \in Seq(Writes) /\ (t # <<>>) \in BOOLEAN
    <3>1. <<>> \in Seq(Writes) /\ <<"refuse">> \in Seq(Writes)
      BY DEF Writes
    <3> QED  BY <2>1, <3>1, SettleOrder
  <2>4. ASSUME NEW n \in Calls, n.gen = d.gen, n.lock = d.lock, n.target = c.gen,
               n.todo = t, n.run = (t # <<>>), n.at = at
        PROVE  CallOK(n)
    <3>1. n.gen < disk.active /\ n.target <= n.gen /\ n.gen <= disk.active
      BY <1>2, <1>3, <1>6, <1>8, <2>4 DEF Gens
    <3>2. CASE t = <<>>
      BY <2>2, <2>4, <3>1, <3>2 DEF CallOK, InCall, Resting
    <3>3. CASE t = <<"refuse">>
      BY <2>2, <2>4, <3>1, <3>3 DEF CallOK, InCall
    <3>4. CASE t # <<>> /\ t # <<"refuse">>
      <4>1. Settling(n, disk.gen[n.target], disk.active)
        BY <1>6, <2>1, <2>2, <2>4, <3>1, <3>4 DEF Settling, WholeFor
      <4> QED  BY <2>2, <2>4, <3>1, <4>1 DEF CallOK, InCall
    <3> QED  BY <3>2, <3>3, <3>4
  <2>5. Fits(d, c.gen, t, t # <<>>, at)
    BY <2>4 DEF Fits
  <2> HIDE DEF r
  <2> QED  BY <1>1, <1>2, <1>3, <1>6, <1>8, <2>2, <2>3, <2>5, DoesStep DEF o
<1>9. ASSUME c.parent # None, disk.active = c.gen, Does(p, d, c.gen, t, t # <<>>, at)
      PROVE  IInv' /\ Keeping
  <2>1. \/ t = <<>> /\ r.swap = None
        \/ t = <<"refuse">> /\ r.swap # None
        \/ r.swap # None /\ t = Publish
        \/ /\ r.swap # None /\ t = <<"visible">>
           /\ r.candidate = r.swap.new /\ r.backup = r.swap.old
        \/ r.swap # None /\ t = <<"dropCandidate">> /\ r.root = r.swap.new
        \/ /\ r.swap # None /\ WholeFor(t, r)
           /\ t \in Dropping \cup {<<"restore">> \o u : u \in Dropping \cup {<<"refuse">>}}
    <3> HIDE DEF r
    <3> QED  BY <1>5, <1>9, RecoverList
  <2>2. at = IF swapping THEN "inspect" ELSE "first"
    BY <1>9
  <2>3. \/ t \in {<<>>, <<"refuse">>} \cup SwapTodos
        \/ t \in SettleTodos
    BY <2>1 DEF SwapTodos, SettleTodos, EndTodos
  <2>4. swapping <=> r.swap # None /\ ~Ends(t)
    OBVIOUS
  <2> HIDE DEF t, at, swapping, r
  <2>5. t \in Seq(Writes) /\ (t # <<>>) \in BOOLEAN /\ at \in Ats
    <3>1. <<>> \in Seq(Writes) /\ <<"refuse">> \in Seq(Writes) /\ {"inspect", "first"} \subseteq Ats
      BY DEF Writes, Ats
    <3> QED  BY <2>2, <2>3, <3>1, SettleOrder, SwapOrder
  <2>6. ASSUME NEW n \in Calls, n.gen = d.gen, n.lock = d.lock, n.target = c.gen,
               n.parent = d.parent, n.swapping = d.swapping,
               n.todo = t, n.run = (t # <<>>), n.at = at
        PROVE  CallOK(n)
    <3>1. /\ n.target = n.gen /\ n.gen <= disk.active /\ n.target <= n.gen /\ n.lock
          /\ n.gen = disk.active /\ disk.gen[n.target] = r
          /\ n.at = "first" => ~n.swapping
      BY <1>2, <1>3, <1>6, <1>9, <2>2, <2>6 DEF Gens, r
    <3>2. Parent(n.gen, n.parent)
      BY <1>3, <1>6, <1>9, <2>6
    <3>3. t # <<>> => Owns(n, disk.active)
      BY <2>6, <3>1 DEF Owns
    <3>4. InCall(n, r, disk.active)
      <4>1. CASE t = <<>>
        <5>1. /\ <<>> \notin SettleTodos /\ <<>> # Publish /\ <<>> # <<"visible">>
              /\ <<>> # <<"refuse">>
          BY SettleOrder DEF Publish
        <5>2. r.swap = None
          BY <2>1, <4>1, <5>1 DEF SettleTodos, EndTodos
        <5> QED  BY <1>6, <2>2, <2>4, <2>6, <3>1, <4>1, <5>2 DEF InCall, Resting
      <4>2. CASE t = <<"refuse">>
        BY <2>6, <3>1, <4>2 DEF InCall
      <4>3. CASE t \in SwapTodos
        <5>1. t # <<>> /\ Head(t) \in {"aside", "visible"} /\ t \in {Publish, <<"visible">>} /\ r.swap # None
          <6>1. /\ Head(Publish) = "aside" /\ Head(<<"visible">>) = "visible"
                /\ Publish # <<>> /\ <<"visible">> # <<>>
            BY DEF Publish
          <6>2. /\ Publish # <<"visible">> /\ <<"dropCandidate">> \notin SwapTodos
                /\ <<>> \notin SwapTodos /\ <<"refuse">> \notin SwapTodos
            BY SwapOrder DEF SwapTodos, Publish, Replace
          <6>3. \A u \in SettleTodos : u \notin SwapTodos
            <7> SUFFICES ASSUME NEW u \in SettleTodos, u \in SwapTodos PROVE FALSE
              OBVIOUS
            <7> QED  BY SettleOrder, SwapOrder
          <6> QED  BY <2>1, <4>3, <6>1, <6>2, <6>3 DEF SettleTodos, EndTodos
        <5>2. ~Ends(t) /\ swapping /\ at = "inspect"
          BY <2>2, <2>4, <5>1, EndsSwap
        <5>3. Head(t) = "visible" => r.candidate = r.swap.new /\ r.backup = r.swap.old
          <6>1. Head(Publish) = "aside" /\ <<"visible">> \notin SettleTodos
            BY SettleOrder DEF Publish
          <6> QED  BY <2>1, <5>1, <6>1 DEF SettleTodos, EndTodos, Publish
        <5>4. Swapping(n, r, disk.active)
          BY <1>6, <2>6, <3>3, <4>3, <5>1, <5>2, <5>3 DEF Swapping
        <5> QED  BY <2>6, <3>1, <5>4 DEF InCall
      <4>4. CASE t = <<"dropCandidate">> /\ r.swap # None /\ r.root = r.swap.new
        <5>1. t # <<>> /\ Head(t) = "dropCandidate" /\ t \in SettleTodos /\ ~Ends(t)
          BY <4>4, EndsSwap DEF SettleTodos, EndTodos
        <5>2. Settling(n, r, disk.active)
          BY <1>5, <1>6, <2>2, <2>4, <2>6, <3>3, <4>4, <5>1 DEF Settling, Good, Owns
        <5> QED  BY <2>6, <3>1, <5>2 DEF InCall
      <4>5. CASE /\ r.swap # None /\ WholeFor(t, r)
                 /\ t \in Dropping \cup {<<"restore">> \o u : u \in Dropping}
        <5>1. t # <<>> /\ t \in SettleTodos /\ Ends(t)
          BY <4>5, EndsSwap, SettleOrder DEF SettleTodos, EndTodos
        <5>2. Settling(n, r, disk.active)
          BY <2>2, <2>4, <2>6, <3>3, <4>5, <5>1 DEF Settling, WholeFor, Owns
        <5> QED  BY <2>6, <3>1, <5>2 DEF InCall
      <4>6. CASE r.swap # None /\ WholeFor(t, r) /\ t = <<"restore">> \o <<"refuse">>
        <5>1. t # <<>> /\ t \in SettleTodos /\ ~Ends(t)
          BY <4>6, EndsSwap, SettleOrder DEF SettleTodos
        <5>2. Settling(n, r, disk.active)
          BY <2>2, <2>4, <2>6, <3>3, <4>6, <5>1 DEF Settling, WholeFor, Owns
        <5> QED  BY <2>6, <3>1, <5>2 DEF InCall
      <4>7. {Publish, <<"visible">>} \subseteq SwapTodos
        BY DEF SwapTodos
      <4> QED  BY <2>1, <4>1, <4>2, <4>3, <4>4, <4>5, <4>6, <4>7
    <3> QED  BY <3>1, <3>2, <3>4 DEF CallOK
  <2>7. Fits(d, c.gen, t, t # <<>>, at)
    BY <2>6 DEF Fits
  <2> QED  BY <1>1, <1>2, <1>3, <1>6, <1>9, <2>5, <2>7, DoesStep DEF o
<1> QED  BY <1>4, <1>7, <1>8, <1>9

\* A first publication that was interrupted is undone, or left to be finished.
LEMMA RecoverFirstStepInv ==
  ASSUME IInv, NEW p \in Procs, RecoverFirstStep(p)
  PROVE  IInv' /\ Keeping
<1> DEFINE c == call[p]  r == disk.gen[c.gen]  t == RecoverFirst(r)
<1>1. /\ c # None /\ UNCHANGED disk /\ used' \in Uses /\ c.at = "first" /\ c.todo = <<>>
      /\ Does(p, c, c.gen, t, FALSE, "inspect")
  BY DEF RecoverFirstStep, At, IInv, TypeOK, Uses
<1>2. /\ c \in Calls /\ CallOK(c) /\ c.gen \in Gens /\ c.gen <= disk.active
      /\ disk.active \in Gens /\ c.lock /\ c.target = c.gen /\ ~c.swapping
      /\ c.gen <= c.gen /\ r \in Generations /\ Good(r)
  <2>1. /\ c \in Calls /\ CallOK(c) /\ c.gen \in Gens /\ c.gen <= disk.active
        /\ disk.active \in Gens
    BY <1>1, Started
  <2>2. c.lock /\ c.target = c.gen /\ ~c.swapping
    BY <1>1, <2>1 DEF CallOK, InCall
  <2>3. c.gen <= c.gen
    BY <2>1 DEF Gens
  <2>4. r \in Generations /\ Good(r)
    BY <2>1 DEF IInv, TypeOK
  <2> QED  BY <2>1, <2>2, <2>3, <2>4
<1>3. Parent(c.gen, c.parent) /\ (c.gen = disk.active => r.swap = None)
  <2>1. <<>> # <<"refuse">> /\ <<>> \notin SettleTodos
    BY SettleOrder
  <2>2. c.at = "first"
    BY <1>1
  <2>3. Resting(c, r, disk.active)
    <3>1. InCall(c, r, disk.active)
      BY <1>2 DEF CallOK
    <3> QED  BY <1>1, <2>1, <3>1 DEF InCall, Swapping, Firsting, Finishing, Restoring, Settling
  <2> QED  BY <1>2, <2>2, <2>3 DEF CallOK, Resting
<1>4. \/ t = <<>> /\ (r.first # None => r.root.dash = r.first.plan)
      \/ t = <<"refuse">>
      \/ t \in RestoreTodos /\ r.first # None /\ Fine(r.root)
  <2>1. CASE r.first = None
    BY <2>1 DEF RecoverFirst
  <2>2. CASE r.first # None /\ r.first.phase = "preparing"
    <3>1. t = IF r.root = Empty THEN RestoreFirst(r) ELSE <<"refuse">>
      BY <2>2 DEF RecoverFirst
    <3> QED  BY <2>2, <3>1, RestoreFirstList DEF Fine
  <2>3. CASE r.first # None /\ r.first.phase # "preparing"
    <3>1. t = IF r.root.dash = r.first.plan THEN <<>> ELSE RestoreFirst(r)
      BY <2>3 DEF RecoverFirst
    <3> QED  BY <1>2, <2>3, <3>1, RestoreFirstList DEF Good
  <2> QED  BY <2>1, <2>2, <2>3
<1> HIDE DEF t
<1>5. t \in Seq(Writes) /\ "inspect" \in Ats
  <2>1. <<>> \in Seq(Writes) /\ <<"refuse">> \in Seq(Writes)
    BY DEF Writes
  <2> QED  BY <1>4, <2>1, RestoreOrder DEF Ats
<1>6. Fits(c, c.gen, t, FALSE, "inspect")
  <2> SUFFICES ASSUME NEW n \in Calls, n.gen = c.gen, n.parent = c.parent, n.lock = c.lock,
                      n.swapping = c.swapping, n.target = c.gen, n.todo = t, n.run = FALSE,
                      n.at = "inspect"
               PROVE  CallOK(n)
    BY DEF Fits
  <2>1. CASE t = <<>> /\ (r.first # None => r.root.dash = r.first.plan)
    BY <1>2, <1>3, <2>1 DEF CallOK, InCall, Resting
  <2>2. CASE t = <<"refuse">>
    BY <1>2, <1>3, <2>2 DEF CallOK, InCall
  <2>3. CASE t \in RestoreTodos /\ r.first # None /\ Fine(r.root)
    <3>1. Restoring(n, r, disk.active)
      BY <1>2, <1>3, <2>3 DEF Restoring
    <3> QED  BY <1>2, <1>3, <3>1 DEF CallOK, InCall
  <2> QED  BY <1>4, <2>1, <2>2, <2>3
<1> HIDE DEF c, r
<1> QED  BY <1>1, <1>2, <1>5, <1>6, DoesStep DEF c

\* What a call between two lists relies on.
LEMMA Rested ==
  ASSUME IInv, NEW p \in Procs, NEW c, c = call[p], c # None, c.todo = <<>>,
         c.at \in {"inspect", "publish", "finish", "parent"}
  PROVE  /\ c \in Calls /\ c.gen \in Gens /\ c.gen <= disk.active /\ disk.active \in Gens
         /\ c.lock /\ c.target = c.gen /\ c.gen <= c.gen
         /\ disk.gen[c.gen] \in Generations /\ Good(disk.gen[c.gen])
         /\ c.at # "parent" => Parent(c.gen, c.parent)
         /\ Resting(c, disk.gen[c.gen], disk.active)
<1>1. /\ c \in Calls /\ CallOK(c) /\ c.gen \in Gens /\ c.gen <= disk.active
      /\ disk.active \in Gens /\ c.lock /\ c.target = c.gen
  BY Started DEF CallOK, InCall
<1>2. /\ <<>> # <<"refuse">> /\ <<>> \notin SettleTodos /\ <<>> \notin SwapTodos
      /\ <<>> \notin FirstTodos /\ <<>> \notin Unnamed /\ <<>> \notin Named
      /\ <<>> \notin RestoreTodos
  BY SettleOrder, SwapOrder, FirstOrder, FinishOrder, RestoreOrder
<1>3. Resting(c, disk.gen[c.gen], disk.active)
  <2>1. InCall(c, disk.gen[c.gen], disk.active)
    BY <1>1 DEF CallOK
  <2> QED  BY <1>2, <2>1 DEF InCall, Swapping, Firsting, Finishing, Restoring, Settling
<1>4. c.gen <= c.gen
  BY <1>1 DEF Gens
<1>5. disk.gen[c.gen] \in Generations /\ Good(disk.gen[c.gen])
  BY <1>1 DEF IInv, TypeOK
<1>6. c.at # "parent" => Parent(c.gen, c.parent)
  <2>1. c.at \in {"inspect", "publish", "finish", "parent"} /\ CallOK(c)
    BY <1>1
  <2> QED  BY <2>1 DEF CallOK
<1> QED  BY <1>1, <1>3, <1>4, <1>5, <1>6

\* What was seen is published, or finished.
LEMMA InspectStep ==
  ASSUME IInv, NEW p \in Procs, Inspect(p)
  PROVE  IInv' /\ Keeping
<1> DEFINE c == call[p]  r == disk.gen[c.gen]
           fits == r.root.dash \in Plans /\ r.root.dash <= c.plan /\ r.root.parent = c.parent
           t == IF ~c.swapping THEN FinishFirst(r)
                ELSE IF r.swap # None THEN Finish(r) ELSE <<"refuse">>
<1>1. /\ c # None /\ UNCHANGED disk /\ used' \in Uses /\ c.at = "inspect" /\ c.todo = <<>>
  BY DEF Inspect, At, IInv, TypeOK, Uses
<1>2. /\ c \in Calls /\ c.gen \in Gens /\ c.gen <= disk.active /\ disk.active \in Gens
      /\ c.lock /\ c.target = c.gen /\ c.gen <= c.gen /\ r \in Generations /\ Good(r)
      /\ Parent(c.gen, c.parent) /\ Resting(c, r, disk.active)
  BY <1>1, Rested
<1>3. \/ Idle(p)
      \/ /\ Does(p, c, c.gen, <<>>, FALSE, "publish")
         /\ \/ r.root = Empty
            \/ fits /\ r.first = None /\ ~c.swapping /\ r.root.manifest # None
      \/ Does(p, c, c.gen, <<>>, FALSE, "again")
      \/ /\ Does(p, c, c.gen, t, TRUE, "done") /\ RunFree /\ disk.active = c.gen
         /\ fits /\ (r.first # None \/ c.swapping)
  <2>1. CASE r.root = Empty
    BY <2>1 DEF Inspect
  <2>2. CASE r.root # Empty /\ ~fits
    BY <2>2 DEF Inspect
  <2>3. CASE r.root # Empty /\ fits /\ (r.first # None \/ c.swapping)
    BY <2>3 DEF Inspect
  <2>4. CASE r.root # Empty /\ fits /\ ~(r.first # None \/ c.swapping)
    BY <2>4 DEF Inspect
  <2> QED  BY <2>1, <2>2, <2>3, <2>4
<1>4. <<>> \in Seq(Writes) /\ <<"refuse">> \in Seq(Writes) /\ {"publish", "again", "done"} \subseteq Ats
  BY DEF Writes, Ats
<1>5. CASE Idle(p)
  BY <1>1, <1>5, EndStep
<1>6. CASE /\ Does(p, c, c.gen, <<>>, FALSE, "publish")
           /\ \/ r.root = Empty
              \/ fits /\ r.first = None /\ ~c.swapping /\ r.root.manifest # None
  <2>1. c.gen = disk.active =>
          /\ r.swap = None
          /\ r.root = Empty \/ (Whole(r.root) /\ r.first = None /\ r.root.dash <= c.plan)
    <3> SUFFICES ASSUME c.gen = disk.active
                 PROVE  /\ r.swap = None
                        /\ r.root = Empty \/ (Whole(r.root) /\ r.first = None /\ r.root.dash <= c.plan)
      OBVIOUS
    <3>1. IF c.swapping THEN r.swap # None /\ r.root = r.swap.new ELSE r.swap = None
      BY <1>1, <1>2 DEF Resting
    <3>2. CASE r.root = Empty
      BY <1>2, <3>1, <3>2, Shapes DEF Good
    <3>3. CASE fits /\ r.first = None /\ ~c.swapping /\ r.root.manifest # None
      BY <1>2, <3>1, <3>3, Shapes DEF Good, Fine
    <3> QED  BY <1>6, <3>2, <3>3
  <2>2. Fits(c, c.gen, <<>>, FALSE, "publish")
    <3> SUFFICES ASSUME NEW n \in Calls, n.gen = c.gen, n.parent = c.parent, n.lock = c.lock,
                        n.plan = c.plan, n.target = c.gen, n.todo = <<>>, n.run = FALSE,
                        n.at = "publish"
                 PROVE  CallOK(n)
      BY DEF Fits
    <3> HIDE DEF c
    <3> QED  BY <1>2, <2>1 DEF CallOK, InCall, Resting
  <2> HIDE DEF c, r
  <2> QED  BY <1>1, <1>2, <1>4, <1>6, <2>2, DoesStep DEF c
<1>7. CASE Does(p, c, c.gen, <<>>, FALSE, "again")
  <2>1. Fits(c, c.gen, <<>>, FALSE, "again")
    <3> SUFFICES ASSUME NEW n \in Calls, n.gen = c.gen, n.lock = c.lock,
                        n.target = c.gen, n.todo = <<>>, n.run = FALSE, n.at = "again"
                 PROVE  CallOK(n)
      BY DEF Fits
    <3> HIDE DEF c
    <3> QED  BY <1>2 DEF CallOK, InCall, Resting
  <2> HIDE DEF c, r
  <2> QED  BY <1>1, <1>2, <1>4, <1>7, <2>1, DoesStep DEF c
<1>8. CASE /\ Does(p, c, c.gen, t, TRUE, "done") /\ RunFree /\ disk.active = c.gen
           /\ fits /\ (r.first # None \/ c.swapping)
  <2>1. IF c.swapping THEN r.swap # None /\ r.root = r.swap.new
        ELSE r.swap = None /\ (r.first # None => r.root.dash = r.first.plan)
    BY <1>1, <1>2, <1>8 DEF Resting
  <2>2. \/ t = <<"refuse">>
        \/ t \in SettleTodos /\ WholeFor(t, r)
        \/ /\ r.swap = None /\ r.first # None /\ r.root.dash = r.first.plan
           /\ t \in Unnamed \/ (t \in Named /\ Whole(r.root))
    BY <1>2, <1>8, <2>1, FinishList, FinishFirstList
  <2> HIDE DEF t
  <2>3. t \in Seq(Writes)
    BY <1>4, <2>2, SettleOrder, FinishOrder
  <2>4. Fits(c, c.gen, t, TRUE, "done")
    <3> SUFFICES ASSUME NEW n \in Calls, n.gen = c.gen, n.lock = c.lock,
                        n.target = c.gen, n.todo = t, n.run = TRUE, n.at = "done"
                 PROVE  CallOK(n)
      BY DEF Fits
    <3>1. Owns(n, disk.active)
      BY <1>2, <1>8 DEF Owns
    <3>2. CASE t = <<"refuse">>
      BY <1>2, <3>2 DEF CallOK, InCall
    <3>3. CASE t \in SettleTodos /\ WholeFor(t, r)
      <4>1. Settling(n, r, disk.active)
        BY <3>1, <3>3 DEF Settling, WholeFor
      <4> QED  BY <1>2, <4>1 DEF CallOK, InCall
    <3>4. CASE /\ r.swap = None /\ r.first # None /\ r.root.dash = r.first.plan
               /\ t \in Unnamed \/ (t \in Named /\ Whole(r.root))
      <4>1. Finishing(n, r, disk.active)
        BY <3>1, <3>4 DEF Finishing
      <4> QED  BY <1>2, <4>1 DEF CallOK, InCall
    <3> QED  BY <2>2, <3>2, <3>3, <3>4
  <2> HIDE DEF c, r
  <2> QED  BY <1>1, <1>2, <1>4, <1>8, <2>3, <2>4, DoesStep DEF c
<1> QED  BY <1>3, <1>5, <1>6, <1>7, <1>8

\* A product that is visible is replaced, the first one published.
LEMMA PublishStepInv ==
  ASSUME IInv, NEW p \in Procs, PublishStep(p)
  PROVE  IInv' /\ Keeping
<1> DEFINE c == call[p]  r == disk.gen[c.gen]
<1>1. /\ c # None /\ UNCHANGED disk /\ used' \in Uses /\ c.at = "publish" /\ c.todo = <<>>
      /\ RunFree
  BY DEF PublishStep, At, IInv, TypeOK, Uses
<1>2. /\ c \in Calls /\ c.gen \in Gens /\ c.gen <= disk.active /\ disk.active \in Gens
      /\ c.lock /\ c.target = c.gen /\ c.gen <= c.gen /\ r \in Generations /\ Good(r)
      /\ Parent(c.gen, c.parent) /\ Resting(c, r, disk.active)
  BY <1>1, Rested
<1>3. \/ Idle(p)
      \/ Does(p, c, c.gen, <<>>, FALSE, "again")
      \/ /\ disk.active = c.gen /\ r.root = Empty
         /\ Does(p, c, c.gen, FirstStage, TRUE, "finish")
      \/ /\ disk.active = c.gen /\ r.root # Empty /\ r.root.dash # c.plan
         /\ Does(p, c, c.gen, Replace, TRUE, "finish")
  BY DEF PublishStep
<1>4. CASE Idle(p)
  BY <1>1, <1>4, EndStep
<1>5. CASE Does(p, c, c.gen, <<>>, FALSE, "again")
  <2>1. Fits(c, c.gen, <<>>, FALSE, "again")
    <3> SUFFICES ASSUME NEW n \in Calls, n.gen = c.gen, n.lock = c.lock,
                        n.target = c.gen, n.todo = <<>>, n.run = FALSE, n.at = "again"
                 PROVE  CallOK(n)
      BY DEF Fits
    <3> HIDE DEF c
    <3> QED  BY <1>2 DEF CallOK, InCall, Resting
  <2>2. <<>> \in Seq(Writes) /\ "again" \in Ats
    BY DEF Ats
  <2> HIDE DEF c, r
  <2> QED  BY <1>1, <1>2, <1>5, <2>1, <2>2, DoesStep DEF c
<1>6. ASSUME NEW t \in SwapTodos \cup FirstTodos, disk.active = c.gen,
             Does(p, c, c.gen, t, TRUE, "finish"),
             \/ t = FirstStage /\ r.root = Empty
             \/ t = Replace /\ r.root # Empty /\ r.root.dash # c.plan
      PROVE  IInv' /\ Keeping
  <2>1. /\ r.swap = None
        /\ r.root = Empty \/ (Whole(r.root) /\ r.first = None /\ r.root.dash <= c.plan)
    BY <1>1, <1>2, <1>6 DEF Resting
  <2>2. t \in Seq(Writes) /\ "finish" \in Ats
    BY SwapOrder, FirstOrder DEF Ats
  <2>3. Fits(c, c.gen, t, TRUE, "finish")
    <3> SUFFICES ASSUME NEW n \in Calls, n.gen = c.gen, n.parent = c.parent, n.lock = c.lock,
                        n.plan = c.plan, n.target = c.gen, n.todo = t, n.run = TRUE,
                        n.at = "finish"
                 PROVE  CallOK(n)
      BY DEF Fits
    <3>1. Owns(n, disk.active)
      BY <1>2, <1>6 DEF Owns
    <3>2. CASE t = FirstStage /\ r.root = Empty
      <4>1. t \in FirstTodos /\ Head(t) = "save"
        BY <3>2 DEF FirstTodos, FirstStage
      <4>2. Firsting(n, r, disk.active)
        BY <2>1, <3>1, <3>2, <4>1 DEF Firsting
      <4> QED  BY <1>2, <4>2 DEF CallOK, InCall
    <3>3. CASE t = Replace /\ r.root # Empty /\ r.root.dash # c.plan
      <4>1. t \in SwapTodos /\ Head(t) = "swapIntent"
        BY <3>3 DEF SwapTodos, Replace
      <4>2. Whole(r.root) /\ r.first = None /\ r.root.dash < c.plan
        <5>1. r.root.dash \in Nat /\ c.plan \in Nat
          BY <1>2, <2>1, <3>3, Shapes DEF Whole, Calls
        <5> QED  BY <2>1, <3>3, <5>1
      <4>3. Swapping(n, r, disk.active)
        BY <2>1, <3>1, <4>1, <4>2 DEF Swapping
      <4> QED  BY <1>2, <4>3 DEF CallOK, InCall
    <3> QED  BY <1>6, <3>2, <3>3
  <2> HIDE DEF c, r
  <2> QED  BY <1>1, <1>2, <1>6, <2>2, <2>3, DoesStep DEF c
<1>7. FirstStage \in FirstTodos /\ Replace \in SwapTodos
  BY DEF FirstTodos, SwapTodos
<1> QED  BY <1>3, <1>4, <1>5, <1>6, <1>7

LEMMA FinishStepInv ==
  ASSUME IInv, NEW p \in Procs, FinishStep(p)
  PROVE  IInv' /\ Keeping
<1> DEFINE c == call[p]  r == disk.gen[c.gen]
           t == IF r.first # None THEN FinishFirst(r) ELSE Finish(r)
<1>1. /\ c # None /\ UNCHANGED disk /\ used' \in Uses /\ c.at = "finish" /\ c.todo = <<>>
      /\ c.run /\ Does(p, c, c.gen, t, TRUE, "parent")
  BY DEF FinishStep, Held, IInv, TypeOK, Uses
<1>2. /\ c \in Calls /\ c.gen \in Gens /\ c.gen <= disk.active /\ disk.active \in Gens
      /\ c.lock /\ c.target = c.gen /\ c.gen <= c.gen /\ r \in Generations /\ Good(r)
      /\ Resting(c, r, disk.active)
  BY <1>1, Rested
<1>3. /\ Owns(c, disk.active)
      /\ \/ r.first # None /\ r.root.dash = r.first.plan /\ r.swap = None
         \/ r.first = None /\ r.swap # None /\ r.root = r.swap.new
  BY <1>1, <1>2 DEF Resting
<1>4. \/ t = <<"refuse">>
      \/ t \in SettleTodos /\ WholeFor(t, r)
      \/ /\ r.swap = None /\ r.first # None /\ r.root.dash = r.first.plan
         /\ t \in Unnamed \/ (t \in Named /\ Whole(r.root))
  BY <1>2, <1>3, FinishList, FinishFirstList
<1> HIDE DEF t
<1>5. t \in Seq(Writes) /\ "parent" \in Ats
  <2>1. <<"refuse">> \in Seq(Writes)
    BY DEF Writes
  <2> QED  BY <1>4, <2>1, SettleOrder, FinishOrder DEF Ats
<1>6. Fits(c, c.gen, t, TRUE, "parent")
  <2> SUFFICES ASSUME NEW n \in Calls, n.gen = c.gen, n.lock = c.lock,
                      n.target = c.gen, n.todo = t, n.run = TRUE, n.at = "parent"
               PROVE  CallOK(n)
    BY DEF Fits
  <2>1. Owns(n, disk.active)
    BY <1>3 DEF Owns
  <2>2. CASE t = <<"refuse">>
    BY <1>2, <2>2 DEF CallOK, InCall
  <2>3. CASE t \in SettleTodos /\ WholeFor(t, r)
    <3>1. Settling(n, r, disk.active)
      BY <2>1, <2>3 DEF Settling, WholeFor
    <3> QED  BY <1>2, <3>1 DEF CallOK, InCall
  <2>4. CASE /\ r.swap = None /\ r.first # None /\ r.root.dash = r.first.plan
             /\ t \in Unnamed \/ (t \in Named /\ Whole(r.root))
    <3>1. Finishing(n, r, disk.active)
      BY <2>1, <2>4 DEF Finishing
    <3> QED  BY <1>2, <3>1 DEF CallOK, InCall
  <2> QED  BY <1>4, <2>2, <2>3, <2>4
<1> HIDE DEF c, r
<1> QED  BY <1>1, <1>2, <1>5, <1>6, DoesStep DEF c

LEMMA ParentStepInv ==
  ASSUME IInv, NEW p \in Procs, ParentStep(p)
  PROVE  IInv' /\ Keeping
<1> DEFINE c == call[p]  t == ReconcileParent(c.gen)
<1>1. /\ c # None /\ UNCHANGED disk /\ used' \in Uses /\ c.at = "parent" /\ c.todo = <<>>
      /\ c.run /\ (Idle(p) \/ (t # <<>> /\ Does(p, c, c.gen - 1, t, TRUE, "done")))
  BY DEF ParentStep, Held, IInv, TypeOK, Uses
<1>2. /\ c \in Calls /\ c.gen \in Gens /\ c.gen <= disk.active /\ disk.active \in Gens
      /\ c.lock
  BY <1>1, Rested
<1>3. \/ t = <<>>
      \/ /\ c.gen - 1 \in Gens /\ c.gen - 1 < disk.active
         /\ t = <<"refuse">> \/ (t \in SettleTodos /\ WholeFor(t, disk.gen[c.gen - 1]))
  BY <1>2, ReconcileList
<1> HIDE DEF t
<1>4. CASE Idle(p)
  BY <1>1, <1>4, EndStep
<1>5. CASE t # <<>> /\ Does(p, c, c.gen - 1, t, TRUE, "done")
  <2>1. t \in Seq(Writes) /\ "done" \in Ats
    <3>1. <<"refuse">> \in Seq(Writes)
      BY DEF Writes
    <3> QED  BY <1>3, <1>5, <3>1, SettleOrder DEF Ats
  <2>2. Fits(c, c.gen - 1, t, TRUE, "done")
    <3> SUFFICES ASSUME NEW n \in Calls, n.gen = c.gen, n.target = c.gen - 1, n.todo = t,
                        n.run = TRUE, n.at = "done"
                 PROVE  CallOK(n)
      BY DEF Fits
    <3>1. n.gen <= disk.active /\ n.target <= n.gen /\ n.target < disk.active
      BY <1>2, <1>3, <1>5 DEF Gens
    <3>2. CASE t = <<"refuse">>
      BY <3>1, <3>2 DEF CallOK, InCall
    <3>3. CASE t # <<"refuse">>
      <4>1. Settling(n, disk.gen[n.target], disk.active)
        BY <1>3, <1>5, <3>1, <3>3 DEF Settling, WholeFor
      <4> QED  BY <3>1, <4>1 DEF CallOK, InCall
    <3> QED  BY <3>2, <3>3
  <2>3. c.gen - 1 \in Gens
    BY <1>3, <1>5
  <2> HIDE DEF c
  <2> QED  BY <1>1, <1>2, <1>5, <2>1, <2>2, <2>3, DoesStep DEF c
<1> QED  BY <1>1, <1>4, <1>5

-----------------------------------------------------------------------------
(* The rest of the run. *)

\* The handler of a failed copy takes the copy and the intent away.
LEMMA CopyFailsStep ==
  ASSUME IInv, NEW p \in Procs, CopyFails(p)
  PROVE  IInv' /\ Keeping
<1> DEFINE c == call[p]  r == disk.gen[c.target]
<1>1. /\ c # None /\ c.todo # <<>> /\ UNCHANGED disk /\ used' \in Uses
  <2>1. used \in Uses /\ MaxFaults \in Nat /\ used.faults < MaxFaults
    BY DeltaAssumption DEF CopyFails, IInv, TypeOK, Uses
  <2>2. used.faults + 1 \in 0 .. MaxFaults /\ used' = [used EXCEPT !.faults = @ + 1]
    BY <2>1 DEF CopyFails, Uses
  <2>3. used' \in Uses
    BY <2>1, <2>2 DEF Uses
  <2> QED  BY <2>3 DEF CopyFails
<1>2. /\ c \in Calls /\ CallOK(c) /\ c.target \in Gens /\ c.gen \in Gens /\ disk.active \in Gens
      /\ r \in Generations /\ Good(r)
  BY <1>1, Started
<1>3. Head(<<"refuse">>) = "refuse"
  OBVIOUS
<1>4. Head(c.todo) = "copied" => Swapping(c, r, disk.active)
  BY <1>1, <1>2, <1>3, SwapOrder, FirstOrder, FinishOrder, RestoreOrder, SettleOrder
     DEF CallOK, InCall, Firsting, Finishing, Restoring, Settling
<1>5. Head(c.todo) = "staged" => Firsting(c, r, disk.active)
  BY <1>1, <1>2, <1>3, SwapOrder, FirstOrder, FinishOrder, RestoreOrder, SettleOrder
     DEF CallOK, InCall, Swapping, Finishing, Restoring, Settling
<1>6. PICK t \in {<<"dropCandidate", "dropSwap", "refuse">>, <<"dropStaging", "dropFirst", "refuse">>} :
        /\ Does(p, c, c.target, t, TRUE, "done")
        /\ t = <<"dropCandidate", "dropSwap", "refuse">> => Head(c.todo) = "copied"
        /\ t = <<"dropStaging", "dropFirst", "refuse">> => Head(c.todo) = "staged"
  <2>1. /\ <<"dropCandidate", "dropSwap", "refuse">> # <<"dropStaging", "dropFirst", "refuse">>
    OBVIOUS
  <2>2. CASE Head(c.todo) = "copied"
    BY <2>1, <2>2 DEF CopyFails
  <2>3. CASE Head(c.todo) = "staged"
    BY <2>1, <2>3 DEF CopyFails
  <2> QED  BY <2>2, <2>3 DEF CopyFails
<1>7. /\ t \in Seq(Writes) /\ "done" \in Ats
      /\ Head(t) # "restore"
      /\ t = <<"dropCandidate", "dropSwap", "refuse">> => t \in SettleTodos
      /\ t = <<"dropStaging", "dropFirst", "refuse">> => t \in RestoreTodos
  <2>1. CASE t = <<"dropCandidate", "dropSwap", "refuse">>
    BY <2>1 DEF Writes, Ats, SettleTodos, EndTodos
  <2>2. CASE t = <<"dropStaging", "dropFirst", "refuse">>
    BY <2>2 DEF Writes, Ats, RestoreTodos, Undoing
  <2> QED  BY <1>6, <2>1, <2>2
<1>8. c.run /\ Owns(c, disk.active)
  BY <1>4, <1>5, <1>6 DEF Swapping, Firsting, Owns
<1>9. Fits(c, c.target, t, TRUE, "done")
  <2> SUFFICES ASSUME NEW n \in Calls, n.gen = c.gen, n.lock = c.lock,
                      n.target = c.target, n.todo = t, n.run = TRUE, n.at = "done"
               PROVE  CallOK(n)
    BY DEF Fits
  <2>1. Owns(n, disk.active) /\ n.gen <= disk.active /\ n.target <= n.gen
    BY <1>2, <1>8 DEF Owns, CallOK, InCall
  <2>2. CASE t = <<"dropCandidate", "dropSwap", "refuse">>
    <3>1. Whole(r.root)
      BY <1>2, <1>4, <1>6, <2>2 DEF Swapping, Good
    <3>2. Settling(n, r, disk.active)
      BY <1>7, <2>1, <2>2, <3>1 DEF Settling
    <3> QED  BY <2>1, <3>2 DEF CallOK, InCall
  <2>3. CASE t = <<"dropStaging", "dropFirst", "refuse">>
    <3>1. r.first # None /\ Fine(r.root)
      BY <1>5, <1>6, <2>3 DEF Firsting, Fine
    <3>2. Restoring(n, r, disk.active)
      BY <1>7, <2>1, <2>3, <3>1 DEF Restoring, Owns
    <3> QED  BY <2>1, <3>2 DEF CallOK, InCall
  <2> QED  BY <1>6, <2>2, <2>3
<1> HIDE DEF c, r
<1> QED  BY <1>1, <1>2, <1>6, <1>7, <1>8, <1>9, DoesStep DEF c

\* Half a removal leaves the files good and the others alone, as a whole one does.
LEMMA HalfRemoved ==
  ASSUME IInv, NEW p \in Procs, call[p] # None, call[p].todo # <<>>,
         NEW c, c = call[p], NEW r, r = disk.gen[c.target],
         NEW s, s = Halved(Head(c.todo), r)
  PROVE  /\ s \in Generations /\ Good(s) /\ Kept(r, s) /\ s.root = r.root
         /\ \A m : Extends(s, m) => Extends(r, m)
         /\ \A q \in Procs \ {p} : call[q] # None /\ call[q].target = c.target =>
              InCall(call[q], s, disk.active)
<1> DEFINE a == disk.active  w == Head(c.todo)
<1>1. /\ c \in Calls /\ r \in Generations /\ Good(r) /\ a \in Gens /\ InCall(c, r, a)
      /\ c.target <= a
  <2>1. c.target \in Nat /\ c.gen \in Nat /\ a \in Nat
    BY Started DEF Gens
  <2> QED  BY <2>1, Started DEF CallOK
<1>2. ASSUME NEW q \in Procs \ {p}, call[q] # None, call[q].target = c.target
      PROVE  /\ call[q] \in Calls /\ InCall(call[q], r, a)
             /\ ~(c.run /\ call[q].run)
             /\ c.lock => ~(call[q].lock /\ call[q].gen = c.gen)
  BY <1>2, Started DEF CallOK, IInv, Excluded
<1>3. CASE s = r
  BY <1>1, <1>2, <1>3 DEF Kept
<1>4. CASE w \in {"dropCandidate", "dropBackup"}
  <2>1. Settling(c, r, a)
    <3>1. <<"refuse">> # <<>> /\ Head(<<"refuse">>) = "refuse"
      OBVIOUS
    <3>2. ~Swapping(c, r, a) /\ ~Firsting(c, r, a) /\ ~Finishing(c, r, a) /\ ~Restoring(c, r, a)
      BY <1>4, SwapOrder, FirstOrder, FinishOrder, RestoreOrder
         DEF Swapping, Firsting, Finishing, Restoring
    <3> QED  BY <1>1, <1>4, <3>1, <3>2 DEF InCall
  <2>2. c.run /\ (c.target < a \/ Owns(c, a)) /\ Whole(r.root)
    BY <1>4, <2>1 DEF Settling
  <2>3. /\ s \in Generations /\ s.root = r.root /\ s.swap = r.swap /\ s.first = r.first
        /\ s.backup \in {r.backup, Part}
    BY <1>1, <1>4, Shapes DEF Halved, Generations
  <2>4. Good(s) /\ Kept(r, s) /\ \A m : Extends(s, m) => Extends(r, m)
    BY <1>1, <2>2, <2>3, Shapes DEF Good, Kept, Extends
  <2>5. ASSUME NEW q \in Procs \ {p}, call[q] # None, call[q].target = c.target
        PROVE  InCall(call[q], s, a)
    <3>1. ~call[q].run /\ (call[q].lock /\ call[q].target = call[q].gen => call[q].gen # a)
      BY <1>1, <1>2, <2>2, <2>5 DEF Gens, Owns
    <3> HIDE DEF a
    <3> QED  BY <1>1, <1>2, <2>3, <2>5, <3>1, Undisturbed
  <2> QED  BY <2>3, <2>4, <2>5
<1>5. CASE w = "dropStaging"
  <2>1. Restoring(c, r, a)
    <3>1. <<"refuse">> # <<>> /\ Head(<<"refuse">>) = "refuse"
      OBVIOUS
    <3>2. ~Swapping(c, r, a) /\ ~Firsting(c, r, a) /\ ~Finishing(c, r, a) /\ ~Settling(c, r, a)
      BY <1>5, SwapOrder, FirstOrder, FinishOrder, SettleOrder
         DEF Swapping, Firsting, Finishing, Settling
    <3> QED  BY <1>1, <1>5, <3>1, <3>2 DEF InCall
  <2>2. /\ s \in Generations /\ s.root = r.root /\ s.swap = r.swap /\ s.first = r.first
        /\ s.backup = r.backup
    BY <1>1, <1>5, Shapes DEF Halved, Generations
  <2>3. Good(s) /\ Kept(r, s) /\ \A m : Extends(s, m) => Extends(r, m)
    BY <1>1, <2>2 DEF Good, Kept, Extends
  <2>4. ASSUME NEW q \in Procs \ {p}, call[q] # None, call[q].target = c.target
        PROVE  InCall(call[q], s, a)
    <3>1. ~(call[q].lock /\ call[q].target = call[q].gen)
      BY <1>2, <2>1, <2>4 DEF Restoring
    <3> HIDE DEF a
    <3> QED  BY <1>1, <1>2, <2>2, <2>4, <3>1, Unconcerned
  <2> QED  BY <2>2, <2>3, <2>4
<1> QED  BY <1>3, <1>4, <1>5 DEF Halved

LEMMA KillStep ==
  ASSUME IInv, NEW p \in Procs, Kill(p)
  PROVE  IInv' /\ Keeping
<1> DEFINE c == call[p]  r == disk.gen[c.target]  s == Halved(Head(c.todo), r)
<1>1. used \in Uses /\ MaxFaults \in Nat /\ used.faults < MaxFaults
  BY DeltaAssumption DEF Kill, IInv, TypeOK, Uses
<1>2. used.faults + 1 \in 0 .. MaxFaults /\ used' = [used EXCEPT !.faults = @ + 1]
  BY <1>1 DEF Kill, Uses
<1>3. used' \in Uses /\ Idle(p) /\ c # None
  BY <1>1, <1>2 DEF Uses, Kill
<1>4. CASE UNCHANGED disk
  BY <1>3, <1>4, EndStep
<1>5. CASE c.todo # <<>> /\ disk' = [disk EXCEPT !.gen[c.target] = s]
  <2>1. /\ s \in Generations /\ Good(s) /\ Kept(r, s) /\ s.root = r.root
        /\ \A m : Extends(s, m) => Extends(r, m)
        /\ \A q \in Procs \ {p} : call[q] # None /\ call[q].target = c.target =>
             InCall(call[q], s, disk.active)
    BY <1>3, <1>5, HalfRemoved
  <2>2. c.target \in Gens /\ c.target <= disk.active
    <3>1. c.target \in Nat /\ c.gen \in Nat /\ disk.active \in Nat
      BY <1>3, Started DEF Gens
    <3> QED  BY <1>3, <3>1, Started
  <2> HIDE DEF s
  <2>3. /\ disk'.active = disk.active /\ disk'.gen = [disk.gen EXCEPT ![c.target] = s]
        /\ disk' \in [active : Gens, clock : Nat, gen : [Gens -> Generations],
                      bound : [Gens -> States \cup {None}]]
    BY <1>5, <2>1, <2>2 DEF IInv, TypeOK
  <2>4. /\ call \in [Procs -> Calls \cup {None}]
        /\ \A q \in Procs : call'[q] = IF q = p THEN None ELSE call[q]
    BY <1>3 DEF Idle, IInv, TypeOK
  <2>5. TypeOK' /\ Excluded'
    <3>1. call' \in [Procs -> Calls \cup {None}]
      BY <1>3, <2>4 DEF Idle
    <3>2. TypeOK'
      BY <1>3, <2>3, <3>1 DEF TypeOK, Uses
    <3>3. Excluded'
      BY <2>4 DEF IInv, Excluded
    <3> QED  BY <3>2, <3>3
  <2>6. ASSUME NEW q \in Procs, call'[q] # None
        PROVE  /\ InCall(call'[q], disk'.gen[call'[q].target], disk.active)
               /\ call'[q].at \in {"first", "inspect", "publish", "finish"} =>
                    Parent(call'[q].gen, call'[q].parent)
    <3>1. q # p /\ call'[q] = call[q] /\ call[q] # None
      BY <2>4, <2>6
    <3>2. CallOK(call[q]) /\ call[q].target \in Gens
      BY <3>1, Started
    <3>3. InCall(call[q], disk'.gen[call[q].target], disk.active)
      <4>1. CASE call[q].target = c.target
        BY <2>1, <2>2, <2>3, <3>1, <4>1 DEF IInv, TypeOK
      <4>2. CASE call[q].target # c.target
        BY <2>3, <3>2, <4>2 DEF IInv, TypeOK, CallOK
      <4> QED  BY <4>1, <4>2
    <3> QED  BY <3>1, <3>2, <3>3 DEF CallOK
  <2> HIDE DEF c, r
  <2> QED  BY <2>1, <2>2, <2>3, <2>5, <2>6, DiskStep DEF r
<1> QED  BY <1>4, <1>5 DEF Kill

LEMMA NewGenerationStep ==
  ASSUME IInv, NewGeneration
  PROVE  IInv' /\ Keeping
<1> DEFINE a == disk.active
<1>1. /\ a \in Gens /\ a \in Nat /\ a < MaxGens /\ a + 1 \in Gens /\ RunFree
      /\ UNCHANGED <<call, used>>
      /\ disk' = [disk EXCEPT !.active = a + 1, !.bound[a + 1] = disk.gen[a].state]
  BY DeltaAssumption DEF NewGeneration, IInv, TypeOK, Gens
<1>2. /\ disk'.active = a + 1 /\ disk'.gen = disk.gen
      /\ TypeOK'
  <2>1. disk.gen[a].state \in States
    BY <1>1 DEF IInv, TypeOK, Generations
  <2> QED  BY <1>1, <2>1 DEF IInv, TypeOK
<1>3. \A g \in Gens : Good(disk'.gen[g]) /\ Stands(g)'
  BY <1>2 DEF IInv, Stands, Parent
<1>4. \A g \in Gens : g > disk'.active => disk'.gen[g] = Blank
  <2> SUFFICES ASSUME NEW g \in Gens, g > a + 1 PROVE disk.gen[g] = Blank
    BY <1>2
  <2>1. g > a
    BY <1>1 DEF Gens
  <2> QED  BY <2>1 DEF IInv
<1>5. ASSUME NEW q \in Procs, call'[q] # None PROVE CallOK(call[q])'
  <2>1. /\ call'[q] = call[q] /\ call[q] \in Calls /\ ~call[q].run /\ CallOK(call[q])
        /\ disk.gen[call[q].target] \in Generations
    BY <1>1, <1>5, Started DEF RunFree
  <2>2. InCall(call[q], disk.gen[call[q].target], a + 1)
    <3> HIDE DEF a
    <3> QED  BY <1>1, <2>1, Appended DEF CallOK, a
  <2> QED  BY <1>2, <2>1, <2>2 DEF CallOK, Parent
<1>6. Excluded'
  BY <1>1 DEF IInv, Excluded
<1>7. Keeping
  BY <1>2 DEF Keeping, Kept
<1> QED  BY <1>2, <1>3, <1>4, <1>5, <1>6, <1>7 DEF IInv

LEMMA SwitchStep ==
  ASSUME IInv, Switch
  PROVE  IInv' /\ Keeping
<1> DEFINE a == disk.active  r == disk.gen[a]
<1>1. /\ a \in Gens /\ a <= disk.active /\ r \in Generations /\ Good(r)
      /\ UNCHANGED call /\ disk.clock \in Nat
  <2>1. a \in Gens /\ r \in Generations /\ Good(r) /\ UNCHANGED call /\ disk.clock \in Nat
    BY DEF Switch, IInv, TypeOK
  <2>2. a <= disk.active
    BY <2>1 DEF Gens
  <2> QED  BY <2>1, <2>2
<1>2. used' \in Uses
  <2>1. used \in Uses /\ MaxSwitches \in Nat /\ used.switches < MaxSwitches
    BY DeltaAssumption DEF Switch, IInv, TypeOK, Uses
  <2>2. used.switches + 1 \in 0 .. MaxSwitches /\ used' = [used EXCEPT !.switches = @ + 1]
    BY <2>1 DEF Switch, Uses
  <2> QED  BY <2>1, <2>2 DEF Uses
<1>3. PICK st \in States : disk' = [disk EXCEPT !.clock = disk.clock + 1,
                                                !.gen[a] = [r EXCEPT !.state = st]]
  <2>1. r.state \in States
    BY <1>1 DEF Generations
  <2>2. CASE r.state.status = "paused"
    <3>1. [status |-> r.state.resume, resume |-> None, stamp |-> disk.clock + 1] \in States
      BY <1>1, <2>1, <2>2 DEF States
    <3>2. disk' = [disk EXCEPT !.clock = disk.clock + 1,
                     !.gen[a] = [r EXCEPT !.state = [status |-> r.state.resume, resume |-> None,
                                                     stamp |-> disk.clock + 1]]]
      BY <2>2 DEF Switch, Stamped
    <3> QED  BY <3>1, <3>2
  <2>3. CASE r.state.status # "paused"
    <3>1. [status |-> "paused", resume |-> r.state.status, stamp |-> disk.clock + 1] \in States
      BY <1>1, <2>1, <2>3 DEF States
    <3>2. disk' = [disk EXCEPT !.clock = disk.clock + 1,
                     !.gen[a] = [r EXCEPT !.state = [status |-> "paused",
                                                     resume |-> r.state.status,
                                                     stamp |-> disk.clock + 1]]]
      BY <2>3 DEF Switch, Stamped
    <3> QED  BY <3>1, <3>2
  <2> QED  BY <2>2, <2>3
<1> DEFINE s == [r EXCEPT !.state = st]
<1>4. /\ s \in Generations /\ s.root = r.root /\ s.candidate = r.candidate
      /\ s.backup = r.backup /\ s.swap = r.swap /\ s.first = r.first /\ s.staging = r.staging
  BY <1>1 DEF Generations
<1>5. disk' = [disk EXCEPT !.clock = disk.clock + 1, !.gen[a] = s]
  BY <1>3
<1> HIDE DEF s
<1>6. /\ disk'.active = a /\ disk'.gen = [disk.gen EXCEPT ![a] = s]
      /\ TypeOK' /\ Excluded'
  <2>1. disk \in [active : Gens, clock : Nat, gen : [Gens -> Generations],
                   bound : [Gens -> States \cup {None}]]
    BY DEF IInv, TypeOK
  <2>2. /\ disk'.active = a /\ disk'.gen = [disk.gen EXCEPT ![a] = s]
        /\ disk' \in [active : Gens, clock : Nat, gen : [Gens -> Generations],
                      bound : [Gens -> States \cup {None}]]
    <3>0. disk.clock + 1 \in Nat
      BY <1>1
    <3>1. PICK k \in Nat : disk' = [disk EXCEPT !.clock = k, !.gen[a] = s]
      BY <1>5, <3>0
    <3>2. disk.active = a /\ a \in Gens /\ s \in Generations
      BY <1>1, <1>4
    <3> HIDE DEF a
    <3> QED  BY <2>1, <3>1, <3>2
  <2>3. call' \in [Procs -> Calls \cup {None}]
    BY <1>1 DEF IInv, TypeOK
  <2>4. TypeOK'
    BY <1>2, <2>2, <2>3 DEF TypeOK, Uses
  <2>5. Excluded'
    BY <1>1 DEF IInv, Excluded
  <2> QED  BY <2>2, <2>4, <2>5
<1>7. Good(s) /\ Kept(r, s) /\ \A m : Extends(s, m) => Extends(r, m)
  BY <1>1, <1>4 DEF Good, Kept, Extends
<1>8. ASSUME NEW q \in Procs, call'[q] # None
      PROVE  /\ InCall(call'[q], disk'.gen[call'[q].target], disk.active)
             /\ call'[q].at \in {"first", "inspect", "publish", "finish"} =>
                  Parent(call'[q].gen, call'[q].parent)
  <2>1. /\ call'[q] = call[q] /\ call[q] \in Calls /\ CallOK(call[q])
        /\ call[q].target \in Gens /\ disk.gen \in [Gens -> Generations]
    BY <1>1, <1>8, Started DEF IInv, TypeOK
  <2>2. InCall(call[q], disk'.gen[call[q].target], disk.active)
    <3>1. CASE call[q].target = a
      <4>1. disk'.gen[call[q].target] = s /\ InCall(call[q], r, a)
        BY <1>1, <1>6, <2>1, <3>1 DEF CallOK
      <4> HIDE DEF a, r
      <4> QED  BY <1>1, <1>4, <2>1, <4>1, Unaware DEF a
    <3>2. CASE call[q].target # a
      BY <1>6, <2>1, <3>2 DEF CallOK
    <3> QED  BY <3>1, <3>2
  <2> QED  BY <2>1, <2>2 DEF CallOK
<1>9. ~(a < disk.active)
  BY <1>1 DEF Gens
<1> HIDE DEF a
<1> QED  BY <1>1, <1>4, <1>6, <1>7, <1>8, <1>9, DiskStep DEF a

-----------------------------------------------------------------------------
(* The theorems. *)

LEMMA InitIInv ==
  ASSUME Init
  PROVE  IInv
<1>1. Blank \in Generations
  BY Shapes DEF Blank, Generations, States
<1>2. 1 \in Gens /\ 0 \in Nat /\ Gens \subseteq Nat
  BY DeltaAssumption DEF Gens
<1>3. /\ disk.active = 1 /\ disk.gen = [g \in Gens |-> Blank]
      /\ \A p \in Procs : call[p] = None
  BY DEF Init
<1>4. TypeOK
  BY <1>1, <1>2, DeltaAssumption DEF Init, TypeOK
<1>5. Good(Blank) /\ \A m : ~Extends(Blank, m)
  BY Shapes DEF Blank, Good, Extends, Fine
<1>6. \A g \in Gens : Good(disk.gen[g]) /\ Stands(g)
  BY <1>3, <1>5 DEF Stands
<1> QED  BY <1>3, <1>4, <1>6 DEF IInv, Excluded

LEMMA StepIInv ==
  ASSUME IInv, [Next]_vars
  PROVE  IInv' /\ Keeping
<1>1. CASE UNCHANGED vars
  <2>1. UNCHANGED <<disk, call, used>>
    BY <1>1 DEF vars
  <2>2. IInv'
    BY <2>1 DEF IInv, TypeOK, Stands, Parent, CallOK, Excluded
  <2> QED  BY <2>1, <2>2 DEF Keeping, Kept
<1>2. ASSUME NEW p \in Procs, NEW plan \in Plans, Begin(p, plan) PROVE IInv' /\ Keeping
  BY <1>2, StartStep DEF Begin
<1>3. ASSUME NEW p \in Procs, Step(p) PROVE IInv' /\ Keeping
  BY <1>3, WriteStep, EnterStep, MakeRootStep, LockStep, AgainStep, RecoverSwapStep,
     RecoverFirstStepInv, InspectStep, PublishStepInv, FinishStepInv, ParentStepInv DEF Step
<1>4. ASSUME NEW p \in Procs, Kill(p) \/ CopyFails(p) PROVE IInv' /\ Keeping
  BY <1>4, KillStep, CopyFailsStep
<1> QED  BY <1>1, <1>2, <1>3, <1>4, NewGenerationStep, SwitchStep DEF Next

\* The types of the state, and what the invariant says of every call.
THEOREM Invariance == Spec => []IInv
<1>1. Init => IInv
  BY InitIInv
<1>2. IInv /\ [Next]_vars => IInv'
  BY StepIInv
<1> QED  BY <1>1, <1>2, PTL DEF Spec

THEOREM TypeCorrect == Spec => []TypeOK
<1>1. IInv => TypeOK
  BY DEF IInv
<1> QED  BY <1>1, Invariance, PTL

\* Whenever a call is killed, what is visible of a generation is whole, or
\* missing, or recorded as a first publication that waits for its manifest.
THEOREM VisibleProduct == Spec => []VisibleIsWhole
<1>1. IInv => VisibleIsWhole
  BY DEF IInv, Good, Fine, VisibleIsWhole
<1> QED  BY <1>1, Invariance, PTL

\* The product of a published generation stands on the visible one before it.
THEOREM AdoptedProduct == Spec => []AdoptedStays
<1>1. ASSUME IInv PROVE AdoptedStays
  <2> SUFFICES ASSUME NEW g \in Gens \ {1}, disk.gen[g].root.dash # None
               PROVE  /\ Whole(disk.gen[g - 1].root)
                      /\ disk.gen[g - 1].root.manifest = disk.gen[g].root.parent
    BY DEF AdoptedStays
  <2>1. Parent(g, disk.gen[g].root.parent)
    BY <1>1 DEF IInv, Stands, Extends
  <2> QED  BY <2>1 DEF Parent, Gens
<1> QED  BY <1>1, Invariance, PTL

\* A product makes way for a later one only, in every step of every call.
THEOREM KeptProduct == Spec => ProductIsKept
<1>1. IInv /\ [Next]_vars => Keeping
  BY StepIInv
<1>2. Keeping => \A g \in Gens :
        LET r == disk.gen[g]
            s == disk.gen[g]'
        IN  /\ Whole(r.root) => \/ s.root = r.root
                                \/ s.root = Gone /\ s.backup = r.root
            /\ Whole(r.backup) /\ ~Whole(r.root) =>
                 \/ s.backup = r.backup /\ (Whole(s.root) => s.root.dash > r.backup.dash)
                 \/ s.root = r.backup
  BY DEF Keeping, Kept
<1> QED  BY <1>1, <1>2, Invariance, PTL DEF Spec, ProductIsKept

-----------------------------------------------------------------------------
(* The composition with FinalReport (Publication). *)

Final == INSTANCE FinalReportProofs

\* The report of Publication and the one FinalReportProofs is about are the same.
LEMMA SameReport ==
  /\ Report!Next => Final!Next
  /\ Final!ReportIsVouched => ReportIsVouched
<1>1. Report!Next => Final!Next
  BY DEF
         Report!vars, Report!Triplet, Report!Call, Report!Idle, Report!At, Report!Go,
         Report!End, Report!SameReport, Report!SameProduct, Report!Accepting,
         Report!CandidateStands, Report!ReviewStands, Report!Valid, Report!Content,
         Report!Complete, Report!Some, Report!Residue, Report!Pending,
         Report!Preflighted, Report!Offer, Report!FirstStep, Report!Dispatch,
         Report!Assemble, Report!Discard, Report!Bind, Report!Record, Report!Inspect,
         Report!Review, Report!Judge, Report!Authorize, Report!Publishing,
         Report!Refuse, Report!Return, Report!Gather, Report!Adoption,
         Report!Settlement, Report!Follow, Report!Adopt, Report!Settle, Report!Load,
         Report!Check, Report!Unused, Report!Intent, Report!Note, Report!Intend,
         Report!Staged, Report!Stage, Report!Prepare, Report!Free, Report!SetAside,
         Report!NoteMoved, Report!PutIn, Report!NotePublished, Report!DropStaging,
         Report!DropBackup, Report!DropIntent, Report!PutBack, Report!Undo,
         Report!Wipe, Report!WipeBackup, Report!Torn, Report!Mishap, Report!Kill,
         Report!Fails, Report!LoseCoordinator, Report!Proceed, Report!Next,
         Report!Published,
         Final!vars, Final!Triplet, Final!Call, Final!Idle, Final!At, Final!Go,
         Final!End, Final!SameReport, Final!SameProduct, Final!Accepting,
         Final!CandidateStands, Final!ReviewStands, Final!Valid, Final!Content,
         Final!Complete, Final!Some, Final!Residue, Final!Pending, Final!Preflighted,
         Final!Offer, Final!FirstStep, Final!Dispatch, Final!Assemble, Final!Discard,
         Final!Bind, Final!Record, Final!Inspect, Final!Review, Final!Judge,
         Final!Authorize, Final!Publishing, Final!Refuse, Final!Return, Final!Gather,
         Final!Adoption, Final!Settlement, Final!Follow, Final!Adopt, Final!Settle,
         Final!Load, Final!Check, Final!Unused, Final!Intent, Final!Note,
         Final!Intend, Final!Staged, Final!Stage, Final!Prepare, Final!Free,
         Final!SetAside, Final!NoteMoved, Final!PutIn, Final!NotePublished,
         Final!DropStaging, Final!DropBackup, Final!DropIntent, Final!PutBack,
         Final!Undo, Final!Wipe, Final!WipeBackup, Final!Torn, Final!Mishap,
         Final!Kill, Final!Fails, Final!LoseCoordinator, Final!Proceed, Final!Next,
         Final!Published
<1>2. Final!ReportIsVouched => ReportIsVouched
  BY DEF ReportIsVouched, Report!ReportIsVouched, Report!Some, Report!Triplet, Report!Accepting,
         Final!ReportIsVouched, Final!Some, Final!Triplet, Final!Accepting
<1> QED  BY <1>1, <1>2

\* A publication is one of dashboards and one of a report, neither of which
\* touches the other's files.
THEOREM TwoStories == PublicationSpec => Spec /\ Final!Spec
<1> DEFINE step == Dashboards(Next) \/ Reports(Report!Next /\ LostAlone)
<1>1. PublicationInit => Init /\ Final!Init
  BY DEF PublicationInit, Report!Init, Final!Init, Report!Idle, Final!Idle, Report!Call, Final!Call
<1>2. [step]_<<vars, reportVars, story>> => [Next]_vars
  BY DEF Dashboards, Reports
<1>3. [step]_<<vars, reportVars, story>> => [Final!Next]_(Final!vars)
  BY SameReport DEF Dashboards, Reports, reportVars, Final!vars
<1> QED  BY <1>1, <1>2, <1>3, PTL DEF PublicationSpec, Spec, Final!Spec

\* A report is only ever there for a product that was accepted, in every
\* publication: FinalReportProofs!Vouched, for the composition that is checked.
THEOREM VouchedReport ==
  ASSUME Tokens \subseteq Nat PROVE PublicationSpec => []ReportIsVouched
<1>1. Final!Spec => []Final!ReportIsVouched
  BY Final!Vouched
<1>2. Final!ReportIsVouched => ReportIsVouched
  BY SameReport
<1> QED  BY <1>1, <1>2, TwoStories, PTL
=============================================================================
