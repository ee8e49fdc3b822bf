---------------------------- MODULE SameDirProofs ----------------------------
(***************************************************************************)
(* Proofs for any number of commands, links and folders: the totals count  *)
(* what is still to come, the last link of a folder uploads the files of   *)
(* all its links, nothing is merged into a link that uploads, and who      *)
(* keeps the lock waits for something.                                     *)
(***************************************************************************)
EXTENDS SameDir, FiniteSetTheorems, TLAPS

\* where the links of a folder are, and what the folder knows of them
Shape ==
    /\ \A c \in Commands, f \in Folders :
          /\ IsFiniteSet(tasks[c][f])
          /\ total[c][f] = None => tasks[c][f] = {}
          /\ \A t \in tasks[c][f] : /\ t[1] = c /\ folder[t] = f
                                    /\ pc[t] \in {"download", "complete", "upload"}
    /\ \A t \in Tasks :
          /\ pc[t] = "unborn" <=> t[2] > seen[t[1]]
          /\ folder[t] # None /\ pc[t] \in {"download", "complete"} => t \in tasks[t[1]][folder[t]]
          /\ lock = t => folder[t] # None /\ pc[t] \in {"complete", "failed"}

\* a link uploads when the others of its folder are settled
Last ==
    \A t \in Tasks :
        pc[t] = "upload" /\ folder[t] # None =>
            /\ t \in tasks[t[1]][folder[t]]
            /\ total[t[1]][folder[t]] <= 1

\* Files are in one place: what a link has brought is with a link of its folder
\* that has not given it away, or was deleted by an error.
Stored ==
    /\ \A u \in Tasks :
          /\ folder[u] # None /\ pc[u] \in {"complete", "merged", "upload"} /\ u \notin lost =>
                \E v \in tasks[u[1]][folder[u]] : u \in files[v]
          /\ pc[u] = "complete" => u \in files[u]
          /\ u \in lost => pc[u] \notin {"unborn", "download"}
    /\ \A u, v \in Tasks :
          u \in files[v] => /\ u[1] = v[1] /\ folder[u] = folder[v] /\ u \notin lost
                            /\ pc[u] \in {"complete", "merged", "upload"}
                            /\ pc[v] \in {"download", "complete", "upload"}
    /\ \A u, v, w \in Tasks : u \in files[v] /\ u \in files[w] => v = w

IndInv == TypeOK /\ Shape /\ TotalsCount /\ Last /\ Stored

-----------------------------------------------------------------------------
(* The data *)

LEMMA MultiNat == \A c \in Commands : Multi[c] \in Nat \ {0}
BY SameDirAssumption

LEMMA TaskFacts ==
    \A t \in Tasks : t[1] \in Commands /\ t[2] \in 1..Multi[t[1]] /\ t = <<t[1], t[2]>>
                    /\ t[2] \in Nat
<1> SUFFICES ASSUME NEW t \in Tasks
             PROVE  t[1] \in Commands /\ t[2] \in 1..Multi[t[1]] /\ t = <<t[1], t[2]>>
                    /\ t[2] \in Nat
  OBVIOUS
<1>1. PICK c \in Commands : t \in {c} \X (1..Multi[c])
  BY DEF Tasks
<1> QED BY <1>1, MultiNat

LEMMA LinkFacts ==
    ASSUME NEW c \in Commands, NEW n \in 1..Multi[c]
    PROVE  <<c, n>> \in Tasks /\ <<c, n>>[1] = c /\ <<c, n>>[2] = n
<1>1. <<c, n>> \in {c} \X (1..Multi[c])
  OBVIOUS
<1> QED BY <1>1 DEF Tasks

\* what NewEvent does to the folders: the link's own, and the others of its
\* command
Counts(c, f, t) ==
    /\ tasks' \in [Commands -> [Folders -> SUBSET Tasks]]
    /\ total' \in [Commands -> [Folders -> Int \cup {None}]]
    /\ \A d \in Commands, g \in Folders :
          /\ d = c /\ g = f => tasks'[d][g] = tasks[d][g] \cup {t}
          /\ d # c \/ g # f => tasks'[d][g] = tasks[d][g]
          /\ d # c => total'[d][g] = total[d][g]
          /\ d = c /\ g = f /\ total[d][g] = None => total'[d][g] = Multi[c] - seen[c]
          /\ d = c /\ g = f /\ total[d][g] # None => total'[d][g] = total[d][g]
          /\ d = c /\ g # f /\ total[d][g] = None => total'[d][g] = None
          /\ d = c /\ g # f /\ total[d][g] # None => total'[d][g] = total[d][g] - 1

\* what remove_from_same_dir does: a link less, and one off the total
Removes(t) ==
    /\ tasks' \in [Commands -> [Folders -> SUBSET Tasks]]
    /\ total' \in [Commands -> [Folders -> Int \cup {None}]]
    /\ \A c \in Commands, f \in Folders :
          /\ tasks'[c][f] = tasks[c][f] \ {t}
          /\ t \in tasks[c][f] => total[c][f] \in Int /\ total'[c][f] = total[c][f] - 1
          /\ t \notin tasks[c][f] => total'[c][f] = total[c][f]

LEMMA Removing ==
    ASSUME TypeOK, Shape, NEW t \in Tasks, RemoveFromSameDir(t)
    PROVE  Removes(t)
<1> USE TaskFacts, SameDirAssumption DEF RemoveFromSameDir, Removes
<1>1. CASE Member(t)
  <2>1. folder[t] \in Folders /\ t[1] \in Commands /\ t \in tasks[t[1]][folder[t]]
    BY <1>1 DEF Member, TypeOK
  <2>2. total[t[1]][folder[t]] \in Int
    BY <2>1 DEF TypeOK, Shape
  <2>3. \A c \in Commands, f \in Folders : t \in tasks[c][f] => c = t[1] /\ f = folder[t]
    BY DEF Shape
  <2> QED BY <1>1, <2>1, <2>2, <2>3 DEF TypeOK
<1>2. CASE ~Member(t)
  <2>1. \A c \in Commands, f \in Folders : t \notin tasks[c][f]
    BY <1>2 DEF Member, Shape
  <2> QED BY <1>2, <2>1 DEF TypeOK
<1> QED BY <1>1, <1>2

\* A new link makes its folder known, or joins it; the other folders have one
\* link less to wait for.
LEMMA Counting ==
    ASSUME TypeOK, NEW c \in Commands, NEW f \in Folders \cup {None},
           NEW t \in Tasks, t = <<c, seen[c] + 1>>, Count(t, f)
    PROVE  Counts(c, f, t)
<1>1. t[1] = c /\ t[2] = seen[c] + 1 /\ seen[c] \in Nat /\ Multi[c] \in Nat
  BY MultiNat DEF TypeOK
<1>2. Multi[c] - t[2] + 1 = Multi[c] - seen[c] /\ Multi[c] - seen[c] \in Int
  BY <1>1
<1>3. \A g \in Folders : g \in Known(c) <=> total[c][g] # None
  BY DEF Known
<1>4. tasks' = IF f = None THEN tasks ELSE [tasks EXCEPT ![c][f] = @ \cup {t}]
  BY <1>1 DEF Count
<1>5. total' = [total EXCEPT ![c] =
                  [g \in Folders |->
                     CASE g = f /\ g \notin Known(c) -> Multi[c] - seen[c]
                       [] g # f /\ g \in Known(c) -> @[g] - 1
                       [] OTHER -> @[g]]]
  BY <1>1, <1>2 DEF Count
<1>6. \A g \in Folders : total[c][g] # None => total[c][g] - 1 \in Int
  BY DEF TypeOK
<1>7. \A d \in Commands, g \in Folders :
         /\ d # c => total'[d][g] = total[d][g]
         /\ d = c /\ g = f /\ total[d][g] = None => total'[d][g] = Multi[c] - seen[c]
         /\ d = c /\ g = f /\ total[d][g] # None => total'[d][g] = total[d][g]
         /\ d = c /\ g # f /\ total[d][g] = None => total'[d][g] = None
         /\ d = c /\ g # f /\ total[d][g] # None => total'[d][g] = total[d][g] - 1
  BY <1>3, <1>5 DEF TypeOK
<1>8. total' \in [Commands -> [Folders -> Int \cup {None}]]
  <2> DEFINE new == [g \in Folders |->
                       CASE g = f /\ g \notin Known(c) -> Multi[c] - seen[c]
                         [] g # f /\ g \in Known(c) -> total[c][g] - 1
                         [] OTHER -> total[c][g]]
  <2>1. \A g \in Folders : total[c][g] \in Int \cup {None}
    BY DEF TypeOK
  <2>2. new \in [Folders -> Int \cup {None}]
    BY <1>2, <1>3, <1>6, <2>1
  <2>3. total' = [total EXCEPT ![c] = new]
    BY <1>5
  <2> HIDE DEF new
  <2> QED BY <2>2, <2>3 DEF TypeOK
<1>9. /\ tasks' \in [Commands -> [Folders -> SUBSET Tasks]]
      /\ \A d \in Commands, g \in Folders :
            /\ d = c /\ g = f => tasks'[d][g] = tasks[d][g] \cup {t}
            /\ d # c \/ g # f => tasks'[d][g] = tasks[d][g]
  <2>1. CASE f = None
    <3>1. tasks' = tasks /\ f \notin Folders
      BY <1>4, <2>1, SameDirAssumption
    <3> QED BY <3>1 DEF TypeOK
  <2>2. CASE f \in Folders
    <3>3. f # None
      BY <2>2, SameDirAssumption
    <3>1. tasks' = [tasks EXCEPT ![c][f] = @ \cup {t}]
      BY <1>4, <3>3
    <3>2. tasks[c] \in [Folders -> SUBSET Tasks]
      BY DEF TypeOK
    <3> QED BY <2>2, <3>1, <3>2 DEF TypeOK
  <2> QED BY <2>1, <2>2
<1> QED BY <1>7, <1>8, <1>9 DEF Counts

-----------------------------------------------------------------------------
(* The steps *)

LEMMA InitIndInv == Init => IndInv
<1> SUFFICES ASSUME Init PROVE IndInv
  OBVIOUS
<1> USE TaskFacts, MultiNat, NoneIsNoTask DEF Init
<1>1. TypeOK
  BY DEF TypeOK, Chains, PCs
<1>2. Shape
  BY FS_EmptySet DEF Shape
<1>3. TotalsCount
  BY DEF TotalsCount, Known
<1>4. Last /\ Stored
  BY DEF Last, Stored
<1> QED BY <1>1, <1>2, <1>3, <1>4 DEF IndInv

LEMMA NewEventInd ==
    ASSUME IndInv, NEW c \in Commands, NEW f \in Folders \cup {None}, NewEvent(c, f),
           chain' = chain
    PROVE  IndInv'
<1>1. TypeOK /\ Shape /\ seen[c] \in Nat /\ seen[c] + 1 \in 1..Multi[c]
  BY LinkFacts, MultiNat, TaskFacts DEF IndInv, NewEvent, TypeOK
<1>2. PICK t \in Tasks : t = <<c, seen[c] + 1>> /\ t[1] = c /\ t[2] = seen[c] + 1
  BY <1>1, LinkFacts
<1>n. t[1] = c /\ t[2] = seen[c] + 1
  BY <1>2
<1>m. \A u \in Tasks : u[1] \in Commands /\ u[2] \in Nat /\ Multi[c] \in Nat
  BY TaskFacts, MultiNat
<1>3. /\ seen' = [seen EXCEPT ![c] = seen[c] + 1]
      /\ folder' = [folder EXCEPT ![t] = f] /\ pc' = [pc EXCEPT ![t] = "download"]
      /\ UNCHANGED <<tagged, lock, files, lost, chain>> /\ Count(t, f)
  BY <1>2 DEF NewEvent, Goto
<1>4. Counts(c, f, t)
  BY <1>1, <1>2, <1>3, Counting
<1>5. pc[t] = "unborn" /\ lock # t
  <2>1. t[2] > seen[t[1]]
    BY <1>1, <1>n
  <2> QED BY <1>1, <2>1 DEF Shape
<1>6. \A d \in Commands, g \in Folders : t \notin tasks[d][g]
  BY <1>1, <1>5 DEF Shape
<1>7. TypeOK'
  <2>1. seen' \in [Commands -> Nat] /\ \A d \in Commands : seen'[d] <= Multi[d]
    BY <1>1, <1>3 DEF TypeOK
  <2>2. folder' \in [Tasks -> Folders \cup {None}] /\ pc' \in [Tasks -> PCs]
    BY <1>1, <1>n, <1>3 DEF TypeOK, PCs
  <2> QED BY <1>1, <1>3, <1>4, <2>1, <2>2 DEF Counts, TypeOK
<1>8. \A d \in Commands, g \in Folders : IsFiniteSet(tasks[d][g]) /\ IsFiniteSet(tasks'[d][g])
  <2>1. \A d \in Commands, g \in Folders : IsFiniteSet(tasks[d][g])
    BY <1>1 DEF Shape
  <2>2. \A d \in Commands, g \in Folders : IsFiniteSet(tasks[d][g] \cup {t})
    BY <2>1, FS_AddElement
  <2> QED BY <1>4, <2>1, <2>2 DEF Counts
<1>9. \A d \in Commands, g \in Folders :
         /\ Cardinality(tasks[d][g]) \in Nat
         /\ d = c /\ g = f => Cardinality(tasks'[d][g]) = Cardinality(tasks[d][g]) + 1
         /\ d # c \/ g # f => Cardinality(tasks'[d][g]) = Cardinality(tasks[d][g])
  <2> SUFFICES ASSUME NEW d \in Commands, NEW g \in Folders
               PROVE  /\ Cardinality(tasks[d][g]) \in Nat
                      /\ d = c /\ g = f
                           => Cardinality(tasks'[d][g]) = Cardinality(tasks[d][g]) + 1
                      /\ d # c \/ g # f => Cardinality(tasks'[d][g]) = Cardinality(tasks[d][g])
    OBVIOUS
  <2>1. IsFiniteSet(tasks[d][g]) /\ t \notin tasks[d][g]
    BY <1>6, <1>8
  <2>2. /\ Cardinality(tasks[d][g]) \in Nat
        /\ Cardinality(tasks[d][g] \cup {t}) = Cardinality(tasks[d][g]) + 1
    BY <2>1, FS_AddElement, FS_CardinalityType
  <2>3. /\ d = c /\ g = f => tasks'[d][g] = tasks[d][g] \cup {t}
        /\ d # c \/ g # f => tasks'[d][g] = tasks[d][g]
    BY <1>4 DEF Counts
  <2> QED BY <2>2, <2>3
<1>a. \A d \in Commands, g \in Folders :
         /\ tasks[d][g] \subseteq tasks'[d][g]
         /\ total[d][g] \in Int /\ total[d][g] <= 1 => total'[d][g] <= 1
  <2> SUFFICES ASSUME NEW d \in Commands, NEW g \in Folders
               PROVE  /\ tasks[d][g] \subseteq tasks'[d][g]
                      /\ total[d][g] \in Int /\ total[d][g] <= 1 => total'[d][g] <= 1
    OBVIOUS
  <2>1. tasks[d][g] \subseteq tasks'[d][g]
    BY <1>4 DEF Counts
  <2>2. ASSUME total[d][g] \in Int, total[d][g] <= 1 PROVE total'[d][g] <= 1
    <3>1. total[d][g] # None
      BY <2>2, SameDirAssumption
    <3>2. total'[d][g] = total[d][g] \/ total'[d][g] = total[d][g] - 1
      BY <1>4, <3>1 DEF Counts
    <3> QED BY <2>2, <3>2
  <2> QED BY <2>1, <2>2
<1>10. Shape'
  <2>1. ASSUME NEW d \in Commands, NEW g \in Folders
        PROVE  /\ IsFiniteSet(tasks'[d][g])
               /\ total'[d][g] = None => tasks'[d][g] = {}
               /\ \A u \in tasks'[d][g] : /\ u[1] = d /\ folder'[u] = g
                                          /\ pc'[u] \in {"download", "complete", "upload"}
    <3>1. IsFiniteSet(tasks'[d][g])
      BY <1>8
    <3>2. total'[d][g] = None => tasks'[d][g] = {}
      <4>1. CASE d = c /\ g = f
        <5>1. Multi[c] - seen[c] # None
          BY <1>1, <1>m, SameDirAssumption
        <5> QED BY <1>1, <1>4, <4>1, <5>1 DEF Counts, Shape
      <4>2. CASE ~(d = c /\ g = f)
        <5>1. total[d][g] # None => total[d][g] - 1 # None
          BY <1>1, SameDirAssumption DEF TypeOK
        <5> QED BY <1>1, <1>4, <4>2, <5>1 DEF Counts, Shape
      <4> QED BY <4>1, <4>2
    <3>3. ASSUME NEW u \in tasks'[d][g]
          PROVE  /\ u[1] = d /\ folder'[u] = g
                 /\ pc'[u] \in {"download", "complete", "upload"}
      <4>1. CASE u = t
        <5>1. d = c /\ g = f
          BY <1>4, <1>6, <4>1 DEF Counts
        <5> QED BY <1>1, <1>n, <1>3, <4>1, <5>1 DEF TypeOK
      <4>2. CASE u # t
        <5>1. u \in tasks[d][g] /\ u \in Tasks
          <6>1. tasks'[d][g] \subseteq tasks[d][g] \cup {t}
            BY <1>4 DEF Counts
          <6>2. tasks[d][g] \subseteq Tasks
            BY <1>1 DEF TypeOK
          <6> QED BY <4>2, <6>1, <6>2
        <5>2. u[1] = d /\ folder[u] = g /\ pc[u] \in {"download", "complete", "upload"}
          BY <1>1, <5>1 DEF Shape
        <5> QED BY <1>1, <1>3, <4>2, <5>1, <5>2 DEF TypeOK
      <4> QED BY <4>1, <4>2
    <3> QED BY <3>1, <3>2, <3>3
  <2>2. ASSUME NEW u \in Tasks
        PROVE  /\ pc'[u] = "unborn" <=> u[2] > seen'[u[1]]
               /\ folder'[u] # None /\ pc'[u] \in {"download", "complete"}
                    => u \in tasks'[u[1]][folder'[u]]
               /\ lock' = u => folder'[u] # None /\ pc'[u] \in {"complete", "failed"}
    <3>1. CASE u = t
      BY <1>1, <1>n, <1>m, <1>3, <1>4, <1>5, <3>1 DEF Counts, TypeOK
    <3>2. CASE u # t
      <4>1. u[1] # c \/ u[2] # seen[c] + 1
        BY <1>n, <3>2, TaskFacts
      <4>5. seen'[u[1]] = IF u[1] = c THEN seen[c] + 1 ELSE seen[u[1]]
        BY <1>1, <1>m, <1>3 DEF TypeOK
      <4>6. pc'[u] = pc[u]
        BY <1>1, <1>3, <3>2 DEF TypeOK
      <4>7. u[2] \in Nat /\ seen[u[1]] \in Nat
        BY <1>1, <1>m DEF TypeOK
      <4>8. pc[u] = "unborn" <=> u[2] > seen[u[1]]
        BY <1>1 DEF Shape
      <4>2. pc'[u] = "unborn" <=> u[2] > seen'[u[1]]
        BY <1>1, <4>1, <4>5, <4>6, <4>7, <4>8
      <4>3. folder[u] # None /\ pc[u] \in {"download", "complete"}
              => u \in tasks'[u[1]][folder[u]]
        <5> SUFFICES ASSUME folder[u] # None, pc[u] \in {"download", "complete"}
                     PROVE  u \in tasks'[u[1]][folder[u]]
          OBVIOUS
        <5>1. u \in tasks[u[1]][folder[u]] /\ u[1] \in Commands /\ folder[u] \in Folders
          BY <1>1, <1>m DEF Shape, TypeOK
        <5> QED BY <1>4, <5>1 DEF Counts
      <4> QED BY <1>1, <1>3, <3>2, <4>2, <4>3 DEF Shape, TypeOK
    <3> QED BY <3>1, <3>2
  <2> QED BY <2>1, <2>2 DEF Shape
<1>11. TotalsCount'
  <2> SUFFICES ASSUME NEW d \in Commands, chain'[d] # "cancelled",
                      NEW g \in Folders, total'[d][g] # None
               PROVE  total'[d][g] = Cardinality(tasks'[d][g]) + Multi[d] - seen'[d]
    BY DEF TotalsCount, Known
  <2>1. Cardinality(tasks[d][g]) \in Nat /\ seen[d] \in Nat /\ Multi[d] \in Nat
    BY <1>1, <1>8, FS_CardinalityType, MultiNat DEF TypeOK
  <2>2. total[d][g] # None => total[d][g] = Cardinality(tasks[d][g]) + Multi[d] - seen[d]
    BY <1>3 DEF IndInv, TotalsCount, Known
  <2>3. total[d][g] = None => Cardinality(tasks[d][g]) = 0
    BY <1>1, FS_EmptySet DEF Shape
  <2>4. seen'[d] = IF d = c THEN seen[d] + 1 ELSE seen[d]
    BY <1>1, <1>3 DEF TypeOK
  <2>5. CASE d # c
    <3>1. total'[d][g] = total[d][g] /\ Cardinality(tasks'[d][g]) = Cardinality(tasks[d][g])
      BY <1>4, <1>9, <2>5 DEF Counts
    <3> QED BY <2>1, <2>2, <2>4, <2>5, <3>1
  <2>6. CASE d = c /\ g = f /\ total[d][g] = None
    <3>1. /\ total'[d][g] = Multi[d] - seen[d]
          /\ Cardinality(tasks'[d][g]) = Cardinality(tasks[d][g]) + 1
      BY <1>4, <1>9, <2>6 DEF Counts
    <3> QED BY <2>1, <2>3, <2>4, <2>6, <3>1
  <2>7. CASE d = c /\ g = f /\ total[d][g] # None
    <3>1. /\ total'[d][g] = total[d][g]
          /\ Cardinality(tasks'[d][g]) = Cardinality(tasks[d][g]) + 1
      BY <1>4, <1>9, <2>7 DEF Counts
    <3> QED BY <2>1, <2>2, <2>4, <2>7, <3>1
  <2>8. CASE d = c /\ g # f
    <3>1. Cardinality(tasks'[d][g]) = Cardinality(tasks[d][g])
      BY <1>9, <2>8
    <3>2. total[d][g] # None
      BY <1>4, <2>8 DEF Counts
    <3>3. total'[d][g] = total[d][g] - 1
      BY <1>4, <2>8, <3>2 DEF Counts
    <3> QED BY <2>1, <2>2, <2>4, <2>8, <3>1, <3>2, <3>3
  <2> QED BY <2>5, <2>6, <2>7, <2>8
<1>12. Last'
  <2> SUFFICES ASSUME NEW u \in Tasks, pc'[u] = "upload", folder'[u] # None
               PROVE  u \in tasks'[u[1]][folder'[u]] /\ total'[u[1]][folder'[u]] <= 1
    BY DEF Last
  <2>1. u # t /\ pc[u] = "upload" /\ folder'[u] = folder[u]
    BY <1>1, <1>n, <1>3 DEF TypeOK
  <2>2. u \in tasks[u[1]][folder[u]] /\ total[u[1]][folder[u]] <= 1
        /\ folder[u] \in Folders /\ u[1] \in Commands
    BY <1>1, <1>m, <2>1 DEF IndInv, Last, TypeOK
  <2>3. total[u[1]][folder[u]] \in Int
    BY <1>1, <2>2 DEF Shape, TypeOK
  <2> QED BY <1>a, <2>1, <2>2, <2>3
<1>13. Stored'
  <2>1. \A u \in Tasks : u # t => pc'[u] = pc[u] /\ folder'[u] = folder[u]
    BY <1>1, <1>3 DEF TypeOK
  <2>2. pc'[t] = "download"
    BY <1>1, <1>n, <1>3 DEF TypeOK
  <2>3. \A u \in Tasks : t \notin files[u] /\ u \notin files[t] /\ t \notin lost
    BY <1>n, <1>5 DEF IndInv, Stored
  <2>4. \A u \in Tasks : folder[u] # None => tasks[u[1]][folder[u]] \subseteq tasks'[u[1]][folder[u]]
    BY <1>1, <1>m, <1>a DEF TypeOK
  <2>5. files' = files /\ lost' = lost /\ Stored
    BY <1>3 DEF IndInv
  <2>6. ASSUME NEW u \in Tasks
        PROVE  /\ folder'[u] # None /\ pc'[u] \in {"complete", "merged", "upload"} /\ u \notin lost
                    => \E v \in tasks'[u[1]][folder'[u]] : u \in files[v]
               /\ pc'[u] = "complete" => u \in files[u]
               /\ u \in lost => pc'[u] \notin {"unborn", "download"}
    <3>1. CASE u = t
      BY <2>2, <2>3, <3>1
    <3>2. CASE u # t
      BY <2>1, <2>4, <2>5, <3>2 DEF Stored
    <3> QED BY <3>1, <3>2
  <2>7. ASSUME NEW u \in Tasks, NEW v \in Tasks, u \in files[v]
        PROVE  /\ u[1] = v[1] /\ folder'[u] = folder'[v] /\ u \notin lost
               /\ pc'[u] \in {"complete", "merged", "upload"}
               /\ pc'[v] \in {"download", "complete", "upload"}
    BY <2>1, <2>3, <2>5, <2>7 DEF Stored
  <2> QED BY <2>5, <2>6, <2>7 DEF Stored
<1> QED BY <1>7, <1>10, <1>11, <1>12, <1>13 DEF IndInv

\* What a link that leaves its folder leaves to the others: the counts are
\* right, and who uploads stays the last.
LEMMA RemovingInd ==
    ASSUME IndInv, NEW t \in Tasks, Removes(t), pc[t] \in {"download", "complete"},
           NEW next \in {"merged", "failed"}, pc' = [pc EXCEPT ![t] = next],
           lock' \in {lock, None}, next = "merged" => lock' # t,
           UNCHANGED <<seen, chain, folder>>
    PROVE  Shape' /\ TotalsCount' /\ Last'
<1>1. TypeOK /\ Shape /\ TotalsCount /\ Last
  BY DEF IndInv
<1>2. \A u \in Tasks : u # t => pc'[u] = pc[u]
  BY <1>1 DEF TypeOK
<1>3. pc'[t] = next
  BY <1>1 DEF TypeOK
<1>m. \A u \in Tasks : u[1] \in Commands
  BY TaskFacts
<1>4. \A c \in Commands, f \in Folders :
         IsFiniteSet(tasks[c][f]) /\ IsFiniteSet(tasks[c][f] \ {t})
  <2>1. \A c \in Commands, f \in Folders : IsFiniteSet(tasks[c][f])
    BY <1>1 DEF Shape
  <2> QED BY <2>1, FS_RemoveElement
<1>5. Shape'
  <2>1. ASSUME NEW c \in Commands, NEW f \in Folders
        PROVE  /\ IsFiniteSet(tasks'[c][f])
               /\ total'[c][f] = None => tasks'[c][f] = {}
               /\ \A u \in tasks'[c][f] : /\ u[1] = c /\ folder'[u] = f
                                          /\ pc'[u] \in {"download", "complete", "upload"}
    <3>1. IsFiniteSet(tasks'[c][f])
      BY <1>4 DEF Removes
    <3>2. total'[c][f] = None => tasks'[c][f] = {}
      <4>1. CASE t \in tasks[c][f]
        <5>1. total'[c][f] = total[c][f] - 1 /\ total[c][f] \in Int
          BY <4>1 DEF Removes
        <5> QED BY <5>1, SameDirAssumption
      <4>2. CASE t \notin tasks[c][f]
        BY <1>1, <4>2 DEF Removes, Shape
      <4> QED BY <4>1, <4>2
    <3>3. ASSUME NEW u \in tasks'[c][f]
          PROVE  u[1] = c /\ folder'[u] = f /\ pc'[u] \in {"download", "complete", "upload"}
      <4>1. u \in tasks[c][f] /\ u # t /\ u \in Tasks
        BY <1>1 DEF Removes, TypeOK
      <4> QED BY <1>1, <1>2, <4>1 DEF Shape
    <3> QED BY <3>1, <3>2, <3>3
  <2>2. ASSUME NEW u \in Tasks
        PROVE  /\ pc'[u] = "unborn" <=> u[2] > seen'[u[1]]
               /\ folder'[u] # None /\ pc'[u] \in {"download", "complete"}
                    => u \in tasks'[u[1]][folder'[u]]
               /\ lock' = u => folder'[u] # None /\ pc'[u] \in {"complete", "failed"}
    <3>1. CASE u = t
      <4>1. pc[t] # "unborn" /\ pc'[t] # "unborn" /\ pc'[t] \notin {"download", "complete"}
        BY <1>3
      <4>2. lock' = t => lock = t /\ pc'[t] = "failed"
        BY <1>3, NoneIsNoTask
      <4> QED BY <1>1, <3>1, <4>1, <4>2 DEF Shape
    <3>2. CASE u # t
      <4>1. pc'[u] = pc[u] /\ folder'[u] = folder[u]
        BY <1>2, <3>2
      <4>2. folder[u] # None /\ pc[u] \in {"download", "complete"}
              => u \in tasks'[u[1]][folder[u]]
        BY <1>1, <1>m, <3>2 DEF Shape, TypeOK, Removes
      <4>3. lock' = u => folder[u] # None /\ pc[u] \in {"complete", "failed"}
        BY <1>1, NoneIsNoTask DEF Shape
      <4> QED BY <1>1, <4>1, <4>2, <4>3 DEF Shape
    <3> QED BY <3>1, <3>2
  <2> QED BY <2>1, <2>2 DEF Shape
<1>6. TotalsCount'
  <2> SUFFICES ASSUME NEW c \in Commands, chain[c] # "cancelled",
                      NEW f \in Folders, total'[c][f] # None
               PROVE  total'[c][f] = Cardinality(tasks'[c][f]) + Multi[c] - seen[c]
    BY DEF TotalsCount, Known
  <2>1. /\ total[c][f] # None => total[c][f] = Cardinality(tasks[c][f]) + Multi[c] - seen[c]
        /\ seen[c] \in Nat /\ Multi[c] \in Nat
    BY <1>1, MultiNat DEF TotalsCount, Known, TypeOK
  <2>2. /\ Cardinality(tasks[c][f]) \in Nat
        /\ t \in tasks[c][f] => Cardinality(tasks[c][f] \ {t}) = Cardinality(tasks[c][f]) - 1
    BY <1>4, FS_CardinalityType, FS_RemoveElement
  <2>3. tasks'[c][f] = tasks[c][f] \ {t}
    BY DEF Removes
  <2>4. CASE t \in tasks[c][f]
    <3>1. total'[c][f] = total[c][f] - 1 /\ total[c][f] \in Int
      BY <2>4 DEF Removes
    <3>2. total[c][f] # None
      BY <3>1, SameDirAssumption
    <3> QED BY <2>1, <2>2, <2>3, <2>4, <3>1, <3>2
  <2>5. CASE t \notin tasks[c][f]
    <3>1. total'[c][f] = total[c][f] /\ tasks'[c][f] = tasks[c][f]
      BY <2>3, <2>5 DEF Removes
    <3> QED BY <2>1, <3>1
  <2> QED BY <2>4, <2>5
<1>7. Last'
  <2> SUFFICES ASSUME NEW u \in Tasks, pc'[u] = "upload", folder[u] # None
               PROVE  u \in tasks'[u[1]][folder[u]] /\ total'[u[1]][folder[u]] <= 1
    BY DEF Last
  <2>1. u # t /\ pc[u] = "upload"
    BY <1>2, <1>3
  <2>2. u \in tasks[u[1]][folder[u]] /\ total[u[1]][folder[u]] <= 1
        /\ folder[u] \in Folders /\ u[1] \in Commands
    BY <1>1, <1>m, <2>1 DEF Last, TypeOK
  <2>3. total[u[1]][folder[u]] \in Int
    BY <1>1, <2>2 DEF Shape, TypeOK
  <2>4. total'[u[1]][folder[u]] = total[u[1]][folder[u]]
        \/ total'[u[1]][folder[u]] = total[u[1]][folder[u]] - 1
    BY <2>2 DEF Removes
  <2>5. u \in tasks'[u[1]][folder[u]]
    BY <2>1, <2>2 DEF Removes
  <2> QED BY <2>2, <2>3, <2>4, <2>5
<1> QED BY <1>5, <1>6, <1>7

LEMMA MergeInd ==
    ASSUME IndInv, NEW t \in Tasks, Merge(t)
    PROVE  IndInv'
<1>1. TypeOK /\ Shape /\ Stored
  BY DEF IndInv
<1>2. Removes(t)
  BY <1>1, Removing DEF Merge
<1>3. /\ folder[t] \in Folders /\ t[1] \in Commands /\ t \in tasks[t[1]][folder[t]]
      /\ pc' = [pc EXCEPT ![t] = "merged"] /\ lock' = None
      /\ UNCHANGED <<seen, chain, tagged, folder, lost>>
  BY <1>1, TaskFacts DEF Merge, Member, Goto, TypeOK
<1>4. pc[t] = "complete"
  BY <1>1, <1>3 DEF Merge, Shape
<1>5. PICK other \in tasks[t[1]][folder[t]] \ {t} :
         files' = [files EXCEPT ![t] = {}, ![other] = @ \cup files[t]]
  BY DEF Merge
<1>6. /\ other \in Tasks /\ other # t /\ other[1] = t[1] /\ folder[other] = folder[t]
      /\ pc[other] \in {"download", "complete", "upload"}
      /\ other \in tasks'[t[1]][folder[t]]
  BY <1>1, <1>2, <1>3, <1>5 DEF TypeOK, Shape, Removes
<1>7. /\ files'[t] = {}
      /\ files'[other] = files[other] \cup files[t]
      /\ \A v \in Tasks : v # t /\ v # other => files'[v] = files[v]
      /\ files' \in [Tasks -> SUBSET Tasks]
  BY <1>1, <1>5, <1>6 DEF TypeOK
<1>8. pc'[t] = "merged" /\ pc' \in [Tasks -> PCs] /\ \A u \in Tasks : u # t => pc'[u] = pc[u]
  BY <1>1, <1>3 DEF TypeOK, PCs
<1>9. Shape' /\ TotalsCount' /\ Last'
  <2>1. lock' # t
    BY <1>3, NoneIsNoTask
  <2> QED BY <1>2, <1>3, <1>4, <2>1, RemovingInd
<1>10. TypeOK'
  BY <1>1, <1>2, <1>3, <1>7, <1>8 DEF TypeOK, Removes
<1>11. Stored'
  <2>1. ASSUME NEW u \in Tasks
        PROVE  /\ folder[u] # None /\ pc'[u] \in {"complete", "merged", "upload"} /\ u \notin lost
                    => \E v \in tasks'[u[1]][folder[u]] : u \in files'[v]
               /\ pc'[u] = "complete" => u \in files'[u]
               /\ u \in lost => pc'[u] \notin {"unborn", "download"}
    <3>1. ASSUME folder[u] # None, pc'[u] \in {"complete", "merged", "upload"}, u \notin lost
          PROVE  \E v \in tasks'[u[1]][folder[u]] : u \in files'[v]
      <4>1. PICK v \in tasks[u[1]][folder[u]] : u \in files[v]
        BY <1>1, <1>4, <1>8, <3>1 DEF Stored
      <4>2. u[1] \in Commands /\ folder[u] \in Folders /\ v \in Tasks
        BY <1>1, <3>1, <4>1, TaskFacts DEF TypeOK
      <4>3. CASE v = t
        <5>1. u[1] = t[1] /\ folder[u] = folder[t] /\ u \in files'[other]
          BY <1>1, <1>7, <4>1, <4>2, <4>3 DEF Stored
        <5> QED BY <1>6, <5>1
      <4>4. CASE v # t
        <5>1. v \in tasks'[u[1]][folder[u]]
          BY <1>2, <4>1, <4>2, <4>4 DEF Removes
        <5>2. u \in files'[v]
          BY <1>7, <4>1, <4>2, <4>4
        <5> QED BY <5>1, <5>2
      <4> QED BY <4>3, <4>4
    <3>2. pc'[u] = "complete" => u \in files'[u]
      BY <1>1, <1>7, <1>8 DEF Stored
    <3>3. u \in lost => pc'[u] \notin {"unborn", "download"}
      BY <1>1, <1>8 DEF Stored
    <3> QED BY <3>1, <3>2, <3>3
  <2>2. ASSUME NEW u \in Tasks, NEW v \in Tasks, u \in files'[v]
        PROVE  /\ u[1] = v[1] /\ folder[u] = folder[v] /\ u \notin lost
               /\ pc'[u] \in {"complete", "merged", "upload"}
               /\ pc'[v] \in {"download", "complete", "upload"}
    <3>1. v # t /\ (u \in files[v] \/ (v = other /\ u \in files[t]))
      BY <1>7, <2>2
    <3> QED BY <1>1, <1>6, <1>8, <3>1 DEF Stored
  <2>3. ASSUME NEW u \in Tasks, NEW v \in Tasks, NEW w \in Tasks,
               u \in files'[v], u \in files'[w]
        PROVE  v = w
    <3>1. v # t /\ (u \in files[v] \/ (v = other /\ u \in files[t]))
      BY <1>7, <2>3
    <3>2. w # t /\ (u \in files[w] \/ (w = other /\ u \in files[t]))
      BY <1>7, <2>3
    <3> QED BY <1>1, <3>1, <3>2 DEF Stored
  <2>4. folder' = folder /\ lost' = lost
    BY <1>3
  <2> QED BY <2>1, <2>2, <2>3, <2>4 DEF Stored
<1> QED BY <1>9, <1>10, <1>11 DEF IndInv

LEMMA ErrorInd ==
    ASSUME IndInv, NEW t \in Tasks, Error(t)
    PROVE  IndInv'
<1>1. TypeOK /\ Shape /\ Stored
  BY DEF IndInv
<1>2. Removes(t)
  BY <1>1, Removing DEF Error
<1>3. /\ pc[t] \in {"download", "complete"} /\ pc' = [pc EXCEPT ![t] = "failed"]
      /\ files' = [files EXCEPT ![t] = {}] /\ lost' = lost \cup files[t]
      /\ UNCHANGED <<seen, chain, tagged, folder, lock>>
  BY DEF Error, Goto
<1>7. /\ files'[t] = {}
      /\ \A v \in Tasks : v # t => files'[v] = files[v]
      /\ files' \in [Tasks -> SUBSET Tasks] /\ lost' \subseteq Tasks
  BY <1>1, <1>3 DEF TypeOK
<1>8. pc'[t] = "failed" /\ pc' \in [Tasks -> PCs] /\ \A u \in Tasks : u # t => pc'[u] = pc[u]
  BY <1>1, <1>3 DEF TypeOK, PCs
<1>9. Shape' /\ TotalsCount' /\ Last'
  BY <1>2, <1>3, RemovingInd
<1>10. TypeOK'
  BY <1>1, <1>2, <1>3, <1>7, <1>8 DEF TypeOK, Removes
<1>11. Stored'
  <2>1. ASSUME NEW u \in Tasks
        PROVE  /\ folder[u] # None /\ pc'[u] \in {"complete", "merged", "upload"} /\ u \notin lost'
                    => \E v \in tasks'[u[1]][folder[u]] : u \in files'[v]
               /\ pc'[u] = "complete" => u \in files'[u]
               /\ u \in lost' => pc'[u] \notin {"unborn", "download"}
    <3>1. ASSUME folder[u] # None, pc'[u] \in {"complete", "merged", "upload"}, u \notin lost'
          PROVE  \E v \in tasks'[u[1]][folder[u]] : u \in files'[v]
      <4>0. u # t /\ pc[u] = pc'[u] /\ u \notin lost /\ u \notin files[t]
        BY <1>3, <1>8, <3>1
      <4>1. PICK v \in tasks[u[1]][folder[u]] : u \in files[v]
        BY <1>1, <3>1, <4>0 DEF Stored
      <4>2. u[1] \in Commands /\ folder[u] \in Folders /\ v \in Tasks
        BY <1>1, <3>1, <4>1, TaskFacts DEF TypeOK
      <4>3. v # t
        BY <4>0, <4>1
      <4>4. v \in tasks'[u[1]][folder[u]]
        BY <1>2, <4>1, <4>2, <4>3 DEF Removes
      <4> QED BY <1>7, <4>1, <4>2, <4>3, <4>4
    <3>2. pc'[u] = "complete" => u \in files'[u]
      BY <1>1, <1>7, <1>8 DEF Stored
    <3>3. u \in lost' => pc'[u] \notin {"unborn", "download"}
      BY <1>1, <1>3, <1>8 DEF Stored
    <3> QED BY <3>1, <3>2, <3>3
  <2>2. ASSUME NEW u \in Tasks, NEW v \in Tasks, u \in files'[v]
        PROVE  /\ u[1] = v[1] /\ folder[u] = folder[v] /\ u \notin lost'
               /\ pc'[u] \in {"complete", "merged", "upload"}
               /\ pc'[v] \in {"download", "complete", "upload"}
    <3>1. v # t /\ u \in files[v] /\ u \notin files[t]
      BY <1>1, <1>7, <2>2 DEF Stored
    <3>2. u # t
      BY <1>1, <1>3, <3>1 DEF Stored
    <3> QED BY <1>1, <1>3, <1>8, <3>1, <3>2 DEF Stored
  <2>3. ASSUME NEW u \in Tasks, NEW v \in Tasks, NEW w \in Tasks,
               u \in files'[v], u \in files'[w]
        PROVE  v = w
    BY <1>1, <1>7, <2>3 DEF Stored
  <2>4. folder' = folder
    BY <1>3
  <2> QED BY <2>1, <2>2, <2>3, <2>4 DEF Stored
<1> QED BY <1>9, <1>10, <1>11 DEF IndInv

LEMMA DownloadedInd ==
    ASSUME IndInv, NEW t \in Tasks, Downloaded(t)
    PROVE  IndInv'
<1>1. TypeOK /\ Shape /\ Stored /\ TotalsCount /\ Last
  BY DEF IndInv
<1>3. /\ pc[t] = "download" /\ pc' = [pc EXCEPT ![t] = "complete"]
      /\ files' = [files EXCEPT ![t] = @ \cup {t}]
      /\ UNCHANGED <<seen, chain, tagged, folder, total, tasks, lock, lost>>
  BY DEF Downloaded, Goto, folderVars
<1>7. /\ files'[t] = files[t] \cup {t}
      /\ \A v \in Tasks : v # t => files'[v] = files[v]
      /\ files' \in [Tasks -> SUBSET Tasks]
  BY <1>1, <1>3 DEF TypeOK
<1>8. pc'[t] = "complete" /\ pc' \in [Tasks -> PCs] /\ \A u \in Tasks : u # t => pc'[u] = pc[u]
  BY <1>1, <1>3 DEF TypeOK, PCs
<1>9. TypeOK'
  BY <1>1, <1>3, <1>7, <1>8 DEF TypeOK
<1>10. Shape'
  <2>1. \A u \in Tasks : u \in {t} => pc[u] # "unborn" /\ pc'[u] # "unborn"
    BY <1>3, <1>8
  <2> QED BY <1>1, <1>3, <1>8, <2>1 DEF Shape, TypeOK
<1>11. TotalsCount'
  BY <1>1, <1>3 DEF TotalsCount, Known
<1>12. Last'
  BY <1>1, <1>3, <1>8 DEF Last
<1>13. Stored'
  <2>0. \A v \in Tasks : t \notin files[v]
    BY <1>1, <1>3 DEF Stored
  <2>1. ASSUME NEW u \in Tasks
        PROVE  /\ folder[u] # None /\ pc'[u] \in {"complete", "merged", "upload"} /\ u \notin lost
                    => \E v \in tasks[u[1]][folder[u]] : u \in files'[v]
               /\ pc'[u] = "complete" => u \in files'[u]
               /\ u \in lost => pc'[u] \notin {"unborn", "download"}
    <3>1. CASE u = t
      BY <1>1, <1>3, <1>7, <1>8, <3>1 DEF Shape, Stored
    <3>2. CASE u # t
      <4>1. ASSUME folder[u] # None, pc[u] \in {"complete", "merged", "upload"}, u \notin lost
            PROVE  \E v \in tasks[u[1]][folder[u]] : u \in files'[v]
        <5>1. PICK v \in tasks[u[1]][folder[u]] : u \in files[v]
          BY <1>1, <4>1 DEF Stored
        <5>2. v \in Tasks
          BY <1>1, <4>1, <5>1, TaskFacts DEF TypeOK
        <5> QED BY <1>7, <5>1, <5>2
      <4> QED BY <1>1, <1>7, <1>8, <3>2, <4>1 DEF Stored
    <3> QED BY <3>1, <3>2
  <2>2. ASSUME NEW u \in Tasks, NEW v \in Tasks, u \in files'[v]
        PROVE  /\ u[1] = v[1] /\ folder[u] = folder[v] /\ u \notin lost
               /\ pc'[u] \in {"complete", "merged", "upload"}
               /\ pc'[v] \in {"download", "complete", "upload"}
    <3>1. CASE u = t
      BY <1>1, <1>3, <1>7, <1>8, <2>0, <2>2, <3>1 DEF Stored
    <3>2. CASE u # t
      <4>1. u \in files[v]
        BY <1>7, <2>2, <3>2
      <4> QED BY <1>1, <1>8, <4>1 DEF Stored
    <3> QED BY <3>1, <3>2
  <2>3. ASSUME NEW u \in Tasks, NEW v \in Tasks, NEW w \in Tasks,
               u \in files'[v], u \in files'[w]
        PROVE  v = w
    BY <1>1, <1>7, <2>0, <2>3 DEF Stored
  <2>4. folder' = folder /\ lost' = lost /\ tasks' = tasks
    BY <1>3
  <2> QED BY <2>1, <2>2, <2>3, <2>4 DEF Stored
<1> QED BY <1>9, <1>10, <1>11, <1>12, <1>13 DEF IndInv

\* A link without a folder, or the last one of its folder, uploads.
LEMMA UploadInd ==
    ASSUME IndInv, NEW t \in Tasks, pc[t] = "complete", lock' \in {lock, None},
           lock' # t, pc' = [pc EXCEPT ![t] = "upload"],
           folder[t] # None =>
               t \in tasks[t[1]][folder[t]] /\ total[t[1]][folder[t]] <= 1,
           UNCHANGED <<seen, chain, tagged, folder, total, tasks, files, lost>>
    PROVE  IndInv'
<1>1. TypeOK /\ Shape /\ Stored /\ TotalsCount /\ Last
  BY DEF IndInv
<1>2. pc'[t] = "upload" /\ pc' \in [Tasks -> PCs] /\ \A u \in Tasks : u # t => pc'[u] = pc[u]
  BY <1>1 DEF TypeOK, PCs
<1>3. TypeOK'
  BY <1>1, <1>2 DEF TypeOK
<1>4. Shape'
  BY <1>1, <1>2, NoneIsNoTask DEF Shape, TypeOK
<1>5. TotalsCount'
  BY <1>1 DEF TotalsCount, Known
<1>6. Last'
  BY <1>1, <1>2 DEF Last
<1>7. Stored'
  BY <1>1, <1>2 DEF Stored
<1> QED BY <1>3, <1>4, <1>5, <1>6, <1>7 DEF IndInv

\* The steps of the lock and of a chain leave the folders and the files alone;
\* a chain that was cancelled stays so.
LEMMA QuietInd ==
    ASSUME IndInv, UNCHANGED <<seen, folder, total, tasks, pc, files, lost>>,
           tagged' \subseteq Commands, chain' \in [Commands -> Chains],
           \A c \in Commands : chain[c] = "cancelled" => chain'[c] = "cancelled",
           lock' \in Tasks \cup {None},
           \A t \in Tasks : lock' = t => folder[t] # None /\ pc[t] \in {"complete", "failed"}
    PROVE  IndInv'
<1>1. TypeOK /\ Shape /\ Stored /\ TotalsCount /\ Last
  BY DEF IndInv
<1>2. TypeOK'
  BY <1>1 DEF TypeOK
<1>3. Shape'
  BY <1>1 DEF Shape
<1>4. TotalsCount'
  BY <1>1 DEF TotalsCount, Known
<1>5. Last' /\ Stored'
  BY <1>1 DEF Last, Stored
<1> QED BY <1>2, <1>3, <1>4, <1>5 DEF IndInv

\* A cancelled command lowers its totals: what uploads stays the last.
LEMMA CancelledInd ==
    ASSUME IndInv, NEW c \in Commands, Cancelled(c)
    PROVE  IndInv'
<1>1. TypeOK /\ Shape /\ Stored /\ TotalsCount /\ Last
  BY DEF IndInv
<1>2. PICK k \in Nat : k = Multi[c] - seen[c] + 1
  BY <1>1, MultiNat DEF TypeOK
<1>3. /\ chain' = [chain EXCEPT ![c] = "cancelled"]
      /\ total' = [total EXCEPT ![c] =
                     [f \in Folders |-> IF f \in Known(c) THEN total[c][f] - k ELSE total[c][f]]]
      /\ UNCHANGED <<seen, tagged, folder, tasks, pc, lock, files, lost>>
  BY <1>2 DEF Cancelled
<1>4. \A d \in Commands, f \in Folders :
         /\ d # c => total'[d][f] = total[d][f]
         /\ d = c /\ total[d][f] = None => total'[d][f] = None
         /\ d = c /\ total[d][f] # None => total'[d][f] = total[d][f] - k
  BY <1>1, <1>3 DEF Known, TypeOK
<1>5. \A d \in Commands, f \in Folders : total[d][f] # None => total[d][f] \in Int
  BY <1>1 DEF TypeOK
<1>6. total' \in [Commands -> [Folders -> Int \cup {None}]]
  <2> DEFINE new == [f \in Folders |-> IF f \in Known(c) THEN total[c][f] - k ELSE total[c][f]]
  <2>1. \A f \in Folders : total[c][f] \in Int \cup {None}
    BY <1>1 DEF TypeOK
  <2>2. \A f \in Folders : f \in Known(c) => total[c][f] - k \in Int
    BY <1>2, <1>5 DEF Known
  <2>3. new \in [Folders -> Int \cup {None}]
    BY <2>1, <2>2
  <2>4. total' = [total EXCEPT ![c] = new]
    BY <1>3
  <2> HIDE DEF new
  <2> QED BY <1>1, <2>3, <2>4 DEF TypeOK
<1>7. TypeOK'
  BY <1>1, <1>3, <1>6 DEF TypeOK, Chains
<1>8. \A d \in Commands, f \in Folders : total'[d][f] = None => total[d][f] = None
  <2> SUFFICES ASSUME NEW d \in Commands, NEW f \in Folders, total[d][f] # None
               PROVE  total'[d][f] # None
    OBVIOUS
  <2>1. total[d][f] \in Int /\ total[d][f] - k \in Int
    BY <1>2, <1>5
  <2> QED BY <1>4, <2>1, SameDirAssumption
<1>9. Shape'
  BY <1>1, <1>3, <1>8 DEF Shape
<1>10. TotalsCount'
  <2> SUFFICES ASSUME NEW d \in Commands, chain'[d] # "cancelled",
                      NEW f \in Folders, total'[d][f] # None
               PROVE  total'[d][f] = Cardinality(tasks[d][f]) + Multi[d] - seen[d]
    BY <1>3 DEF TotalsCount, Known
  <2>1. d # c /\ chain[d] # "cancelled"
    BY <1>1, <1>3 DEF TypeOK
  <2> QED BY <1>1, <1>4, <2>1 DEF TotalsCount, Known
<1>11. Last'
  <2> SUFFICES ASSUME NEW u \in Tasks, pc[u] = "upload", folder[u] # None
               PROVE  u \in tasks[u[1]][folder[u]] /\ total'[u[1]][folder[u]] <= 1
    BY <1>3 DEF Last
  <2>1. /\ u \in tasks[u[1]][folder[u]] /\ total[u[1]][folder[u]] <= 1
        /\ u[1] \in Commands /\ folder[u] \in Folders
    BY <1>1, TaskFacts DEF Last, TypeOK
  <2>2. total[u[1]][folder[u]] # None
    BY <1>1, <2>1 DEF Shape
  <2>3. \/ total'[u[1]][folder[u]] = total[u[1]][folder[u]]
        \/ total'[u[1]][folder[u]] = total[u[1]][folder[u]] - k
    BY <1>4, <2>1, <2>2
  <2> QED BY <1>2, <1>5, <2>1, <2>2, <2>3
<1>12. Stored'
  BY <1>1, <1>3 DEF Stored
<1> QED BY <1>7, <1>9, <1>10, <1>11, <1>12 DEF IndInv

LEMMA NextIndInv == IndInv /\ [Next]_vars => IndInv'
<1> SUFFICES ASSUME IndInv, [Next]_vars PROVE IndInv'
  OBVIOUS
<1>0. TypeOK /\ Shape
  BY DEF IndInv
<1>t. \A t \in Tasks : lock = t => folder[t] # None /\ pc[t] \in {"complete", "failed"}
  BY <1>0 DEF Shape
<1>1. ASSUME NEW c \in Commands, NEW f \in Folders \cup {None}, Start(c, f) PROVE IndInv'
  BY <1>1, NewEventInd DEF Start
<1>2. ASSUME NEW c \in Commands, RunMulti(c) PROVE IndInv'
  <2>1. CASE \E f \in Folders \cup {None} : NewEvent(c, f) /\ UNCHANGED chain
    BY <2>1, NewEventInd
  <2>2. CASE ~ \E f \in Folders \cup {None} : NewEvent(c, f) /\ UNCHANGED chain
    <3>1. PICK next \in {"over", "cancelling", "broken"} :
             /\ chain' = [chain EXCEPT ![c] = next] /\ tagged' \in {tagged, tagged \ {c}}
             /\ UNCHANGED <<seen, folder, total, tasks, pc, lock, files, lost>>
      BY <1>2, <2>2 DEF RunMulti, folderVars
    <3>2. chain' \in [Commands -> Chains]
      BY <1>0, <3>1 DEF TypeOK, Chains
    <3>3. \A d \in Commands : chain[d] = "cancelled" => chain'[d] = "cancelled"
      BY <1>0, <1>2, <3>1 DEF RunMulti, TypeOK
    <3>4. tagged' \subseteq Commands /\ lock' \in Tasks \cup {None}
      BY <1>0, <3>1 DEF TypeOK
    <3>5. \A t \in Tasks : lock' = t => folder[t] # None /\ pc[t] \in {"complete", "failed"}
      BY <1>t, <3>1
    <3> QED BY <3>1, <3>2, <3>3, <3>4, <3>5, QuietInd
  <2> QED BY <2>1, <2>2
<1>3. ASSUME NEW c \in Commands, Cancelled(c) PROVE IndInv'
  BY <1>3, CancelledInd
<1>4. ASSUME NEW c \in Commands, CancelMulti(c) PROVE IndInv'
  <2>1. tagged' = tagged \ {c} /\ UNCHANGED <<seen, chain, folder, total, tasks, pc, lock, files, lost>>
    BY <1>4 DEF CancelMulti, folderVars
  <2>2. tagged' \subseteq Commands /\ chain' \in [Commands -> Chains] /\ lock' \in Tasks \cup {None}
    BY <1>0, <2>1 DEF TypeOK
  <2> QED BY <1>t, <2>1, <2>2, QuietInd
<1>5. ASSUME NEW t \in Tasks, Downloaded(t) PROVE IndInv'
  BY <1>5, DownloadedInd
<1>6. ASSUME NEW t \in Tasks, Error(t) PROVE IndInv'
  BY <1>6, ErrorInd
<1>7. ASSUME NEW t \in Tasks, Alone(t) PROVE IndInv'
  <2>1. /\ pc[t] = "complete" /\ pc' = [pc EXCEPT ![t] = "upload"] /\ lock' = lock
        /\ UNCHANGED <<seen, chain, tagged, folder, total, tasks, files, lost>>
    BY <1>7 DEF Alone, Goto, folderVars
  <2>2. folder[t] = None
    BY <1>0, <1>7, <2>1 DEF Alone, Member, Shape
  <2>3. lock # t
    BY <1>t, <2>2
  <2> QED BY <2>1, <2>2, <2>3, UploadInd
<1>8. ASSUME NEW t \in Tasks, Acquire(t) PROVE IndInv'
  <2>1. /\ pc[t] = "complete" /\ lock' = t /\ folder[t] # None
        /\ UNCHANGED <<seen, chain, tagged, folder, total, tasks, pc, files, lost>>
    BY <1>8 DEF Acquire, Member, folderVars
  <2>2. tagged' \subseteq Commands /\ chain' \in [Commands -> Chains] /\ lock' \in Tasks \cup {None}
    BY <1>0, <2>1 DEF TypeOK
  <2>3. \A u \in Tasks : lock' = u => folder[u] # None /\ pc[u] \in {"complete", "failed"}
    BY <2>1
  <2> QED BY <2>1, <2>2, <2>3, QuietInd
<1>9. ASSUME NEW t \in Tasks, Merge(t) PROVE IndInv'
  BY <1>9, MergeInd
<1>10. ASSUME NEW t \in Tasks, LastOne(t) PROVE IndInv'
  <2>1. /\ pc' = [pc EXCEPT ![t] = "upload"] /\ lock = t /\ lock' = None
        /\ t \in tasks[t[1]][folder[t]] /\ folder[t] # None /\ total[t[1]][folder[t]] <= 1
        /\ UNCHANGED <<seen, chain, tagged, folder, total, tasks, files, lost>>
    BY <1>10 DEF LastOne, Goto, Member, folderVars
  <2>2. folder[t] \in Folders /\ t[1] \in Commands
    BY <1>0, <2>1, TaskFacts DEF TypeOK
  <2>3. pc[t] = "complete"
    BY <1>0, <2>1, <2>2 DEF Shape
  <2>4. lock' # t
    BY <2>1, NoneIsNoTask
  <2> QED BY <2>1, <2>3, <2>4, UploadInd
<1>11. ASSUME NEW t \in Tasks, GiveUp(t) PROVE IndInv'
  <2>1. lock' = None /\ UNCHANGED <<seen, chain, tagged, folder, total, tasks, pc, files, lost>>
    BY <1>11 DEF GiveUp, folderVars
  <2>2. tagged' \subseteq Commands /\ chain' \in [Commands -> Chains] /\ lock' \in Tasks \cup {None}
    BY <1>0, <2>1 DEF TypeOK
  <2>3. \A u \in Tasks : lock' # u
    BY <2>1, NoneIsNoTask
  <2> QED BY <2>1, <2>2, <2>3, QuietInd
<1>12. CASE UNCHANGED vars
  <2>1. UNCHANGED <<seen, chain, tagged, folder, total, tasks, pc, lock, files, lost>>
    BY <1>12 DEF vars, folderVars
  <2> QED BY <1>0, <1>t, <2>1, QuietInd DEF TypeOK
<1> QED
  BY <1>1, <1>2, <1>3, <1>4, <1>5, <1>6, <1>7, <1>8, <1>9, <1>10, <1>11, <1>12
  DEF Next, Complete

LEMMA Invariance == Spec => []IndInv
BY InitIndInv, NextIndInv, PTL DEF Spec

\* In a command nobody cancelled a total of at most 1 leaves the last link alone
\* in its folder, with no link still to come.
LEMMA AloneInFolder ==
    ASSUME IndInv, NEW t \in Tasks, pc[t] = "upload", folder[t] # None,
           chain[t[1]] # "cancelled"
    PROVE  tasks[t[1]][folder[t]] = {t} /\ seen[t[1]] = Multi[t[1]]
<1> DEFINE S == tasks[t[1]][folder[t]]
<1>1. t[1] \in Commands /\ folder[t] \in Folders
  BY TaskFacts DEF IndInv, TypeOK
<1>2. t \in S /\ total[t[1]][folder[t]] <= 1 /\ IsFiniteSet(S)
  BY <1>1 DEF IndInv, Last, Shape
<1>3. total[t[1]][folder[t]] = Cardinality(S) + Multi[t[1]] - seen[t[1]]
  <2>1. total[t[1]][folder[t]] # None
    BY <1>1, <1>2 DEF IndInv, Shape
  <2> QED BY <1>1, <2>1 DEF IndInv, TotalsCount, Known
<1>4. /\ seen[t[1]] \in Nat /\ Multi[t[1]] \in Nat /\ seen[t[1]] <= Multi[t[1]]
  BY <1>1, MultiNat DEF IndInv, TypeOK
<1> HIDE DEF S
<1>5. /\ Cardinality(S) \in Nat /\ IsFiniteSet(S \ {t})
      /\ Cardinality(S \ {t}) = Cardinality(S) - 1 /\ Cardinality(S \ {t}) \in Nat
  BY <1>2, FS_CardinalityType, FS_RemoveElement
<1>6. Cardinality(S \ {t}) = 0 /\ seen[t[1]] = Multi[t[1]]
  BY <1>2, <1>3, <1>4, <1>5
<1>7. S \ {t} = {}
  BY <1>5, <1>6, FS_EmptySet
<1>8. S = {t}
  BY <1>2, <1>7
<1> QED BY <1>6, <1>8 DEF S

-----------------------------------------------------------------------------
(* What a folder waits for when its chain has ended *)

\* A chain that is over has started all links; one that was cancelled has taken
\* those that are left off the totals, and one more.
Ended(c) ==
    /\ seen[c] = 0 => chain[c] = "sleep"
    /\ chain[c] = "over" => seen[c] = Multi[c]
    /\ chain[c] = "cancelled" =>
          \A f \in Folders :
              total[c][f] # None => total[c][f] = Cardinality(tasks[c][f]) - 1
EndedAll == \A c \in Commands : Ended(c)

\* No new link joins a folder of a chain that was cancelled.
LEMMA NewEventEnded ==
    ASSUME IndInv, EndedAll, NEW c \in Commands, NEW f \in Folders \cup {None}, NewEvent(c, f),
           chain' = chain, chain[c] = "sleep"
    PROVE  EndedAll'
<1>1. seen[c] \in Nat /\ seen[c] + 1 \in 1..Multi[c]
  BY LinkFacts, MultiNat, TaskFacts DEF IndInv, NewEvent, TypeOK
<1>2. PICK t \in Tasks : t = <<c, seen[c] + 1>>
  BY <1>1, LinkFacts
<1>3. Count(t, f) /\ seen' = [seen EXCEPT ![c] = seen[c] + 1]
  BY <1>2, LinkFacts, <1>1 DEF NewEvent
<1>4. Counts(c, f, t)
  BY <1>2, <1>3, Counting DEF IndInv
<1>5. ASSUME NEW d \in Commands PROVE Ended(d)'
  <2>1. CASE d = c
    <3>1. chain'[d] = "sleep"
      BY <2>1
    <3> QED BY <3>1 DEF Ended
  <2>2. CASE d # c
    <3>1. seen'[d] = seen[d]
      BY <1>3, <2>2 DEF IndInv, TypeOK
    <3>2. \A g \in Folders : total'[d][g] = total[d][g] /\ tasks'[d][g] = tasks[d][g]
      BY <1>4, <2>2 DEF Counts
    <3> QED BY <3>1, <3>2 DEF EndedAll, Ended
  <2> QED BY <2>1, <2>2
<1> QED BY <1>5 DEF EndedAll

\* The cancel leaves every folder one short of its links.
LEMMA CancelledEnded ==
    ASSUME IndInv, EndedAll, NEW c \in Commands, Cancelled(c)
    PROVE  EndedAll'
<1>1. TypeOK /\ Shape /\ TotalsCount
  BY DEF IndInv
<1>2. /\ chain[c] = "cancelling" /\ chain' = [chain EXCEPT ![c] = "cancelled"]
      /\ UNCHANGED <<seen, tasks>>
  BY DEF Cancelled
<1>3. seen[c] \in Nat /\ seen[c] # 0 /\ Multi[c] \in Nat
  BY <1>1, <1>2, MultiNat DEF EndedAll, Ended, TypeOK
<1>4. ASSUME NEW f \in Folders, total'[c][f] # None
      PROVE  total'[c][f] = Cardinality(tasks[c][f]) - 1
  <2>1. total' = [total EXCEPT ![c] =
                   [g \in Folders |-> IF g \in Known(c) THEN @[g] - (Multi[c] - seen[c] + 1)
                                                        ELSE @[g]]]
    BY DEF Cancelled
  <2>2. total'[c][f] = IF f \in Known(c) THEN total[c][f] - (Multi[c] - seen[c] + 1)
                                         ELSE total[c][f]
    BY <1>1, <2>1 DEF TypeOK
  <2>3. f \in Known(c)
    BY <1>4, <2>2 DEF Known
  <2>4. total[c][f] = Cardinality(tasks[c][f]) + Multi[c] - seen[c]
    BY <1>1, <1>2, <2>3 DEF TotalsCount
  <2>5. Cardinality(tasks[c][f]) \in Nat
    BY <1>1, FS_CardinalityType DEF Shape
  <2> QED BY <1>3, <2>2, <2>3, <2>4, <2>5
<1>5. ASSUME NEW d \in Commands \ {c} PROVE Ended(d)'
  <2>1. total'[d] = total[d]
    BY <1>1 DEF Cancelled, TypeOK
  <2>2. chain'[d] = chain[d]
    BY <1>1, <1>2 DEF TypeOK
  <2> QED BY <1>2, <2>1, <2>2 DEF EndedAll, Ended
<1>6. Ended(c)'
  <2>1. chain'[c] = "cancelled"
    BY <1>1, <1>2 DEF TypeOK
  <2> QED BY <1>2, <1>3, <1>4, <2>1 DEF Ended
<1> QED BY <1>5, <1>6 DEF EndedAll

\* A link that leaves takes itself off its folder's total.
LEMMA RemovingEnded ==
    ASSUME IndInv, EndedAll, NEW t \in Tasks, RemoveFromSameDir(t), UNCHANGED <<seen, chain>>
    PROVE  EndedAll'
<1>1. TypeOK /\ Shape
  BY DEF IndInv
<1>2. Removes(t)
  BY <1>1, Removing
<1>3. ASSUME NEW c \in Commands, NEW f \in Folders, chain[c] = "cancelled",
             total'[c][f] # None
      PROVE  total'[c][f] = Cardinality(tasks'[c][f]) - 1
  <2>1. IsFiniteSet(tasks[c][f])
    BY <1>1 DEF Shape
  <2>2. Cardinality(tasks[c][f]) \in Nat
    BY <2>1, FS_CardinalityType
  <2>3. tasks'[c][f] = tasks[c][f] \ {t}
    BY <1>2 DEF Removes
  <2>4. CASE t \in tasks[c][f]
    <3>1. total[c][f] \in Int /\ total'[c][f] = total[c][f] - 1
      BY <1>2, <2>4 DEF Removes
    <3>2. Cardinality(tasks[c][f] \ {t}) = Cardinality(tasks[c][f]) - 1
      BY <2>1, <2>4, FS_RemoveElement
    <3>3. total[c][f] # None
      BY <3>1, SameDirAssumption
    <3>4. total[c][f] = Cardinality(tasks[c][f]) - 1
      BY <1>3, <3>3 DEF EndedAll, Ended
    <3> QED BY <2>2, <2>3, <3>1, <3>2, <3>4
  <2>5. CASE t \notin tasks[c][f]
    <3>1. total'[c][f] = total[c][f] /\ tasks'[c][f] = tasks[c][f]
      BY <1>2, <2>3, <2>5 DEF Removes
    <3> QED BY <1>3, <3>1 DEF EndedAll, Ended
  <2> QED BY <2>4, <2>5
<1> QED BY <1>3 DEF EndedAll, Ended

LEMMA NextEnded == IndInv /\ EndedAll /\ [Next]_vars => EndedAll'
<1> SUFFICES ASSUME IndInv, EndedAll, [Next]_vars PROVE EndedAll'
  OBVIOUS
<1>1. ASSUME UNCHANGED <<seen, chain, total, tasks>> PROVE EndedAll'
  BY <1>1 DEF EndedAll, Ended
<1>2. ASSUME NEW c \in Commands, NEW f \in Folders \cup {None}, Start(c, f) PROVE EndedAll'
  <2>1. chain[c] = "sleep" /\ chain' = chain /\ NewEvent(c, f)
    BY <1>2 DEF Start, EndedAll, Ended
  <2> QED BY <2>1, NewEventEnded
<1>3. ASSUME NEW c \in Commands, RunMulti(c) PROVE EndedAll'
  <2>1. CASE \E f \in Folders \cup {None} : NewEvent(c, f) /\ UNCHANGED chain
    <3>1. chain[c] = "sleep"
      BY <1>3 DEF RunMulti
    <3> QED BY <2>1, <3>1, NewEventEnded
  <2>2. CASE ~ \E f \in Folders \cup {None} : NewEvent(c, f) /\ UNCHANGED chain
    <3>1. PICK next \in {"over", "cancelling", "broken"} :
             /\ chain' = [chain EXCEPT ![c] = next]
             /\ next = "over" => seen[c] = Multi[c]
             /\ UNCHANGED <<seen, total, tasks>>
      BY <1>3, <2>2 DEF RunMulti, folderVars
    <3>2. seen[c] # 0 /\ seen[c] \in Nat
      BY <1>3 DEF RunMulti, IndInv, TypeOK
    <3>3. \A d \in Commands : chain'[d] = IF d = c THEN next ELSE chain[d]
      BY <3>1 DEF IndInv, TypeOK
    <3> QED BY <3>1, <3>2, <3>3 DEF EndedAll, Ended
  <2> QED BY <2>1, <2>2
<1>4. ASSUME NEW c \in Commands, Cancelled(c) PROVE EndedAll'
  BY <1>4, CancelledEnded
<1>5. ASSUME NEW t \in Tasks, Merge(t) \/ Error(t) PROVE EndedAll'
  BY <1>5, RemovingEnded DEF Merge, Error
<1>6. ASSUME \/ \E c \in Commands : CancelMulti(c)
             \/ \E t \in Tasks : \/ Downloaded(t) \/ Alone(t) \/ Acquire(t)
                                 \/ LastOne(t) \/ GiveUp(t)
             \/ UNCHANGED vars
      PROVE  EndedAll'
  BY <1>1, <1>6 DEF CancelMulti, Downloaded, Alone, Acquire, LastOne, GiveUp, folderVars, vars
<1> QED BY <1>2, <1>3, <1>4, <1>5, <1>6 DEF Next, Complete

-----------------------------------------------------------------------------

\* A link never leaves "unborn" early, a folder is None or counts an integer,
\* and the lock is free or held by a link.
THEOREM Typing == Spec => []TypeOK
<1>1. IndInv => TypeOK
  BY DEF IndInv
<1> QED BY <1>1, Invariance, PTL

\* However the links of however many commands start, fail, merge and stop, a
\* folder of a command nobody cancelled waits for its unsettled links and for
\* those that have not started, no more and no less.
THEOREM FoldersCount == Spec => []TotalsCount
<1>1. IndInv => TotalsCount
  BY DEF IndInv
<1> QED BY <1>1, Invariance, PTL

\* The link that uploads from a folder has the files of all its links that have
\* not failed or been deleted with one that did; none is still to come.
THEOREM LastUploadsAll == Spec => []UploadedTogether
<1>1. IndInv => UploadedTogether
  <2> SUFFICES ASSUME IndInv, NEW t \in Tasks, pc[t] = "upload", folder[t] # None,
                      chain[t[1]] # "cancelled"
               PROVE  /\ files[t] = {u \in TasksOf(t[1]) : folder[u] = folder[t]
                                                           /\ pc[u] # "failed"} \ lost
                      /\ tasks[t[1]][folder[t]] = {t}
                      /\ seen[t[1]] = Multi[t[1]]
    BY DEF UploadedTogether
  <2>1. tasks[t[1]][folder[t]] = {t} /\ seen[t[1]] = Multi[t[1]]
    BY AloneInFolder
  <2>2. ASSUME NEW u \in files[t]
        PROVE  u \in TasksOf(t[1]) /\ folder[u] = folder[t] /\ pc[u] # "failed" /\ u \notin lost
    BY <2>2 DEF IndInv, TypeOK, Stored, TasksOf
  <2>3. ASSUME NEW u \in Tasks, u[1] = t[1], folder[u] = folder[t], pc[u] # "failed", u \notin lost
        PROVE  u \in files[t]
    <3>1. u[2] <= seen[u[1]] /\ seen[u[1]] \in Nat /\ u[2] \in Nat
      <4>1. u[2] \in 1..Multi[u[1]] /\ Multi[u[1]] \in Nat
        BY TaskFacts, MultiNat
      <4> QED BY <2>1, <2>3, <4>1
    <3>2. pc[u] # "unborn"
      BY <3>1 DEF IndInv, Shape
    <3>3. pc[u] # "download"
      BY <2>1, <2>3 DEF IndInv, Shape
    <3>4. pc[u] \in {"complete", "merged", "upload"}
      BY <2>3, <3>2, <3>3 DEF IndInv, TypeOK, PCs
    <3> QED BY <2>1, <2>3, <3>4 DEF IndInv, Stored
  <2> QED BY <2>1, <2>2, <2>3 DEF TasksOf
<1> QED BY <1>1, Invariance, PTL

\* Nothing is merged into a link that uploads, in a cancelled command either:
\* its total is at most 1, and who merges has seen more.
THEOREM UploadsKeepTheirFiles == Spec => NoLateFiles
<1>1. IndInv /\ [Next]_vars => [\A t \in Tasks : pc[t] = "upload" => files'[t] = files[t]]_vars
  <2> SUFFICES ASSUME IndInv, Next, NEW t \in Tasks, pc[t] = "upload"
               PROVE  files'[t] = files[t]
    OBVIOUS
  <2>0. TypeOK /\ Shape /\ Last
    BY DEF IndInv
  <2>1. ASSUME NEW u \in Tasks, Merge(u) PROVE files'[t] = files[t]
    <3>1. PICK other \in tasks[u[1]][folder[u]] \ {u} :
             files' = [files EXCEPT ![u] = {}, ![other] = @ \cup files[u]]
      BY <2>1 DEF Merge
    <3>2. /\ u[1] \in Commands /\ folder[u] \in Folders /\ folder[u] # None
          /\ u \in tasks[u[1]][folder[u]] /\ lock = u
      BY <2>0, <2>1, TaskFacts DEF Merge, Member, TypeOK
    <3>3. pc[u] = "complete"
      BY <2>0, <3>2 DEF Shape
    <3>4. total[u[1]][folder[u]] \in Int /\ total[u[1]][folder[u]] > 1
      BY <2>0, <2>1, <3>2 DEF Merge, Shape, TypeOK
    <3>5. other # t
      <4> SUFFICES ASSUME other = t PROVE FALSE
        OBVIOUS
      <4>1. t[1] = u[1] /\ folder[t] = folder[u]
        BY <2>0, <3>1, <3>2 DEF Shape
      <4> QED BY <2>0, <3>2, <3>4, <4>1 DEF Last
    <3> QED BY <2>0, <3>1, <3>3, <3>5 DEF TypeOK
  <2>2. ASSUME NEW u \in Tasks, Error(u) \/ Downloaded(u) PROVE files'[t] = files[t]
    BY <2>0, <2>2 DEF Error, Downloaded, TypeOK
  <2>3. ASSUME NEW c \in Commands,
               \/ \E f \in Folders \cup {None} : Start(c, f)
               \/ RunMulti(c) \/ Cancelled(c) \/ CancelMulti(c)
        PROVE  files'[t] = files[t]
    BY <2>3 DEF Start, RunMulti, NewEvent, Cancelled, CancelMulti
  <2>4. ASSUME NEW u \in Tasks, Alone(u) \/ Acquire(u) \/ LastOne(u) \/ GiveUp(u)
        PROVE  files'[t] = files[t]
    BY <2>4 DEF Alone, Acquire, LastOne, GiveUp
  <2> QED BY <2>1, <2>2, <2>3, <2>4 DEF Next, Complete
<1> QED BY <1>1, Invariance, PTL DEF Spec, NoLateFiles

\* Who holds same_directory_lock for its folder is the last, has another link to
\* give its files to, or waits for a link that its chain has yet to start: no
\* error, merge or cancel leaves a total that counts on a link that is gone.
THEOREM LockWaitsForSomebody == Spec => []SomebodyAwaited
<1>1. IndInv /\ EndedAll => SomebodyAwaited
  <2> SUFFICES ASSUME IndInv, EndedAll, NEW t \in Tasks, lock = t, Member(t),
                      ~(total[t[1]][folder[t]] <= 1), tasks[t[1]][folder[t]] = {t}
               PROVE  seen[t[1]] < Multi[t[1]] /\ chain[t[1]] \in {"sleep", "cancelling", "broken"}
    BY DEF SomebodyAwaited
  <2>1. /\ t[1] \in Commands /\ folder[t] \in Folders
        /\ seen[t[1]] \in Nat /\ Multi[t[1]] \in Nat /\ chain[t[1]] \in Chains
    BY TaskFacts, MultiNat DEF Member, IndInv, TypeOK
  <2>2. total[t[1]][folder[t]] # None
    BY <2>1 DEF IndInv, Shape
  <2>3. Cardinality(tasks[t[1]][folder[t]]) = 1
    BY FS_Singleton
  <2>4. chain[t[1]] # "cancelled"
    <3> SUFFICES ASSUME chain[t[1]] = "cancelled" PROVE FALSE
      OBVIOUS
    <3>1. total[t[1]][folder[t]] = Cardinality(tasks[t[1]][folder[t]]) - 1
      BY <2>1, <2>2 DEF EndedAll, Ended
    <3>2. total[t[1]][folder[t]] = 0
      BY <2>3, <3>1
    <3> QED BY <3>2
  <2>5. total[t[1]][folder[t]] = 1 + Multi[t[1]] - seen[t[1]]
    BY <2>1, <2>2, <2>3, <2>4 DEF IndInv, TotalsCount, Known
  <2>6. seen[t[1]] < Multi[t[1]]
    BY <2>1, <2>5
  <2>7. chain[t[1]] # "over"
    BY <2>1, <2>6 DEF EndedAll, Ended
  <2> QED BY <2>1, <2>4, <2>6, <2>7 DEF Chains
<1>2. Init => EndedAll
  BY DEF Init, EndedAll, Ended
<1> QED BY <1>1, <1>2, Invariance, NextEnded, PTL DEF Spec

=============================================================================
