------------------------ MODULE KnowledgeBasesProofs ------------------------
(***************************************************************************)
(* Theorems about the metadata of any number of users, knowledge bases and *)
(* files, with any faults.                                                 *)
(***************************************************************************)
EXTENDS KnowledgeBases, TLAPS, WellFoundedInduction

-----------------------------------------------------------------------------
(* The operators the model is built from.                                  *)

Less == {pair \in Nat \X Nat : pair[1] < pair[2]}

LEMMA LessIsWellFounded == IsWellFoundedOn(Less, Nat)
  BY NatLessThanWellFounded, Zenon DEF OpToRel, Less

\* The next id is one that no row has.
LEMMA NextIdIsFree ==
    ASSUME NEW ids \in SUBSET Nat, NEW rows, ids \ rows # {}
    PROVE  NextId(ids, rows) \in ids \ rows
  <1>1. PICK i \in ids \ rows : \A j \in ids \ rows : <<j, i>> \notin Less
    BY LessIsWellFounded, WFMin
  <1>2. \A j \in ids \ rows : i <= j
    <2> SUFFICES ASSUME NEW j \in ids \ rows, j < i PROVE FALSE
      OBVIOUS
    <2>1. <<j, i>> \in Nat \X Nat /\ <<j, i>>[1] < <<j, i>>[2]
      OBVIOUS
    <2>2. <<j, i>> \in Less
      BY <2>1, Zenon DEF Less
    <2> QED
      BY <1>1, <2>2
  <1> QED
    BY <1>1, <1>2 DEF NextId

-----------------------------------------------------------------------------
(* Type correctness.                                                       *)

LEMMA InitType == Init => TypeOK
  <1> SUFFICES ASSUME Init PROVE TypeOK
    OBVIOUS
  <1> USE ConstantsAssumption
  <1>1. Len(StatusOrder) = 4
    BY DEF StatusOrder
  <1>2. IsFile(NoFile) /\ IsUpload(NoUpload)
    BY DEF IsFile, NoFile, IsUpload, NoUpload, Statuses
  <1> QED
    BY <1>1, <1>2 DEF Init, TypeOK, NoKb, LoopIdle, Steps, KbRecords, Loops

\* A fresh row of a file is well formed.
LEMMA AddFileType ==
    ASSUME TypeOK, NEW u \in Users, NEW k \in Kbs, NEW name,
           Files \ FileRows # {}, AddFile(u, k, name)
    PROVE  /\ NextId(Files, FileRows) \in Files \ FileRows
           /\ file' = [f \in Files |-> file'[f]] /\ \A f \in Files : IsFile(file'[f])
           /\ \A f \in Files : file'[f] = IF f = NextId(Files, FileRows)
                  THEN [kb |-> k, name |-> name, status |-> "gray", deleted |-> 0] ELSE file[f]
  <1> DEFINE n == NextId(Files, FileRows)
             r == [kb |-> k, name |-> name, status |-> "gray", deleted |-> 0]
  <1>1. n \in Files \ FileRows
    BY NextIdIsFree, ConstantsAssumption
  <1>2. IsFile(r)
    BY DEF IsFile, Statuses
  <1>3. file' = [file EXCEPT ![n] = r] /\ file = [f \in Files |-> file[f]]
    BY DEF AddFile, TypeOK
  <1> HIDE DEF n, r
  <1>4. file' = [f \in Files |-> IF f = n THEN r ELSE file[f]]
    BY <1>1, <1>3
  <1> QED
    <2>1. file' = [f \in Files |-> file'[f]] /\ \A f \in Files : IsFile(file'[f])
      BY <1>2, <1>4 DEF TypeOK
    <2>2. \A f \in Files : file'[f] = IF f = n THEN r ELSE file[f]
      BY <1>4
    <2> QED
      BY <1>1, <2>1, <2>2 DEF n, r

\* So is one whose status or deletion mark was changed.
LEMMA ChangedIsFile ==
    ASSUME NEW r, IsFile(r), NEW s \in Statuses
    PROVE  /\ IsFile([r EXCEPT !.status = s]) /\ [r EXCEPT !.status = s].status = s
           /\ IsFile([r EXCEPT !.deleted = 1]) /\ [r EXCEPT !.deleted = 1].deleted = 1
           /\ [r EXCEPT !.status = s].kb = r.kb /\ [r EXCEPT !.status = s].name = r.name
           /\ [r EXCEPT !.status = s].deleted = r.deleted
           /\ [r EXCEPT !.deleted = 1].kb = r.kb /\ [r EXCEPT !.deleted = 1].name = r.name
           /\ [r EXCEPT !.deleted = 1].status = r.status
  <1> DEFINE q == [kb |-> r.kb, name |-> r.name, status |-> r.status, deleted |-> r.deleted]
  <1>1. r = q
    BY DEF IsFile
  <1>2. [q EXCEPT !.status = s]
           = [kb |-> r.kb, name |-> r.name, status |-> s, deleted |-> r.deleted]
    OBVIOUS
  <1>3. [q EXCEPT !.deleted = 1]
           = [kb |-> r.kb, name |-> r.name, status |-> r.status, deleted |-> 1]
    OBVIOUS
  <1> HIDE DEF q
  <1> QED
    BY <1>1, <1>2, <1>3 DEF IsFile

\* Marking some files of a table leaves it well formed.
LEMMA MarkedType ==
    ASSUME TypeOK, NEW some \in SUBSET Files,
           file' = [f \in Files |-> IF f \in some THEN [file[f] EXCEPT !.deleted = 1] ELSE file[f]]
    PROVE  file' = [f \in Files |-> file'[f]] /\ \A f \in Files : IsFile(file'[f])
  <1> DEFINE marked == [f \in Files |-> [file[f] EXCEPT !.deleted = 1]]
  <1>1. \A f \in Files : IsFile(marked[f])
    <2> SUFFICES ASSUME NEW f \in Files PROVE IsFile([file[f] EXCEPT !.deleted = 1])
      OBVIOUS
    <2> QED
      BY ChangedIsFile, "gray" \in Statuses DEF TypeOK, Statuses
  <1>2. file' = [f \in Files |-> IF f \in some THEN marked[f] ELSE file[f]]
    OBVIOUS
  <1> HIDE DEF marked
  <1> QED
    BY <1>1, <1>2 DEF TypeOK

\* The progress of a handler is well formed.
LEMMA LoopType ==
    ASSUME loop \in Loops
    PROVE  /\ \A step \in Steps : [loop EXCEPT !.step = step] \in Loops
                                   /\ [loop EXCEPT !.step = step].user = loop.user
           /\ \A k : /\ [loop EXCEPT !.left = @ \ {k}] \in Loops
                     /\ [loop EXCEPT !.left = @ \ {k}].user = loop.user
                     /\ [loop EXCEPT !.left = @ \ {k}].step = loop.step
           /\ \A k : /\ [loop EXCEPT !.left = @ \ {k}, !.next = 1] \in Loops
                     /\ [loop EXCEPT !.left = @ \ {k}, !.next = 1].user = loop.user
                     /\ [loop EXCEPT !.left = @ \ {k}, !.next = 1].step = loop.step
           /\ loop.next <= Len(StatusOrder) =>
                 /\ [loop EXCEPT !.next = @ + 1] \in Loops
                 /\ [loop EXCEPT !.next = @ + 1].user = loop.user
                 /\ [loop EXCEPT !.next = @ + 1].step = loop.step
  <1>1. Len(StatusOrder) = 4
    BY DEF StatusOrder
  <1>2. \A step \in Steps : [loop EXCEPT !.step = step] \in Loops
                             /\ [loop EXCEPT !.step = step].user = loop.user
    BY DEF Loops
  <1>3. ASSUME NEW k
        PROVE  /\ [loop EXCEPT !.left = @ \ {k}] \in Loops
               /\ [loop EXCEPT !.left = @ \ {k}].user = loop.user
               /\ [loop EXCEPT !.left = @ \ {k}].step = loop.step
    BY DEF Loops
  <1>4. ASSUME NEW k
        PROVE  /\ [loop EXCEPT !.left = @ \ {k}, !.next = 1] \in Loops
               /\ [loop EXCEPT !.left = @ \ {k}, !.next = 1].user = loop.user
               /\ [loop EXCEPT !.left = @ \ {k}, !.next = 1].step = loop.step
    <2> DEFINE one == [loop EXCEPT !.left = @ \ {k}]
    <2>1. one \in Loops /\ one.user = loop.user /\ one.step = loop.step
      BY <1>3
    <2> HIDE DEF one
    <2>2. [one EXCEPT !.next = 1] \in Loops /\ [one EXCEPT !.next = 1].user = one.user
          /\ [one EXCEPT !.next = 1].step = one.step
      BY <1>1, <2>1 DEF Loops
    <2> QED
      BY <2>1, <2>2, Zenon DEF one
  <1>5. ASSUME loop.next <= Len(StatusOrder)
        PROVE  /\ [loop EXCEPT !.next = @ + 1] \in Loops
               /\ [loop EXCEPT !.next = @ + 1].user = loop.user
               /\ [loop EXCEPT !.next = @ + 1].step = loop.step
    BY <1>1, <1>5 DEF Loops
  <1> QED
    BY <1>2, <1>3, <1>4, <1>5

LEMMA NextType == TypeOK /\ [Next]_vars => TypeOK'
  <1> SUFFICES ASSUME TypeOK, [Next]_vars PROVE TypeOK'
    OBVIOUS
  <1> USE ConstantsAssumption
  <1>a. Len(StatusOrder) = 4
    BY DEF StatusOrder
  <1>b. LoopIdle.step = "idle" /\ LoopIdle \in Loops
    BY <1>a DEF LoopIdle, Steps, Loops
  <1>c. IsUpload(NoUpload)
    BY DEF IsUpload, NoUpload
  <1>1. ASSUME NEW u \in Users, NEW name \in KbNames, NewKnowledgeBase(u, name) PROVE TypeOK'
    <2>1. NextId(Kbs, KbRows) \in Kbs
      BY <1>1, NextIdIsFree DEF NewKnowledgeBase
    <2> QED
      BY <1>1, <2>1 DEF NewKnowledgeBase, TypeOK, others, KbRecords
  <1>2. ASSUME NEW u \in Users, NewKnowledgeBaseRaises(u) PROVE TypeOK'
    BY <1>2 DEF NewKnowledgeBaseRaises, TypeOK
  <1>3. ASSUME NEW u \in Users, NEW k \in Kbs, NEW name \in KbNames,
               RenameKnowledgeBase(u, k, name) PROVE TypeOK'
    <2>1. kb' = [kb EXCEPT ![k] = [kb[k] EXCEPT !.name = name]]
      BY <1>3 DEF RenameKnowledgeBase, TypeOK
    <2>2. [kb[k] EXCEPT !.name = name] \in KbRecords
      BY DEF TypeOK, KbRecords
    <2> QED
      BY <1>3, <2>1, <2>2 DEF RenameKnowledgeBase, TypeOK
  <1>4. ASSUME NEW u \in Users, NEW k \in Kbs, NEW url \in Urls, NEW mode \in Modes,
               UploadWeblink(u, k, url, mode) PROVE TypeOK'
    <2>1. Job({NextId(Files, FileRows)}, FALSE) \in
             Jobs
      BY <1>4, NextIdIsFree DEF UploadWeblink, Job, Jobs
    <2> QED
      BY <1>4, <2>1, AddFileType DEF UploadWeblink, TypeOK
  <1>5. ASSUME NEW u \in Users, NEW k \in Kbs, NEW names, NEW mode \in Modes,
               UploadFiles(u, k, names, mode) PROVE TypeOK'
    <2>1. PICK todo : upload' = [upload EXCEPT ![u] = [kb |-> k, todo |-> todo, local |-> {}]]
      BY <1>5 DEF UploadFiles
    <2>2. IsUpload([kb |-> k, todo |-> todo, local |-> {}])
      BY DEF IsUpload
    <2>3. upload' = [v \in Users |-> upload'[v]] /\ \A v \in Users : IsUpload(upload'[v])
      BY <2>1, <2>2 DEF TypeOK
    <2> QED
      BY <1>5, <2>3 DEF UploadFiles, TypeOK, tables, aux
  <1>6. ASSUME NEW u \in Users, ReadFile(u) PROVE TypeOK'
    <2> DEFINE f == NextId(Files, FileRows)
               all == upload[u].local \cup {f}
    <2>1. upload[u].kb \in Kbs /\ Files \ FileRows # {}
      BY <1>6 DEF ReadFile, CheckKbExist, KbRows
    <2>2. /\ f \in Files
          /\ file' = [g \in Files |-> file'[g]] /\ \A g \in Files : IsFile(file'[g])
      BY <1>6, <2>1, AddFileType DEF ReadFile
    <2>3. all \in SUBSET Files
      BY <2>2 DEF TypeOK, IsUpload
    <2>4. copies' = copies \cup {f}
      BY <1>6 DEF ReadFile
    <2>5. \/ jobs' = jobs \cup {Job(all, TRUE)} /\ upload' = [upload EXCEPT ![u] = NoUpload]
          \/ /\ upload' = [upload EXCEPT ![u] =
                     [kb |-> upload[u].kb, todo |-> Tail(upload[u].todo), local |-> all]]
             /\ jobs' = jobs
      BY <1>6 DEF ReadFile, TypeOK
    <2> HIDE DEF f, all
    <2>6. jobs' \subseteq Jobs
      <3>1. Job(all, TRUE) \in Jobs
        BY <2>3 DEF Job, Jobs
      <3> QED
        BY <2>5, <3>1 DEF TypeOK
    <2>7. upload' = [v \in Users |-> upload'[v]] /\ \A v \in Users : IsUpload(upload'[v])
      <3>1. IsUpload([kb |-> upload[u].kb, todo |-> Tail(upload[u].todo), local |-> all])
        BY <2>3 DEF IsUpload
      <3> QED
        BY <2>5, <3>1, <1>c DEF TypeOK
    <2> QED
      BY <1>6, <2>2, <2>4, <2>6, <2>7 DEF ReadFile, TypeOK
  <1>7. ASSUME NEW u \in Users, UploadRaises(u) PROVE TypeOK'
    <2>1. file' = [g \in Files |-> file'[g]] /\ \A g \in Files : IsFile(file'[g])
      <3>1. CASE CheckKbExist(u, {upload[u].kb}) /\ Files \ FileRows # {}
                 /\ AddFile(u, upload[u].kb, Head(upload[u].todo))
        BY <3>1, AddFileType DEF CheckKbExist, KbRows
      <3>2. CASE file' = file
        BY <3>2 DEF TypeOK
      <3> QED
        BY <1>7, <3>1, <3>2 DEF UploadRaises
    <2>2. upload' = [v \in Users |-> upload'[v]] /\ \A v \in Users : IsUpload(upload'[v])
      BY <1>7, <1>c DEF UploadRaises, TypeOK
    <2> QED
      BY <1>7, <2>1, <2>2 DEF UploadRaises, TypeOK
  <1>8. ASSUME NEW u \in Users, NEW step \in Steps, NEW ks \in SUBSET Kbs,
               NEW files \in SUBSET Files, NEW doomed, Begin(u, step, ks, files, doomed)
        PROVE TypeOK'
    BY <1>8, <1>a DEF Begin, TypeOK, tables, Loops
  <1>9. ASSUME NEW u \in Users, NEW k \in Kbs, NEW files \in SUBSET Files,
               DeleteDocs(u, k, files) PROVE TypeOK'
    BY <1>8, <1>9 DEF DeleteDocs, Steps
  <1>10. ASSUME NEW u \in Users, NEW ks \in SUBSET Kbs, NEW s \in Statuses,
                CleanFilesByStatus(u, ks, s) PROVE TypeOK'
    <2>1. GetKnowledgeBases(u) \in SUBSET Kbs
          /\ \A asked : GetFileByStatus(asked, s) \in SUBSET Files
      BY DEF GetKnowledgeBases, KbRows, GetFileByStatus, FileRows
    <2> QED
      BY <1>8, <1>10, <2>1 DEF CleanFilesByStatus, Steps
  <1>11. ASSUME NEW u \in Users, NEW ks \in SUBSET Kbs, DeleteKnowledgeBase(u, ks)
         PROVE TypeOK'
    BY <1>8, <1>11 DEF DeleteKnowledgeBase, Steps
  <1>12. ASSUME NEW u \in Users, GetTotalStatus(u) PROVE TypeOK'
    <2>1. GetKnowledgeBases(u) \in SUBSET Kbs
      BY DEF GetKnowledgeBases, KbRows
    <2> QED
      BY <1>12, <2>1, <1>a DEF GetTotalStatus, TypeOK, tables, Steps, Loops
  <1>13. CASE DeleteVectors
    BY <1>13, <1>b, LoopType DEF DeleteVectors, TypeOK, tables, aux, Steps
  <1>14. CASE DeleteRows
    <2>1. PICK k \in loop.left :
             /\ file' = [f \in Files |-> IF f \in loop.files /\ file[f].kb = k
                                         THEN [file[f] EXCEPT !.deleted = 1] ELSE file[f]]
             /\ loop' = IF loop.left = {k} THEN LoopIdle ELSE [loop EXCEPT !.left = @ \ {k}]
      BY <1>14 DEF DeleteRows
    <2> DEFINE some == {f \in Files : f \in loop.files /\ file[f].kb = k}
    <2>2. file' = [f \in Files |-> IF f \in some THEN [file[f] EXCEPT !.deleted = 1] ELSE file[f]]
      BY <2>1
    <2>3. some \in SUBSET Files
      OBVIOUS
    <2> HIDE DEF some
    <2>4. file' = [f \in Files |-> file'[f]] /\ \A f \in Files : IsFile(file'[f])
      BY <2>2, <2>3, MarkedType
    <2>5. /\ loop' \in Loops
          /\ loop'.step # "idle" => loop'.user \in Users
      BY <1>14, <2>1, <1>b, LoopType DEF TypeOK, DeleteRows
    <2> QED
      BY <1>14, <2>4, <2>5 DEF DeleteRows, TypeOK, others
  <1>15. CASE DeletePartition
    <2>1. PICK k \in loop.left :
             /\ vectors' = vectors \ {f \in OfUser(vectors) : file[f].kb = k}
             /\ \/ loop' = IF loop.left = {k} THEN [loop EXCEPT !.step = "kbRows"]
                           ELSE [loop EXCEPT !.left = @ \ {k}]
                \/ loop' = LoopIdle
      BY <1>15 DEF DeletePartition
    <2>2. loop' \in Loops /\ (loop'.step # "idle" => loop'.user \in Users)
      <3>1. CASE loop' = LoopIdle
        BY <3>1, <1>b
      <3>2. CASE loop' = [loop EXCEPT !.step = "kbRows"]
        BY <3>2, <1>15, LoopType DEF DeletePartition, TypeOK, Steps
      <3>3. CASE loop' = [loop EXCEPT !.left = @ \ {k}]
        BY <3>3, <1>15, LoopType DEF DeletePartition, TypeOK
      <3> QED
        BY <2>1, <3>1, <3>2, <3>3
    <2>3. vectors' \subseteq Files
      BY <2>1 DEF TypeOK
    <2> QED
      BY <1>15, <2>2, <2>3 DEF DeletePartition, TypeOK, tables, aux
  <1>16. CASE MarkKbRows
    <2>1. \A k \in Kbs : [kb[k] EXCEPT !.deleted = 1] \in
             KbRecords
      BY DEF TypeOK, KbRecords
    <2>2. kb' \in [Kbs -> KbRecords]
      BY <1>16, <2>1 DEF MarkKbRows, TypeOK
    <2> QED
      BY <1>16, <2>2, LoopType DEF MarkKbRows, TypeOK, Steps, others
  <1>17. CASE MarkFileRows
    <2> DEFINE some == {f \in Files : f \in OfUser(Files) /\ file[f].kb \in loop.kbs}
    <2>1. file' = [f \in Files |-> IF f \in some THEN [file[f] EXCEPT !.deleted = 1] ELSE file[f]]
      BY <1>17 DEF MarkFileRows
    <2>2. some \in SUBSET Files
      OBVIOUS
    <2> HIDE DEF some
    <2>3. file' = [f \in Files |-> file'[f]] /\ \A f \in Files : IsFile(file'[f])
      BY <2>1, <2>2, MarkedType
    <2> QED
      BY <1>17, <2>3, <1>b DEF MarkFileRows, TypeOK, others
  <1>18. CASE CountStatus
    BY <1>18, LoopType DEF CountStatus, TypeOK, tables, aux
  <1>19. CASE AddTotal
    <2>1. \/ loop' = LoopIdle
          \/ loop' = [loop EXCEPT !.left = @ \ {CountedKb}, !.next = 1]
      BY <1>19 DEF AddTotal
    <2>2. loop' \in Loops /\ (loop'.step # "idle" => loop'.user \in Users)
      BY <2>1, <1>19, <1>b, LoopType DEF AddTotal, TypeOK, Totalled
    <2> QED
      BY <1>19, <2>2 DEF AddTotal, TypeOK, tables, aux
  <1>20. ASSUME NEW j \in jobs, NEW f \in j.left, NEW s \in Outcomes, SettleFile(j, f, s)
         PROVE TypeOK'
    <2>1. j \in Jobs /\ f \in Files
      BY DEF TypeOK, Jobs
    <2>2. IsFile([file[f] EXCEPT !.status = s])
      BY <2>1, ChangedIsFile DEF TypeOK, Statuses
    <2>3. file' = [file EXCEPT ![f] = [file[f] EXCEPT !.status = s]]
      BY <1>20 DEF SettleFile
    <2>4. file' = [g \in Files |-> file'[g]] /\ \A g \in Files : IsFile(file'[g])
      BY <2>1, <2>2, <2>3, Zenon DEF TypeOK
    <2>5. [j EXCEPT !.left = @ \ {f}] \in Jobs
      BY <2>1 DEF Jobs
    <2>6. jobs' \subseteq Jobs
      BY <1>20, <2>5 DEF SettleFile, TypeOK
    <2> QED
      BY <1>20, <2>1, <2>4, <2>6 DEF SettleFile, TypeOK, aux
  <1>21. ASSUME NEW j \in jobs, JobRaises(j) PROVE TypeOK'
    <2> DEFINE red == [f \in Files |-> [file[f] EXCEPT !.status = "red"]]
    <2>1. \A f \in Files : IsFile(red[f])
      <3> SUFFICES ASSUME NEW f \in Files PROVE IsFile([file[f] EXCEPT !.status = "red"])
        OBVIOUS
      <3> QED
        BY ChangedIsFile, "red" \in Statuses DEF TypeOK, Statuses
    <2>2. \/ file' = [f \in Files |-> IF f \in j.files THEN red[f] ELSE file[f]]
          \/ file' = file
      BY <1>21 DEF JobRaises
    <2> HIDE DEF red
    <2>3. file' = [f \in Files |-> file'[f]] /\ \A f \in Files : IsFile(file'[f])
      BY <2>1, <2>2 DEF TypeOK
    <2> QED
      BY <1>21, <2>3 DEF JobRaises, TypeOK
  <1>22. CASE Crash
    <2>1. upload' = [u \in Users |-> upload'[u]] /\ \A u \in Users : IsUpload(upload'[u])
      BY <1>22, <1>c DEF Crash
    <2> QED
      BY <1>22, <2>1, <1>b DEF Crash, TypeOK, tables
  <1>23. CASE UNCHANGED vars
    BY <1>23 DEF vars, tables, aux, TypeOK
  <1> QED
    BY <1>1, <1>2, <1>3, <1>4, <1>5, <1>6, <1>7, <1>9, <1>10, <1>11, <1>12, <1>13, <1>14,
       <1>15, <1>16, <1>17, <1>18, <1>19, <1>20, <1>21, <1>22, <1>23
       DEF Next, Request, Handle, Work

\* Rows, copies, requests, jobs and the handler in progress keep their shape,
\* for any number of users, knowledge bases and files.
THEOREM TypeCorrect == Spec => []TypeOK
  <1> QED
    BY InitType, NextType, PTL DEF Spec

-----------------------------------------------------------------------------
(* Users stay apart.                                                       *)

\* What a knowledge base belongs to never changes.
LEMMA OwnersStay ==
    ASSUME TypeOK, [Next]_vars, NEW k \in Kbs, kb[k].owner \in Users
    PROVE  kb'[k].owner = kb[k].owner
  <1> USE ConstantsAssumption
  <1>1. ASSUME NEW u \in Users, NEW name \in KbNames, NewKnowledgeBase(u, name)
        PROVE  kb'[k].owner = kb[k].owner
    <2>1. NextId(Kbs, KbRows) \in Kbs \ KbRows
      BY <1>1, NextIdIsFree DEF NewKnowledgeBase
    <2>2. k # NextId(Kbs, KbRows)
      BY <2>1 DEF KbRows, NoKb
    <2> QED
      BY <1>1, <2>1, <2>2 DEF NewKnowledgeBase, TypeOK
  <1>2. ASSUME NEW u \in Users, NEW l \in Kbs, NEW name \in KbNames,
               RenameKnowledgeBase(u, l, name)
        PROVE  kb'[k].owner = kb[k].owner
    BY <1>2 DEF RenameKnowledgeBase, TypeOK, KbRecords
  <1>3. CASE MarkKbRows
    BY <1>3 DEF MarkKbRows, TypeOK, KbRecords
  <1>4. CASE UNCHANGED kb
    BY <1>4
  <1>5. ASSUME NEW u \in Users, Request(u)
        PROVE  kb'[k].owner = kb[k].owner
    BY <1>1, <1>2, <1>4, <1>5
       DEF Request, NewKnowledgeBaseRaises, UploadWeblink, UploadFiles, ReadFile, UploadRaises,
           DeleteDocs, CleanFilesByStatus, DeleteKnowledgeBase, GetTotalStatus, Begin, tables
  <1> QED
    BY <1>3, <1>4, <1>5
       DEF Next, Handle, Work, DeleteVectors, DeleteRows, DeletePartition, MarkFileRows, CountStatus,
           AddTotal, SettleFile, JobRaises, Crash, vars, tables

\* A deletion of files goes through knowledge bases of its user.
Deleting == loop.step \in {"vectors", "rows"}
DeletesOwn == Deleting => \A k \in loop.left : kb[k].owner = loop.user

LEMMA DeletesOwnStays ==
    ASSUME TypeOK, DeletesOwn, [Next]_vars
    PROVE  DeletesOwn'
  <1>1. ASSUME Deleting', loop' = loop PROVE DeletesOwn'
    BY <1>1, OwnersStay DEF TypeOK, Loops, Deleting, DeletesOwn
  <1>2. ASSUME ~Deleting' PROVE DeletesOwn'
    BY <1>2 DEF DeletesOwn
  <1>3. ASSUME NEW u \in Users, NEW ks \in SUBSET Kbs, NEW files, NEW doomed,
               \A k \in ks : kb[k].owner = u, Begin(u, "vectors", ks, files, doomed)
        PROVE  DeletesOwn'
    BY <1>3 DEF Begin, DeletesOwn, tables
  <1>a. ~(LoopIdle.step \in {"vectors", "rows"})
    BY DEF LoopIdle
  <1>4. ASSUME NEW u \in Users, Request(u) PROVE DeletesOwn'
    <2>1. ASSUME NEW k \in Kbs, NEW files \in SUBSET Files, DeleteDocs(u, k, files)
          PROVE  DeletesOwn'
      <3>1. kb[k].owner = u
        BY <2>1 DEF DeleteDocs, CheckKbExist
      <3>2. Begin(u, "vectors", {k}, files, files)
        BY <2>1 DEF DeleteDocs
      <3> QED
        BY <3>1, <3>2, <1>3
    <2>2. ASSUME NEW ks \in SUBSET Kbs, NEW s \in Statuses, CleanFilesByStatus(u, ks, s)
          PROVE  DeletesOwn'
      <3> DEFINE asked == IF ks = {} THEN GetKnowledgeBases(u) ELSE ks
                 files == GetFileByStatus(asked, s)
      <3>1. asked \in SUBSET Kbs /\ \A k \in asked : kb[k].owner = u
        BY <2>2 DEF CleanFilesByStatus, CheckKbExist, GetKnowledgeBases, KbRows
      <3>2. Begin(u, "vectors", asked, files, files)
        BY <2>2 DEF CleanFilesByStatus
      <3> HIDE DEF asked, files
      <3> QED
        BY <3>1, <3>2, <1>3
    <2>3. ASSUME NEW ks \in SUBSET Kbs, DeleteKnowledgeBase(u, ks) PROVE DeletesOwn'
      BY <2>3 DEF DeleteKnowledgeBase, Begin, DeletesOwn, Deleting
    <2>4. CASE GetTotalStatus(u)
      BY <2>4 DEF GetTotalStatus, DeletesOwn, Deleting
    <2>5. CASE UNCHANGED loop
      BY <2>5, <1>1, <1>2
    <2> QED
      BY <1>4, <2>1, <2>2, <2>3, <2>4, <2>5
         DEF Request, NewKnowledgeBase, NewKnowledgeBaseRaises, RenameKnowledgeBase, UploadWeblink,
             UploadFiles, ReadFile, UploadRaises
  <1>5. CASE DeleteVectors
    BY <1>5, <1>a DEF DeleteVectors, TypeOK, Loops, Deleting, DeletesOwn, tables
  <1>6. CASE DeleteRows
    BY <1>6, <1>a DEF DeleteRows, TypeOK, Loops, Deleting, DeletesOwn
  <1>7. ASSUME \/ DeletePartition \/ MarkKbRows \/ MarkFileRows \/ CountStatus \/ AddTotal \/ Crash
        PROVE  DeletesOwn'
    <2>1. \/ loop' = LoopIdle
          \/ loop.step \in {"partitions", "count"} /\ loop'.step = loop.step
          \/ loop'.step \in {"kbRows", "fileRows"}
      BY <1>7, LoopType DEF DeletePartition, MarkKbRows, MarkFileRows, CountStatus, AddTotal, Crash,
                            Totalled, TypeOK, Loops
    <2> QED
      BY <2>1, <1>a, <1>2 DEF Deleting
  <1> QED
    BY <1>1, <1>2, <1>4, <1>5, <1>6, <1>7 DEF Next, Handle, Work, SettleFile, JobRaises, vars

\* Whatever a step touches belongs to the user of its request.
LEMMA TouchesOwn ==
    ASSUME TypeOK, DeletesOwn, [Next]_vars
    PROVE  \/ touched' = touched
           \/ \E u \in Users : \E ks :
                 /\ touched' = touched \cup ({u} \X ks)
                 /\ \A k \in ks \cap Kbs : kb'[k].owner = u
  <1> DEFINE Goal == \/ touched' = touched
                     \/ \E u \in Users : \E ks :
                           /\ touched' = touched \cup ({u} \X ks)
                           /\ \A k \in ks \cap Kbs : kb'[k].owner = u
  <1> USE ConstantsAssumption
  <1>1. ASSUME NEW u \in Users, NEW ks, Touch(u, ks), \A k \in ks \cap Kbs : kb'[k].owner = u
        PROVE  Goal
    BY <1>1 DEF Touch
  <1>a. touched' = touched => Goal
    OBVIOUS
  <1> SUFFICES Goal
    OBVIOUS
  <1> HIDE DEF Goal
  <1>2. ASSUME NEW u \in Users, Request(u) PROVE Goal
    <2>1. ASSUME NEW name \in KbNames, NewKnowledgeBase(u, name) PROVE Goal
      <3>1. NextId(Kbs, KbRows) \in Kbs
        BY <2>1, NextIdIsFree DEF NewKnowledgeBase
      <3>2. kb'[NextId(Kbs, KbRows)].owner = u
        BY <2>1, <3>1 DEF NewKnowledgeBase, TypeOK
      <3> QED
        BY <2>1, <3>2, <1>1 DEF NewKnowledgeBase
    <2>2. ASSUME NEW k \in Kbs, NEW name \in KbNames, RenameKnowledgeBase(u, k, name) PROVE Goal
      <3>1. kb[k].owner = u /\ kb'[k].owner = u
        BY <2>2 DEF RenameKnowledgeBase, CheckKbExist, TypeOK, KbRecords
      <3> QED
        BY <2>2, <3>1, <1>1 DEF RenameKnowledgeBase
    <2>3. ASSUME NEW k \in Kbs, NEW name, CheckKbExist(u, {k}), AddFile(u, k, name), UNCHANGED kb
          PROVE  Goal
      <3>1. \A l \in {k} \cap Kbs : kb'[l].owner = u
        BY <2>3 DEF CheckKbExist
      <3> QED
        BY <2>3, <3>1, <1>1 DEF AddFile
    <2>4. ASSUME NEW k \in Kbs, NEW url \in Urls, NEW mode \in Modes, UploadWeblink(u, k, url, mode)
          PROVE  Goal
      BY <2>4, <2>3 DEF UploadWeblink
    <2>5. CASE ReadFile(u)
      <3>1. upload[u].kb \in Kbs
        BY <2>5 DEF ReadFile, CheckKbExist, KbRows
      <3> QED
        BY <2>5, <3>1, <2>3 DEF ReadFile
    <2>6. CASE UploadRaises(u)
      <3>1. CASE CheckKbExist(u, {upload[u].kb}) /\ AddFile(u, upload[u].kb, Head(upload[u].todo))
        <4>1. upload[u].kb \in Kbs
          BY <3>1 DEF CheckKbExist, KbRows
        <4> QED
          BY <2>6, <3>1, <4>1, <2>3 DEF UploadRaises
      <3> QED
        BY <2>6, <3>1, <1>a DEF UploadRaises
    <2>7. CASE UNCHANGED touched
      BY <2>7, <1>a
    <2> QED
      BY <1>2, <2>1, <2>2, <2>4, <2>5, <2>6, <2>7
         DEF Request, NewKnowledgeBaseRaises, UploadFiles, DeleteDocs, CleanFilesByStatus,
             DeleteKnowledgeBase, GetTotalStatus, Begin, aux
  <1>3. CASE DeleteRows
    <2>1. PICK k \in loop.left : Touch(loop.user, IF file' = file THEN {} ELSE {k})
      BY <1>3 DEF DeleteRows
    <2>2. kb'[k].owner = loop.user /\ loop.user \in Users
      BY <1>3 DEF DeleteRows, DeletesOwn, Deleting, TypeOK
    <2> QED
      BY <2>1, <2>2, <1>1
  <1>4. CASE MarkKbRows
    <2>1. loop.user \in Users
      BY <1>4 DEF MarkKbRows, TypeOK
    <2>2. \A k \in {l \in Kbs : kb'[l] # kb[l]} : kb'[k].owner = loop.user
      BY <1>4, <2>1, OwnersStay DEF MarkKbRows, TypeOK
    <2> QED
      BY <1>4, <2>1, <2>2, <1>1 DEF MarkKbRows
  <1>5. CASE MarkFileRows
    <2>1. loop.user \in Users
      BY <1>5 DEF MarkFileRows, TypeOK
    <2>2. \A f \in {g \in Files : file'[g] # file[g]} : kb'[file[f].kb].owner = loop.user
      BY <1>5 DEF MarkFileRows, OfUser, Owner
    <2> QED
      <3> DEFINE ks == {file[f].kb : f \in {g \in Files : file'[g] # file[g]}}
      <3>1. \A k \in ks \cap Kbs : kb'[k].owner = loop.user
        BY <2>2
      <3>2. Touch(loop.user, ks)
        BY <1>5 DEF MarkFileRows
      <3> HIDE DEF ks
      <3> QED
        BY <2>1, <3>1, <3>2, <1>1
  <1>6. CASE UNCHANGED touched
    BY <1>6, <1>a
  <1> QED
    BY <1>2, <1>3, <1>4, <1>5, <1>6
       DEF Next, Handle, Work, DeleteVectors, DeletePartition, CountStatus, AddTotal, SettleFile,
           JobRaises, Crash, vars, aux

\* No request of a user writes a row of another's knowledge base or of a file
\* in it, for any number of users and whatever their requests interleave with.
THEOREM UsersStayApart == Spec => []UsersApart
  <1> DEFINE Inv == TypeOK /\ DeletesOwn /\ UsersApart
  <1>1. Init => Inv
    <2>1. Init => DeletesOwn /\ UsersApart
      BY DEF Init, DeletesOwn, Deleting, LoopIdle, UsersApart
    <2> QED
      BY <2>1, InitType
  <1>2. Inv /\ [Next]_vars => Inv'
    <2> SUFFICES ASSUME Inv, [Next]_vars PROVE Inv'
      OBVIOUS
    <2>1. \A u \in Users, k \in Kbs : <<u, k>> \in touched => kb'[k].owner = u
      BY OwnersStay DEF UsersApart
    <2>2. UsersApart'
      BY <2>1, TouchesOwn DEF UsersApart
    <2> QED
      BY <2>2, NextType, DeletesOwnStays
  <1> QED
    BY <1>1, <1>2, PTL DEF Spec

-----------------------------------------------------------------------------
(* What a step does to the rows of files, which the next proofs share.     *)

RowsInKb == \A f \in FileRows : file[f].kb \in Kbs
JobsOfRows ==
    /\ \A j \in jobs : j.left \subseteq j.files /\ j.files \subseteq FileRows
    /\ \A u \in Users : upload[u].local \subseteq FileRows

\* Rows stay, under their name and in their knowledge base; one that turns green
\* is stored; a fresh one is gray.
FileStays(f) ==
    /\ f \in FileRows' /\ file'[f].kb = file[f].kb /\ file'[f].name = file[f].name
    /\ file'[f].deleted = 0 => file[f].deleted = 0
    /\ file'[f].status = "green" => file[f].status = "green" \/ f \in vectors'
FileStep(f) ==
    /\ f \in FileRows => FileStays(f)
    /\ f \notin FileRows /\ f \in FileRows' =>
          loop = LoopIdle /\ file'[f].status = "gray" /\ file'[f].kb \in Kbs /\ file'[f].deleted = 0

LEMMA OnlyRowsHaveKb == \A f \in Files : file[f].kb \in Kbs => f \in FileRows
  <1>1. 0 \notin Kbs
    BY ConstantsAssumption
  <1>2. NoFile.kb \notin Kbs
    BY <1>1 DEF NoFile
  <1> QED
    BY <1>2 DEF FileRows

LEMMA OnlyRowsWillHaveKb == \A f \in Files : file'[f].kb \in Kbs => f \in FileRows'
  <1>1. NoFile.kb = 0 /\ 0 \notin Kbs
    BY ConstantsAssumption DEF NoFile
  <1> QED
    BY <1>1 DEF FileRows

LEMMA FileSteps ==
    ASSUME TypeOK, RowsInKb, JobsOfRows, [Next]_vars, NEW f \in Files
    PROVE  FileStep(f)
  <1>1. CASE file' = file
    BY <1>1 DEF FileStep, FileStays, FileRows
  <1>2. file'[f].kb \in Kbs => f \in FileRows'
    BY OnlyRowsWillHaveKb
  <1>3. ASSUME NEW u \in Users, NEW k \in Kbs, NEW name,
               Files \ FileRows # {}, AddFile(u, k, name), loop = LoopIdle
        PROVE  FileStep(f)
    <2>1. CASE f \in FileRows
      <3>1. file'[f] = file[f]
        BY <1>3, <2>1, AddFileType
      <3> QED
        BY <2>1, <3>1 DEF FileStep, FileStays, FileRows
    <2>2. CASE f \notin FileRows /\ f \in FileRows'
      <3>1. file'[f] # file[f]
        BY <2>2 DEF FileRows
      <3>2. file'[f] = [kb |-> k, name |-> name, status |-> "gray", deleted |-> 0]
        BY <1>3, <3>1, AddFileType
      <3> QED
        BY <1>3, <2>2, <3>2 DEF FileStep
    <2> QED
      BY <2>1, <2>2 DEF FileStep
  <1>4. ASSUME NEW u \in Users, Request(u) PROVE FileStep(f)
    <2>1. ASSUME NEW k \in Kbs, NEW url \in Urls, NEW mode \in Modes, UploadWeblink(u, k, url, mode)
          PROVE  FileStep(f)
      BY <2>1, <1>3 DEF UploadWeblink
    <2>2. CASE ReadFile(u)
      <3>1. upload[u].kb \in Kbs
        BY <2>2 DEF ReadFile, CheckKbExist, KbRows
      <3> QED
        BY <2>2, <3>1, <1>3 DEF ReadFile
    <2>3. CASE UploadRaises(u)
      <3>1. CASE CheckKbExist(u, {upload[u].kb}) /\ Files \ FileRows # {}
                 /\ AddFile(u, upload[u].kb, Head(upload[u].todo))
        <4>1. upload[u].kb \in Kbs
          BY <3>1 DEF CheckKbExist, KbRows
        <4> QED
          BY <2>3, <3>1, <4>1, <1>3 DEF UploadRaises
      <3> QED
        BY <2>3, <3>1, <1>1 DEF UploadRaises
    <2> QED
      BY <1>1, <1>4, <2>1, <2>2, <2>3
         DEF Request, NewKnowledgeBase, NewKnowledgeBaseRaises, RenameKnowledgeBase, UploadFiles,
             DeleteDocs, CleanFilesByStatus, DeleteKnowledgeBase, GetTotalStatus, Begin, tables
  <1>5. ASSUME f \in FileRows, file'[f] = [file[f] EXCEPT !.deleted = 1] PROVE FileStep(f)
    <2>1. /\ file'[f].kb = file[f].kb /\ file'[f].name = file[f].name
          /\ file'[f].status = file[f].status /\ file'[f].deleted = 1
      BY <1>5, ChangedIsFile, "gray" \in Statuses DEF TypeOK, Statuses
    <2> QED
      BY <1>2, <1>5, <2>1 DEF FileStep, FileStays, RowsInKb
  <1>6. ASSUME file'[f] = file[f] PROVE FileStep(f)
    BY <1>6 DEF FileStep, FileStays, FileRows
  <1>7. CASE DeleteRows
    <2>1. PICK k \in loop.left :
             file' = [g \in Files |-> IF g \in loop.files /\ file[g].kb = k
                                      THEN [file[g] EXCEPT !.deleted = 1] ELSE file[g]]
      BY <1>7 DEF DeleteRows
    <2>2. CASE f \in loop.files /\ file[f].kb = k
      <3>1. f \in FileRows
        BY <2>2, OnlyRowsHaveKb DEF TypeOK, Loops
      <3> QED
        BY <2>1, <2>2, <3>1, <1>5
    <2>3. CASE ~(f \in loop.files /\ file[f].kb = k)
      BY <2>1, <2>3, <1>6
    <2> QED
      BY <2>2, <2>3
  <1>8. CASE MarkFileRows
    <2>1. \/ f \in FileRows /\ file'[f] = [file[f] EXCEPT !.deleted = 1]
          \/ file'[f] = file[f]
      BY <1>8 DEF MarkFileRows, OfUser
    <2> QED
      BY <2>1, <1>5, <1>6
  <1>9. ASSUME NEW s \in Statuses, f \in FileRows, file'[f] = [file[f] EXCEPT !.status = s],
               s = "green" => f \in vectors'
        PROVE  FileStep(f)
    <2>1. /\ file'[f].kb = file[f].kb /\ file'[f].name = file[f].name
          /\ file'[f].status = s /\ file'[f].deleted = file[f].deleted
      BY <1>9, ChangedIsFile DEF TypeOK
    <2> QED
      BY <1>2, <1>9, <2>1 DEF FileStep, FileStays, RowsInKb
  <1>10. ASSUME NEW j \in jobs, NEW g \in j.left, NEW s \in Outcomes, SettleFile(j, g, s)
         PROVE  FileStep(f)
    <2>1. g \in FileRows /\ s \in Statuses /\ g \in Files
      BY ConstantsAssumption DEF JobsOfRows, FileRows, Statuses
    <2>2. file'[g] = [file[g] EXCEPT !.status = s] /\ \A h \in Files : h # g => file'[h] = file[h]
      BY <1>10, <2>1, Zenon DEF SettleFile, TypeOK
    <2>3. s = "green" => g \in vectors'
      BY <1>10 DEF SettleFile
    <2>4. CASE f = g
      BY <2>1, <2>2, <2>3, <2>4, <1>9
    <2>5. CASE f # g
      BY <2>2, <2>5, <1>6
    <2> QED
      BY <2>4, <2>5
  <1>11. ASSUME NEW j \in jobs, JobRaises(j) PROVE FileStep(f)
    <2>1. \/ f \in FileRows /\ file'[f] = [file[f] EXCEPT !.status = "red"]
          \/ file'[f] = file[f]
      BY <1>11 DEF JobRaises, JobsOfRows
    <2> QED
      BY <2>1, <1>9, <1>6 DEF Statuses
  <1> QED
    BY <1>1, <1>4, <1>7, <1>8, <1>10, <1>11
       DEF Next, Handle, Work, DeleteVectors, DeletePartition, MarkKbRows, CountStatus, AddTotal,
           Crash, vars, tables

\* A request adds a row or none; workers and deletions change them.
LEMMA RequestsKeepRows ==
    ASSUME TypeOK, NEW u \in Users, Request(u)
    PROVE  \A f \in FileRows : file'[f] = file[f]
  <1>1. ASSUME NEW k \in Kbs, NEW name, Files \ FileRows # {}, AddFile(u, k, name), NEW f \in FileRows
        PROVE  file'[f] = file[f]
    BY <1>1, AddFileType DEF FileRows
  <1>2. ASSUME NEW k \in Kbs, NEW url \in Urls, NEW mode \in Modes, UploadWeblink(u, k, url, mode),
               NEW f \in FileRows
        PROVE  file'[f] = file[f]
    BY <1>2, <1>1 DEF UploadWeblink
  <1>3. CheckKbExist(u, {upload[u].kb}) => upload[u].kb \in Kbs
    BY DEF CheckKbExist, KbRows
  <1> QED
    BY <1>1, <1>2, <1>3
       DEF Request, NewKnowledgeBase, NewKnowledgeBaseRaises, RenameKnowledgeBase, UploadFiles,
           ReadFile, UploadRaises, DeleteDocs, CleanFilesByStatus, DeleteKnowledgeBase,
           GetTotalStatus, Begin, tables

LEMMA RowsInKbStays ==
    ASSUME TypeOK, RowsInKb, JobsOfRows, [Next]_vars
    PROVE  RowsInKb'
  <1> SUFFICES ASSUME NEW f \in Files, f \in FileRows' PROVE file'[f].kb \in Kbs
    BY DEF RowsInKb, FileRows
  <1> QED
    BY FileSteps DEF FileStep, FileStays, RowsInKb

\* Every fresh row is that of the next id; a request that adds one goes on.
LEMMA JobsOfRowsStays ==
    ASSUME TypeOK, RowsInKb, JobsOfRows, [Next]_vars
    PROVE  JobsOfRows'
  <1>1. FileRows \subseteq FileRows'
    BY FileSteps DEF FileStep, FileStays, FileRows
  <1>2. CASE UNCHANGED <<jobs, upload>>
    BY <1>1, <1>2 DEF JobsOfRows
  <1>a. NoUpload.local = {}
    BY DEF NoUpload
  <1>3. ASSUME NEW u \in Users, Request(u) PROVE JobsOfRows'
    <2>1. ASSUME NEW k \in Kbs, NEW url \in Urls, NEW mode \in Modes, UploadWeblink(u, k, url, mode)
          PROVE  JobsOfRows'
      <3> DEFINE n == NextId(Files, FileRows)
      <3>1. n \in FileRows'
        <4>1. n \in Files /\ file'[n] = [kb |-> k, name |-> url, status |-> "gray", deleted |-> 0]
          BY <2>1, AddFileType DEF UploadWeblink
        <4> QED
          BY <4>1, OnlyRowsWillHaveKb
      <3>2. jobs' = jobs \cup {Job({n}, FALSE)} /\ upload' = upload
        BY <2>1 DEF UploadWeblink
      <3>3. Job({n}, FALSE).left = {n} /\ Job({n}, FALSE).files = {n}
        BY DEF Job
      <3> HIDE DEF n
      <3> QED
        BY <1>1, <3>1, <3>2, <3>3 DEF JobsOfRows
    <2>2. ASSUME NEW k \in Kbs, NEW names, NEW mode \in Modes, UploadFiles(u, k, names, mode)
          PROVE  JobsOfRows'
      <3>1. PICK todo : upload' = [upload EXCEPT ![u] = [kb |-> k, todo |-> todo, local |-> {}]]
        BY <2>2 DEF UploadFiles
      <3>2. jobs' = jobs /\ \A v \in Users : upload'[v].local \subseteq upload[v].local
        BY <2>2, <3>1 DEF UploadFiles, TypeOK
      <3> QED
        BY <1>1, <3>2 DEF JobsOfRows
    <2>3. CASE ReadFile(u)
      <3> DEFINE n == NextId(Files, FileRows)
                 all == upload[u].local \cup {n}
                 next == [kb |-> upload[u].kb, todo |-> Tail(upload[u].todo), local |-> all]
      <3>1. upload[u].kb \in Kbs
        BY <2>3 DEF ReadFile, CheckKbExist, KbRows
      <3>2. n \in FileRows'
        <4>1. n \in Files /\ file'[n] = [kb |-> upload[u].kb, name |-> Head(upload[u].todo),
                                         status |-> "gray", deleted |-> 0]
          BY <2>3, <3>1, AddFileType DEF ReadFile
        <4> QED
          BY <3>1, <4>1, OnlyRowsWillHaveKb
      <3>3. all \subseteq FileRows'
        BY <1>1, <3>2 DEF JobsOfRows
      <3>4. \/ jobs' = jobs \cup {Job(all, TRUE)} /\ upload' = [upload EXCEPT ![u] = NoUpload]
            \/ jobs' = jobs /\ upload' = [upload EXCEPT ![u] = next]
        BY <2>3 DEF ReadFile, TypeOK
      <3>5. /\ Job(all, TRUE).left = all /\ Job(all, TRUE).files = all
            /\ next.local = all
        BY DEF Job
      <3> HIDE DEF all, next
      <3> QED
        BY <1>1, <1>a, <3>3, <3>4, <3>5 DEF JobsOfRows, TypeOK
    <2>4. CASE UploadRaises(u)
      BY <1>1, <1>a, <2>4 DEF UploadRaises, JobsOfRows, TypeOK
    <2> QED
      BY <1>2, <1>3, <2>1, <2>2, <2>3, <2>4
         DEF Request, NewKnowledgeBase, NewKnowledgeBaseRaises, RenameKnowledgeBase,
             DeleteDocs, CleanFilesByStatus, DeleteKnowledgeBase, GetTotalStatus, Begin
  <1>4. ASSUME NEW j \in jobs, NEW g \in j.left, NEW s \in Outcomes, SettleFile(j, g, s)
        PROVE  JobsOfRows'
    <2> DEFINE less == [j EXCEPT !.left = @ \ {g}]
    <2>1. less.left \subseteq j.left /\ less.files = j.files
      BY DEF TypeOK, Jobs
    <2>2. jobs' \subseteq jobs \cup {less} /\ upload' = upload
      BY <1>4 DEF SettleFile
    <2> HIDE DEF less
    <2> QED
      BY <1>1, <2>1, <2>2 DEF JobsOfRows
  <1>5. ASSUME NEW j \in jobs, JobRaises(j) PROVE JobsOfRows'
    BY <1>1, <1>5 DEF JobRaises, JobsOfRows
  <1>6. CASE Crash
    BY <1>1, <1>a, <1>6 DEF Crash, JobsOfRows
  <1> QED
    BY <1>2, <1>3, <1>4, <1>5, <1>6
       DEF Next, Handle, Work, DeleteVectors, DeleteRows, DeletePartition, MarkKbRows, MarkFileRows,
           CountStatus, AddTotal, vars

LEMMA RowsInit == Init => RowsInKb /\ JobsOfRows
  BY DEF Init, RowsInKb, JobsOfRows, FileRows, NoUpload

-----------------------------------------------------------------------------
(* A green file is stored.                                                 *)

\* What a handler is about to take out of the index was asked for.
NamedFirst ==
    /\ loop.step = "vectors" => OfUser(loop.files) \subseteq named
    /\ loop.step = "partitions" =>
          \A f \in FileRows : Owner(f) = loop.user /\ file[f].kb \in loop.left => f \in named

LEMMA NamedFirstStays ==
    ASSUME TypeOK, RowsInKb, JobsOfRows, NamedFirst, [Next]_vars
    PROVE  NamedFirst'
  <1>1. ASSUME loop'.step \notin {"vectors", "partitions"} PROVE NamedFirst'
    BY <1>1 DEF NamedFirst
  <1>a. LoopIdle.step = "idle"
    BY DEF LoopIdle
  <1>2. ASSUME loop # LoopIdle, UNCHANGED kb, loop'.user = loop.user,
               loop'.files = loop.files, loop'.step = loop.step, loop'.left \subseteq loop.left,
               named' = named
        PROVE  NamedFirst'
    <2>1. \A f \in Files : f \in FileRows' => f \in FileRows /\ file'[f].kb = file[f].kb
      BY <1>2, FileSteps DEF FileStep, FileStays
    <2>2. OfUser(loop.files)' \subseteq OfUser(loop.files)
      BY <1>2, <2>1 DEF OfUser, Owner, FileRows
    <2> QED
      BY <1>2, <2>1, <2>2 DEF NamedFirst, Owner, FileRows
  <1>3. ASSUME NEW u \in Users, NEW ks, NEW files, Begin(u, "vectors", ks, files, files)
        PROVE  NamedFirst'
    <2>1. loop'.step = "vectors" /\ loop'.files = files /\ loop'.user = u
      BY <1>3 DEF Begin
    <2>2. UNCHANGED <<kb, file>> /\ {f \in files \cap FileRows : Owner(f) = u} \subseteq named'
      BY <1>3 DEF Begin, tables
    <2> QED
      BY <2>1, <2>2 DEF NamedFirst, OfUser, Owner, FileRows
  <1>4. ASSUME NEW u \in Users, Request(u) PROVE NamedFirst'
    <2>1. ASSUME NEW k \in Kbs, NEW files \in SUBSET Files, DeleteDocs(u, k, files) PROVE NamedFirst'
      BY <2>1, <1>3 DEF DeleteDocs
    <2>2. ASSUME NEW ks \in SUBSET Kbs, NEW s \in Statuses, CleanFilesByStatus(u, ks, s)
          PROVE  NamedFirst'
      <3> DEFINE asked == IF ks = {} THEN GetKnowledgeBases(u) ELSE ks
                 files == GetFileByStatus(asked, s)
      <3>1. Begin(u, "vectors", asked, files, files)
        BY <2>2 DEF CleanFilesByStatus
      <3> HIDE DEF asked, files
      <3> QED
        BY <3>1, <1>3
    <2>3. ASSUME NEW ks \in SUBSET Kbs, DeleteKnowledgeBase(u, ks) PROVE NamedFirst'
      <3>1. loop'.step = "partitions" /\ loop'.left = ks /\ loop'.user = u
        BY <2>3 DEF DeleteKnowledgeBase, Begin
      <3>2. UNCHANGED <<kb, file>> /\ \A f \in FileRows : file[f].kb \in ks /\ Owner(f) = u => f \in named'
        BY <2>3 DEF DeleteKnowledgeBase, Begin, tables, FileRows
      <3> QED
        BY <3>1, <3>2 DEF NamedFirst, Owner, FileRows
    <2>4. CASE GetTotalStatus(u)
      BY <2>4, <1>1 DEF GetTotalStatus
    <2>5. CASE loop' = LoopIdle
      BY <2>5, <1>1, <1>a
    <2> QED
      BY <1>4, <2>1, <2>2, <2>3, <2>4, <2>5
         DEF Request, NewKnowledgeBase, NewKnowledgeBaseRaises, RenameKnowledgeBase, UploadWeblink,
             UploadFiles, ReadFile, UploadRaises
  <1>5. CASE DeletePartition
    <2>1. PICK k \in loop.left :
             loop' \in {LoopIdle, [loop EXCEPT !.step = "kbRows"], [loop EXCEPT !.left = @ \ {k}]}
      BY <1>5 DEF DeletePartition
    <2>2. CASE loop' = [loop EXCEPT !.left = @ \ {k}]
      <3>1. loop'.user = loop.user /\ loop'.files = loop.files /\ loop'.step = loop.step
            /\ loop'.left \subseteq loop.left
        BY <2>2 DEF TypeOK, Loops
      <3> QED
        BY <1>5, <1>a, <1>2, <3>1 DEF DeletePartition, tables, aux
    <2>3. CASE loop' = [loop EXCEPT !.step = "kbRows"]
      <3>1. loop'.step = "kbRows"
        BY <2>3 DEF TypeOK, Loops
      <3> QED
        BY <3>1, <1>1
    <2> QED
      BY <2>1, <2>2, <2>3, <1>1, <1>a
  <1>6. ASSUME \/ DeleteVectors \/ DeleteRows \/ MarkKbRows \/ MarkFileRows \/ CountStatus
               \/ AddTotal \/ Crash
        PROVE  loop'.step \notin {"vectors", "partitions"}
    BY <1>6, <1>a DEF DeleteVectors, DeleteRows, MarkKbRows, MarkFileRows, CountStatus, AddTotal,
                      Totalled, Crash, TypeOK, Loops
  <1>7. ASSUME UNCHANGED <<kb, loop, named>> PROVE NamedFirst'
    BY <1>7, <1>1, <1>2, <1>a
  <1> QED
    BY <1>1, <1>4, <1>5, <1>6, <1>7 DEF Next, Handle, Work, SettleFile, JobRaises, vars, tables, aux

LEMMA NamedGrows ==
    ASSUME [Next]_vars PROVE named \subseteq named'
  <1>1. ASSUME NEW u \in Users, Request(u) PROVE named \subseteq named'
    <2>1. ASSUME NEW step, NEW ks, NEW files, NEW doomed, Begin(u, step, ks, files, doomed)
          PROVE  named \subseteq named'
      BY <2>1 DEF Begin
    <2>2. ASSUME NEW ks, NEW s, CleanFilesByStatus(u, ks, s) PROVE named \subseteq named'
      BY <2>2, <2>1 DEF CleanFilesByStatus
    <2>3. ASSUME NEW k, NEW files, DeleteDocs(u, k, files) PROVE named \subseteq named'
      BY <2>3, <2>1 DEF DeleteDocs
    <2>4. ASSUME NEW ks, DeleteKnowledgeBase(u, ks) PROVE named \subseteq named'
      BY <2>4, <2>1 DEF DeleteKnowledgeBase
    <2>5. CASE UNCHANGED named
      BY <2>5
    <2> QED
      BY <1>1, <2>2, <2>3, <2>4, <2>5
         DEF Request, NewKnowledgeBase, NewKnowledgeBaseRaises, RenameKnowledgeBase, UploadWeblink,
             UploadFiles, ReadFile, UploadRaises, GetTotalStatus, others, aux
  <1> QED
    BY <1>1 DEF Next, Handle, Work, DeleteVectors, DeleteRows, DeletePartition, MarkKbRows,
                MarkFileRows, CountStatus, AddTotal, SettleFile, JobRaises, Crash, vars, aux, others

LEMMA VectorsStay ==
    ASSUME TypeOK, NamedFirst, [Next]_vars, NEW f \in vectors, f \notin named', f \in FileRows
    PROVE  f \in vectors'
  <1>a. named \subseteq named'
    BY NamedGrows
  <1>1. CASE DeleteVectors
    BY <1>1, <1>a DEF DeleteVectors, NamedFirst
  <1>2. CASE DeletePartition
    BY <1>2, <1>a DEF DeletePartition, NamedFirst, OfUser
  <1>3. ASSUME NEW u \in Users, Request(u) PROVE vectors' = vectors
    BY <1>3 DEF Request, NewKnowledgeBase, NewKnowledgeBaseRaises, RenameKnowledgeBase,
                UploadWeblink, UploadFiles, ReadFile, UploadRaises, DeleteDocs, CleanFilesByStatus,
                DeleteKnowledgeBase, GetTotalStatus, Begin
  <1> QED
    BY <1>1, <1>2, <1>3 DEF Next, Handle, Work, DeleteRows, MarkKbRows, MarkFileRows, CountStatus,
                            AddTotal, SettleFile, JobRaises, Crash, vars

\* A file shown green is in the index of its user unless a deletion named it:
\* no deletion, interrupted or not, takes out a file it was not asked for.
THEOREM GreenStaysStored == Spec => []GreenIsStored
  <1> DEFINE Inv == TypeOK /\ RowsInKb /\ JobsOfRows /\ NamedFirst /\ GreenIsStored
  <1>1. Init => Inv
    <2>1. Init => NamedFirst /\ GreenIsStored
      BY DEF Init, NamedFirst, LoopIdle, GreenIsStored, FileRows
    <2> QED
      BY <2>1, InitType, RowsInit
  <1>2. Inv /\ [Next]_vars => Inv'
    <2> SUFFICES ASSUME Inv, [Next]_vars PROVE Inv'
      OBVIOUS
    <2>1. ASSUME NEW f \in Files, f \in FileRows', file'[f].deleted = 0, file'[f].status = "green",
                 f \notin named'
          PROVE  f \in vectors'
      <3>1. FileStep(f)
        BY FileSteps
      <3>2. f \in FileRows /\ FileStays(f)
        BY <2>1, <3>1 DEF FileStep
      <3>3. named \subseteq named'
        BY NamedGrows
      <3> QED
        BY <2>1, <3>2, <3>3, VectorsStay DEF FileStays, GreenIsStored
    <2>2. GreenIsStored'
      BY <2>1 DEF GreenIsStored, FileRows
    <2> QED
      BY <2>2, NextType, RowsInKbStays, JobsOfRowsStays, NamedFirstStays
  <1> QED
    BY <1>1, <1>2, PTL DEF Spec

-----------------------------------------------------------------------------
(* A settled file can be downloaded.                                       *)

\* The copy comes before the job, and before the status.
HasCopy(f) == f \in copies \/ file[f].name \in Urls
CopiesFirst ==
    /\ \A f \in FileRows : file[f].status # "gray" => HasCopy(f)
    /\ \A j \in jobs : \A f \in j.files : HasCopy(f)
    /\ \A u \in Users : upload[u].local \subseteq copies

LEMMA CopiesFirstStays ==
    ASSUME TypeOK, RowsInKb, JobsOfRows, CopiesFirst, [Next]_vars
    PROVE  CopiesFirst'
  <1>1. copies \subseteq copies'
    <2>1. ASSUME NEW u \in Users, Request(u) PROVE copies \subseteq copies'
      BY <2>1 DEF Request, NewKnowledgeBase, NewKnowledgeBaseRaises, RenameKnowledgeBase,
                  UploadWeblink, UploadFiles, ReadFile, UploadRaises, DeleteDocs, CleanFilesByStatus,
                  DeleteKnowledgeBase, GetTotalStatus, Begin
    <2> QED
      BY <2>1 DEF Next, Handle, Work, DeleteVectors, DeleteRows, DeletePartition, MarkKbRows,
                  MarkFileRows, CountStatus, AddTotal, SettleFile, JobRaises, Crash, vars
  <1>2. \A f \in FileRows : HasCopy(f) => HasCopy(f)'
    BY <1>1, FileSteps DEF HasCopy, FileStep, FileStays, FileRows
  <1>3. (\A f \in FileRows : file[f].status = "gray" => file'[f].status = "gray" \/ HasCopy(f))
        => \A f \in FileRows' : file'[f].status # "gray" => HasCopy(f)'
    <2> SUFFICES ASSUME \A f \in FileRows : file[f].status = "gray"
                                            => file'[f].status = "gray" \/ HasCopy(f),
                        NEW f \in Files, f \in FileRows', file'[f].status # "gray"
                 PROVE  HasCopy(f)'
      BY DEF FileRows
    <2>1. f \in FileRows
      BY FileSteps DEF FileStep
    <2> QED
      BY <2>1, <1>2 DEF CopiesFirst
  <1>4. ASSUME \A f \in FileRows : file'[f].status = file[f].status,
               \A j \in jobs' : j \in jobs,
               \A u \in Users : upload'[u].local \subseteq upload[u].local
        PROVE  CopiesFirst'
    BY <1>1, <1>2, <1>3, <1>4 DEF CopiesFirst, JobsOfRows
  <1>a. NoUpload.local = {}
    BY DEF NoUpload
  <1>5. ASSUME NEW u \in Users, Request(u) PROVE CopiesFirst'
    <2>1. \A f \in FileRows : file'[f].status = file[f].status
      BY <1>5, RequestsKeepRows
    <2>2. \A f \in FileRows' : file'[f].status # "gray" => HasCopy(f)'
      BY <2>1, <1>3
    <2>3. \A j \in jobs : \A f \in j.files : HasCopy(f)'
      BY <1>2 DEF CopiesFirst, JobsOfRows
    <2>4. ASSUME NEW k \in Kbs, NEW url \in Urls, NEW mode \in Modes, UploadWeblink(u, k, url, mode)
          PROVE  CopiesFirst'
      <3>1. PICK n \in Files : n = NextId(Files, FileRows)
        BY <2>4, AddFileType DEF UploadWeblink
      <3>2. file'[n] = [kb |-> k, name |-> url, status |-> "gray", deleted |-> 0]
        BY <2>4, <3>1, AddFileType DEF UploadWeblink
      <3>3. HasCopy(n)'
        BY <3>2 DEF HasCopy
      <3>4. jobs' = jobs \cup {Job({n}, FALSE)} /\ upload' = upload
        BY <2>4, <3>1 DEF UploadWeblink
      <3>5. Job({n}, FALSE).files = {n}
        BY DEF Job
      <3> QED
        BY <1>1, <2>2, <2>3, <3>3, <3>4, <3>5 DEF CopiesFirst
    <2>5. ASSUME NEW k \in Kbs, NEW names, NEW mode \in Modes, UploadFiles(u, k, names, mode)
          PROVE  CopiesFirst'
      <3>1. PICK todo : upload' = [upload EXCEPT ![u] = [kb |-> k, todo |-> todo, local |-> {}]]
        BY <2>5 DEF UploadFiles
      <3>2. jobs' = jobs /\ \A v \in Users : upload'[v].local \subseteq upload[v].local
        BY <2>5, <3>1 DEF UploadFiles, TypeOK
      <3> QED
        BY <1>4, <2>1, <3>2
    <2>6. CASE ReadFile(u)
      <3> DEFINE n == NextId(Files, FileRows)
                 all == upload[u].local \cup {n}
                 next == [kb |-> upload[u].kb, todo |-> Tail(upload[u].todo), local |-> all]
      <3>1. all \subseteq copies'
        BY <2>6 DEF ReadFile, CopiesFirst
      <3>2. \/ jobs' = jobs \cup {Job(all, TRUE)} /\ upload' = [upload EXCEPT ![u] = NoUpload]
            \/ jobs' = jobs /\ upload' = [upload EXCEPT ![u] = next]
        BY <2>6 DEF ReadFile, TypeOK
      <3>3. Job(all, TRUE).files = all /\ next.local = all
        BY DEF Job
      <3> HIDE DEF all, next
      <3>4. \A v \in Users : upload'[v].local \subseteq copies'
        BY <1>1, <1>a, <3>1, <3>2, <3>3 DEF CopiesFirst, TypeOK
      <3>5. \A j \in jobs' : \A f \in j.files : HasCopy(f)'
        BY <2>3, <3>1, <3>2, <3>3 DEF HasCopy
      <3> QED
        BY <2>2, <3>4, <3>5 DEF CopiesFirst
    <2>7. CASE UploadRaises(u)
      BY <1>4, <1>a, <2>1, <2>7 DEF UploadRaises, TypeOK
    <2>8. CASE UNCHANGED <<jobs, upload>>
      BY <1>4, <2>1, <2>8
    <2> QED
      BY <1>5, <2>4, <2>5, <2>6, <2>7, <2>8
         DEF Request, NewKnowledgeBase, NewKnowledgeBaseRaises, RenameKnowledgeBase,
             DeleteDocs, CleanFilesByStatus, DeleteKnowledgeBase, GetTotalStatus, Begin
  <1>6. ASSUME NEW f \in Files, file'[f] = [file[f] EXCEPT !.deleted = 1]
        PROVE  file'[f].status = file[f].status
    BY <1>6, ChangedIsFile, "gray" \in Statuses DEF TypeOK, Statuses
  <1>7. ASSUME DeleteRows \/ MarkFileRows PROVE CopiesFirst'
    <2>1. \A f \in Files : file'[f] = file[f] \/ file'[f] = [file[f] EXCEPT !.deleted = 1]
      BY <1>7 DEF DeleteRows, MarkFileRows
    <2>2. \A f \in Files : file'[f].status = file[f].status
      BY <2>1, <1>6
    <2> QED
      BY <1>4, <1>7, <2>2 DEF DeleteRows, MarkFileRows, FileRows
  <1>8. ASSUME NEW j \in jobs, NEW g \in j.left, NEW s \in Outcomes, SettleFile(j, g, s)
        PROVE  CopiesFirst'
    <2> DEFINE less == [j EXCEPT !.left = @ \ {g}]
    <2>1. less.files = j.files
      BY DEF TypeOK, Jobs
    <2>2. jobs' \subseteq jobs \cup {less} /\ upload' = upload
      BY <1>8 DEF SettleFile
    <2> HIDE DEF less
    <2>3. HasCopy(g)
      BY DEF CopiesFirst, JobsOfRows
    <2>4. \A f \in FileRows : file[f].status = "gray" => file'[f].status = "gray" \/ HasCopy(f)
      BY <1>8, <2>3, Zenon DEF SettleFile, TypeOK, FileRows
    <2>5. \A i \in jobs' : \A f \in i.files : HasCopy(f)'
      BY <2>1, <2>2, <1>2 DEF CopiesFirst, JobsOfRows
    <2> QED
      BY <1>1, <1>3, <2>2, <2>4, <2>5 DEF CopiesFirst
  <1>9. ASSUME NEW j \in jobs, JobRaises(j) PROVE CopiesFirst'
    <2>1. \A f \in FileRows : f \in j.files \/ file'[f] = file[f]
      BY <1>9 DEF JobRaises, FileRows
    <2>2. \A f \in FileRows : file[f].status = "gray" => file'[f].status = "gray" \/ HasCopy(f)
      BY <2>1 DEF CopiesFirst
    <2>3. jobs' \subseteq jobs /\ upload' = upload
      BY <1>9 DEF JobRaises
    <2> QED
      BY <1>1, <1>2, <1>3, <2>2, <2>3 DEF CopiesFirst, JobsOfRows
  <1>10. CASE Crash
    BY <1>4, <1>10, <1>a DEF Crash, tables
  <1>11. CASE UNCHANGED <<file, jobs, upload>>
    BY <1>4, <1>11
  <1> QED
    BY <1>5, <1>7, <1>8, <1>9, <1>10, <1>11
       DEF Next, Handle, Work, DeleteVectors, DeletePartition, MarkKbRows, CountStatus, AddTotal,
           vars, tables

LEMMA SettledFollows == TypeOK /\ CopiesFirst => SettledIsDownloadable
  <1> SUFFICES ASSUME TypeOK, CopiesFirst, NEW f \in FileRows
               PROVE  /\ Download(f) # "missing" => f \in GetFiles(Owner(f), file[f].kb)
                      /\ /\ f \in GetFiles(Owner(f), file[f].kb) /\ file[f].status # "gray"
                         /\ Download(f) = "missing"
                         => file[f].name \in OddNames
    BY DEF SettledIsDownloadable
  <1>1. file[f].deleted \in {0, 1}
    BY DEF TypeOK, FileRows, IsFile
  <1>2. f \in GetFiles(Owner(f), file[f].kb) <=> file[f].deleted = 0
    BY DEF GetFiles
  <1>3. Download(f) # "missing" => file[f].deleted # 1
    BY DEF Download
  <1>4. file[f].deleted = 0 /\ Download(f) = "missing"
        => file[f].name \notin Urls /\ (file[f].name \in OddNames \/ f \notin copies)
    BY DEF Download
  <1> QED
    BY <1>1, <1>2, <1>3, <1>4 DEF CopiesFirst, HasCopy

\* What can be downloaded is listed, and a listed file with a final status can
\* be downloaded unless its name is one the download refuses.
THEOREM SettledCanBeDownloaded == Spec => []SettledIsDownloadable
  <1> DEFINE Inv == TypeOK /\ RowsInKb /\ JobsOfRows /\ CopiesFirst
  <1>1. Init => Inv
    <2>1. Init => CopiesFirst
      BY DEF Init, CopiesFirst, FileRows, NoUpload
    <2> QED
      BY <2>1, InitType, RowsInit
  <1>2. Inv /\ [Next]_vars => Inv'
    BY NextType, RowsInKbStays, JobsOfRowsStays, CopiesFirstStays
  <1>3. Inv => SettledIsDownloadable
    BY SettledFollows
  <1> QED
    BY <1>1, <1>2, <1>3, PTL DEF Spec

-----------------------------------------------------------------------------
(* The totals miss no file.                                                *)

\* A file is gray from its row to its end in the one job it belongs to.
GrayUntilSettled ==
    /\ \A f \in FileRows : file[f].status \in Statuses
    /\ \A j \in jobs : \A f \in j.left : file[f].status = "gray"
    /\ \A i, j \in jobs : i # j => i.files \cap j.files = {}
    /\ \A u \in Users : \A f \in upload[u].local :
          file[f].status = "gray" /\ \A j \in jobs : f \notin j.files
    /\ \A u, v \in Users : u # v => upload[u].local \cap upload[v].local = {}

LEMMA GrayUntilSettledStays ==
    ASSUME TypeOK, RowsInKb, JobsOfRows, GrayUntilSettled, [Next]_vars
    PROVE  GrayUntilSettled'
  <1>1. ASSUME \A f \in FileRows : file'[f].status = file[f].status,
               jobs' \subseteq jobs, \A u \in Users : upload'[u].local \subseteq upload[u].local
        PROVE  GrayUntilSettled'
    <2>1. \A f \in FileRows' : file'[f].status \in Statuses
      BY <1>1, FileSteps DEF FileStep, GrayUntilSettled, FileRows, Statuses
    <2>2. \A j \in jobs' : \A f \in j.left : file'[f].status = "gray"
      BY <1>1 DEF GrayUntilSettled, JobsOfRows
    <2>3. \A u \in Users : \A f \in upload'[u].local :
             file'[f].status = "gray" /\ \A j \in jobs' : f \notin j.files
      BY <1>1 DEF GrayUntilSettled, JobsOfRows
    <2> QED
      BY <1>1, <2>1, <2>2, <2>3 DEF GrayUntilSettled
  <1>a. NoUpload.local = {}
    BY DEF NoUpload
  <1>2. ASSUME NEW u \in Users, Request(u) PROVE GrayUntilSettled'
    <2>1. \A f \in FileRows : file'[f] = file[f]
      BY <1>2, RequestsKeepRows
    <2>2. \A f \in FileRows' : file'[f].status \in Statuses
      BY <2>1, FileSteps DEF FileStep, GrayUntilSettled, FileRows, Statuses
    <2>a. \A j \in jobs : /\ j.files \subseteq FileRows
                          /\ \A f \in j.left : file'[f].status = "gray"
      BY <2>1 DEF GrayUntilSettled, JobsOfRows
    <2>b. \A v \in Users : \A f \in upload[v].local :
             f \in FileRows /\ file'[f].status = "gray" /\ \A j \in jobs : f \notin j.files
      BY <2>1 DEF GrayUntilSettled, JobsOfRows
    <2>3. ASSUME NEW k \in Kbs, NEW url \in Urls, NEW mode \in Modes, UploadWeblink(u, k, url, mode)
          PROVE  GrayUntilSettled'
      <3>1. PICK n \in Files \ FileRows : n = NextId(Files, FileRows)
        BY <2>3, AddFileType DEF UploadWeblink
      <3> DEFINE new == Job({n}, FALSE)
      <3>2. file'[n].status = "gray"
        <4>1. file'[n] = [kb |-> k, name |-> url, status |-> "gray", deleted |-> 0]
          BY <2>3, <3>1, AddFileType DEF UploadWeblink
        <4> QED
          BY <4>1
      <3>3. jobs' = jobs \cup {new} /\ upload' = upload
        BY <2>3, <3>1 DEF UploadWeblink
      <3>4. new.files = {n} /\ new.left = {n}
        BY DEF Job
      <3> HIDE DEF new
      <3>5. \A j \in jobs' : \A f \in j.left : file'[f].status = "gray"
        BY <2>a, <3>2, <3>3, <3>4
      <3>6. \A i, j \in jobs' : i # j => i.files \cap j.files = {}
        BY <2>a, <3>1, <3>3, <3>4 DEF GrayUntilSettled
      <3>7. \A v \in Users : \A f \in upload'[v].local :
               file'[f].status = "gray" /\ \A j \in jobs' : f \notin j.files
        BY <2>b, <3>1, <3>3, <3>4
      <3> QED
        BY <2>2, <3>3, <3>5, <3>6, <3>7 DEF GrayUntilSettled
    <2>4. ASSUME NEW k \in Kbs, NEW names, NEW mode \in Modes, UploadFiles(u, k, names, mode)
          PROVE  GrayUntilSettled'
      <3>1. PICK todo : upload' = [upload EXCEPT ![u] = [kb |-> k, todo |-> todo, local |-> {}]]
        BY <2>4 DEF UploadFiles
      <3>2. jobs' = jobs /\ \A v \in Users : upload'[v].local \subseteq upload[v].local
        BY <2>4, <3>1 DEF UploadFiles, TypeOK
      <3> QED
        BY <1>1, <2>1, <3>2
    <2>5. CASE ReadFile(u)
      <3>1. upload[u].kb \in Kbs
        BY <2>5 DEF ReadFile, CheckKbExist, KbRows
      <3>2. PICK n \in Files \ FileRows : n = NextId(Files, FileRows)
        BY <2>5, <3>1, AddFileType DEF ReadFile
      <3>3. file'[n].status = "gray"
        <4>1. file'[n] = [kb |-> upload[u].kb, name |-> Head(upload[u].todo),
                          status |-> "gray", deleted |-> 0]
          BY <2>5, <3>1, <3>2, AddFileType DEF ReadFile
        <4> QED
          BY <4>1
      <3> DEFINE all == upload[u].local \cup {n}
                 new == Job(all, TRUE)
                 next == [kb |-> upload[u].kb, todo |-> Tail(upload[u].todo), local |-> all]
      <3>4. \/ jobs' = jobs \cup {new} /\ upload' = [upload EXCEPT ![u] = NoUpload]
            \/ jobs' = jobs /\ upload' = [upload EXCEPT ![u] = next]
        BY <2>5, <3>2 DEF ReadFile, TypeOK
      <3>5. new.files = all /\ new.left = all /\ next.local = all
        BY DEF Job
      <3>6. /\ \A f \in all : file'[f].status = "gray" /\ \A j \in jobs : f \notin j.files
            /\ \A v \in Users : v # u => upload[v].local \cap all = {}
        BY <2>a, <2>b, <3>2, <3>3 DEF GrayUntilSettled
      <3> HIDE DEF all, next, new
      <3>7. CASE jobs' = jobs \cup {new} /\ upload' = [upload EXCEPT ![u] = NoUpload]
        <4>1. \A v \in Users : upload'[v].local \subseteq upload[v].local /\ upload'[u].local = {}
          BY <3>7, <1>a DEF TypeOK
        <4>2. \A j \in jobs' : \A f \in j.left : file'[f].status = "gray"
          BY <2>a, <3>5, <3>6, <3>7
        <4>3. \A i, j \in jobs' : i # j => i.files \cap j.files = {}
          BY <3>5, <3>6, <3>7 DEF GrayUntilSettled
        <4>4. \A v \in Users : \A f \in upload'[v].local :
                 file'[f].status = "gray" /\ \A j \in jobs' : f \notin j.files
          <5> SUFFICES ASSUME NEW v \in Users, NEW f \in upload'[v].local
                       PROVE  file'[f].status = "gray" /\ \A j \in jobs' : f \notin j.files
            OBVIOUS
          <5>1. v # u /\ f \in upload[v].local
            BY <4>1
          <5> QED
            <6>1. f \notin all
              BY <5>1, <3>6
            <6> QED
              BY <2>b, <5>1, <6>1, <3>5, <3>7
        <4> QED
          BY <2>2, <4>1, <4>2, <4>3, <4>4 DEF GrayUntilSettled
      <3>8. CASE jobs' = jobs /\ upload' = [upload EXCEPT ![u] = next]
        <4>1. \A v \in Users : upload'[v].local = IF v = u THEN all ELSE upload[v].local
          BY <3>8, <3>5 DEF TypeOK
        <4>2. \A j \in jobs' : \A f \in j.left : file'[f].status = "gray"
          BY <2>a, <3>8
        <4>3. \A v \in Users : \A f \in upload'[v].local :
                 file'[f].status = "gray" /\ \A j \in jobs' : f \notin j.files
          BY <2>b, <3>6, <3>8, <4>1
        <4>4. \A v, w \in Users : v # w => upload'[v].local \cap upload'[w].local = {}
          BY <3>6, <4>1 DEF GrayUntilSettled
        <4> QED
          BY <2>2, <3>8, <4>2, <4>3, <4>4 DEF GrayUntilSettled
      <3> QED
        BY <3>4, <3>7, <3>8
    <2>6. CASE UploadRaises(u)
      BY <1>1, <1>a, <2>1, <2>6 DEF UploadRaises, TypeOK
    <2>7. CASE UNCHANGED <<jobs, upload>>
      BY <1>1, <2>1, <2>7
    <2> QED
      BY <1>2, <2>3, <2>4, <2>5, <2>6, <2>7
         DEF Request, NewKnowledgeBase, NewKnowledgeBaseRaises, RenameKnowledgeBase,
             DeleteDocs, CleanFilesByStatus, DeleteKnowledgeBase, GetTotalStatus, Begin
  <1>3. ASSUME DeleteRows \/ MarkFileRows PROVE GrayUntilSettled'
    <2>1. \A f \in Files : file'[f] = file[f] \/ file'[f] = [file[f] EXCEPT !.deleted = 1]
      BY <1>3 DEF DeleteRows, MarkFileRows
    <2>2. \A f \in Files : [file[f] EXCEPT !.deleted = 1].status = file[f].status
      BY ChangedIsFile, "gray" \in Statuses DEF TypeOK, Statuses
    <2>3. \A f \in FileRows : file'[f].status = file[f].status
      BY <2>1, <2>2 DEF FileRows
    <2> QED
      BY <1>1, <1>3, <2>3 DEF DeleteRows, MarkFileRows
  <1>4. ASSUME NEW j \in jobs, NEW g \in j.left, NEW s \in Outcomes, SettleFile(j, g, s)
        PROVE  GrayUntilSettled'
    <2> DEFINE less == [j EXCEPT !.left = @ \ {g}]
    <2>1. less.files = j.files /\ less.left = j.left \ {g}
      BY DEF TypeOK, Jobs
    <2>2. jobs' \subseteq (jobs \ {j}) \cup {less} /\ upload' = upload
      BY <1>4 DEF SettleFile
    <2> HIDE DEF less
    <2>3. g \in j.files /\ g \in FileRows /\ s \in Statuses
      BY ConstantsAssumption DEF JobsOfRows, Statuses
    <2>4. [file[g] EXCEPT !.status = s].status = s
      BY <2>3, ChangedIsFile DEF TypeOK, FileRows
    <2>5. file'[g].status = s /\ \A f \in FileRows : f # g => file'[f] = file[f]
      BY <1>4, <2>3, <2>4, Zenon DEF SettleFile, TypeOK, FileRows
    <2>6. \A f \in FileRows' : file'[f].status \in Statuses
      BY <2>3, <2>5, FileSteps DEF FileStep, GrayUntilSettled, FileRows, Statuses
    <2>7. \A i \in jobs \ {j} : g \notin i.files
      BY <2>3 DEF GrayUntilSettled
    <2>8. \A i \in jobs' : \A f \in i.left : file'[f].status = "gray"
      BY <2>1, <2>2, <2>5, <2>7 DEF GrayUntilSettled, JobsOfRows
    <2>9. \A i, h \in jobs' : i # h => i.files \cap h.files = {}
      BY <2>1, <2>2 DEF GrayUntilSettled
    <2>10. \A v \in Users : \A f \in upload'[v].local :
              file'[f].status = "gray" /\ \A i \in jobs' : f \notin i.files
      BY <2>1, <2>2, <2>3, <2>5 DEF GrayUntilSettled, JobsOfRows
    <2> QED
      BY <2>2, <2>6, <2>8, <2>9, <2>10 DEF GrayUntilSettled
  <1>5. ASSUME NEW j \in jobs, JobRaises(j) PROVE GrayUntilSettled'
    <2>1. \A f \in FileRows : f \notin j.files => file'[f] = file[f]
      BY <1>5 DEF JobRaises, FileRows
    <2>2. jobs' = jobs \ {j} /\ upload' = upload
      BY <1>5 DEF JobRaises
    <2>3. \A f \in FileRows' : file'[f].status \in Statuses
      <3> SUFFICES ASSUME NEW f \in Files, f \in FileRows' PROVE file'[f].status \in Statuses
        BY DEF FileRows
      <3>1. f \in FileRows \/ file'[f].status = "gray"
        BY FileSteps DEF FileStep
      <3>2. file'[f] \in {file[f], [file[f] EXCEPT !.status = "red"]}
        BY <1>5 DEF JobRaises
      <3>3. [file[f] EXCEPT !.status = "red"].status = "red"
        BY ChangedIsFile, "red" \in Statuses DEF TypeOK, Statuses
      <3> QED
        BY <3>1, <3>2, <3>3 DEF GrayUntilSettled, Statuses
    <2>4. \A i \in jobs' : \A f \in i.left : file'[f].status = "gray"
      BY <2>1, <2>2 DEF GrayUntilSettled, JobsOfRows
    <2>5. \A v \in Users : \A f \in upload'[v].local :
             file'[f].status = "gray" /\ \A i \in jobs' : f \notin i.files
      BY <2>1, <2>2 DEF GrayUntilSettled, JobsOfRows
    <2> QED
      BY <2>2, <2>3, <2>4, <2>5 DEF GrayUntilSettled
  <1>6. CASE Crash
    BY <1>1, <1>6, <1>a DEF Crash, tables
  <1>7. CASE UNCHANGED <<file, jobs, upload>>
    BY <1>1, <1>7
  <1> QED
    BY <1>2, <1>3, <1>4, <1>5, <1>6, <1>7
       DEF Next, Handle, Work, DeleteVectors, DeletePartition, MarkKbRows, CountStatus, AddTotal,
           vars, tables

LEMMA Order ==
    /\ Len(StatusOrder) = 4
    /\ StatusOrder[1] = "gray" /\ StatusOrder[2] = "red"
    /\ StatusOrder[3] = "yellow" /\ StatusOrder[4] = "green"
  BY DEF StatusOrder

\* The files of the knowledge base whose status was queried are counted.
Queried(f) == \E n \in 1 .. 4 : n < loop.next /\ file[f].status = StatusOrder[n]
CountedSoFar ==
    loop.step = "count" =>
        \A f \in GetFiles(loop.user, CountedKb) \ broken : Queried(f) => f \in counted

LEMMA CountedSoFarStays ==
    ASSUME TypeOK, RowsInKb, JobsOfRows, GrayUntilSettled, CountedSoFar, [Next]_vars
    PROVE  CountedSoFar'
  <1>a. LoopIdle.step = "idle" /\ loop.next \in 0 .. 5
    BY Order DEF LoopIdle, TypeOK, Loops
  <1>1. ASSUME loop'.step # "count" PROVE CountedSoFar'
    BY <1>1 DEF CountedSoFar
  <1>2. ASSUME loop'.next = 1 PROVE CountedSoFar'
    BY <1>2 DEF CountedSoFar, Queried
  <1>3. ASSUME UNCHANGED <<kb, loop>>, loop # LoopIdle
        PROVE  GetFiles(loop.user, CountedKb)' \subseteq GetFiles(loop.user, CountedKb)
    <2>1. CountedKb' = CountedKb
      BY <1>3 DEF CountedKb
    <2>2. \A f \in Files : f \in FileRows' =>
             /\ f \in FileRows /\ file'[f].kb = file[f].kb
             /\ file'[f].deleted = 0 => file[f].deleted = 0
      BY <1>3, FileSteps DEF FileStep, FileStays
    <2> QED
      BY <1>3, <2>1, <2>2 DEF GetFiles, Owner, FileRows
  <1>4. ASSUME NEW j \in jobs, NEW g \in j.left, NEW s \in Outcomes, SettleFile(j, g, s),
               loop.step = "count"
        PROVE  CountedSoFar'
    <2>1. UNCHANGED <<kb, loop, counted, broken>>
      BY <1>4 DEF SettleFile, aux
    <2>2. g \in FileRows /\ file[g].status = "gray" /\ s \in {"green", "yellow", "red"}
      BY ConstantsAssumption DEF JobsOfRows, GrayUntilSettled
    <2>3. [file[g] EXCEPT !.status = s].status = s
      BY <2>2, ChangedIsFile DEF TypeOK, FileRows, Statuses
    <2>4. file'[g].status = s /\ \A f \in FileRows : f # g => file'[f] = file[f]
      BY <1>4, <2>2, <2>3, Zenon DEF SettleFile, TypeOK, FileRows
    <2>5. ASSUME NEW f \in GetFiles(loop.user, CountedKb) \ broken, Queried(f)' PROVE Queried(f)
      <3>1. f \in FileRows
        BY DEF GetFiles
      <3>2. CASE f # g
        BY <2>1, <2>4, <2>5, <3>1, <3>2 DEF Queried
      <3>3. CASE f = g
        <4>1. PICK n \in 1 .. 4 : n < loop.next /\ s = StatusOrder[n]
          BY <2>1, <2>4, <2>5, <3>3 DEF Queried
        <4>2. 1 < loop.next
          BY <4>1, <1>a
        <4> QED
          BY <2>2, <3>3, <4>2, Order DEF Queried
      <3> QED
        BY <3>2, <3>3
    <2> QED
      BY <1>3, <1>4, <1>a, <2>1, <2>5 DEF CountedSoFar
  <1>5. ASSUME NEW j \in jobs, JobRaises(j), loop.step = "count" PROVE CountedSoFar'
    <2>1. UNCHANGED <<kb, loop, counted>>
      BY <1>5 DEF JobRaises
    <2>2. broken \subseteq broken'
      BY <1>5 DEF JobRaises
    <2>3. ASSUME NEW f \in GetFiles(loop.user, CountedKb) \ broken', Queried(f)' PROVE Queried(f)
      <3>1. f \in FileRows
        BY DEF GetFiles
      <3>2. CASE file'[f] = file[f]
        BY <2>1, <2>3, <3>2 DEF Queried
      <3>3. CASE file'[f] # file[f]
        <4>1. f \in j.files /\ j.safe /\ file'[f] = [file[f] EXCEPT !.status = "red"]
          BY <1>5, <3>1, <3>3 DEF JobRaises, FileRows
        <4>2. file'[f].status = "red"
          BY <3>1, <4>1, ChangedIsFile, "red" \in Statuses DEF TypeOK, FileRows, Statuses
        <4>3. file[f].status \in {"gray", "red"}
          BY <1>5, <3>1, <4>1 DEF JobRaises, GrayUntilSettled, Statuses
        <4>4. PICK n \in 1 .. 4 : n < loop.next /\ StatusOrder[n] = "red"
          BY <2>1, <2>3, <4>2 DEF Queried
        <4>5. 1 < loop.next
          BY <4>4, <1>a
        <4> QED
          BY <4>3, <4>4, <4>5, Order DEF Queried
      <3> QED
        BY <3>2, <3>3
    <2> QED
      BY <1>3, <1>5, <1>a, <2>1, <2>2, <2>3 DEF CountedSoFar
  <1>6. CASE CountStatus
    <2>1. /\ loop.step = "count" /\ loop.next \in 0 .. 4
          /\ UNCHANGED <<kb, file, broken>>
          /\ counted' = counted \cup GetFileByStatus({CountedKb}, StatusOrder[loop.next])
          /\ loop' = [loop EXCEPT !.next = @ + 1]
      BY <1>6, Order, <1>a DEF CountStatus, tables, aux
    <2>2. loop'.next = loop.next + 1 /\ loop'.user = loop.user /\ loop'.left = loop.left
      BY <2>1 DEF TypeOK, Loops
    <2>3. CountedKb' = CountedKb
      BY <2>2 DEF CountedKb
    <2>4. GetFiles(loop.user, CountedKb)' = GetFiles(loop.user, CountedKb)
      BY <2>1, <2>2, <2>3 DEF GetFiles, Owner, FileRows
    <2>5. ASSUME NEW f \in GetFiles(loop.user, CountedKb) \ broken, Queried(f)' PROVE f \in counted'
      <3>1. PICK n \in 1 .. 4 : n < loop.next + 1 /\ file[f].status = StatusOrder[n]
        BY <2>1, <2>2, <2>5 DEF Queried
      <3>2. CASE n < loop.next
        BY <2>1, <3>1, <3>2 DEF CountedSoFar, Queried
      <3>3. CASE n = loop.next
        BY <2>1, <3>1, <3>3 DEF GetFiles, GetFileByStatus
      <3> QED
        BY <2>1, <3>1, <3>2, <3>3
    <2> QED
      BY <2>1, <2>4, <2>5 DEF CountedSoFar
  <1>7. CASE AddTotal
    <2>1. \/ loop' = LoopIdle
          \/ loop' = [loop EXCEPT !.left = @ \ {CountedKb}, !.next = 1]
      BY <1>7 DEF AddTotal
    <2>2. CASE loop' = [loop EXCEPT !.left = @ \ {CountedKb}, !.next = 1]
      <3> DEFINE one == [loop EXCEPT !.left = @ \ {CountedKb}]
      <3>1. one \in Loops
        BY LoopType DEF TypeOK
      <3> HIDE DEF one
      <3>2. [one EXCEPT !.next = 1].next = 1
        BY <3>1 DEF Loops
      <3>3. loop'.next = 1
        BY <2>2, <3>2, Zenon DEF one
      <3> QED
        BY <3>3, <1>2
    <2> QED
      BY <2>1, <2>2, <1>1, <1>a
  <1>8. ASSUME NEW u \in Users, Request(u) PROVE CountedSoFar'
    <2>1. ASSUME NEW step, step # "count", NEW ks, NEW files, NEW doomed,
                 Begin(u, step, ks, files, doomed)
          PROVE  CountedSoFar'
      BY <2>1, <1>1 DEF Begin
    <2>2. ASSUME NEW ks, NEW s, CleanFilesByStatus(u, ks, s) PROVE CountedSoFar'
      BY <2>2, <2>1 DEF CleanFilesByStatus
    <2>3. ASSUME NEW k, NEW files, DeleteDocs(u, k, files) PROVE CountedSoFar'
      BY <2>3, <2>1 DEF DeleteDocs
    <2>4. ASSUME NEW ks, DeleteKnowledgeBase(u, ks) PROVE CountedSoFar'
      BY <2>4, <2>1 DEF DeleteKnowledgeBase
    <2>5. CASE GetTotalStatus(u)
      BY <2>5, <1>2 DEF GetTotalStatus
    <2>6. CASE loop' = LoopIdle
      BY <2>6, <1>1, <1>a
    <2> QED
      BY <1>8, <2>2, <2>3, <2>4, <2>5, <2>6
         DEF Request, NewKnowledgeBase, NewKnowledgeBaseRaises, RenameKnowledgeBase, UploadWeblink,
             UploadFiles, ReadFile, UploadRaises
  <1>9. ASSUME \/ DeleteVectors \/ DeleteRows \/ DeletePartition \/ MarkKbRows \/ MarkFileRows \/ Crash
        PROVE  loop'.step # "count"
    <2>1. ASSUME DeletePartition PROVE loop'.step # "count"
      <3>1. PICK k \in loop.left :
               loop' \in {LoopIdle, [loop EXCEPT !.step = "kbRows"], [loop EXCEPT !.left = @ \ {k}]}
        BY <2>1 DEF DeletePartition
      <3> QED
        BY <2>1, <3>1, <1>a DEF DeletePartition, TypeOK, Loops
    <2> QED
      BY <1>9, <2>1, <1>a DEF DeleteVectors, DeleteRows, MarkKbRows, MarkFileRows, Crash, TypeOK, Loops
  <1>10. ASSUME NEW j \in jobs, (\E f \in j.left, s \in Outcomes : SettleFile(j, f, s)) \/ JobRaises(j)
         PROVE  CountedSoFar'
    <2>1. loop' = loop
      BY <1>10 DEF SettleFile, JobRaises
    <2> QED
      BY <1>1, <1>4, <1>5, <1>10, <2>1
  <1>11. CASE UNCHANGED vars
    <2>1. GetFiles(loop.user, CountedKb)' = GetFiles(loop.user, CountedKb)
      BY <1>11 DEF vars, tables, GetFiles, Owner, FileRows, CountedKb
    <2> QED
      BY <1>11, <2>1 DEF vars, tables, aux, CountedSoFar, Queried
  <1> QED
    BY <1>1, <1>6, <1>7, <1>8, <1>9, <1>10, <1>11 DEF Next, Handle, Work

LEMMA CountedFollows == TypeOK /\ GrayUntilSettled /\ CountedSoFar => TotalMissesNothing
  <1> SUFFICES ASSUME TypeOK, GrayUntilSettled, CountedSoFar, Totalled,
                      NEW f \in GetFiles(loop.user, CountedKb) \ broken
               PROVE  f \in counted
    BY DEF TotalMissesNothing
  <1>1. loop.step = "count" /\ loop.next > 4
    BY Order DEF Totalled
  <1>2. loop.next \in 0 .. 5
    BY Order DEF TypeOK, Loops
  <1>3. file[f].status \in Statuses
    BY DEF GetFiles, GrayUntilSettled
  <1>4. PICK n \in 1 .. 4 : file[f].status = StatusOrder[n]
    BY <1>3, Order DEF Statuses
  <1>5. Queried(f)
    BY <1>1, <1>2, <1>4 DEF Queried
  <1> QED
    BY <1>1, <1>5 DEF CountedSoFar

\* The totals of a knowledge base leave no file out, whatever the workers do
\* between its queries, unless a job raised after it had settled the file.
THEOREM TotalsMissNothing == Spec => []TotalMissesNothing
  <1> DEFINE Inv == TypeOK /\ RowsInKb /\ JobsOfRows /\ GrayUntilSettled /\ CountedSoFar
  <1>1. Init => Inv
    <2>1. Init => GrayUntilSettled /\ CountedSoFar
      BY DEF Init, GrayUntilSettled, CountedSoFar, FileRows, NoUpload, LoopIdle
    <2> QED
      BY <2>1, InitType, RowsInit
  <1>2. Inv /\ [Next]_vars => Inv'
    BY NextType, RowsInKbStays, JobsOfRowsStays, GrayUntilSettledStays, CountedSoFarStays
  <1>3. Inv => TotalMissesNothing
    BY CountedFollows
  <1> QED
    BY <1>1, <1>2, <1>3, PTL DEF Spec
=============================================================================
