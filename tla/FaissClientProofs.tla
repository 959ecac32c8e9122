------------------------- MODULE FaissClientProofs -------------------------
(***************************************************************************)
(* Theorems about the vector store of one user, for any number of clients, *)
(* files, knowledge bases and restarts, and any sizes.                     *)
(***************************************************************************)
EXTENDS FaissProperties, TLAPS

-----------------------------------------------------------------------------
(* The operators the model is built from.                                  *)

\* A next id is a natural number above every id in use.
LEMMA NextFreeAbove ==
    ASSUME NEW ids \in SUBSET Nat, NEW n \in NextFree(ids)
    PROVE  n \in Nat /\ \A i \in ids : i < n
  BY DEF NextFree

\* The entries of a file's first k chunks, as the file's ids begin at nextId.
LEMMA EntriesFacts ==
    ASSUME TypeOK, ConstantsAssumption,
           NEW c \in Clients, NEW f \in Files, NEW k \in Nat, k <= Size[f]
    PROVE  /\ IsMeta(Entries(c, f, k))
           /\ DOMAIN Entries(c, f, k) = nextId[c] .. nextId[c] + k - 1
           /\ \A i \in DOMAIN Entries(c, f, k) :
                 Entries(c, f, k)[i] = [file |-> f, part |-> i - nextId[c]]
           /\ VectorsOf(Entries(c, f, k)) \in SUBSET Vector
  <1>1. nextId[c] \in Nat
    BY DEF TypeOK
  <1>2. \A i \in nextId[c] .. nextId[c] + k - 1 :
           i \in Nat /\ [file |-> f, part |-> i - nextId[c]] \in Chunk
    BY <1>1 DEF Chunk
  <1>3. DOMAIN Entries(c, f, k) = nextId[c] .. nextId[c] + k - 1
    BY DEF Entries
  <1>4. \A i \in DOMAIN Entries(c, f, k) :
           Entries(c, f, k)[i] = [file |-> f, part |-> i - nextId[c]]
    BY DEF Entries
  <1>5. IsMeta(Entries(c, f, k))
    <2>1. Entries(c, f, k) = [i \in DOMAIN Entries(c, f, k) |-> Entries(c, f, k)[i]]
      BY DEF Entries
    <2> QED  BY <1>2, <1>3, <1>4, <2>1 DEF IsMeta
  <1>6. VectorsOf(Entries(c, f, k)) \in SUBSET Vector
    <2> DEFINE e == Entries(c, f, k)
    <2>1. \A i \in DOMAIN e : i \in Nat /\ e[i] \in Chunk
      BY <1>2, <1>3, <1>4
    <2> HIDE DEF e
    <2>2. \A i \in DOMAIN e : [id |-> i, chunk |-> e[i]] \in Vector
      BY <2>1 DEF Vector
    <2> QED  BY <2>2 DEF VectorsOf, e
  <1> QED  BY <1>3, <1>4, <1>5, <1>6

\* A dict updated with a dict is a dict.
LEMMA UpdatedIsMeta ==
    ASSUME NEW m, NEW e, IsMeta(m), IsMeta(e)
    PROVE  IsMeta(Updated(m, e))
  <1>1. DOMAIN Updated(m, e) = DOMAIN m \cup DOMAIN e
    BY DEF Updated
  <1>2. Updated(m, e) = [i \in DOMAIN Updated(m, e) |-> Updated(m, e)[i]]
    BY DEF Updated
  <1>3. \A i \in DOMAIN Updated(m, e) : Updated(m, e)[i] \in Chunk
    BY DEF Updated, IsMeta
  <1> QED  BY <1>1, <1>2, <1>3 DEF IsMeta

\* So is a dict restricted to some of its ids.
LEMMA KeptIsMeta ==
    ASSUME NEW m, IsMeta(m), NEW kept \in SUBSET DOMAIN m
    PROVE  IsMeta([i \in kept |-> m[i]])
  BY DEF IsMeta

-----------------------------------------------------------------------------
(* Type correctness.                                                       *)

LEMMA InitType == Init => TypeOK
  <1> SUFFICES ASSUME Init PROVE TypeOK
    OBVIOUS
  <1>1. IsMeta(EmptyMeta)
    BY DEF EmptyMeta, IsMeta
  <1>2. meta = [c \in Clients |-> meta[c]] /\ \A c \in Clients : IsMeta(meta[c])
    BY <1>1 DEF Init
  <1>3. NoOp \in Op
    BY DEF NoOp, Op
  <1>4. /\ DOMAIN disk = {"index", "meta", "indexTmp", "metaTmp", "indexBak", "metaBak"}
        /\ \A n \in DOMAIN disk : disk[n] = Missing
    BY DEF Init
  <1> QED  BY <1>2, <1>3, <1>4 DEF Init, TypeOK, Loading, Saving

\* Starting a save keeps the types of the lock and of its holder.
LEMMA StartSaveType ==
    ASSUME TypeOK, NEW c \in Clients, NEW kind \in {"insert", "delete"},
           NEW files \in SUBSET Files, StartSave(c, kind, files)
    PROVE  /\ pc' \in [Clients -> {"absent", "free"} \cup Loading \cup Saving]
           /\ op' \in [Clients -> Op]
  <1>1. [kind |-> kind, files |-> files] \in Op
    BY DEF Op
  <1>2. op' \in [Clients -> Op]
    BY <1>1 DEF StartSave, TypeOK
  <1>3. pc' \in [Clients -> {"absent", "free"} \cup Loading \cup Saving]
    BY DEF StartSave, TypeOK, Saving
  <1> QED  BY <1>2, <1>3

\* Adding chunks to memory keeps its type.
LEMMA AddChunksType ==
    ASSUME TypeOK, ConstantsAssumption,
           NEW c \in Clients, NEW f \in Files, NEW k \in Nat, k <= Size[f],
           AddChunks(c, f, k)
    PROVE  /\ index' \in [Clients -> SUBSET Vector]
           /\ meta' = [d \in Clients |-> meta'[d]] /\ \A d \in Clients : IsMeta(meta'[d])
  <1>1. VectorsOf(Entries(c, f, k)) \in SUBSET Vector /\ IsMeta(Entries(c, f, k))
    BY EntriesFacts
  <1>2. index' \in [Clients -> SUBSET Vector]
    BY <1>1 DEF AddChunks, TypeOK
  <1>3. IsMeta(Updated(meta[c], Entries(c, f, k)))
    BY <1>1, UpdatedIsMeta DEF TypeOK
  <1>4. meta' = [meta EXCEPT ![c] = Updated(meta[c], Entries(c, f, k))]
    BY DEF AddChunks
  <1> QED  BY <1>2, <1>3, <1>4 DEF TypeOK

\* So does removing them.
LEMMA RemoveType ==
    ASSUME TypeOK, NEW c \in Clients, NEW files \in SUBSET Files, Remove(c, files)
    PROVE  /\ index' \in [Clients -> SUBSET Vector]
           /\ meta' = [d \in Clients |-> meta'[d]] /\ \A d \in Clients : IsMeta(meta'[d])
           /\ nextId' \in [Clients -> Nat]
  <1> DEFINE kept == DOMAIN meta[c] \ IdsOf(c, files)
  <1>1. IsMeta(meta[c]) /\ kept \in SUBSET DOMAIN meta[c] /\ kept \in SUBSET Nat
    BY DEF TypeOK, IsMeta
  <1>2. IsMeta([i \in kept |-> meta[c][i]])
    BY <1>1, KeptIsMeta
  <1>3. meta' = [meta EXCEPT ![c] = [i \in kept |-> meta[c][i]]]
    BY DEF Remove
  <1>4. meta' = [d \in Clients |-> meta'[d]] /\ \A d \in Clients : IsMeta(meta'[d])
    BY <1>2, <1>3 DEF TypeOK
  <1>5. index' \in [Clients -> SUBSET Vector]
    BY DEF Remove, TypeOK
  <1>6. nextId' \in [Clients -> Nat]
    <2>1. PICK n \in NextFree(kept) : nextId' = [nextId EXCEPT ![c] = n]
      BY DEF Remove
    <2>2. n \in Nat
      BY <1>1, <2>1, NextFreeAbove
    <2> QED  BY <2>1, <2>2 DEF TypeOK
  <1> QED  BY <1>4, <1>5, <1>6

LEMMA NextType == TypeOK /\ [Next]_vars => TypeOK'
  <1> SUFFICES ASSUME TypeOK, [Next]_vars PROVE TypeOK'
    OBVIOUS
  <1> USE ConstantsAssumption
  <1>1. ASSUME NEW c \in Clients, Construct(c) PROVE TypeOK'
    <2>1. CASE disk.index # Missing /\ disk.meta # Missing
      <3>1. /\ disk' = NoTmp
            /\ pc' = [pc EXCEPT ![c] = "loadIndex"]
            /\ UNCHANGED <<mem, op, sweep, hist>>
        BY <1>1, <2>1 DEF Construct
      <3>2. DOMAIN disk' = DOMAIN disk
        BY <3>1 DEF NoTmp
      <3>3. /\ disk'["index"] = disk["index"] /\ disk'["indexBak"] = disk["indexBak"]
            /\ disk'["meta"] = disk["meta"] /\ disk'["metaBak"] = disk["metaBak"]
            /\ disk'["indexTmp"] = Missing /\ disk'["metaTmp"] = Missing
        BY <3>1 DEF NoTmp, TypeOK
      <3>4. \A n \in {"index", "indexTmp", "indexBak"} :
               disk'[n] = Missing \/ disk'[n] \in SUBSET Vector
        BY <3>3 DEF TypeOK
      <3>5. \A n \in {"meta", "metaTmp", "metaBak"} : disk'[n] = Missing \/ IsMeta(disk'[n])
        <4>1. /\ disk["meta"] = Missing \/ IsMeta(disk["meta"])
              /\ disk["metaBak"] = Missing \/ IsMeta(disk["metaBak"])
          BY DEF TypeOK
        <4>2. /\ disk'["meta"] = Missing \/ IsMeta(disk'["meta"])
              /\ disk'["metaBak"] = Missing \/ IsMeta(disk'["metaBak"])
              /\ disk'["metaTmp"] = Missing
          BY <3>3, <4>1
        <4> QED  BY <4>2
      <3>6. DOMAIN disk' = {"index", "meta", "indexTmp", "metaTmp", "indexBak", "metaBak"}
        BY <3>2 DEF TypeOK
      <3>7. pc' \in [Clients -> {"absent", "free"} \cup Loading \cup Saving]
        BY <3>1 DEF TypeOK, Loading
      <3>8. /\ index' \in [Clients -> SUBSET Vector]
            /\ meta' = [d \in Clients |-> meta'[d]] /\ \A d \in Clients : IsMeta(meta'[d])
            /\ nextId' \in [Clients -> Nat]
        BY <3>1 DEF TypeOK, mem
      <3>9. /\ op' \in [Clients -> Op] /\ sweep' \in [Clients -> SUBSET Files]
            /\ submitted' \subseteq Files /\ acked' \subseteq Files
            /\ deleted' \subseteq Files /\ gone' \subseteq Files
            /\ mine' \in [Clients -> SUBSET Files]
            /\ saveFailed' \in BOOLEAN /\ crashes' \in Nat
        BY <3>1 DEF TypeOK, hist
      <3> QED  BY <3>4, <3>5, <3>6, <3>7, <3>8, <3>9 DEF TypeOK
    <2>2. CASE ~(disk.index # Missing /\ disk.meta # Missing)
      <3>1. disk' = BackedUp(NoTmp) /\ CreateNew(c)
        BY <1>1, <2>2 DEF Construct
      <3>2. DOMAIN disk' = DOMAIN disk
        BY <3>1 DEF BackedUp, NoTmp
      <3>3. /\ disk'.index = Missing /\ disk'.meta = Missing
            /\ disk'.indexTmp = Missing /\ disk'.metaTmp = Missing
            /\ disk'.indexBak \in {disk.index, disk.indexBak}
            /\ disk'.metaBak \in {disk.meta, disk.metaBak}
        BY <3>1 DEF BackedUp, NoTmp, TypeOK
      <3>4. /\ \A n \in {"index", "indexTmp", "indexBak"} :
                  disk'[n] = Missing \/ disk'[n] \in SUBSET Vector
            /\ \A n \in {"meta", "metaTmp", "metaBak"} : disk'[n] = Missing \/ IsMeta(disk'[n])
        BY <3>3 DEF TypeOK
      <3> QED  BY <1>1, <2>2, <3>1, <3>2, <3>4 DEF Construct, CreateNew, TypeOK, hist
    <2> QED  BY <2>1, <2>2
  <1>2. ASSUME NEW c \in Clients, LoadIndex(c) PROVE TypeOK'
    BY <1>2 DEF LoadIndex, TypeOK, hist, Loading, Saving
  <1>3. ASSUME NEW c \in Clients, LoadMeta(c) PROVE TypeOK'
    <2>1. IsMeta(disk.meta) /\ DOMAIN disk.meta \in SUBSET Nat
      BY <1>3 DEF LoadMeta, TypeOK, IsMeta
    <2>2. PICK n \in NextFree(DOMAIN disk.meta) : nextId' = [nextId EXCEPT ![c] = n]
      BY <1>3 DEF LoadMeta
    <2>3. n \in Nat
      BY <2>1, <2>2, NextFreeAbove
    <2> QED  BY <1>3, <2>1, <2>2, <2>3 DEF LoadMeta, TypeOK, hist, Loading, Saving
  <1>4. ASSUME NEW c \in Clients, LoadFails(c) PROVE TypeOK'
    BY <1>4 DEF LoadFails, CreateNew, TypeOK, hist, Loading, Saving
  <1>5. ASSUME NEW c \in Clients, WriteIndexTmp(c) PROVE TypeOK'
    BY <1>5 DEF WriteIndexTmp, TypeOK, mem, hist, Loading, Saving
  <1>6. ASSUME NEW c \in Clients, WriteMetaTmp(c) PROVE TypeOK'
    BY <1>6 DEF WriteMetaTmp, TypeOK, mem, hist, Loading, Saving
  <1>7. ASSUME NEW c \in Clients, SwapIndex(c) PROVE TypeOK'
    BY <1>7 DEF SwapIndex, TypeOK, mem, hist, Loading, Saving
  <1>8. ASSUME NEW c \in Clients, SwapMeta(c) PROVE TypeOK'
    BY <1>8 DEF SwapMeta, TypeOK, mem, hist, NoOp, Op, Loading, Saving
  <1>9. ASSUME NEW c \in Clients, SaveRaises(c) PROVE TypeOK'
    BY <1>9 DEF SaveRaises, TypeOK, mem, NoOp, Op, Loading, Saving
  <1>10. ASSUME NEW c \in Clients, NEW f \in Files, InsertFiles(c, f) PROVE TypeOK'
    <2>1. AddChunks(c, f, Size[f]) /\ Size[f] \in Nat
      BY <1>10 DEF InsertFiles
    <2>2. /\ index' \in [Clients -> SUBSET Vector]
          /\ meta' = [d \in Clients |-> meta'[d]] /\ \A d \in Clients : IsMeta(meta'[d])
      BY <2>1, AddChunksType
    <2>3. StartSave(c, "insert", {f}) /\ {f} \in SUBSET Files
      BY <1>10 DEF InsertFiles
    <2>4. /\ pc' \in [Clients -> {"absent", "free"} \cup Loading \cup Saving]
          /\ op' \in [Clients -> Op]
      BY <2>3, StartSaveType
    <2>5. nextId' \in [Clients -> Nat]
      BY <1>10, <2>1 DEF InsertFiles, TypeOK
    <2> QED  BY <1>10, <2>2, <2>4, <2>5 DEF InsertFiles, TypeOK
  <1>11. ASSUME NEW c \in Clients, NEW f \in Files, InsertFails(c, f) PROVE TypeOK'
    <2>1. PICK k \in 0 .. Size[f] - 1 :
            /\ AddChunks(c, f, k)
            /\ nextId' = [nextId EXCEPT
                  ![c] = @ + IF k + BatchSize < Size[f] THEN k + BatchSize ELSE Size[f]]
      BY <1>11 DEF InsertFails
    <2>2. k \in Nat /\ k <= Size[f] /\ Size[f] \in Nat
      OBVIOUS
    <2>3. /\ index' \in [Clients -> SUBSET Vector]
          /\ meta' = [d \in Clients |-> meta'[d]] /\ \A d \in Clients : IsMeta(meta'[d])
      BY <2>1, <2>2, AddChunksType
    <2>4. nextId' \in [Clients -> Nat]
      BY <2>1, <2>2 DEF TypeOK
    <2> QED  BY <1>11, <2>3, <2>4 DEF InsertFails, TypeOK, ctl
  <1>12. ASSUME NEW c \in Clients, NEW files \in SUBSET Files, DeleteLocked(c, files),
                sweep' \in [Clients -> SUBSET Files]
         PROVE  TypeOK'
    <2>1. CASE DOMAIN meta[c] = {}
      BY <1>12, <2>1 DEF DeleteLocked, TypeOK, mem
    <2>2. CASE DOMAIN meta[c] # {}
      <3>1. /\ index' \in [Clients -> SUBSET Vector]
            /\ meta' = [d \in Clients |-> meta'[d]] /\ \A d \in Clients : IsMeta(meta'[d])
            /\ nextId' \in [Clients -> Nat]
        <4>1. CASE IdsOf(c, files) = {}
          BY <1>12, <2>2, <4>1 DEF DeleteLocked, TypeOK, mem
        <4>2. CASE IdsOf(c, files) # {}
          BY <1>12, <2>2, <4>2, RemoveType DEF DeleteLocked
        <4> QED  BY <4>1, <4>2
      <3>2. StartSave(c, "delete", files \cap submitted) /\ files \cap submitted \in SUBSET Files
        BY <1>12, <2>2 DEF DeleteLocked
      <3>3. /\ pc' \in [Clients -> {"absent", "free"} \cup Loading \cup Saving]
            /\ op' \in [Clients -> Op]
        BY <3>2, StartSaveType
      <3> QED  BY <1>12, <2>2, <3>1, <3>3 DEF DeleteLocked, TypeOK
    <2> QED  BY <2>1, <2>2
  <1>13. ASSUME NEW c \in Clients, NEW files \in SUBSET Files, DeleteFiles(c, files)
         PROVE  TypeOK'
    BY <1>12, <1>13 DEF DeleteFiles, TypeOK
  <1>14. ASSUME NEW c \in Clients, NEW k \in Kbs, CollectPartition(c, k) PROVE TypeOK'
    BY <1>14 DEF CollectPartition, FilesIn, TypeOK, mem, hist
  <1>15. ASSUME NEW c \in Clients, DeletePartition(c) PROVE TypeOK'
    BY <1>12, <1>15 DEF DeletePartition, TypeOK
  <1>16. ASSUME Crash PROVE TypeOK'
    BY <1>16 DEF Crash, TypeOK, EmptyMeta, IsMeta, NoOp, Op, Loading, Saving
  <1>17. ASSUME UNCHANGED vars PROVE TypeOK'
    BY <1>17 DEF vars, mem, ctl, hist, TypeOK
  <1> QED
    BY <1>1, <1>2, <1>3, <1>4, <1>5, <1>6, <1>7, <1>8, <1>9, <1>10, <1>11, <1>13, <1>14,
       <1>15, <1>16, <1>17 DEF Next, Load, Save

\* Every reachable state of the store is well typed: in particular no id is
\* ever negative and what is loaded from disk is a dict from ids to chunks.
THEOREM TypeCorrect == Spec => []TypeOK
  BY InitType, NextType, PTL DEF Spec

-----------------------------------------------------------------------------
(* What a client acknowledged stays searchable.                            *)

Ready == {"free"} \cup Saving

\* A client that has not loaded yet holds and promises nothing.
NothingBeforeLoad ==
    \A c \in Clients : pc[c] \notin Ready => meta[c] = EmptyMeta /\ mine[c] = {}

\* An operation holds the lock only while it saves.
OpOnlyInSave == \A c \in Clients : pc[c] \notin Saving => op[c] = NoOp

\* The next id is above every id in use, whatever was deleted or loaded.
FreshIds == \A c \in Clients : pc[c] \in Ready => \A i \in DOMAIN meta[c] : i < nextId[c]

\* Client c holds chunk ch under id i, in the dict and in the index.
Holds(c, i, ch) ==
    i \in DOMAIN meta[c] /\ meta[c][i] = ch /\ [id |-> i, chunk |-> ch] \in index[c]

\* The files client c acknowledged, and the one it is about to.
Kept(c) == mine[c] \cup (IF op[c].kind = "insert" THEN op[c].files ELSE {})

KeptIsHeld ==
    \A c \in Clients : \A f \in Kept(c) : \A ch \in ChunksOf(f) : \E i \in Nat : Holds(c, i, ch)

\* The inductive invariant of the memory of a client.
MemoryInv == TypeOK /\ NothingBeforeLoad /\ OpOnlyInSave /\ FreshIds /\ KeptIsHeld

\* Adding chunks overwrites nothing and makes each of them held.
LEMMA AddChunksHolds ==
    ASSUME MemoryInv, ConstantsAssumption,
           NEW c \in Clients, NEW f \in Files, NEW k \in Nat, k <= Size[f],
           pc[c] = "free", AddChunks(c, f, k)
    PROVE  /\ \A d \in Clients \ {c} : index'[d] = index[d] /\ meta'[d] = meta[d]
           /\ DOMAIN meta'[c] = DOMAIN meta[c] \cup (nextId[c] .. nextId[c] + k - 1)
           /\ \A d \in Clients, i \in Nat : \A ch : Holds(d, i, ch) => Holds(d, i, ch)'
           /\ \A p \in 0 .. k - 1 : \E i \in Nat : Holds(c, i, [file |-> f, part |-> p])'
  <1> DEFINE e == Entries(c, f, k)
  <1>1. TypeOK /\ nextId[c] \in Nat
    BY DEF MemoryInv, TypeOK
  <1>2. /\ DOMAIN e = nextId[c] .. nextId[c] + k - 1
        /\ \A i \in DOMAIN e : e[i] = [file |-> f, part |-> i - nextId[c]]
    BY <1>1, EntriesFacts
  <1>3. /\ index' = [index EXCEPT ![c] = @ \cup VectorsOf(e)]
        /\ meta' = [meta EXCEPT ![c] = Updated(@, e)]
    BY DEF AddChunks
  <1>4. \A i \in DOMAIN meta[c] : i < nextId[c]
    BY DEF MemoryInv, FreshIds, Ready
  <1> HIDE DEF e
  <1>5. \A d \in Clients \ {c} : index'[d] = index[d] /\ meta'[d] = meta[d]
    BY <1>1, <1>3 DEF TypeOK
  <1>6. /\ index'[c] = index[c] \cup VectorsOf(e)
        /\ meta'[c] = Updated(meta[c], e)
    BY <1>1, <1>3 DEF TypeOK
  <1>7. /\ DOMAIN meta'[c] = DOMAIN meta[c] \cup DOMAIN e
        /\ \A i \in DOMAIN meta[c] \ DOMAIN e : meta'[c][i] = meta[c][i]
        /\ \A i \in DOMAIN e : meta'[c][i] = e[i]
    BY <1>6 DEF Updated
  <1>8. ASSUME NEW d \in Clients, NEW i \in Nat, NEW ch, Holds(d, i, ch)
        PROVE  Holds(d, i, ch)'
    <2>1. CASE d # c
      BY <1>5, <1>8, <2>1 DEF Holds
    <2>2. CASE d = c
      <3>1. i \in DOMAIN meta[c] /\ i \notin DOMAIN e
        BY <1>1, <1>2, <1>4, <1>8, <2>2 DEF Holds
      <3> QED  BY <1>6, <1>7, <1>8, <2>2, <3>1 DEF Holds
    <2> QED  BY <2>1, <2>2
  <1>9. ASSUME NEW p \in 0 .. k - 1
        PROVE  \E i \in Nat : Holds(c, i, [file |-> f, part |-> p])'
    <2>1. PICK i \in Nat : i = nextId[c] + p
      BY <1>1
    <2>2. i \in DOMAIN e /\ e[i] = [file |-> f, part |-> p]
      <3>1. i \in DOMAIN e /\ i - nextId[c] = p
        BY <1>1, <1>2, <2>1
      <3> QED  BY <1>2, <3>1
    <2>3. [id |-> i, chunk |-> [file |-> f, part |-> p]] \in VectorsOf(e)
      BY <2>2 DEF VectorsOf
    <2>4. Holds(c, i, [file |-> f, part |-> p])'
      BY <1>6, <1>7, <2>2, <2>3 DEF Holds
    <2> QED  BY <2>4
  <1> QED  BY <1>2, <1>5, <1>7, <1>8, <1>9

\* Removing files leaves every other chunk where it was, and a next id above
\* every id that is left.
LEMMA RemoveHolds ==
    ASSUME TypeOK, NEW c \in Clients, NEW files \in SUBSET Files, Remove(c, files)
    PROVE  /\ \A d \in Clients \ {c} : /\ index'[d] = index[d] /\ meta'[d] = meta[d]
                                       /\ nextId'[d] = nextId[d]
           /\ \A i \in DOMAIN meta'[c] : i < nextId'[c]
           /\ \A d \in Clients, i \in Nat : \A ch :
                 Holds(d, i, ch) /\ ch.file \notin files => Holds(d, i, ch)'
  <1> DEFINE kept == DOMAIN meta[c] \ IdsOf(c, files)
  <1>1. /\ meta' = [meta EXCEPT ![c] = [i \in kept |-> meta[c][i]]]
        /\ index' = [index EXCEPT
              ![c] = IF kept = {} THEN {} ELSE {v \in @ : v.id \notin IdsOf(c, files)}]
    BY DEF Remove
  <1>2. PICK n \in NextFree(kept) : nextId' = [nextId EXCEPT ![c] = n]
    BY DEF Remove
  <1>3. kept \in SUBSET Nat
    BY DEF TypeOK, IsMeta
  <1>4. \A i \in kept : i < n
    BY <1>2, <1>3, NextFreeAbove
  <1>5. meta'[c] = [i \in kept |-> meta[c][i]] /\ nextId'[c] = n
    BY <1>1, <1>2 DEF TypeOK
  <1>6. \A d \in Clients \ {c} : /\ index'[d] = index[d] /\ meta'[d] = meta[d]
                                 /\ nextId'[d] = nextId[d]
    BY <1>1, <1>2 DEF TypeOK
  <1>7. ASSUME NEW d \in Clients, NEW i \in Nat, NEW ch, Holds(d, i, ch), ch.file \notin files
        PROVE  Holds(d, i, ch)'
    <2>1. CASE d # c
      BY <1>6, <1>7, <2>1 DEF Holds
    <2>2. CASE d = c
      <3>1. i \in kept
        BY <1>7, <2>2 DEF Holds, IdsOf
      <3>2. index'[c] = {v \in index[c] : v.id \notin IdsOf(c, files)}
        BY <1>1, <3>1 DEF TypeOK
      <3>3. [id |-> i, chunk |-> ch] \in index'[c]
        BY <1>7, <2>2, <3>1, <3>2 DEF Holds
      <3> QED  BY <1>5, <1>7, <2>2, <3>1, <3>3 DEF Holds
    <2> QED  BY <2>1, <2>2
  <1> QED  BY <1>4, <1>5, <1>6, <1>7

\* What is kept is held after a step that makes no client keep more and loses
\* nothing that is kept.
LEMMA KeptFrame ==
    ASSUME KeptIsHeld,
           \A d \in Clients : Kept(d)' \subseteq Kept(d),
           \A d \in Clients : \A f \in Kept(d)' : \A ch \in ChunksOf(f) : \A i \in Nat :
              Holds(d, i, ch) => Holds(d, i, ch)'
    PROVE  KeptIsHeld'
  BY DEF KeptIsHeld

LEMMA InitMemory == Init => MemoryInv
  BY InitType DEF Init, MemoryInv, NothingBeforeLoad, OpOnlyInSave, FreshIds, KeptIsHeld,
                  Kept, Ready, Saving, NoOp

\* A load ends with a next id above what was loaded, and nothing is kept yet.
LEMMA LoadMemory ==
    ASSUME MemoryInv, TypeOK', NEW c \in Clients, Load(c)
    PROVE  MemoryInv'
  <1> USE DEF MemoryInv
  <1>1. /\ pc[c] \notin Ready /\ pc'[c] \in {"loadIndex", "loadMeta", "free"}
        /\ meta[c] = EmptyMeta /\ mine[c] = {} /\ op[c] = NoOp
        /\ op' = op /\ mine' = mine
        /\ \A d \in Clients \ {c} : /\ pc'[d] = pc[d] /\ meta'[d] = meta[d]
                                    /\ index'[d] = index[d] /\ nextId'[d] = nextId[d]
    BY DEF Load, Construct, LoadIndex, LoadMeta, LoadFails, CreateNew, TypeOK, mem, hist,
           NothingBeforeLoad, OpOnlyInSave, Ready, Saving
  <1>2. /\ pc'[c] \in Ready => \A i \in DOMAIN meta'[c] : i < nextId'[c]
        /\ pc'[c] \notin Ready => meta'[c] = EmptyMeta
    <2>1. CASE LoadMeta(c)
      <3>1. PICK n \in NextFree(DOMAIN disk.meta) : nextId' = [nextId EXCEPT ![c] = n]
        BY <2>1 DEF LoadMeta
      <3>2. DOMAIN disk.meta \in SUBSET Nat
        BY <2>1 DEF LoadMeta, TypeOK, IsMeta
      <3>3. \A i \in DOMAIN disk.meta : i < n
        BY <3>1, <3>2, NextFreeAbove
      <3>4. meta'[c] = disk.meta /\ nextId'[c] = n /\ pc'[c] = "free"
        BY <2>1, <3>1 DEF LoadMeta, TypeOK
      <3> QED  BY <3>3, <3>4 DEF Ready
    <2>2. CASE Construct(c) \/ LoadIndex(c) \/ LoadFails(c)
      <3>1. meta' = meta
        BY <2>2 DEF Construct, LoadIndex, LoadFails, CreateNew, mem
      <3> QED  BY <1>1, <3>1 DEF EmptyMeta
    <2> QED  BY <2>1, <2>2 DEF Load
  <1>3. NothingBeforeLoad'
    BY <1>1, <1>2 DEF NothingBeforeLoad
  <1>4. OpOnlyInSave'
    BY <1>1 DEF OpOnlyInSave
  <1>5. FreshIds'
    BY <1>1, <1>2 DEF FreshIds
  <1>6. KeptIsHeld'
    <2>1. Kept(c)' = {} /\ \A d \in Clients : Kept(d)' = Kept(d)
      BY <1>1 DEF Kept, NoOp
    <2>2. \A d \in Clients \ {c} : \A i \in Nat : \A ch : Holds(d, i, ch) => Holds(d, i, ch)'
      BY <1>1 DEF Holds
    <2> QED  BY <2>1, <2>2, KeptFrame
  <1> QED  BY <1>3, <1>4, <1>5, <1>6

\* A save leaves memory alone; its last step moves the file it inserted from
\* the operation to what the client acknowledged.
LEMMA SaveMemory ==
    ASSUME MemoryInv, TypeOK', NEW c \in Clients, Save(c)
    PROVE  MemoryInv'
  <1> USE DEF MemoryInv
  <1>1. /\ pc[c] \in Saving /\ pc'[c] \in Ready
        /\ index' = index /\ meta' = meta /\ nextId' = nextId
        /\ pc'[c] \notin Saving => op'[c] = NoOp
        /\ \A d \in Clients \ {c} : pc'[d] = pc[d] /\ op'[d] = op[d] /\ mine'[d] = mine[d]
    BY DEF Save, WriteIndexTmp, WriteMetaTmp, SwapIndex, SwapMeta, SaveRaises, TypeOK, mem,
           hist, Ready, Saving
  <1>2. Kept(c)' \subseteq Kept(c)
    BY DEF Save, WriteIndexTmp, WriteMetaTmp, SwapIndex, SwapMeta, SaveRaises, TypeOK, mem,
           hist, Kept, NoOp
  <1>3. NothingBeforeLoad'
    BY <1>1 DEF NothingBeforeLoad
  <1>4. OpOnlyInSave'
    BY <1>1 DEF OpOnlyInSave
  <1>5. FreshIds'
    BY <1>1 DEF FreshIds, Ready
  <1>6. KeptIsHeld'
    <2>1. \A d \in Clients : Kept(d)' \subseteq Kept(d)
      BY <1>1, <1>2 DEF Kept
    <2>2. \A d \in Clients : \A i \in Nat : \A ch : Holds(d, i, ch) => Holds(d, i, ch)'
      BY <1>1 DEF Holds
    <2> QED  BY <2>1, <2>2, KeptFrame
  <1> QED  BY <1>3, <1>4, <1>5, <1>6

\* An insertion takes ids nobody uses, whether or not all its batches succeed.
LEMMA InsertMemory ==
    ASSUME MemoryInv, TypeOK', ConstantsAssumption,
           NEW c \in Clients, NEW f \in Files, InsertFiles(c, f) \/ InsertFails(c, f)
    PROVE  MemoryInv'
  <1> USE DEF MemoryInv
  <1>1. PICK k \in 0 .. Size[f] :
           /\ AddChunks(c, f, k)
           /\ nextId'[c] >= nextId[c] + k
           /\ \A d \in Clients \ {c} : nextId'[d] = nextId[d]
           /\ \/ k = Size[f] /\ StartSave(c, "insert", {f})
              \/ pc' = pc /\ op' = op
    <2>1. Size[f] \in Nat /\ nextId[c] \in Nat /\ nextId \in [Clients -> Nat]
      BY DEF TypeOK
    <2>2. CASE InsertFiles(c, f)
      BY <2>1, <2>2 DEF InsertFiles
    <2>3. CASE InsertFails(c, f)
      <3>1. PICK k \in 0 .. Size[f] - 1 :
              /\ AddChunks(c, f, k)
              /\ nextId' = [nextId EXCEPT
                    ![c] = @ + IF k + BatchSize < Size[f] THEN k + BatchSize ELSE Size[f]]
        BY <2>3 DEF InsertFails
      <3>2. nextId'[c] >= nextId[c] + k /\ \A d \in Clients \ {c} : nextId'[d] = nextId[d]
        BY <2>1, <3>1
      <3>3. pc' = pc /\ op' = op
        BY <2>3 DEF InsertFails, ctl
      <3> QED  BY <2>1, <3>1, <3>2, <3>3
    <2> QED  BY <2>2, <2>3
  <1>2. k \in Nat /\ k <= Size[f] /\ pc[c] = "free" /\ mine' = mine
    BY DEF InsertFiles, InsertFails
  <1>3. /\ \A d \in Clients \ {c} : index'[d] = index[d] /\ meta'[d] = meta[d]
        /\ DOMAIN meta'[c] = DOMAIN meta[c] \cup (nextId[c] .. nextId[c] + k - 1)
        /\ \A d \in Clients, i \in Nat : \A ch : Holds(d, i, ch) => Holds(d, i, ch)'
        /\ \A p \in 0 .. k - 1 : \E i \in Nat : Holds(c, i, [file |-> f, part |-> p])'
    BY <1>1, <1>2, AddChunksHolds
  <1>4. /\ pc'[c] \in Ready /\ (pc'[c] \notin Saving => op'[c] = NoOp)
        /\ \A d \in Clients \ {c} : pc'[d] = pc[d] /\ op'[d] = op[d]
    BY <1>1, <1>2 DEF StartSave, TypeOK, Ready, Saving, OpOnlyInSave
  <1>5. NothingBeforeLoad'
    BY <1>2, <1>3, <1>4 DEF NothingBeforeLoad
  <1>6. OpOnlyInSave'
    BY <1>4 DEF OpOnlyInSave
  <1>7. FreshIds'
    <2>1. nextId[c] \in Nat /\ nextId'[c] \in Nat /\ DOMAIN meta[c] \in SUBSET Nat
      BY DEF TypeOK, IsMeta
    <2>2. \A i \in DOMAIN meta'[c] : i < nextId'[c]
      BY <1>1, <1>2, <1>3, <2>1 DEF FreshIds, Ready
    <2> QED  BY <1>1, <1>3, <1>4, <2>2 DEF FreshIds
  <1>8. KeptIsHeld'
    <2>1. CASE pc' = pc /\ op' = op
      <3>1. \A d \in Clients : Kept(d)' = Kept(d)
        BY <1>2, <2>1 DEF Kept
      <3> QED  BY <1>3, <3>1, KeptFrame
    <2>2. CASE k = Size[f] /\ StartSave(c, "insert", {f})
      <3>1. op'[c] = [kind |-> "insert", files |-> {f}]
        BY <2>2 DEF StartSave, TypeOK
      <3>2. Kept(c)' \subseteq Kept(c) \cup {f} /\ \A d \in Clients \ {c} : Kept(d)' = Kept(d)
        BY <1>2, <1>4, <3>1 DEF Kept
      <3>3. \A ch \in ChunksOf(f) : \E i \in Nat : Holds(c, i, ch)'
        BY <1>3, <2>2 DEF ChunksOf
      <3>4. ASSUME NEW d \in Clients, NEW g \in Kept(d)', NEW ch \in ChunksOf(g)
            PROVE  \E i \in Nat : Holds(d, i, ch)'
        <4>1. CASE g \in Kept(d)
          BY <1>3, <4>1 DEF KeptIsHeld
        <4>2. CASE g \notin Kept(d)
          BY <3>2, <3>3, <4>2
        <4> QED  BY <4>1, <4>2
      <3> QED  BY <3>4 DEF KeptIsHeld
    <2> QED  BY <1>1, <2>1, <2>2
  <1> QED  BY <1>5, <1>6, <1>7, <1>8

\* A deletion takes away only what it is asked to, and the next id it computes
\* anew is above what stays.
LEMMA DeleteMemory ==
    ASSUME MemoryInv, TypeOK', NEW c \in Clients, NEW files \in SUBSET Files,
           DeleteLocked(c, files)
    PROVE  MemoryInv'
  <1> USE DEF MemoryInv
  <1>1. /\ pc[c] = "free" /\ op[c] = NoOp
        /\ mine' = [mine EXCEPT ![c] = @ \ files]
    BY DEF DeleteLocked, OpOnlyInSave, Saving
  <1>2. \/ UNCHANGED <<mem, pc, op>>
        \/ UNCHANGED mem /\ StartSave(c, "delete", files \cap submitted)
        \/ Remove(c, files) /\ StartSave(c, "delete", files \cap submitted)
    BY DEF DeleteLocked
  <1>3. /\ pc'[c] \in Ready /\ (pc'[c] \notin Saving => op'[c] = NoOp)
        /\ op'[c].kind # "insert"
        /\ \A d \in Clients \ {c} : pc'[d] = pc[d] /\ op'[d] = op[d]
    BY <1>1, <1>2 DEF StartSave, TypeOK, Ready, Saving, NoOp
  <1>4. /\ \A d \in Clients \ {c} : /\ index'[d] = index[d] /\ meta'[d] = meta[d]
                                    /\ nextId'[d] = nextId[d] /\ mine'[d] = mine[d]
        /\ \A i \in DOMAIN meta'[c] : i < nextId'[c]
        /\ \A d \in Clients, i \in Nat : \A ch :
              Holds(d, i, ch) /\ ch.file \notin files => Holds(d, i, ch)'
    <2>1. \A d \in Clients \ {c} : mine'[d] = mine[d]
      BY <1>1 DEF TypeOK
    <2>2. CASE UNCHANGED mem
      BY <1>1, <2>1, <2>2 DEF mem, Holds, FreshIds, Ready
    <2>3. CASE Remove(c, files)
      BY <2>1, <2>3, RemoveHolds
    <2> QED  BY <1>2, <2>2, <2>3 DEF mem
  <1>5. NothingBeforeLoad'
    BY <1>3, <1>4 DEF NothingBeforeLoad
  <1>6. OpOnlyInSave'
    BY <1>3 DEF OpOnlyInSave
  <1>7. FreshIds'
    BY <1>3, <1>4 DEF FreshIds
  <1>8. KeptIsHeld'
    <2>1. /\ Kept(c)' \subseteq Kept(c) \ files
          /\ \A d \in Clients \ {c} : Kept(d)' = Kept(d)
      BY <1>1, <1>3, <1>4 DEF Kept, TypeOK
    <2>2. \A f \in Kept(c)' : \A ch \in ChunksOf(f) : ch.file \notin files
      BY <2>1 DEF ChunksOf
    <2>3. \A d \in Clients \ {c} : \A i \in Nat : \A ch : Holds(d, i, ch) => Holds(d, i, ch)'
      BY <1>4 DEF Holds
    <2> QED  BY <1>4, <2>1, <2>2, <2>3, KeptFrame
  <1> QED  BY <1>5, <1>6, <1>7, <1>8

LEMMA NextMemory == MemoryInv /\ [Next]_vars => MemoryInv'
  <1> SUFFICES ASSUME MemoryInv, [Next]_vars PROVE MemoryInv'
    OBVIOUS
  <1> USE ConstantsAssumption
  <1>1. TypeOK'
    BY NextType DEF MemoryInv
  <1>2. ASSUME NEW c \in Clients, Load(c) PROVE MemoryInv'
    BY <1>1, <1>2, LoadMemory
  <1>3. ASSUME NEW c \in Clients, Save(c) PROVE MemoryInv'
    BY <1>1, <1>3, SaveMemory
  <1>4. ASSUME NEW c \in Clients, NEW f \in Files, InsertFiles(c, f) \/ InsertFails(c, f)
        PROVE  MemoryInv'
    BY <1>1, <1>4, InsertMemory
  <1>5. ASSUME NEW c \in Clients, NEW files \in SUBSET Files, DeleteFiles(c, files)
        PROVE  MemoryInv'
    BY <1>1, <1>5, DeleteMemory DEF DeleteFiles
  <1>6. ASSUME NEW c \in Clients, NEW k \in Kbs, CollectPartition(c, k) PROVE MemoryInv'
    BY <1>1, <1>6 DEF CollectPartition, mem, hist, MemoryInv, NothingBeforeLoad, OpOnlyInSave,
                      FreshIds, KeptIsHeld, Kept, Holds
  <1>7. ASSUME NEW c \in Clients, DeletePartition(c) PROVE MemoryInv'
    BY <1>1, <1>7, DeleteMemory DEF DeletePartition, MemoryInv, TypeOK
  <1>8. ASSUME Crash PROVE MemoryInv'
    BY <1>1, <1>8 DEF Crash, MemoryInv, NothingBeforeLoad, OpOnlyInSave, FreshIds, KeptIsHeld,
                      Kept, Ready, Saving, NoOp
  <1>9. ASSUME UNCHANGED vars PROVE MemoryInv'
    BY <1>1, <1>9 DEF vars, mem, ctl, hist, MemoryInv, NothingBeforeLoad, OpOnlyInSave,
                      FreshIds, KeptIsHeld, Kept, Holds
  <1> QED
    BY <1>2, <1>3, <1>4, <1>5, <1>6, <1>7, <1>8, <1>9 DEF Next

\* A file that insert_files acknowledged stays searchable in the client that
\* acknowledged it, whatever any number of clients insert, delete, save, fail
\* to save and reload around it.
THEOREM AckedStaySearchable == Spec => []AckedSearchable
  <1>1. MemoryInv => AckedSearchable
    BY DEF MemoryInv, KeptIsHeld, Kept, Holds, AckedSearchable, Searchable
  <1> QED  BY <1>1, InitMemory, NextMemory, PTL DEF Spec

-----------------------------------------------------------------------------
(* What a single client acknowledged survives a restart.                   *)

\* A load of the files as they are would find chunk ch under id i.
DiskHolds(i, ch) ==
    /\ disk.index # Missing /\ disk.meta # Missing
    /\ i \in DOMAIN disk.meta /\ disk.meta[i] = ch
    /\ [id |-> i, chunk |-> ch] \in disk.index

\* A save in progress has written what the memory of client c holds.
SaveMirrorsMemory(c) ==
    /\ pc[c] \in {"writeMeta", "swapIndex"} => disk.indexTmp = index[c]
    /\ pc[c] \in {"swapIndex", "swapMeta"} => disk.metaTmp = meta[c]
    /\ pc[c] = "swapMeta" => disk.index = index[c] /\ disk.index # Missing

\* Every chunk of an acknowledged file is on disk and, as soon as it is
\* loaded, in memory, everywhere under the same id: whatever the order in
\* which the two files are replaced, the pair agrees on it.
AckedUnderOneId(c) ==
    \A f \in acked \ deleted : \A ch \in ChunksOf(f) : \E i \in Nat :
        /\ DiskHolds(i, ch)
        /\ pc[c] = "loadMeta" => [id |-> i, chunk |-> ch] \in index[c]
        /\ pc[c] \in Ready => Holds(c, i, ch)

\* The inductive invariant of a client that no other shares its files with.
DurableInv(c) == MemoryInv /\ SaveMirrorsMemory(c) /\ AckedUnderOneId(c)

LEMMA InitDurable == ASSUME NEW c \in Clients PROVE Init => DurableInv(c)
  BY InitMemory DEF Init, DurableInv, SaveMirrorsMemory, AckedUnderOneId

\* What is on disk and in memory under one id stays so after a step that
\* acknowledges nothing, keeps the disk and loses nothing undeleted.
LEMMA AckedFrame ==
    ASSUME NEW c \in Clients, AckedUnderOneId(c),
           acked' \ deleted' \subseteq acked \ deleted,
           \A f \in acked' \ deleted' : \A ch \in ChunksOf(f) : \A i \in Nat :
              /\ DiskHolds(i, ch)
              /\ pc[c] = "loadMeta" => [id |-> i, chunk |-> ch] \in index[c]
              /\ pc[c] \in Ready => Holds(c, i, ch)
              => /\ DiskHolds(i, ch)'
                 /\ pc'[c] = "loadMeta" => [id |-> i, chunk |-> ch] \in index'[c]
                 /\ pc'[c] \in Ready => Holds(c, i, ch)'
    PROVE  AckedUnderOneId(c)'
  BY DEF AckedUnderOneId

\* A load copies the disk, or finds a file missing and then nothing was
\* acknowledged: unreadable files are what "load" faults are.
LEMMA LoadDurable ==
    ASSUME NEW c \in Clients, DurableInv(c), MemoryInv', Load(c), "load" \notin Faults
    PROVE  DurableInv(c)'
  <1> USE DEF DurableInv, MemoryInv
  <1>1. acked' = acked /\ deleted' = deleted /\ pc[c] \notin Ready
    BY DEF Load, Construct, LoadIndex, LoadMeta, LoadFails, hist, Ready, Saving
  <1>2. SaveMirrorsMemory(c)'
    BY DEF Load, Construct, LoadIndex, LoadMeta, LoadFails, CreateNew, TypeOK,
           SaveMirrorsMemory
  <1>3. CASE disk.index = Missing \/ disk.meta = Missing
    <2>1. \A f \in acked \ deleted : ChunksOf(f) = {}
      BY <1>3 DEF AckedUnderOneId, DiskHolds
    <2> QED  BY <1>1, <1>2, <2>1 DEF AckedUnderOneId
  <1>4. CASE disk.index # Missing /\ disk.meta # Missing
    <2>1. /\ disk'.index = disk.index /\ disk'.meta = disk.meta
          /\ Construct(c) \/ LoadIndex(c) \/ LoadMeta(c)
      BY <1>4 DEF Load, Construct, LoadIndex, LoadMeta, LoadFails, NoTmp, TypeOK
    <2>2. /\ pc'[c] = "loadMeta" => index'[c] = disk.index
          /\ pc'[c] \in Ready => /\ pc[c] = "loadMeta"
                                 /\ index' = index /\ meta'[c] = disk.meta
      BY <1>4, <2>1 DEF Construct, LoadIndex, LoadMeta, TypeOK, Ready, Saving
    <2>3. AckedUnderOneId(c)'
      BY <1>1, <2>1, <2>2, AckedFrame DEF DiskHolds, Holds
    <2> QED  BY <1>2, <2>3
  <1> QED  BY <1>3, <1>4

\* A save replaces the index, then the dict, by what memory holds under the
\* ids they already have on disk.
LEMMA SaveDurable ==
    ASSUME NEW c \in Clients, DurableInv(c), MemoryInv', Save(c)
    PROVE  DurableInv(c)'
  <1> USE DEF DurableInv, MemoryInv
  <1>1. /\ pc[c] \in Saving /\ pc[c] \in Ready /\ pc'[c] \in Ready /\ pc'[c] # "loadMeta"
        /\ index' = index /\ meta' = meta
        /\ deleted' = deleted
    BY DEF Save, WriteIndexTmp, WriteMetaTmp, SwapIndex, SwapMeta, SaveRaises, TypeOK, mem,
           hist, Ready, Saving
  <1>2. \A i \in Nat : \A ch : Holds(c, i, ch) => Holds(c, i, ch)'
    BY <1>1 DEF Holds
  <1>3. SaveMirrorsMemory(c)'
    <2>1. CASE WriteIndexTmp(c)
      BY <1>1, <2>1 DEF WriteIndexTmp, TypeOK, SaveMirrorsMemory
    <2>2. CASE WriteMetaTmp(c)
      BY <1>1, <2>2 DEF WriteMetaTmp, TypeOK, SaveMirrorsMemory
    <2>3. CASE SwapIndex(c)
      BY <1>1, <2>3 DEF SwapIndex, TypeOK, SaveMirrorsMemory
    <2>4. CASE SwapMeta(c) \/ SaveRaises(c)
      BY <2>4 DEF SwapMeta, SaveRaises, TypeOK, SaveMirrorsMemory
    <2> QED  BY <2>1, <2>2, <2>3, <2>4 DEF Save
  <1>4. CASE WriteIndexTmp(c) \/ WriteMetaTmp(c) \/ SaveRaises(c)
    <2>1. disk'.index = disk.index /\ disk'.meta = disk.meta /\ acked' = acked
      BY <1>4 DEF WriteIndexTmp, WriteMetaTmp, SaveRaises, TypeOK, hist
    <2>2. \A i \in Nat : \A ch : DiskHolds(i, ch) => DiskHolds(i, ch)'
      BY <2>1 DEF DiskHolds
    <2>3. AckedUnderOneId(c)'
      BY <1>1, <1>2, <2>1, <2>2, AckedFrame
    <2> QED  BY <1>3, <2>3
  <1>5. CASE SwapIndex(c)
    <2>1. /\ disk'.index = index[c] /\ disk'.index # Missing /\ disk'.meta = disk.meta
          /\ acked' = acked
      BY <1>5 DEF SwapIndex, TypeOK, hist, SaveMirrorsMemory
    <2>2. \A i \in Nat : \A ch : DiskHolds(i, ch) /\ Holds(c, i, ch) => DiskHolds(i, ch)'
      BY <2>1 DEF DiskHolds, Holds
    <2>3. AckedUnderOneId(c)'
      BY <1>1, <1>2, <2>1, <2>2, AckedFrame
    <2> QED  BY <1>3, <2>3
  <1>6. CASE SwapMeta(c)
    <2>1. /\ disk'.index = index[c] /\ disk'.index # Missing
          /\ disk'.meta = meta[c] /\ disk'.meta # Missing
      BY <1>6 DEF SwapMeta, TypeOK, SaveMirrorsMemory
    <2>2. \A i \in Nat : \A ch : Holds(c, i, ch) => DiskHolds(i, ch)'
      BY <2>1 DEF DiskHolds, Holds
    <2>3. acked' \subseteq acked \cup Kept(c)
      BY <1>6 DEF SwapMeta, Kept
    <2>4. \A f \in acked' \ deleted' : \A ch \in ChunksOf(f) : \E i \in Nat : Holds(c, i, ch)
      BY <1>1, <2>3 DEF KeptIsHeld, AckedUnderOneId
    <2>5. AckedUnderOneId(c)'
      BY <1>1, <1>2, <2>2, <2>4 DEF AckedUnderOneId
    <2> QED  BY <1>3, <2>5
  <1> QED  BY <1>4, <1>5, <1>6 DEF Save

\* Insertions add to memory only, under new ids.
LEMMA InsertDurable ==
    ASSUME NEW c \in Clients, DurableInv(c), MemoryInv', ConstantsAssumption,
           NEW f \in Files, InsertFiles(c, f) \/ InsertFails(c, f)
    PROVE  DurableInv(c)'
  <1> USE DEF DurableInv
  <1>1. PICK k \in 0 .. Size[f] : AddChunks(c, f, k)
    <2>1. Size[f] \in Nat
      OBVIOUS
    <2> QED  BY <2>1 DEF InsertFiles, InsertFails
  <1>2. k \in Nat /\ k <= Size[f] /\ pc[c] = "free"
    BY DEF InsertFiles, InsertFails
  <1>3. \A i \in Nat : \A ch : Holds(c, i, ch) => Holds(c, i, ch)'
    BY <1>1, <1>2, AddChunksHolds
  <1>4. /\ disk' = disk /\ acked' = acked /\ deleted' = deleted
        /\ pc'[c] \in {"free", "writeIndex"}
    BY <1>2 DEF InsertFiles, InsertFails, StartSave, ctl, MemoryInv, TypeOK
  <1>5. SaveMirrorsMemory(c)'
    BY <1>4 DEF SaveMirrorsMemory
  <1>6. AckedUnderOneId(c)'
    BY <1>2, <1>3, <1>4, AckedFrame DEF DiskHolds, Ready, Saving
  <1> QED  BY <1>5, <1>6

\* Deletions take from memory only what is no longer promised.
LEMMA DeleteDurable ==
    ASSUME NEW c \in Clients, DurableInv(c), MemoryInv',
           NEW files \in SUBSET Files, DeleteLocked(c, files)
    PROVE  DurableInv(c)'
  <1> USE DEF DurableInv
  <1>1. /\ disk' = disk /\ acked' = acked /\ deleted' = deleted \cup files
        /\ pc[c] = "free" /\ pc'[c] \in {"free", "writeIndex"}
    BY DEF DeleteLocked, StartSave, MemoryInv, TypeOK
  <1>2. UNCHANGED mem \/ Remove(c, files)
    BY DEF DeleteLocked, mem
  <1>3. \A i \in Nat : \A ch : Holds(c, i, ch) /\ ch.file \notin files => Holds(c, i, ch)'
    <2>1. CASE UNCHANGED mem
      BY <2>1 DEF mem, Holds
    <2>2. CASE Remove(c, files)
      BY <2>2, RemoveHolds DEF MemoryInv
    <2> QED  BY <1>2, <2>1, <2>2
  <1>4. \A f \in acked' \ deleted' : \A ch \in ChunksOf(f) : ch.file \notin files
    BY <1>1 DEF ChunksOf
  <1>5. SaveMirrorsMemory(c)'
    BY <1>1 DEF SaveMirrorsMemory
  <1>6. AckedUnderOneId(c)'
    BY <1>1, <1>3, <1>4, AckedFrame DEF DiskHolds, Ready, Saving
  <1> QED  BY <1>5, <1>6

LEMMA NextDurable ==
    ASSUME NEW c \in Clients, Clients = {c}, "load" \notin Faults
    PROVE  DurableInv(c) /\ [Next]_vars => DurableInv(c)'
  <1> SUFFICES ASSUME DurableInv(c), [Next]_vars PROVE DurableInv(c)'
    OBVIOUS
  <1> USE ConstantsAssumption
  <1>1. MemoryInv'
    BY NextMemory DEF DurableInv
  <1>2. CASE Load(c)
    BY <1>1, <1>2, LoadDurable
  <1>3. CASE Save(c)
    BY <1>1, <1>3, SaveDurable
  <1>4. ASSUME NEW f \in Files, InsertFiles(c, f) \/ InsertFails(c, f) PROVE DurableInv(c)'
    BY <1>1, <1>4, InsertDurable
  <1>5. ASSUME NEW files \in SUBSET Files, DeleteFiles(c, files) PROVE DurableInv(c)'
    BY <1>1, <1>5, DeleteDurable DEF DeleteFiles
  <1>6. ASSUME NEW k \in Kbs, CollectPartition(c, k) PROVE DurableInv(c)'
    <2>1. /\ index' = index /\ meta' = meta /\ pc' = pc /\ disk' = disk
          /\ acked' = acked /\ deleted' = deleted
      BY <1>6 DEF CollectPartition, mem, hist
    <2>2. SaveMirrorsMemory(c)'
      BY <2>1 DEF DurableInv, SaveMirrorsMemory
    <2>3. AckedUnderOneId(c)'
      BY <2>1 DEF DurableInv, AckedUnderOneId, DiskHolds, Holds
    <2> QED  BY <1>1, <2>2, <2>3 DEF DurableInv
  <1>7. CASE DeletePartition(c)
    <2>1. sweep[c] \in SUBSET Files
      BY DEF DurableInv, MemoryInv, TypeOK
    <2>2. DeleteLocked(c, sweep[c])
      BY <1>7 DEF DeletePartition
    <2> QED  BY <1>1, <2>1, <2>2, DeleteDurable
  <1>8. CASE Crash
    <2>1. /\ pc'[c] = "absent" /\ disk' = disk /\ acked' = acked /\ deleted' = deleted
      BY <1>8 DEF Crash
    <2>2. SaveMirrorsMemory(c)'
      BY <2>1 DEF SaveMirrorsMemory
    <2>3. AckedUnderOneId(c)'
      BY <2>1, AckedFrame DEF DurableInv, DiskHolds, Ready, Saving
    <2> QED  BY <1>1, <2>2, <2>3 DEF DurableInv
  <1>9. CASE UNCHANGED vars
    BY <1>1, <1>9 DEF vars, mem, ctl, hist, DurableInv, SaveMirrorsMemory, AckedUnderOneId,
                      DiskHolds, Holds
  <1> QED
    BY <1>2, <1>3, <1>4, <1>5, <1>6, <1>7, <1>8, <1>9 DEF Next

\* With one client for the user's files, and files that can be read, a file
\* that insert_files acknowledged and nobody deleted is recovered by a restart
\* at any moment, between the two renames of a save included.
THEOREM SingleClientDurable ==
    ASSUME NEW c \in Clients, Clients = {c}, "load" \notin Faults
    PROVE  Spec => []AckedDurable
  <1>1. DurableInv(c) => AckedDurable
    BY DEF DurableInv, AckedUnderOneId, DiskHolds, AckedDurable, Recoverable
  <1>2. Init => DurableInv(c)
    BY InitDurable
  <1>3. DurableInv(c) /\ [Next]_vars => DurableInv(c)'
    BY NextDurable
  <1> QED  BY <1>1, <1>2, <1>3, PTL DEF Spec

-----------------------------------------------------------------------------
(* A user with a single client: it implements the abstract vector store,   *)
(* what was deleted stays gone, and until a restart every vector answers   *)
(* with the text it embeds.                                                *)

\* A load finds both files, and has read the one it is past.
LoadMirrorsDisk(c) ==
    /\ disk.meta # Missing => disk.index # Missing
    /\ pc[c] \in Loading => disk.meta # Missing
    /\ pc[c] = "loadMeta" => index[c] = disk.index

\* What is in a dict was submitted.
DictsSubmitted(c) ==
    /\ \A i \in DOMAIN meta[c] : meta[c][i].file \in submitted
    /\ disk.meta # Missing => \A i \in DOMAIN disk.meta : disk.meta[i].file \in submitted

\* A chunk has one id, in memory and on disk the same.
OneIdEach(c) ==
    /\ \A i, j \in DOMAIN meta[c] : meta[c][i] = meta[c][j] => i = j
    /\ disk.meta # Missing =>
          /\ \A i, j \in DOMAIN disk.meta : disk.meta[i] = disk.meta[j] => i = j
          /\ \A i \in DOMAIN meta[c], j \in DOMAIN disk.meta : meta[c][i] = disk.meta[j] => i = j

\* An entry on disk whose vector memory has is an entry of memory, and its
\* vector is on disk.
PairsAgree(c) ==
    disk.meta # Missing /\ pc[c] \in Ready =>
        \A i \in DOMAIN disk.meta :
            [id |-> i, chunk |-> disk.meta[i]] \in index[c] =>
                /\ i \in DOMAIN meta[c] /\ meta[c][i] = disk.meta[i]
                /\ [id |-> i, chunk |-> disk.meta[i]] \in disk.index

PairInv(c) ==
    /\ DurableInv(c)
    /\ LoadMirrorsDisk(c) /\ DictsSubmitted(c) /\ OneIdEach(c) /\ PairsAgree(c)

\* A deletion in progress has left nothing in memory, a deletion that returned
\* nothing on disk either; between operations the disk has no file that memory
\* has not.
Forgotten(c) ==
    /\ gone \subseteq submitted
    /\ op[c].kind = "none" => op[c].files = {}
    /\ op[c].kind = "delete" =>
          /\ op[c].files \subseteq submitted
          /\ \A i \in DOMAIN meta[c] : meta[c][i].file \notin op[c].files
    /\ ~saveFailed =>
          /\ \A i \in DOMAIN meta[c] : meta[c][i].file \notin gone
          /\ disk.meta # Missing => \A i \in DOMAIN disk.meta : disk.meta[i].file \notin gone
          /\ disk.meta # Missing /\ pc[c] = "free" =>
                \A i \in DOMAIN disk.meta : \E j \in DOMAIN meta[c] :
                    meta[c][j].file = disk.meta[i].file

\* Before the first restart there is nothing to load.
Attributed(c) ==
    crashes = 0 =>
        /\ pc[c] \notin Loading
        /\ pc[c] = "absent" => disk.index = Missing /\ index[c] = {}
        /\ \A i \in DOMAIN meta[c] : [id |-> i, chunk |-> meta[c][i]] \in index[c]
        /\ \A v \in index[c] : v.id \in DOMAIN meta[c] /\ meta[c][v.id] = v.chunk

-----------------------------------------------------------------------------
(* What insertions and deletions make of memory, exactly.                  *)

\* Chunks enter memory under the ids from the next one on, all unused so far.
LEMMA AddChunksExact ==
    ASSUME MemoryInv, ConstantsAssumption,
           NEW c \in Clients, NEW f \in Files, NEW k \in Nat, k <= Size[f],
           pc[c] = "free", AddChunks(c, f, k)
    PROVE  LET new == nextId[c] .. nextId[c] + k - 1
               ch(i) == [file |-> f, part |-> i - nextId[c]]
           IN  /\ DOMAIN meta'[c] = DOMAIN meta[c] \cup new
               /\ \A i \in DOMAIN meta[c] : i \notin new /\ meta'[c][i] = meta[c][i]
               /\ \A i \in new : meta'[c][i] = ch(i)
               /\ index'[c] = index[c] \cup {[id |-> i, chunk |-> ch(i)] : i \in new}
  <1> DEFINE e == Entries(c, f, k)
             new == nextId[c] .. nextId[c] + k - 1
             ch(i) == [file |-> f, part |-> i - nextId[c]]
  <1>1. TypeOK /\ nextId[c] \in Nat
    BY DEF MemoryInv, TypeOK
  <1>2. DOMAIN e = new /\ \A i \in new : e[i] = ch(i)
    BY <1>1, EntriesFacts
  <1>3. /\ index' = [index EXCEPT ![c] = @ \cup VectorsOf(e)]
        /\ meta' = [meta EXCEPT ![c] = Updated(@, e)]
    BY DEF AddChunks
  <1>4. DOMAIN meta[c] \subseteq Nat /\ \A i \in DOMAIN meta[c] : i < nextId[c]
    BY <1>1 DEF MemoryInv, FreshIds, Ready, TypeOK, IsMeta
  <1>5. \A i \in DOMAIN meta[c] : i \notin new
    BY <1>1, <1>4
  <1> HIDE DEF e
  <1>6. meta'[c] = Updated(meta[c], e) /\ index'[c] = index[c] \cup VectorsOf(e)
    BY <1>1, <1>3 DEF TypeOK
  <1>7. /\ DOMAIN meta'[c] = DOMAIN meta[c] \cup new
        /\ \A i \in DOMAIN meta[c] : meta'[c][i] = meta[c][i]
        /\ \A i \in new : meta'[c][i] = ch(i)
    <2> HIDE DEF new, ch
    <2> QED  BY <1>2, <1>5, <1>6 DEF Updated
  <1>8. VectorsOf(e) = {[id |-> i, chunk |-> ch(i)] : i \in new}
    <2> HIDE DEF new, ch
    <2> QED  BY <1>2 DEF VectorsOf
  <1> QED  BY <1>5, <1>6, <1>7, <1>8

\* The dict keeps exactly the entries of other files, the index of their vectors
\* all, and of the vectors it loses none has an id the dict keeps.
LEMMA RemoveExact ==
    ASSUME TypeOK, NEW c \in Clients, NEW files \in SUBSET Files, Remove(c, files)
    PROVE  /\ DOMAIN meta'[c] = {i \in DOMAIN meta[c] : meta[c][i].file \notin files}
           /\ \A i \in DOMAIN meta'[c] : meta'[c][i] = meta[c][i]
           /\ index'[c] \subseteq index[c]
           /\ \A v \in index[c] :
                 /\ v.id \in DOMAIN meta'[c] => v \in index'[c]
                 /\ v.id \in DOMAIN meta[c] /\ v \in index'[c] => v.id \in DOMAIN meta'[c]
  <1> DEFINE kept == DOMAIN meta[c] \ IdsOf(c, files)
  <1>1. /\ meta'[c] = [i \in kept |-> meta[c][i]]
        /\ index'[c] = IF kept = {} THEN {} ELSE {v \in index[c] : v.id \notin IdsOf(c, files)}
    BY DEF Remove, TypeOK
  <1>2. kept = {i \in DOMAIN meta[c] : meta[c][i].file \notin files}
    BY DEF IdsOf
  <1> HIDE DEF kept
  <1>3. DOMAIN meta'[c] = kept /\ \A i \in kept : meta'[c][i] = meta[c][i]
    BY <1>1
  <1>4. \A i \in DOMAIN meta[c] : i \in kept <=> i \notin IdsOf(c, files)
    BY DEF kept
  <1>5. \A i \in kept : i \in DOMAIN meta[c]
    BY DEF kept
  <1>6. /\ index'[c] \subseteq index[c]
        /\ \A v \in index[c] :
              /\ v.id \in kept => v \in index'[c]
              /\ v.id \in DOMAIN meta[c] /\ v \in index'[c] => v.id \in kept
    BY <1>1, <1>4, <1>5
  <1> QED  BY <1>2, <1>3, <1>6

\* What an insertion, complete or not, does besides.
LEMMA InsertStep ==
    ASSUME TypeOK, ConstantsAssumption, NEW c \in Clients, NEW f \in Files,
           InsertFiles(c, f) \/ InsertFails(c, f)
    PROVE  /\ pc[c] = "free" /\ f \notin submitted /\ submitted' = submitted \cup {f}
           /\ UNCHANGED <<disk, acked, deleted, gone, saveFailed, crashes>>
           /\ \E k \in 0 .. Size[f] : AddChunks(c, f, k)
           /\ \/ pc' = pc /\ op' = op
              \/ /\ pc'[c] = "writeIndex"
                 /\ op'[c] = [kind |-> "insert", files |-> {f}]
  <1>1. Size[f] \in Nat
    OBVIOUS
  <1>2. CASE InsertFiles(c, f)
    <2>1. Size[f] \in 0 .. Size[f]
      BY <1>1
    <2>2. pc'[c] = "writeIndex" /\ op'[c] = [kind |-> "insert", files |-> {f}]
      BY <1>2 DEF InsertFiles, StartSave, TypeOK
    <2> QED  BY <1>2, <2>1, <2>2 DEF InsertFiles
  <1>3. CASE InsertFails(c, f)
    <2>1. \E k \in 0 .. Size[f] : AddChunks(c, f, k)
      BY <1>1, <1>3 DEF InsertFails
    <2> QED  BY <1>3, <2>1 DEF InsertFails, ctl
  <1> QED  BY <1>2, <1>3

\* What a deletion leaves in memory, whether it had anything to remove or not.
LEMMA DeleteStep ==
    ASSUME MemoryInv, NEW c \in Clients, NEW files \in SUBSET Files, DeleteLocked(c, files)
    PROVE  /\ pc[c] = "free" /\ op[c] = NoOp /\ deleted' = deleted \cup files
           /\ UNCHANGED <<disk, submitted, acked, saveFailed, crashes>>
           /\ \/ pc' = pc /\ op' = op /\ DOMAIN meta[c] = {}
                 /\ gone' = gone \cup (files \cap submitted)
              \/ /\ pc'[c] = "writeIndex" /\ gone' = gone
                 /\ op'[c] = [kind |-> "delete", files |-> files \cap submitted]
           /\ DOMAIN meta'[c] = {i \in DOMAIN meta[c] : meta[c][i].file \notin files}
           /\ \A i \in DOMAIN meta'[c] : meta'[c][i] = meta[c][i]
           /\ index'[c] \subseteq index[c]
           /\ \A v \in index[c] :
                 /\ v.id \in DOMAIN meta'[c] => v \in index'[c]
                 /\ v.id \in DOMAIN meta[c] /\ v \in index'[c] => v.id \in DOMAIN meta'[c]
  <1>1. pc[c] = "free" /\ op[c] = NoOp /\ deleted' = deleted \cup files
        /\ UNCHANGED <<disk, submitted, acked, saveFailed, crashes>>
    BY DEF DeleteLocked, MemoryInv, OpOnlyInSave, Saving
  <1>2. CASE DOMAIN meta[c] = {}
    BY <1>1, <1>2 DEF DeleteLocked, mem
  <1>3. CASE DOMAIN meta[c] # {}
    <2>1. pc'[c] = "writeIndex" /\ gone' = gone
          /\ op'[c] = [kind |-> "delete", files |-> files \cap submitted]
      BY <1>3 DEF DeleteLocked, StartSave, MemoryInv, TypeOK
    <2>2. CASE IdsOf(c, files) = {}
      <3>1. UNCHANGED mem
        BY <1>3, <2>2 DEF DeleteLocked
      <3>2. DOMAIN meta[c] = {i \in DOMAIN meta[c] : meta[c][i].file \notin files}
        BY <2>2 DEF IdsOf
      <3> QED  BY <1>1, <2>1, <3>1, <3>2 DEF mem
    <2>3. CASE IdsOf(c, files) # {}
      <3>1. Remove(c, files)
        BY <1>3, <2>3 DEF DeleteLocked
      <3> QED  BY <1>1, <2>1, <3>1, RemoveExact DEF MemoryInv
    <2> QED  BY <2>2, <2>3
  <1> QED  BY <1>2, <1>3

-----------------------------------------------------------------------------
(* Memory and disk agree on what they both have.                           *)

LEMMA PairLoad ==
    ASSUME NEW c \in Clients, PairInv(c), DurableInv(c)', Load(c), "load" \notin Faults
    PROVE  PairInv(c)'
  <1> USE DEF PairInv, DurableInv, MemoryInv
  <1>1. /\ pc[c] \notin Ready /\ meta[c] = EmptyMeta /\ DOMAIN meta[c] = {}
        /\ submitted' = submitted
    BY DEF Load, Construct, LoadIndex, LoadMeta, LoadFails, hist, Ready, Saving,
           NothingBeforeLoad, EmptyMeta
  <1>2. CASE disk'.index = Missing /\ disk'.meta = Missing /\ meta' = meta /\ pc'[c] = "free"
    BY <1>1, <1>2 DEF LoadMirrorsDisk, DictsSubmitted, OneIdEach, PairsAgree, Loading
  <1>3. CASE /\ disk'.index = disk.index /\ disk'.meta = disk.meta /\ meta' = meta
             /\ disk.index # Missing /\ disk.meta # Missing
             /\ pc'[c] = "loadIndex" \/ (pc'[c] = "loadMeta" /\ index'[c] = disk.index)
    BY <1>1, <1>3 DEF LoadMirrorsDisk, DictsSubmitted, OneIdEach, PairsAgree, Loading, Ready, Saving
  <1>4. CASE /\ disk' = disk /\ disk.meta # Missing /\ meta'[c] = disk.meta
             /\ index' = index /\ pc[c] = "loadMeta" /\ pc'[c] = "free"
    BY <1>1, <1>4 DEF LoadMirrorsDisk, DictsSubmitted, OneIdEach, PairsAgree, Loading, Ready, Saving
  <1>5. CASE Construct(c)
    BY <1>2, <1>3, <1>5, ZenonT(60) DEF Construct, NoTmp, BackedUp, CreateNew, mem, TypeOK
  <1>6. CASE LoadIndex(c)
    BY <1>3, <1>6 DEF LoadIndex, TypeOK, LoadMirrorsDisk, Loading
  <1>7. CASE LoadMeta(c)
    BY <1>4, <1>7 DEF LoadMeta, TypeOK
  <1>8. ~LoadFails(c)
    BY DEF LoadFails, LoadMirrorsDisk, Loading
  <1> QED  BY <1>5, <1>6, <1>7, <1>8 DEF Load

LEMMA PairSave ==
    ASSUME NEW c \in Clients, PairInv(c), DurableInv(c)', Save(c)
    PROVE  PairInv(c)'
  <1> USE DEF PairInv, DurableInv, MemoryInv
  <1>1. /\ pc[c] \in Ready /\ pc'[c] \in Ready /\ pc'[c] \notin Loading
        /\ index' = index /\ meta' = meta /\ submitted' = submitted
    BY DEF Save, WriteIndexTmp, WriteMetaTmp, SwapIndex, SwapMeta, SaveRaises, TypeOK, mem,
           hist, Ready, Saving, Loading
  <1>2. CASE disk'.index = disk.index /\ disk'.meta = disk.meta
    BY <1>1, <1>2 DEF LoadMirrorsDisk, DictsSubmitted, OneIdEach, PairsAgree, Loading
  <1>3. CASE disk'.index = index[c] /\ disk'.index # Missing /\ disk'.meta = disk.meta
    BY <1>1, <1>3 DEF LoadMirrorsDisk, DictsSubmitted, OneIdEach, PairsAgree, Loading
  <1>4. CASE disk'.index = index[c] /\ disk'.index # Missing /\ disk'.meta = meta[c]
    BY <1>1, <1>4 DEF LoadMirrorsDisk, DictsSubmitted, OneIdEach, PairsAgree, Loading
  <1>5. CASE WriteIndexTmp(c) \/ WriteMetaTmp(c) \/ SaveRaises(c)
    BY <1>2, <1>5 DEF WriteIndexTmp, WriteMetaTmp, SaveRaises, TypeOK
  <1>6. CASE SwapIndex(c)
    BY <1>3, <1>6 DEF SwapIndex, TypeOK, SaveMirrorsMemory
  <1>7. CASE SwapMeta(c)
    BY <1>4, <1>7 DEF SwapMeta, TypeOK, SaveMirrorsMemory
  <1> QED  BY <1>5, <1>6, <1>7 DEF Save

LEMMA PairInsert ==
    ASSUME NEW c \in Clients, PairInv(c), DurableInv(c)', ConstantsAssumption,
           NEW f \in Files, InsertFiles(c, f) \/ InsertFails(c, f)
    PROVE  PairInv(c)'
  <1> USE DEF PairInv, DurableInv, MemoryInv
  <1>1. /\ pc[c] = "free" /\ f \notin submitted /\ submitted' = submitted \cup {f}
        /\ disk' = disk /\ pc'[c] \in {"free", "writeIndex"}
    BY InsertStep
  <1>2. PICK k \in 0 .. Size[f] : AddChunks(c, f, k)
    BY InsertStep
  <1> DEFINE new == nextId[c] .. nextId[c] + k - 1
             ch(i) == [file |-> f, part |-> i - nextId[c]]
  <1>3. k \in Nat /\ k <= Size[f] /\ nextId[c] \in Nat
    BY DEF TypeOK
  <1>4. /\ DOMAIN meta'[c] = DOMAIN meta[c] \cup new
        /\ \A i \in DOMAIN meta[c] : i \notin new /\ meta'[c][i] = meta[c][i]
        /\ \A i \in new : meta'[c][i] = ch(i)
        /\ index'[c] = index[c] \cup {[id |-> i, chunk |-> ch(i)] : i \in new}
    BY <1>1, <1>2, <1>3, AddChunksExact
  <1>5. \A i \in new : ch(i).file = f
    OBVIOUS
  <1>6. \A i, j \in new : ch(i) = ch(j) => i = j
    BY <1>3
  <1> HIDE DEF new, ch
  <1>7. DictsSubmitted(c)'
    BY <1>1, <1>4, <1>5 DEF DictsSubmitted
  <1>8. OneIdEach(c)'
    <2>1. \A i, j \in DOMAIN meta'[c] : meta'[c][i] = meta'[c][j] => i = j
      BY <1>1, <1>4, <1>5, <1>6 DEF OneIdEach, DictsSubmitted
    <2>2. disk.meta # Missing =>
              \A i \in DOMAIN meta'[c], j \in DOMAIN disk.meta :
                  meta'[c][i] = disk.meta[j] => i = j
      BY <1>1, <1>4, <1>5 DEF OneIdEach, DictsSubmitted
    <2> QED  BY <1>1, <2>1, <2>2 DEF OneIdEach
  <1>9. PairsAgree(c)'
    <2> SUFFICES ASSUME disk.meta # Missing, NEW i \in DOMAIN disk.meta,
                        [id |-> i, chunk |-> disk.meta[i]] \in index'[c]
                 PROVE  /\ i \in DOMAIN meta'[c] /\ meta'[c][i] = disk.meta[i]
                        /\ [id |-> i, chunk |-> disk.meta[i]] \in disk.index
      BY <1>1 DEF PairsAgree
    <2>1. [id |-> i, chunk |-> disk.meta[i]] \in index[c]
      <3>1. disk.meta[i].file # f
        BY <1>1 DEF DictsSubmitted
      <3>2. \A j \in new : [id |-> j, chunk |-> ch(j)] # [id |-> i, chunk |-> disk.meta[i]]
        BY <1>5, <3>1
      <3> QED  BY <1>4, <3>2
    <2> QED  BY <1>1, <1>4, <2>1 DEF PairsAgree, Ready
  <1>10. LoadMirrorsDisk(c)'
    BY <1>1 DEF LoadMirrorsDisk, Loading
  <1> QED  BY <1>7, <1>8, <1>9, <1>10

LEMMA PairDelete ==
    ASSUME NEW c \in Clients, PairInv(c), DurableInv(c)',
           NEW files \in SUBSET Files, DeleteLocked(c, files)
    PROVE  PairInv(c)'
  <1> USE DEF PairInv, DurableInv
  <1>1. /\ pc[c] = "free" /\ (pc' = pc \/ pc'[c] = "writeIndex")
        /\ disk' = disk /\ submitted' = submitted
        /\ DOMAIN meta'[c] = {i \in DOMAIN meta[c] : meta[c][i].file \notin files}
        /\ \A i \in DOMAIN meta'[c] : meta'[c][i] = meta[c][i]
        /\ index'[c] \subseteq index[c]
        /\ \A v \in index[c] : v.id \in DOMAIN meta[c] /\ v \in index'[c]
                                  => v.id \in DOMAIN meta'[c]
    BY DeleteStep
  <1>2. DOMAIN meta'[c] \subseteq DOMAIN meta[c] /\ pc'[c] \in {"free", "writeIndex"}
    BY <1>1
  <1>3. LoadMirrorsDisk(c)' /\ DictsSubmitted(c)' /\ OneIdEach(c)'
    BY <1>1, <1>2 DEF LoadMirrorsDisk, DictsSubmitted, OneIdEach, Loading
  <1>4. PairsAgree(c)'
    BY <1>1, <1>2 DEF PairsAgree, Ready
  <1> QED  BY <1>3, <1>4

LEMMA PairNext ==
    ASSUME NEW c \in Clients, Clients = {c}, "load" \notin Faults
    PROVE  PairInv(c) /\ [Next]_vars => PairInv(c)'
  <1> SUFFICES ASSUME PairInv(c), [Next]_vars PROVE PairInv(c)'
    OBVIOUS
  <1> USE ConstantsAssumption
  <1>1. DurableInv(c)'
    BY NextDurable DEF PairInv
  <1>2. CASE Load(c)
    BY <1>1, <1>2, PairLoad
  <1>3. CASE Save(c)
    BY <1>1, <1>3, PairSave
  <1>4. ASSUME NEW f \in Files, InsertFiles(c, f) \/ InsertFails(c, f) PROVE PairInv(c)'
    BY <1>1, <1>4, PairInsert
  <1>5. ASSUME NEW files \in SUBSET Files, DeleteFiles(c, files) PROVE PairInv(c)'
    BY <1>1, <1>5, PairDelete DEF DeleteFiles
  <1>6. CASE DeletePartition(c)
    <2>1. sweep[c] \in SUBSET Files
      BY DEF PairInv, DurableInv, MemoryInv, TypeOK
    <2> QED  BY <1>1, <1>6, <2>1, PairDelete DEF DeletePartition
  <1>7. ASSUME UNCHANGED <<mem, pc, disk, submitted>> PROVE PairInv(c)'
    BY <1>1, <1>7 DEF PairInv, LoadMirrorsDisk, DictsSubmitted, OneIdEach, PairsAgree, mem
  <1>8. CASE Crash
    <2>1. /\ pc'[c] = "absent" /\ disk' = disk /\ submitted' = submitted
          /\ meta'[c] = EmptyMeta /\ DOMAIN meta'[c] = {}
      BY <1>8 DEF Crash, EmptyMeta
    <2> QED
      BY <1>1, <2>1 DEF PairInv, LoadMirrorsDisk, DictsSubmitted, OneIdEach, PairsAgree,
                        Loading, Ready, Saving
  <1> QED
    BY <1>2, <1>3, <1>4, <1>5, <1>6, <1>7, <1>8 DEF Next, CollectPartition, vars, ctl, hist

LEMMA PairInit == ASSUME NEW c \in Clients PROVE Init => PairInv(c)
  <1> SUFFICES ASSUME Init PROVE PairInv(c)
    OBVIOUS
  <1>1. DurableInv(c)
    BY InitDurable
  <1>2. /\ disk.index = Missing /\ disk.meta = Missing /\ pc[c] = "absent"
        /\ DOMAIN meta[c] = {}
    BY DEF Init, EmptyMeta
  <1> QED
    BY <1>1, <1>2 DEF PairInv, LoadMirrorsDisk, DictsSubmitted, OneIdEach, PairsAgree, Loading

-----------------------------------------------------------------------------
(* What was deleted stays gone.                                            *)

LEMMA ForgottenLoad ==
    ASSUME NEW c \in Clients, PairInv(c), Forgotten(c), Load(c), "load" \notin Faults
    PROVE  Forgotten(c)'
  <1> USE DEF PairInv, DurableInv, MemoryInv
  <1>1. /\ DOMAIN meta[c] = {} /\ op' = op /\ op[c] = NoOp
        /\ UNCHANGED <<submitted, gone, saveFailed>>
    BY DEF Load, Construct, LoadIndex, LoadMeta, LoadFails, hist, Ready, Saving,
           NothingBeforeLoad, EmptyMeta, OpOnlyInSave
  <1>2. CASE disk'.meta = Missing /\ meta' = meta
    BY <1>1, <1>2 DEF Forgotten, NoOp
  <1>3. CASE disk'.meta = disk.meta /\ meta' = meta /\ pc'[c] # "free"
    BY <1>1, <1>3 DEF Forgotten, NoOp
  <1>4. CASE disk' = disk /\ disk.meta # Missing /\ meta'[c] = disk.meta
    BY <1>1, <1>4 DEF Forgotten, NoOp
  <1>5. CASE Construct(c)
    BY <1>2, <1>3, <1>5 DEF Construct, NoTmp, BackedUp, CreateNew, mem, TypeOK
  <1>6. CASE LoadIndex(c)
    BY <1>3, <1>6 DEF LoadIndex, TypeOK
  <1>7. CASE LoadMeta(c)
    BY <1>4, <1>7 DEF LoadMeta, TypeOK
  <1>8. ~LoadFails(c)
    BY DEF LoadFails, LoadMirrorsDisk, Loading
  <1> QED  BY <1>5, <1>6, <1>7, <1>8 DEF Load

LEMMA ForgottenSave ==
    ASSUME NEW c \in Clients, PairInv(c), Forgotten(c), Save(c)
    PROVE  Forgotten(c)'
  <1> USE DEF PairInv, DurableInv, MemoryInv
  <1>1. meta' = meta /\ submitted' = submitted
    BY DEF Save, WriteIndexTmp, WriteMetaTmp, SwapIndex, SwapMeta, SaveRaises, mem, hist
  <1>2. CASE /\ disk'.meta = disk.meta /\ pc'[c] # "free" /\ op' = op
             /\ UNCHANGED <<gone, saveFailed>>
    BY <1>1, <1>2 DEF Forgotten
  <1>3. CASE WriteIndexTmp(c) \/ WriteMetaTmp(c) \/ SwapIndex(c)
    BY <1>2, <1>3 DEF WriteIndexTmp, WriteMetaTmp, SwapIndex, TypeOK, hist
  <1>4. CASE SaveRaises(c)
    BY <1>1, <1>4 DEF SaveRaises, Forgotten, TypeOK, NoOp
  <1>5. CASE SwapMeta(c)
    <2>1. disk'.meta = meta[c] /\ op'[c] = NoOp /\ saveFailed' = saveFailed
      BY <1>5 DEF SwapMeta, TypeOK, SaveMirrorsMemory
    <2>2. gone' = gone \/ (gone' = gone \cup op[c].files /\ op[c].kind # "insert")
      BY <1>5 DEF SwapMeta
    <2>3. /\ gone' \subseteq submitted
          /\ ~saveFailed => \A i \in DOMAIN meta[c] : meta[c][i].file \notin gone'
      BY <2>2 DEF Forgotten, TypeOK, Op
    <2> QED  BY <1>1, <2>1, <2>3 DEF Forgotten, NoOp
  <1> QED  BY <1>3, <1>4, <1>5 DEF Save

\* A new file is none of the deleted ones.
LEMMA ForgottenInsert ==
    ASSUME NEW c \in Clients, PairInv(c), Forgotten(c), ConstantsAssumption,
           NEW f \in Files, InsertFiles(c, f) \/ InsertFails(c, f)
    PROVE  Forgotten(c)'
  <1> USE DEF PairInv, DurableInv, MemoryInv
  <1>1. /\ pc[c] = "free" /\ f \notin submitted /\ submitted' = submitted \cup {f}
        /\ UNCHANGED <<disk, gone, saveFailed>>
        /\ op' = op \/ op'[c] = [kind |-> "insert", files |-> {f}]
    BY InsertStep
  <1>2. op[c] = NoOp
    BY <1>1 DEF OpOnlyInSave, Saving
  <1>3. /\ pc[c] = "free" /\ f \notin submitted /\ submitted' = submitted \cup {f}
        /\ UNCHANGED <<disk, gone, saveFailed>> /\ op'[c].kind # "delete"
        /\ op'[c].kind = "none" => op'[c].files = {}
    BY <1>1, <1>2 DEF NoOp
  <1>4. PICK k \in 0 .. Size[f] : AddChunks(c, f, k)
    BY InsertStep
  <1>5. k \in Nat /\ k <= Size[f]
    OBVIOUS
  <1> DEFINE new == nextId[c] .. nextId[c] + k - 1
             ch(i) == [file |-> f, part |-> i - nextId[c]]
  <1>6. /\ DOMAIN meta'[c] = DOMAIN meta[c] \cup new
        /\ \A i \in DOMAIN meta[c] : i \notin new /\ meta'[c][i] = meta[c][i]
        /\ \A i \in new : meta'[c][i] = ch(i)
    BY <1>3, <1>4, <1>5, AddChunksExact
  <1>7. /\ \A i \in DOMAIN meta[c] : i \in DOMAIN meta'[c] /\ meta'[c][i] = meta[c][i]
        /\ \A i \in DOMAIN meta'[c] : i \in DOMAIN meta[c] \/ meta'[c][i].file = f
    <2>1. \A i \in new : ch(i).file = f
      OBVIOUS
    <2> HIDE DEF new, ch
    <2> QED  BY <1>6, <2>1
  <1>8. f \notin gone
    BY <1>3 DEF Forgotten
  <1>9. ~saveFailed => \A i \in DOMAIN meta'[c] : meta'[c][i].file \notin gone
    BY <1>7, <1>8 DEF Forgotten
  <1>10. ~saveFailed /\ disk.meta # Missing =>
            \A i \in DOMAIN disk.meta : \E j \in DOMAIN meta'[c] :
               meta'[c][j].file = disk.meta[i].file
    BY <1>3, <1>7 DEF Forgotten
  <1> QED  BY <1>3, <1>9, <1>10 DEF Forgotten

\* A deletion that finds memory empty finds nothing on disk to delete.
LEMMA ForgottenDelete ==
    ASSUME NEW c \in Clients, PairInv(c), Forgotten(c),
           NEW files \in SUBSET Files, DeleteLocked(c, files)
    PROVE  Forgotten(c)'
  <1> USE DEF PairInv, DurableInv
  <1>1. /\ pc[c] = "free" /\ op[c] = NoOp /\ UNCHANGED <<disk, submitted, saveFailed>>
        /\ \/ pc' = pc /\ op' = op /\ DOMAIN meta[c] = {}
              /\ gone' = gone \cup (files \cap submitted)
           \/ /\ pc'[c] = "writeIndex" /\ gone' = gone
              /\ op'[c] = [kind |-> "delete", files |-> files \cap submitted]
        /\ DOMAIN meta'[c] = {i \in DOMAIN meta[c] : meta[c][i].file \notin files}
        /\ \A i \in DOMAIN meta'[c] : meta'[c][i] = meta[c][i]
    BY DeleteStep
  <1>2. \A i \in DOMAIN meta'[c] : i \in DOMAIN meta[c] /\ meta'[c][i].file \notin files
    BY <1>1
  <1>3. CASE op' = op
    <2>1. ~saveFailed /\ disk.meta # Missing => DOMAIN disk.meta = {}
      BY <1>1, <1>3 DEF Forgotten, NoOp
    <2> QED  BY <1>1, <1>2, <1>3, <2>1 DEF Forgotten, NoOp
  <1>4. CASE /\ pc'[c] = "writeIndex" /\ gone' = gone
             /\ op'[c] = [kind |-> "delete", files |-> files \cap submitted]
    BY <1>1, <1>2, <1>4 DEF Forgotten
  <1> QED  BY <1>1, <1>3, <1>4

LEMMA ForgottenNext ==
    ASSUME NEW c \in Clients, Clients = {c}, "load" \notin Faults
    PROVE  PairInv(c) /\ Forgotten(c) /\ [Next]_vars => Forgotten(c)'
  <1> SUFFICES ASSUME PairInv(c), Forgotten(c), [Next]_vars PROVE Forgotten(c)'
    OBVIOUS
  <1> USE ConstantsAssumption
  <1>1. CASE Load(c)
    BY <1>1, ForgottenLoad
  <1>2. CASE Save(c)
    BY <1>2, ForgottenSave
  <1>3. ASSUME NEW f \in Files, InsertFiles(c, f) \/ InsertFails(c, f) PROVE Forgotten(c)'
    BY <1>3, ForgottenInsert
  <1>4. ASSUME NEW files \in SUBSET Files, DeleteFiles(c, files) PROVE Forgotten(c)'
    BY <1>4, ForgottenDelete DEF DeleteFiles
  <1>5. CASE DeletePartition(c)
    <2>1. sweep[c] \in SUBSET Files
      BY DEF PairInv, DurableInv, MemoryInv, TypeOK
    <2> QED  BY <1>5, <2>1, ForgottenDelete DEF DeletePartition
  <1>6. ASSUME UNCHANGED <<mem, pc, op, disk, submitted, gone, saveFailed>>
        PROVE  Forgotten(c)'
    BY <1>6 DEF Forgotten, mem
  <1>7. CASE Crash
    <2>1. /\ DOMAIN meta'[c] = {} /\ op'[c] = NoOp /\ pc'[c] = "absent"
          /\ UNCHANGED <<disk, submitted, gone, saveFailed>>
      BY <1>7 DEF Crash, EmptyMeta
    <2> QED  BY <2>1 DEF Forgotten, NoOp
  <1> QED
    BY <1>1, <1>2, <1>3, <1>4, <1>5, <1>6, <1>7 DEF Next, CollectPartition, vars, ctl, hist

\* Once a deletion returned, no search of a user's only client returns a chunk
\* of the file, before or after a restart, as long as no save failed.
THEOREM SingleClientForgets ==
    ASSUME NEW c \in Clients, Clients = {c}, "load" \notin Faults
    PROVE  Spec => []DeletedStaysGone
  <1>1. Forgotten(c) => DeletedStaysGone
    BY DEF Forgotten, DeletedStaysGone, Returned
  <1>2. Init => PairInv(c) /\ Forgotten(c)
    <2> SUFFICES ASSUME Init PROVE Forgotten(c)
      BY PairInit
    <2>1. /\ gone = {} /\ op[c] = NoOp /\ disk.meta = Missing /\ DOMAIN meta[c] = {}
      BY DEF Init, EmptyMeta
    <2> QED  BY <2>1 DEF Forgotten, NoOp
  <1>3. PairInv(c) /\ Forgotten(c) /\ [Next]_vars => (PairInv(c) /\ Forgotten(c))'
    BY PairNext, ForgottenNext
  <1> QED  BY <1>1, <1>2, <1>3, PTL DEF Spec

-----------------------------------------------------------------------------
(* Every vector answers with the text it embeds.                           *)

\* Until the first restart the only client finds no files to load.
LEMMA AttributedLoad ==
    ASSUME NEW c \in Clients, MemoryInv, Attributed(c), Load(c)
    PROVE  Attributed(c)'
  <1> SUFFICES ASSUME crashes = 0 PROVE Attributed(c)'
    BY DEF Attributed, Load, Construct, LoadIndex, LoadMeta, LoadFails, hist
  <1>1. pc[c] \notin Loading
    BY DEF Attributed
  <1>2. Construct(c) /\ disk.index = Missing /\ pc[c] = "absent"
    BY <1>1 DEF Load, Construct, LoadIndex, LoadMeta, LoadFails, Loading, Attributed
  <1>3. /\ pc'[c] = "free" /\ index'[c] = {} /\ meta'[c] = meta[c]
        /\ DOMAIN meta[c] = {}
    BY <1>2 DEF Construct, CreateNew, MemoryInv, TypeOK, NothingBeforeLoad, Ready, Saving,
                EmptyMeta
  <1> QED  BY <1>3 DEF Attributed, Loading

LEMMA AttributedInsert ==
    ASSUME NEW c \in Clients, MemoryInv, Attributed(c), ConstantsAssumption,
           NEW f \in Files, InsertFiles(c, f) \/ InsertFails(c, f)
    PROVE  Attributed(c)'
  <1>1. /\ pc[c] = "free" /\ crashes' = crashes /\ (pc' = pc \/ pc'[c] = "writeIndex")
        /\ \E k \in 0 .. Size[f] : AddChunks(c, f, k)
    BY InsertStep DEF MemoryInv
  <1>2. PICK k \in 0 .. Size[f] : AddChunks(c, f, k)
    BY <1>1
  <1>3. k \in Nat /\ k <= Size[f]
    OBVIOUS
  <1> DEFINE new == nextId[c] .. nextId[c] + k - 1
             ch(i) == [file |-> f, part |-> i - nextId[c]]
  <1>4. /\ DOMAIN meta'[c] = DOMAIN meta[c] \cup new
        /\ \A i \in DOMAIN meta[c] : i \notin new /\ meta'[c][i] = meta[c][i]
        /\ \A i \in new : meta'[c][i] = ch(i)
        /\ index'[c] = index[c] \cup {[id |-> i, chunk |-> ch(i)] : i \in new}
    BY <1>1, <1>2, <1>3, AddChunksExact
  <1> HIDE DEF new, ch
  <1> SUFFICES ASSUME crashes = 0 PROVE Attributed(c)'
    BY <1>1 DEF Attributed
  <1>5. \A i \in DOMAIN meta'[c] : [id |-> i, chunk |-> meta'[c][i]] \in index'[c]
    BY <1>4 DEF Attributed
  <1>6. \A v \in index'[c] : v.id \in DOMAIN meta'[c] /\ meta'[c][v.id] = v.chunk
    BY <1>4 DEF Attributed
  <1> QED  BY <1>1, <1>5, <1>6 DEF Attributed, Loading

LEMMA AttributedDelete ==
    ASSUME NEW c \in Clients, MemoryInv, Attributed(c),
           NEW files \in SUBSET Files, DeleteLocked(c, files)
    PROVE  Attributed(c)'
  <1>1. /\ pc[c] = "free" /\ (pc' = pc \/ pc'[c] = "writeIndex") /\ crashes' = crashes
        /\ DOMAIN meta'[c] = {i \in DOMAIN meta[c] : meta[c][i].file \notin files}
        /\ \A i \in DOMAIN meta'[c] : meta'[c][i] = meta[c][i]
        /\ index'[c] \subseteq index[c]
        /\ \A v \in index[c] :
              /\ v.id \in DOMAIN meta'[c] => v \in index'[c]
              /\ v.id \in DOMAIN meta[c] /\ v \in index'[c] => v.id \in DOMAIN meta'[c]
    BY DeleteStep
  <1>2. DOMAIN meta'[c] \subseteq DOMAIN meta[c]
    BY <1>1
  <1>3. \A i \in DOMAIN meta'[c] : [id |-> i, chunk |-> meta[c][i]] \in index[c] =>
                                      [id |-> i, chunk |-> meta[c][i]] \in index'[c]
    BY <1>1
  <1> SUFFICES ASSUME crashes = 0 PROVE Attributed(c)'
    BY <1>1 DEF Attributed
  <1>4. \A i \in DOMAIN meta'[c] : [id |-> i, chunk |-> meta'[c][i]] \in index'[c]
    BY <1>1, <1>2, <1>3 DEF Attributed
  <1>5. \A v \in index'[c] : v.id \in DOMAIN meta'[c] /\ meta'[c][v.id] = v.chunk
    BY <1>1, <1>2 DEF Attributed
  <1>6. pc'[c] \notin Loading /\ pc'[c] # "absent"
    BY <1>1 DEF Loading
  <1> QED  BY <1>4, <1>5, <1>6 DEF Attributed

LEMMA AttributedNext ==
    ASSUME NEW c \in Clients, Clients = {c}
    PROVE  MemoryInv /\ Attributed(c) /\ [Next]_vars => Attributed(c)'
  <1> SUFFICES ASSUME MemoryInv, Attributed(c), [Next]_vars PROVE Attributed(c)'
    OBVIOUS
  <1> USE ConstantsAssumption
  <1>1. CASE Load(c)
    BY <1>1, AttributedLoad
  <1>2. ASSUME mem' = mem, crashes' = crashes,
               (pc' = pc /\ disk' = disk) \/ pc'[c] \in Ready
        PROVE  Attributed(c)'
    BY <1>2 DEF Attributed, Ready, Saving, Loading, mem
  <1>3. CASE Save(c)
    <2>1. pc'[c] \in Ready /\ mem' = mem /\ crashes' = crashes
      BY <1>3 DEF Save, WriteIndexTmp, WriteMetaTmp, SwapIndex, SwapMeta, SaveRaises, hist,
                  MemoryInv, TypeOK, Ready, Saving
    <2> QED  BY <1>2, <2>1
  <1>4. ASSUME NEW f \in Files, InsertFiles(c, f) \/ InsertFails(c, f) PROVE Attributed(c)'
    BY <1>4, AttributedInsert
  <1>5. ASSUME NEW files \in SUBSET Files, DeleteFiles(c, files) PROVE Attributed(c)'
    BY <1>5, AttributedDelete DEF DeleteFiles
  <1>6. CASE DeletePartition(c)
    <2>1. sweep[c] \in SUBSET Files
      BY DEF MemoryInv, TypeOK
    <2> QED  BY <1>6, <2>1, AttributedDelete DEF DeletePartition
  <1>7. CASE Crash
    BY <1>7 DEF Crash, Attributed, MemoryInv, TypeOK
  <1>8. CASE UNCHANGED <<mem, pc, disk, crashes>>
    BY <1>2, <1>8
  <1> QED
    BY <1>1, <1>3, <1>4, <1>5, <1>6, <1>7, <1>8 DEF Next, CollectPartition, vars, ctl, hist

\* Until the first restart a user's only client holds the same ids in its index
\* and its dict, and every vector has the entry of the text it embeds, whatever
\* insertions, deletions, failed batches and failed saves it has been through.
THEOREM SingleClientAttributes ==
    ASSUME NEW c \in Clients, Clients = {c}
    PROVE  Spec => []AttributedUntilCrash
  <1>1. MemoryInv /\ Attributed(c) => AttributedUntilCrash
    <2> SUFFICES ASSUME Attributed(c), crashes = 0
                 PROVE  /\ {v.id : v \in index[c]} = DOMAIN meta[c]
                        /\ \A v \in index[c] : meta[c][v.id] = v.chunk
      BY DEF AttributedUntilCrash
    <2>1. \A v \in index[c] : v.id \in DOMAIN meta[c] /\ meta[c][v.id] = v.chunk
      BY DEF Attributed
    <2>2. ASSUME NEW i \in DOMAIN meta[c] PROVE \E v \in index[c] : v.id = i
      <3> DEFINE v == [id |-> i, chunk |-> meta[c][i]]
      <3>1. v \in index[c] /\ v.id = i
        BY DEF Attributed
      <3> HIDE DEF v
      <3> QED  BY <3>1
    <2> QED  BY <2>1, <2>2
  <1>2. Init => Attributed(c)
    <2> SUFFICES ASSUME Init PROVE Attributed(c)
      OBVIOUS
    <2>1. pc[c] = "absent" /\ disk.index = Missing /\ index[c] = {} /\ DOMAIN meta[c] = {}
      BY DEF Init, EmptyMeta
    <2> QED  BY <2>1 DEF Attributed, Loading
  <1>3. MemoryInv /\ Attributed(c) /\ [Next]_vars => Attributed(c)'
    BY AttributedNext
  <1> QED  BY <1>1, <1>2, <1>3, InitMemory, NextMemory, PTL DEF Spec

-----------------------------------------------------------------------------
(* The client implements the abstract vector store, step by step.          *)

Up(c) == pc[c] \notin {"absent"} \cup Loading

LEMMA InLive ==
    ASSUME NEW c \in Clients, NEW ch
    PROVE  ch \in Searchable(c) <=>
              \E i \in DOMAIN meta[c] :
                 meta[c][i] = ch /\ [id |-> i, chunk |-> ch] \in index[c]
  BY DEF Searchable

LEMMA InDurable ==
    ASSUME NEW ch
    PROVE  ch \in Recoverable <=>
              /\ disk.index # Missing /\ disk.meta # Missing
              /\ \E i \in DOMAIN disk.meta :
                    disk.meta[i] = ch /\ [id |-> i, chunk |-> ch] \in disk.index
  BY DEF Recoverable

\* The end of a load starts the store with what is on disk, the steps before
\* it change nothing.
LEMMA LoadStarts ==
    ASSUME NEW c \in Clients, PairInv(c), Load(c), "load" \notin Faults
    PROVE  /\ ~Up(c) /\ Recoverable' = Recoverable /\ acked' = acked /\ deleted' = deleted
           /\ \/ Up(c)' /\ Searchable(c)' = Recoverable
              \/ ~Up(c)' /\ Searchable(c)' = Searchable(c)
  <1> USE DEF PairInv, DurableInv, MemoryInv
  <1>1. /\ ~Up(c) /\ acked' = acked /\ deleted' = deleted
        /\ DOMAIN meta[c] = {}
    BY DEF Up, Load, Construct, LoadIndex, LoadMeta, LoadFails, hist, Ready, Saving, Loading,
           NothingBeforeLoad, EmptyMeta
  <1>2. Searchable(c) = {}
    BY <1>1, InLive
  <1>3. CASE /\ disk.index = Missing \/ disk.meta = Missing
             /\ disk'.meta = Missing /\ meta' = meta /\ pc'[c] = "free"
    BY <1>1, <1>3 DEF Searchable, Recoverable, Up, Loading
  <1>4. CASE /\ disk'.index = disk.index /\ disk'.meta = disk.meta /\ meta' = meta
             /\ pc'[c] \in Loading
    BY <1>1, <1>4 DEF Searchable, Recoverable, Up
  <1>5. CASE /\ disk' = disk /\ index'[c] = disk.index /\ meta'[c] = disk.meta
             /\ disk.index # Missing /\ disk.meta # Missing /\ pc'[c] = "free"
    BY <1>1, <1>5 DEF Searchable, Recoverable, Up, Loading
  <1>6. CASE Construct(c)
    BY <1>3, <1>4, <1>6 DEF Construct, NoTmp, BackedUp, CreateNew, mem, TypeOK, Loading
  <1>7. CASE LoadIndex(c)
    BY <1>4, <1>7 DEF LoadIndex, TypeOK, Loading
  <1>8. CASE LoadMeta(c)
    BY <1>5, <1>8 DEF LoadMeta, TypeOK, LoadMirrorsDisk
  <1>9. ~LoadFails(c)
    BY DEF LoadFails, LoadMirrorsDisk, Loading
  <1> QED  BY <1>6, <1>7, <1>8, <1>9 DEF Load

\* With the new index and the old dict the disk has what it had and memory has.
LEMMA SwapIndexRemoves ==
    ASSUME NEW c \in Clients, PairInv(c), SwapIndex(c)
    PROVE  Recoverable' = Recoverable \cap Searchable(c)
  <1> USE DEF PairInv, DurableInv, MemoryInv
  <1>1. /\ disk'.index = index[c] /\ disk'.index # Missing /\ disk'.meta = disk.meta
        /\ pc[c] \in Ready /\ (disk.meta # Missing => disk.index # Missing)
    BY DEF SwapIndex, TypeOK, SaveMirrorsMemory, Ready, Saving, LoadMirrorsDisk
  <1>2. CASE disk.meta = Missing
    BY <1>1, <1>2 DEF Recoverable
  <1>3. CASE disk.meta # Missing
    <2>1. ASSUME NEW ch \in Recoverable' PROVE ch \in Recoverable /\ ch \in Searchable(c)
      <3>1. PICK i \in DOMAIN disk.meta :
               disk.meta[i] = ch /\ [id |-> i, chunk |-> ch] \in index[c]
        BY <1>1, <1>3 DEF Recoverable
      <3>2. /\ i \in DOMAIN meta[c] /\ meta[c][i] = ch
            /\ [id |-> i, chunk |-> ch] \in disk.index
        BY <1>1, <1>3, <3>1 DEF PairsAgree
      <3> QED  BY <1>1, <1>3, <3>1, <3>2, InLive, InDurable
    <2>2. ASSUME NEW ch \in Recoverable, ch \in Searchable(c) PROVE ch \in Recoverable'
      <3>1. PICK i \in DOMAIN disk.meta : disk.meta[i] = ch
        BY InDurable
      <3>2. PICK j \in DOMAIN meta[c] :
               meta[c][j] = ch /\ [id |-> j, chunk |-> ch] \in index[c]
        BY <2>2, InLive
      <3>3. i = j
        BY <1>3, <3>1, <3>2 DEF OneIdEach
      <3> QED  BY <1>1, <1>3, <3>1, <3>2, <3>3 DEF Recoverable
    <2> QED  BY <2>1, <2>2
  <1> QED  BY <1>2, <1>3

\* With the new dict too the disk has what memory has, acknowledged or not.
LEMMA SwapMetaPersists ==
    ASSUME NEW c \in Clients, PairInv(c), SwapMeta(c)
    PROVE  /\ Recoverable' = Searchable(c)
           /\ \E files \in SUBSET Files :
                 /\ \A f \in files : ChunksOf(f) \subseteq Searchable(c)
                 /\ acked' \ deleted = (acked \ deleted) \cup files
  <1> USE DEF PairInv, DurableInv, MemoryInv
  <1>1. disk'.index = index[c] /\ disk'.index # Missing /\ disk'.meta = meta[c]
        /\ meta[c] # Missing
    BY DEF SwapMeta, TypeOK, SaveMirrorsMemory
  <1>2. Recoverable' = Searchable(c)
    BY <1>1 DEF Recoverable, Searchable
  <1>3. CASE op[c].kind = "insert"
    <2>1. /\ op[c].files \ deleted \in SUBSET Files /\ acked' = acked \cup op[c].files
      BY <1>3 DEF SwapMeta, TypeOK, Op
    <2>2. \A f \in op[c].files \ deleted : ChunksOf(f) \subseteq Searchable(c)
      <3>1. ASSUME NEW f \in op[c].files, NEW x \in ChunksOf(f) PROVE x \in Searchable(c)
        <4>1. PICK i \in Nat : Holds(c, i, x)
          BY <1>3 DEF KeptIsHeld, Kept
        <4> QED  BY <4>1, InLive DEF Holds
      <3> QED  BY <3>1
    <2>3. acked' \ deleted = (acked \ deleted) \cup (op[c].files \ deleted)
      BY <2>1
    <2> QED  BY <1>2, <2>1, <2>2, <2>3
  <1>4. CASE op[c].kind # "insert"
    <2>1. acked' = acked
      BY <1>4 DEF SwapMeta
    <2>2. {} \in SUBSET Files /\ acked' \ deleted = (acked \ deleted) \cup {}
      BY <2>1
    <2> QED  BY <1>2, <2>2
  <1> QED  BY <1>3, <1>4

LEMMA InsertShows ==
    ASSUME NEW c \in Clients, MemoryInv, ConstantsAssumption,
           NEW f \in Files, NEW k \in 0 .. Size[f], pc[c] = "free", AddChunks(c, f, k)
    PROVE  Searchable(c)' = Searchable(c) \cup {[file |-> f, part |-> p] : p \in 0 .. k - 1}
  <1> DEFINE new == nextId[c] .. nextId[c] + k - 1
             ch(i) == [file |-> f, part |-> i - nextId[c]]
  <1>1. k \in Nat /\ k <= Size[f] /\ nextId[c] \in Nat
    BY DEF MemoryInv, TypeOK
  <1>2. /\ DOMAIN meta'[c] = DOMAIN meta[c] \cup new
        /\ \A i \in DOMAIN meta[c] : i \notin new /\ meta'[c][i] = meta[c][i]
        /\ \A i \in new : meta'[c][i] = ch(i)
        /\ index'[c] = index[c] \cup {[id |-> i, chunk |-> ch(i)] : i \in new}
    BY <1>1, AddChunksExact
  <1>3. {[file |-> f, part |-> p] : p \in 0 .. k - 1} = {ch(i) : i \in new}
    <2>1. ASSUME NEW p \in 0 .. k - 1
          PROVE  \E i \in new : [file |-> f, part |-> p] = ch(i)
      <3>1. nextId[c] + p \in new /\ (nextId[c] + p) - nextId[c] = p
        BY <1>1
      <3> QED  BY <3>1
    <2>2. ASSUME NEW i \in new PROVE i - nextId[c] \in 0 .. k - 1
      BY <1>1, <2>2
    <2> QED  BY <2>1, <2>2
  <1> HIDE DEF new, ch
  <1>4. ASSUME NEW x \in Searchable(c)' PROVE x \in Searchable(c) \/ \E i \in new : x = ch(i)
    <2>1. PICK i \in DOMAIN meta'[c] : meta'[c][i] = x /\ [id |-> i, chunk |-> x] \in index'[c]
      BY DEF Searchable
    <2>2. CASE i \in new
      BY <1>2, <2>1, <2>2
    <2>3. CASE i \notin new
      <3>1. i \in DOMAIN meta[c] /\ meta[c][i] = x /\ [id |-> i, chunk |-> x] \in index[c]
        BY <1>2, <2>1, <2>3, ZenonT(60)
      <3> QED  BY <3>1, InLive
    <2> QED  BY <2>2, <2>3
  <1>5. ASSUME NEW x \in Searchable(c) PROVE x \in Searchable(c)'
    <2>1. PICK i \in DOMAIN meta[c] : meta[c][i] = x /\ [id |-> i, chunk |-> x] \in index[c]
      BY InLive
    <2> QED  BY <1>2, <2>1 DEF Searchable
  <1>6. ASSUME NEW i \in new PROVE ch(i) \in Searchable(c)'
    BY <1>2 DEF Searchable
  <1> QED  BY <1>3, <1>4, <1>5, <1>6

LEMMA DeleteHides ==
    ASSUME NEW c \in Clients, MemoryInv, NEW files \in SUBSET Files, DeleteLocked(c, files)
    PROVE  Searchable(c)' = {ch \in Searchable(c) : ch.file \notin files}
  <1>1. /\ DOMAIN meta'[c] = {i \in DOMAIN meta[c] : meta[c][i].file \notin files}
        /\ \A i \in DOMAIN meta'[c] : meta'[c][i] = meta[c][i]
        /\ index'[c] \subseteq index[c]
        /\ \A v \in index[c] : v.id \in DOMAIN meta'[c] => v \in index'[c]
    BY DeleteStep
  <1>2. ASSUME NEW x \in Searchable(c)' PROVE x \in Searchable(c) /\ x.file \notin files
    <2>1. PICK i \in DOMAIN meta'[c] : meta'[c][i] = x /\ [id |-> i, chunk |-> x] \in index'[c]
      BY DEF Searchable
    <2>2. /\ i \in DOMAIN meta[c] /\ meta[c][i] = x /\ x.file \notin files
          /\ [id |-> i, chunk |-> x] \in index[c]
      BY <1>1, <2>1
    <2> QED  BY <2>2, InLive
  <1>3. ASSUME NEW x \in Searchable(c), x.file \notin files PROVE x \in Searchable(c)'
    <2>1. PICK i \in DOMAIN meta[c] : meta[c][i] = x /\ [id |-> i, chunk |-> x] \in index[c]
      BY InLive
    <2>2. i \in DOMAIN meta'[c] /\ meta'[c][i] = x
      BY <1>1, <1>3, <2>1
    <2>3. [id |-> i, chunk |-> x] \in index'[c]
      BY <1>1, <2>1, <2>2
    <2> QED  BY <2>2, <2>3 DEF Searchable
  <1> QED  BY <1>2, <1>3

LEMMA StoreInit ==
    ASSUME NEW c \in Clients, Clients = {c}
    PROVE  Init => Store!Init
  <1> SUFFICES ASSUME Init PROVE Store!Init
    OBVIOUS
  <1>1. TheClient = c
    BY DEF TheClient
  <1>2. /\ pc[c] = "absent" /\ disk.index = Missing /\ acked = {}
        /\ DOMAIN meta[c] = {}
    BY DEF Init, EmptyMeta
  <1>3. Searchable(c) = {} /\ Recoverable = {}
    BY <1>2 DEF Searchable, Recoverable
  <1> QED  BY <1>1, <1>2, <1>3 DEF Store!Init

\* Every step of the client and its files is a step of the store, or none.
LEMMA StoreStep ==
    ASSUME NEW c \in Clients, Clients = {c}, "load" \notin Faults,
           PairInv(c), [Next]_vars
    PROVE  [Store!Next]_(Store!vars)
  <1> USE ConstantsAssumption
  <1>1. TheClient = c /\ MemoryInv
    BY DEF TheClient, PairInv, DurableInv
  <1> DEFINE promised == acked \ deleted
  <1>2. ASSUME Searchable(c)' = Searchable(c), Recoverable' = Recoverable,
               acked' = acked, deleted' = deleted, Up(c)' = Up(c)
        PROVE  UNCHANGED Store!vars
    BY <1>1, <1>2 DEF Store!vars, Up
  <1>3. CASE Load(c)
    <2>1. /\ ~Up(c) /\ Recoverable' = Recoverable /\ acked' = acked /\ deleted' = deleted
          /\ \/ Up(c)' /\ Searchable(c)' = Recoverable
             \/ ~Up(c)' /\ Searchable(c)' = Searchable(c)
      BY <1>3, LoadStarts
    <2>2. CASE Up(c)' /\ Searchable(c)' = Recoverable
      <3>1. Store!Start
        BY <1>1, <2>1, <2>2 DEF Store!Start, Up
      <3> QED  BY <3>1 DEF Store!Next
    <2>3. CASE ~Up(c)' /\ Searchable(c)' = Searchable(c)
      <3>1. Up(c)' = Up(c)
        BY <2>1, <2>3 DEF Up
      <3>2. UNCHANGED Store!vars
        BY <1>2, <2>1, <2>3, <3>1
      <3> QED  BY <3>2
    <2> QED  BY <2>1, <2>2, <2>3
  <1>4. CASE Save(c)
    <2>1. /\ Up(c) /\ Up(c)' /\ mem' = mem /\ deleted' = deleted
      BY <1>1, <1>4 DEF Save, WriteIndexTmp, WriteMetaTmp, SwapIndex, SwapMeta, SaveRaises, hist,
                        Up, Loading, MemoryInv, TypeOK
    <2>2. Searchable(c)' = Searchable(c)
      BY <2>1 DEF Searchable, mem
    <2>3. CASE WriteIndexTmp(c) \/ WriteMetaTmp(c) \/ SaveRaises(c)
      <3>1. disk'.index = disk.index /\ disk'.meta = disk.meta /\ acked' = acked
        BY <1>1, <2>3 DEF WriteIndexTmp, WriteMetaTmp, SaveRaises, hist, MemoryInv, TypeOK
      <3>2. Recoverable' = Recoverable
        BY <3>1 DEF Recoverable
      <3>3. UNCHANGED Store!vars
        BY <1>2, <2>1, <2>2, <3>1, <3>2
      <3> QED  BY <3>3
    <2>4. CASE SwapIndex(c)
      <3>1. Recoverable' = Recoverable \cap Searchable(c) /\ acked' = acked
        BY <2>4, SwapIndexRemoves DEF SwapIndex, hist
      <3>2. Store!PersistRemovals
        BY <1>1, <2>1, <2>2, <3>1 DEF Store!PersistRemovals, Up
      <3> QED  BY <3>2 DEF Store!Next
    <2>5. CASE SwapMeta(c)
      <3>1. Recoverable' = Searchable(c)
        BY <2>5, SwapMetaPersists
      <3>2. PICK files \in SUBSET Files :
               /\ \A f \in files : ChunksOf(f) \subseteq Searchable(c)
               /\ acked' \ deleted = (acked \ deleted) \cup files
        BY <2>5, SwapMetaPersists
      <3>3. Store!ChunksOfAll(files) \subseteq Searchable(c)
        BY <3>2 DEF Store!ChunksOfAll, Store!ChunksOf, ChunksOf
      <3>4. Store!PersistAll
        BY <1>1, <2>1, <2>2, <3>1, <3>2, <3>3 DEF Store!PersistAll, Up
      <3> QED  BY <3>4 DEF Store!Next
    <2> QED  BY <1>4, <2>3, <2>4, <2>5 DEF Save
  <1>5. ASSUME NEW f \in Files, InsertFiles(c, f) \/ InsertFails(c, f)
        PROVE  Store!Next
    <2>1. /\ pc[c] = "free" /\ UNCHANGED <<disk, acked, deleted>>
          /\ pc' = pc \/ pc'[c] = "writeIndex"
          /\ \E k \in 0 .. Size[f] : AddChunks(c, f, k)
      BY <1>1, <1>5, InsertStep DEF MemoryInv
    <2>2. PICK k \in 0 .. Size[f] : AddChunks(c, f, k)
      BY <2>1
    <2>3. Searchable(c)' = Searchable(c) \cup {[file |-> f, part |-> p] : p \in 0 .. k - 1}
      BY <1>1, <2>1, <2>2, InsertShows
    <2>4. Recoverable' = Recoverable
      BY <2>1 DEF Recoverable
    <2>5. Up(c) /\ Up(c)'
      BY <2>1 DEF Up, Loading
    <2>6. Store!Insert(f)
      BY <1>1, <2>1, <2>3, <2>4, <2>5 DEF Store!Insert, Up
    <2> QED  BY <2>6 DEF Store!Next
  <1>6. ASSUME NEW files \in SUBSET Files, DeleteLocked(c, files)
        PROVE  Store!Next
    <2>1. /\ pc[c] = "free" /\ UNCHANGED <<disk, acked>> /\ deleted' = deleted \cup files
          /\ pc' = pc \/ pc'[c] = "writeIndex"
      BY <1>1, <1>6, DeleteStep
    <2>2. Searchable(c)' = {ch \in Searchable(c) : ch.file \notin files}
      BY <1>1, <1>6, DeleteHides
    <2>3. Recoverable' = Recoverable
      BY <2>1 DEF Recoverable
    <2>4. Up(c) /\ Up(c)'
      BY <2>1 DEF Up, Loading
    <2>5. acked' \ deleted' = (acked \ deleted) \ files
      BY <2>1
    <2>6. Store!Delete(files)
      BY <1>1, <2>2, <2>3, <2>4, <2>5 DEF Store!Delete, Up
    <2> QED  BY <2>6 DEF Store!Next
  <1>7. CASE \E files \in SUBSET Files \ {{}} : DeleteFiles(c, files)
    BY <1>6, <1>7 DEF DeleteFiles
  <1>8. CASE DeletePartition(c)
    <2>1. sweep[c] \in SUBSET Files
      BY <1>1 DEF MemoryInv, TypeOK
    <2> QED  BY <1>6, <1>8, <2>1 DEF DeletePartition
  <1>9. CASE Crash
    <2>1. /\ pc'[c] = "absent" /\ UNCHANGED <<disk, acked, deleted>>
          /\ DOMAIN meta'[c] = {}
      BY <1>9 DEF Crash, EmptyMeta
    <2>2. Searchable(c)' = {} /\ Recoverable' = Recoverable
      BY <2>1 DEF Searchable, Recoverable
    <2>3. Store!Stop
      BY <1>1, <2>1, <2>2 DEF Store!Stop
    <2> QED  BY <2>3 DEF Store!Next
  <1>10. CASE UNCHANGED <<mem, pc, disk, acked, deleted>>
    <2>1. /\ Searchable(c)' = Searchable(c) /\ Recoverable' = Recoverable
          /\ Up(c)' = Up(c)
      BY <1>10 DEF Searchable, Recoverable, Up, mem
    <2>2. UNCHANGED Store!vars
      BY <1>2, <1>10, <2>1
    <2> QED  BY <2>2
  <1> QED
    BY <1>3, <1>4, <1>5, <1>7, <1>8, <1>9, <1>10
       DEF Next, CollectPartition, vars, ctl, hist

\* A user's only client, with its lock, its two files and their renames, its
\* restarts and its failed saves, implements the abstract store: a search sees
\* what was inserted and not deleted, a restart brings back what the last save
\* left, and an acknowledged file is among it.
THEOREM SingleClientImplements ==
    ASSUME NEW c \in Clients, Clients = {c}, "load" \notin Faults
    PROVE  Spec => ImplementsVectorStore
  <1>1. Init => PairInv(c) /\ Store!Init
    BY PairInit, StoreInit
  <1>2. PairInv(c) /\ [Next]_vars => PairInv(c)' /\ [Store!Next]_(Store!vars)
    BY PairNext, StoreStep
  <1> QED  BY <1>1, <1>2, PTL DEF Spec, ImplementsVectorStore, Store!Spec
=============================================================================
