------------------------- MODULE ArtifactStoreProofs -------------------------
(***************************************************************************)
(* What holds of the store for any number of files, contents, processes,   *)
(* crashes, errors and rewritten or removed sources.                       *)
(***************************************************************************)
EXTENDS ArtifactStore, FiniteSetTheorems, TLAPS

(* The blob of what is being ingested, and its temporary file, are what    *)
(* the next step takes them to be, unless the disk damaged the blob since; *)
(* and what is ingested has no row yet.                                    *)
Midway ==
  /\ step = "replace" => temp[digest][pid] = digest
  /\ step \in {"seal", "row"} => blob[digest] # None /\ (blob[digest] = digest \/ late)
  /\ step # "idle" => ~Ingested(cur, digest)

(* The versions of a name have no gap.                                     *)
Numbered == \A name : \E k \in Nat : Versions(name) = 1 .. k

StoreInv == StoreTypeOK /\ BlobsAreWhole /\ CommittedIsStored /\ Midway /\ VersionsExact /\ Numbered

LEMMA StoreInit1 == ASSUME StoreInit PROVE StoreInv
  <1>1. StoreTypeOK  BY StoreAssumption, BoundsAssumption DEF StoreInit, StoreTypeOK, Steps
  <1>2. \A name : Versions(name) = 1 .. 0  BY DEF StoreInit, Versions
  <1>3. BlobsAreWhole /\ CommittedIsStored /\ VersionsExact /\ Midway
    BY DEF StoreInit, BlobsAreWhole, CommittedIsStored, VersionsExact, Midway
  <1> QED  BY <1>1, <1>2, <1>3 DEF StoreInv, Numbered

(* The version an ingestion gives is the first that is free.               *)
LEMMA NextIsFree ==
  ASSUME StoreInv, NEW f \in Files
  PROVE  \E k \in Nat : Versions(NameOf[f]) = 1 .. k /\ NextVersion(f) = k + 1
  <1> DEFINE V == Versions(NameOf[f])
             Top(v) == v \in V \cup {0} /\ \A x \in V : x <= v
  <1>1. PICK k \in Nat : V = 1 .. k  BY DEF StoreInv, Numbered
  <1>2. Top(k)  BY <1>1
  <1>3. \A v : Top(v) => v = k
    <2> SUFFICES ASSUME NEW v, Top(v) PROVE v = k  OBVIOUS
    <2>1. v \in 0 .. k  BY <1>1
    <2>2. k = 0 \/ k \in V  BY <1>1
    <2> QED  BY <1>1, <2>1, <2>2
  <1>4. CurrentVersion(NameOf[f]) = k
    <2>1. CurrentVersion(NameOf[f]) = CHOOSE v \in V \cup {0} : \A x \in V : x <= v
      BY DEF CurrentVersion
    <2> HIDE DEF V
    <2> QED  BY <1>2, <1>3, <2>1
  <1> QED  BY <1>1, <1>4 DEF NextVersion

LEMMA TypeStep == ASSUME StoreInv, [StoreNext]_storeVars PROVE StoreTypeOK'
  <1> USE DEF StoreInv, StoreTypeOK, Steps, counters
  <1>1. CASE UNCHANGED storeVars  BY <1>1 DEF storeVars
  <1>2. ASSUME NEW f \in Files, Hash(f) PROVE StoreTypeOK'
    BY <1>2, StoreAssumption DEF Hash, At
  <1>3. ASSUME FindBlob \/ VerifyCopy PROVE StoreTypeOK'
    BY <1>3 DEF FindBlob, VerifyCopy, At, GoTo
  <1>4. ASSUME SourceGone \/ BlobCorrupted \/ TempExists PROVE StoreTypeOK'
    BY <1>4 DEF SourceGone, BlobCorrupted, TempExists, Raise, Return
  <1>5. ASSUME OpenTemp \/ Copy PROVE StoreTypeOK'
    <2>1. PICK c \in Contents \cup {Torn} : temp' = [temp EXCEPT ![digest][pid] = c]
      BY <1>5 DEF OpenTemp, Copy
    <2>2. temp' \in [Contents -> [Pids -> Contents \cup {None, Torn}]]  BY <2>1
    <2> QED  BY <1>5, <2>2 DEF OpenTemp, Copy, At, GoTo
  <1>6. CASE CopyMismatch  BY <1>6 DEF CopyMismatch, At, Raise, Return
  <1>7. CASE Replace  BY <1>7 DEF Replace, At, GoTo, Midway
  <1>8. CASE Seal  BY <1>8 DEF Seal, At, GoTo
  <1>9. CASE InsertRow
    <2>1. cur \in Files /\ digest \in Contents  BY <1>9 DEF InsertRow, At
    <2>2. NextVersion(cur) \in Nat \ {0}  BY <2>1, NextIsFree
    <2>3. rows' \subseteq [file : Files, digest : Contents, version : Nat \ {0}]
      BY <1>9, <2>1, <2>2 DEF InsertRow
    <2>4. /\ step' = "idle" /\ cur' = None /\ digest' = None /\ late' = FALSE
          /\ UNCHANGED <<source, blob, sealed, temp, pid, counters>>
      BY <1>9 DEF InsertRow, Return
    <2> QED  BY <2>3, <2>4
  <1>10. CASE Crash \/ CallFails
    <2>1. \/ temp' = temp
          \/ temp' = [temp EXCEPT ![digest][pid] = None]
      BY <1>10 DEF Crash, CallFails
    <2>2. temp' \in [Contents -> [Pids -> Contents \cup {None, Torn}]]  BY <2>1
    <2>3. crashes' \in Nat /\ failures' \in Nat /\ rewrites' \in Nat
      BY <1>10 DEF Crash, CallFails
    <2> QED  BY <1>10, <2>2, <2>3 DEF Crash, CallFails, Return
  <1>11. CASE Restart  BY <1>11, StoreAssumption DEF Restart
  <1>12. ASSUME NEW f \in Files, Rewrite(f) PROVE StoreTypeOK'  BY <1>12 DEF Rewrite
  <1>13. ASSUME NEW d \in Contents, Rot(d) PROVE StoreTypeOK'
    <2>1. late' \in BOOLEAN  BY <1>13, Zenon DEF Rot
    <2> QED  BY <1>13, <2>1 DEF Rot
  <1> QED  BY <1>1, <1>2, <1>3, <1>4, <1>5, <1>6, <1>7, <1>8, <1>9, <1>10, <1>11, <1>12, <1>13
           DEF StoreNext, Ingest

(* The files: only a verified copy becomes a blob, and none disappears.    *)
LEMMA FilesStep ==
  ASSUME StoreInv, [StoreNext]_storeVars
  PROVE  BlobsAreWhole' /\ CommittedIsStored' /\ Midway'
  <1> USE StoreAssumption DEF StoreInv, StoreTypeOK, BlobsAreWhole, CommittedIsStored, Midway, Ingested, counters
  <1> DEFINE Goal == BlobsAreWhole' /\ CommittedIsStored' /\ Midway'
  <1>1. CASE UNCHANGED storeVars  BY <1>1 DEF storeVars
  <1>2. ASSUME NEW f \in Files, Hash(f) PROVE Goal  BY <1>2 DEF Hash, At
  <1>3. ASSUME FindBlob \/ VerifyCopy PROVE Goal
    BY <1>3 DEF FindBlob, VerifyCopy, BlobIsGood, CopyIsGood, At, GoTo
  <1>4. ASSUME SourceGone \/ BlobCorrupted \/ TempExists \/ CopyMismatch PROVE Goal
    BY <1>4 DEF SourceGone, BlobCorrupted, TempExists, CopyMismatch, At, Raise, Return
  <1>5. ASSUME OpenTemp \/ Copy PROVE Goal  BY <1>5 DEF OpenTemp, Copy, At, GoTo
  <1>6. CASE Replace
    <2>1. temp[digest][pid] = digest /\ digest \in Contents  BY <1>6 DEF Replace, At
    <2>2. blob' = [blob EXCEPT ![digest] = digest]  BY <1>6, <2>1 DEF Replace
    <2> QED  BY <1>6, <2>1, <2>2 DEF Replace, At, GoTo
  <1>7. CASE Seal  BY <1>7 DEF Seal, At, GoTo
  <1>8. CASE InsertRow  BY <1>8 DEF InsertRow, At, Return
  <1>9. CASE Crash \/ CallFails  BY <1>9 DEF Crash, CallFails, Return
  <1>10. CASE Restart  BY <1>10 DEF Restart
  <1>11. ASSUME NEW f \in Files, Rewrite(f) PROVE Goal  BY <1>11 DEF Rewrite
  <1>12. ASSUME NEW d \in Contents, Rot(d) PROVE Goal
    <2>1. blob' = [blob EXCEPT ![d] = Rotten] /\ blob[d] # None  BY <1>12 DEF Rot
    <2>2. step \in {"seal", "row"} => blob'[digest] # None /\ (blob'[digest] = digest \/ late')
      BY <1>12, <2>1 DEF Rot
    <2> QED  BY <1>12, <2>1, <2>2 DEF Rot
  <1> QED  BY <1>1, <1>2, <1>3, <1>4, <1>5, <1>6, <1>7, <1>8, <1>9, <1>10, <1>11, <1>12
           DEF StoreNext, Ingest

LEMMA RowsStep ==
  ASSUME StoreInv, [StoreNext]_storeVars
  PROVE  VersionsExact' /\ Numbered'
  <1>1. CASE rows' = rows  BY <1>1 DEF StoreInv, VersionsExact, Numbered, Versions
  <1>2. CASE InsertRow
    <2>1. cur \in Files /\ digest \in Contents  BY <1>2 DEF InsertRow, At, StoreInv, StoreTypeOK
    <2> PICK f \in Files, d \in Contents : f = cur /\ d = digest
      BY <2>1
    <2> PICK name : name = NameOf[f]
      OBVIOUS
    <2>2. PICK k \in Nat : Versions(name) = 1 .. k /\ NextVersion(f) = k + 1
      BY NextIsFree
    <2> DEFINE row == [file |-> f, digest |-> d, version |-> k + 1]
    <2>3. rows' = rows \cup {row}  BY <1>2, <2>2 DEF InsertRow
    <2>4. \A other : Versions(other)' = Versions(other) \cup (IF other = name THEN {k + 1} ELSE {})
      <3> SUFFICES ASSUME NEW other
                   PROVE  Versions(other)' = Versions(other) \cup (IF other = name THEN {k + 1} ELSE {})
        OBVIOUS
      <3>1. \A v : v \in Versions(other)' <=> \E x \in rows' : NameOf[x.file] = other /\ x.version = v
        BY DEF Versions
      <3>2. \A v : v \in Versions(other) <=> \E x \in rows : NameOf[x.file] = other /\ x.version = v
        BY DEF Versions
      <3> HIDE DEF row
      <3>3. row.file = f /\ row.version = k + 1  BY DEF row
      <3> QED  BY <2>3, <3>1, <3>2, <3>3
    <2>5. Versions(name)' = 1 .. k + 1
      <3>1. Versions(name)' = Versions(name) \cup {k + 1}  BY <2>4
      <3> QED  BY <2>2, <3>1
    <2>6. Numbered'
      <3>1. \A other : other # name => Versions(other)' = Versions(other)  BY <2>4
      <3>2. \A other : \E n \in Nat : Versions(other) = 1 .. n  BY DEF StoreInv, Numbered
      <3>3. \A other : \E n \in Nat : Versions(other)' = 1 .. n
        <4> SUFFICES ASSUME NEW other PROVE \E n \in Nat : Versions(other)' = 1 .. n  OBVIOUS
        <4>1. k + 1 \in Nat  OBVIOUS
        <4>2. CASE other = name  BY <2>5, <4>1, <4>2, Zenon
        <4>3. CASE other # name  BY <3>1, <3>2, <4>3, Zenon
        <4> QED  BY <4>2, <4>3
      <3> QED  BY <3>3 DEF Numbered
    <2>7. \A x \in rows : x.file # f \/ x.digest # d
      BY <1>2 DEF StoreInv, Midway, Ingested, InsertRow, At
    <2>8. \A x \in rows : NameOf[x.file] = name => x.version \in 1 .. k
      BY <2>2 DEF Versions
    <2>9. VersionsExact'
      <3> DEFINE OneRow(x, y) == x.file = y.file /\ x.digest = y.digest => x = y
                 OneVersion(x, y) == NameOf[x.file] = NameOf[y.file] /\ x.version = y.version => x = y
      <3>1. \A x, y \in rows : OneRow(x, y) /\ OneVersion(x, y)
        BY DEF StoreInv, VersionsExact
      <3>2. \A x \in rows : /\ OneRow(x, row) /\ OneRow(row, x)
                            /\ OneVersion(x, row) /\ OneVersion(row, x)
        BY <2>2, <2>7, <2>8
      <3>3. \A x, y \in rows' : OneRow(x, y) /\ OneVersion(x, y)  BY <2>3, <3>1, <3>2
      <3>4. ASSUME NEW x \in rows' PROVE 1 .. x.version \subseteq Versions(NameOf[x.file])'
        <4>1. CASE x = row  BY <2>2, <2>5, <4>1
        <4>2. CASE x \in rows
          <5>1. 1 .. x.version \subseteq Versions(NameOf[x.file])
            BY <4>2 DEF StoreInv, VersionsExact
          <5> QED  BY <2>4, <5>1
        <4> QED  BY <2>3, <4>1, <4>2
      <3> QED  BY <3>3, <3>4 DEF VersionsExact
    <2> QED  BY <2>6, <2>9
  <1>3. CASE UNCHANGED storeVars  BY <1>1, <1>3 DEF storeVars
  <1> QED  BY <1>1, <1>2, <1>3
           DEF StoreNext, Ingest, Hash, SourceGone, FindBlob, BlobCorrupted, OpenTemp, TempExists, Copy, VerifyCopy,
               CopyMismatch, Replace, Seal, Crash, CallFails, Restart, Rewrite, Rot

(* Types, whole blobs, stored rows and exact versions together.            *)
THEOREM StoreCorrect == StoreSpec => []StoreInv
  <1>1. StoreInv /\ [StoreNext]_storeVars => StoreInv'
    BY TypeStep, FilesStep, RowsStep DEF StoreInv
  <1> QED  BY <1>1, StoreInit1, PTL DEF StoreSpec

(* The store's type invariant.                                             *)
THEOREM StoreTypeCorrect == StoreSpec => []StoreTypeOK
  <1> QED  BY StoreCorrect, PTL DEF StoreInv

(* A blob has the content its address says, for any crashes and rewrites.  *)
THEOREM BlobsCorrect == StoreSpec => []BlobsAreWhole
  <1> QED  BY StoreCorrect, PTL DEF StoreInv

(* A committed row points to a stored blob.                                *)
THEOREM CommittedCorrect == StoreSpec => []CommittedIsStored
  <1> QED  BY StoreCorrect, PTL DEF StoreInv

(* One row per file and content; versions without gap or repetition.       *)
THEOREM VersionsCorrect == StoreSpec => []VersionsExact
  <1> QED  BY StoreCorrect, PTL DEF StoreInv

(* Damage that a call could have seen is never committed: of a damaged     *)
(* blob a row is made only if the damage came after the call's own look.   *)
THEOREM DamageFoundCorrect == StoreSpec => DamageIsFound
  <1> DEFINE Seen == \A row \in rows' \ rows : blob[row.digest] = row.digest \/ late
  <1>1. StoreInv /\ [StoreNext]_storeVars => Seen \/ UNCHANGED storeVars
    <2> SUFFICES ASSUME StoreInv, StoreNext PROVE Seen  BY DEF storeVars
    <2>1. CASE rows' = rows  BY <2>1
    <2>2. CASE InsertRow  BY <2>2 DEF InsertRow, At, StoreInv, Midway
    <2> QED  BY <2>1, <2>2
             DEF StoreNext, Ingest, Hash, SourceGone, FindBlob, BlobCorrupted, OpenTemp, TempExists, Copy,
                 VerifyCopy, CopyMismatch, Replace, Seal, Crash, CallFails, Restart, Rewrite, Rot
  <1> QED  BY <1>1, StoreCorrect, PTL DEF StoreSpec, DamageIsFound
-----------------------------------------------------------------------------
(* LitterIsAccounted leaves out whatever is in hand, so it says nothing of *)
(* a blob that an earlier crash left and this call has found.  No crash or *)
(* failure has paid yet for what this very call has made: its temporary    *)
(* file, and its blob until the row is in.  (A blob in hand at "row" that is still   *)
(* writable was made by another call.)                                     *)
OwnTemp(d, p) == d = digest /\ p = pid /\ step \in {"copy", "verify", "replace"}

OwnBlob(d) == d = digest /\ (step = "seal" \/ (step = "row" /\ sealed[d]))

PaidTemps == {t \in Contents \X Pids : temp[t[1]][t[2]] # None /\ ~OwnTemp(t[1], t[2])}

PaidBlobs ==
  {d \in Contents :
     blob[d] # None /\ (~sealed[d] \/ \A row \in rows : row.digest # d) /\ ~OwnBlob(d)}

Paid ==
  /\ IsFiniteSet(PaidTemps) /\ IsFiniteSet(PaidBlobs)
  /\ Cardinality(PaidTemps) + Cardinality(PaidBlobs) <= crashes + failures

(* Of two finite sets, subsets have no more elements together.             *)
LEMMA NoMore ==
  ASSUME NEW S, NEW T, IsFiniteSet(S), IsFiniteSet(T), NEW U \in SUBSET S, NEW V \in SUBSET T
  PROVE  /\ IsFiniteSet(U) /\ IsFiniteSet(V)
         /\ Cardinality(U) + Cardinality(V) \in Nat
         /\ Cardinality(U) + Cardinality(V) <= Cardinality(S) + Cardinality(T)
  <1>1. /\ IsFiniteSet(U) /\ IsFiniteSet(V)
        /\ Cardinality(U) <= Cardinality(S) /\ Cardinality(V) <= Cardinality(T)
    BY FS_Subset
  <1>2. /\ Cardinality(U) \in Nat /\ Cardinality(V) \in Nat
        /\ Cardinality(S) \in Nat /\ Cardinality(T) \in Nat
    BY <1>1, FS_CardinalityType
  <1> QED  BY <1>1, <1>2

(* And one more, when one of them got one more.                            *)
LEMMA OneMore ==
  ASSUME NEW S, NEW x, IsFiniteSet(S)
  PROVE  /\ IsFiniteSet(S \cup {x}) /\ Cardinality(S \cup {x}) \in Nat
         /\ Cardinality(S \cup {x}) <= Cardinality(S) + 1 /\ Cardinality(S) \in Nat
  <1>1. Cardinality(S) \in Nat  BY FS_CardinalityType
  <1>2. /\ IsFiniteSet(S \cup {x})
        /\ Cardinality(S \cup {x}) = IF x \in S THEN Cardinality(S) ELSE Cardinality(S) + 1
    BY FS_AddElement
  <1> QED  BY <1>1, <1>2

(* Nothing but a crash or a failing disk or database makes litter.         *)
LEMMA Tidy ==
  ASSUME StoreInv, [StoreNext]_storeVars, ~Crash, ~CallFails
  PROVE  /\ PaidTemps' \subseteq PaidTemps /\ PaidBlobs' \subseteq PaidBlobs
         /\ crashes' = crashes /\ failures' = failures
  <1> DEFINE TempsKept == \A d \in Contents, p \in Pids :
               temp'[d][p] # None /\ ~OwnTemp(d, p)' => temp[d][p] # None /\ ~OwnTemp(d, p)
             Litter(d) == ~sealed[d] \/ \A row \in rows : row.digest # d
             BlobsKept == \A d \in Contents :
               blob'[d] # None /\ Litter(d)' /\ ~OwnBlob(d)' => blob[d] # None /\ Litter(d) /\ ~OwnBlob(d)
             Goal == TempsKept /\ BlobsKept /\ crashes' = crashes /\ failures' = failures
  <1> SUFFICES Goal  BY DEF PaidTemps, PaidBlobs
  <1> USE StoreAssumption DEF StoreInv, StoreTypeOK, Steps, OwnTemp, OwnBlob, counters
  <1>1. CASE UNCHANGED storeVars  BY <1>1 DEF storeVars
  <1>2. ASSUME NEW f \in Files, Hash(f) PROVE Goal  BY <1>2 DEF Hash, At
  <1>3. ASSUME FindBlob \/ VerifyCopy PROVE Goal  BY <1>3 DEF FindBlob, VerifyCopy, At, GoTo
  <1>4. ASSUME SourceGone \/ BlobCorrupted \/ TempExists \/ CopyMismatch PROVE Goal
    BY <1>4 DEF SourceGone, BlobCorrupted, TempExists, CopyMismatch, At, Raise, Return
  <1>5. ASSUME OpenTemp \/ Copy PROVE Goal
    BY <1>5 DEF OpenTemp, Copy, TempInTheWay, At, GoTo
  <1>6. CASE Replace  BY <1>6 DEF Replace, At, GoTo
  <1>7. CASE Seal  BY <1>7 DEF Seal, At, GoTo
  <1>8. CASE InsertRow
    <2>1. /\ step = "row" /\ step' = "idle" /\ digest \in Contents
          /\ temp' = temp /\ blob' = blob /\ sealed' = sealed
          /\ crashes' = crashes /\ failures' = failures
      BY <1>8 DEF InsertRow, At, Return
    <2>2. PICK v : rows' = rows \cup {[file |-> cur, digest |-> digest, version |-> v]}
      BY <1>8 DEF InsertRow
    <2>3. TempsKept  BY <2>1
    <2>4. BlobsKept
      <3> SUFFICES ASSUME NEW d \in Contents, blob'[d] # None, Litter(d)' PROVE Litter(d) /\ ~OwnBlob(d)
        BY <2>1
      <3>1. CASE d = digest
        <4>1. \E row \in rows' : row.digest = d
          <5>1. [file |-> cur, digest |-> digest, version |-> v] \in rows'  BY <2>2
          <5>2. [file |-> cur, digest |-> digest, version |-> v].digest = d  BY <3>1
          <5> QED  BY <5>1, <5>2
        <4>2. ~sealed[d]  BY <2>1, <4>1
        <4> QED  BY <2>1, <4>2
      <3>2. CASE d # digest  BY <2>1, <2>2, <3>2
      <3> QED  BY <3>1, <3>2
    <2> QED  BY <2>1, <2>3, <2>4
  <1>9. CASE Restart  BY <1>9 DEF Restart
  <1>10. ASSUME NEW f \in Files, Rewrite(f) PROVE Goal  BY <1>10 DEF Rewrite
  <1>11. ASSUME NEW d \in Contents, Rot(d) PROVE Goal  BY <1>11 DEF Rot
  <1> QED  BY <1>1, <1>2, <1>3, <1>4, <1>5, <1>6, <1>7, <1>8, <1>9, <1>10, <1>11
           DEF StoreNext, Ingest

(* A process that ends in the middle of a call leaves at most what the call*)
(* had made by then, in one place.                                         *)
LEMMA EndLitters ==
  ASSUME StoreInv, Crash \/ CallFails
  PROVE  /\ crashes' \in Nat /\ failures' \in Nat
         /\ crashes' + failures' = crashes + failures + 1
         /\ \/ PaidTemps' \subseteq PaidTemps \cup {<<digest, pid>>} /\ PaidBlobs' \subseteq PaidBlobs
            \/ PaidTemps' \subseteq PaidTemps /\ PaidBlobs' \subseteq PaidBlobs \cup {digest}
  <1>1. step' = "idle" /\ blob' = blob /\ sealed' = sealed /\ rows' = rows
    BY DEF Crash, CallFails, Return
  <1>2. \A d \in Contents, p \in Pids : temp'[d][p] # None => temp[d][p] # None
    BY DEF Crash, CallFails, StoreInv, StoreTypeOK
  <1>3. /\ crashes' \in Nat /\ failures' \in Nat
        /\ crashes' + failures' = crashes + failures + 1
    <2>1. crashes \in Nat /\ failures \in Nat  BY DEF StoreInv, StoreTypeOK
    <2>2. \/ crashes' = crashes + 1 /\ failures' = failures
          \/ crashes' = crashes /\ failures' = failures + 1
      BY DEF Crash, CallFails
    <2> QED  BY <2>1, <2>2
  <1>4. CASE step \in {"copy", "verify", "replace"}
    BY <1>1, <1>2, <1>3, <1>4 DEF PaidTemps, PaidBlobs, OwnTemp, OwnBlob
  <1>5. CASE step \notin {"copy", "verify", "replace"}
    BY <1>1, <1>2, <1>3, <1>5 DEF PaidTemps, PaidBlobs, OwnTemp, OwnBlob
  <1> QED  BY <1>4, <1>5

LEMMA PaidStep ==
  ASSUME StoreInv, Paid, [StoreNext]_storeVars
  PROVE  Paid'
  <1>0. crashes \in Nat /\ failures \in Nat  BY DEF StoreInv, StoreTypeOK
  <1>1. CASE ~Crash /\ ~CallFails
    <2>1. /\ PaidTemps' \in SUBSET PaidTemps /\ PaidBlobs' \in SUBSET PaidBlobs
          /\ crashes' = crashes /\ failures' = failures
      BY <1>1, Tidy
    <2>2. /\ IsFiniteSet(PaidTemps') /\ IsFiniteSet(PaidBlobs')
          /\ Cardinality(PaidTemps') + Cardinality(PaidBlobs')
               <= Cardinality(PaidTemps) + Cardinality(PaidBlobs)
          /\ Cardinality(PaidTemps') + Cardinality(PaidBlobs') \in Nat
      BY <2>1, NoMore DEF Paid
    <2>3. Cardinality(PaidTemps) + Cardinality(PaidBlobs) \in Nat  BY NoMore DEF Paid
    <2> QED  BY <1>0, <2>1, <2>2, <2>3 DEF Paid
  <1>2. CASE Crash \/ CallFails
    <2>1. PICK S, T : /\ \/ S = PaidTemps \cup {<<digest, pid>>} /\ T = PaidBlobs
                         \/ S = PaidTemps /\ T = PaidBlobs \cup {digest}
                      /\ PaidTemps' \in SUBSET S /\ PaidBlobs' \in SUBSET T
      BY <1>2, EndLitters
    <2>2. /\ IsFiniteSet(S) /\ IsFiniteSet(T)
          /\ Cardinality(S) + Cardinality(T) <= Cardinality(PaidTemps) + Cardinality(PaidBlobs) + 1
          /\ Cardinality(S) + Cardinality(T) \in Nat
          /\ Cardinality(PaidTemps) + Cardinality(PaidBlobs) \in Nat
      <3>1. /\ IsFiniteSet(PaidTemps) /\ Cardinality(PaidTemps) \in Nat
            /\ IsFiniteSet(PaidBlobs) /\ Cardinality(PaidBlobs) \in Nat
        BY OneMore DEF Paid
      <3>2. CASE S = PaidTemps \cup {<<digest, pid>>} /\ T = PaidBlobs
        <4>1. /\ IsFiniteSet(S) /\ Cardinality(S) \in Nat
              /\ Cardinality(S) <= Cardinality(PaidTemps) + 1
          BY <3>1, <3>2, OneMore
        <4> QED  BY <3>1, <3>2, <4>1
      <3>3. CASE S = PaidTemps /\ T = PaidBlobs \cup {digest}
        <4>1. /\ IsFiniteSet(T) /\ Cardinality(T) \in Nat
              /\ Cardinality(T) <= Cardinality(PaidBlobs) + 1
          BY <3>1, <3>3, OneMore
        <4> QED  BY <3>1, <3>3, <4>1
      <3> QED  BY <2>1, <3>2, <3>3
    <2>3. /\ IsFiniteSet(PaidTemps') /\ IsFiniteSet(PaidBlobs')
          /\ Cardinality(PaidTemps') + Cardinality(PaidBlobs') <= Cardinality(S) + Cardinality(T)
          /\ Cardinality(PaidTemps') + Cardinality(PaidBlobs') \in Nat
      BY <2>1, <2>2, NoMore
    <2>4. /\ crashes' \in Nat /\ failures' \in Nat
          /\ crashes' + failures' = crashes + failures + 1
      BY <1>2, EndLitters
    <2>5. Cardinality(PaidTemps) + Cardinality(PaidBlobs) <= crashes + failures  BY DEF Paid
    <2>6. Cardinality(PaidTemps') + Cardinality(PaidBlobs') <= crashes' + failures'
      <3> DEFINE old == Cardinality(PaidTemps) + Cardinality(PaidBlobs)
                 mid == Cardinality(S) + Cardinality(T)
                 new == Cardinality(PaidTemps') + Cardinality(PaidBlobs')
                 killed == crashes'
                 failed == failures'
      <3>1. old \in Nat /\ mid \in Nat /\ new \in Nat  BY <2>2, <2>3
      <3>2. new <= mid /\ mid <= old + 1 /\ old <= crashes + failures  BY <2>2, <2>3, <2>5
      <3>3. killed \in Nat /\ failed \in Nat /\ killed + failed = crashes + failures + 1
        BY <2>4
      <3> HIDE DEF old, mid, new, killed, failed
      <3>4. new <= killed + failed  BY <1>0, <3>1, <3>2, <3>3
      <3> QED  BY <3>4 DEF new, killed, failed
    <2> QED  BY <2>3, <2>6 DEF Paid
  <1> QED  BY <1>1, <1>2

(* Each piece of litter was left by a killed process or a failed call of   *)
(* its own: no exception of ingest_file's, no repeated call and no other   *)
(* process's pid makes one more.                                           *)
THEOREM LitterCorrect == StoreSpec => []LitterIsAccounted
  <1>1. StoreInit => Paid
    <2> SUFFICES ASSUME StoreInit PROVE Paid  OBVIOUS
    <2>1. PaidTemps = {} /\ PaidBlobs = {} /\ crashes = 0 /\ failures = 0
      BY DEF StoreInit, PaidTemps, PaidBlobs
    <2> QED  BY <2>1, FS_EmptySet DEF Paid
  <1>2. StoreInv /\ Paid /\ [StoreNext]_storeVars => Paid'  BY PaidStep
  <1>3. StoreInv /\ Paid => LitterIsAccounted
    <2> SUFFICES ASSUME StoreInv, Paid PROVE LitterIsAccounted  OBVIOUS
    <2>1. LeftTemps \in SUBSET PaidTemps
      BY DEF LeftTemps, PaidTemps, OwnTemp
    <2>2. LeftBlobs \in SUBSET PaidBlobs
      BY DEF LeftBlobs, PaidBlobs, OwnBlob
    <2>3. /\ Cardinality(LeftTemps) + Cardinality(LeftBlobs)
               <= Cardinality(PaidTemps) + Cardinality(PaidBlobs)
          /\ Cardinality(LeftTemps) + Cardinality(LeftBlobs) \in Nat
          /\ Cardinality(PaidTemps) + Cardinality(PaidBlobs) \in Nat
      BY <2>1, <2>2, NoMore DEF Paid
    <2> QED  BY <2>3 DEF Paid, LitterIsAccounted, StoreInv, StoreTypeOK
  <1> QED  BY <1>1, <1>2, <1>3, StoreCorrect, PTL DEF StoreSpec
-----------------------------------------------------------------------------
(* Since the versions of a name are 1, 2, ... with none given twice, the   *)
(* highest of them is the number of its rows.                              *)
LEMMA HighestIsNumber ==
  ASSUME StoreInv, NEW f \in Files
  PROVE  NextVersion(f) = Cardinality(Shelves!Of(NameOf[f])) + 1
  <1> DEFINE S == Shelves!Of(NameOf[f])
             g == [row \in S |-> row.version]
  <1>1. PICK k \in Nat : Versions(NameOf[f]) = 1 .. k /\ NextVersion(f) = k + 1
    BY NextIsFree
  <1>2. S = {row \in rows : NameOf[row.file] = NameOf[f]}  BY DEF Shelves!Of
  <1>3. \A v : v \in 1 .. k <=> \E row \in S : row.version = v  BY <1>1, <1>2 DEF Versions
  <1>4. \A x, y \in S : x.version = y.version => x = y
    BY <1>2 DEF StoreInv, VersionsExact
  <1> HIDE DEF S
  <1>5. g \in Injection(S, 1 .. k)  BY <1>3, <1>4 DEF Injection, IsInjective
  <1>6. g \in Surjection(S, 1 .. k)  BY <1>3, <1>5 DEF Injection, Surjection
  <1>7. IsFiniteSet(1 .. k) /\ Cardinality(1 .. k) = k  BY FS_Interval
  <1> HIDE DEF g
  <1>8. Cardinality(S) = k  BY <1>5, <1>6, <1>7, FS_Injection
  <1> QED  BY <1>1, <1>8 DEF S

LEMMA CatalogStep ==
  ASSUME StoreInv, [StoreNext]_storeVars
  PROVE  [Shelves!CatalogNext]_(Shelves!catalog)
  <1> USE DEF Shelves!catalog
  <1>1. CASE InsertRow
    <2>1. /\ cur \in Files /\ digest \in Contents /\ blob[digest] # None
          /\ ~Ingested(cur, digest)
      BY <1>1 DEF InsertRow, At, StoreInv, StoreTypeOK, Midway
    <2>2. digest \in Stored  BY <2>1, StoreAssumption DEF Stored
    <2>3. Stored' = Stored  BY <1>1 DEF InsertRow, Stored
    <2>4. rows' = rows \cup {[file |-> cur, digest |-> digest,
                              version |-> Cardinality(Shelves!Of(NameOf[cur])) + 1]}
      BY <1>1, <2>1, HighestIsNumber DEF InsertRow
    <2>5. Shelves!Enter(cur, digest)
      <3>1. \A S : Shelves!Cardinality(S) = Cardinality(S)
        BY DEF Shelves!Cardinality, Cardinality
      <3> QED  BY <2>1, <2>2, <2>3, <2>4, <3>1 DEF Shelves!Enter, Ingested
    <2> QED  BY <2>1, <2>5 DEF Shelves!CatalogNext
  <1>2. CASE Replace
    <2>1. /\ digest \in Contents /\ temp[digest][pid] = digest /\ rows' = rows
          /\ blob \in [Contents -> Contents \cup {None, Rotten}]
      BY <1>2 DEF Replace, At, StoreInv, StoreTypeOK, Midway
    <2>2. blob' = [blob EXCEPT ![digest] = digest]  BY <1>2, <2>1 DEF Replace
    <2>3. Stored' = Stored \cup {digest}  BY <2>1, <2>2, StoreAssumption DEF Stored
    <2> QED  BY <2>1, <2>3 DEF Shelves!Keep, Shelves!CatalogNext
  <1>3. ASSUME NEW d \in Contents, Rot(d) PROVE UNCHANGED Shelves!catalog
    <2>1. /\ blob[d] # None /\ blob' = [blob EXCEPT ![d] = Rotten] /\ rows' = rows
          /\ blob \in [Contents -> Contents \cup {None, Rotten}]
      BY <1>3 DEF Rot, StoreInv, StoreTypeOK
    <2>2. Stored' = Stored  BY <2>1, StoreAssumption DEF Stored
    <2> QED  BY <2>1, <2>2
  <1>4. CASE blob' = blob /\ rows' = rows  BY <1>4 DEF Stored
  <1> QED  BY <1>1, <1>2, <1>3, <1>4
           DEF StoreNext, Ingest, Hash, SourceGone, FindBlob, BlobCorrupted, OpenTemp, TempExists, Copy, VerifyCopy,
               CopyMismatch, Seal, Crash, CallFails, Restart, Rewrite, storeVars

(* The store implements a catalogue: contents once stored stay at their    *)
(* address, rows neither change nor go, and each new row is for a stored   *)
(* content, once for its file, and is numbered by counting its name's.     *)
THEOREM CatalogCorrect == StoreSpec => ImplementsCatalog
  <1>1. StoreInit => Shelves!CatalogInit
    BY DEF StoreInit, Stored, Shelves!CatalogInit
  <1>2. StoreInv /\ [StoreNext]_storeVars => [Shelves!CatalogNext]_(Shelves!catalog)
    BY CatalogStep
  <1> QED  BY <1>1, <1>2, StoreCorrect, PTL DEF StoreSpec, ImplementsCatalog, Shelves!CatalogSpec

=============================================================================
