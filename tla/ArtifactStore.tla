----------------------------- MODULE ArtifactStore -----------------------------
(***************************************************************************)
(* ArtifactStore.ingest_file taken apart: the files that the steps of one  *)
(* ingestion leave on disk, the artifact rows of one project, and the      *)
(* controller processes that die between any two steps, or end with an     *)
(* exception of one: nothing above ingest_file catches it.  A content      *)
(* stands for itself and for its SHA-256 digest.                           *)
(***************************************************************************)
EXTENDS Naturals, FiniteSets

CONSTANTS
  Files,          \* what is ingested: a producer's file
  NameOf,         \* its logical name, under which versions are counted
  Contents,
  None,           \* no file; also: no process
  Torn,           \* a temporary file cut off while it was written
  Rotten,         \* a stored file that the disk has damaged
  CanRot,
  Pids,
  ReusePids,      \* a pid may come back while a temporary file bears it
  MaxCrashes, MaxFailures, MaxRewrites   \* bounds

ASSUME StoreAssumption ==
  /\ None \notin Files \cup Contents \cup Pids
  /\ Torn \notin Contents \cup {None, Rotten} /\ Rotten \notin Contents \cup {None}
ASSUME BoundsAssumption == MaxCrashes \in Nat /\ MaxFailures \in Nat /\ MaxRewrites \in Nat

VARIABLES
  source,     \* the content of each file in its workdir
  blob,       \* the file at a digest's destination: its content
  sealed,     \* it has mode 0444
  temp,       \* the temporary file of a digest and a pid
  rows,       \* the committed artifact rows
  pid,        \* the controller process
  step,       \* its position inside ingest_file
  cur, digest,    \* what it ingests, by the hash taken first
  late,           \* the blob in hand was damaged after the call had looked at it
  crashes,        \* processes killed
  failures,       \* calls ended by an error of the disk or the database
  rewrites

counters == <<crashes, failures, rewrites>>
storeVars == <<source, blob, sealed, temp, rows, pid, step, cur, digest, late, counters>>

StoreInit ==
  /\ source \in [Files -> Contents]
  /\ blob = [d \in Contents |-> None]
  /\ sealed = [d \in Contents |-> FALSE]
  /\ temp = [d \in Contents |-> [p \in Pids |-> None]]
  /\ rows = {}
  /\ pid \in Pids
  /\ step = "idle"
  /\ cur = None
  /\ digest = None
  /\ late = FALSE
  /\ crashes = 0 /\ failures = 0 /\ rewrites = 0

At(s) == pid # None /\ step = s

\* What a step does to the disk and the table is spelled out; the rest holds.
GoTo(s) == step' = s /\ UNCHANGED <<source, pid, cur, digest, late, counters>>

Return == step' = "idle" /\ cur' = None /\ digest' = None /\ late' = FALSE

\* An exception leaves the tick, and the process with it.
Raise ==
  /\ Return
  /\ pid' = None
  /\ UNCHANGED <<source, counters>>

Ingested(f, d) == \E row \in rows : row.file = f /\ row.digest = d

\* The hash of the source, and the row that would make the call a repetition.
Hash(f) ==
  /\ At("idle")
  /\ source[f] # None
  /\ IF Ingested(f, source[f])
       THEN UNCHANGED <<step, cur, digest>>
       ELSE step' = "look" /\ cur' = f /\ digest' = source[f]
  /\ UNCHANGED <<source, blob, sealed, temp, rows, pid, late, counters>>

\* The file is gone, before its hash or, a hash later, before its copy.
SourceGone ==
  /\ \/ At("idle") /\ \E f \in Files : source[f] = None
     \/ At("look") /\ blob[digest] = None /\ source[cur] = None
  /\ Raise
  /\ UNCHANGED <<blob, sealed, temp, rows>>

\* Mutant of BlobIsGood: a blob that exists is taken to be good.
MutBlobIsGood == blob[digest] # None

BlobIsGood == blob[digest] = digest

\* The file of an earlier ingestion, perhaps another job's, is shared.
FindBlob ==
  /\ At("look")
  /\ BlobIsGood
  /\ GoTo("row")
  /\ UNCHANGED <<blob, sealed, temp, rows>>

\* Mutant of BlobCorrupted: the bad file is cleared away.
MutBlobCorrupted ==
  /\ At("look")
  /\ blob[digest] # None
  /\ ~BlobIsGood
  /\ blob' = [blob EXCEPT ![digest] = None]
  /\ Raise
  /\ UNCHANGED <<sealed, temp, rows>>

\* A bad file at the address is an error, not a reason to copy again.
BlobCorrupted ==
  /\ At("look")
  /\ blob[digest] # None
  /\ ~BlobIsGood
  /\ Raise
  /\ UNCHANGED <<blob, sealed, temp, rows>>

\* Mutant of TempInTheWay: the name of the temporary file has no pid.
MutTempInTheWay == \E p \in Pids : temp[digest][p] # None

TempInTheWay == temp[digest][pid] # None

\* The source is opened, and then the copy: mode "xb" creates it, and raises if
\* there is one.
OpenTemp ==
  /\ At("look")
  /\ blob[digest] = None
  /\ source[cur] # None
  /\ ~TempInTheWay
  /\ temp' = [temp EXCEPT ![digest][pid] = Torn]
  /\ GoTo("copy")
  /\ UNCHANGED <<blob, sealed, rows>>

TempExists ==
  /\ At("look")
  /\ blob[digest] = None
  /\ source[cur] # None
  /\ TempInTheWay
  /\ Raise
  /\ UNCHANGED <<blob, sealed, temp, rows>>

\* What is copied is what the source holds by now; of a file that was unlinked,
\* whatever it held when it was opened.
Copy ==
  /\ At("copy")
  /\ \E c \in Contents :
       /\ source[cur] \in {c, None}
       /\ temp' = [temp EXCEPT ![digest][pid] = c]
  /\ GoTo("verify")
  /\ UNCHANGED <<blob, sealed, rows>>

\* Mutant of CopyIsGood: the copy is not hashed again.
MutCopyIsGood == TRUE

CopyIsGood == temp[digest][pid] = digest

VerifyCopy ==
  /\ At("verify")
  /\ CopyIsGood
  /\ GoTo("replace")
  /\ UNCHANGED <<blob, sealed, temp, rows>>

\* Mutant of CopyMismatch: the temporary file is left behind.
MutCopyMismatch ==
  /\ At("verify")
  /\ ~CopyIsGood
  /\ Raise
  /\ UNCHANGED <<blob, sealed, temp, rows>>

CopyMismatch ==
  /\ At("verify")
  /\ ~CopyIsGood
  /\ temp' = [temp EXCEPT ![digest][pid] = None]
  /\ Raise
  /\ UNCHANGED <<blob, sealed, rows>>

\* os.replace is atomic; chmod is a second call.
Replace ==
  /\ At("replace")
  /\ blob' = [blob EXCEPT ![digest] = temp[digest][pid]]
  /\ sealed' = [sealed EXCEPT ![digest] = FALSE]
  /\ temp' = [temp EXCEPT ![digest][pid] = None]
  /\ GoTo("seal")
  /\ UNCHANGED rows

Seal ==
  /\ At("seal")
  /\ sealed' = [sealed EXCEPT ![digest] = TRUE]
  /\ GoTo("row")
  /\ UNCHANGED <<blob, temp, rows>>

Versions(name) == {row.version : row \in {x \in rows : NameOf[x.file] = name}}

\* Mutant of NextVersion: versions are counted per producer.
MutNextVersion(f) == Cardinality({row \in rows : row.file = f}) + 1

\* max(version), or 0
CurrentVersion(name) ==
  CHOOSE v \in Versions(name) \cup {0} : \A x \in Versions(name) : x <= v

\* Mutant of NextVersion: the version that is current, or 0, is given again.
MutCurrentVersion(f) == CurrentVersion(NameOf[f])

NextVersion(f) == CurrentVersion(NameOf[f]) + 1

\* The insert and the commit: the reconciler's transaction is for one file.
InsertRow ==
  /\ At("row")
  /\ rows' = rows \cup {[file |-> cur, digest |-> digest, version |-> NextVersion(cur)]}
  /\ Return
  /\ UNCHANGED <<source, blob, sealed, temp, pid, counters>>

Ingest ==
  \/ \E f \in Files : Hash(f)
  \/ SourceGone \/ FindBlob \/ BlobCorrupted \/ OpenTemp \/ TempExists \/ Copy
  \/ VerifyCopy \/ CopyMismatch \/ Replace \/ Seal \/ InsertRow

\* An OSError or an error of the database.  The transaction is rolled back, and
\* only os.replace stands in a try ... finally that removes the copy.
CallFails ==
  /\ pid # None /\ step # "idle"
  /\ failures < MaxFailures
  /\ failures' = failures + 1
  /\ temp' = IF step = "replace" THEN [temp EXCEPT ![digest][pid] = None] ELSE temp
  /\ pid' = None
  /\ Return
  /\ UNCHANGED <<source, blob, sealed, rows, crashes, rewrites>>

\* The process dies; files and rows stay.
Crash ==
  /\ pid # None
  /\ crashes < MaxCrashes
  /\ crashes' = crashes + 1
  /\ pid' = None
  /\ Return
  /\ UNCHANGED <<source, blob, sealed, temp, rows, failures, rewrites>>

Restart ==
  /\ pid = None
  /\ \E p \in Pids :
       /\ ReusePids \/ \A d \in Contents : temp[d][p] = None
       /\ pid' = p
  /\ UNCHANGED <<source, blob, sealed, temp, rows, step, cur, digest, late, counters>>

\* A process that is left of a workload rewrites the file, or removes it.
Rewrite(f) ==
  /\ rewrites < MaxRewrites
  /\ rewrites' = rewrites + 1
  /\ \E c \in (Contents \cup {None}) \ {source[f]} : source' = [source EXCEPT ![f] = c]
  /\ UNCHANGED <<blob, sealed, temp, rows, pid, step, cur, digest, late, crashes, failures>>

\* The disk damages a stored file, at any time.
Rot(d) ==
  /\ CanRot
  /\ blob[d] \notin {None, Rotten}
  /\ blob' = [blob EXCEPT ![d] = Rotten]
  /\ late' = (late \/ (d = digest /\ step \in {"seal", "row"}))
  /\ UNCHANGED <<source, sealed, temp, rows, pid, step, cur, digest, counters>>

StoreNext ==
  \/ Ingest \/ CallFails \/ Crash \/ Restart
  \/ \E f \in Files : Rewrite(f)
  \/ \E d \in Contents : Rot(d)

StoreSpec == StoreInit /\ [][StoreNext]_storeVars

\* The controller is scheduled and started again, and collects every file.
StoreFairness ==
  /\ WF_storeVars(Ingest /\ step # "idle") /\ WF_storeVars(Restart)
  /\ \A f \in Files : SF_storeVars(Hash(f))
-----------------------------------------------------------------------------
Steps == {"idle", "look", "copy", "verify", "replace", "seal", "row"}

StoreTypeOK ==
  /\ source \in [Files -> Contents \cup {None}]
  /\ blob \in [Contents -> Contents \cup {None, Rotten}]
  /\ sealed \in [Contents -> BOOLEAN]
  /\ temp \in [Contents -> [Pids -> Contents \cup {None, Torn}]]
  /\ rows \in SUBSET [file : Files, digest : Contents, version : Nat \ {0}]
  /\ pid \in Pids \cup {None}
  /\ step \in Steps
  /\ step = "idle" <=> cur = None
  /\ IF step = "idle" THEN digest = None ELSE cur \in Files /\ digest \in Contents /\ pid # None
  /\ late \in BOOLEAN
  /\ crashes \in Nat /\ failures \in Nat /\ rewrites \in Nat

(* The file at a digest's address was stored with the content of that      *)
(* digest: no crash leaves half a copy there, and a source rewritten       *)
(* between its hash and its copy is never stored under the wrong name.     *)
BlobsAreWhole == \A d \in Contents : blob[d] \in {None, d, Rotten}

(* A committed row points to a stored blob, whatever died after it.        *)
CommittedIsStored == \A row \in rows : blob[row.digest] # None

(* Damage that is there when a call looks is found: a row is committed for *)
(* a damaged blob only if the damage fell between the look of that very    *)
(* call and its commit, although the blob may be one that another file's   *)
(* ingestion stored long before.  Later damage, nothing in the code sees.  *)
DamageIsFound ==
  [][\A row \in rows' \ rows : blob[row.digest] = row.digest \/ late]_storeVars

(* Retried ingestions are exact: one row per file and content, and the     *)
(* rows of a logical name are its versions 1, 2, ..., none given twice.    *)
VersionsExact ==
  /\ \A x, y \in rows : x.file = y.file /\ x.digest = y.digest => x = y
  /\ \A x, y \in rows : NameOf[x.file] = NameOf[y.file] /\ x.version = y.version => x = y
  /\ \A x \in rows : 1 .. x.version \subseteq Versions(NameOf[x.file])

LeftTemps == {t \in Contents \X Pids : temp[t[1]][t[2]] # None /\ t # <<digest, pid>>}

LeftBlobs ==
  {d \in Contents :
     blob[d] # None /\ d # digest /\ (~sealed[d] \/ \A row \in rows : row.digest # d)}

(* What an ingestion leaves behind on disk (a temporary file, a blob no    *)
(* row names, a blob that is still writable) was left by a process that    *)
(* was killed or by a call that the disk or the database failed, one piece *)
(* for each at most: the exceptions that ingest_file raises itself clean up*)
(* after themselves, and no repeated call makes more of it.                *)
LitterIsAccounted == Cardinality(LeftTemps) + Cardinality(LeftBlobs) <= crashes + failures

\* No stored file is damaged.
Undamaged == [](\A d \in Contents : blob[d] # Rotten)

\* No controller has the pid of a temporary file that a dead one left.
FreshPids == [](At("look") => temp[digest][pid] = None)

(* Each file that is not gone for good comes to have a row, although       *)
(* controllers die and calls fail at any step and files are rewritten and  *)
(* removed under the copy.  Both conditions are needed: the code never     *)
(* repairs a damaged blob, and never removes a temporary file.             *)
EverythingIngested ==
  Undamaged /\ FreshPids =>
    \A f \in Files : <>(\E row \in rows : row.file = f) \/ <>[](source[f] = None)

Stored == {d \in Contents : blob[d] # None}

(* Crashes and errors at any step, repeated calls, rewritten sources and   *)
(* damaged disks do not show in the catalogue: a content once stored stays *)
(* at its address, a row never changes or goes, and each new row is for a  *)
(* stored content, is the only one for it and its file, and counts the     *)
(* rows of its name, although the code takes the highest version instead.  *)
Shelves == INSTANCE Catalog WITH kept <- Stored, entries <- rows

ImplementsCatalog == Shelves!CatalogSpec
=============================================================================
