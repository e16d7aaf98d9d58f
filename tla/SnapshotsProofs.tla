---------------------------- MODULE SnapshotsProofs ----------------------------
(***************************************************************************)
(* Theorems about Snapshots, for any requests, retention, days, number of  *)
(* jobs and set of disturbances.                                           *)
(*                                                                         *)
(* SealedIsWhole and NewestIsKept are about steps.  What a step needs to   *)
(* know is what earlier steps of the same job have done to its directory   *)
(* (Progress), and that a job's directory is the newest (NoneIsNewer).     *)
(* ContentIsForgotten relates what was copied to what is live: ForgetInv,  *)
(* in the second part.                                                     *)
(***************************************************************************)
EXTENDS Snapshots, WellFoundedInduction, TLAPS

-----------------------------------------------------------------------------
LiveTyped ==
  /\ day \in Days /\ up \in BOOLEAN /\ purged \in BOOLEAN
  /\ db \in Database
  /\ done \in [Requests -> Days]
  /\ \A r \in Requests : done[r] <= day /\ db[r].closedAt <= day

JobTyped ==
  /\ dirs \in [Paths -> Directory]
  /\ job \in [step: Steps, path: 0..MaxSnapshots]
  /\ rotated \in Days /\ rotated <= day

\* What a directory holds is of the past.
Past(dir) == dir.createdAt <= day /\ \A r \in Requests : dir.db[r].closedAt <= day

AllPast == \A p \in Paths : Past(dirs[p])

NoneIsNewer == \A p \in Paths : p > job.path => dirs[p] = NoDirectory

Progress ==
  job.step # "idle" =>
    /\ job.path \in Paths
    /\ Dir.state = IF job.step = "rotate" THEN "final" ELSE "tmp"
    /\ job.step \in {"backup", "copy", "seal"} => ~Dir.sealed
    /\ job.step \in {"copy", "seal"} => Dir.hasDb
    /\ job.step = "seal" => Dir.files
    /\ job.step \in {"verify", "rotate"} => IsWhole(Dir)

SnapshotsInv == LiveTyped /\ JobTyped /\ AllPast /\ NoneIsNewer /\ Progress

-----------------------------------------------------------------------------
\* The empty rows and directories are typed and hold nothing.
LEMMA NoFacts ==
  /\ 0 \in Days /\ NoRow \in Row
  /\ [r \in Requests |-> NoRow] \in Database
  /\ NoDirectory \in Directory /\ NoDirectory.state = "absent" /\ ~NoDirectory.sealed
  /\ \A r \in Requests : NoDirectory.db[r].closedAt = 0
  /\ NoDirectory.createdAt = 0
<1>1. 0 \in Days /\ NoRow \in Row /\ NoRow.closedAt = 0
  BY SnapshotsAssumption DEF Days, Row, NoRow
<1>2. [r \in Requests |-> NoRow] \in Database
  BY <1>1 DEF Database
<1>3. 0 \in 0..MaxDay + RetentionDays
  BY SnapshotsAssumption
<1>4. NoDirectory \in Directory
  BY <1>1, <1>2, <1>3 DEF NoDirectory, Directory
<1> QED
  BY <1>1, <1>2, <1>4 DEF NoDirectory

\* Nothing was copied at the start.
LEMMA SnapshotsInit_Inv == Init => SnapshotsInv
<1> SUFFICES ASSUME Init PROVE SnapshotsInv
  OBVIOUS
<1>1. LiveTyped
  BY NoFacts DEF Init, LiveTyped, NoRow
<1>2. JobTyped
  BY NoFacts, SnapshotsAssumption DEF Init, JobTyped, Steps
<1>3. AllPast
  BY NoFacts DEF Init, AllPast, Past
<1>4. NoneIsNewer /\ Progress
  BY NoFacts DEF Init, NoneIsNewer, Progress
<1> QED
  BY <1>1, <1>2, <1>3, <1>4 DEF SnapshotsInv

-----------------------------------------------------------------------------
(* The service: directories and job stay as they are.                      *)

\* The directories and the job stay as they are while time passes.
LEMMA BackupUnchanged ==
  ASSUME SnapshotsInv, UNCHANGED <<dirs, job, rotated>>, day' \in Days, day' >= day
  PROVE  JobTyped' /\ AllPast' /\ NoneIsNewer' /\ Progress'
<1> USE DEF SnapshotsInv
<1>1. JobTyped'
  BY DEF JobTyped, LiveTyped, Days
<1>2. AllPast'
  <2> SUFFICES ASSUME NEW p \in Paths PROVE Past(dirs[p])'
    BY DEF AllPast
  <2>1. dirs[p] \in Directory /\ Past(dirs[p])
    BY DEF JobTyped, AllPast
  <2>2. dirs[p].createdAt \in Nat /\ day \in Nat /\ day' \in Nat
    BY <2>1 DEF Directory, Days, LiveTyped
  <2>3. \A r \in Requests : dirs[p].db[r].closedAt \in Nat
    BY <2>1 DEF Directory, Database, Row, Days
  <2> QED
    BY <2>1, <2>2, <2>3 DEF Past
<1>3. NoneIsNewer' /\ Progress'
  BY DEF NoneIsNewer, Progress, Dir
<1> QED
  BY <1>1, <1>2, <1>3

\* The live database changes.
LEMMA SetDbStep ==
  ASSUME SnapshotsInv, NEW d \in Database, SetDb(d),
         \A r \in Requests : d[r].closedAt <= day,
         up' \in BOOLEAN, purged' \in BOOLEAN, UNCHANGED <<day, dirs, job, rotated>>
  PROVE  SnapshotsInv'
<1>1. LiveTyped /\ day \in Days /\ day' \in Days
  BY DEF SnapshotsInv, LiveTyped
<1>2. db' = d
  BY DEF SetDb
<1>3. \A r \in Requests : done'[r] \in {day, done[r]}
  BY DEF SetDb, DoneIn
<1>4. done' \in [Requests -> Days] /\ \A r \in Requests : done'[r] <= day
  BY <1>1, <1>3 DEF SetDb, DoneIn, LiveTyped, Days
<1>5. LiveTyped'
  BY <1>1, <1>2, <1>4 DEF LiveTyped
<1>6. day' >= day
  BY <1>1 DEF Days
<1> QED
  BY <1>1, <1>5, <1>6, BackupUnchanged DEF SnapshotsInv

\* One row of it changes.
LEMMA RowChange ==
  ASSUME SnapshotsInv, NEW r \in Requests, NEW row \in Row, row.closedAt <= day,
         SetDb([db EXCEPT ![r] = row]), UNCHANGED <<day, up, purged, dirs, job, rotated>>
  PROVE  SnapshotsInv'
<1> DEFINE d == [db EXCEPT ![r] = row]
<1>1. db \in Database /\ \A q \in Requests : db[q].closedAt <= day
  BY DEF SnapshotsInv, LiveTyped
<1>2. d \in Database /\ \A q \in Requests : d[q].closedAt <= day
  BY <1>1 DEF Database
<1>3. SetDb(d) /\ UNCHANGED <<day, dirs, job, rotated>>
  OBVIOUS
<1>4. up' \in BOOLEAN /\ purged' \in BOOLEAN
  BY DEF SnapshotsInv, LiveTyped
<1> HIDE DEF d
<1> QED
  BY <1>2, <1>3, <1>4, SetDbStep

\* What the service does to one request.
LEMMA RequestStep ==
  ASSUME SnapshotsInv, NEW r \in Requests,
         Open(r) \/ Reply(r) \/ Deliver(r) \/ Close(r) \/ Reopen(r) \/ Acknowledge(r)
  PROVE  SnapshotsInv'
<1>1. /\ db \in [Requests -> Row] /\ db[r] \in Row /\ db[r].closedAt <= day
      /\ day \in Days /\ 0 \in Days /\ day >= 0
  BY NoFacts DEF SnapshotsInv, LiveTyped, Database, Days
<1>2. UNCHANGED <<day, up, purged, dirs, job, rotated>>
  BY DEF Open, Reply, Deliver, Close, Reopen, Acknowledge
<1>3. CASE Open(r)
  <2> DEFINE row == [NoRow EXCEPT !.status = "active", !.content = TRUE]
  <2>1. row \in Row /\ row.closedAt <= day
    BY <1>1 DEF NoRow, Row
  <2>2. SetDb([db EXCEPT ![r] = row])
    BY <1>3 DEF Open
  <2> QED
    BY <1>2, <2>1, <2>2, RowChange
<1>4. CASE Reply(r) \/ Acknowledge(r)
  <2> DEFINE row == [db[r] EXCEPT !.unfinished = TRUE, !.content = TRUE]
  <2>1. row \in Row /\ row.closedAt <= day
    BY <1>1 DEF Row
  <2>2. [db EXCEPT ![r].unfinished = TRUE, ![r].content = TRUE] = [db EXCEPT ![r] = row]
    BY <1>1
  <2>3. SetDb([db EXCEPT ![r] = row])
    BY <1>4, <2>2 DEF Reply, Acknowledge
  <2> QED
    BY <1>2, <2>1, <2>3, RowChange
<1>5. CASE Deliver(r)
  <2> DEFINE row == [db[r] EXCEPT !.unfinished = FALSE]
  <2>1. row \in Row /\ row.closedAt <= day
    BY <1>1 DEF Row
  <2>2. SetDb([db EXCEPT ![r] = row])
    BY <1>1, <1>5 DEF Deliver
  <2> QED
    BY <1>2, <2>1, <2>2, RowChange
<1>6. CASE Close(r)
  <2> DEFINE row == [db[r] EXCEPT !.status = "closed", !.closedAt = day]
  <2>0. day <= day
    BY <1>1 DEF Days
  <2>1. row \in Row /\ row.closedAt <= day
    BY <1>1, <2>0 DEF Row
  <2>2. [db EXCEPT ![r].status = "closed", ![r].closedAt = day] = [db EXCEPT ![r] = row]
    BY <1>1
  <2>3. SetDb([db EXCEPT ![r] = row])
    BY <1>6, <2>2 DEF Close
  <2> QED
    BY <1>2, <2>1, <2>3, RowChange
<1>7. CASE Reopen(r)
  <2> DEFINE row == [db[r] EXCEPT !.status = "active", !.closedAt = 0]
  <2>1. row \in Row /\ row.closedAt <= day
    BY <1>1 DEF Row
  <2>2. [db EXCEPT ![r].status = "active", ![r].closedAt = 0] = [db EXCEPT ![r] = row]
    BY <1>1
  <2>3. SetDb([db EXCEPT ![r] = row])
    BY <1>7, <2>2 DEF Reopen
  <2> QED
    BY <1>2, <2>1, <2>3, RowChange
<1> QED
  BY <1>3, <1>4, <1>5, <1>6, <1>7

\* A purge keeps the rows typed.
LEMMA PurgeContentFacts ==
  ASSUME SnapshotsInv
  PROVE  /\ PurgeContent(db, day) \in Database
         /\ \A r \in Requests : PurgeContent(db, day)[r].closedAt <= day
<1>1. db \in [Requests -> Row] /\ \A r \in Requests : db[r].closedAt <= day
  BY DEF SnapshotsInv, LiveTyped, Database
<1>2. ASSUME NEW r \in Requests
      PROVE  PurgeContent(db, day)[r] \in Row /\ PurgeContent(db, day)[r].closedAt <= day
  BY <1>1 DEF PurgeContent, Row
<1> QED
  BY <1>2 DEF PurgeContent, Database

\* The purges, the clock, and the service that starts and stops.
LEMMA LiveStep ==
  ASSUME SnapshotsInv, Purge \/ Start \/ Stop \/ NextDay
  PROVE  SnapshotsInv'
<1>1. LiveTyped
  BY DEF SnapshotsInv
<1>2. CASE Purge \/ Start
  <2>1. /\ SetDb(PurgeContent(db, day)) /\ purged' = TRUE /\ up' \in BOOLEAN
        /\ UNCHANGED <<day, dirs, job, rotated>>
    BY <1>1, <1>2 DEF Purge, Start, LiveTyped
  <2> QED
    BY <2>1, PurgeContentFacts, SetDbStep
<1>3. CASE Stop
  <2>1. LiveTyped' /\ UNCHANGED <<day, dirs, job, rotated>>
    BY <1>1, <1>3 DEF Stop, LiveTyped
  <2>2. day' \in Days /\ day' >= day
    BY <1>1, <2>1 DEF LiveTyped, Days
  <2> QED
    BY <2>1, <2>2, BackupUnchanged DEF SnapshotsInv
<1>4. CASE NextDay
  <2>1. day' \in Days /\ day' >= day /\ UNCHANGED <<dirs, job, rotated>>
    BY <1>1, <1>4, SnapshotsAssumption DEF NextDay, LiveTyped, Days
  <2>2. \A r \in Requests : done[r] \in Nat /\ db[r].closedAt \in Nat
    BY <1>1 DEF LiveTyped, Days, Database, Row
  <2>3. \A r \in Requests : done[r] <= day' /\ db[r].closedAt <= day'
    BY <1>1, <2>1, <2>2 DEF LiveTyped, Days
  <2>4. up' = up /\ db' = db /\ done' = done /\ purged' = FALSE
    BY <1>4 DEF NextDay
  <2>5. LiveTyped'
    BY <1>1, <2>1, <2>3, <2>4 DEF LiveTyped
  <2> QED
    BY <2>1, <2>5, BackupUnchanged DEF SnapshotsInv
<1> QED
  BY <1>2, <1>3, <1>4

\* A restore brings a database that was live before.
LEMMA RestoreStep ==
  ASSUME SnapshotsInv, NEW p \in Paths, Restore(p)
  PROVE  SnapshotsInv'
<1>1. dirs[p].db \in Database /\ \A r \in Requests : dirs[p].db[r].closedAt <= day
  BY DEF SnapshotsInv, JobTyped, Directory, AllPast, Past
<1>2. /\ SetDb(dirs[p].db) /\ UNCHANGED <<day, dirs, job, rotated>>
      /\ up' \in BOOLEAN /\ purged' \in BOOLEAN
  BY DEF Restore, SnapshotsInv, LiveTyped
<1> QED
  BY <1>1, <1>2, SetDbStep

-----------------------------------------------------------------------------
(* The backup job.                                                         *)

\* A nonempty set of numbers has a least one.
LEMMA Least ==
  ASSUME NEW S \in SUBSET Nat, S # {}
  PROVE  (CHOOSE d \in S : \A e \in S : d <= e) \in S
<1>1. PICK x \in S : \A y \in S : ~ (<<y, x>> \in OpToRel(<, Nat))
  BY WFMin, NatLessThanWellFounded, Zenon
<1>2. \A y \in S : ~(y < x)
  BY <1>1, Zenon DEF OpToRel
<1>3. \A y \in S : x <= y
  BY <1>2
<1> QED
  BY <1>3

\* The day a manifest names is a day.
LEMMA ExpirationTyped ==
  ASSUME NEW dir \in Directory
  PROVE  CalculateSnapshotExpiration(dir) \in 0..MaxDay + RetentionDays
<1> DEFINE closed == {dir.db[r].closedAt :
                        r \in {q \in Requests : Finished(dir.db[q]) /\ dir.db[q].content}}
           days == {d + RetentionDays : d \in closed \cup {dir.createdAt}}
<1>1. closed \cup {dir.createdAt} \subseteq Days
  <2>1. \A r \in Requests : dir.db[r].closedAt \in Days
    BY DEF Directory, Database, Row
  <2>2. dir.createdAt \in Days
    BY DEF Directory
  <2> QED
    BY <2>1, <2>2
<1>2. days \subseteq 0..MaxDay + RetentionDays
  <2>1. \A d \in Days : d + RetentionDays \in 0..MaxDay + RetentionDays
    BY SnapshotsAssumption DEF Days
  <2> HIDE DEF closed
  <2> QED
    BY <1>1, <2>1
<1>3. days # {} /\ days \in SUBSET Nat
  BY <1>2, SnapshotsAssumption
<1>4. (CHOOSE d \in days : \A e \in days : d <= e) \in days
  BY <1>3, Least
<1> QED
  BY <1>2, <1>4 DEF CalculateSnapshotExpiration

\* The job writes to its directory, or a directory is deleted.
LEMMA OneDirectory ==
  ASSUME SnapshotsInv, NEW q \in Paths, NEW dir \in Directory,
         dirs' = [dirs EXCEPT ![q] = dir], Past(dir),
         job' \in [step: Steps, path: 0..MaxSnapshots],
         \A p \in Paths : p > job'.path =>
           p > job.path /\ (p = q => dir = NoDirectory),
         UNCHANGED Service, rotated' \in Days, rotated' <= day,
         Progress'
  PROVE  SnapshotsInv'
<1>1. LiveTyped' /\ UNCHANGED day
  BY DEF SnapshotsInv, LiveTyped, Service
<1>2. JobTyped'
  BY <1>1 DEF SnapshotsInv, JobTyped
<1>3. \A p \in Paths : dirs'[p] = IF p = q THEN dir ELSE dirs[p]
  BY DEF SnapshotsInv, JobTyped
<1>4. AllPast'
  BY <1>1, <1>3 DEF SnapshotsInv, AllPast, Past
<1>5. NoneIsNewer'
  BY <1>3 DEF SnapshotsInv, NoneIsNewer
<1> QED
  BY <1>1, <1>2, <1>4, <1>5 DEF SnapshotsInv

\* A later step of the job writes to its directory.
LEMMA WriteStep ==
  ASSUME SnapshotsInv, job.step \in Steps \ {"idle"}, NEW step \in Steps,
         NEW dir \in Directory, Past(dir),
         dirs' = [dirs EXCEPT ![job.path] = dir], job' = [job EXCEPT !.step = step],
         UNCHANGED <<Service, rotated>>,
         step # "idle" =>
           /\ dir.state = IF step = "rotate" THEN "final" ELSE "tmp"
           /\ step \in {"backup", "copy", "seal"} => ~dir.sealed
           /\ step \in {"copy", "seal"} => dir.hasDb
           /\ step = "seal" => dir.files
           /\ step \in {"verify", "rotate"} => IsWhole(dir)
  PROVE  SnapshotsInv'
<1>1. job.path \in Paths /\ job \in [step: Steps, path: 0..MaxSnapshots]
  BY DEF SnapshotsInv, Progress, JobTyped
<1>2. /\ job' \in [step: Steps, path: 0..MaxSnapshots]
      /\ job'.path = job.path /\ job'.step = step
  BY <1>1
<1>3. dirs'[job.path] = dir
  BY <1>1 DEF SnapshotsInv, JobTyped
<1>4. Progress'
  BY <1>1, <1>2, <1>3 DEF Progress, Dir
<1>5. \A p \in Paths : p > job'.path => p > job.path /\ p # job.path
  BY <1>1, <1>2 DEF Paths
<1>6. rotated' \in Days /\ rotated' <= day
  BY DEF SnapshotsInv, JobTyped
<1> QED
  BY <1>1, <1>2, <1>4, <1>5, <1>6, OneDirectory

\* The directory of the job that runs.
LEMMA DirFacts ==
  ASSUME SnapshotsInv, job.step # "idle"
  PROVE  /\ job.path \in Paths /\ Dir \in Directory /\ Past(Dir)
         /\ day \in Days /\ day + RetentionDays \in 0..MaxDay + RetentionDays
         /\ db \in Database /\ \A r \in Requests : db[r].closedAt <= day
         /\ job.step \in {"verify", "rotate"} => IsWhole(Dir)
         /\ Dir.state = IF job.step = "rotate" THEN "final" ELSE "tmp"
<1>1. job.path \in Paths /\ Dir.state = IF job.step = "rotate" THEN "final" ELSE "tmp"
  BY DEF SnapshotsInv, Progress
<1>2. Dir \in Directory /\ Past(Dir)
  BY <1>1 DEF SnapshotsInv, JobTyped, AllPast, Dir
<1>3. day \in Days /\ db \in Database /\ \A r \in Requests : db[r].closedAt <= day
  BY DEF SnapshotsInv, LiveTyped
<1>4. day + RetentionDays \in 0..MaxDay + RetentionDays
  BY <1>3, SnapshotsAssumption DEF Days
<1>5. job.step \in {"verify", "rotate"} => IsWhole(Dir)
  BY DEF SnapshotsInv, Progress
<1> QED
  BY <1>1, <1>2, <1>3, <1>4, <1>5

\* What a step does to the directories, as far as SealedIsWhole and NewestIsKept
\* are concerned.
Careful ==
  \A p \in Paths :
    \/ dirs'[p] = dirs[p]
    \/ /\ dirs[p].state # "final" /\ ~dirs[p].sealed
       /\ dirs'[p].sealed => IsWhole(dirs'[p])
    \/ /\ dirs[p].state = "tmp"
       /\ dirs'[p].sealed => dirs[p].sealed
    \/ /\ dirs[p].expiresAt <= day
       /\ dirs'[p].sealed => dirs[p].sealed
       /\ \E q \in Paths : q > p /\ dirs'[q].state = "final" /\ IsWhole(dirs'[q])

\* A job begins with an empty directory, the newest.
LEMMA CreateSnapshotStep ==
  ASSUME SnapshotsInv, CreateSnapshot
  PROVE  SnapshotsInv' /\ Careful
<1> DEFINE q == job.path + 1
           dir == Touched([NoDirectory EXCEPT !.state = "tmp", !.createdAt = day])
<1>1. /\ job.path < MaxSnapshots /\ job' = [step |-> "backup", path |-> q]
      /\ dirs' = [dirs EXCEPT ![q] = dir]
      /\ UNCHANGED <<Service, rotated>>
  BY DEF CreateSnapshot
<1>2. job.path \in 0..MaxSnapshots /\ day \in Days
  BY DEF SnapshotsInv, JobTyped, LiveTyped
<1>3. q \in Paths /\ q \in 0..MaxSnapshots /\ q > job.path
  BY <1>1, <1>2, SnapshotsAssumption DEF Paths
<1>4. day + RetentionDays \in 0..MaxDay + RetentionDays /\ day <= day /\ 0 <= day
  BY <1>2, SnapshotsAssumption DEF Days
<1>5. /\ dir \in Directory /\ dir.state = "tmp" /\ ~dir.sealed
      /\ dir.createdAt = day /\ dir.db = NoDirectory.db
  BY <1>2, <1>4, NoFacts DEF Touched, Directory
<1>6. Past(dir)
  BY <1>4, <1>5, NoFacts DEF Past
<1>7. dirs'[q] = dir /\ dirs[q] = NoDirectory
  BY <1>1, <1>3 DEF SnapshotsInv, JobTyped, NoneIsNewer
<1> HIDE DEF dir
<1>8. /\ job' \in [step: Steps, path: 0..MaxSnapshots]
      /\ job'.path = q /\ job'.step = "backup"
  BY <1>1, <1>3 DEF Steps
<1>9. Progress'
  BY <1>3, <1>5, <1>7, <1>8 DEF Progress, Dir
<1>10. \A p \in Paths : p > job'.path => p > job.path /\ p # q
  BY <1>2, <1>3, <1>8 DEF Paths
<1>11. rotated' \in Days /\ rotated' <= day
  BY <1>1 DEF SnapshotsInv, JobTyped
<1>12. SnapshotsInv'
  <2> HIDE DEF q
  <2> QED
    BY <1>1, <1>3, <1>5, <1>6, <1>8, <1>9, <1>10, <1>11, OneDirectory
<1>13. Careful
  <2> HIDE DEF q
  <2>1. \A p \in Paths \ {q} : dirs'[p] = dirs[p]
    BY <1>1 DEF SnapshotsInv, JobTyped
  <2> QED
    BY <1>5, <1>7, <2>1, NoFacts DEF Careful
<1> QED
  BY <1>12, <1>13

\* The steps that write to the directory before it is complete.
LEMMA CopyStep ==
  ASSUME SnapshotsInv, CreateBackup \/ CopyOptionalStateFiles
  PROVE  SnapshotsInv' /\ Careful
<1>1. job.step \in {"backup", "copy"}
  BY DEF CreateBackup, CopyOptionalStateFiles
<1>2. ~Dir.sealed /\ (job.step = "copy" => Dir.hasDb) /\ Dir.state = "tmp"
  BY <1>1, DirFacts DEF SnapshotsInv, Progress
<1>3. PICK dir, step :
         /\ Write(dir, step)
         /\ \/ /\ job.step = "backup" /\ step = "copy"
               /\ dir = Touched([Dir EXCEPT !.hasDb = TRUE, !.db = db])
            \/ /\ job.step = "copy" /\ step = "seal"
               /\ dir = Touched([Dir EXCEPT !.files = TRUE])
  BY DEF CreateBackup, CopyOptionalStateFiles
<1>4. /\ dir \in Directory /\ dir.state = "tmp" /\ ~dir.sealed
      /\ dir.hasDb /\ (step = "seal" => dir.files)
      /\ dir.createdAt = Dir.createdAt /\ dir.db \in {db, Dir.db}
  BY <1>1, <1>2, <1>3, DirFacts DEF Touched, Directory
<1>5. Past(dir)
  BY <1>1, <1>4, DirFacts DEF Past
<1>6. /\ dirs' = [dirs EXCEPT ![job.path] = dir] /\ job' = [job EXCEPT !.step = step]
      /\ UNCHANGED <<Service, rotated>>
  BY <1>3 DEF Write, Goto
<1>7. step \in Steps /\ step \in {"copy", "seal"} /\ job.step \in Steps \ {"idle"}
  BY <1>1, <1>3 DEF Steps
<1>8. SnapshotsInv'
  BY <1>4, <1>5, <1>6, <1>7, WriteStep
<1>9. Careful
  <2>1. \A p \in Paths : dirs'[p] = IF p = job.path THEN dir ELSE dirs[p]
    BY <1>6 DEF SnapshotsInv, JobTyped
  <2> QED
    BY <1>2, <1>4, <2>1 DEF Careful, Dir
<1> QED
  BY <1>8, <1>9

\* The manifest is written when the directory is whole.
LEMMA CreateManifestStep ==
  ASSUME SnapshotsInv, CreateManifest
  PROVE  SnapshotsInv' /\ Careful
<1> DEFINE dir == SealWith(Dir)
<1>1. job.step = "seal" /\ Write(dir, "verify")
  BY DEF CreateManifest
<1>2. ~Dir.sealed /\ Dir.hasDb /\ Dir.files /\ Dir.state = "tmp"
  BY <1>1 DEF SnapshotsInv, Progress
<1>3. /\ dir \in Directory /\ dir.state = "tmp" /\ IsWhole(dir)
      /\ dir.createdAt = Dir.createdAt /\ dir.db = Dir.db
  <2>1. Dir \in Directory
    BY <1>1, DirFacts
  <2>2. CalculateSnapshotExpiration(Dir) \in 0..MaxDay + RetentionDays
    BY <2>1, ExpirationTyped
  <2> QED
    BY <1>2, <2>1, <2>2 DEF SealWith, Directory, IsWhole
<1>4. Past(dir)
  BY <1>1, <1>3, DirFacts DEF Past
<1> HIDE DEF dir
<1>5. /\ dirs' = [dirs EXCEPT ![job.path] = dir] /\ job' = [job EXCEPT !.step = "verify"]
      /\ UNCHANGED <<Service, rotated>>
  BY <1>1 DEF Write, Goto
<1>6. "verify" \in Steps /\ job.step \in Steps \ {"idle"}
  BY <1>1 DEF Steps
<1>7. SnapshotsInv'
  BY <1>3, <1>4, <1>5, <1>6, WriteStep
<1>8. Careful
  <2>1. \A p \in Paths : dirs'[p] = IF p = job.path THEN dir ELSE dirs[p]
    BY <1>5 DEF SnapshotsInv, JobTyped
  <2> QED
    BY <1>2, <1>3, <2>1 DEF Careful, Dir
<1> QED
  BY <1>7, <1>8

\* A sealed directory is given its name and keeps what it holds.
LEMMA PublishStep ==
  ASSUME SnapshotsInv, Publish
  PROVE  SnapshotsInv' /\ Careful
<1> DEFINE dir == [Dir EXCEPT !.state = "final"]
<1>1. /\ job.step = "verify" /\ IsWhole(Dir)
      /\ dirs' = [dirs EXCEPT ![job.path].state = "final"]
      /\ job' = [job EXCEPT !.step = "rotate"] /\ UNCHANGED <<Service, rotated>>
  BY DirFacts DEF Publish, Goto
<1>2. /\ dir \in Directory /\ dir.state = "final" /\ IsWhole(dir)
      /\ dir.createdAt = Dir.createdAt /\ dir.db = Dir.db
  BY <1>1, DirFacts DEF Directory, IsWhole
<1>3. Past(dir)
  BY <1>1, <1>2, DirFacts DEF Past
<1>4. dirs' = [dirs EXCEPT ![job.path] = dir]
  BY <1>1, DirFacts DEF Dir, SnapshotsInv, JobTyped
<1>5. "rotate" \in Steps /\ job.step \in Steps \ {"idle"}
  BY <1>1 DEF Steps
<1>6. Careful
  <2>1. \A p \in Paths : dirs'[p] = IF p = job.path THEN dir ELSE dirs[p]
    BY <1>4 DEF SnapshotsInv, JobTyped
  <2>2. Dir.state = "tmp" /\ Dir.sealed
    BY <1>1, DirFacts DEF IsWhole
  <2> QED
    BY <2>1, <2>2 DEF Careful, Dir
<1> HIDE DEF dir
<1>7. SnapshotsInv'
  BY <1>1, <1>2, <1>3, <1>4, <1>5, WriteStep
<1> QED
  BY <1>6, <1>7

\* An empty directory is of the past.
LEMMA PastNothing ==
  ASSUME SnapshotsInv
  PROVE  Past(NoDirectory)
BY NoFacts DEF SnapshotsInv, LiveTyped, Days, Past

\* A deletion that stops part-way takes files away and adds none.
LEMMA RemainsFacts ==
  ASSUME SnapshotsInv, NEW dir \in Directory, Past(dir), NEW rest \in Remains(dir)
  PROVE  /\ rest \in Directory /\ Past(rest)
         /\ rest.state = dir.state /\ rest.createdAt = dir.createdAt
         /\ rest.sealed => dir.sealed /\ rest.expiresAt = dir.expiresAt
         /\ ~rest.sealed => rest.expiresAt = day + RetentionDays
         /\ rest.hasDb => dir.hasDb
         /\ rest.hasDb => rest.db = dir.db
         /\ rest.db \in {dir.db, NoDirectory.db}
<1>1. PICK d \in {dir.hasDb, FALSE}, f \in {dir.files, FALSE}, m \in {dir.sealed, FALSE} :
        rest = [dir EXCEPT !.hasDb = d, !.db = IF d THEN dir.db ELSE NoDirectory.db,
                           !.files = f, !.sealed = m,
                           !.expiresAt = IF m THEN dir.expiresAt ELSE day + RetentionDays]
  BY DEF Remains
<1>2. day \in Days /\ day + RetentionDays \in 0..MaxDay + RetentionDays
  BY SnapshotsAssumption DEF SnapshotsInv, LiveTyped, Days
<1>3. NoDirectory.db \in Database /\ \A r \in Requests : NoDirectory.db[r].closedAt <= day
  BY <1>2, NoFacts DEF Directory, Days
<1>4. /\ rest.state = dir.state /\ rest.createdAt = dir.createdAt
      /\ rest.hasDb = d /\ rest.files = f /\ rest.sealed = m
      /\ rest.db = (IF d THEN dir.db ELSE NoDirectory.db)
      /\ rest.expiresAt = (IF m THEN dir.expiresAt ELSE day + RetentionDays)
  BY <1>1 DEF Directory
<1>5. rest \in Directory
  BY <1>1, <1>2, <1>3 DEF Directory
<1>6. Past(rest)
  BY <1>3, <1>4 DEF Past
<1> QED
  BY <1>4, <1>5, <1>6

\* A failed job removes its own unnamed directory, or a part of it.
LEMMA FailStep ==
  ASSUME SnapshotsInv, Fail
  PROVE  SnapshotsInv' /\ Careful
<1>1. /\ job.step \in Steps \ {"idle"} /\ job.step # "rotate"
      /\ job' = [job EXCEPT !.step = "idle"] /\ UNCHANGED <<Service, rotated>>
  BY DEF Fail, Goto, Steps
<1>2. "idle" \in Steps
  BY DEF Steps
<1>3. PICK dir \in Directory :
        /\ dirs' = [dirs EXCEPT ![job.path] = dir]
        /\ Past(dir) /\ (dir.sealed => Dir.sealed)
  <2>1. CASE dirs' = [dirs EXCEPT ![job.path] = NoDirectory]
    BY <2>1, NoFacts, PastNothing
  <2>2. CASE \E rest \in Remains(Dir) : dirs' = [dirs EXCEPT ![job.path] = rest]
    BY <1>1, <2>2, DirFacts, RemainsFacts
  <2> QED
    BY <2>1, <2>2 DEF Fail
<1>4. SnapshotsInv'
  BY <1>1, <1>2, <1>3, WriteStep
<1>5. Dir.state = "tmp"
  BY <1>1, DirFacts
<1>6. Careful
  <2>1. \A p \in Paths : dirs'[p] = IF p = job.path THEN dir ELSE dirs[p]
    BY <1>3 DEF SnapshotsInv, JobTyped
  <2> QED
    BY <1>3, <1>5, <2>1 DEF Careful, Dir
<1> QED
  BY <1>4, <1>6

\* The directories are left alone and the job ends.
LEMMA EndStep ==
  ASSUME SnapshotsInv, Rotated \/ Interrupt
  PROVE  SnapshotsInv' /\ Careful
<1>1. /\ job.step # "idle" /\ job' = [job EXCEPT !.step = "idle"]
      /\ UNCHANGED dirs /\ UNCHANGED Service /\ rotated' \in {rotated, Dir.createdAt}
  BY DEF Rotated, Interrupt, Goto
<1>2. LiveTyped' /\ UNCHANGED day
  BY <1>1 DEF Service, SnapshotsInv, LiveTyped
<1>3. /\ job' \in [step: Steps, path: 0..MaxSnapshots]
      /\ job'.path = job.path /\ job'.step = "idle"
  BY <1>1 DEF SnapshotsInv, JobTyped, Steps
<1>4. rotated' \in Days /\ rotated' <= day
  BY <1>1, DirFacts DEF SnapshotsInv, JobTyped, Past, Directory
<1>5. JobTyped' /\ Progress'
  BY <1>1, <1>2, <1>3, <1>4 DEF SnapshotsInv, JobTyped, Progress
<1>6. AllPast' /\ NoneIsNewer' /\ Careful
  BY <1>1, <1>2, <1>3 DEF SnapshotsInv, AllPast, Past, NoneIsNewer, Careful
<1> QED
  BY <1>2, <1>5, <1>6 DEF SnapshotsInv

\* What expires is older than the job's own directory, which is complete.
LEMMA DeleteExpiredStep ==
  ASSUME SnapshotsInv, NEW p \in Paths, DeleteExpired(p) \/ DeletionStops(p)
  PROVE  SnapshotsInv' /\ Careful
<1>1. /\ job.step = "rotate" /\ p # job.path /\ dirs[p].state # "absent"
      /\ dirs[p].expiresAt <= Dir.createdAt
      /\ UNCHANGED <<Service, rotated>> /\ job' \in {job, [job EXCEPT !.step = "idle"]}
  BY DEF DeleteExpired, DeletionStops, Expired, Goto
<1>2. job.path \in Paths /\ Dir.state = "final" /\ IsWhole(Dir)
  BY <1>1, DirFacts
<1>3. job.path > p
  BY <1>1, <1>2, NoFacts, SnapshotsAssumption DEF SnapshotsInv, NoneIsNewer, Paths
<1>4. PICK dir \in Directory :
        /\ dirs' = [dirs EXCEPT ![p] = dir]
        /\ Past(dir) /\ (dir.sealed => dirs[p].sealed)
  <2>1. dirs[p] \in Directory /\ Past(dirs[p])
    BY DEF SnapshotsInv, JobTyped, AllPast
  <2>2. CASE DeleteExpired(p)
    BY <2>2, NoFacts, PastNothing DEF DeleteExpired
  <2>3. CASE DeletionStops(p)
    BY <2>1, <2>3, RemainsFacts DEF DeletionStops
  <2> QED
    BY <2>2, <2>3
<1>5. \A q \in Paths : dirs'[q] = IF q = p THEN dir ELSE dirs[q]
  BY <1>4 DEF SnapshotsInv, JobTyped
<1>6. dirs'[job.path] = Dir
  BY <1>1, <1>2, <1>5 DEF Dir
<1>7. /\ job' \in [step: Steps, path: 0..MaxSnapshots] /\ job'.path = job.path
      /\ job'.step \in {"idle", "rotate"}
  BY <1>1 DEF SnapshotsInv, JobTyped, Steps
<1>8. Progress'
  BY <1>2, <1>6, <1>7 DEF Progress, Dir
<1>9. rotated' \in Days /\ rotated' <= day
  BY <1>1 DEF SnapshotsInv, JobTyped
<1>10. \A q \in Paths : q > job'.path => q > job.path /\ q # p
  BY <1>3, <1>7, <1>2 DEF Paths
<1>11. SnapshotsInv'
  BY <1>1, <1>4, <1>7, <1>8, <1>9, <1>10, OneDirectory
<1>12. dirs[p].expiresAt <= day
  <2>1. /\ Dir.createdAt <= day /\ Dir.createdAt \in Nat /\ day \in Nat
        /\ dirs[p].expiresAt \in Nat
    BY <1>1, DirFacts, SnapshotsAssumption
       DEF Past, Directory, Days, SnapshotsInv, JobTyped
  <2> QED
    BY <1>1, <2>1
<1>13. Careful
  BY <1>2, <1>3, <1>4, <1>5, <1>6, <1>12 DEF Careful
<1> QED
  BY <1>11, <1>13

\* Every step keeps the invariant and is careful.
LEMMA SnapshotsStep ==
  ASSUME SnapshotsInv, [Next]_vars
  PROVE  SnapshotsInv' /\ Careful
<1>1. CASE \/ \E r \in Requests :
               \/ Open(r) \/ Reply(r) \/ Deliver(r)
               \/ Close(r) \/ Reopen(r) \/ Acknowledge(r)
           \/ Purge \/ Start \/ Stop \/ NextDay
           \/ \E p \in Paths : Restore(p)
  <2>1. UNCHANGED dirs
    BY <1>1 DEF Open, Reply, Deliver, Close, Reopen, Acknowledge, Purge, Start, Stop,
                NextDay, Restore
  <2>2. SnapshotsInv'
    BY <1>1, RequestStep, LiveStep, RestoreStep
  <2> QED
    BY <2>1, <2>2 DEF Careful
<1>2. CASE \/ CreateSnapshot \/ CreateBackup \/ CopyOptionalStateFiles \/ CreateManifest
           \/ Publish \/ Fail \/ Rotated \/ Interrupt
           \/ \E p \in Paths : DeleteExpired(p) \/ DeletionStops(p)
  BY <1>2, CreateSnapshotStep, CopyStep, CreateManifestStep, PublishStep, FailStep,
     EndStep, DeleteExpiredStep
<1>3. CASE UNCHANGED vars
  <2>1. UNCHANGED <<day, up, purged, db, done, dirs, job, rotated>>
    BY <1>3 DEF vars
  <2>2. LiveTyped' /\ day' \in Days /\ day' >= day
    BY <2>1 DEF SnapshotsInv, LiveTyped, Days
  <2> QED
    BY <2>1, <2>2, BackupUnchanged DEF SnapshotsInv, Careful
<1> QED
  BY <1>1, <1>2, <1>3 DEF Next, Act

-----------------------------------------------------------------------------
\* The invariant holds in every behaviour.
LEMMA SnapshotsInvariant == Spec => []SnapshotsInv
<1>1. SnapshotsInv /\ [Next]_vars => SnapshotsInv'
  BY SnapshotsStep
<1> QED
  BY SnapshotsInit_Inv, <1>1, PTL DEF Spec

\* Days, rows and directories stay within their domains: what closed or was
\* finished did so by today, and a job that deletes has sealed its own directory.
THEOREM TypeCorrect == Spec => []TypeOK
<1>1. SnapshotsInv => TypeOK
  BY DEF SnapshotsInv, LiveTyped, JobTyped, Progress, IsWhole, TypeOK
<1> QED
  BY SnapshotsInvariant, <1>1, PTL

\* A directory gets its manifest when it holds the database and the settings
\* files (createServiceSnapshot and its callers) and keeps all of it until it has
\* expired or its job fails before giving it its name, wherever any number of
\* jobs and deletions are interrupted.
THEOREM SealedIsWholeHolds == Spec => SealedIsWhole
<1>1. SnapshotsInv /\ [Next]_vars =>
        [\A p \in Paths :
           /\ dirs'[p].sealed /\ ~dirs[p].sealed => IsWhole(dirs'[p])
           /\ dirs[p].sealed /\ dirs'[p] # [dirs[p] EXCEPT !.state = dirs'[p].state] =>
                dirs[p].expiresAt <= day \/ dirs[p].state = "tmp"]_vars
  <2> SUFFICES ASSUME SnapshotsInv, [Next]_vars, NEW p \in Paths
               PROVE  /\ dirs'[p].sealed /\ ~dirs[p].sealed => IsWhole(dirs'[p])
                      /\ /\ dirs[p].sealed
                         /\ dirs'[p] # [dirs[p] EXCEPT !.state = dirs'[p].state]
                         => dirs[p].expiresAt <= day \/ dirs[p].state = "tmp"
    OBVIOUS
  <2>1. Careful /\ dirs[p] \in Directory
    BY SnapshotsStep DEF SnapshotsInv, JobTyped
  <2>2. dirs'[p] = dirs[p] => dirs'[p] = [dirs[p] EXCEPT !.state = dirs'[p].state]
    BY <2>1 DEF Directory
  <2> QED
    BY <2>1, <2>2 DEF Careful
<1> QED
  BY SnapshotsInvariant, <1>1, PTL DEF Spec, SealedIsWhole

\* A published snapshot is deleted, wholly or in part, only when a newer one is
\* published and whole (deleteExpiredSnapshots after the job's own), for any
\* number of jobs, also of jobs and deletions that fail or are interrupted.
THEOREM NewestIsKeptHolds == Spec => NewestIsKept
<1>1. SnapshotsInv /\ [Next]_vars =>
        [\A p \in Paths :
           dirs[p].state = "final" /\ dirs'[p] # dirs[p] =>
             \E q \in Paths : q > p /\ dirs'[q].state = "final" /\ IsWhole(dirs'[q])]_vars
  BY SnapshotsStep DEF Careful
<1> QED
  BY SnapshotsInvariant, <1>1, PTL DEF Spec, NewestIsKept

-----------------------------------------------------------------------------
(***************************************************************************)
(* What is to be forgotten.  `done` never goes back, so what a directory   *)
(* holds is bound to the day its request was finished, here or in the live *)
(* database, whatever is reopened, restored and finished again meanwhile   *)
(* (CopyFits).  A manifest counts from the older of the two (ExpiryFits),  *)
(* and what is left after a rotation expires later (Outlives): rotations   *)
(* follow the days because a job's directory is no older than the last     *)
(* rotation (JobStarted).                                                  *)
(***************************************************************************)
DoneFits == \A r \in Requests : Finished(db[r]) => db[r].closedAt <= done[r]

\* A running service purges each day.
LiveForgets ==
  \A r \in Requests :
    up /\ Finished(db[r]) /\ db[r].content =>
      /\ day <= done[r] + RetentionDays
      /\ purged => day < done[r] + RetentionDays

CopyFits(dir) ==
  \A r \in Requests :
    /\ Finished(dir.db[r]) => dir.db[r].closedAt <= done[r]
    /\ dir.db[r].content /\ ~Finished(dir.db[r]) /\ Finished(db[r]) =>
         dir.createdAt <= done[r]

ExpiryFits(dir) ==
  dir.sealed =>
    /\ dir.expiresAt <= dir.createdAt + RetentionDays
    /\ \A r \in Requests :
         Finished(dir.db[r]) /\ dir.db[r].content =>
           dir.expiresAt <= dir.db[r].closedAt + RetentionDays
    /\ \/ ~dir.hasDb
       \/ dir.expiresAt = dir.createdAt + RetentionDays
       \/ \E r \in Requests : /\ Finished(dir.db[r]) /\ dir.db[r].content
                               /\ dir.expiresAt = dir.db[r].closedAt + RetentionDays

Outlives(dir) ==
  /\ dir.state = "final" => dir.createdAt < dir.expiresAt
  /\ dir.state = "final" \/ (dir.state = "tmp" /\ ~dir.sealed) => rotated < dir.expiresAt

JobStarted == job.step # "idle" => rotated <= Dir.createdAt

DirsForget ==
  /\ JobStarted
  /\ \A p \in Paths : ExpiryFits(dirs[p]) /\ Outlives(dirs[p])

CopiesFit == \A p \in Paths : CopyFits(dirs[p])

ForgetInv == SnapshotsInv /\ DoneFits /\ LiveForgets /\ CopiesFit /\ DirsForget

-----------------------------------------------------------------------------
\* Days are numbers.
LEMMA DayFacts ==
  ASSUME SnapshotsInv
  PROVE  /\ day \in Nat /\ rotated \in Nat /\ rotated <= day /\ RetentionDays \in Nat \ {0}
         /\ \A r \in Requests :
              /\ db[r] \in Row /\ db[r].closedAt \in Nat /\ db[r].closedAt <= day
              /\ done[r] \in Nat /\ done[r] <= day
         /\ \A p \in Paths :
              /\ dirs[p] \in Directory
              /\ dirs[p].createdAt \in Nat /\ dirs[p].createdAt <= day
              /\ dirs[p].expiresAt \in Nat
              /\ \A r \in Requests : dirs[p].db[r].closedAt \in Nat /\ dirs[p].db[r].closedAt <= day
<1>1. day \in Nat /\ rotated \in Nat /\ rotated <= day /\ RetentionDays \in Nat \ {0}
  BY SnapshotsAssumption DEF SnapshotsInv, LiveTyped, JobTyped, Days
<1>2. ASSUME NEW r \in Requests
      PROVE  /\ db[r] \in Row /\ db[r].closedAt \in Nat /\ db[r].closedAt <= day
             /\ done[r] \in Nat /\ done[r] <= day
  BY DEF SnapshotsInv, LiveTyped, Database, Row, Days
<1>3. ASSUME NEW p \in Paths
      PROVE  /\ dirs[p] \in Directory
             /\ dirs[p].createdAt \in Nat /\ dirs[p].createdAt <= day
             /\ dirs[p].expiresAt \in Nat
             /\ \A r \in Requests : dirs[p].db[r].closedAt \in Nat /\ dirs[p].db[r].closedAt <= day
  <2>1. dirs[p] \in Directory /\ Past(dirs[p])
    BY DEF SnapshotsInv, JobTyped, AllPast
  <2>2. dirs[p].expiresAt \in Nat
    BY <2>1, SnapshotsAssumption DEF Directory
  <2> QED
    BY <2>1, <2>2 DEF Past, Directory, Database, Row, Days
<1> QED
  BY <1>1, <1>2, <1>3

\* An empty directory holds nothing.
LEMMA NothingHeld ==
  /\ \A r \in Requests : ~Finished(NoDirectory.db[r]) /\ ~NoDirectory.db[r].content
  /\ CopyFits(NoDirectory) /\ ExpiryFits(NoDirectory) /\ Outlives(NoDirectory)
<1>1. \A r \in Requests : ~Finished(NoDirectory.db[r]) /\ ~NoDirectory.db[r].content
  BY DEF NoDirectory, NoRow, Finished
<1> QED
  BY <1>1, NoFacts DEF CopyFits, ExpiryFits, Outlives

\* Nothing is finished and nothing copied at the start.
LEMMA ForgetInit == Init => ForgetInv
<1> SUFFICES ASSUME Init PROVE ForgetInv
  OBVIOUS
<1>1. \A r \in Requests : ~Finished(db[r])
  BY DEF Init, NoRow, Finished
<1>2. \A p \in Paths : dirs[p] = NoDirectory
  BY DEF Init
<1>3. JobStarted
  BY DEF Init, JobStarted
<1> QED
  BY <1>1, <1>2, <1>3, NothingHeld, SnapshotsInit_Inv
     DEF ForgetInv, DoneFits, LiveForgets, CopiesFit, DirsForget

-----------------------------------------------------------------------------
\* The day a request was finished never goes back.
LEMMA DoneGrows ==
  ASSUME SnapshotsInv, NEW d, SetDb(d), NEW r \in Requests
  PROVE  /\ done'[r] \in Nat /\ done[r] <= done'[r] /\ done'[r] <= day
         /\ Finished(d[r]) /\ ~Finished(db[r]) => done'[r] = day
         /\ Finished(db[r]) => done'[r] = done[r]
<1>1. done'[r] = IF Finished(d[r]) /\ ~Finished(db[r]) THEN day ELSE done[r]
  BY DEF SetDb, DoneIn
<1>2. day \in Nat /\ done[r] \in Nat /\ done[r] <= day
  BY DayFacts
<1> QED
  BY <1>1, <1>2

\* The database becomes d.  A request that was finished before does not seem to
\* have been closed later than that, and what it keeps of its content is not due.
LEMMA DbChange ==
  ASSUME ForgetInv, SnapshotsInv', NEW d, SetDb(d), UNCHANGED <<day, dirs, job, rotated>>,
         \A r \in Requests :
           Finished(d[r]) /\ Finished(db[r]) => d[r].closedAt <= done[r],
         \A r \in Requests :
           up' /\ Finished(d[r]) /\ d[r].content =>
             \/ ~Finished(db[r])
             \/ up /\ db[r].content /\ purged' = purged
             \/ day < d[r].closedAt + RetentionDays
  PROVE  ForgetInv'
<1>1. SnapshotsInv /\ db' = d
  BY DEF ForgetInv, SetDb
<1>2. day \in Nat /\ day' = day /\ RetentionDays \in Nat \ {0}
  BY <1>1, DayFacts
<1>3. \A r \in Requests :
        /\ done'[r] \in Nat /\ done[r] \in Nat
        /\ done[r] <= done'[r] /\ done'[r] <= day
        /\ Finished(d[r]) /\ ~Finished(db[r]) => done'[r] = day
        /\ Finished(db[r]) => done'[r] = done[r]
  BY <1>1, DayFacts, DoneGrows
<1>4. \A r \in Requests : d[r].closedAt \in Nat /\ d[r].closedAt <= day
  <2>1. SnapshotsInv' => \A r \in Requests : db'[r].closedAt \in Nat /\ db'[r].closedAt <= day'
    BY DEF SnapshotsInv, LiveTyped, Database, Row, Days
  <2> QED
    BY <1>1, <1>2, <2>1
<1>5. \A r \in Requests : Finished(d[r]) => d[r].closedAt <= done'[r]
  <2> TAKE r \in Requests
  <2> QED
    BY <1>3, <1>4
<1>6. DoneFits'
  BY <1>1, <1>5 DEF DoneFits, Finished
<1>7. LiveForgets'
  <2> SUFFICES ASSUME NEW r \in Requests, up', Finished(d[r]), d[r].content
               PROVE  /\ day <= done'[r] + RetentionDays
                      /\ purged' => day < done'[r] + RetentionDays
    BY <1>1, <1>2 DEF LiveForgets, Finished
  <2>0. done'[r] \in Nat /\ d[r].closedAt \in Nat /\ d[r].closedAt <= done'[r]
    BY <1>3, <1>4, <1>5
  <2>1. CASE ~Finished(db[r])
    <3>1. done'[r] = day
      BY <1>3, <2>1
    <3> QED
      BY <1>2, <3>1
  <2>2. CASE Finished(db[r]) /\ up /\ db[r].content /\ purged' = purged
    <3>1. done'[r] = done[r]
      BY <1>3, <2>2
    <3> QED
      BY <2>2, <3>1 DEF ForgetInv, LiveForgets
  <2>3. CASE day < d[r].closedAt + RetentionDays
    BY <1>2, <2>0, <2>3
  <2> QED
    BY <2>1, <2>2, <2>3
<1>8. CopiesFit'
  <2> SUFFICES ASSUME NEW p \in Paths, NEW r \in Requests
               PROVE  /\ Finished(dirs[p].db[r]) => dirs[p].db[r].closedAt <= done'[r]
                      /\ dirs[p].db[r].content /\ ~Finished(dirs[p].db[r]) /\ Finished(d[r]) =>
                           dirs[p].createdAt <= done'[r]
    BY <1>1 DEF CopiesFit, CopyFits, Finished
  <2>1. /\ Finished(dirs[p].db[r]) => dirs[p].db[r].closedAt <= done[r]
        /\ dirs[p].db[r].content /\ ~Finished(dirs[p].db[r]) /\ Finished(db[r]) =>
             dirs[p].createdAt <= done[r]
    BY DEF ForgetInv, CopiesFit, CopyFits
  <2>2. dirs[p].db[r].closedAt \in Nat /\ dirs[p].createdAt \in Nat /\ dirs[p].createdAt <= day
    BY <1>1, DayFacts
  <2>3. /\ done'[r] \in Nat /\ done[r] \in Nat /\ done[r] <= done'[r]
        /\ Finished(d[r]) /\ ~Finished(db[r]) => done'[r] = day
    BY <1>3
  <2> QED
    BY <1>2, <2>1, <2>2, <2>3
<1>9. DirsForget'
  BY DEF ForgetInv, DirsForget, JobStarted, ExpiryFits, Outlives, Dir
<1> QED
  BY <1>6, <1>7, <1>8, <1>9 DEF ForgetInv

\* What happens to one request keeps the others as they are.
LEMMA RowForgets ==
  ASSUME ForgetInv, SnapshotsInv', NEW r \in Requests, NEW row,
         SetDb([db EXCEPT ![r] = row]), UNCHANGED <<day, up, purged, dirs, job, rotated>>,
         ~Finished(row) \/ ~Finished(db[r])
  PROVE  ForgetInv'
<1> DEFINE d == [db EXCEPT ![r] = row]
<1>1. db \in [Requests -> Row]
  BY DEF ForgetInv, SnapshotsInv, LiveTyped, Database
<1>2. d[r] = row /\ \A q \in Requests : q # r => d[q] = db[q]
  BY <1>1
<1>3. SetDb(d)
  OBVIOUS
<1> HIDE DEF d
<1>4. \A q \in Requests : Finished(d[q]) /\ Finished(db[q]) => q # r
  BY <1>2 DEF Finished
<1>5. \A q \in Requests :
        Finished(d[q]) /\ Finished(db[q]) => d[q].closedAt <= done[q]
  BY <1>2, <1>4 DEF ForgetInv, DoneFits
<1>6. \A q \in Requests :
        up' /\ Finished(d[q]) /\ d[q].content =>
          \/ ~Finished(db[q])
          \/ up /\ db[q].content /\ purged' = purged
  <2> TAKE q \in Requests
  <2>1. CASE q = r
    <3>1. ~Finished(d[q]) \/ ~Finished(db[q])
      BY <1>4, <2>1
    <3> QED
      BY <3>1
  <2>2. CASE q # r
    <3>1. d[q] = db[q] /\ up' = up /\ purged' = purged
      BY <1>2, <2>2
    <3> QED
      BY <3>1
  <2> QED
    BY <2>1, <2>2
<1> QED
  BY <1>3, <1>5, <1>6, DbChange

\* The operations on one request.
LEMMA RequestForgets ==
  ASSUME ForgetInv, NEW r \in Requests,
         Open(r) \/ Reply(r) \/ Deliver(r) \/ Close(r) \/ Reopen(r) \/ Acknowledge(r)
  PROVE  ForgetInv'
<1>1. SnapshotsInv'
  BY RequestStep DEF ForgetInv
<1>2. UNCHANGED <<day, up, purged, dirs, job, rotated>>
  BY DEF Open, Reply, Deliver, Close, Reopen, Acknowledge
<1>3. db \in [Requests -> Row] /\ db[r] \in Row
  BY DEF ForgetInv, SnapshotsInv, LiveTyped, Database
<1>4. CASE Open(r)
  <2> DEFINE row == [NoRow EXCEPT !.status = "active", !.content = TRUE]
  <2>1. SetDb([db EXCEPT ![r] = row]) /\ ~Finished(row)
    BY <1>4 DEF Open, NoRow, Finished
  <2> QED
    BY <1>1, <1>2, <2>1, RowForgets
<1>5. CASE Reply(r) \/ Acknowledge(r)
  <2> DEFINE row == [db[r] EXCEPT !.unfinished = TRUE, !.content = TRUE]
  <2>1. [db EXCEPT ![r].unfinished = TRUE, ![r].content = TRUE] = [db EXCEPT ![r] = row]
    BY <1>3
  <2>2. SetDb([db EXCEPT ![r] = row]) /\ ~Finished(row)
    BY <1>3, <1>5, <2>1 DEF Reply, Acknowledge, Finished, Row
  <2> QED
    BY <1>1, <1>2, <2>2, RowForgets
<1>6. CASE Deliver(r)
  <2> DEFINE row == [db[r] EXCEPT !.unfinished = FALSE]
  <2>1. SetDb([db EXCEPT ![r] = row]) /\ ~Finished(db[r])
    BY <1>3, <1>6 DEF Deliver, Finished
  <2> HIDE DEF row
  <2> QED
    BY <1>1, <1>2, <2>1, RowForgets
<1>7. CASE Close(r)
  <2> DEFINE row == [db[r] EXCEPT !.status = "closed", !.closedAt = day]
  <2>1. [db EXCEPT ![r].status = "closed", ![r].closedAt = day] = [db EXCEPT ![r] = row]
    BY <1>3
  <2>2. SetDb([db EXCEPT ![r] = row]) /\ ~Finished(db[r])
    BY <1>7, <2>1 DEF Close, Finished
  <2> HIDE DEF row
  <2> QED
    BY <1>1, <1>2, <2>2, RowForgets
<1>8. CASE Reopen(r)
  <2> DEFINE row == [db[r] EXCEPT !.status = "active", !.closedAt = 0]
  <2>1. [db EXCEPT ![r].status = "active", ![r].closedAt = 0] = [db EXCEPT ![r] = row]
    BY <1>3
  <2>2. SetDb([db EXCEPT ![r] = row]) /\ ~Finished(row)
    BY <1>3, <1>8, <2>1 DEF Reopen, Finished, Row
  <2> HIDE DEF row
  <2> QED
    BY <1>1, <1>2, <2>2, RowForgets
<1> QED
  BY <1>4, <1>5, <1>6, <1>7, <1>8

\* A purge leaves nothing that is due.
LEMMA PurgeForgets ==
  ASSUME ForgetInv, Purge \/ Start
  PROVE  ForgetInv'
<1> DEFINE d == PurgeContent(db, day)
<1>1. SnapshotsInv' /\ SetDb(d) /\ UNCHANGED <<day, dirs, job, rotated>>
  BY LiveStep DEF Purge, Start, ForgetInv
<1>2. \A r \in Requests :
        /\ d[r].closedAt = db[r].closedAt /\ (Finished(d[r]) <=> Finished(db[r]))
        /\ Finished(d[r]) /\ d[r].content => ~(db[r].closedAt + RetentionDays <= day)
  <2> TAKE r \in Requests
  <2>1. db[r] \in Row
    BY DayFacts DEF ForgetInv
  <2> QED
    BY <2>1 DEF PurgeContent, Due, Finished, Row
<1> HIDE DEF d
<1>3. \A r \in Requests :
        Finished(d[r]) /\ d[r].content => day < d[r].closedAt + RetentionDays
  <2> TAKE r \in Requests
  <2>1. day \in Nat /\ db[r].closedAt \in Nat /\ RetentionDays \in Nat
    BY DayFacts DEF ForgetInv
  <2> QED
    BY <1>2, <2>1
<1>4. \A r \in Requests : Finished(d[r]) /\ Finished(db[r]) => d[r].closedAt <= done[r]
  BY <1>2 DEF ForgetInv, DoneFits
<1> QED
  BY <1>1, <1>3, <1>4, DbChange

\* A restored copy was finished no later than the live database knows.
LEMMA RestoreForgets ==
  ASSUME ForgetInv, NEW p \in Paths, Restore(p)
  PROVE  ForgetInv'
<1>1. SnapshotsInv'
  BY RestoreStep DEF ForgetInv
<1>2. SetDb(dirs[p].db) /\ UNCHANGED <<day, dirs, job, rotated>> /\ ~up'
  BY DEF Restore
<1>3. \A r \in Requests : Finished(dirs[p].db[r]) => dirs[p].db[r].closedAt <= done[r]
  BY DEF ForgetInv, CopiesFit, CopyFits
<1> QED
  BY <1>1, <1>2, <1>3, DbChange

\* Time passes only when today's purge is done.
LEMMA ClockForgets ==
  ASSUME ForgetInv, Stop \/ NextDay \/ UNCHANGED vars
  PROVE  ForgetInv'
<1>1. SnapshotsInv' /\ UNCHANGED <<db, done, dirs, job, rotated>>
  <2>1. CASE Stop \/ NextDay
    BY <2>1, LiveStep DEF Stop, NextDay, ForgetInv
  <2>2. CASE UNCHANGED vars
    BY <2>2, SnapshotsStep DEF vars, ForgetInv
  <2> QED
    BY <2>1, <2>2
<1>2. DoneFits' /\ CopiesFit' /\ DirsForget'
  BY <1>1 DEF ForgetInv, DoneFits, CopiesFit, CopyFits, DirsForget, JobStarted, ExpiryFits,
              Outlives, Dir
<1>3. LiveForgets'
  <2> SUFFICES ASSUME NEW r \in Requests, up', Finished(db[r]), db[r].content
               PROVE  /\ day' <= done[r] + RetentionDays
                      /\ purged' => day' < done[r] + RetentionDays
    BY <1>1 DEF LiveForgets, Finished
  <2>1. /\ up => day <= done[r] + RetentionDays
        /\ up /\ purged => day < done[r] + RetentionDays
    BY DEF ForgetInv, LiveForgets
  <2>2. day \in Nat /\ done[r] \in Nat /\ RetentionDays \in Nat
    BY DayFacts DEF ForgetInv
  <2>3. CASE Stop
    BY <2>3 DEF Stop
  <2>4. CASE NextDay
    BY <2>1, <2>2, <2>4 DEF NextDay
  <2>5. CASE UNCHANGED vars
    BY <2>1, <2>5 DEF vars
  <2> QED
    BY <2>3, <2>4, <2>5
<1> QED
  BY <1>1, <1>2, <1>3 DEF ForgetInv

-----------------------------------------------------------------------------
\* The manifest counts from the oldest of what the directory holds.
LEMMA ExpirationIs ==
  ASSUME NEW dir \in Directory
  PROVE  LET x == CalculateSnapshotExpiration(dir) IN
         /\ x \in Nat /\ x <= dir.createdAt + RetentionDays
         /\ \A r \in Requests :
              Finished(dir.db[r]) /\ dir.db[r].content => x <= dir.db[r].closedAt + RetentionDays
         /\ \/ x = dir.createdAt + RetentionDays
            \/ \E r \in Requests : /\ Finished(dir.db[r]) /\ dir.db[r].content
                                   /\ x = dir.db[r].closedAt + RetentionDays
<1> DEFINE closed == {dir.db[r].closedAt :
                        r \in {q \in Requests : Finished(dir.db[q]) /\ dir.db[q].content}}
           days == {d + RetentionDays : d \in closed \cup {dir.createdAt}}
           x == CHOOSE d \in days : \A e \in days : d <= e
<1>1. /\ dir.createdAt \in Nat /\ \A r \in Requests : dir.db[r].closedAt \in Nat
      /\ RetentionDays \in Nat
  BY SnapshotsAssumption DEF Directory, Database, Row, Days
<1>2. closed \cup {dir.createdAt} \subseteq Nat
  BY <1>1
<1>3. days \in SUBSET Nat /\ days # {}
  <2> HIDE DEF closed
  <2>1. \A d \in Nat : d + RetentionDays \in Nat
    BY <1>1
  <2> QED
    BY <1>2, <2>1
<1>4. x \in days /\ \A e \in days : x <= e
  <2> HIDE DEF days
  <2>1. \E d \in days : \A e \in days : d <= e
    <3>1. PICK y \in days : \A e \in days : ~ (<<e, y>> \in OpToRel(<, Nat))
      BY <1>3, WFMin, NatLessThanWellFounded, Zenon
    <3>2. \A e \in days : ~(e < y)
      BY <1>3, <3>1, Zenon DEF OpToRel
    <3> QED
      BY <1>3, <3>2
  <2> QED
    BY <2>1
<1>5. x \in Nat
  BY <1>3, <1>4
<1>6. dir.createdAt + RetentionDays \in days
  OBVIOUS
<1>7. \A r \in Requests :
        Finished(dir.db[r]) /\ dir.db[r].content => dir.db[r].closedAt + RetentionDays \in days
  OBVIOUS
<1>8. \E d \in closed \cup {dir.createdAt} : x = d + RetentionDays
  <2> HIDE DEF closed, x
  <2> QED
    BY <1>4
<1>9. CalculateSnapshotExpiration(dir) = x
  BY DEF CalculateSnapshotExpiration
<1> HIDE DEF x, days
<1>10. \/ x = dir.createdAt + RetentionDays
       \/ \E r \in Requests : /\ Finished(dir.db[r]) /\ dir.db[r].content
                              /\ x = dir.db[r].closedAt + RetentionDays
  BY <1>8
<1> QED
  BY <1>4, <1>5, <1>6, <1>7, <1>9, <1>10

\* The backup job leaves the live database alone.
LEMMA DirsChange ==
  ASSUME ForgetInv, SnapshotsInv', UNCHANGED Service, CopiesFit', DirsForget'
  PROVE  ForgetInv'
<1>1. UNCHANGED <<day, up, purged, db, done>>
  BY DEF Service
<1>2. DoneFits' /\ LiveForgets'
  BY <1>1 DEF ForgetInv, DoneFits, LiveForgets
<1> QED
  BY <1>2 DEF ForgetInv

\* One directory becomes dir.
LEMMA DirChange ==
  ASSUME ForgetInv, SnapshotsInv', UNCHANGED <<Service, rotated>>,
         NEW q \in Paths, NEW dir, dirs' = [dirs EXCEPT ![q] = dir],
         CopyFits(dir), ExpiryFits(dir), Outlives(dir), JobStarted'
  PROVE  ForgetInv'
<1>1. dirs'[q] = dir /\ \A p \in Paths : p # q => dirs'[p] = dirs[p]
  BY DEF ForgetInv, SnapshotsInv, JobTyped
<1>2. UNCHANGED <<db, done, rotated>> /\ UNCHANGED Service
  BY DEF Service
<1>3. \A p \in Paths : CopyFits(dirs'[p]) /\ ExpiryFits(dirs'[p]) /\ Outlives(dirs'[p])
  BY <1>1 DEF ForgetInv, CopiesFit, DirsForget
<1>4. CopiesFit'
  BY <1>2, <1>3 DEF CopiesFit, CopyFits
<1>5. DirsForget'
  BY <1>2, <1>3 DEF DirsForget, ExpiryFits, Outlives
<1> QED
  BY <1>2, <1>4, <1>5, DirsChange

\* The directory of a job keeps its path and its day.
LEMMA JobGoesOn ==
  ASSUME ForgetInv, job.step # "idle", NEW dir, UNCHANGED rotated,
         dirs' = [dirs EXCEPT ![job.path] = dir], dir.createdAt = Dir.createdAt,
         NEW step, job' = [job EXCEPT !.step = step]
  PROVE  JobStarted'
<1>1. job.path \in Paths /\ job'.path = job.path
  BY DirFacts DEF ForgetInv, SnapshotsInv, JobTyped
<1>2. Dir' = dir
  BY <1>1 DEF Dir, ForgetInv, SnapshotsInv, JobTyped
<1>3. rotated <= Dir.createdAt
  BY DEF ForgetInv, DirsForget, JobStarted
<1> QED
  BY <1>2, <1>3 DEF JobStarted

\* What the job's directory holds.
LEMMA JobDirFits ==
  ASSUME ForgetInv, job.step # "idle"
  PROVE  CopyFits(Dir) /\ ExpiryFits(Dir) /\ Outlives(Dir) /\ rotated <= Dir.createdAt
BY DirFacts DEF ForgetInv, CopiesFit, DirsForget, JobStarted, Dir

\* A new directory is no older than the last rotation.
LEMMA CreateForgets ==
  ASSUME ForgetInv, CreateSnapshot
  PROVE  ForgetInv'
<1> DEFINE q == job.path + 1
           dir == Touched([NoDirectory EXCEPT !.state = "tmp", !.createdAt = day])
<1>1. SnapshotsInv' /\ job.path < MaxSnapshots /\ job' = [step |-> "backup", path |-> q]
      /\ dirs' = [dirs EXCEPT ![q] = dir] /\ UNCHANGED <<Service, rotated>>
  BY CreateSnapshotStep DEF CreateSnapshot, ForgetInv
<1>2. day \in Nat /\ rotated \in Nat /\ rotated <= day /\ RetentionDays \in Nat \ {0}
  BY DayFacts DEF ForgetInv
<1>3. q \in Paths
  <2>1. job.path \in 0..MaxSnapshots
    BY DEF ForgetInv, SnapshotsInv, JobTyped
  <2> QED
    BY <1>1, <2>1, SnapshotsAssumption DEF Paths
<1>4. /\ dir.state = "tmp" /\ ~dir.sealed /\ dir.createdAt = day /\ dir.db = NoDirectory.db
      /\ dir.expiresAt = day + RetentionDays
  BY DEF Touched, NoDirectory
<1> HIDE DEF dir, q
<1>5. CopyFits(dir)
  BY <1>4, NothingHeld DEF CopyFits
<1>6. ExpiryFits(dir) /\ Outlives(dir)
  BY <1>2, <1>4 DEF ExpiryFits, Outlives
<1>7. JobStarted'
  <2>1. dirs'[q] = dir
    BY <1>1, <1>3 DEF ForgetInv, SnapshotsInv, JobTyped
  <2>2. Dir' = dir /\ rotated' = rotated
    BY <1>1, <2>1 DEF Dir
  <2> QED
    BY <1>2, <1>4, <2>2 DEF JobStarted
<1> QED
  BY <1>1, <1>3, <1>5, <1>6, <1>7, DirChange

\* A copy of the live database holds nothing that was finished later than the
\* live database knows.
LEMMA CopyForgets ==
  ASSUME ForgetInv, CreateBackup \/ CopyOptionalStateFiles
  PROVE  ForgetInv'
<1>1. SnapshotsInv' /\ SnapshotsInv /\ job.step \in {"backup", "copy"}
  BY CopyStep DEF CreateBackup, CopyOptionalStateFiles, ForgetInv
<1>2. /\ job.path \in Paths /\ Dir \in Directory /\ Dir.state = "tmp" /\ ~Dir.sealed
      /\ CopyFits(Dir)
  BY <1>1, DirFacts, JobDirFits DEF SnapshotsInv, Progress
<1>3. PICK dir, step :
        /\ Write(dir, step)
        /\ \/ dir = Touched([Dir EXCEPT !.hasDb = TRUE, !.db = db])
           \/ dir = Touched([Dir EXCEPT !.files = TRUE])
  BY DEF CreateBackup, CopyOptionalStateFiles
<1>4. /\ dir.state = "tmp" /\ ~dir.sealed /\ dir.createdAt = Dir.createdAt
      /\ dir.db \in {db, Dir.db} /\ dir.expiresAt = day + RetentionDays
  BY <1>2, <1>3 DEF Touched, Directory
<1>5. /\ dirs' = [dirs EXCEPT ![job.path] = dir] /\ job' = [job EXCEPT !.step = step]
      /\ UNCHANGED <<Service, rotated>>
  BY <1>3 DEF Write, Goto
<1>6. CopyFits(dir)
  <2>1. CASE dir.db = Dir.db
    BY <1>2, <1>4, <2>1 DEF CopyFits
  <2>2. CASE dir.db = db
    BY <1>4, <2>2 DEF CopyFits, ForgetInv, DoneFits
  <2> QED
    BY <1>4, <2>1, <2>2
<1>7. ExpiryFits(dir) /\ Outlives(dir)
  <2>1. day \in Nat /\ rotated \in Nat /\ rotated <= day /\ RetentionDays \in Nat \ {0}
    BY <1>1, DayFacts
  <2> QED
    BY <1>4, <2>1 DEF ExpiryFits, Outlives
<1>8. JobStarted'
  BY <1>1, <1>4, <1>5, JobGoesOn
<1> QED
  BY <1>1, <1>2, <1>5, <1>6, <1>7, <1>8, DirChange

\* The manifest of an unnamed directory.
LEMMA ManifestForgets ==
  ASSUME ForgetInv, CreateManifest
  PROVE  ForgetInv'
<1> DEFINE dir == SealWith(Dir)
<1>1. SnapshotsInv' /\ job.step = "seal" /\ Write(dir, "verify")
  BY CreateManifestStep DEF CreateManifest, ForgetInv
<1>2. job.path \in Paths /\ Dir \in Directory /\ Dir.state = "tmp" /\ CopyFits(Dir)
  BY <1>1, DirFacts, JobDirFits DEF ForgetInv
<1>3. /\ dir.state = "tmp" /\ dir.sealed /\ dir.createdAt = Dir.createdAt /\ dir.db = Dir.db
      /\ dir.expiresAt = CalculateSnapshotExpiration(Dir)
  BY <1>2 DEF SealWith, Directory
<1> HIDE DEF dir
<1>4. /\ dirs' = [dirs EXCEPT ![job.path] = dir] /\ job' = [job EXCEPT !.step = "verify"]
      /\ UNCHANGED <<Service, rotated>>
  BY <1>1 DEF Write, Goto
<1>5. CopyFits(dir)
  BY <1>2, <1>3 DEF CopyFits
<1>6. ExpiryFits(dir)
  BY <1>2, <1>3, ExpirationIs DEF ExpiryFits
<1>7. Outlives(dir)
  BY <1>3 DEF Outlives
<1>8. JobStarted'
  BY <1>1, <1>3, <1>4, JobGoesOn
<1> QED
  BY <1>1, <1>2, <1>4, <1>5, <1>6, <1>7, <1>8, DirChange

\* What is given its name has nothing in it that was due when its job began.
LEMMA PublishForgets ==
  ASSUME ForgetInv, Publish
  PROVE  ForgetInv'
<1> DEFINE dir == [Dir EXCEPT !.state = "final"]
<1>1. /\ SnapshotsInv' /\ SnapshotsInv /\ job.step = "verify" /\ Dir.sealed
      /\ RetentionApplied(Dir) /\ Dir.hasDb
      /\ dirs' = [dirs EXCEPT ![job.path].state = "final"]
      /\ job' = [job EXCEPT !.step = "rotate"] /\ UNCHANGED <<Service, rotated>>
  BY PublishStep DEF Publish, Verifies, DatabaseIsIntact, Goto, ForgetInv
<1>2. /\ job.path \in Paths /\ Dir \in Directory /\ CopyFits(Dir) /\ ExpiryFits(Dir)
      /\ rotated <= Dir.createdAt
  BY <1>1, DirFacts, JobDirFits
<1>3. /\ dir.state = "final" /\ dir.sealed /\ dir.createdAt = Dir.createdAt
      /\ dir.db = Dir.db /\ dir.expiresAt = Dir.expiresAt /\ dir.hasDb = Dir.hasDb
  BY <1>1, <1>2 DEF Directory
<1>4. dirs' = [dirs EXCEPT ![job.path] = dir]
  BY <1>1, <1>2 DEF Dir, SnapshotsInv, JobTyped
<1> HIDE DEF dir
<1>5. CopyFits(dir) /\ ExpiryFits(dir)
  <2>1. CopyFits(dir)
    BY <1>2, <1>3 DEF CopyFits
  <2>2. ExpiryFits(dir)
    BY <1>1, <1>2, <1>3 DEF ExpiryFits
  <2> QED
    BY <2>1, <2>2
<1>6. /\ Dir.createdAt \in Nat /\ Dir.expiresAt \in Nat /\ rotated \in Nat
      /\ RetentionDays \in Nat \ {0} /\ \A r \in Requests : Dir.db[r].closedAt \in Nat
  BY <1>1, <1>2, DayFacts DEF Dir
<1>7. Dir.createdAt < Dir.expiresAt
  <2>1. CASE Dir.expiresAt = Dir.createdAt + RetentionDays
    BY <1>6, <2>1
  <2>2. ASSUME NEW r \in Requests, Finished(Dir.db[r]), Dir.db[r].content,
               Dir.expiresAt = Dir.db[r].closedAt + RetentionDays
        PROVE  Dir.createdAt < Dir.expiresAt
    <3>1. ~(Dir.db[r].closedAt + RetentionDays <= Dir.createdAt)
      BY <1>1, <2>2 DEF RetentionApplied, Due
    <3> QED
      BY <1>6, <2>2, <3>1
  <2> QED
    BY <1>1, <1>2, <2>1, <2>2 DEF ExpiryFits
<1>8. Outlives(dir)
  BY <1>2, <1>3, <1>6, <1>7 DEF Outlives
<1>9. JobStarted'
  BY <1>1, <1>3, <1>4, JobGoesOn
<1> QED
  BY <1>1, <1>2, <1>4, <1>5, <1>8, <1>9, DirChange

\* What a deletion leaves holds no more than there was, and counts from today
\* when its manifest is gone.
LEMMA RestForgets ==
  ASSUME ForgetInv, NEW p \in Paths, NEW rest \in Remains(dirs[p])
  PROVE  CopyFits(rest) /\ ExpiryFits(rest) /\ Outlives(rest)
<1>1. /\ dirs[p] \in Directory /\ Past(dirs[p])
      /\ CopyFits(dirs[p]) /\ ExpiryFits(dirs[p]) /\ Outlives(dirs[p])
  BY DEF ForgetInv, SnapshotsInv, JobTyped, AllPast, CopiesFit, DirsForget
<1>2. /\ rest.state = dirs[p].state /\ rest.createdAt = dirs[p].createdAt
      /\ rest.sealed => dirs[p].sealed /\ rest.expiresAt = dirs[p].expiresAt
      /\ ~rest.sealed => rest.expiresAt = day + RetentionDays
      /\ rest.hasDb => dirs[p].hasDb
      /\ rest.hasDb => rest.db = dirs[p].db
      /\ rest.db \in {dirs[p].db, NoDirectory.db}
  BY <1>1, RemainsFacts DEF ForgetInv
<1>3. /\ day \in Nat /\ rotated \in Nat /\ rotated <= day /\ RetentionDays \in Nat \ {0}
      /\ dirs[p].createdAt \in Nat /\ dirs[p].createdAt <= day
  BY DayFacts DEF ForgetInv
<1>4. CopyFits(rest)
  BY <1>1, <1>2, NothingHeld DEF CopyFits
<1>5. ExpiryFits(rest)
  <2> SUFFICES ASSUME rest.sealed PROVE ExpiryFits(rest)
    BY DEF ExpiryFits
  <2>1. CASE rest.db = dirs[p].db
    BY <1>1, <1>2, <2>1 DEF ExpiryFits
  <2>2. CASE rest.db = NoDirectory.db /\ ~rest.hasDb
    BY <1>1, <1>2, <2>2, NothingHeld DEF ExpiryFits
  <2> QED
    BY <1>2, <2>1, <2>2
<1>6. Outlives(rest)
  <2>1. CASE rest.sealed
    BY <1>1, <1>2, <2>1 DEF Outlives
  <2>2. CASE ~rest.sealed
    BY <1>2, <1>3, <2>2 DEF Outlives
  <2> QED
    BY <2>1, <2>2
<1> QED
  BY <1>4, <1>5, <1>6

\* A directory that is removed holds nothing, and a part of one no more than it did.
LEMMA RemovalForgets ==
  ASSUME ForgetInv, Fail \/ \E p \in Paths : DeleteExpired(p) \/ DeletionStops(p)
  PROVE  ForgetInv'
<1>1. CASE Fail
  <2>1. SnapshotsInv' /\ job.path \in Paths
    BY <1>1, FailStep, DirFacts DEF Fail, ForgetInv
  <2>2. UNCHANGED <<Service, rotated>> /\ job' = [job EXCEPT !.step = "idle"]
    BY <1>1 DEF Fail, Goto
  <2>3. PICK dir : /\ dirs' = [dirs EXCEPT ![job.path] = dir]
                   /\ CopyFits(dir) /\ ExpiryFits(dir) /\ Outlives(dir)
    <3>1. CASE dirs' = [dirs EXCEPT ![job.path] = NoDirectory]
      BY <3>1, NothingHeld
    <3>2. CASE \E rest \in Remains(Dir) : dirs' = [dirs EXCEPT ![job.path] = rest]
      BY <2>1, <3>2, RestForgets DEF Dir
    <3> QED
      BY <1>1, <3>1, <3>2 DEF Fail
  <2>4. JobStarted'
    BY <2>2 DEF JobStarted, ForgetInv, SnapshotsInv, JobTyped
  <2> QED
    BY <2>1, <2>2, <2>3, <2>4, DirChange
<1>2. ASSUME NEW p \in Paths, DeleteExpired(p) \/ DeletionStops(p)
      PROVE  ForgetInv'
  <2>1. SnapshotsInv'
    BY <1>2, DeleteExpiredStep DEF ForgetInv
  <2>2. /\ UNCHANGED <<Service, rotated>> /\ p # job.path /\ job.step # "idle"
        /\ job' \in {job, [job EXCEPT !.step = "idle"]}
    BY <1>2 DEF DeleteExpired, DeletionStops, Expired, Goto
  <2>3. PICK dir : /\ dirs' = [dirs EXCEPT ![p] = dir]
                   /\ CopyFits(dir) /\ ExpiryFits(dir) /\ Outlives(dir)
    BY <1>2, NothingHeld, RestForgets DEF DeleteExpired, DeletionStops
  <2>4. Dir' = Dir
    <3>1. job'.path = job.path
      BY <2>2 DEF ForgetInv, SnapshotsInv, JobTyped
    <3> QED
      BY <2>2, <2>3, <3>1, DirFacts DEF Dir, ForgetInv, SnapshotsInv, JobTyped
  <2>5. JobStarted'
    BY <2>2, <2>4, JobDirFits DEF JobStarted
  <2> QED
    BY <2>1, <2>2, <2>3, <2>5, DirChange
<1> QED
  BY <1>1, <1>2

\* A rotation leaves only what expires after the day it stands for.
LEMMA EndForgets ==
  ASSUME ForgetInv, Rotated \/ Interrupt
  PROVE  ForgetInv'
<1>1. /\ SnapshotsInv /\ SnapshotsInv' /\ job.step # "idle" /\ job' = [job EXCEPT !.step = "idle"]
      /\ UNCHANGED dirs /\ UNCHANGED Service
  BY EndStep DEF Rotated, Interrupt, Goto, ForgetInv
<1>2. JobStarted'
  BY <1>1 DEF JobStarted, SnapshotsInv, JobTyped
<1>3. CopiesFit'
  BY <1>1 DEF Service, ForgetInv, CopiesFit, CopyFits
<1>4. \A p \in Paths : ExpiryFits(dirs[p])' /\ Outlives(dirs[p])'
  <2> TAKE p \in Paths
  <2>1. ExpiryFits(dirs[p]) /\ Outlives(dirs[p]) /\ dirs' = dirs
    BY <1>1 DEF ForgetInv, DirsForget
  <2>2. CASE Interrupt
    BY <2>1, <2>2 DEF Interrupt, ExpiryFits, Outlives
  <2>3. CASE Rotated
    <3>1. rotated' = Dir.createdAt /\ job.step = "rotate" /\ ~Expired(p)
      BY <2>3 DEF Rotated
    <3>2. Dir.state = "final" /\ Dir.createdAt \in Nat /\ dirs[p].expiresAt \in Nat
      BY <1>1, <3>1, DirFacts, DayFacts DEF Dir
    <3>3. dirs[p].state # "absent" => Dir.createdAt < dirs[p].expiresAt
      <4>1. CASE p = job.path
        BY <2>1, <3>2, <4>1 DEF Outlives, Dir
      <4>2. CASE p # job.path
        BY <3>1, <3>2, <4>2 DEF Expired
      <4> QED
        BY <4>1, <4>2
    <3> QED
      BY <2>1, <3>1, <3>3 DEF ExpiryFits, Outlives
  <2> QED
    BY <2>2, <2>3
<1>5. DirsForget'
  BY <1>2, <1>4 DEF DirsForget
<1> QED
  BY <1>1, <1>3, <1>5, DirsChange

\* Every step keeps what is to be forgotten.
LEMMA ForgetStep ==
  ASSUME ForgetInv, [Next]_vars
  PROVE  ForgetInv'
BY RequestForgets, PurgeForgets, ClockForgets, CreateForgets, CopyForgets, ManifestForgets,
   PublishForgets, RemovalForgets, EndForgets, RestoreForgets DEF Next, Act

\* What was to be forgotten is: from the database of a running service, from the
\* published snapshots once a job has deleted what expired, and, from its last
\* change on, from what an interrupted job or deletion left (purgeClosedConversationContent, calculateSnapshotExpiration
\* and deleteExpiredSnapshots), for any requests, days, jobs and combination of
\* reopenings, late acknowledgements, interruptions and restores.
THEOREM ContentIsForgottenAlways == Spec => []ContentIsForgotten
<1>1. ASSUME ForgetInv
      PROVE  ContentIsForgotten
  <2>1. \A r \in Requests :
          up /\ Finished(db[r]) /\ db[r].content => day <= done[r] + RetentionDays
    BY <1>1 DEF ForgetInv, LiveForgets
  <2>2. ASSUME NEW p \in Paths, dirs[p].state = "final", dirs[p].sealed,
               NEW r \in Requests, dirs[p].db[r].content, Finished(db[r])
        PROVE  rotated < done[r] + RetentionDays
    <3>1. dirs[p].sealed /\ rotated < dirs[p].expiresAt
      BY <1>1, <2>2 DEF ForgetInv, DirsForget, Outlives
    <3>2. /\ dirs[p].expiresAt <= dirs[p].createdAt + RetentionDays
          /\ Finished(dirs[p].db[r]) => dirs[p].expiresAt <= dirs[p].db[r].closedAt + RetentionDays
      BY <1>1, <2>2, <3>1 DEF ForgetInv, DirsForget, ExpiryFits
    <3>3. /\ Finished(dirs[p].db[r]) => dirs[p].db[r].closedAt <= done[r]
          /\ ~Finished(dirs[p].db[r]) => dirs[p].createdAt <= done[r]
      BY <1>1, <2>2 DEF ForgetInv, CopiesFit, CopyFits
    <3>4. /\ rotated \in Nat /\ RetentionDays \in Nat /\ done[r] \in Nat
          /\ dirs[p].createdAt \in Nat /\ dirs[p].expiresAt \in Nat
          /\ dirs[p].db[r].closedAt \in Nat
      BY <1>1, DayFacts DEF ForgetInv
    <3> QED
      BY <3>1, <3>2, <3>3, <3>4
  <2>3. ASSUME NEW p \in Paths, dirs[p].state # "absent", ~dirs[p].sealed
        PROVE  rotated < dirs[p].expiresAt
    <3>1. dirs[p].state \in {"tmp", "final"}
      BY <1>1, <2>3 DEF ForgetInv, SnapshotsInv, JobTyped, Directory
    <3> QED
      BY <1>1, <2>3, <3>1 DEF ForgetInv, DirsForget, Outlives
  <2> QED
    BY <2>1, <2>2, <2>3 DEF ContentIsForgotten
<1>2. ForgetInv /\ [Next]_vars => ForgetInv'
  BY ForgetStep
<1> QED
  BY ForgetInit, <1>1, <1>2, PTL DEF Spec
=============================================================================
