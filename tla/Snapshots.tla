------------------------------ MODULE Snapshots ------------------------------
(***************************************************************************)
(* Retention, snapshots and restore: DataRetentionService purges the       *)
(* content of closed requests while the service runs; a backup job copies  *)
(* the database and the settings files beside it into a directory, seals   *)
(* it with a manifest, verifies it and deletes expired ones; an operator   *)
(* restores a directory while the service is stopped.                      *)
(*                                                                         *)
(* The job runs beside the service and either may die between two steps.   *)
(* Times are whole days; the code's instants fall within them.             *)
(* Definitions marked "slip" are wrong variants of the definition that     *)
(* follows them; no specification uses them.                               *)
(***************************************************************************)
EXTENDS Integers, FiniteSets

CONSTANTS
  Requests,       \* support requests
  RetentionDays,  \* closedRequestRetentionDays
  MaxDay,         \* bound: days that pass
  MaxSnapshots,   \* bound: backup jobs started
  Scenarios       \* sets of the disturbances that may happen in one behaviour

Disturbances == {"reopen", "acknowledge", "interrupt", "restore"}

ASSUME SnapshotsAssumption ==
  /\ IsFiniteSet(Requests)
  /\ RetentionDays \in Nat \ {0}
  /\ MaxDay \in Nat /\ MaxSnapshots \in Nat
  /\ Scenarios \subseteq SUBSET Disturbances

Days == 0..MaxDay
Paths == 1..MaxSnapshots    \* directories in the order of their creation

VARIABLES
  day,       \* today
  up,        \* the service runs
  purged,    \* the service has purged today
  db,        \* the live database: what it holds of each request
  done,      \* for each request, the day it was last finished: closed, all sent
  dirs,      \* the snapshot directories by path
  job,       \* the backup job: its step and its directory
  rotated,   \* the day up to which expired directories have been deleted
  scenario   \* the disturbances of this behaviour

vars == <<day, up, purged, db, done, dirs, job, rotated, scenario>>

Row == [status: {"absent", "active", "closed"}, closedAt: Days,
        content: BOOLEAN, unfinished: BOOLEAN]
NoRow == [status |-> "absent", closedAt |-> 0, content |-> FALSE, unfinished |-> FALSE]
Database == [Requests -> Row]

\* A directory: incomplete ones keep the .tmp suffix.  It expires when its
\* manifest says; without one, when its last change is RetentionDays ago.
\* `files`: the content and service control files beside the database are copied.
Directory ==
  [state: {"absent", "tmp", "final"}, createdAt: Days, hasDb: BOOLEAN, db: Database,
   files: BOOLEAN, sealed: BOOLEAN, expiresAt: 0..MaxDay + RetentionDays]
NoDirectory ==
  [state |-> "absent", createdAt |-> 0, hasDb |-> FALSE,
   db |-> [r \in Requests |-> NoRow], files |-> FALSE, sealed |-> FALSE, expiresAt |-> 0]

Steps == {"idle", "backup", "copy", "seal", "verify", "rotate"}

-----------------------------------------------------------------------------
(* Retention.                                                              *)

\* eligibleRequestWhere without its date.
Finished(row) == row.status = "closed" /\ ~row.unfinished

Due(row, on) == Finished(row) /\ row.closedAt + RetentionDays <= on

\* purgeClosedConversationContent, one transaction.
PurgeContent(d, on) ==
  [r \in Requests |-> IF Due(d[r], on) THEN [d[r] EXCEPT !.content = FALSE] ELSE d[r]]

\* The day each request was finished, when the database becomes d.
DoneIn(d) ==
  [r \in Requests |-> IF Finished(d[r]) /\ ~Finished(db[r]) THEN day ELSE done[r]]

SetDb(d) == db' = d /\ done' = DoneIn(d)

-----------------------------------------------------------------------------
(* What the service does meanwhile.                                        *)

Open(r) ==
  /\ up /\ db[r].status = "absent"
  /\ SetDb([db EXCEPT ![r] = [NoRow EXCEPT !.status = "active", !.content = TRUE]])
  /\ UNCHANGED <<day, up, purged, dirs, job, rotated>>

\* An operator replies: the reply's delivery is unfinished.
Reply(r) ==
  /\ up /\ db[r].status = "active" /\ ~db[r].unfinished
  /\ SetDb([db EXCEPT ![r].unfinished = TRUE, ![r].content = TRUE])
  /\ UNCHANGED <<day, up, purged, dirs, job, rotated>>

\* The delivery is sent, at once or when operators resolve it.
Deliver(r) ==
  /\ up /\ db[r].unfinished
  /\ SetDb([db EXCEPT ![r].unfinished = FALSE])
  /\ UNCHANGED <<day, up, purged, dirs, job, rotated>>

Close(r) ==
  /\ up /\ db[r].status = "active"
  /\ SetDb([db EXCEPT ![r].status = "closed", ![r].closedAt = day])
  /\ UNCHANGED <<day, up, purged, dirs, job, rotated>>

Reopen(r) ==
  /\ "reopen" \in scenario
  /\ up /\ db[r].status = "closed"
  /\ SetDb([db EXCEPT ![r].status = "active", ![r].closedAt = 0])
  /\ UNCHANGED <<day, up, purged, dirs, job, rotated>>

\* An uncertain relay is confirmed late: its acknowledgement is enqueued,
\* whatever became of the request.
Acknowledge(r) ==
  /\ "acknowledge" \in scenario
  /\ up /\ db[r].status = "closed" /\ ~db[r].unfinished
  /\ SetDb([db EXCEPT ![r].unfinished = TRUE, ![r].content = TRUE])
  /\ UNCHANGED <<day, up, purged, dirs, job, rotated>>

\* The retention interval: several times a day.
Purge ==
  /\ up
  /\ SetDb(PurgeContent(db, day)) /\ purged' = TRUE
  /\ UNCHANGED <<day, up, dirs, job, rotated>>

\* The service starts, and purges before anything else.
Start ==
  /\ ~up
  /\ up' = TRUE /\ SetDb(PurgeContent(db, day)) /\ purged' = TRUE
  /\ UNCHANGED <<day, dirs, job, rotated>>

Stop ==
  /\ up
  /\ up' = FALSE
  /\ UNCHANGED <<day, purged, db, done, dirs, job, rotated>>

\* A running service lets no day pass without a purge.
NextDay ==
  /\ day < MaxDay /\ (up => purged)
  /\ day' = day + 1 /\ purged' = FALSE
  /\ UNCHANGED <<up, db, done, dirs, job, rotated>>

-----------------------------------------------------------------------------
(* The backup job.                                                         *)

Service == <<day, up, purged, db, done>>
Dir == dirs[job.path]
Goto(step) == job' = [job EXCEPT !.step = step]

\* The age that counts for a directory without a manifest (snapshotExpiration).
Touched(dir) == [dir EXCEPT !.expiresAt = day + RetentionDays]

\* The job's directory becomes dir.
Write(dir, step) ==
  /\ dirs' = [dirs EXCEPT ![job.path] = dir]
  /\ Goto(step) /\ UNCHANGED <<Service, rotated>>

CreateSnapshot ==
  /\ job.step = "idle" /\ job.path < MaxSnapshots
  /\ job' = [step |-> "backup", path |-> job.path + 1]
  /\ dirs' = [dirs EXCEPT ![job.path + 1] =
                Touched([NoDirectory EXCEPT !.state = "tmp", !.createdAt = day])]
  /\ UNCHANGED <<Service, rotated>>

CopyOptionalStateFiles ==
  /\ job.step = "copy"
  /\ Write(Touched([Dir EXCEPT !.files = TRUE]), "seal")

\* slip: content that was not due yet when the job began counts in full.
DefaultExpiration(dir) == dir.createdAt + RetentionDays

\* calculateSnapshotExpiration: content in the directory may be due before it.
CalculateSnapshotExpiration(dir) ==
  LET closed == {dir.db[r].closedAt :
                   r \in {q \in Requests : Finished(dir.db[q]) /\ dir.db[q].content}}
      days == {d + RetentionDays : d \in closed \cup {dir.createdAt}}
  IN  CHOOSE d \in days : \A e \in days : d <= e

SealWith(dir) ==
  [dir EXCEPT !.sealed = TRUE, !.expiresAt = CalculateSnapshotExpiration(dir)]

CreateManifest == job.step = "seal" /\ Write(SealWith(Dir), "verify")

\* slip: the manifest is written as soon as the database is there, and the
\* settings files are copied later.
BackupAndSeal ==
  /\ job.step = "backup"
  /\ Write(SealWith([Dir EXCEPT !.hasDb = TRUE, !.db = db]), "copy")

\* SqliteBackupService.createBackup: SQLite copies a consistent database.
CreateBackup ==
  /\ job.step = "backup"
  /\ Write(Touched([Dir EXCEPT !.hasDb = TRUE, !.db = db]), "copy")

\* verifyRetentionApplied.
RetentionApplied(dir) ==
  \A r \in Requests : dir.db[r].content => ~Due(dir.db[r], dir.createdAt)

\* verifySqliteBackup: a whole copy of the database.
DatabaseIsIntact(dir) == dir.hasDb

\* verifyServiceSnapshot: the files of the manifest are there, the database is one.
Verifies(dir) ==
  dir.sealed /\ dir.files /\ DatabaseIsIntact(dir) /\ RetentionApplied(dir)

\* slip: the directory may be given its name before it is sealed.
PublishEarly ==
  /\ job.step \in {"seal", "verify"} /\ (job.step = "verify" => Verifies(Dir))
  /\ dirs' = [dirs EXCEPT ![job.path].state = "final"]
  /\ Goto("rotate") /\ UNCHANGED <<Service, rotated>>

\* Verified, the directory is given its name.
Publish ==
  /\ job.step = "verify" /\ Verifies(Dir)
  /\ dirs' = [dirs EXCEPT ![job.path].state = "final"]
  /\ Goto("rotate") /\ UNCHANGED <<Service, rotated>>

\* What is left of a directory whose deletion fails or is killed part-way: it
\* has lost some of its files, in any order, which also counts as a change.
Remains(dir) ==
  {rest \in {[dir EXCEPT !.hasDb = d, !.db = IF d THEN @ ELSE NoDirectory.db,
                         !.files = f, !.sealed = m,
                         !.expiresAt = IF m THEN @ ELSE day + RetentionDays] :
               d \in {dir.hasDb, FALSE}, f \in {dir.files, FALSE},
               m \in {dir.sealed, FALSE}} :
     \/ rest.hasDb # dir.hasDb \/ rest.files # dir.files
     \/ rest.sealed # dir.sealed}

\* Not verified, or a step failed: what was made so far is removed.
Fail ==
  /\ job.step \in {"backup", "copy", "seal", "verify"}
  /\ \/ dirs' = [dirs EXCEPT ![job.path] = NoDirectory]
     \/ /\ "interrupt" \in scenario
        /\ \E rest \in Remains(Dir) : dirs' = [dirs EXCEPT ![job.path] = rest]
  /\ Goto("idle") /\ UNCHANGED <<Service, rotated>>

Expired(p) ==
  /\ p # job.path /\ dirs[p].state # "absent"
  /\ dirs[p].expiresAt <= Dir.createdAt

\* slip: old snapshots make room before the new one is complete.
DeleteExpiredEarly(p) ==
  /\ job.step \in {"copy", "rotate"} /\ Expired(p)
  /\ dirs' = [dirs EXCEPT ![p] = NoDirectory]
  /\ UNCHANGED <<Service, job, rotated>>

DeleteExpired(p) ==
  /\ job.step = "rotate" /\ Expired(p)
  /\ dirs' = [dirs EXCEPT ![p] = NoDirectory]
  /\ UNCHANGED <<Service, job, rotated>>

\* A deletion stops part-way, and the job with it.
DeletionStops(p) ==
  /\ "interrupt" \in scenario
  /\ job.step = "rotate" /\ Expired(p)
  /\ \E rest \in Remains(dirs[p]) : dirs' = [dirs EXCEPT ![p] = rest]
  /\ Goto("idle") /\ UNCHANGED <<Service, rotated>>

Rotated ==
  /\ job.step = "rotate" /\ ~\E p \in Paths : Expired(p)
  /\ rotated' = Dir.createdAt
  /\ Goto("idle") /\ UNCHANGED <<Service, dirs>>

\* The job dies, or a deletion fails at once: everything stays as it is.
Interrupt ==
  /\ "interrupt" \in scenario
  /\ job.step # "idle"
  /\ Goto("idle") /\ UNCHANGED <<Service, dirs, rotated>>

\* restoreServiceSnapshot into a new directory, which then replaces the data of
\* the stopped instance.
Restore(p) ==
  /\ "restore" \in scenario
  /\ ~up /\ job.step = "idle" /\ dirs[p].state # "absent" /\ Verifies(dirs[p])
  /\ SetDb(dirs[p].db)
  /\ UNCHANGED <<day, up, purged, dirs, job, rotated>>

-----------------------------------------------------------------------------
Init ==
  /\ day = 0 /\ up = TRUE /\ purged = TRUE
  /\ db = [r \in Requests |-> NoRow]
  /\ done = [r \in Requests |-> 0]
  /\ dirs = [p \in Paths |-> NoDirectory]
  /\ job = [step |-> "idle", path |-> 0]
  /\ rotated = 0
  /\ scenario \in Scenarios

Act ==
  \/ \E r \in Requests :
       Open(r) \/ Reply(r) \/ Deliver(r) \/ Close(r) \/ Reopen(r) \/ Acknowledge(r)
  \/ Purge \/ Start \/ Stop \/ NextDay
  \/ CreateSnapshot \/ CreateBackup \/ CopyOptionalStateFiles \/ CreateManifest
  \/ Publish \/ Fail \/ Rotated \/ Interrupt
  \/ \E p \in Paths : DeleteExpired(p) \/ DeletionStops(p) \/ Restore(p)

Next == Act /\ UNCHANGED scenario

Spec == Init /\ [][Next]_vars

-----------------------------------------------------------------------------
\* Days and directories stay within their domains, a day's closing and finishing
\* lie in the past, and a job deletes old directories once its own is complete.
TypeOK ==
  /\ day \in Days /\ up \in BOOLEAN /\ purged \in BOOLEAN
  /\ db \in Database
  /\ done \in [Requests -> Days]
  /\ \A r \in Requests : done[r] <= day /\ db[r].closedAt <= day
  /\ dirs \in [Paths -> Directory]
  /\ job \in [step: Steps, path: 0..MaxSnapshots]
  /\ job.step # "idle" =>
       job.path \in Paths /\ Dir.state = IF job.step = "rotate" THEN "final" ELSE "tmp"
  /\ job.step = "rotate" => Dir.sealed
  /\ rotated \in Days /\ rotated <= day

\* closedRequestRetentionDays after a request was closed and its last reply
\* sent, its content is gone: from the database of a running service, and, once
\* a job has deleted what expired, from every published snapshot.  What an
\* interrupted job left behind, or a deletion that took the manifest and not the
\* rest, is gone that long after it was last changed, be its content overdue.
ContentIsForgotten ==
  /\ \A r \in Requests :
       up /\ Finished(db[r]) /\ db[r].content => day <= done[r] + RetentionDays
  /\ \A p \in Paths : dirs[p].state = "final" /\ dirs[p].sealed =>
       \A r \in Requests :
         dirs[p].db[r].content /\ Finished(db[r]) => rotated < done[r] + RetentionDays
  /\ \A p \in Paths : dirs[p].state # "absent" /\ ~dirs[p].sealed =>
       rotated < dirs[p].expiresAt

IsWhole(dir) == dir.sealed /\ dir.hasDb /\ dir.files

\* A directory gets its manifest, which makes it restorable, when it is whole.
\* It does not change again before it has expired, wherever a job is interrupted,
\* unless the job that makes it fails before it is published.
SealedIsWhole ==
  [][\A p \in Paths :
       /\ dirs'[p].sealed /\ ~dirs[p].sealed => IsWhole(dirs'[p])
       /\ dirs[p].sealed /\ dirs'[p] # [dirs[p] EXCEPT !.state = dirs'[p].state] =>
            dirs[p].expiresAt <= day \/ dirs[p].state = "tmp"]_vars

\* A published snapshot is deleted, wholly or in part, only when a newer one is
\* published and whole.
NewestIsKept ==
  [][\A p \in Paths :
       dirs[p].state = "final" /\ dirs'[p] # dirs[p] =>
         \E q \in Paths : q > p /\ dirs'[q].state = "final" /\ IsWhole(dirs'[q])]_vars
=============================================================================
