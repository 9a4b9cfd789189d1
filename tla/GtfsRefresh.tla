---------------------------- MODULE GtfsRefresh ----------------------------
(***************************************************************************)
(* The GTFS Static refresh: any number of processes download the feed ZIP  *)
(* (or are given a local one), inspect it, archive it under its checksum   *)
(* and replace six tables and the feed_state row in one PostgreSQL         *)
(* transaction that holds an advisory lock.                                *)
(*                                                                         *)
(* A ZIP is a sequence of chunks <<feed, n>>, so that partial, mixed and   *)
(* damaged files can be told from whole ones; its checksum is the sequence *)
(* of the chunks that were digested.  The rows of a table are the feeds    *)
(* they were copied from.                                                  *)
(***************************************************************************)
EXTENDS Integers, Sequences

CONSTANTS
    Process,        \* processes that may run a refresh or a load
    Feed,           \* feeds by content
    Effective,      \* feeds whose validity period holds today
    Sound,          \* feeds whose rows and references are intact
    Table,          \* the six GTFS tables
    Attempts,       \* DOWNLOAD_ATTEMPTS
    Chunks,         \* chunks of a ZIP
    None

ASSUME ConstantsAssumption ==
    /\ Effective \subseteq Feed
    /\ Sound \subseteq Feed
    /\ Table # {}
    /\ Attempts \in Nat \ {0}
    /\ Chunks \in Nat \ {0}
    /\ None \notin Feed \cup Process \cup [feed : Feed, archived : BOOLEAN]

VARIABLES
    remote,         \* the feed that the server offers
    archive,        \* archive directory: checksum -> bytes of its ZIP
    rows,           \* committed: table -> feeds its rows come from
    state,          \* committed: feed_state, or None
    lock,           \* holder of the advisory lock, or None
    pc,             \* process -> where it is
    attempt,        \* process -> failed download attempts
    from,           \* process -> the feed that its response carries
    file,           \* process -> bytes of its temporary or local ZIP
    checksum,       \* process -> its running digest
    opts,           \* process -> force: load even if unchanged,
                    \*            local: load_gtfs_static on a given ZIP
    left,           \* transaction: tables still to be replaced
    deleted,        \* transaction: table -> rows it deleted
    inserted        \* transaction: table -> rows it copied in

db == <<rows, state>>
transfer == <<attempt, from, file, checksum>>
tx == <<left, deleted, inserted>>
vars == <<remote, archive, db, lock, pc, transfer, opts, tx>>

Whole(f) == [n \in 1 .. Chunks |-> <<f, n>>]
Damaged == <<>>
Options == [force : BOOLEAN, local : BOOLEAN]
NoRows == [t \in Table |-> {}]
State == [feed : Feed, archived : BOOLEAN]

\* The file that load_gtfs reads.
ZipOf(p) == IF opts[p].local THEN file[p] ELSE archive[checksum[p]]

\* The rows that process p sees inside its transaction.
Visible(p, t) == (rows[t] \ deleted[p][t]) \cup inserted[p][t]

-----------------------------------------------------------------------------
Init ==
    /\ remote \in Feed
    /\ archive = [c \in {} |-> Damaged]
    /\ rows = NoRows
    /\ state = None
    /\ lock = None
    /\ pc = [p \in Process |-> "idle"]
    /\ attempt = [p \in Process |-> 0]
    /\ from = [p \in Process |-> None]
    /\ file = [p \in Process |-> <<>>]
    /\ checksum = [p \in Process |-> <<>>]
    /\ opts = [p \in Process |-> [force |-> FALSE, local |-> FALSE]]
    /\ left = [p \in Process |-> {}]
    /\ deleted = [p \in Process |-> NoRows]
    /\ inserted = [p \in Process |-> NoRows]

Goto(p, l) == pc' = [pc EXCEPT ![p] = l]

\* The process ends: files in the temporary directory and an uncommitted
\* transaction disappear, and PostgreSQL releases its lock.
End(p) ==
    /\ Goto(p, "idle")
    /\ lock' = IF lock = p THEN None ELSE lock
    /\ attempt' = [attempt EXCEPT ![p] = 0]
    /\ from' = [from EXCEPT ![p] = None]
    /\ file' = [file EXCEPT ![p] = <<>>]
    /\ checksum' = [checksum EXCEPT ![p] = <<>>]
    /\ opts' = [opts EXCEPT ![p] = [force |-> FALSE, local |-> FALSE]]
    /\ left' = [left EXCEPT ![p] = {}]
    /\ deleted' = [deleted EXCEPT ![p] = NoRows]
    /\ inserted' = [inserted EXCEPT ![p] = NoRows]

-----------------------------------------------------------------------------
(* refresh_gtfs_static: prepare_feed *)

StartRefresh(p, force) ==
    /\ pc[p] = "idle"
    /\ Goto(p, "connect")
    /\ opts' = [opts EXCEPT ![p] = [force |-> force, local |-> FALSE]]
    /\ UNCHANGED <<remote, archive, db, lock, transfer, tx>>

\* An attempt starts over: a new digest and a truncated file.
KeepDigest(p) == checksum' = checksum       \* faulty: one digest for all
NewDigest(p) == checksum' = [checksum EXCEPT ![p] = <<>>]

Connect(p) ==
    /\ pc[p] = "connect"
    /\ Goto(p, "transfer")
    /\ from' = [from EXCEPT ![p] = remote]
    /\ file' = [file EXCEPT ![p] = <<>>]
    /\ NewDigest(p)
    /\ UNCHANGED <<remote, archive, db, lock, attempt, opts, tx>>

Receive(p) ==
    /\ pc[p] = "transfer"
    /\ Len(file[p]) < Chunks
    /\ LET chunk == <<from[p], Len(file[p]) + 1>> IN
          /\ file' = [file EXCEPT ![p] = Append(@, chunk)]
          /\ checksum' = [checksum EXCEPT ![p] = Append(@, chunk)]
    /\ UNCHANGED <<remote, archive, db, lock, pc, attempt, from, opts, tx>>

\* The response ends, perhaps early when it has no Content-Length.
EndOfResponse(p) ==
    /\ pc[p] = "transfer"
    /\ Goto(p, "inspect")
    /\ UNCHANGED <<remote, archive, db, lock, transfer, opts, tx>>

\* A transient error: another attempt, or DownloadError after the last.
AttemptUncounted(p) == attempt[p]           \* faulty: the loop has no bound
NextAttempt(p) == attempt[p] + 1

OneTooMany(p) == NextAttempt(p) <= Attempts \* faulty: off by one
AttemptsRemain(p) == NextAttempt(p) < Attempts

TransferFails(p) ==
    /\ pc[p] \in {"connect", "transfer"}
    /\ IF AttemptsRemain(p)
       THEN /\ Goto(p, "connect")
            /\ attempt' = [attempt EXCEPT ![p] = NextAttempt(p)]
            /\ UNCHANGED <<lock, from, file, checksum, opts, tx>>
       ELSE End(p)
    /\ UNCHANGED <<remote, archive, db>>

\* inspect_feed on the temporary file: a complete ZIP, effective today.
Inspect(p) ==
    /\ pc[p] = "inspect"
    /\ IF \E f \in Effective : file[p] = Whole(f)
       THEN Goto(p, "archive") /\ UNCHANGED <<lock, transfer, opts, tx>>
       ELSE End(p)
    /\ UNCHANGED <<remote, archive, db>>

\* destination.exists() and the rename are two steps.
LookUp(p) ==
    /\ pc[p] = "archive"
    /\ Goto(p, IF checksum[p] \in DOMAIN archive THEN "verify" ELSE "rename")
    /\ UNCHANGED <<remote, archive, db, lock, transfer, opts, tx>>

\* Renaming onto a directory that another refresh has made is an OSError,
\* which is forgiven because its ZIP is there.
Rename(p) ==
    /\ pc[p] = "rename"
    /\ Goto(p, "verify")
    /\ archive' = IF checksum[p] \in DOMAIN archive
                  THEN archive
                  ELSE [c \in DOMAIN archive \cup {checksum[p]} |->
                          IF c = checksum[p] THEN file[p] ELSE archive[c]]
    /\ UNCHANGED <<remote, db, lock, transfer, opts, tx>>

Verify(p) ==
    /\ pc[p] = "verify"
    /\ IF archive[checksum[p]] = checksum[p]
       THEN Goto(p, "open") /\ UNCHANGED <<lock, transfer, opts, tx>>
       ELSE End(p)
    /\ UNCHANGED <<remote, archive, db>>

-----------------------------------------------------------------------------
(* load_gtfs_static: load_gtfs *)

\* load_gtfs_static.main on a ZIP of the operator, expired if so wished.
StartLoad(p, f) ==
    /\ pc[p] = "idle"
    /\ Goto(p, "open")
    /\ file' = [file EXCEPT ![p] = Whole(f)]
    /\ checksum' = [checksum EXCEPT ![p] = Whole(f)]
    /\ opts' = [opts EXCEPT ![p] = [force |-> TRUE, local |-> TRUE]]
    /\ UNCHANGED <<remote, archive, db, lock, attempt, from, tx>>

\* inspect_feed again, on the file that is going to be loaded.
Open(p) ==
    /\ pc[p] = "open"
    /\ IF \E f \in IF opts[p].local THEN Feed ELSE Effective : ZipOf(p) = Whole(f)
       THEN Goto(p, "lock") /\ UNCHANGED <<lock, transfer, opts, tx>>
       ELSE End(p)
    /\ UNCHANGED <<remote, archive, db>>

\* pg_advisory_xact_lock
LockIsShared == TRUE                        \* faulty: no mutual exclusion
LockIsFree == lock = None

AcquireLock(p) ==
    /\ pc[p] = "lock"
    /\ LockIsFree
    /\ lock' = p
    /\ Goto(p, "compare")
    /\ UNCHANGED <<remote, archive, db, transfer, opts, tx>>

Unchanged(p) == ~opts[p].force /\ state # None /\ checksum[p] = Whole(state.feed)

\* The stored checksum is read under the lock: nothing to do, or begin.
Compare(p) ==
    /\ pc[p] = "compare"
    /\ IF Unchanged(p)
       THEN End(p)
       ELSE /\ Goto(p, "copy")
            /\ left' = [left EXCEPT ![p] = Table]
            /\ UNCHANGED <<lock, transfer, opts, deleted, inserted>>
    /\ UNCHANGED <<remote, archive, db>>

\* DELETE the committed rows of a table and COPY the ones of the ZIP.  A ZIP
\* damaged by now fails its CRC check: see Abort.
CopyTable(p, t) ==
    /\ pc[p] = "copy"
    /\ t \in left[p]
    /\ \E f \in Feed :
          /\ ZipOf(p) = Whole(f)
          /\ inserted' = [inserted EXCEPT ![p][t] = {f}]
    /\ deleted' = [deleted EXCEPT ![p][t] = rows[t]]
    /\ left' = [left EXCEPT ![p] = @ \ {t}]
    /\ UNCHANGED <<remote, archive, db, lock, pc, transfer, opts>>

\* Row counts and validate_references, on what the transaction sees.
NoReferenceChecks(p) == TRUE                \* faulty: nothing is validated
ReferencesHold(p) == \A t \in Table : Visible(p, t) \subseteq Sound

Validate(p) ==
    /\ pc[p] = "copy"
    /\ left[p] = {}
    /\ IF ReferencesHold(p)
       THEN Goto(p, "commit") /\ UNCHANGED <<lock, transfer, opts, tx>>
       ELSE End(p)
    /\ UNCHANGED <<remote, archive, db>>

\* The upsert of gtfs_feed_state and the COMMIT.
Commit(p) ==
    /\ pc[p] = "commit"
    /\ rows' = [t \in Table |-> Visible(p, t)]
    /\ \E f \in Feed :
          /\ checksum[p] = Whole(f)
          /\ state' = [feed |-> f, archived |-> ~opts[p].local]
    /\ End(p)
    /\ UNCHANGED <<remote, archive>>

-----------------------------------------------------------------------------
\* Any exception, lost connection or kill.
Abort(p) ==
    /\ pc[p] # "idle"
    /\ End(p)
    /\ UNCHANGED <<remote, archive, db>>

\* MBTA publishes another feed.
NewRemote(f) ==
    /\ remote' = f
    /\ UNCHANGED <<archive, db, lock, pc, transfer, opts, tx>>

\* A disk fault, which the archive keeps as it is.
Damage(c) ==
    /\ c \in DOMAIN archive
    /\ archive' = [archive EXCEPT ![c] = Damaged]
    /\ UNCHANGED <<remote, db, lock, pc, transfer, opts, tx>>

\* Everything a process does by itself once it was started.
Step(p) ==
    \/ Connect(p) \/ Receive(p) \/ EndOfResponse(p) \/ Inspect(p)
    \/ LookUp(p) \/ Rename(p) \/ Verify(p)
    \/ Open(p) \/ Compare(p) \/ (\E t \in Table : CopyTable(p, t)) \/ Validate(p) \/ Commit(p)

Next ==
    \/ \E p \in Process :
          \/ \E force \in BOOLEAN : StartRefresh(p, force)
          \/ \E f \in Feed : StartLoad(p, f)
          \/ Step(p) \/ TransferFails(p) \/ AcquireLock(p) \/ Abort(p)
    \/ \E f \in Feed : NewRemote(f)
    \/ \E c \in DOMAIN archive : Damage(c)

Spec == Init /\ [][Next]_vars

\* A process runs, and PostgreSQL grants the lock in the order of arrival.
\* A damaged ZIP raises, so the load that reads it aborts.
Fairness ==
    \A p \in Process :
        /\ WF_vars(Step(p))
        /\ SF_vars(AcquireLock(p))
        /\ WF_vars(pc[p] = "copy" /\ ZipOf(p) = Damaged /\ Abort(p))

FairSpec == Spec /\ Fairness

-----------------------------------------------------------------------------
\* Every variable has its type; in particular _download never begins more
\* than DOWNLOAD_ATTEMPTS attempts, and only whole ZIPs enter the archive.
TypeOK ==
    /\ remote \in Feed
    /\ \A c \in DOMAIN archive : archive[c] \in {Whole(f) : f \in Feed} \cup {Damaged}
    /\ rows \in [Table -> SUBSET Feed]
    /\ state \in State \cup {None}
    /\ lock \in Process \cup {None}
    /\ pc \in [Process -> {"idle", "connect", "transfer", "inspect", "archive", "rename",
                           "verify", "open", "lock", "compare", "copy", "commit"}]
    /\ attempt \in [Process -> 0 .. Attempts - 1]
    /\ from \in [Process -> Feed \cup {None}]
    /\ file \in [Process -> Seq(Feed \X (1 .. Chunks))]
    /\ checksum \in [Process -> Seq(Feed \X (1 .. Chunks))]
    /\ opts \in [Process -> Options]
    /\ left \in [Process -> SUBSET Table]
    /\ deleted \in [Process -> [Table -> SUBSET Feed]]
    /\ inserted \in [Process -> [Table -> SUBSET Feed]]

\* Readers never see a mixture: all six tables hold the rows of the feed
\* that gtfs_feed_state names, whoever loads, aborts or waits.
TablesMatchState ==
    \A t \in Table : rows[t] = IF state = None THEN {} ELSE {state.feed}

\* Only feeds with intact references are served, and a refresh serves only
\* feeds that inspect_feed found effective.
OnlyFitFeeds ==
    /\ \A t \in Table : rows[t] \subseteq Sound
    /\ state # None => (state.archived => state.feed \in Effective)

\* A directory of the archive holds the bytes its name digests, unless the
\* disk damaged them, whatever attempts a download took and whoever raced.
ArchiveNamed == \A c \in DOMAIN archive : archive[c] \in {c, Damaged}

\* Of concurrent refreshes of one feed only one loads it: a run without
\* --force never comes to commit a feed, the same rows and loaded_at anew,
\* that is the loaded one when it commits, not only when it was compared.
LoadsOnce ==
    [][\A p \in Process :
          Commit(p) /\ ~opts[p].force
              => state = None \/ checksum[p] # Whole(state.feed)]_vars

\* Refinement: the tables are a FeedStore.
Shown ==
    IF \A t \in Table : rows[t] = {} THEN None
    ELSE IF \E f \in Feed : \A t \in Table : rows[t] = {f}
         THEN CHOOSE f \in Feed : \A t \in Table : rows[t] = {f}
         ELSE rows

Tables == INSTANCE FeedStore WITH Feed <- Feed \cap Sound, feed <- Shown

\* The tables, whatever gtfs_feed_state says of them, behave as FeedStore
\* says: loads that race, abort at any point and read damaged ZIPs look like
\* one sound feed replacing another in one step.
ImplementsFeedStore == Tables!Spec

\* The order in which a run passes through its places.
Stage == [idle |-> 0, connect |-> 1, transfer |-> 2, inspect |-> 3, archive |-> 4, rename |-> 5,
          verify |-> 6, open |-> 7, lock |-> 8, compare |-> 9, copy |-> 10, commit |-> 11]

\* Run p comes closer to its end: it ends, begins one of the attempts that
\* remain, or in this attempt goes on to a later place, receives one of the
\* remaining chunks or replaces one of the remaining tables.
Advances(p) ==
    \/ pc'[p] = "idle"
    \/ attempt[p] < attempt'[p] /\ attempt'[p] < Attempts
    \/ /\ attempt'[p] = attempt[p]
       /\ \/ Stage[pc[p]] < Stage[pc'[p]]
          \/ /\ pc'[p] = pc[p]
             /\ \/ Len(file[p]) < Len(file'[p]) /\ Len(file'[p]) <= Chunks
                \/ file'[p] = file[p] /\ left'[p] \subseteq left[p] /\ left'[p] # left[p]

\* Process p does nothing.
Rests(p) ==
    /\ pc'[p] = pc[p] /\ attempt'[p] = attempt[p] /\ from'[p] = from[p]
    /\ file'[p] = file[p] /\ checksum'[p] = checksum[p] /\ opts'[p] = opts[p]
    /\ left'[p] = left[p] /\ deleted'[p] = deleted[p] /\ inserted'[p] = inserted[p]

\* No refresh or load can go round in circles: whatever the server, the disk
\* and other processes do, all that a started process does brings it closer
\* to its end, so it is over after a bounded number of its own steps.
RunsAdvance ==
    [][\A p \in Process : pc[p] # "idle" => Advances(p) \/ Rests(p)]_vars

\* Every refresh and every load comes to an end, also when others keep
\* taking the lock.
RefreshEnds == \A p \in Process : pc[p] # "idle" ~> pc[p] = "idle"
=============================================================================
