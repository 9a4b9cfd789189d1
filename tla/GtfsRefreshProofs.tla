-------------------------- MODULE GtfsRefreshProofs --------------------------
(***************************************************************************)
(* Proofs about GtfsRefresh, for every number of processes, feeds, tables, *)
(* chunks and download attempts.                                           *)
(***************************************************************************)
EXTENDS GtfsRefresh, TLAPS

(* ZIPs *)

LEMMA WholeOfOne ==
  ASSUME NEW f \in Feed, NEW g \in Feed, Whole(f) = Whole(g)
  PROVE  f = g
<1>1. 1 \in 1 .. Chunks
  BY ConstantsAssumption
<1>2. Whole(f)[1] = <<f, 1>> /\ Whole(g)[1] = <<g, 1>>
  BY <1>1 DEF Whole
<1> QED
  BY <1>2

LEMMA WholeIsNotDamaged ==
  ASSUME NEW f
  PROVE  Whole(f) # Damaged
<1>1. 1 \in DOMAIN Whole(f)
  BY ConstantsAssumption DEF Whole
<1>2. DOMAIN Damaged = 1 .. 0
  BY DEF Damaged
<1> QED
  BY <1>1, <1>2

LEMMA WholeIsBytes ==
  ASSUME NEW f \in Feed
  PROVE  Whole(f) \in Seq(Feed \X (1 .. Chunks))
<1>1. Chunks \in Nat
  BY ConstantsAssumption
<1>2. Whole(f) \in [1 .. Chunks -> Feed \X (1 .. Chunks)]
  BY DEF Whole
<1> QED
  BY <1>1, <1>2

-----------------------------------------------------------------------------
(* The inductive invariant *)

Checked == {"archive", "rename", "verify", "open", "lock", "compare", "copy", "commit"}
Archived == {"verify", "open", "lock", "compare", "copy", "commit"}
Locked == {"compare", "copy", "commit"}
Writing == {"copy", "commit"}

\* The ZIP of p that was checked is the one of feed f.
Holds(p, f) == checksum[p] = Whole(f)

Transferred(p) == file[p] = checksum[p] /\ (pc[p] = "transfer" => from[p] \in Feed)

Inspected(p) ==
    pc[p] \in Checked =>
        \E f \in Feed : Holds(p, f) /\ (opts[p].local \/ f \in Effective)

InArchive(p) ==
    pc[p] \in Archived /\ ~opts[p].local => checksum[p] \in DOMAIN archive

HoldsLock(p) == pc[p] \in Locked <=> lock = p

\* What the transaction has replaced, it has replaced by the checked feed,
\* and nobody else has replaced anything since.
Replaced(p) ==
    /\ pc[p] \in Writing =>
         \A t \in Table \ left[p] :
            /\ deleted[p][t] = rows[t]
            /\ \E f \in Feed : Holds(p, f) /\ inserted[p][t] = {f}
    /\ pc[p] = "commit" => left[p] = {} /\ \A f \in Feed : Holds(p, f) => f \in Sound

\* Without --force, another feed than the loaded one.
Differs(p) ==
    pc[p] \in Writing /\ ~opts[p].force => state = None \/ ~Holds(p, state.feed)

Good(p) ==
    /\ Transferred(p) /\ Inspected(p) /\ InArchive(p) /\ HoldsLock(p)
    /\ Replaced(p) /\ Differs(p)

IInv ==
    /\ TypeOK /\ TablesMatchState /\ OnlyFitFeeds /\ ArchiveNamed
    /\ \A p \in Process : Good(p)

-----------------------------------------------------------------------------
(* Frames *)

LEMMA RestingStaysGood ==
  ASSUME NEW q \in Process, Good(q), Rests(q),
         DOMAIN archive \subseteq DOMAIN archive',
         lock' = q <=> lock = q,
         (UNCHANGED db) \/ pc[q] \notin Writing
  PROVE  Good(q)'
<1>1. \A f : Holds(q, f)' <=> Holds(q, f)
  BY DEF Rests, Holds, Whole
<1>2. Transferred(q)' /\ InArchive(q)' /\ HoldsLock(q)'
  BY DEF Good, Rests, Transferred, InArchive, HoldsLock
<1>3. Inspected(q)'
  BY <1>1 DEF Good, Rests, Inspected
<1>4. Replaced(q)'
  BY <1>1 DEF Good, Rests, Replaced, db, Writing
<1>5. Differs(q)'
  BY <1>1 DEF Good, Rests, Differs, db
<1> QED
  BY <1>2, <1>3, <1>4, <1>5 DEF Good

\* A step of p that leaves the database and the archive alone.
LEMMA LocalStep ==
  ASSUME IInv, NEW p \in Process, TypeOK', UNCHANGED <<archive, db>>, Good(p)',
         \A q \in Process : q # p => Rests(q) /\ (lock' = q <=> lock = q)
  PROVE  IInv'
<1>1. \A q \in Process : Good(q)'
  <2> SUFFICES ASSUME NEW q \in Process, q # p PROVE Good(q)'
    OBVIOUS
  <2> QED
    BY RestingStaysGood DEF IInv
<1>2. TablesMatchState' /\ OnlyFitFeeds' /\ ArchiveNamed'
  BY DEF IInv, TablesMatchState, OnlyFitFeeds, ArchiveNamed, db, Damaged
<1> QED
  BY <1>1, <1>2 DEF IInv

\* A step of p that changes only its place, lock and archive apart.
LEMMA GotoTypes ==
  ASSUME TypeOK, NEW p \in Process, NEW l, Goto(p, l),
         l \in {"idle", "connect", "transfer", "inspect", "archive", "rename",
                "verify", "open", "lock", "compare", "copy", "commit"}
  PROVE  /\ pc' \in [Process -> {"idle", "connect", "transfer", "inspect", "archive",
                   "rename", "verify", "open", "lock", "compare", "copy", "commit"}]
         /\ pc'[p] = l
         /\ \A q \in Process : q # p => pc'[q] = pc[q]
  BY DEF TypeOK, Goto

\* The end of a process leaves nothing of it.
LEMMA EndTypes ==
  ASSUME TypeOK, NEW p \in Process, End(p)
  PROVE  /\ lock' \in Process \cup {None}
         /\ pc' \in [Process -> {"idle", "connect", "transfer", "inspect", "archive",
                   "rename", "verify", "open", "lock", "compare", "copy", "commit"}]
         /\ attempt' \in [Process -> 0 .. Attempts - 1]
         /\ from' \in [Process -> Feed \cup {None}]
         /\ file' \in [Process -> Seq(Feed \X (1 .. Chunks))]
         /\ checksum' \in [Process -> Seq(Feed \X (1 .. Chunks))]
         /\ opts' \in [Process -> Options]
         /\ left' \in [Process -> SUBSET Table]
         /\ deleted' \in [Process -> [Table -> SUBSET Feed]]
         /\ inserted' \in [Process -> [Table -> SUBSET Feed]]
         /\ pc'[p] = "idle" /\ file'[p] = checksum'[p] /\ lock' # p
         /\ \A q \in Process : q # p => Rests(q) /\ (lock' = q <=> lock = q)
<1>1. "idle" \in {"idle", "connect", "transfer", "inspect", "archive", "rename",
                  "verify", "open", "lock", "compare", "copy", "commit"}
  OBVIOUS
<1>2. /\ pc' \in [Process -> {"idle", "connect", "transfer", "inspect", "archive",
                   "rename", "verify", "open", "lock", "compare", "copy", "commit"}]
      /\ pc'[p] = "idle"
      /\ \A q \in Process : q # p => pc'[q] = pc[q]
  BY <1>1, GotoTypes DEF End
<1>3. lock' \in Process \cup {None} /\ lock' # p
      /\ \A q \in Process : q # p => (lock' = q <=> lock = q)
  BY ConstantsAssumption DEF TypeOK, End
<1>4. /\ attempt' \in [Process -> 0 .. Attempts - 1]
      /\ from' \in [Process -> Feed \cup {None}]
      /\ \A q \in Process : q # p => from'[q] = from[q] /\ attempt'[q] = attempt[q]
  BY ConstantsAssumption DEF TypeOK, End
<1>5. /\ file' \in [Process -> Seq(Feed \X (1 .. Chunks))]
      /\ checksum' \in [Process -> Seq(Feed \X (1 .. Chunks))]
      /\ file'[p] = checksum'[p]
      /\ \A q \in Process : q # p => file'[q] = file[q] /\ checksum'[q] = checksum[q]
  <2>1. <<>> \in Seq(Feed \X (1 .. Chunks))
    OBVIOUS
  <2> QED
    BY <2>1 DEF TypeOK, End
<1>6. opts' \in [Process -> Options] /\ \A q \in Process : q # p => opts'[q] = opts[q]
  BY DEF TypeOK, End, Options
<1>7. left' \in [Process -> SUBSET Table] /\ \A q \in Process : q # p => left'[q] = left[q]
  BY DEF TypeOK, End
<1>8. NoRows \in [Table -> SUBSET Feed]
  BY DEF NoRows
<1>9. /\ deleted' \in [Process -> [Table -> SUBSET Feed]]
      /\ inserted' \in [Process -> [Table -> SUBSET Feed]]
      /\ \A q \in Process : q # p => deleted'[q] = deleted[q] /\ inserted'[q] = inserted[q]
  BY <1>8 DEF TypeOK, End
<1> QED
  BY <1>2, <1>3, <1>4, <1>5, <1>6, <1>7, <1>9 DEF Rests

LEMMA EndIsGood ==
  ASSUME NEW p \in Process, pc'[p] = "idle", file'[p] = checksum'[p], lock' # p
  PROVE  Good(p)'
  BY DEF Good, Transferred, Inspected, InArchive, HoldsLock, Replaced, Differs,
         Checked, Archived, Locked, Writing

\* An exception, a refusal or nothing to do.
LEMMA EndStep ==
  ASSUME IInv, NEW p \in Process, End(p), UNCHANGED <<remote, archive, db>>
  PROVE  IInv'
<1>1. TypeOK
  BY DEF IInv
<1>2. TypeOK'
  BY <1>1, EndTypes DEF TypeOK, db, Damaged, Whole
<1>3. Good(p)'
  BY <1>1, EndTypes, EndIsGood
<1> QED
  BY <1>1, <1>2, <1>3, EndTypes, LocalStep

\* A step that only moves p on.
LEMMA GotoStep ==
  ASSUME IInv, NEW p \in Process, NEW l, Goto(p, l),
         l \in {"idle", "connect", "transfer", "inspect", "archive", "rename",
                "verify", "open", "lock", "compare", "copy", "commit"},
         UNCHANGED <<remote, archive, db, lock, transfer, opts, tx>>, Good(p)'
  PROVE  IInv'
<1>1. TypeOK
  BY DEF IInv
<1>2. TypeOK'
  BY <1>1, GotoTypes DEF TypeOK, transfer, tx, db, Damaged, Whole
<1>3. \A q \in Process : q # p => Rests(q) /\ (lock' = q <=> lock = q)
  BY <1>1, GotoTypes DEF Rests, transfer, tx
<1> QED
  BY <1>2, <1>3, LocalStep

\* The same, up to the lock: what was good stays good.
LEMMA MovesOn ==
  ASSUME IInv, NEW p \in Process, NEW l, Goto(p, l),
         pc[p] \notin Locked, l \notin Locked, l # "transfer",
         l \in {"idle", "connect", "inspect", "archive", "rename", "verify", "open", "lock"},
         UNCHANGED <<remote, archive, db, lock, transfer, opts, tx>>,
         l \in Checked => \E f \in Feed : Holds(p, f) /\ (opts[p].local \/ f \in Effective),
         l \in Archived /\ ~opts[p].local => checksum[p] \in DOMAIN archive
  PROVE  IInv'
<1>1. TypeOK /\ Good(p)
  BY DEF IInv
<1>2. pc'[p] = l
  BY <1>1, GotoTypes
<1>3. Transferred(p)' /\ HoldsLock(p)' /\ InArchive(p)'
  BY <1>1, <1>2 DEF Good, Transferred, HoldsLock, InArchive, transfer
<1>4. Inspected(p)'
  BY <1>2 DEF Inspected, Holds, Whole, transfer
<1>5. Replaced(p)' /\ Differs(p)'
  BY <1>2 DEF Replaced, Differs, Locked, Writing
<1>6. Good(p)'
  BY <1>3, <1>4, <1>5 DEF Good
<1> QED
  BY <1>6, GotoStep

-----------------------------------------------------------------------------
(* prepare_feed *)

LEMMA StartRefreshStep ==
  ASSUME IInv, NEW p \in Process, NEW force \in BOOLEAN, StartRefresh(p, force)
  PROVE  IInv'
<1>1. TypeOK /\ Good(p)
  BY DEF IInv
<1>2. pc[p] = "idle" /\ pc'[p] = "connect"
      /\ UNCHANGED <<remote, archive, db, lock, transfer, tx>>
  BY <1>1, GotoTypes DEF StartRefresh
<1>3. opts' \in [Process -> Options] /\ \A q \in Process : q # p => opts'[q] = opts[q]
  BY <1>1 DEF TypeOK, StartRefresh, Options
<1>4. TypeOK'
  BY <1>1, <1>2, <1>3, GotoTypes DEF StartRefresh, TypeOK, transfer, tx, db, Damaged, Whole
<1>5. Good(p)'
  BY <1>1, <1>2 DEF Good, Transferred, Inspected, InArchive, HoldsLock, Replaced, Differs,
     Checked, Archived, Locked, Writing, transfer
<1>6. \A q \in Process : q # p => Rests(q) /\ (lock' = q <=> lock = q)
  BY <1>1, <1>2, <1>3, GotoTypes DEF StartRefresh, Rests, transfer, tx
<1> QED
  BY <1>2, <1>4, <1>5, <1>6, LocalStep

LEMMA ConnectStep ==
  ASSUME IInv, NEW p \in Process, Connect(p)
  PROVE  IInv'
<1>1. TypeOK /\ Good(p)
  BY DEF IInv
<1>2. pc[p] = "connect" /\ pc'[p] = "transfer"
      /\ UNCHANGED <<remote, archive, db, lock, attempt, opts, tx>>
  BY <1>1, GotoTypes DEF Connect
<1>3. /\ from' \in [Process -> Feed \cup {None}] /\ from'[p] \in Feed
      /\ \A q \in Process : q # p => from'[q] = from[q]
  BY <1>1 DEF TypeOK, Connect
<1>4. /\ file' \in [Process -> Seq(Feed \X (1 .. Chunks))]
      /\ checksum' \in [Process -> Seq(Feed \X (1 .. Chunks))]
      /\ file'[p] = checksum'[p]
      /\ \A q \in Process : q # p => file'[q] = file[q] /\ checksum'[q] = checksum[q]
  <2>1. <<>> \in Seq(Feed \X (1 .. Chunks))
    OBVIOUS
  <2> QED
    BY <1>1, <2>1 DEF TypeOK, Connect, NewDigest
<1>5. TypeOK'
  BY <1>1, <1>2, <1>3, <1>4, GotoTypes DEF Connect, TypeOK, tx, db, Damaged, Whole
<1>6. Good(p)'
  BY <1>1, <1>2, <1>3, <1>4 DEF Good, Transferred, Inspected, InArchive, HoldsLock, Replaced,
     Differs, Checked, Archived, Locked, Writing
<1>7. \A q \in Process : q # p => Rests(q) /\ (lock' = q <=> lock = q)
  BY <1>1, <1>2, <1>3, <1>4, GotoTypes DEF Connect, Rests, tx
<1> QED
  BY <1>2, <1>5, <1>6, <1>7, LocalStep

LEMMA ReceiveStep ==
  ASSUME IInv, NEW p \in Process, Receive(p)
  PROVE  IInv'
<1>1. TypeOK /\ Good(p)
  BY DEF IInv
<1>2. pc[p] = "transfer" /\ Len(file[p]) < Chunks
      /\ UNCHANGED <<remote, archive, db, lock, pc, attempt, from, opts, tx>>
  BY DEF Receive
<1> DEFINE chunk == <<from[p], Len(file[p]) + 1>>
<1>3. chunk \in Feed \X (1 .. Chunks)
  <2>1. from[p] \in Feed /\ file[p] \in Seq(Feed \X (1 .. Chunks))
    BY <1>1, <1>2 DEF Good, Transferred, TypeOK
  <2>2. Len(file[p]) \in Nat /\ Chunks \in Nat
    BY <2>1, ConstantsAssumption
  <2> QED
    BY <1>2, <2>1, <2>2
<1>4. /\ file' = [file EXCEPT ![p] = Append(@, chunk)]
      /\ checksum' = [checksum EXCEPT ![p] = Append(@, chunk)]
  BY DEF Receive
<1> HIDE DEF chunk
<1>5. /\ file' \in [Process -> Seq(Feed \X (1 .. Chunks))]
      /\ checksum' \in [Process -> Seq(Feed \X (1 .. Chunks))]
      /\ file'[p] = checksum'[p]
      /\ \A q \in Process : q # p => file'[q] = file[q] /\ checksum'[q] = checksum[q]
  <2>1. file[p] = checksum[p] /\ Append(file[p], chunk) \in Seq(Feed \X (1 .. Chunks))
    BY <1>1, <1>3 DEF Good, Transferred, TypeOK
  <2> QED
    BY <1>1, <1>4, <2>1 DEF TypeOK
<1>6. TypeOK'
  BY <1>1, <1>2, <1>5 DEF TypeOK, tx, db, Damaged, Whole
<1>7. Good(p)'
  BY <1>1, <1>2, <1>5 DEF Good, Transferred, Inspected, InArchive, HoldsLock, Replaced,
     Differs, Checked, Archived, Locked, Writing
<1>8. \A q \in Process : q # p => Rests(q) /\ (lock' = q <=> lock = q)
  BY <1>2, <1>5 DEF Rests, tx
<1> QED
  BY <1>2, <1>6, <1>7, <1>8, LocalStep

LEMMA TransferFailsStep ==
  ASSUME IInv, NEW p \in Process, TransferFails(p)
  PROVE  IInv'
<1>1. TypeOK /\ Good(p)
  BY DEF IInv
<1>2. CASE End(p)
  BY <1>2, EndStep DEF TransferFails
<1>3. CASE AttemptsRemain(p) /\ Goto(p, "connect")
  <2>1. /\ pc[p] \in {"connect", "transfer"} /\ pc'[p] = "connect"
        /\ attempt' = [attempt EXCEPT ![p] = attempt[p] + 1]
        /\ UNCHANGED <<remote, archive, db, lock, from, file, checksum, opts, tx>>
    BY <1>1, <1>3, GotoTypes DEF TransferFails, NextAttempt
  <2>2. attempt' \in [Process -> 0 .. Attempts - 1]
    BY <1>1, <1>3, <2>1, ConstantsAssumption DEF TypeOK, AttemptsRemain, NextAttempt
  <2>3. TypeOK'
    BY <1>1, <1>3, <2>1, <2>2, GotoTypes DEF TypeOK, tx, db, Damaged, Whole
  <2>4. Good(p)'
    BY <1>1, <2>1 DEF Good, Transferred, Inspected, InArchive, HoldsLock, Replaced,
       Differs, Checked, Archived, Locked, Writing
  <2>5. \A q \in Process : q # p => Rests(q) /\ (lock' = q <=> lock = q)
    BY <1>1, <1>3, <2>1, GotoTypes DEF Rests, tx
  <2> QED
    BY <2>1, <2>3, <2>4, <2>5, LocalStep
<1> QED
  BY <1>2, <1>3 DEF TransferFails

LEMMA EndOfResponseStep ==
  ASSUME IInv, NEW p \in Process, EndOfResponse(p)
  PROVE  IInv'
  BY MovesOn DEF EndOfResponse, Locked, Checked, Archived

LEMMA InspectStep ==
  ASSUME IInv, NEW p \in Process, Inspect(p)
  PROVE  IInv'
<1>1. CASE End(p)
  BY <1>1, EndStep DEF Inspect
<1>2. CASE Goto(p, "archive") /\ UNCHANGED <<lock, transfer, opts, tx>> /\ ~End(p)
  <2>1. file[p] = checksum[p]
    BY DEF IInv, Good, Transferred
  <2>2. \E f \in Feed : Holds(p, f) /\ (opts[p].local \/ f \in Effective)
    BY <1>2, <2>1, ConstantsAssumption DEF Inspect, Holds
  <2> QED
    BY <1>2, <2>2, MovesOn DEF Inspect, Locked, Checked, Archived
<1> QED
  BY <1>1, <1>2 DEF Inspect

LEMMA LookUpStep ==
  ASSUME IInv, NEW p \in Process, LookUp(p)
  PROVE  IInv'
<1>1. \E f \in Feed : Holds(p, f) /\ (opts[p].local \/ f \in Effective)
  BY DEF IInv, Good, Inspected, Checked, LookUp
<1>2. CASE checksum[p] \in DOMAIN archive
  BY <1>1, <1>2, MovesOn DEF LookUp, Locked, Checked, Archived
<1>3. CASE checksum[p] \notin DOMAIN archive
  BY <1>1, <1>3, MovesOn DEF LookUp, Locked, Checked, Archived
<1> QED
  BY <1>2, <1>3

LEMMA RenameStep ==
  ASSUME IInv, NEW p \in Process, Rename(p)
  PROVE  IInv'
<1>1. TypeOK /\ Good(p) /\ ArchiveNamed
  BY DEF IInv
<1>2. pc[p] = "rename" /\ pc'[p] = "verify"
      /\ UNCHANGED <<remote, db, lock, transfer, opts, tx>>
  BY <1>1, GotoTypes DEF Rename
<1>3. PICK f \in Feed : checksum[p] = Whole(f) /\ (opts[p].local \/ f \in Effective)
  BY <1>1, <1>2 DEF Good, Inspected, Holds, Checked
<1>4. file[p] = checksum[p]
  BY <1>1 DEF Good, Transferred
<1>5. /\ DOMAIN archive' = DOMAIN archive \cup {checksum[p]}
      /\ \A c \in DOMAIN archive : archive'[c] = archive[c]
      /\ checksum[p] \notin DOMAIN archive => archive'[checksum[p]] = checksum[p]
  BY <1>4 DEF Rename
<1>6. \A c \in DOMAIN archive' :
        /\ archive'[c] \in {Whole(g) : g \in Feed} \cup {Damaged}
        /\ archive'[c] \in {c, Damaged}
  BY <1>1, <1>3, <1>5 DEF TypeOK, ArchiveNamed
<1>7. TypeOK'
  <2>1. \A c \in DOMAIN archive' : archive'[c] \in {Whole(g) : g \in Feed}' \cup {Damaged}'
    BY <1>6 DEF Whole, Damaged
  <2> QED
    BY <1>1, <1>2, <2>1, GotoTypes DEF Rename, TypeOK, transfer, tx, db
<1>8. Good(p)'
  <2>1. Transferred(p)' /\ HoldsLock(p)' /\ InArchive(p)'
    BY <1>1, <1>2, <1>5 DEF Good, Transferred, HoldsLock, InArchive, Locked, transfer
  <2>2. Inspected(p)'
    BY <1>2, <1>3 DEF Inspected, Holds, Whole, transfer
  <2>3. Replaced(p)' /\ Differs(p)'
    BY <1>2 DEF Replaced, Differs, Writing
  <2> QED
    BY <2>1, <2>2, <2>3 DEF Good
<1>9. \A q \in Process : Good(q)'
  <2> SUFFICES ASSUME NEW q \in Process, q # p PROVE Good(q)'
    BY <1>8
  <2>1. Rests(q)
    BY <1>1, <1>2, GotoTypes DEF Rename, Rests, transfer, tx
  <2> QED
    BY <1>2, <1>5, <2>1, RestingStaysGood DEF IInv
<1>10. TablesMatchState' /\ OnlyFitFeeds' /\ ArchiveNamed'
  BY <1>2, <1>6 DEF IInv, TablesMatchState, OnlyFitFeeds, ArchiveNamed, db, Damaged
<1> QED
  BY <1>7, <1>9, <1>10 DEF IInv

LEMMA VerifyStep ==
  ASSUME IInv, NEW p \in Process, Verify(p)
  PROVE  IInv'
<1>1. CASE End(p)
  BY <1>1, EndStep DEF Verify
<1>2. CASE Goto(p, "open") /\ UNCHANGED <<lock, transfer, opts, tx>>
  <2>1. /\ \E f \in Feed : Holds(p, f) /\ (opts[p].local \/ f \in Effective)
        /\ ~opts[p].local => checksum[p] \in DOMAIN archive
    BY DEF IInv, Good, Inspected, InArchive, Checked, Archived, Verify
  <2> QED
    BY <1>2, <2>1, MovesOn DEF Verify, Locked, Checked, Archived
<1> QED
  BY <1>1, <1>2 DEF Verify

-----------------------------------------------------------------------------
(* load_gtfs *)

LEMMA StartLoadStep ==
  ASSUME IInv, NEW p \in Process, NEW f \in Feed, StartLoad(p, f)
  PROVE  IInv'
<1>1. TypeOK /\ Good(p)
  BY DEF IInv
<1>2. pc[p] = "idle" /\ pc'[p] = "open"
      /\ UNCHANGED <<remote, archive, db, lock, attempt, from, tx>>
  BY <1>1, GotoTypes DEF StartLoad
<1>3. /\ file' \in [Process -> Seq(Feed \X (1 .. Chunks))]
      /\ checksum' \in [Process -> Seq(Feed \X (1 .. Chunks))]
      /\ file'[p] = Whole(f) /\ checksum'[p] = Whole(f)
      /\ \A q \in Process : q # p => file'[q] = file[q] /\ checksum'[q] = checksum[q]
  BY <1>1, WholeIsBytes DEF TypeOK, StartLoad
<1>4. /\ opts' \in [Process -> Options] /\ opts'[p].local
      /\ \A q \in Process : q # p => opts'[q] = opts[q]
  BY <1>1 DEF TypeOK, StartLoad, Options
<1>5. TypeOK'
  BY <1>1, <1>2, <1>3, <1>4, GotoTypes DEF StartLoad, TypeOK, tx, db, Damaged, Whole
<1>6. Good(p)'
  <2>1. Transferred(p)' /\ HoldsLock(p)' /\ InArchive(p)'
    BY <1>1, <1>2, <1>3, <1>4 DEF Good, Transferred, HoldsLock, InArchive, Locked
  <2>2. Inspected(p)'
    BY <1>3, <1>4 DEF Inspected, Holds, Whole
  <2>3. Replaced(p)' /\ Differs(p)'
    BY <1>2 DEF Replaced, Differs, Writing
  <2> QED
    BY <2>1, <2>2, <2>3 DEF Good
<1>7. \A q \in Process : q # p => Rests(q) /\ (lock' = q <=> lock = q)
  BY <1>1, <1>2, <1>3, <1>4, GotoTypes DEF StartLoad, Rests, tx
<1> QED
  BY <1>2, <1>5, <1>6, <1>7, LocalStep

LEMMA OpenStep ==
  ASSUME IInv, NEW p \in Process, Open(p)
  PROVE  IInv'
<1>1. CASE End(p)
  BY <1>1, EndStep DEF Open
<1>2. CASE Goto(p, "lock") /\ UNCHANGED <<lock, transfer, opts, tx>>
  <2>1. /\ \E f \in Feed : Holds(p, f) /\ (opts[p].local \/ f \in Effective)
        /\ ~opts[p].local => checksum[p] \in DOMAIN archive
    BY DEF IInv, Good, Inspected, InArchive, Checked, Archived, Open
  <2> QED
    BY <1>2, <2>1, MovesOn DEF Open, Locked, Checked, Archived
<1> QED
  BY <1>1, <1>2 DEF Open

LEMMA AcquireLockStep ==
  ASSUME IInv, NEW p \in Process, AcquireLock(p)
  PROVE  IInv'
<1>1. TypeOK /\ Good(p)
  BY DEF IInv
<1>2. pc[p] = "lock" /\ pc'[p] = "compare" /\ lock = None /\ lock' = p
      /\ UNCHANGED <<remote, archive, db, transfer, opts, tx>>
  BY <1>1, GotoTypes DEF AcquireLock, LockIsFree
<1>3. TypeOK'
  BY <1>1, <1>2, GotoTypes DEF AcquireLock, TypeOK, transfer, tx, db, Damaged, Whole
<1>4. Good(p)'
  <2>1. Transferred(p)' /\ HoldsLock(p)' /\ InArchive(p)'
    BY <1>1, <1>2 DEF Good, Transferred, HoldsLock, InArchive, Locked, Archived, transfer
  <2>2. Inspected(p)'
    BY <1>1, <1>2 DEF Good, Inspected, Holds, Whole, Checked, transfer
  <2>3. Replaced(p)' /\ Differs(p)'
    BY <1>2 DEF Replaced, Differs, Writing
  <2> QED
    BY <2>1, <2>2, <2>3 DEF Good
<1>5. \A q \in Process : q # p => Rests(q) /\ (lock' = q <=> lock = q)
  BY <1>1, <1>2, GotoTypes, ConstantsAssumption DEF AcquireLock, Rests, transfer, tx
<1> QED
  BY <1>2, <1>3, <1>4, <1>5, LocalStep

LEMMA CompareStep ==
  ASSUME IInv, NEW p \in Process, Compare(p)
  PROVE  IInv'
<1>1. TypeOK /\ Good(p)
  BY DEF IInv
<1>2. CASE End(p)
  BY <1>2, EndStep DEF Compare
<1>3. CASE ~Unchanged(p) /\ Goto(p, "copy") /\ left' = [left EXCEPT ![p] = Table]
           /\ UNCHANGED <<lock, transfer, opts, deleted, inserted>>
  <2>1. pc[p] = "compare" /\ pc'[p] = "copy" /\ left'[p] = Table
        /\ UNCHANGED <<remote, archive, db, lock, transfer, opts, deleted, inserted>>
    BY <1>1, <1>3, GotoTypes DEF Compare, TypeOK
  <2>2. left' \in [Process -> SUBSET Table] /\ \A q \in Process : q # p => left'[q] = left[q]
    BY <1>1, <1>3 DEF TypeOK
  <2>3. TypeOK'
    BY <1>1, <1>3, <2>1, <2>2, GotoTypes DEF TypeOK, transfer, db, Damaged, Whole
  <2>4. Transferred(p)' /\ HoldsLock(p)' /\ InArchive(p)'
    BY <1>1, <2>1 DEF Good, Transferred, HoldsLock, InArchive, Locked, Archived, transfer
  <2>5. Inspected(p)'
    BY <1>1, <2>1 DEF Good, Inspected, Holds, Whole, Checked, transfer
  <2>6. Replaced(p)'
    BY <2>1 DEF Replaced
  <2>7. Differs(p)'
    BY <1>3, <2>1 DEF Differs, Unchanged, Holds, Whole, transfer, db
  <2>8. Good(p)'
    BY <2>4, <2>5, <2>6, <2>7 DEF Good
  <2>9. \A q \in Process : q # p => Rests(q) /\ (lock' = q <=> lock = q)
    BY <1>1, <1>3, <2>1, <2>2, GotoTypes DEF Rests, transfer
  <2> QED
    BY <2>1, <2>3, <2>8, <2>9, LocalStep
<1> QED
  BY <1>2, <1>3 DEF Compare

\* The ZIP that is copied is the one that was checked: an archived one lies
\* under its checksum.
LEMMA ZipIsChecked ==
  ASSUME IInv, NEW p \in Process, pc[p] = "copy", NEW f \in Feed, ZipOf(p) = Whole(f)
  PROVE  Holds(p, f)
<1>1. file[p] = checksum[p] /\ (~opts[p].local => checksum[p] \in DOMAIN archive)
  BY DEF IInv, Good, Transferred, InArchive, Archived
<1>2. CASE opts[p].local
  BY <1>1, <1>2 DEF ZipOf, Holds
<1>3. CASE ~opts[p].local
  <2>1. archive[checksum[p]] \in {checksum[p], Damaged}
    BY <1>1, <1>3 DEF IInv, ArchiveNamed
  <2>2. archive[checksum[p]] = Whole(f)
    BY <1>3 DEF ZipOf
  <2> QED
    BY <2>1, <2>2, WholeIsNotDamaged DEF Holds
<1> QED
  BY <1>2, <1>3

LEMMA CopyTableStep ==
  ASSUME IInv, NEW p \in Process, NEW t \in Table, CopyTable(p, t)
  PROVE  IInv'
<1>1. TypeOK /\ Good(p)
  BY DEF IInv
<1>2. pc[p] = "copy" /\ UNCHANGED <<remote, archive, db, lock, pc, transfer, opts>>
  BY DEF CopyTable
<1>3. PICK f \in Feed : ZipOf(p) = Whole(f) /\ inserted' = [inserted EXCEPT ![p][t] = {f}]
  BY DEF CopyTable
<1>4. Holds(p, f)
  BY <1>2, <1>3, ZipIsChecked
<1>5. /\ left' \in [Process -> SUBSET Table] /\ left'[p] = left[p] \ {t}
      /\ \A q \in Process : q # p => left'[q] = left[q]
  BY <1>1 DEF TypeOK, CopyTable
<1>6. /\ deleted' \in [Process -> [Table -> SUBSET Feed]]
      /\ deleted'[p][t] = rows[t]
      /\ \A u \in Table : u # t => deleted'[p][u] = deleted[p][u]
      /\ \A q \in Process : q # p => deleted'[q] = deleted[q]
  <2>1. deleted' = [deleted EXCEPT ![p] = [deleted[p] EXCEPT ![t] = rows[t]]]
    BY DEF CopyTable
  <2>2. [deleted[p] EXCEPT ![t] = rows[t]] \in [Table -> SUBSET Feed]
    BY <1>1 DEF TypeOK
  <2> QED
    BY <1>1, <2>1, <2>2 DEF TypeOK
<1>7. /\ inserted' \in [Process -> [Table -> SUBSET Feed]]
      /\ inserted'[p][t] = {f}
      /\ \A u \in Table : u # t => inserted'[p][u] = inserted[p][u]
      /\ \A q \in Process : q # p => inserted'[q] = inserted[q]
  <2>1. inserted' = [inserted EXCEPT ![p] = [inserted[p] EXCEPT ![t] = {f}]]
    BY <1>3
  <2>2. [inserted[p] EXCEPT ![t] = {f}] \in [Table -> SUBSET Feed]
    BY <1>1 DEF TypeOK
  <2> QED
    BY <1>1, <2>1, <2>2 DEF TypeOK
<1>8. TypeOK'
  BY <1>1, <1>2, <1>5, <1>6, <1>7 DEF TypeOK, transfer, db, Damaged, Whole
<1>9. Transferred(p)' /\ HoldsLock(p)' /\ InArchive(p)'
  BY <1>1, <1>2 DEF Good, Transferred, HoldsLock, InArchive, transfer
<1>10. Inspected(p)'
  BY <1>1, <1>2 DEF Good, Inspected, Holds, Whole, transfer
<1>11. Replaced(p)'
  <2>1. \A g \in Feed : Holds(p, g)' <=> Holds(p, g)
    BY <1>2 DEF Holds, Whole, transfer
  <2>2. \A u \in Table \ left[p] :
          deleted[p][u] = rows[u] /\ \E g \in Feed : Holds(p, g) /\ inserted[p][u] = {g}
    BY <1>1, <1>2 DEF Good, Replaced, Writing
  <2>3. \A u \in Table \ left'[p] :
          deleted'[p][u] = rows[u] /\ \E g \in Feed : Holds(p, g) /\ inserted'[p][u] = {g}
    BY <1>4, <1>5, <1>6, <1>7, <2>2
  <2> QED
    BY <1>2, <2>1, <2>3 DEF Replaced, db
<1>12. Differs(p)'
  BY <1>1, <1>2 DEF Good, Differs, Holds, Whole, transfer, db
<1>13. Good(p)'
  BY <1>9, <1>10, <1>11, <1>12 DEF Good
<1>14. \A q \in Process : q # p => Rests(q) /\ (lock' = q <=> lock = q)
  BY <1>2, <1>5, <1>6, <1>7 DEF Rests, transfer
<1> QED
  BY <1>2, <1>8, <1>13, <1>14, LocalStep

\* Once everything is replaced, the transaction sees the checked feed.
LEMMA SeesChecked ==
  ASSUME IInv, NEW p \in Process, pc[p] \in Writing, left[p] = {},
         NEW f \in Feed, Holds(p, f)
  PROVE  \A t \in Table : Visible(p, t) = {f}
<1> SUFFICES ASSUME NEW t \in Table PROVE Visible(p, t) = {f}
  OBVIOUS
<1>1. PICK g \in Feed : deleted[p][t] = rows[t] /\ Holds(p, g) /\ inserted[p][t] = {g}
  BY DEF IInv, Good, Replaced
<1>2. g = f
  BY <1>1, WholeOfOne DEF Holds
<1> QED
  BY <1>1, <1>2 DEF Visible

LEMMA ValidateStep ==
  ASSUME IInv, NEW p \in Process, Validate(p)
  PROVE  IInv'
<1>1. TypeOK /\ Good(p)
  BY DEF IInv
<1>2. CASE End(p)
  BY <1>2, EndStep DEF Validate
<1>3. CASE ReferencesHold(p) /\ Goto(p, "commit") /\ UNCHANGED <<lock, transfer, opts, tx>>
  <2>1. pc[p] = "copy" /\ left[p] = {} /\ pc'[p] = "commit"
        /\ UNCHANGED <<remote, archive, db, lock, transfer, opts, tx>>
    BY <1>1, <1>3, GotoTypes DEF Validate
  <2>2. Transferred(p)' /\ HoldsLock(p)' /\ InArchive(p)'
    BY <1>1, <2>1 DEF Good, Transferred, HoldsLock, InArchive, Locked, Archived, transfer
  <2>3. \A g : Holds(p, g)' <=> Holds(p, g)
    BY <2>1 DEF Holds, Whole, transfer
  <2>4. Inspected(p)'
    BY <1>1, <2>1, <2>3 DEF Good, Inspected, Checked
  <2>5. Replaced(p)'
    <3>1. \A f \in Feed : Holds(p, f) => f \in Sound
      <4> SUFFICES ASSUME NEW f \in Feed, Holds(p, f) PROVE f \in Sound
        OBVIOUS
      <4>1. PICK t \in Table : TRUE
        BY ConstantsAssumption
      <4>2. Visible(p, t) = {f}
        BY <2>1, SeesChecked DEF Writing
      <4> QED
        BY <1>3, <4>1, <4>2 DEF ReferencesHold
    <3> QED
      BY <1>1, <2>1, <2>3, <3>1 DEF Good, Replaced, Writing, tx, db
  <2>6. Differs(p)'
    BY <1>1, <2>1, <2>3 DEF Good, Differs, Writing, db
  <2>7. Good(p)'
    BY <2>2, <2>4, <2>5, <2>6 DEF Good
  <2> QED
    BY <1>3, <2>1, <2>7, GotoStep
<1> QED
  BY <1>2, <1>3 DEF Validate

\* What a commit makes visible.
LEMMA CommitShows ==
  ASSUME IInv, NEW p \in Process, Commit(p)
  PROVE  \E f \in Feed :
           /\ Holds(p, f) /\ f \in Sound /\ (opts[p].local \/ f \in Effective)
           /\ rows' = [t \in Table |-> {f}]
           /\ state' = [feed |-> f, archived |-> ~opts[p].local]
<1>1. Good(p) /\ pc[p] = "commit"
  BY DEF IInv, Commit
<1>2. PICK f \in Feed : checksum[p] = Whole(f)
                        /\ state' = [feed |-> f, archived |-> ~opts[p].local]
  BY DEF Commit
<1>3. Holds(p, f) /\ f \in Sound
  BY <1>1, <1>2 DEF Holds, Good, Replaced
<1>4. PICK g \in Feed : Holds(p, g) /\ (opts[p].local \/ g \in Effective)
  BY <1>1 DEF Good, Inspected, Checked
<1>5. g = f
  BY <1>3, <1>4, WholeOfOne DEF Holds
<1>6. \A t \in Table : Visible(p, t) = {f}
  BY <1>1, <1>3, SeesChecked DEF Good, Replaced, Writing
<1>7. rows' = [t \in Table |-> {f}]
  BY <1>6 DEF Commit
<1> QED
  BY <1>2, <1>3, <1>4, <1>5, <1>7

LEMMA CommitStep ==
  ASSUME IInv, NEW p \in Process, Commit(p)
  PROVE  IInv'
<1>1. TypeOK /\ Good(p) /\ pc[p] = "commit" /\ End(p) /\ UNCHANGED <<remote, archive>>
  BY DEF IInv, Commit
<1>2. PICK f \in Feed :
        /\ Holds(p, f) /\ f \in Sound /\ (opts[p].local \/ f \in Effective)
        /\ rows' = [t \in Table |-> {f}]
        /\ state' = [feed |-> f, archived |-> ~opts[p].local]
  BY CommitShows
<1>3. opts[p].local \in BOOLEAN
  BY <1>1 DEF TypeOK, Options
<1>4. rows' \in [Table -> SUBSET Feed] /\ state' \in State
  BY <1>2, <1>3 DEF State
<1>5. TypeOK'
  BY <1>1, <1>4, EndTypes DEF TypeOK, Damaged, Whole, State
<1>6. state' # None
  BY <1>4, ConstantsAssumption DEF State
<1>7. TablesMatchState' /\ OnlyFitFeeds' /\ ArchiveNamed'
  <2>1. TablesMatchState'
    BY <1>2, <1>6 DEF TablesMatchState
  <2>2. OnlyFitFeeds'
    BY <1>2 DEF OnlyFitFeeds
  <2> QED
    BY <1>1, <2>1, <2>2 DEF IInv, ArchiveNamed, Damaged
<1>8. \A q \in Process : Good(q)'
  <2>1. Good(p)'
    BY <1>1, EndTypes, EndIsGood
  <2> SUFFICES ASSUME NEW q \in Process, q # p PROVE Good(q)'
    BY <2>1
  <2>2. pc[q] \notin Writing
    <3>1. lock = p
      BY <1>1 DEF Good, HoldsLock, Locked
    <3> QED
      BY <3>1 DEF IInv, Good, HoldsLock, Locked, Writing
  <2>3. Rests(q) /\ (lock' = q <=> lock = q)
    BY <1>1, EndTypes
  <2> QED
    BY <1>1, <2>2, <2>3, RestingStaysGood DEF IInv
<1> QED
  BY <1>5, <1>7, <1>8 DEF IInv

-----------------------------------------------------------------------------
(* Everything else *)

LEMMA EnvironmentStep ==
  ASSUME IInv, UNCHANGED <<db, lock, pc, transfer, opts, tx>>, remote' \in Feed,
         DOMAIN archive' = DOMAIN archive,
         \A c \in DOMAIN archive : archive'[c] \in {archive[c], Damaged}
  PROVE  IInv'
<1>1. TypeOK /\ ArchiveNamed
  BY DEF IInv
<1>2. \A c \in DOMAIN archive' :
        /\ archive'[c] \in {Whole(f) : f \in Feed}' \cup {Damaged}'
        /\ archive'[c] \in {c, Damaged}
  BY <1>1 DEF TypeOK, ArchiveNamed, Whole, Damaged
<1>3. TypeOK'
  BY <1>1, <1>2 DEF TypeOK, transfer, tx, db
<1>4. \A q \in Process : Rests(q)
  BY DEF Rests, transfer, tx
<1>5. \A q \in Process : Good(q)'
  BY <1>4, RestingStaysGood DEF IInv
<1>6. TablesMatchState' /\ OnlyFitFeeds' /\ ArchiveNamed'
  BY <1>2 DEF IInv, TablesMatchState, OnlyFitFeeds, ArchiveNamed, db, Damaged
<1> QED
  BY <1>3, <1>5, <1>6 DEF IInv

LEMMA InitInvariant == Init => IInv
<1> SUFFICES ASSUME Init PROVE IInv
  OBVIOUS
<1>1. archive = [c \in {} |-> Damaged] /\ DOMAIN archive = {}
  BY DEF Init
<1>2. TypeOK
  <2>1. <<>> \in Seq(Feed \X (1 .. Chunks)) /\ NoRows \in [Table -> SUBSET Feed]
    BY DEF NoRows
  <2>2. 0 \in 0 .. Attempts - 1
    BY ConstantsAssumption
  <2> QED
    BY <1>1, <2>1, <2>2 DEF Init, TypeOK, Options
<1>3. TablesMatchState /\ OnlyFitFeeds /\ ArchiveNamed
  BY <1>1 DEF Init, NoRows, TablesMatchState, OnlyFitFeeds, ArchiveNamed
<1>4. \A p \in Process : Good(p)
  BY ConstantsAssumption DEF Init, Good, Transferred, Inspected, InArchive, HoldsLock, Replaced,
     Differs, Checked, Archived, Locked, Writing
<1> QED
  BY <1>2, <1>3, <1>4 DEF IInv

LEMMA NextInvariant == IInv /\ [Next]_vars => IInv'
<1> SUFFICES ASSUME IInv, [Next]_vars PROVE IInv'
  OBVIOUS
<1>1. ASSUME NEW p \in Process, Step(p) PROVE IInv'
  BY <1>1, ConnectStep, ReceiveStep, EndOfResponseStep, InspectStep, LookUpStep, RenameStep,
     VerifyStep, OpenStep, CompareStep, CopyTableStep, ValidateStep, CommitStep DEF Step
<1>2. ASSUME NEW p \in Process, Abort(p) PROVE IInv'
  BY <1>2, EndStep DEF Abort
<1>3. ASSUME NEW f \in Feed, NewRemote(f) PROVE IInv'
  BY <1>3, EnvironmentStep DEF NewRemote
<1>4. ASSUME NEW c \in DOMAIN archive, Damage(c) PROVE IInv'
  <2>1. DOMAIN archive' = DOMAIN archive
        /\ \A d \in DOMAIN archive : archive'[d] \in {archive[d], Damaged}
    BY <1>4 DEF Damage
  <2> QED
    BY <1>4, <2>1, EnvironmentStep DEF Damage, IInv, TypeOK
<1>5. CASE UNCHANGED vars
  BY <1>5, EnvironmentStep DEF vars, IInv, TypeOK
<1> QED
  BY <1>1, <1>2, <1>3, <1>4, <1>5, StartRefreshStep, StartLoadStep, TransferFailsStep,
     AcquireLockStep DEF Next

-----------------------------------------------------------------------------
\* The inductive invariant holds of any number of concurrent refreshes.
THEOREM RefreshInvariant == Spec => []IInv
  BY InitInvariant, NextInvariant, PTL DEF Spec

\* A download never begins more than DOWNLOAD_ATTEMPTS attempts, and only
\* whole ZIPs enter the archive (_download, archive_feed).
THEOREM RefreshTypes == Spec => []TypeOK
<1>1. IInv => TypeOK
  BY DEF IInv
<1> QED
  BY <1>1, RefreshInvariant, PTL

\* All six tables hold the rows of the feed that gtfs_feed_state names
\* (load_gtfs).
THEOREM RefreshTablesMatchState == Spec => []TablesMatchState
<1>1. IInv => TablesMatchState
  BY DEF IInv
<1> QED
  BY <1>1, RefreshInvariant, PTL

\* Only feeds with intact references are served, and by a refresh only
\* effective ones (inspect_feed, validate_references).
THEOREM RefreshOnlyFitFeeds == Spec => []OnlyFitFeeds
<1>1. IInv => OnlyFitFeeds
  BY DEF IInv
<1> QED
  BY <1>1, RefreshInvariant, PTL

\* A directory of the archive holds the bytes that its name digests, or what
\* the disk made of them (archive_feed).
THEOREM RefreshArchiveNamed == Spec => []ArchiveNamed
<1>1. IInv => ArchiveNamed
  BY DEF IInv
<1> QED
  BY <1>1, RefreshInvariant, PTL

\* A run without --force never commits the feed that is loaded already: the
\* stored checksum is compared under the lock that the run keeps until it
\* commits, so it is still the stored one then (load_gtfs).
THEOREM RefreshLoadsOnce == Spec => LoadsOnce
<1>1. ASSUME IInv, NEW p \in Process, Commit(p), ~opts[p].force, state # None
      PROVE  checksum[p] # Whole(state.feed)
  <2>1. pc[p] \in Writing
    BY <1>1 DEF Commit, Writing
  <2>2. ~Holds(p, state.feed)
    BY <1>1, <2>1 DEF IInv, Good, Differs
  <2>3. PICK f \in Feed : Holds(p, f)
    BY <1>1, CommitShows
  <2> QED
    BY <2>2, <2>3 DEF Holds
<1>2. IInv /\ [Next]_vars =>
        [\A p \in Process :
            Commit(p) /\ ~opts[p].force => state = None \/ checksum[p] # Whole(state.feed)]_vars
  BY <1>1
<1> QED
  BY <1>2, RefreshInvariant, PTL DEF Spec, LoadsOnce

-----------------------------------------------------------------------------
(* Refinement of FeedStore *)

\* All tables hold one feed, so it is what they show.
LEMMA ShowsFeed ==
  ASSUME NEW f \in Feed, \A t \in Table : rows'[t] = {f}
  PROVE  Shown' = f
<1>1. PICK t \in Table : TRUE
  BY ConstantsAssumption
<1>2. \A g \in Feed : (\A u \in Table : rows'[u] = {g}) => g = f
  BY <1>1
<1> QED
  BY <1>1, <1>2 DEF Shown

\* A commit is the only step that changes the tables.
LEMMA OnlyCommitsShow ==
  ASSUME [Next]_vars, \A p \in Process : ~Commit(p)
  PROVE  UNCHANGED rows
<1>1. ASSUME NEW p \in Process, Step(p) PROVE UNCHANGED rows
  BY <1>1 DEF Step, Connect, Receive, EndOfResponse, Inspect, LookUp, Rename, Verify, Open,
     Compare, CopyTable, Validate, db
<1>2. ASSUME NEW p \in Process, TransferFails(p) \/ AcquireLock(p) \/ Abort(p)
      PROVE  UNCHANGED rows
  BY <1>2 DEF TransferFails, AcquireLock, Abort, db
<1>3. ASSUME NEW p \in Process, NEW force, StartRefresh(p, force) PROVE UNCHANGED rows
  BY <1>3 DEF StartRefresh, db
<1>4. ASSUME NEW p \in Process, NEW f, StartLoad(p, f) PROVE UNCHANGED rows
  BY <1>4 DEF StartLoad, db
<1>5. ASSUME NEW f, NewRemote(f) PROVE UNCHANGED rows
  BY <1>5 DEF NewRemote, db
<1>6. ASSUME NEW c, Damage(c) PROVE UNCHANGED rows
  BY <1>6 DEF Damage, db
<1>7. CASE UNCHANGED vars
  BY <1>7 DEF vars, db
<1> QED
  BY <1>1, <1>2, <1>3, <1>4, <1>5, <1>6, <1>7 DEF Next

\* The GTFS tables are a FeedStore: whatever races, aborts and damages there
\* are, readers see one sound feed replace another in one step (load_gtfs).
THEOREM RefreshImplements == Spec => ImplementsFeedStore
<1>1. Init => Tables!Init
  BY DEF Init, Tables!Init, Shown, NoRows
<1>2. ASSUME IInv, [Next]_vars
      PROVE  [Tables!Next]_Shown
  <2>1. CASE \E p \in Process : Commit(p)
    <3>1. PICK p \in Process : Commit(p)
      BY <2>1
    <3>2. PICK f \in Feed : f \in Sound /\ rows' = [t \in Table |-> {f}]
      BY <1>2, <3>1, CommitShows
    <3>3. Shown' = f
      BY <3>2, ShowsFeed
    <3> QED
      BY <3>2, <3>3 DEF Tables!Next, Tables!Load
  <2>2. CASE \A p \in Process : ~Commit(p)
    <3>1. UNCHANGED rows
      BY <1>2, <2>2, OnlyCommitsShow
    <3> QED
      BY <3>1 DEF Shown
  <2> QED
    BY <2>1, <2>2
<1>3. IInv /\ [Next]_vars => [Tables!Next]_Shown
  BY <1>2
<1> QED
  BY <1>1, <1>3, RefreshInvariant, PTL DEF Spec, Tables!Spec, ImplementsFeedStore

-----------------------------------------------------------------------------
(* Every run comes closer to its end. *)

\* A step of one process leaves the others where they are.
LEMMA OthersRest ==
  ASSUME IInv, NEW p \in Process, NEW q \in Process, q # p,
         \/ Step(p) \/ TransferFails(p) \/ AcquireLock(p) \/ Abort(p)
         \/ \E force \in BOOLEAN : StartRefresh(p, force)
         \/ \E f \in Feed : StartLoad(p, f)
  PROVE  Rests(q)
<1>1. TypeOK
  BY DEF IInv
<1>2. ASSUME End(p) PROVE Rests(q)
  BY <1>1, <1>2 DEF TypeOK, End, Goto, Rests
<1>3. ASSUME NEW l, Goto(p, l), UNCHANGED <<transfer, opts, tx>> PROVE Rests(q)
  BY <1>1, <1>3 DEF TypeOK, Goto, Rests, transfer, tx
<1>4. CASE Connect(p) \/ Receive(p)
  BY <1>1, <1>4 DEF TypeOK, Connect, NewDigest, Receive, Goto, Rests, tx
<1>5. CASE EndOfResponse(p) \/ Inspect(p) \/ LookUp(p) \/ Rename(p) \/ Verify(p)
  BY <1>2, <1>3, <1>5 DEF EndOfResponse, Inspect, LookUp, Rename, Verify
<1>6. CASE Open(p) \/ Validate(p) \/ AcquireLock(p)
  BY <1>2, <1>3, <1>6 DEF Open, Validate, AcquireLock
<1>7. CASE Compare(p)
  BY <1>1, <1>2, <1>7 DEF TypeOK, Compare, Goto, Rests, transfer
<1>8. ASSUME NEW t \in Table, CopyTable(p, t) PROVE Rests(q)
  BY <1>1, <1>8 DEF TypeOK, CopyTable, Rests, transfer
<1>9. CASE Commit(p) \/ Abort(p)
  BY <1>2, <1>9 DEF Commit, Abort
<1>10. CASE TransferFails(p)
  BY <1>1, <1>2, <1>10 DEF TypeOK, TransferFails, Goto, Rests, tx
<1>11. ASSUME NEW force, StartRefresh(p, force) PROVE Rests(q)
  BY <1>1, <1>11 DEF TypeOK, StartRefresh, Goto, Rests, transfer, tx
<1>12. ASSUME NEW f, StartLoad(p, f) PROVE Rests(q)
  BY <1>1, <1>12 DEF TypeOK, StartLoad, Goto, Rests, tx
<1> QED
  BY <1>4, <1>5, <1>6, <1>7, <1>8, <1>9, <1>10, <1>11, <1>12 DEF Step

\* What a started process does itself.
LEMMA OwnStepAdvances ==
  ASSUME IInv, NEW p \in Process, pc[p] # "idle",
         Step(p) \/ TransferFails(p) \/ AcquireLock(p) \/ Abort(p)
  PROVE  Advances(p)
<1>1. TypeOK
  BY DEF IInv
<1>2. ASSUME End(p) PROVE Advances(p)
  BY <1>1, <1>2 DEF TypeOK, End, Goto, Advances
<1>3. ASSUME NEW l, Goto(p, l), UNCHANGED attempt, Stage[pc[p]] < Stage[l]
      PROVE  Advances(p)
  BY <1>1, <1>3 DEF TypeOK, Goto, Advances
<1>4. CASE Connect(p)
  BY <1>3, <1>4 DEF Connect, Stage
<1>5. CASE Receive(p)
  <2>1. file[p] \in Seq(Feed \X (1 .. Chunks)) /\ Len(file[p]) < Chunks
        /\ file'[p] = Append(file[p], <<from[p], Len(file[p]) + 1>>)
        /\ UNCHANGED <<pc, attempt>>
    BY <1>1, <1>5 DEF TypeOK, Receive
  <2>2. Len(file'[p]) = Len(file[p]) + 1 /\ Len(file[p]) \in Nat
    BY <2>1
  <2> QED
    BY <2>1, <2>2, ConstantsAssumption DEF Advances
<1>6. CASE EndOfResponse(p) \/ Inspect(p) \/ LookUp(p) \/ Rename(p) \/ Verify(p)
  BY <1>2, <1>3, <1>6 DEF EndOfResponse, Inspect, LookUp, Rename, Verify, Stage, transfer
<1>7. CASE Open(p) \/ AcquireLock(p) \/ Compare(p) \/ Validate(p)
  BY <1>2, <1>3, <1>7 DEF Open, AcquireLock, Compare, Validate, Stage, transfer
<1>8. ASSUME NEW t \in Table, CopyTable(p, t) PROVE Advances(p)
  <2>1. t \in left[p] /\ left'[p] = left[p] \ {t} /\ UNCHANGED <<pc, attempt, file>>
    BY <1>1, <1>8 DEF TypeOK, CopyTable, transfer
  <2> QED
    BY <2>1 DEF Advances
<1>9. CASE Commit(p) \/ Abort(p)
  BY <1>2, <1>9 DEF Commit, Abort
<1>10. CASE TransferFails(p)
  <2>1. CASE End(p)
    BY <1>2, <2>1
  <2>2. CASE AttemptsRemain(p) /\ attempt' = [attempt EXCEPT ![p] = NextAttempt(p)]
    <3>1. attempt[p] \in Nat /\ attempt'[p] = attempt[p] + 1 /\ attempt[p] + 1 < Attempts
      BY <1>1, <2>2, ConstantsAssumption DEF TypeOK, AttemptsRemain, NextAttempt
    <3> QED
      BY <3>1 DEF Advances
  <2> QED
    BY <1>10, <2>1, <2>2 DEF TransferFails
<1> QED
  BY <1>4, <1>5, <1>6, <1>7, <1>8, <1>9, <1>10 DEF Step

\* All that a started process does brings it closer to its end: fairness is
\* needed only for its being scheduled and for the lock's being granted.
THEOREM RefreshRunsAdvance == Spec => RunsAdvance
<1>1. ASSUME IInv, [Next]_vars, NEW q \in Process, pc[q] # "idle"
      PROVE  Advances(q) \/ Rests(q)
  <2>1. ASSUME NEW p \in Process,
               Step(p) \/ TransferFails(p) \/ AcquireLock(p) \/ Abort(p)
        PROVE  Advances(q) \/ Rests(q)
    BY <1>1, <2>1, OthersRest, OwnStepAdvances
  <2>2. ASSUME NEW p \in Process,
               (\E force \in BOOLEAN : StartRefresh(p, force)) \/ \E f \in Feed : StartLoad(p, f)
        PROVE  Rests(q)
    <3>1. p # q
      BY <1>1, <2>2 DEF StartRefresh, StartLoad
    <3> QED
      BY <1>1, <2>2, <3>1, OthersRest
  <2>3. CASE UNCHANGED <<pc, transfer, opts, tx>>
    BY <2>3 DEF Rests, transfer, tx
  <2> QED
    BY <1>1, <2>1, <2>2, <2>3 DEF Next, NewRemote, Damage, vars
<1>2. IInv /\ [Next]_vars
        => [\A p \in Process : pc[p] # "idle" => Advances(p) \/ Rests(p)]_vars
  BY <1>1
<1> QED
  BY <1>2, RefreshInvariant, PTL DEF Spec, RunsAdvance
=============================================================================
