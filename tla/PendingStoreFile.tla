--------------------------- MODULE PendingStoreFile ---------------------------
(***************************************************************************)
(* CFilePendingExecutionStore: the entries in memory, and the three files  *)
(* (active snapshot, temp, backup) that a save goes through one file       *)
(* operation at a time.  The EA may die between two operations and inside  *)
(* one, and an operation may fail; what a restart restores is decided by   *)
(* the files alone.                                                        *)
(*                                                                         *)
(* An entry is a number of its successive states: 0 when the store does    *)
(* not have it, then 1, 2, ...                                             *)
(***************************************************************************)
EXTENDS Integers

CONSTANTS
    N,              \* entries 1..N, numbered in the order of their first save
    MaxVersion,     \* bound on the states of one entry
    Faults          \* the file operations that may fail

ASSUME EntryCount == N \in Nat
ASSUME VersionBound == MaxVersion \in Nat \ {0}
ASSUME FaultKinds ==
    Faults \subseteq {"write", "copy", "move", "garble", "restore"}

Entries == 1..N

VARIABLES
    active, tmp, bak,   \* pending_executions.dat, .tmp and .bak
    mem,                \* the in-memory store: entry -> state
    pc,                 \* the next step of the running save
    acked,              \* entry -> last state whose save was reported as done
    intact              \* no write of the active file was cut short or garbled

files == <<active, tmp, bak>>
vars == <<files, mem, pc, acked, intact>>

Image == [Entries -> 0..MaxVersion]
Nothing == [e \in Entries |-> 0]

\* A file is missing, can be validated line by line, or cannot.
None == [kind |-> "none", has |-> Nothing]
Bad == [kind |-> "bad", has |-> Nothing]
Good(image) == [kind |-> "good", has |-> image]
File == {None, Bad} \cup {Good(image) : image \in Image}

Step == {"ready", "write", "backup", "backup_copy", "promote", "verify",
         "refresh", "refresh_copy", "down"}

TypeOK ==
    /\ active \in File /\ tmp \in File /\ bak \in File
    /\ mem \in Image
    /\ pc \in Step
    /\ acked \in Image
    /\ intact \in BOOLEAN

\* What an interrupted write of new over old may leave.  A file that was cut
\* between two lines, or is still empty, passes TryValidateSnapshotContent.
Cut(image, k) == [e \in Entries |-> IF e <= k THEN image[e] ELSE 0]
Interrupted(old, new) ==
    {old, new, Bad} \cup
        (IF new.kind = "good"
         THEN {Good(Cut(new.has, k)) : k \in {0} \cup Entries} ELSE {})

-------------------------------------------------------------------------------
(***************************************************************************)
(* SavePreparedState, SaveEntryState: the memory first, then               *)
(* WriteSnapshotAtomic.                                                    *)
(***************************************************************************)

Remember(e) ==
    /\ pc = "ready"
    /\ mem[e] < MaxVersion
    /\ \A f \in Entries : f < e => mem[f] > 0
    /\ mem' = [mem EXCEPT ![e] = @ + 1]

Save(e) ==
    /\ Remember(e)
    /\ tmp' = None
    /\ pc' = "write"
    /\ UNCHANGED <<active, bak, acked, intact>>

\* EnsureDirectoryChain fails.
SaveWithoutDirectory(e) ==
    /\ "write" \in Faults
    /\ Remember(e)
    /\ UNCHANGED <<files, pc, acked, intact>>

\* WriteSnapshotFile, verified by reading it back.
WriteTemp ==
    /\ pc = "write"
    /\ tmp' = Good(mem)
    /\ pc' = "backup"
    /\ UNCHANGED <<active, bak, mem, acked, intact>>

WriteTempFails ==
    /\ pc = "write" /\ "write" \in Faults
    /\ tmp' = None
    /\ pc' = "ready"
    /\ UNCHANGED <<active, bak, mem, acked, intact>>

\* BackupValidActiveSnapshot: an unreadable active file keeps the old backup.
BackupStarts ==
    /\ pc = "backup"
    /\ IF active.kind = "good"
       THEN bak' = None /\ pc' = "backup_copy"
       ELSE bak' = bak /\ pc' = "promote"
    /\ UNCHANGED <<active, tmp, mem, acked, intact>>

BackupCopied ==
    /\ pc = "backup_copy"
    /\ bak' = active
    /\ pc' = "promote"
    /\ UNCHANGED <<active, tmp, mem, acked, intact>>

BackupFails ==
    /\ pc = "backup_copy" /\ "copy" \in Faults
    /\ tmp' = None
    /\ pc' = "ready"
    /\ UNCHANGED <<active, bak, mem, acked, intact>>

\* PromoteTempToActive: FileMove, which is atomic on one volume.
PromoteByMove ==
    /\ pc = "promote"
    /\ active' = tmp
    /\ tmp' = None
    /\ pc' = "verify"
    /\ UNCHANGED <<bak, mem, acked, intact>>

\* Its fallback, when the file cannot be moved.
PromoteByCopy ==
    /\ pc = "promote" /\ "move" \in Faults
    /\ active' = tmp
    /\ tmp' = None
    /\ pc' = "verify"
    /\ UNCHANGED <<bak, mem, acked, intact>>

\* A promotion that reports success and leaves something else behind.
PromoteGarbled ==
    /\ pc = "promote" /\ "garble" \in Faults
    /\ active' = Bad
    /\ tmp' = None
    /\ intact' = FALSE
    /\ pc' = "verify"
    /\ UNCHANGED <<bak, mem, acked>>

\* Neither works: the temp file stays.
PromoteFails ==
    /\ pc = "promote" /\ {"move", "copy"} \subseteq Faults
    /\ pc' = "ready"
    /\ UNCHANGED <<files, mem, acked, intact>>

\* The written file is not compared with what was to be written.
VerifiedBlindly ==
    /\ pc = "verify"
    /\ tmp' = None
    /\ pc' = "refresh"
    /\ UNCHANGED <<active, bak, mem, acked, intact>>

Verified ==
    /\ pc = "verify"
    /\ active = Good(mem)
    /\ tmp' = None
    /\ pc' = "refresh"
    /\ UNCHANGED <<active, bak, mem, acked, intact>>

\* The active file is not what was written, or cannot be read at the moment.
VerificationFails ==
    pc = "verify" /\ (active # Good(mem) \/ "garble" \in Faults)

\* RecoverActiveFromBackup, whose own failure is not looked at.
NotVerified ==
    /\ VerificationFails
    /\ active' \in {IF bak = None THEN active ELSE bak}
                   \cup (IF "copy" \in Faults THEN {active} ELSE {})
    /\ pc' = "ready"
    /\ UNCHANGED <<tmp, bak, mem, acked, intact>>

\* The save is reported as done without a fresh backup.
RefreshSkipped ==
    /\ pc = "refresh"
    /\ acked' = mem
    /\ pc' = "ready"
    /\ UNCHANGED <<active, tmp, bak, mem, intact>>

\* RefreshBackupFromActive.
RefreshStarts ==
    /\ pc = "refresh"
    /\ bak' = None
    /\ pc' = "refresh_copy"
    /\ UNCHANGED <<active, tmp, mem, acked, intact>>

\* The save is reported as done only now.
Refreshed ==
    /\ pc = "refresh_copy"
    /\ bak' = active
    /\ acked' = mem
    /\ pc' = "ready"
    /\ UNCHANGED <<active, tmp, mem, intact>>

RefreshFails ==
    /\ pc = "refresh_copy" /\ "copy" \in Faults
    /\ pc' = "ready"
    /\ UNCHANGED <<files, mem, acked, intact>>

-------------------------------------------------------------------------------
(***************************************************************************)
(* The EA dies, and RestoreFromDisk when it starts again.                  *)
(***************************************************************************)

\* Death in the middle of an operation that writes a file.
CutShort ==
    \/ /\ pc = "write"
       /\ tmp' \in Interrupted(tmp, Good(mem))
       /\ UNCHANGED <<active, bak, intact>>
    \/ /\ pc \in {"backup_copy", "refresh_copy"}
       /\ bak' \in Interrupted(bak, active)
       /\ UNCHANGED <<active, tmp, intact>>
    \/ /\ pc = "promote" /\ "move" \in Faults
       /\ active' \in Interrupted(active, tmp)
       /\ intact' = FALSE
       /\ UNCHANGED <<tmp, bak>>
    \/ /\ VerificationFails /\ bak # None
       /\ active' \in Interrupted(active, bak)
       /\ intact' = FALSE
       /\ UNCHANGED <<tmp, bak>>

Crash ==
    /\ pc # "down"
    /\ pc' = "down"
    /\ mem' = Nothing
    /\ \/ CutShort
       \/ UNCHANGED <<files, intact>>
    /\ UNCHANGED acked

RestoreActive ==
    /\ pc = "down"
    /\ active.kind = "good"
    /\ mem' = active.has
    /\ pc' = "ready"
    /\ UNCHANGED <<files, acked, intact>>

\* A temp file is taken for the newest snapshot whatever the active one holds.
RestoreTempFirst ==
    /\ pc = "down"
    /\ tmp.kind = "good"
    /\ active' = tmp
    /\ tmp' = None
    /\ mem' = tmp.has
    /\ pc' = "ready"
    /\ UNCHANGED <<bak, acked, intact>>

RestoreTemp ==
    /\ pc = "down"
    /\ active.kind # "good" /\ tmp.kind = "good"
    /\ active' = tmp
    /\ tmp' = None
    /\ mem' = tmp.has
    /\ pc' = "ready"
    /\ UNCHANGED <<bak, acked, intact>>

RestoreBackup ==
    /\ pc = "down"
    /\ active.kind # "good" /\ tmp.kind # "good" /\ bak.kind = "good"
    /\ active' = bak
    /\ mem' = bak.has
    /\ pc' = "ready"
    /\ UNCHANGED <<tmp, bak, acked, intact>>

\* Death while the active file is being copied back.
RestoreCutShort ==
    /\ pc = "down"
    /\ active.kind # "good"
    /\ \/ /\ tmp.kind = "good" /\ "move" \in Faults
          /\ active' \in Interrupted(active, tmp)
       \/ /\ tmp.kind # "good" /\ bak.kind = "good"
          /\ active' \in Interrupted(active, bak)
    /\ intact' = FALSE
    /\ UNCHANGED <<tmp, bak, mem, pc, acked>>

\* InitializePristineEmptyStore.
RestorePristine ==
    /\ pc = "down"
    /\ active = None /\ tmp = None /\ bak = None
    /\ pc' = "ready"
    /\ UNCHANGED <<files, mem, acked, intact>>

\* RestoreFromDisk fails, because no file can be used or because it could not
\* read or copy one.  The composition root does not look at the result: the
\* EA goes on with an empty store.
RestoreFails ==
    /\ pc = "down"
    /\ \E f \in {active, tmp, bak} : f # None
    /\ "restore" \notin Faults =>
          \A f \in {active, tmp, bak} : f.kind # "good"
    /\ pc' = "ready"
    /\ UNCHANGED <<files, mem, acked, intact>>

-------------------------------------------------------------------------------
Init ==
    /\ active = None /\ tmp = None /\ bak = None
    /\ mem = Nothing
    /\ pc = "down"
    /\ acked = Nothing
    /\ intact = TRUE

Next ==
    \/ \E e \in Entries : Save(e) \/ SaveWithoutDirectory(e)
    \/ WriteTemp \/ WriteTempFails
    \/ BackupStarts \/ BackupCopied \/ BackupFails
    \/ PromoteByMove \/ PromoteByCopy \/ PromoteGarbled \/ PromoteFails
    \/ Verified \/ NotVerified
    \/ RefreshStarts \/ Refreshed \/ RefreshFails
    \/ Crash
    \/ RestoreActive \/ RestoreTemp \/ RestoreBackup \/ RestoreCutShort
    \/ RestorePristine \/ RestoreFails

Spec == Init /\ [][Next]_vars
-------------------------------------------------------------------------------
(***************************************************************************)
(* Properties.                                                             *)
(***************************************************************************)

AtLeast(a, b) == \A e \in Entries : a[e] >= b[e]

\* What a restart would load if the EA died now.
WouldRestore ==
    IF active.kind = "good" THEN active.has
    ELSE IF tmp.kind = "good" THEN tmp.has
    ELSE IF bak.kind = "good" THEN bak.has
    ELSE Nothing

\* A state whose save was reported as done is never lost: neither from the
\* running store, nor from what the next start would load, wherever in a save
\* or a restore the EA may die.
Lossless ==
    /\ AtLeast(WouldRestore, acked)
    /\ pc # "down" => AtLeast(mem, acked)

\* The same, as long as no write of the active file itself was cut short or
\* garbled, whatever happened to the other two files.
LosslessWhileIntact == intact => Lossless

\* A save is reported as done only when two files hold everything the store
\* has in memory and the temp file is gone.
DoneMeansTwoCopies ==
    [][acked' # acked =>
          active' = Good(mem) /\ bak' = Good(mem) /\ tmp' = None]_vars

Store == INSTANCE DurableStore WITH
    up <- pc # "down",
    view <- mem,
    kept <- WouldRestore,
    promised <- acked,
    damaged <- ~intact

\* The three files are together a durable store: a start finds what they held
\* together when the EA died, which is at least what was reported as saved and
\* at most what was in memory.
IsDurable == Store!StoreSpec
===============================================================================
