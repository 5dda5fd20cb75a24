------------------------ MODULE PendingStoreFileProofs ------------------------
(***************************************************************************)
(* Proofs about PendingStoreFile, for any number of entries.               *)
(***************************************************************************)
EXTENDS PendingStoreFile, TLAPS

(***************************************************************************)
(* Type correctness.                                                       *)
(***************************************************************************)

\* The pieces the files are made of are files.
LEMMA FileType ==
    /\ Nothing \in Image
    /\ None \in File /\ Bad \in File
    /\ \A image \in Image : Good(image) \in File
    /\ \A f \in File : f.has \in Image
<1>1. Nothing \in Image
  BY VersionBound DEF Image, Nothing
<1>2. \A image \in Image : Good(image).has = image
  BY DEF Good
<1>3. None.has = Nothing /\ Bad.has = Nothing
  BY DEF None, Bad
<1> QED
  BY <1>1, <1>2, <1>3 DEF File

\* What an interrupted write leaves is a file.
LEMMA InterruptedType ==
    ASSUME NEW old \in File, NEW new \in File
    PROVE  Interrupted(old, new) \subseteq File
<1>1. \A image \in Image, k \in {0} \cup Entries : Cut(image, k) \in Image
  BY VersionBound DEF Cut, Image
<1>2. new.has \in Image
  BY FileType
<1> QED
  BY <1>1, <1>2, FileType DEF Interrupted

\* A death in the middle of an operation leaves files.
LEMMA CutShortType ==
    ASSUME TypeOK, CutShort
    PROVE  active' \in File /\ tmp' \in File /\ bak' \in File
           /\ intact' \in BOOLEAN
<1>1. Good(mem) \in File
  BY FileType DEF TypeOK
<1>2. /\ Interrupted(tmp, Good(mem)) \subseteq File
      /\ Interrupted(bak, active) \subseteq File
      /\ Interrupted(active, tmp) \subseteq File
      /\ Interrupted(active, bak) \subseteq File
  BY <1>1, InterruptedType DEF TypeOK
<1> QED
  BY <1>2 DEF CutShort, TypeOK

\* The typing invariant is preserved by every step.
LEMMA TypeStep == TypeOK /\ [Next]_vars => TypeOK'
<1> SUFFICES ASSUME TypeOK, [Next]_vars PROVE TypeOK'
  OBVIOUS
<1> USE FileType
<1>1. ASSUME NEW e \in Entries, Remember(e)
      PROVE  mem' \in Image
  <2>1. mem[e] + 1 \in 0..MaxVersion
    BY <1>1, VersionBound DEF Remember, TypeOK, Image
  <2> QED
    BY <2>1, <1>1 DEF Remember, TypeOK, Image
<1>2. CASE \E e \in Entries : Save(e) \/ SaveWithoutDirectory(e)
  BY <1>1, <1>2 DEF Save, SaveWithoutDirectory, TypeOK, Step, files
<1>3. CASE WriteTemp \/ WriteTempFails
  BY <1>3 DEF WriteTemp, WriteTempFails, TypeOK, Step
<1>4. CASE BackupStarts \/ BackupCopied \/ BackupFails
  BY <1>4 DEF BackupStarts, BackupCopied, BackupFails, TypeOK, Step
<1>5. CASE PromoteByMove \/ PromoteByCopy \/ PromoteGarbled \/ PromoteFails
  BY <1>5 DEF PromoteByMove, PromoteByCopy, PromoteGarbled, PromoteFails,
              TypeOK, Step, files
<1>6. CASE Verified \/ NotVerified
  BY <1>6 DEF Verified, NotVerified, TypeOK, Step
<1>7. CASE RefreshStarts \/ Refreshed \/ RefreshFails
  BY <1>7 DEF RefreshStarts, Refreshed, RefreshFails, TypeOK, Step, files
<1>8. CASE Crash
  BY <1>8, CutShortType DEF Crash, TypeOK, Step, files
<1>9. CASE RestoreActive \/ RestoreTemp \/ RestoreBackup \/ RestorePristine
           \/ RestoreFails
  BY <1>9 DEF RestoreActive, RestoreTemp, RestoreBackup, RestorePristine,
              RestoreFails, TypeOK, Step, files
<1>10. CASE RestoreCutShort
  <2>1. /\ Interrupted(active, tmp) \subseteq File
        /\ Interrupted(active, bak) \subseteq File
    BY InterruptedType DEF TypeOK
  <2> QED
    BY <2>1, <1>10 DEF RestoreCutShort, TypeOK
<1>11. CASE UNCHANGED vars
  BY <1>11 DEF vars, files, TypeOK
<1> QED
  BY <1>2, <1>3, <1>4, <1>5, <1>6, <1>7, <1>8, <1>9, <1>10, <1>11 DEF Next

\* Every reachable state of the store is well typed: three files that are
\* missing, readable or not, and an image of the entries in memory.
THEOREM StoreTypeCorrect == Spec => []TypeOK
<1>1. Init => TypeOK
  BY FileType DEF Init, TypeOK, Step
<1> QED
  BY <1>1, TypeStep, PTL DEF Spec

-------------------------------------------------------------------------------
(***************************************************************************)
(* A save that is reported as done is kept.                                *)
(***************************************************************************)

\* How far a save has come is written in the files.
Progress ==
    /\ pc \in {"backup", "backup_copy", "promote"} => tmp = Good(mem)
    /\ pc \in {"refresh", "refresh_copy"} => active = Good(mem) /\ tmp = None

\* A file that can be restored without losing what was reported as done.
Keeps(f) == acked = Nothing \/ (f.kind = "good" /\ AtLeast(f.has, acked))

\* LosslessWhileIntact is not inductive: it needs the active file to be the
\* one that is restored, and the backup to be good whenever a failed
\* verification may copy it back.
Kept ==
    intact =>
        /\ Keeps(active)
        /\ pc # "down" => AtLeast(mem, acked)
        /\ pc \in {"promote", "verify"} => Keeps(bak)

\* The steps of a save happen in their order.
LEMMA ProgressStep == TypeOK /\ Progress /\ [Next]_vars => Progress'
<1> SUFFICES ASSUME TypeOK, Progress, [Next]_vars PROVE Progress'
  OBVIOUS
<1> USE DEF Progress
<1>1. CASE \E e \in Entries : Save(e) \/ SaveWithoutDirectory(e)
  BY <1>1 DEF Save, SaveWithoutDirectory, Remember
<1>2. CASE WriteTemp \/ WriteTempFails
  BY <1>2 DEF WriteTemp, WriteTempFails
<1>3. CASE BackupStarts \/ BackupCopied \/ BackupFails
  BY <1>3 DEF BackupStarts, BackupCopied, BackupFails
<1>4. CASE PromoteByMove \/ PromoteByCopy \/ PromoteGarbled \/ PromoteFails
  BY <1>4 DEF PromoteByMove, PromoteByCopy, PromoteGarbled, PromoteFails
<1>5. CASE Verified \/ NotVerified
  BY <1>5 DEF Verified, NotVerified, VerificationFails
<1>6. CASE RefreshStarts \/ Refreshed \/ RefreshFails
  BY <1>6 DEF RefreshStarts, Refreshed, RefreshFails
<1>7. CASE Crash
  BY <1>7 DEF Crash
<1>8. CASE RestoreActive \/ RestoreTemp \/ RestoreBackup \/ RestorePristine
           \/ RestoreFails
  BY <1>8 DEF RestoreActive, RestoreTemp, RestoreBackup, RestorePristine,
              RestoreFails
<1>9. CASE RestoreCutShort
  BY <1>9 DEF RestoreCutShort
<1>10. CASE UNCHANGED vars
  BY <1>10 DEF vars, files
<1> QED
  BY <1>1, <1>2, <1>3, <1>4, <1>5, <1>6, <1>7, <1>8, <1>9, <1>10 DEF Next

\* Nothing is lost against the empty image, and nothing against itself.
LEMMA AtLeastFacts ==
    /\ \A a \in Image : AtLeast(a, Nothing) /\ AtLeast(a, a)
    /\ \A a, b, c \in Image : AtLeast(a, b) /\ AtLeast(b, c) => AtLeast(a, c)
<1>1. \A a \in Image, e \in Entries : a[e] \in Nat
  BY VersionBound DEF Image
<1> QED
  BY <1>1, FileType DEF AtLeast, Nothing

\* What was reported as done is kept by every step, if a start can read and
\* copy the files that are there.
LEMMA KeptStep ==
    ASSUME "restore" \notin Faults
    PROVE  TypeOK /\ Progress /\ Kept /\ [Next]_vars => Kept'
<1> SUFFICES ASSUME TypeOK, Progress, Kept, [Next]_vars, intact'
             PROVE  /\ Keeps(active)'
                    /\ pc' # "down" => AtLeast(mem', acked')
                    /\ pc' \in {"promote", "verify"} => Keeps(bak)'
  BY DEF Kept
<1>1. TypeOK'
  BY TypeStep
<1>2. \A f \in {active, tmp, bak} : f.has \in Image
  BY FileType DEF TypeOK
<1>3. CASE \E e \in Entries : Save(e) \/ SaveWithoutDirectory(e)
  <2>1. PICK e \in Entries : Save(e) \/ SaveWithoutDirectory(e)
    BY <1>3
  <2>2. AtLeast(mem', mem)
    <3>1. mem \in Image /\ mem' = [mem EXCEPT ![e] = @ + 1]
      BY <2>1 DEF Save, SaveWithoutDirectory, Remember, TypeOK
    <3>2. \A f \in Entries : mem'[f] = IF f = e THEN mem[f] + 1 ELSE mem[f]
      BY <3>1 DEF Image
    <3>3. \A f \in Entries : mem[f] \in 0..MaxVersion
      BY <3>1 DEF Image
    <3> QED
      BY <3>2, <3>3, VersionBound DEF AtLeast
  <2>3. /\ UNCHANGED <<active, bak, acked, intact>>
        /\ pc = "ready" /\ pc' \in {"write", "ready"}
    BY <2>1 DEF Save, SaveWithoutDirectory, Remember, files
  <2> QED
    BY <2>2, <2>3, <1>1, AtLeastFacts DEF Kept, Keeps, TypeOK
<1>4. CASE WriteTemp \/ WriteTempFails
  BY <1>4 DEF WriteTemp, WriteTempFails, Kept, Keeps
<1>5. CASE BackupStarts \/ BackupCopied \/ BackupFails
  BY <1>5 DEF BackupStarts, BackupCopied, BackupFails, Kept, Keeps
<1>6. CASE PromoteByMove \/ PromoteByCopy \/ PromoteGarbled \/ PromoteFails
  <2>1. tmp = Good(mem) /\ Good(mem).kind = "good" /\ Good(mem).has = mem
    BY <1>6 DEF Progress, Good, PromoteByMove, PromoteByCopy, PromoteGarbled,
                PromoteFails
  <2> QED
    BY <2>1, <1>6 DEF PromoteByMove, PromoteByCopy, PromoteGarbled,
                      PromoteFails, Kept, Keeps, files
<1>7. CASE Verified \/ NotVerified
  BY <1>7 DEF Verified, NotVerified, VerificationFails, Kept, Keeps
<1>8. CASE RefreshStarts \/ Refreshed \/ RefreshFails
  <2>1. active = Good(mem) /\ Good(mem).kind = "good" /\ Good(mem).has = mem
    BY <1>8 DEF Progress, Good, RefreshStarts, Refreshed, RefreshFails
  <2> QED
    BY <2>1, <1>8, AtLeastFacts
    DEF RefreshStarts, Refreshed, RefreshFails, Kept, Keeps, files, TypeOK
<1>9. CASE Crash
  BY <1>9 DEF Crash, CutShort, Kept, Keeps, files
<1>10. CASE RestoreActive
  BY <1>10, <1>2, AtLeastFacts DEF RestoreActive, Kept, Keeps, files
<1>11. CASE RestoreTemp \/ RestoreBackup
  BY <1>11, <1>2, AtLeastFacts DEF RestoreTemp, RestoreBackup, Kept, Keeps
<1>12. CASE RestoreCutShort
  BY <1>12 DEF RestoreCutShort
<1>13. CASE RestorePristine \/ RestoreFails
  <2>1. acked = Nothing /\ pc' = "ready" /\ UNCHANGED <<active, mem, acked>>
    <3>1. active.kind # "good"
      <4>1. CASE RestorePristine
        BY <4>1 DEF RestorePristine, None
      <4>2. CASE RestoreFails
        BY <4>2 DEF RestoreFails
      <4> QED
        BY <4>1, <4>2, <1>13
    <3> QED
      BY <3>1, <1>13 DEF RestorePristine, RestoreFails, Kept, Keeps, files
  <2> QED
    BY <2>1, AtLeastFacts DEF Keeps, TypeOK
<1>14. CASE UNCHANGED vars
  BY <1>14 DEF vars, files, Kept, Keeps
<1> QED
  BY <1>3, <1>4, <1>5, <1>6, <1>7, <1>8, <1>9, <1>10, <1>11, <1>12, <1>13,
     <1>14 DEF Next

\* If a start can read the files that are there, a state whose save was
\* reported as done is never lost while no write of the active file has been
\* cut short or garbled: however many entries there are, whichever other
\* operation fails and wherever the EA dies.
THEOREM LosslessCorrect ==
    ASSUME "restore" \notin Faults
    PROVE  Spec => []LosslessWhileIntact
<1>1. Init => TypeOK /\ Progress /\ Kept
  BY FileType, AtLeastFacts DEF Init, TypeOK, Step, Progress, Kept, Keeps
<1>2. TypeOK /\ Progress /\ Kept /\ [Next]_vars
         => TypeOK' /\ Progress' /\ Kept'
  BY TypeStep, ProgressStep, KeptStep
<1>3. TypeOK /\ Kept => LosslessWhileIntact
  <2> SUFFICES ASSUME TypeOK, Kept, intact PROVE Lossless
    BY DEF LosslessWhileIntact
  <2>1. WouldRestore \in Image
    BY FileType DEF WouldRestore, TypeOK
  <2>2. AtLeast(WouldRestore, acked)
    BY <2>1, AtLeastFacts DEF Kept, Keeps, WouldRestore
  <2> QED
    BY <2>2 DEF Kept, Lossless
<1> QED
  BY <1>1, <1>2, <1>3, PTL DEF Spec

\* Only the end of a save promises anything.
LEMMA OnlyRefreshedPromises ==
    ASSUME [Next]_vars, acked' # acked PROVE Refreshed
BY DEF Next, vars, Save, SaveWithoutDirectory, WriteTemp, WriteTempFails,
       BackupStarts, BackupCopied, BackupFails, PromoteByMove,
       PromoteByCopy, PromoteGarbled, PromoteFails, Verified, NotVerified,
       RefreshStarts, RefreshFails, Crash, RestoreActive, RestoreTemp,
       RestoreBackup, RestoreCutShort, RestorePristine, RestoreFails

\* A save is reported as done only when the active file and the backup both
\* hold everything in memory and the temp file is gone, whatever may fail.
THEOREM DoneMeansTwoCopiesCorrect == Spec => DoneMeansTwoCopies
<1>1. Init => TypeOK /\ Progress
  BY FileType DEF Init, TypeOK, Step, Progress
<1>2. TypeOK /\ Progress /\ [Next]_vars => TypeOK' /\ Progress'
  BY TypeStep, ProgressStep
<1>3. TypeOK /\ Progress /\ [Next]_vars
         => [acked' # acked =>
                active' = Good(mem) /\ bak' = Good(mem) /\ tmp' = None]_vars
  <2> SUFFICES ASSUME Progress, Next, acked' # acked
               PROVE  active' = Good(mem) /\ bak' = Good(mem) /\ tmp' = None
    BY DEF vars
  <2>1. Refreshed
    BY OnlyRefreshedPromises
  <2> QED
    BY <2>1 DEF Refreshed, Progress
<1> QED
  BY <1>1, <1>2, <1>3, PTL DEF Spec, DoneMeansTwoCopies

-------------------------------------------------------------------------------
(***************************************************************************)
(* The three files are together a durable store.                           *)
(***************************************************************************)

\* What the files hold never runs ahead of the memory, and the backup never
\* ahead of the active file.
Order ==
    /\ pc = "down" => mem = Nothing
    /\ pc = "backup_copy" => active.kind = "good"
    /\ pc = "verify" => tmp = None
    /\ intact =>
          /\ bak.kind = "good" =>
                active.kind = "good" /\ AtLeast(active.has, bak.has)
          /\ pc # "down" => AtLeast(mem, WouldRestore)

\* What would be restored is an image.
LEMMA RestoreType == TypeOK => WouldRestore \in Image
BY FileType DEF WouldRestore, TypeOK

\* What an interrupted write leaves is the old file, no readable file, or a
\* file that holds no more than the new one.
LEMMA InterruptedHolds ==
    ASSUME NEW old \in File, NEW new \in File, NEW f \in Interrupted(old, new)
    PROVE  \/ f = old
           \/ f.kind # "good"
           \/ /\ new.kind = "good" /\ f.kind = "good"
              /\ AtLeast(new.has, f.has)
<1>1. new.has \in Image
  BY FileType
<1>2. ASSUME NEW k \in {0} \cup Entries PROVE AtLeast(new.has, Cut(new.has, k))
  <2>1. \A e \in Entries : new.has[e] \in Nat
    BY <1>1, VersionBound DEF Image
  <2> QED BY <2>1 DEF AtLeast, Cut
<1>3. CASE f = new
  BY <1>1, <1>3, AtLeastFacts
<1>4. CASE f = Bad
  BY <1>4 DEF Bad
<1>5. CASE new.kind = "good" /\ \E k \in {0} \cup Entries : f = Good(Cut(new.has, k))
  BY <1>2, <1>5 DEF Good
<1> QED BY <1>3, <1>4, <1>5 DEF Interrupted

\* A death, unless it damages the active file, leaves the files in order, and
\* nothing that was not in memory.
LEMMA CrashHolds ==
    ASSUME TypeOK, Progress, Order, Crash, intact'
    PROVE  Order' /\ AtLeast(mem, WouldRestore')
<1>0. /\ mem \in Image /\ active.has \in Image /\ tmp.has \in Image
      /\ bak.has \in Image /\ tmp'.has \in Image /\ bak'.has \in Image
      /\ Good(mem) \in File /\ Good(mem).has = mem /\ Good(mem).kind = "good"
  BY FileType, TypeStep DEF TypeOK, Next, Good
<1>1. /\ intact /\ active' = active /\ pc # "down" /\ pc' = "down"
      /\ mem' = Nothing /\ AtLeast(mem, WouldRestore)
  BY DEF Crash, CutShort, files, Order
<1>2. CASE UNCHANGED files
  BY <1>1, <1>2 DEF files, Order, WouldRestore
<1>3. CASE pc = "write" /\ tmp' \in Interrupted(tmp, Good(mem)) /\ bak' = bak
  <2>1. \/ tmp' = tmp
        \/ tmp'.kind # "good"
        \/ tmp'.kind = "good" /\ AtLeast(mem, tmp'.has)
    BY <1>0, <1>3, InterruptedHolds DEF TypeOK
  <2>2. active.kind # "good" => bak.kind # "good"
    BY <1>1 DEF Order
  <2>3. AtLeast(mem, Nothing)
    BY <1>0, AtLeastFacts
  <2>4. AtLeast(mem, WouldRestore')
    BY <1>1, <1>3, <2>1, <2>2, <2>3 DEF WouldRestore
  <2> QED BY <1>1, <1>3, <2>4 DEF Order
<1>4. CASE /\ pc \in {"backup_copy", "refresh_copy"}
           /\ bak' \in Interrupted(bak, active) /\ tmp' = tmp
  <2>1. active.kind = "good"
    BY <1>0, <1>4 DEF Order, Progress
  <2>2. \/ bak' = bak
        \/ bak'.kind # "good"
        \/ AtLeast(active.has, bak'.has)
    BY <1>4, InterruptedHolds DEF TypeOK
  <2>3. WouldRestore' = WouldRestore
    BY <1>1, <2>1 DEF WouldRestore
  <2> QED BY <1>1, <2>1, <2>2, <2>3 DEF Order
<1> QED
  BY <1>1, <1>2, <1>3, <1>4 DEF Crash, CutShort

\* The files stay in order.
LEMMA OrderStep ==
    ASSUME "restore" \notin Faults
    PROVE  TypeOK /\ Progress /\ Order /\ [Next]_vars => Order'
<1> SUFFICES ASSUME TypeOK, Progress, Order, [Next]_vars PROVE Order'
  OBVIOUS
<1>0. /\ mem \in Image /\ active.has \in Image /\ tmp.has \in Image
      /\ bak.has \in Image /\ mem' \in Image
      /\ Good(mem).has = mem /\ Good(mem).kind = "good"
      /\ None.kind = "none" /\ None.has = Nothing /\ Bad.kind = "bad"
      /\ Nothing \in Image /\ WouldRestore \in Image
  BY FileType, TypeStep, RestoreType DEF TypeOK, Good, None, Bad
<1>1. AtLeast(mem, mem) /\ AtLeast(mem, Nothing)
  BY <1>0, AtLeastFacts
<1>2. CASE \E e \in Entries : Save(e) \/ SaveWithoutDirectory(e)
  <2>1. PICK e \in Entries : Save(e) \/ SaveWithoutDirectory(e)
    BY <1>2
  <2>2. /\ pc = "ready" /\ pc' \in {"ready", "write"}
        /\ active' = active /\ bak' = bak /\ intact' = intact
        /\ tmp' \in {tmp, None}
        /\ mem' = [mem EXCEPT ![e] = @ + 1]
    BY <2>1 DEF Save, SaveWithoutDirectory, Remember, files
  <2>3. AtLeast(mem', mem)
    <3>1. \A f \in Entries : /\ mem[f] \in Nat
                              /\ mem'[f] = IF f = e THEN mem[f] + 1 ELSE mem[f]
      BY <1>0, <2>2, VersionBound DEF Image
    <3> QED BY <3>1 DEF AtLeast
  <2>4. AtLeast(mem', Nothing)
    BY <1>0, AtLeastFacts
  <2>5. intact => WouldRestore' \in {WouldRestore, Nothing}
    BY <1>0, <2>2 DEF Order, WouldRestore
  <2>6. intact => AtLeast(mem', WouldRestore)
    BY <1>0, <2>2, <2>3, AtLeastFacts DEF Order
  <2> QED BY <2>2, <2>4, <2>5, <2>6 DEF Order
<1>3. CASE WriteTemp \/ WriteTempFails
  BY <1>0, <1>1, <1>3 DEF WriteTemp, WriteTempFails, Order, WouldRestore
<1>4. CASE BackupStarts \/ BackupCopied \/ BackupFails
  BY <1>0, <1>1, <1>4, AtLeastFacts
     DEF BackupStarts, BackupCopied, BackupFails, Order, WouldRestore
<1>5. CASE PromoteByMove \/ PromoteByCopy
  <2>1. /\ pc = "promote" /\ pc' = "verify" /\ active' = Good(mem)
        /\ tmp' = None /\ UNCHANGED <<bak, mem, intact>>
    BY <1>5 DEF PromoteByMove, PromoteByCopy, Progress
  <2>2. intact /\ bak.kind = "good" => AtLeast(mem, bak.has)
    BY <1>0, <2>1, AtLeastFacts DEF Order, WouldRestore
  <2> QED BY <1>0, <1>1, <2>1, <2>2 DEF Order, WouldRestore
<1>6. CASE PromoteGarbled
  BY <1>6 DEF PromoteGarbled, Order
<1>7. CASE PromoteFails
  BY <1>7 DEF PromoteFails, files, Order, WouldRestore
<1>8. CASE Verified
  BY <1>0, <1>1, <1>8 DEF Verified, Order, WouldRestore
<1>9. CASE NotVerified
  <2>1. /\ pc = "verify" /\ pc' = "ready" /\ tmp = None
        /\ UNCHANGED <<tmp, bak, mem, intact>>
        /\ active' \in {active, bak}
    BY <1>9 DEF NotVerified, VerificationFails, Order
  <2>2. CASE active' = active
    BY <2>1, <2>2 DEF Order, WouldRestore
  <2>3. CASE active' = bak
    <3>1. intact /\ bak.kind = "good" => AtLeast(mem, bak.has)
      BY <1>0, <2>1, AtLeastFacts DEF Order, WouldRestore
    <3> QED BY <1>0, <1>1, <2>1, <2>3, <3>1, AtLeastFacts DEF Order, WouldRestore
  <2> QED BY <2>1, <2>2, <2>3
<1>10. CASE RefreshStarts \/ Refreshed \/ RefreshFails
  BY <1>0, <1>1, <1>10
     DEF RefreshStarts, Refreshed, RefreshFails, files, Progress, Order,
         WouldRestore
<1>11. CASE Crash
  <2>1. CASE intact'
    BY <1>11, <2>1, CrashHolds
  <2>2. CASE ~intact'
    BY <1>11, <2>2 DEF Crash, Order
  <2> QED BY <2>1, <2>2
<1>12. CASE RestoreActive \/ RestoreTemp \/ RestoreBackup
  BY <1>0, <1>12, AtLeastFacts
     DEF RestoreActive, RestoreTemp, RestoreBackup, files, Order, WouldRestore
<1>13. CASE RestoreCutShort
  BY <1>13 DEF RestoreCutShort, Order
<1>14. CASE RestorePristine \/ RestoreFails
  <2>1. /\ pc = "down" /\ pc' = "ready" /\ UNCHANGED <<files, mem, intact>>
        /\ active.kind # "good" /\ tmp.kind # "good" /\ bak.kind # "good"
    BY <1>0, <1>14 DEF RestorePristine, RestoreFails
  <2> QED BY <1>1, <2>1 DEF Order, WouldRestore, files
<1>15. CASE UNCHANGED vars
  BY <1>15 DEF vars, files, Order, WouldRestore
<1> QED
  BY <1>2, <1>3, <1>4, <1>5, <1>6, <1>7, <1>8, <1>9, <1>10, <1>11, <1>12,
     <1>13, <1>14, <1>15 DEF Next

\* The operators of the durable store, in the terms of this module.
LEMMA StoreTerms ==
    /\ Image \subseteq Store!States
    /\ Store!Nothing = Nothing
    /\ \A a, b : Store!AtLeast(a, b) <=> AtLeast(a, b)
BY VersionBound DEF Image, Store!States, Store!Nothing, Nothing,
                    Store!AtLeast, AtLeast

\* Every operation on the files is a step of the durable store, or none.
LEMMA StoreStep ==
    ASSUME "restore" \notin Faults
    PROVE  TypeOK /\ Progress /\ Kept /\ Order /\ [Next]_vars
              => [Store!StoreNext]_(Store!storeVars)
<1> SUFFICES ASSUME TypeOK, Progress, Kept, Order, [Next]_vars
             PROVE  [Store!StoreNext]_(Store!storeVars)
  OBVIOUS
<1>0. /\ TypeOK' /\ Kept' /\ Order'
      /\ mem' \in Image /\ WouldRestore' \in Image
  <2>1. TypeOK' /\ Kept' /\ Order'
    BY TypeStep, KeptStep, OrderStep
  <2>2. WouldRestore' \in Image
    BY <2>1, FileType DEF TypeOK, WouldRestore
  <2> QED BY <2>1, <2>2 DEF TypeOK
<1>1. /\ mem' \in Store!States /\ WouldRestore' \in Store!States
  BY <1>0, StoreTerms
<1>2. intact' => AtLeast(WouldRestore', acked')
  BY <1>0, FileType, AtLeastFacts DEF Kept, Keeps, WouldRestore, TypeOK
<1>3. intact' /\ pc' # "down" => AtLeast(mem', WouldRestore')
  BY <1>0 DEF Order
<1>4. CASE acked' # acked
  <2>1. Refreshed
    BY <1>4, OnlyRefreshedPromises
  <2>2. active = Good(mem) /\ active.kind = "good" /\ active.has = mem
    BY <2>1 DEF Refreshed, Progress, Good
  <2>3. /\ WouldRestore = mem /\ WouldRestore' = mem /\ acked' = mem
        /\ pc # "down" /\ pc' # "down" /\ mem' = mem /\ intact' = intact
    BY <2>1, <2>2 DEF Refreshed, WouldRestore
  <2>4. Store!Promise
    BY <2>3 DEF Store!Promise
  <2> QED BY <2>4 DEF Store!StoreNext
<1>5. CASE acked' = acked /\ ~intact'
  <2>1. Store!Damage
    BY <1>1, <1>5 DEF Store!Damage
  <2> QED BY <2>1 DEF Store!StoreNext
<1>6. CASE acked' = acked /\ intact'
  <2>0. intact /\ Store!AtLeast(WouldRestore', acked)
    <3>1. intact
      BY <1>6 DEF Next, vars, Save, SaveWithoutDirectory, WriteTemp,
             WriteTempFails, BackupStarts, BackupCopied, BackupFails,
             PromoteByMove, PromoteByCopy, PromoteGarbled, PromoteFails,
             Verified, NotVerified, RefreshStarts, Refreshed, RefreshFails,
             Crash, CutShort, RestoreActive, RestoreTemp, RestoreBackup,
             RestoreCutShort, RestorePristine, RestoreFails
    <3> QED BY <1>2, <1>6, <3>1, StoreTerms
  <2>1. ASSUME pc # "down", pc' # "down", mem' = mem
        PROVE  Store!Persist
    <3>1. Store!AtLeast(mem, WouldRestore')
      BY <1>3, <1>6, <2>1, StoreTerms
    <3>2. Store!KeptWithin(acked, mem)
      BY <1>1, <2>0, <3>1 DEF Store!KeptWithin
    <3> QED BY <1>6, <2>0, <2>1, <3>2 DEF Store!Persist
  <2>2. ASSUME NEW e \in Entries, Save(e) \/ SaveWithoutDirectory(e)
        PROVE  Store!Record(e)
    <3>1. /\ pc # "down" /\ pc' # "down"
          /\ mem' = [mem EXCEPT ![e] = @ + 1]
      BY <2>2 DEF Save, SaveWithoutDirectory, Remember
    <3>2. Store!AtLeast(mem', WouldRestore')
      BY <1>3, <1>6, <3>1, StoreTerms
    <3>3. Store!KeptWithin(acked, mem')
      BY <1>1, <2>0, <3>2 DEF Store!KeptWithin
    <3> QED BY <1>6, <2>0, <3>1, <3>3 DEF Store!Record
  <2>3. CASE \/ WriteTemp \/ WriteTempFails
             \/ BackupStarts \/ BackupCopied \/ BackupFails
             \/ PromoteByMove \/ PromoteByCopy \/ PromoteGarbled \/ PromoteFails
             \/ Verified \/ NotVerified
             \/ RefreshStarts \/ Refreshed \/ RefreshFails
    <3>1. pc # "down" /\ pc' # "down" /\ mem' = mem
      BY <2>3 DEF WriteTemp, WriteTempFails, BackupStarts, BackupCopied,
             BackupFails, PromoteByMove, PromoteByCopy, PromoteGarbled,
             PromoteFails, Verified, NotVerified, VerificationFails,
             RefreshStarts, Refreshed, RefreshFails
    <3> QED BY <2>1, <3>1 DEF Store!StoreNext
  <2>4. CASE Crash
    <3>1. pc # "down" /\ pc' = "down" /\ mem' = Nothing
      BY <2>4 DEF Crash
    <3>2. Store!AtLeast(mem, WouldRestore')
      BY <1>6, <2>4, CrashHolds, StoreTerms
    <3>3. Store!KeptWithin(acked, mem)
      BY <1>1, <2>0, <3>2 DEF Store!KeptWithin
    <3>4. Store!Die
      BY <1>6, <2>0, <3>1, <3>3, StoreTerms DEF Store!Die
    <3> QED BY <3>4 DEF Store!StoreNext
  <2>5. ASSUME pc = "down", pc' # "down", mem' = WouldRestore,
               WouldRestore' = WouldRestore
        PROVE  [Store!StoreNext]_(Store!storeVars)
    <3>1. Store!Start
      BY <1>6, <2>0, <2>5 DEF Store!Start
    <3> QED BY <3>1 DEF Store!StoreNext
  <2>6. CASE RestoreActive
    BY <2>5, <2>6 DEF RestoreActive, WouldRestore, files
  <2>7. CASE RestoreTemp
    BY <2>5, <2>7 DEF RestoreTemp, WouldRestore
  <2>8. CASE RestoreBackup
    BY <2>5, <2>8 DEF RestoreBackup, WouldRestore
  <2>9. CASE RestorePristine \/ RestoreFails
    <3>1. /\ pc = "down" /\ pc' = "ready" /\ UNCHANGED <<files, mem>>
          /\ active.kind # "good" /\ tmp.kind # "good" /\ bak.kind # "good"
      BY <2>9 DEF RestorePristine, RestoreFails, None
    <3>2. mem = Nothing /\ WouldRestore = Nothing /\ WouldRestore' = Nothing
      BY <3>1 DEF Order, WouldRestore, files
    <3> QED BY <2>5, <3>1, <3>2
  <2>10. CASE RestoreCutShort
    BY <1>6, <2>10 DEF RestoreCutShort
  <2>11. CASE UNCHANGED vars
    BY <2>11 DEF vars, files, Store!storeVars, WouldRestore
  <2>12. CASE \E e \in Entries : Save(e) \/ SaveWithoutDirectory(e)
    BY <2>2, <2>12 DEF Store!StoreNext
  <2> QED
    BY <2>3, <2>4, <2>6, <2>7, <2>8, <2>9, <2>10, <2>11, <2>12 DEF Next
<1> QED BY <1>4, <1>5, <1>6

\* If a start can read the files that are there, the file operations of the
\* saves and starts, whichever fails and wherever the EA dies, implement a
\* store that keeps what it promised and invents nothing.
THEOREM StoreIsDurable ==
    ASSUME "restore" \notin Faults
    PROVE  Spec => IsDurable
<1>1. Init => TypeOK /\ Progress /\ Kept /\ Order
  BY FileType, AtLeastFacts
     DEF Init, TypeOK, Step, Progress, Kept, Keeps, Order, None
<1>2. TypeOK /\ Progress /\ Kept /\ Order /\ [Next]_vars
         => TypeOK' /\ Progress' /\ Kept' /\ Order'
  BY TypeStep, ProgressStep, KeptStep, OrderStep
<1>3. TypeOK /\ Progress /\ Kept /\ Order /\ [Next]_vars
         => [Store!StoreNext]_(Store!storeVars)
  BY StoreStep
<1>4. Init => Store!StoreInit
  BY StoreTerms DEF Init, Store!StoreInit, WouldRestore, None
<1> QED
  BY <1>1, <1>2, <1>3, <1>4, PTL DEF Spec, IsDurable, Store!StoreSpec
===============================================================================
