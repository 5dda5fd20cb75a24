-------------------------- MODULE PairPublisherProofs --------------------------
(***************************************************************************)
(* Theorems about PairPublisher, for every set of pairs and every number   *)
(* of attempts and of operations that fail.                                *)
(***************************************************************************)
EXTENDS PairPublisher, TLAPS

-------------------------------------------------------------------------------
(***************************************************************************)
(* The inductive invariant: where the two files of the old pair and those  *)
(* of the new one are, for every operation that comes next.                *)
(***************************************************************************)

\* The operations before the new pair is complete.
Early == {"hold_seed", "hold_details", "put_details", "put_seed"}

\* What came of the attempt is said when it is over.
Running ==
    /\ (pc = "idle") = (outcome # "running")
    /\ pc # "idle" => pair \in Pairs
    /\ pc \in Trying => trouble = "none"
    /\ pc \in Undoing => trouble \in Trying
    /\ pc = "idle" => heldSeed = 0 /\ heldDetails = 0
    /\ pc = "undo_holds" => heldDetails = 0

\* No file is of an attempt to come, and the old pair is of an earlier one.
Bounds ==
    /\ seed <= tries /\ details <= tries
    /\ heldSeed <= tries /\ heldDetails <= tries
    /\ seedRead <= tries
    /\ pc # "idle" => before.seed < tries /\ before.details < tries

\* publish_pair puts the old seed aside, the old details aside, the new
\* details in place, the new seed in place, and drops what it put aside.
Placed ==
    /\ pc = "hold_seed" =>
        seed = before.seed /\ details = before.details /\ heldSeed = 0 /\ heldDetails = 0
    /\ pc = "hold_details" =>
        seed = 0 /\ details = before.details /\ heldSeed = before.seed /\ heldDetails = 0
    /\ pc \in {"put_details", "put_seed"} =>
        seed = 0 /\ heldSeed = before.seed /\ heldDetails = before.details
    /\ pc = "put_details" => details = 0
    /\ pc \in {"put_seed", "drop_seed", "drop_details", "log"} => details = tries
    /\ pc \in {"drop_seed", "drop_details", "log"} => seed = tries
    /\ pc \in {"drop_details", "log"} => heldSeed = 0
    /\ pc = "log" => heldDetails = 0

\* The rollback of an attempt that failed at an old file that is still final.
UndoingHold ==
    pc \in Undoing /\ trouble \in {"hold_seed", "hold_details"} =>
        /\ seed \in {0, before.seed} /\ heldSeed \in {0, before.seed}
        /\ details \in {0, before.details} /\ heldDetails = 0

\* The rollback of one that failed at a new file, with the old ones aside.
UndoingPut ==
    pc \in Undoing /\ trouble \in {"put_details", "put_seed"} =>
        /\ pc \in {"undo_parts", "undo_seed", "back_seed"} =>
            seed = 0 /\ heldSeed = before.seed
        /\ pc \in {"undo_details", "back_details", "undo_holds"} =>
            seed = before.seed /\ heldSeed = 0
        /\ pc # "undo_holds" => details \in {0, tries} /\ heldDetails = before.details
        /\ pc = "back_details" => details = 0
        /\ pc = "undo_holds" => details = before.details

\* The rollback of one that failed when both new files were there.
UndoingDrop ==
    pc \in Undoing =>
        /\ trouble \in {"drop_seed", "drop_details"} => spoiled
        /\ trouble = "log" =>
            seed = tries /\ details = tries /\ heldSeed = 0 /\ heldDetails = 0

\* The pair the attempt found.
OldPair ==
    (pc \in Early \/ (pc \in Undoing /\ trouble \in Early)) /\ ~spoiled =>
        /\ before.seed # 0 /\ before.details # 0 => before.seed = before.details
        /\ before.details # 0 /\ reader = "details" => seedRead <= before.details

\* Where everything is.
Places == Running /\ Bounds /\ Placed /\ UndoingHold /\ UndoingPut /\ UndoingDrop

\* What every step preserves.
Inv ==
    /\ TypeOK /\ Places /\ OldPair
    /\ FinalsMatch /\ DetailsNotOlder /\ OldPairSurvives /\ AttemptIsAllOrNothing

\* Type correctness is preserved by every step.
LEMMA TypeStep == TypeOK /\ Running /\ [Next]_vars => TypeOK'
<1> SUFFICES ASSUME TypeOK, Running, [Next]_vars PROVE TypeOK'
  OBVIOUS
<1> USE DEF TypeOK, Content, Trying, Undoing, files, ea, Running
<1>1. ASSUME NEW p \in Pairs, PublishDryRun(p) PROVE TypeOK'
  BY <1>1, TryBound, FaultBound DEF PublishDryRun
<1>2. ASSUME NEW p \in Pairs, Publish(p) PROVE TypeOK'
  BY <1>2, TryBound, FaultBound DEF Publish
<1>3. CASE FileStep /\ HoldSeed
  BY <1>3, TryBound, FaultBound DEF FileStep, Following, HoldSeed
<1>4. CASE FileStep /\ HoldDetails
  BY <1>4, TryBound, FaultBound DEF FileStep, Following, HoldDetails
<1>5. CASE FileStep /\ PutDetails
  BY <1>5, TryBound, FaultBound DEF FileStep, Following, PutDetails
<1>6. CASE FileStep /\ DropSeed
  BY <1>6, TryBound, FaultBound DEF FileStep, Following, DropSeed
<1>7. CASE PutSeed
  BY <1>7, TryBound, FaultBound DEF Following, PutSeed
<1>8. CASE DropDetails
  BY <1>8, TryBound, FaultBound DEF Following, DropDetails
<1>9. CASE Log
  BY <1>9, TryBound, FaultBound DEF Log
<1>10. CASE TryFails
  BY <1>10, TryBound, FaultBound DEF TryFails, Touches
<1>11. CASE Rollback /\ UndoParts
  BY <1>11, TryBound, FaultBound DEF Rollback, Created, UndoParts
<1>12. CASE Rollback /\ UndoSeed
  BY <1>12, TryBound, FaultBound DEF Rollback, Created, UndoSeed
<1>13. CASE Rollback /\ BackSeed
  BY <1>13, TryBound, FaultBound DEF Rollback, Created, BackSeed
<1>14. CASE Rollback /\ UndoDetails
  BY <1>14, TryBound, FaultBound DEF Rollback, Created, UndoDetails
<1>15. CASE Rollback /\ BackDetails
  BY <1>15, TryBound, FaultBound DEF Rollback, Created, BackDetails
<1>16. CASE Rollback /\ UndoHolds
  BY <1>16, TryBound, FaultBound DEF Rollback, Created, UndoHolds
<1>17. CASE UndoFails
  BY <1>17, TryBound, FaultBound DEF UndoFails, Forget
<1>18. CASE Die
  BY <1>18, TryBound, FaultBound DEF Die, Forget
<1>19. CASE ReadSeed
  BY <1>19, TryBound, FaultBound DEF ReadSeed
<1>20. CASE ReadDetails
  BY <1>20, TryBound, FaultBound DEF ReadDetails
<1>21. CASE UNCHANGED vars
  BY <1>21 DEF vars
<1> QED
  BY <1>1, <1>2, <1>3, <1>4, <1>5, <1>6, <1>7, <1>8, <1>9, <1>10, <1>11,
     <1>12, <1>13, <1>14, <1>15, <1>16, <1>17, <1>18, <1>19, <1>20, <1>21
  DEF Next, FileStep, Rollback

\* So is the place of every file.
LEMMA PlacesStep == TypeOK /\ Places /\ [Next]_vars => Places'
<1> SUFFICES ASSUME TypeOK, Places, [Next]_vars PROVE Places'
  OBVIOUS
<1> USE DEF TypeOK, Content, Trying, Undoing, files, ea, Places, Running,
       Bounds, Placed, UndoingHold, UndoingPut, UndoingDrop, Early
<1>1. ASSUME NEW p \in Pairs, PublishDryRun(p) PROVE Places'
  BY <1>1 DEF PublishDryRun
<1>2. ASSUME NEW p \in Pairs, Publish(p) PROVE Places'
  BY <1>2 DEF Publish
<1>3. CASE FileStep /\ HoldSeed
  BY <1>3 DEF FileStep, Following, HoldSeed
<1>4. CASE FileStep /\ HoldDetails
  BY <1>4 DEF FileStep, Following, HoldDetails
<1>5. CASE FileStep /\ PutDetails
  BY <1>5 DEF FileStep, Following, PutDetails
<1>6. CASE FileStep /\ DropSeed
  BY <1>6 DEF FileStep, Following, DropSeed
<1>7. CASE PutSeed
  BY <1>7 DEF Following, PutSeed
<1>8. CASE DropDetails
  BY <1>8 DEF Following, DropDetails
<1>9. CASE Log
  BY <1>9 DEF Log
<1>10. CASE TryFails
  BY <1>10 DEF TryFails, Touches
<1>11. CASE Rollback /\ UndoParts
  BY <1>11 DEF Rollback, Created, UndoParts
<1>12. CASE Rollback /\ UndoSeed
  BY <1>12 DEF Rollback, Created, UndoSeed
<1>13. CASE Rollback /\ BackSeed
  BY <1>13 DEF Rollback, Created, BackSeed
<1>14. CASE Rollback /\ UndoDetails
  BY <1>14 DEF Rollback, Created, UndoDetails
<1>15. CASE Rollback /\ BackDetails
  BY <1>15 DEF Rollback, Created, BackDetails
<1>16. CASE Rollback /\ UndoHolds
  BY <1>16 DEF Rollback, Created, UndoHolds
<1>17. CASE UndoFails
  BY <1>17 DEF UndoFails, Forget
<1>18. CASE Die
  BY <1>18 DEF Die, Forget
<1>19. CASE ReadSeed
  BY <1>19 DEF ReadSeed
<1>20. CASE ReadDetails
  BY <1>20 DEF ReadDetails
<1>21. CASE UNCHANGED vars
  BY <1>21 DEF vars
<1> QED
  BY <1>1, <1>2, <1>3, <1>4, <1>5, <1>6, <1>7, <1>8, <1>9, <1>10, <1>11,
     <1>12, <1>13, <1>14, <1>15, <1>16, <1>17, <1>18, <1>19, <1>20, <1>21
  DEF Next, FileStep, Rollback

\* The pair an attempt finds is one the finals agreed on.
LEMMA OldPairStep == Inv /\ [Next]_vars => OldPair'
<1> SUFFICES ASSUME Inv, [Next]_vars PROVE OldPair'
  OBVIOUS
<1> USE DEF Inv, OldPair, FinalsMatch, DetailsNotOlder, TypeOK, Content,
       Trying, Undoing, files, ea, Places, Running, Bounds, Placed,
       UndoingHold, UndoingPut, UndoingDrop, Early
<1>1. ASSUME NEW p \in Pairs, PublishDryRun(p) PROVE OldPair'
  BY <1>1 DEF PublishDryRun
<1>2. ASSUME NEW p \in Pairs, Publish(p) PROVE OldPair'
  BY <1>2 DEF Publish
<1>3. CASE FileStep /\ HoldSeed
  BY <1>3 DEF FileStep, Following, HoldSeed
<1>4. CASE FileStep /\ HoldDetails
  BY <1>4 DEF FileStep, Following, HoldDetails
<1>5. CASE FileStep /\ PutDetails
  BY <1>5 DEF FileStep, Following, PutDetails
<1>6. CASE FileStep /\ DropSeed
  BY <1>6 DEF FileStep, Following, DropSeed
<1>7. CASE PutSeed
  BY <1>7 DEF Following, PutSeed
<1>8. CASE DropDetails
  BY <1>8 DEF Following, DropDetails
<1>9. CASE Log
  BY <1>9 DEF Log
<1>10. CASE TryFails
  BY <1>10 DEF TryFails, Touches
<1>11. CASE Rollback /\ UndoParts
  BY <1>11 DEF Rollback, Created, UndoParts
<1>12. CASE Rollback /\ UndoSeed
  BY <1>12 DEF Rollback, Created, UndoSeed
<1>13. CASE Rollback /\ BackSeed
  BY <1>13 DEF Rollback, Created, BackSeed
<1>14. CASE Rollback /\ UndoDetails
  BY <1>14 DEF Rollback, Created, UndoDetails
<1>15. CASE Rollback /\ BackDetails
  BY <1>15 DEF Rollback, Created, BackDetails
<1>16. CASE Rollback /\ UndoHolds
  BY <1>16 DEF Rollback, Created, UndoHolds
<1>17. CASE UndoFails
  BY <1>17 DEF UndoFails, Forget
<1>18. CASE Die
  BY <1>18 DEF Die, Forget
<1>19. CASE ReadSeed
  BY <1>19 DEF ReadSeed
<1>20. CASE ReadDetails
  BY <1>20 DEF ReadDetails
<1>21. CASE UNCHANGED vars
  BY <1>21 DEF vars
<1> QED
  BY <1>1, <1>2, <1>3, <1>4, <1>5, <1>6, <1>7, <1>8, <1>9, <1>10, <1>11,
     <1>12, <1>13, <1>14, <1>15, <1>16, <1>17, <1>18, <1>19, <1>20, <1>21
  DEF Next, FileStep, Rollback

\* The final files match.
LEMMA FinalsStep == Inv /\ [Next]_vars => FinalsMatch'
<1> SUFFICES ASSUME Inv, [Next]_vars PROVE FinalsMatch'
  OBVIOUS
<1> USE DEF Inv, OldPair, FinalsMatch, TypeOK, Content, Trying, Undoing,
       files, ea, Places, Running, Bounds, Placed, UndoingHold, UndoingPut,
       UndoingDrop, Early
<1>1. ASSUME NEW p \in Pairs, PublishDryRun(p) PROVE FinalsMatch'
  BY <1>1 DEF PublishDryRun
<1>2. ASSUME NEW p \in Pairs, Publish(p) PROVE FinalsMatch'
  BY <1>2 DEF Publish
<1>3. CASE FileStep /\ HoldSeed
  BY <1>3 DEF FileStep, Following, HoldSeed
<1>4. CASE FileStep /\ HoldDetails
  BY <1>4 DEF FileStep, Following, HoldDetails
<1>5. CASE FileStep /\ PutDetails
  BY <1>5 DEF FileStep, Following, PutDetails
<1>6. CASE FileStep /\ DropSeed
  BY <1>6 DEF FileStep, Following, DropSeed
<1>7. CASE PutSeed
  BY <1>7 DEF Following, PutSeed
<1>8. CASE DropDetails
  BY <1>8 DEF Following, DropDetails
<1>9. CASE Log
  BY <1>9 DEF Log
<1>10. CASE TryFails
  BY <1>10 DEF TryFails, Touches
<1>11. CASE Rollback /\ UndoParts
  BY <1>11 DEF Rollback, Created, UndoParts
<1>12. CASE Rollback /\ UndoSeed
  BY <1>12 DEF Rollback, Created, UndoSeed
<1>13. CASE Rollback /\ BackSeed
  BY <1>13 DEF Rollback, Created, BackSeed
<1>14. CASE Rollback /\ UndoDetails
  BY <1>14 DEF Rollback, Created, UndoDetails
<1>15. CASE Rollback /\ BackDetails
  BY <1>15 DEF Rollback, Created, BackDetails
<1>16. CASE Rollback /\ UndoHolds
  BY <1>16 DEF Rollback, Created, UndoHolds
<1>17. CASE UndoFails
  BY <1>17 DEF UndoFails, Forget
<1>18. CASE Die
  BY <1>18 DEF Die, Forget
<1>19. CASE ReadSeed
  BY <1>19 DEF ReadSeed
<1>20. CASE ReadDetails
  BY <1>20 DEF ReadDetails
<1>21. CASE UNCHANGED vars
  BY <1>21 DEF vars
<1> QED
  BY <1>1, <1>2, <1>3, <1>4, <1>5, <1>6, <1>7, <1>8, <1>9, <1>10, <1>11,
     <1>12, <1>13, <1>14, <1>15, <1>16, <1>17, <1>18, <1>19, <1>20, <1>21
  DEF Next, FileStep, Rollback

\* What the EA reads second is not the older.
LEMMA ReaderStep == Inv /\ [Next]_vars => DetailsNotOlder'
<1> SUFFICES ASSUME Inv, [Next]_vars PROVE DetailsNotOlder'
  OBVIOUS
<1> USE DEF Inv, OldPair, FinalsMatch, DetailsNotOlder, TypeOK, Content,
       Trying, Undoing, files, ea, Places, Running, Bounds, Placed,
       UndoingHold, UndoingPut, UndoingDrop, Early
<1>1. ASSUME NEW p \in Pairs, PublishDryRun(p) PROVE DetailsNotOlder'
  BY <1>1 DEF PublishDryRun
<1>2. ASSUME NEW p \in Pairs, Publish(p) PROVE DetailsNotOlder'
  BY <1>2 DEF Publish
<1>3. CASE FileStep /\ HoldSeed
  BY <1>3 DEF FileStep, Following, HoldSeed
<1>4. CASE FileStep /\ HoldDetails
  BY <1>4 DEF FileStep, Following, HoldDetails
<1>5. CASE FileStep /\ PutDetails
  BY <1>5 DEF FileStep, Following, PutDetails
<1>6. CASE FileStep /\ DropSeed
  BY <1>6 DEF FileStep, Following, DropSeed
<1>7. CASE PutSeed
  BY <1>7 DEF Following, PutSeed
<1>8. CASE DropDetails
  BY <1>8 DEF Following, DropDetails
<1>9. CASE Log
  BY <1>9 DEF Log
<1>10. CASE TryFails
  BY <1>10 DEF TryFails, Touches
<1>11. CASE Rollback /\ UndoParts
  BY <1>11 DEF Rollback, Created, UndoParts
<1>12. CASE Rollback /\ UndoSeed
  BY <1>12 DEF Rollback, Created, UndoSeed
<1>13. CASE Rollback /\ BackSeed
  BY <1>13 DEF Rollback, Created, BackSeed
<1>14. CASE Rollback /\ UndoDetails
  BY <1>14 DEF Rollback, Created, UndoDetails
<1>15. CASE Rollback /\ BackDetails
  BY <1>15 DEF Rollback, Created, BackDetails
<1>16. CASE Rollback /\ UndoHolds
  BY <1>16 DEF Rollback, Created, UndoHolds
<1>17. CASE UndoFails
  BY <1>17 DEF UndoFails, Forget
<1>18. CASE Die
  BY <1>18 DEF Die, Forget
<1>19. CASE ReadSeed
  BY <1>19 DEF ReadSeed
<1>20. CASE ReadDetails
  BY <1>20 DEF ReadDetails
<1>21. CASE UNCHANGED vars
  BY <1>21 DEF vars
<1> QED
  BY <1>1, <1>2, <1>3, <1>4, <1>5, <1>6, <1>7, <1>8, <1>9, <1>10, <1>11,
     <1>12, <1>13, <1>14, <1>15, <1>16, <1>17, <1>18, <1>19, <1>20, <1>21
  DEF Next, FileStep, Rollback

\* The old pair is on the disk.
LEMMA SurvivesStep == Inv /\ [Next]_vars => OldPairSurvives'
<1> SUFFICES ASSUME Inv, [Next]_vars PROVE OldPairSurvives'
  OBVIOUS
<1> USE DEF Inv, OldPairSurvives, OnDisk, TypeOK, Content, Trying, Undoing,
       files, ea, Places, Running, Bounds, Placed, UndoingHold, UndoingPut,
       UndoingDrop, Early
<1>1. ASSUME NEW p \in Pairs, PublishDryRun(p) PROVE OldPairSurvives'
  BY <1>1 DEF PublishDryRun
<1>2. ASSUME NEW p \in Pairs, Publish(p) PROVE OldPairSurvives'
  BY <1>2 DEF Publish
<1>3. CASE FileStep /\ HoldSeed
  BY <1>3 DEF FileStep, Following, HoldSeed
<1>4. CASE FileStep /\ HoldDetails
  BY <1>4 DEF FileStep, Following, HoldDetails
<1>5. CASE FileStep /\ PutDetails
  BY <1>5 DEF FileStep, Following, PutDetails
<1>6. CASE FileStep /\ DropSeed
  BY <1>6 DEF FileStep, Following, DropSeed
<1>7. CASE PutSeed
  BY <1>7 DEF Following, PutSeed
<1>8. CASE DropDetails
  BY <1>8 DEF Following, DropDetails
<1>9. CASE Log
  BY <1>9 DEF Log
<1>10. CASE TryFails
  BY <1>10 DEF TryFails, Touches
<1>11. CASE Rollback /\ UndoParts
  BY <1>11 DEF Rollback, Created, UndoParts
<1>12. CASE Rollback /\ UndoSeed
  BY <1>12 DEF Rollback, Created, UndoSeed
<1>13. CASE Rollback /\ BackSeed
  BY <1>13 DEF Rollback, Created, BackSeed
<1>14. CASE Rollback /\ UndoDetails
  BY <1>14 DEF Rollback, Created, UndoDetails
<1>15. CASE Rollback /\ BackDetails
  BY <1>15 DEF Rollback, Created, BackDetails
<1>16. CASE Rollback /\ UndoHolds
  BY <1>16 DEF Rollback, Created, UndoHolds
<1>17. CASE UndoFails
  BY <1>17 DEF UndoFails, Forget
<1>18. CASE Die
  BY <1>18 DEF Die, Forget
<1>19. CASE ReadSeed
  BY <1>19 DEF ReadSeed
<1>20. CASE ReadDetails
  BY <1>20 DEF ReadDetails
<1>21. CASE UNCHANGED vars
  BY <1>21 DEF vars
<1> QED
  BY <1>1, <1>2, <1>3, <1>4, <1>5, <1>6, <1>7, <1>8, <1>9, <1>10, <1>11,
     <1>12, <1>13, <1>14, <1>15, <1>16, <1>17, <1>18, <1>19, <1>20, <1>21
  DEF Next, FileStep, Rollback

\* An attempt ends with one pair or the other.
LEMMA OutcomeStep == Inv /\ [Next]_vars => AttemptIsAllOrNothing'
<1> SUFFICES ASSUME Inv, [Next]_vars PROVE AttemptIsAllOrNothing'
  OBVIOUS
<1> USE DEF Inv, AttemptIsAllOrNothing, TypeOK, Content, Trying, Undoing,
       files, ea, Places, Running, Bounds, Placed, UndoingHold, UndoingPut,
       UndoingDrop, Early
<1>1. ASSUME NEW p \in Pairs, PublishDryRun(p) PROVE AttemptIsAllOrNothing'
  BY <1>1 DEF PublishDryRun
<1>2. ASSUME NEW p \in Pairs, Publish(p) PROVE AttemptIsAllOrNothing'
  BY <1>2 DEF Publish
<1>3. CASE FileStep /\ HoldSeed
  BY <1>3 DEF FileStep, Following, HoldSeed
<1>4. CASE FileStep /\ HoldDetails
  BY <1>4 DEF FileStep, Following, HoldDetails
<1>5. CASE FileStep /\ PutDetails
  BY <1>5 DEF FileStep, Following, PutDetails
<1>6. CASE FileStep /\ DropSeed
  BY <1>6 DEF FileStep, Following, DropSeed
<1>7. CASE PutSeed
  BY <1>7 DEF Following, PutSeed
<1>8. CASE DropDetails
  BY <1>8 DEF Following, DropDetails
<1>9. CASE Log
  BY <1>9 DEF Log
<1>10. CASE TryFails
  BY <1>10 DEF TryFails, Touches
<1>11. CASE Rollback /\ UndoParts
  BY <1>11 DEF Rollback, Created, UndoParts
<1>12. CASE Rollback /\ UndoSeed
  BY <1>12 DEF Rollback, Created, UndoSeed
<1>13. CASE Rollback /\ BackSeed
  BY <1>13 DEF Rollback, Created, BackSeed
<1>14. CASE Rollback /\ UndoDetails
  BY <1>14 DEF Rollback, Created, UndoDetails
<1>15. CASE Rollback /\ BackDetails
  BY <1>15 DEF Rollback, Created, BackDetails
<1>16. CASE Rollback /\ UndoHolds
  BY <1>16 DEF Rollback, Created, UndoHolds
<1>17. CASE UndoFails
  BY <1>17 DEF UndoFails, Forget
<1>18. CASE Die
  BY <1>18 DEF Die, Forget
<1>19. CASE ReadSeed
  BY <1>19 DEF ReadSeed
<1>20. CASE ReadDetails
  BY <1>20 DEF ReadDetails
<1>21. CASE UNCHANGED vars
  BY <1>21 DEF vars
<1> QED
  BY <1>1, <1>2, <1>3, <1>4, <1>5, <1>6, <1>7, <1>8, <1>9, <1>10, <1>11,
     <1>12, <1>13, <1>14, <1>15, <1>16, <1>17, <1>18, <1>19, <1>20, <1>21
  DEF Next, FileStep, Rollback

\* The whole invariant holds at the start and at every step.
LEMMA PublisherInv == Spec => []Inv
<1>1. Init => Inv
  <2> SUFFICES ASSUME Init PROVE Inv
    OBVIOUS
  <2>1. TypeOK
    <3>1. 0 \in Content /\ 0 \in 0..MaxFaults
      BY TryBound, FaultBound DEF Content
    <3>2. before \in [seed : Content, details : Content]
      BY <3>1 DEF Init
    <3> QED
      BY <3>1, <3>2 DEF Init, TypeOK
  <2>2. Places
    BY DEF Init, Places, Running, Bounds, Placed, UndoingHold, UndoingPut,
           UndoingDrop, Trying, Undoing
  <2>3. OldPair /\ FinalsMatch /\ DetailsNotOlder
    BY DEF Init, OldPair, Early, Undoing, FinalsMatch, DetailsNotOlder
  <2>4. OldPairSurvives
    BY DEF Init, OldPairSurvives
  <2>5. AttemptIsAllOrNothing
    BY DEF Init, AttemptIsAllOrNothing
  <2> QED
    BY <2>1, <2>2, <2>3, <2>4, <2>5 DEF Inv
<1>2. Inv /\ [Next]_vars => Inv'
  BY TypeStep, PlacesStep, OldPairStep, FinalsStep, ReaderStep, SurvivesStep,
     OutcomeStep DEF Inv, Places
<1> QED
  BY <1>1, <1>2, PTL DEF Spec

-------------------------------------------------------------------------------
\* publish_pair, the next process and the EA keep to the types of their files.
THEOREM PublisherTypeOK == Spec => []TypeOK
BY PublisherInv, PTL DEF Inv

\* Whatever operation failed and wherever the process died, two final files
\* are of one attempt, with the exceptions FinalsMatch names.
THEOREM PublisherFinalsMatch == Spec => []FinalsMatch
BY PublisherInv, PTL DEF Inv

\* The EA never reads details older than the seed it read before them.
THEOREM PublisherDetailsNotOlder == Spec => []DetailsNotOlder
BY PublisherInv, PTL DEF Inv

\* The old pair is on the disk until the new one is complete.
THEOREM PublisherOldPairSurvives == Spec => []OldPairSurvives
BY PublisherInv, PTL DEF Inv

\* A reported attempt has put its pair in place, and one that failed at a new
\* file has put the old pair back.
THEOREM PublisherAllOrNothing == Spec => []AttemptIsAllOrNothing
BY PublisherInv, PTL DEF Inv
===============================================================================
