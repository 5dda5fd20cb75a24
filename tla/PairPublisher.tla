----------------------------- MODULE PairPublisher -----------------------------
(***************************************************************************)
(* AtomicPublisher.publish_pair, one file operation at a time, and the EA  *)
(* that reads the two files it writes.  An operation may fail (the EA      *)
(* holds the file open, the disk is full), also one of the rollback, and   *)
(* the process may die between two of them.                                *)
(*                                                                         *)
(* What a file holds is the number of the attempt that wrote it, 0 when    *)
(* the file is missing.  The staging files are seen by nobody: writing one *)
(* and renaming it is one step.                                            *)
(***************************************************************************)
EXTENDS Integers

CONSTANTS
    Pairs,          \* fingerprints of a seed text with a details text
    MaxTries,       \* bound on the attempts
    MaxFaults,      \* bound on the operations that fail
    MayDie          \* whether the process may die

ASSUME TryBound == MaxTries \in Nat
ASSUME FaultBound == MaxFaults \in Nat
ASSUME DeathSwitch == MayDie \in BOOLEAN

VARIABLES
    seed, details,          \* the two final files
    heldSeed, heldDetails,  \* the hold files of the running attempt
    strays,                 \* hold files no process knows of any more
    pc,                     \* the next file operation of publish_pair
    published,              \* _published_fingerprints of this process
    tries, pair,            \* attempts so far, and the pair of the last one
    trouble,                \* the operation the last attempt failed at
    outcome,                \* how the last attempt ended
    reader, seedRead        \* the EA: its next step, and the seed it has read

(* History variables.                                                      *)
VARIABLES
    before,         \* the two final files when the last attempt began
    spoiled,        \* a hold file resisted, or a rollback was cut short
    faults

files == <<seed, details, heldSeed, heldDetails, strays>>
ea == <<reader, seedRead>>
vars == <<files, pc, published, tries, pair, trouble, outcome, ea, before, spoiled,
faults>>

Content == 0..MaxTries
Trying == {"hold_seed", "hold_details", "put_details", "put_seed",
           "drop_seed", "drop_details", "log"}
Undoing == {"undo_parts", "undo_seed", "back_seed", "undo_details",
            "back_details", "undo_holds"}

TypeOK ==
    /\ seed \in Content /\ details \in Content
    /\ heldSeed \in Content /\ heldDetails \in Content
    /\ strays \subseteq {"seed", "details"} \X Content
    /\ pc \in {"idle"} \cup Trying \cup Undoing
    /\ published \subseteq Pairs
    /\ tries \in Content
    /\ pair \in Pairs \cup {"none"}
    /\ trouble \in {"none"} \cup Trying
    /\ outcome \in {"none", "running", "done", "failed", "died"}
    /\ reader \in {"seed", "details"} /\ seedRead \in Content
    /\ before \in [seed : Content, details : Content]
    /\ spoiled \in BOOLEAN
    /\ faults \in 0..MaxFaults

Init ==
    /\ seed = 0 /\ details = 0
    /\ heldSeed = 0 /\ heldDetails = 0
    /\ strays = {}
    /\ pc = "idle"
    /\ published = {}
    /\ tries = 0 /\ pair = "none"
    /\ trouble = "none" /\ outcome = "none"
    /\ reader = "seed" /\ seedRead = 0
    /\ before = [seed |-> 0, details |-> 0]
    /\ spoiled = FALSE
    /\ faults = 0

-------------------------------------------------------------------------------
(***************************************************************************)
(* publish_pair.  A fingerprint this process has published is skipped.     *)
(***************************************************************************)

\* A dry run logs PUBLISH_READY and writes nothing.
PublishDryRun(p) ==
    /\ pc = "idle"
    /\ p \notin published
    /\ published' = published \cup {p}
    /\ UNCHANGED <<files, pc, tries, pair, trouble, outcome, ea, before,
                   spoiled, faults>>

Publish(p) ==
    /\ pc = "idle"
    /\ p \notin published
    /\ tries < MaxTries
    /\ pc' = "hold_seed"
    /\ tries' = tries + 1
    /\ pair' = p
    /\ trouble' = "none" /\ outcome' = "running"
    /\ before' = [seed |-> seed, details |-> details]
    /\ UNCHANGED <<files, published, ea, spoiled, faults>>

\* The seed is written first, and the details after it.
SeedFirst == [hold_seed |-> "hold_details", hold_details |-> "put_seed",
              put_seed |-> "put_details", put_details |-> "drop_seed",
              drop_seed |-> "drop_details", drop_details |-> "log"]

\* The file operations of publish_pair in their order.
Following == [hold_seed |-> "hold_details", hold_details |-> "put_details",
              put_details |-> "put_seed", put_seed |-> "drop_seed",
              drop_seed |-> "drop_details", drop_details |-> "log"]

\* The old seed is copied to its hold file, and stays.
HoldSeedByCopy ==
    /\ pc = "hold_seed"
    /\ heldSeed' = seed
    /\ pc' = Following[pc]
    /\ UNCHANGED <<seed, details, heldDetails, strays>>

HoldSeed ==
    /\ pc = "hold_seed"
    /\ heldSeed' = seed
    /\ seed' = 0
    /\ pc' = Following[pc]
    /\ UNCHANGED <<details, heldDetails, strays>>

HoldDetails ==
    /\ pc = "hold_details"
    /\ heldDetails' = details
    /\ details' = 0
    /\ pc' = Following[pc]
    /\ UNCHANGED <<seed, heldSeed, strays>>

PutDetails ==
    /\ pc = "put_details"
    /\ details' = tries
    /\ pc' = Following[pc]
    /\ UNCHANGED <<seed, heldSeed, heldDetails, strays>>

DropSeed ==
    /\ pc = "drop_seed"
    /\ heldSeed' = 0
    /\ pc' = Following[pc]
    /\ UNCHANGED <<seed, details, heldDetails, strays>>

FileStep ==
    /\ HoldSeed \/ HoldDetails \/ PutDetails \/ DropSeed
    /\ UNCHANGED <<published, tries, pair, trouble, outcome, ea, before, spoiled,
                   faults>>

PutSeed ==
    /\ pc = "put_seed"
    /\ seed' = tries
    /\ pc' = Following[pc]
    /\ spoiled' = FALSE
    /\ UNCHANGED <<details, heldSeed, heldDetails, strays, published, tries, pair,
                   trouble, outcome, ea, before, faults>>

\* The last hold file goes, the fingerprint is kept, and the log is written.
DropDetails ==
    /\ pc = "drop_details"
    /\ heldDetails' = 0
    /\ published' = published \cup {pair}
    /\ pc' = Following[pc]
    /\ UNCHANGED <<seed, details, heldSeed, strays, tries, pair, trouble,
                   outcome, ea, before, spoiled, faults>>

Log ==
    /\ pc = "log"
    /\ pc' = "idle"
    /\ outcome' = "done"
    /\ UNCHANGED <<files, published, tries, pair, trouble, ea, before, spoiled,
                   faults>>

-------------------------------------------------------------------------------
(***************************************************************************)
(* The except clause.                                                      *)
(***************************************************************************)

\* seed_final_created
Created == trouble \in {"drop_seed", "drop_details", "log"}

\* The operation pc stands for touches a file, and so it may fail.
Touches ==
    CASE pc = "hold_seed"    -> seed # 0
      [] pc = "hold_details" -> details # 0
      [] pc = "drop_seed"    -> heldSeed # 0
      [] pc = "drop_details" -> heldDetails # 0
      [] pc = "undo_parts"   -> trouble \in {"put_details", "put_seed"}
      [] pc = "undo_seed"    -> ~Created /\ seed # 0
      [] pc = "back_seed"    -> ~Created /\ heldSeed # 0
      [] pc = "undo_details" -> details # 0 /\ (heldDetails # 0 \/ ~Created)
      [] pc = "back_details" -> heldDetails # 0
      [] pc = "undo_holds"   -> heldSeed # 0
      [] OTHER               -> pc # "idle"

TryFails ==
    /\ pc \in Trying
    /\ Touches
    /\ faults < MaxFaults
    /\ faults' = faults + 1
    /\ trouble' = pc
    /\ pc' = "undo_parts"
    /\ spoiled' = (spoiled \/ pc \in {"drop_seed", "drop_details"})
    /\ UNCHANGED <<files, published, tries, pair, outcome, ea, before>>

UndoParts ==
    /\ pc = "undo_parts"
    /\ pc' = "undo_seed"
    /\ UNCHANGED files

UndoSeed ==
    /\ pc = "undo_seed"
    /\ seed' = IF Created THEN seed ELSE 0
    /\ pc' = "back_seed"
    /\ UNCHANGED <<details, heldSeed, heldDetails, strays>>

\* The old seed stays in its hold file, which is deleted in the end.
BackSeedForgotten ==
    /\ pc = "back_seed"
    /\ pc' = "undo_details"
    /\ UNCHANGED files

BackSeed ==
    /\ pc = "back_seed"
    /\ IF ~Created /\ heldSeed # 0
       THEN seed' = heldSeed /\ heldSeed' = 0
       ELSE UNCHANGED <<seed, heldSeed>>
    /\ pc' = "undo_details"
    /\ UNCHANGED <<details, heldDetails, strays>>

\* New details without old ones to put in their place are left there.
UndoDetailsHeldOnly ==
    /\ pc = "undo_details"
    /\ details' = IF heldDetails # 0 THEN 0 ELSE details
    /\ pc' = "back_details"
    /\ UNCHANGED <<seed, heldSeed, heldDetails, strays>>

UndoDetails ==
    /\ pc = "undo_details"
    /\ details' = IF heldDetails # 0 \/ ~Created THEN 0 ELSE details
    /\ pc' = "back_details"
    /\ UNCHANGED <<seed, heldSeed, heldDetails, strays>>

BackDetails ==
    /\ pc = "back_details"
    /\ IF heldDetails # 0
       THEN details' = heldDetails /\ heldDetails' = 0
       ELSE UNCHANGED <<details, heldDetails>>
    /\ pc' = "undo_holds"
    /\ UNCHANGED <<seed, heldSeed, strays>>

UndoHolds ==
    /\ pc = "undo_holds"
    /\ heldSeed' = 0
    /\ pc' = "idle"
    /\ UNCHANGED <<seed, details, heldDetails, strays>>

Rollback ==
    /\ \/ UndoParts \/ UndoSeed \/ BackSeed
       \/ UndoDetails \/ BackDetails \/ UndoHolds
    /\ outcome' = IF pc' = "idle" THEN "failed" ELSE outcome
    /\ UNCHANGED <<published, tries, pair, trouble, ea, before, spoiled, faults>>

\* Whoever knew of the hold files is gone.
Forget ==
    /\ strays' = strays \cup {<<"seed", c>> : c \in {heldSeed} \ {0}}
                        \cup {<<"details", c>> : c \in {heldDetails} \ {0}}
    /\ heldSeed' = 0 /\ heldDetails' = 0
    /\ pc' = "idle"
    /\ UNCHANGED <<seed, details>>

UndoFails ==
    /\ pc \in Undoing
    /\ Touches
    /\ faults < MaxFaults
    /\ faults' = faults + 1
    /\ Forget
    /\ spoiled' = TRUE
    /\ outcome' = "failed"
    /\ UNCHANGED <<published, tries, pair, trouble, ea, before>>

\* The process dies and is started again.
Die ==
    /\ MayDie
    /\ Forget
    /\ published' = {}
    /\ outcome' = IF pc = "idle" THEN outcome ELSE "died"
    /\ spoiled' = (spoiled \/ pc \in Undoing)
    /\ UNCHANGED <<tries, pair, trouble, ea, before, faults>>

-------------------------------------------------------------------------------
(***************************************************************************)
(* CFastTrackAuditFileSource::TryRead: the seed, then the details.         *)
(***************************************************************************)

ReadSeed ==
    /\ reader = "seed"
    /\ seed # 0
    /\ seedRead' = seed
    /\ reader' = "details"
    /\ UNCHANGED <<files, pc, published, tries, pair, trouble, outcome, before,
                   spoiled, faults>>

\* The details are there or not; either way the read is over.
ReadDetails ==
    /\ reader = "details"
    /\ reader' = "seed"
    /\ seedRead' = 0
    /\ UNCHANGED <<files, pc, published, tries, pair, trouble, outcome, before,
                   spoiled, faults>>

Next ==
    \/ \E p \in Pairs : PublishDryRun(p) \/ Publish(p)
    \/ FileStep \/ PutSeed \/ DropDetails \/ Log
    \/ TryFails \/ Rollback \/ UndoFails \/ Die
    \/ ReadSeed \/ ReadDetails

Spec == Init /\ [][Next]_vars

-------------------------------------------------------------------------------
(***************************************************************************)
(* Properties.                                                             *)
(***************************************************************************)

OnDisk(kind, final, held, c) ==
    c \in {0, final, held} \/ <<kind, c>> \in strays

\* When the two final files are both there they are of one attempt, whatever
\* failed and wherever the process died: the exceptions are the instant in
\* which a rollback has the old seed back and the new details not yet gone,
\* and what a resisting hold file or an unfinished rollback leaves.
FinalsMatch ==
    seed # 0 /\ details # 0 /\ ~spoiled /\ pc # "undo_details"
        => seed = details

\* The details the EA may read after a seed are never older than the seed:
\* the files are written in the order opposite to the one they are read in.
DetailsNotOlder ==
    reader = "details" /\ details # 0 /\ ~spoiled => seedRead <= details

\* Until the new pair is complete both files of the old one are on the disk,
\* also when the process dies or the rollback fails.  An operation that fails
\* on a file of the old pair itself excepted: the rollback then deletes it.
OldPairSurvives ==
    trouble \notin {"hold_seed", "hold_details", "drop_seed", "drop_details"}
    /\ ~(seed = tries /\ details = tries)
        => /\ OnDisk("seed", seed, heldSeed, before.seed)
           /\ OnDisk("details", details, heldDetails, before.details)

\* An attempt that was reported as published has put its pair in place, and
\* one that failed while it wrote has put the old pair back, with no hold file
\* left in either case.
AttemptIsAllOrNothing ==
    /\ outcome = "done" =>
        seed = tries /\ details = tries /\ heldSeed = 0 /\ heldDetails = 0
    /\ outcome = "failed" /\ trouble \in {"put_details", "put_seed"} /\ ~spoiled =>
        /\ before = [seed |-> seed, details |-> details]
        /\ heldSeed = 0 /\ heldDetails = 0
===============================================================================
