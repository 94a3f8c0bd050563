-------------------------- MODULE ProjectProofs --------------------------
(***************************************************************************)
(* A project and its transactions, for any number of changes and sessions. *)
(*                                                                         *)
(* ProjectArchive: whichever steps fail, the index of an open project is   *)
(* that of its tables, a project is reopened as it was closed, an accepted *)
(* artefact was made from the project as it is, and what was persisted is  *)
(* lost only where an error tears the segment metadata or removes half a   *)
(* directory.                                                              *)
(*                                                                         *)
(* ChangeStaging: whatever a transaction does and the limit on its         *)
(* records is, the index and the counts describe the records, each         *)
(* function is told of by its net change, and a change of the inputs of    *)
(* lifting is known even after the detail was given up.                    *)
(***************************************************************************)
EXTENDS ProjectArchive, ChangeStaging, FiniteSetTheorems, TLAPS

-----------------------------------------------------------------------------
(* ProjectArchive. *)

\* A session works in a complete directory; while one is extracted there is none.
Typed ==
  /\ ArchiveTypeOK
  /\ pc \notin {"closed", "extract"} => unpacked \in Content
  /\ pc = "extract" => unpacked = Partial

\* A marker that names the stored revision vouches for the index.
Vouched(f) == IsContent(f) /\ f.marker = LoadedRevisions(f).rev => f.index = f.tables

\* The rebuild runs while the marker does not name the stored revision.
IndexInv ==
  /\ Vouched(packed) /\ Vouched(unpacked)
  /\ pc \in {"rebuild", "refill", "mark"} =>
       memory.revisions.rev = LoadedRevisions(unpacked).rev
         /\ unpacked.marker # memory.revisions.rev
  /\ pc \in {"mark", "open", "persist_marker", "persist_segments", "persist_revision"} =>
       unpacked.index = unpacked.tables

\* A content that is what the last complete persist wrote.
Same(f) ==
  /\ f.tables = kept.tables /\ f.segments = kept.segments
  /\ f.revisions = kept.revisions /\ f.artefact = kept.artefact

\* As long as nothing is committed, the directory, and the archive where there is no
\* directory, are what was persisted, and so is the project in memory.
RestoreInv ==
  /\ pc = "persist_revision" => unpacked.segments = memory.segments
  /\ kept # None /\ ~changed =>
       /\ unpacked \in Content => Same(unpacked)
       /\ unpacked = None \/ pc \in {"extract", "remove"} => packed \in Content /\ Same(packed)
       /\ pc \notin {"closed", "extract", "load"} => memory.segments = kept.segments
       /\ pc \notin {"closed", "extract", "load", "tables", "drop", "pack", "remove"} =>
            memory.revisions = kept.revisions

\* An artefact whose revision is the semantic one was made from these inputs.
Made(f, revisions, segs) ==
  /\ revisions.sem <= revisions.rev
  /\ f.artefact # None =>
       /\ f.artefact.rev <= revisions.sem
       /\ f.artefact.rev = revisions.sem =>
            f.artefact.tables = f.tables /\ f.artefact.segments = segs

\* At rest with the revisions and segments that are stored, in a session with those in
\* memory.
ArtefactInv ==
  clean =>
    /\ IsContent(packed) => Made(packed, LoadedRevisions(packed), packed.segments)
    /\ pc \in {"load", "tables", "drop", "pack", "remove"} =>
         Made(unpacked, LoadedRevisions(unpacked), unpacked.segments)
    /\ pc = "tables" => memory.segments = unpacked.segments
    /\ pc \in {"rebuild", "refill", "mark"} =>
         /\ Made(unpacked, LoadedRevisions(unpacked), unpacked.segments)
         /\ memory.segments = unpacked.segments
         /\ memory.revisions = LoadedRevisions(unpacked)
    /\ pc \in {"open", "persist_marker", "persist_segments", "persist_revision"} =>
         Made(unpacked, memory.revisions, memory.segments)
    /\ pc = "persist_revision" => memory.segments = unpacked.segments

\* A content at least as new as what the last complete persist wrote.
Holds(f) ==
  /\ f \in Content
  /\ f.tables >= kept.tables
  /\ f.segments # Torn /\ f.segments >= kept.segments

\* No content is from the future.
Dated(f) ==
  f \in Content => f.tables <= clock /\ (f.segments # Torn => f.segments <= clock)

\* Both copies hold it while a session runs: the archive until it is written again,
\* the directory from then on, and one of them at rest; nothing is said once an error has
\* damaged the directory.
CopyInv ==
  /\ Dated(packed) /\ Dated(unpacked)
  /\ memory.segments <= clock
  /\ pc = "persist_revision" => unpacked.segments = memory.segments
  /\ ~damaged /\ pc \notin {"closed", "extract", "load"} =>
       unpacked.segments # Torn /\ unpacked.segments <= memory.segments
  /\ ~damaged /\ kept # None =>
       /\ Holds(packed) \/ Holds(unpacked)
       /\ pc \notin {"closed", "drop", "pack"} => Holds(packed)
       /\ pc \notin {"closed", "extract"} => Holds(unpacked)

\* Types are kept, and with them that a session works in a complete directory.
LEMMA TypedKept ==
  ASSUME Typed, [Next]_vars
  PROVE  Typed'
<1>1. CASE Create
  BY <1>1, ArchiveConstants DEF Create, Typed, ArchiveTypeOK, Content, Version,
     Imported, history
<1>2. CASE Unpack
  <2>1. changed' \in BOOLEAN /\ clean' \in BOOLEAN /\ loadable' \in BOOLEAN
      /\ damaged' \in BOOLEAN
    BY <1>2, Zenon DEF Unpack, Typed, ArchiveTypeOK, history
  <2> QED BY <1>2, <2>1 DEF Unpack, Typed, ArchiveTypeOK, history
<1>3. CASE Extract
  BY <1>3 DEF Extract, Typed, ArchiveTypeOK, IsContent, history
<1>4. CASE LoadSegments
  BY <1>4 DEF LoadSegments, Typed, ArchiveTypeOK, Content, files, history
<1>5. CASE LoadTables
  BY <1>5 DEF LoadTables, Typed, ArchiveTypeOK, Content, LoadedRevisions, NewProject,
     Revisions, files, history
<1>6. CASE RebuildClear
  <2>1. unpacked \in Content
    BY <1>6 DEF RebuildClear, Typed
  <2>2. unpacked' \in Content
    BY <1>6, <2>1 DEF RebuildClear, Content
  <2> QED BY <1>6, <2>2 DEF RebuildClear, Typed, ArchiveTypeOK, history
<1>7. CASE RebuildFlush
  <2>1. unpacked \in Content
    BY <1>7 DEF RebuildFlush, Typed
  <2>2. 0 \in Version
    BY ArchiveConstants DEF Version
  <2>3. unpacked' \in Content
    BY <1>7, <2>1, <2>2 DEF RebuildFlush, Content
  <2> QED BY <1>7, <2>3 DEF RebuildFlush, Typed, ArchiveTypeOK, history
<1>8. CASE RebuildMark
  BY <1>8 DEF RebuildMark, Typed, ArchiveTypeOK, Content, Revisions, history
<1>9. CASE RebuildFails
  BY <1>9 DEF RebuildFails, Typed, ArchiveTypeOK, files, history
<1>10. CASE CommitTables
  <2>0. clock + 1 \in Version /\ unpacked \in Content
    BY <1>10, ArchiveConstants DEF CommitTables, Typed, ArchiveTypeOK, Version
  <2>1. unpacked' \in Content
    <3>1. IndexedAnew(unpacked.index) \in Version \cup {Broken}
            /\ IndexedAnew(unpacked.derived) \in Version \cup {Broken}
      BY <2>0 DEF IndexedAnew
    <3> QED BY <1>10, <2>0, <3>1 DEF CommitTables, Content
  <2>2. memory' \in [revisions : Revisions, segments : Version] /\ clock' \in Version
    BY <1>10, <2>0 DEF CommitTables, Typed, ArchiveTypeOK, Advanced, Revisions
  <2>3. changed' \in BOOLEAN /\ clean' \in BOOLEAN /\ loadable' \in BOOLEAN
      /\ damaged' \in BOOLEAN
    BY <1>10, Zenon DEF CommitTables, Typed, ArchiveTypeOK
  <2> QED BY <1>10, <2>1, <2>2, <2>3 DEF CommitTables, Typed, ArchiveTypeOK
<1>11. CASE CommitSegments
  BY <1>11, ArchiveConstants DEF CommitSegments, Typed, ArchiveTypeOK, Revisions,
     Version, Advanced, files
<1>12. CASE CommitLifted
  BY <1>12 DEF CommitLifted, Typed, ArchiveTypeOK, Content, Revisions, Artefact,
     Advanced
<1>13. CASE PersistTables
  <2>1. unpacked' \in Content
    <3>1. unpacked \in Content
      BY <1>13 DEF PersistTables, Typed
    <3> QED BY <1>13, <3>1 DEF PersistTables, Content
  <2> QED BY <1>13, <2>1 DEF PersistTables, Typed, ArchiveTypeOK, history
<1>14. CASE PersistMarker
  BY <1>14 DEF PersistMarker, Typed, ArchiveTypeOK, Content, Revisions, history
<1>15. CASE PersistSegments
  BY <1>15 DEF PersistSegments, Typed, ArchiveTypeOK, Content, history
<1>16. CASE PersistRevision
  <2>1. unpacked \in Content /\ memory.revisions \in Revisions
    BY <1>16 DEF PersistRevision, Typed, ArchiveTypeOK
  <2>2. unpacked' \in Content
    BY <1>16, <2>1 DEF PersistRevision, StoredRevisions, Content
  <2>3. kept' \in [tables : Version, segments : Version, revisions : Revisions,
                   artefact : Artefact \cup {None}]
    BY <1>16, <2>1 DEF PersistRevision, Typed, ArchiveTypeOK, Content
  <2> QED BY <1>16, <2>2, <2>3 DEF PersistRevision, Typed, ArchiveTypeOK
<1>17. CASE PersistFails
  <2>1. unpacked' \in Content
    BY <1>17 DEF PersistFails, Typed, Content
  <2>2. changed' \in BOOLEAN /\ clean' \in BOOLEAN /\ loadable' \in BOOLEAN
      /\ damaged' \in BOOLEAN
    BY <1>17, Zenon DEF PersistFails, Typed, ArchiveTypeOK
  <2> QED BY <1>17, <2>1, <2>2 DEF PersistFails, Typed, ArchiveTypeOK
<1>18. CASE PackStart
  BY <1>18 DEF PackStart, Typed, ArchiveTypeOK, history
<1>19. CASE PackDone
  BY <1>19 DEF PackDone, Typed, ArchiveTypeOK, history
<1>20. CASE RemoveUnpacked
  BY <1>20 DEF RemoveUnpacked, Typed, ArchiveTypeOK, history
<1>21. CASE PackFails
  BY <1>21 DEF PackFails, Typed, ArchiveTypeOK
<1>22. CASE Crash
  BY <1>22 DEF Crash, Typed, ArchiveTypeOK, Content, history
<1>23. CASE UNCHANGED vars
  BY <1>23 DEF vars, Typed, ArchiveTypeOK
<1> QED BY <1>1, <1>2, <1>3, <1>4, <1>5, <1>6, <1>7, <1>8, <1>9, <1>10, <1>11, <1>12,
          <1>13, <1>14, <1>15, <1>16, <1>17, <1>18, <1>19, <1>20, <1>21, <1>22, <1>23
          DEF Next

\* The marker is set only once the index is that of the tables, and a commit writes both
\* in one batch.
LEMMA IndexInvKept ==
  ASSUME Typed, Typed', IndexInv, [Next]_vars
  PROVE  IndexInv'
<1>1. CASE Create
  BY <1>1, ArchiveConstants DEF Create, IndexInv, Vouched, LoadedRevisions, NewProject,
     Imported
<1>2. CASE Unpack
  BY <1>2 DEF Unpack, IndexInv, Vouched, IsContent
<1>3. CASE Extract
  BY <1>3 DEF Extract, IndexInv, Vouched, IsContent
<1>4. CASE LoadSegments
  BY <1>4 DEF LoadSegments, IndexInv, files
<1>5. CASE LoadTables
  BY <1>5, ArchiveConstants DEF LoadTables, Typed, IndexInv, Vouched, ArchiveTypeOK,
     IsContent, files
<1>6. CASE RebuildClear
  BY <1>6 DEF RebuildClear, IndexInv, Vouched, LoadedRevisions
<1>7. CASE RebuildFlush
  BY <1>7 DEF RebuildFlush, IndexInv, Vouched, LoadedRevisions
<1>8. CASE RebuildMark
  BY <1>8 DEF RebuildMark, IndexInv, Vouched
<1>9. CASE RebuildFails
  BY <1>9 DEF RebuildFails, IndexInv, files
<1>10. CASE CommitTables
  BY <1>10 DEF CommitTables, IndexInv, Vouched, IndexedAnew
<1>11. CASE CommitSegments
  BY <1>11 DEF CommitSegments, IndexInv, files
<1>12. CASE CommitLifted
  BY <1>12 DEF CommitLifted, IndexInv, Vouched
<1>13. CASE PersistTables
  BY <1>13 DEF PersistTables, IndexInv, Vouched
<1>14. CASE PersistMarker
  BY <1>14 DEF PersistMarker, IndexInv, Vouched
<1>15. CASE PersistSegments
  BY <1>15 DEF PersistSegments, IndexInv, Vouched
<1>16. CASE PersistRevision
  BY <1>16 DEF PersistRevision, IndexInv, Vouched
<1>17. CASE PersistFails
  BY <1>17 DEF PersistFails, Typed, IndexInv, Vouched, Content
<1>18. CASE PackStart
  BY <1>18 DEF PackStart, IndexInv, Vouched, IsContent
<1>19. CASE PackDone
  BY <1>19 DEF PackDone, IndexInv
<1>20. CASE RemoveUnpacked
  BY <1>20 DEF RemoveUnpacked, IndexInv, Vouched, IsContent
<1>21. CASE PackFails
  BY <1>21 DEF PackFails, IndexInv, Vouched, IsContent
<1>22. CASE Crash
  BY <1>22 DEF Crash, Typed, IndexInv, Vouched, Content, IsContent
<1>23. CASE UNCHANGED vars
  BY <1>23 DEF vars, IndexInv
<1> QED BY <1>1, <1>2, <1>3, <1>4, <1>5, <1>6, <1>7, <1>8, <1>9, <1>10, <1>11, <1>12,
          <1>13, <1>14, <1>15, <1>16, <1>17, <1>18, <1>19, <1>20, <1>21, <1>22, <1>23
          DEF Next

\* A complete persist leaves the project in the directory; from there it is packed,
\* unpacked and loaded without a change.
LEMMA RestoreInvKept ==
  ASSUME Typed, Typed', RestoreInv, [Next]_vars
  PROVE  RestoreInv'
<1>1. CASE Create
  BY <1>1, ArchiveConstants DEF Create, RestoreInv, history
<1>2. CASE Unpack
  BY <1>2, ArchiveConstants DEF Unpack, RestoreInv, Same, history
<1>3. CASE Extract
  BY <1>3, ArchiveConstants DEF Extract, RestoreInv, Same, history
<1>4. CASE LoadSegments
  BY <1>4 DEF LoadSegments, Typed, RestoreInv, Same, ArchiveTypeOK, files, history
<1>5. CASE LoadTables
  BY <1>5, ArchiveConstants DEF LoadTables, Typed, RestoreInv, Same, ArchiveTypeOK,
     LoadedRevisions, files, history
<1>6. CASE RebuildClear
  BY <1>6, ArchiveConstants DEF RebuildClear, Typed, RestoreInv, Same, history
<1>7. CASE RebuildFlush
  BY <1>7, ArchiveConstants DEF RebuildFlush, Typed, RestoreInv, Same, history
<1>8. CASE RebuildMark
  BY <1>8, ArchiveConstants DEF RebuildMark, Typed, RestoreInv, Same, history
<1>9. CASE RebuildFails
  BY <1>9 DEF RebuildFails, RestoreInv, Same, files, history
<1>10. CASE CommitTables
  BY <1>10 DEF CommitTables, RestoreInv
<1>11. CASE CommitSegments
  BY <1>11 DEF CommitSegments, RestoreInv
<1>12. CASE CommitLifted
  BY <1>12 DEF CommitLifted, RestoreInv
<1>13. CASE PersistTables
  <2>1. unpacked \in Content /\ unpacked' \in Content /\ unpacked' # None
    BY <1>13, ArchiveConstants DEF PersistTables, Typed
  <2>2. Same(unpacked) => Same(unpacked')
    BY <1>13, <2>1 DEF PersistTables, Same, Content, history
  <2> QED BY <1>13, <2>1, <2>2 DEF PersistTables, RestoreInv, Same, history
<1>14. CASE PersistMarker
  BY <1>14, ArchiveConstants DEF PersistMarker, Typed, RestoreInv, Same, history
<1>15. CASE PersistSegments
  BY <1>15 DEF PersistSegments, Typed, RestoreInv, Same, Content, history
<1>16. CASE PersistRevision
  BY <1>16, ArchiveConstants DEF PersistRevision, Typed, RestoreInv, Same,
     StoredRevisions
<1>17. CASE PersistFails
  BY <1>17 DEF PersistFails, Typed, RestoreInv, Same
<1>18. CASE PackStart
  BY <1>18, ArchiveConstants DEF PackStart, Typed, RestoreInv, Same, history
<1>19. CASE PackDone
  BY <1>19 DEF PackDone, Typed, RestoreInv, Same, history
<1>20. CASE RemoveUnpacked
  BY <1>20, ArchiveConstants DEF RemoveUnpacked, RestoreInv, Same, history
<1>21. CASE PackFails
  BY <1>21, ArchiveConstants DEF PackFails, Typed, RestoreInv, Same, history
<1>22. CASE Crash
  BY <1>22, ArchiveConstants DEF Crash, Typed, RestoreInv, Same, history
<1>23. CASE UNCHANGED vars
  BY <1>23 DEF vars, RestoreInv, Same
<1> QED BY <1>1, <1>2, <1>3, <1>4, <1>5, <1>6, <1>7, <1>8, <1>9, <1>10, <1>11, <1>12,
          <1>13, <1>14, <1>15, <1>16, <1>17, <1>18, <1>19, <1>20, <1>21, <1>22, <1>23
          DEF Next

\* A commit that changes an input of the artefact advances the semantic revision past it.
LEMMA ArtefactInvKept ==
  ASSUME Typed, Typed', ArtefactInv, [Next]_vars
  PROVE  ArtefactInv'
<1>1. CASE Create
  BY <1>1 DEF Create, ArtefactInv, Made, IsContent, LoadedRevisions, NewProject,
     Imported
<1>2. CASE Unpack
  BY <1>2 DEF Unpack, ArtefactInv, history
<1>3. CASE Extract
  BY <1>3 DEF Extract, ArtefactInv, history
<1>4. CASE LoadSegments
  BY <1>4 DEF LoadSegments, Typed, ArtefactInv, ArchiveTypeOK, files, history
<1>5. CASE LoadTables
  BY <1>5 DEF LoadTables, Typed, ArtefactInv, ArchiveTypeOK, files, history
<1>6. CASE RebuildClear
  BY <1>6 DEF RebuildClear, ArtefactInv, Made, LoadedRevisions, history
<1>7. CASE RebuildFlush
  BY <1>7 DEF RebuildFlush, ArtefactInv, Made, LoadedRevisions, history
<1>8. CASE RebuildMark
  BY <1>8 DEF RebuildMark, ArtefactInv, Made, history
<1>9. CASE RebuildFails
  BY <1>9 DEF RebuildFails, ArtefactInv, files, history
<1>10. CASE CommitTables
  BY <1>10 DEF CommitTables, Typed, ArtefactInv, Made, ArchiveTypeOK, Content,
     Revisions, Artefact, Advanced
<1>11. CASE CommitSegments
  BY <1>11 DEF CommitSegments, Typed, ArtefactInv, Made, ArchiveTypeOK, Content,
     Revisions, Artefact, Advanced, files
<1>12. CASE CommitLifted
  BY <1>12 DEF CommitLifted, Typed, ArtefactInv, Made, ArchiveTypeOK, Revisions,
     Advanced
<1>13. CASE PersistTables
  BY <1>13 DEF PersistTables, ArtefactInv, Made, history
<1>14. CASE PersistMarker
  BY <1>14 DEF PersistMarker, ArtefactInv, Made, history
<1>15. CASE PersistSegments
  BY <1>15 DEF PersistSegments, ArtefactInv, Made, history
<1>16. CASE PersistRevision
  BY <1>16, ArchiveConstants DEF PersistRevision, Typed, ArtefactInv, Made,
     ArchiveTypeOK, LoadedRevisions, StoredRevisions
<1>17. CASE PersistFails
  BY <1>17 DEF PersistFails, ArtefactInv
<1>18. CASE PackStart
  BY <1>18 DEF PackStart, ArtefactInv, IsContent, history
<1>19. CASE PackDone
  BY <1>19 DEF PackDone, ArtefactInv, history
<1>20. CASE RemoveUnpacked
  BY <1>20 DEF RemoveUnpacked, ArtefactInv, history
<1>21. CASE PackFails
  BY <1>21 DEF PackFails, ArtefactInv, IsContent, history
<1>22. CASE Crash
  BY <1>22 DEF Crash, ArtefactInv, history
<1>23. CASE UNCHANGED vars
  BY <1>23 DEF vars, ArtefactInv
<1> QED BY <1>1, <1>2, <1>3, <1>4, <1>5, <1>6, <1>7, <1>8, <1>9, <1>10, <1>11, <1>12,
          <1>13, <1>14, <1>15, <1>16, <1>17, <1>18, <1>19, <1>20, <1>21, <1>22, <1>23
          DEF Next

\* The archive is written over only while the directory is complete, and the directory
\* removed only once the archive is.
LEMMA CopyInvKept ==
  ASSUME Typed, Typed', CopyInv, [Next]_vars
  PROVE  CopyInv'
<1>1. CASE Create
  BY <1>1, ArchiveConstants DEF Create, Typed, CopyInv, Holds, Dated, ArchiveTypeOK,
     Version, Imported, history
<1>2. CASE Unpack
  BY <1>2, ArchiveConstants DEF Unpack, CopyInv, Holds, Dated, history
<1>3. CASE Extract
  BY <1>3, ArchiveConstants DEF Extract, CopyInv, Holds, Dated, history
<1>4. CASE LoadSegments
  BY <1>4 DEF LoadSegments, Typed, CopyInv, Holds, Dated, ArchiveTypeOK, Version, files,
     history
<1>5. CASE LoadTables
  BY <1>5 DEF LoadTables, Typed, CopyInv, Holds, Dated, ArchiveTypeOK, files, history
<1>6. CASE RebuildClear
  BY <1>6 DEF RebuildClear, Typed, CopyInv, Holds, Dated, history
<1>7. CASE RebuildFlush
  BY <1>7 DEF RebuildFlush, Typed, CopyInv, Holds, Dated, history
<1>8. CASE RebuildMark
  BY <1>8 DEF RebuildMark, Typed, CopyInv, Holds, Dated, history
<1>9. CASE RebuildFails
  BY <1>9 DEF RebuildFails, CopyInv, Holds, Dated, files, history
<1>10. CASE CommitTables
  BY <1>10 DEF CommitTables, Typed, CopyInv, Holds, Dated, ArchiveTypeOK, Content,
     Version
<1>11. CASE CommitSegments
  BY <1>11 DEF CommitSegments, Typed, CopyInv, Holds, Dated, ArchiveTypeOK, Content,
     Version, files
<1>12. CASE CommitLifted
  BY <1>12 DEF CommitLifted, Typed, CopyInv, Holds, Dated
<1>13. CASE PersistTables
  BY <1>13 DEF PersistTables, Typed, CopyInv, Holds, Dated, history
<1>14. CASE PersistMarker
  BY <1>14 DEF PersistMarker, Typed, CopyInv, Holds, Dated, history
<1>15. CASE PersistSegments
  BY <1>15, ArchiveConstants DEF PersistSegments, Typed, CopyInv, Holds, Dated,
     ArchiveTypeOK, Content, Version, history
<1>16. CASE PersistRevision
  BY <1>16 DEF PersistRevision, Typed, CopyInv, Holds, Dated, Content, Version
<1>17. CASE PersistFails
  BY <1>17 DEF PersistFails, Typed, CopyInv, Holds, Dated, Content
<1>18. CASE PackStart
  BY <1>18, ArchiveConstants DEF PackStart, CopyInv, Holds, Dated, history
<1>19. CASE PackDone
  BY <1>19 DEF PackDone, CopyInv, Holds, Dated, history
<1>20. CASE RemoveUnpacked
  BY <1>20, ArchiveConstants DEF RemoveUnpacked, CopyInv, Holds, Dated, history
<1>21. CASE PackFails
  BY <1>21, ArchiveConstants DEF PackFails, CopyInv, Holds, Dated
<1>22. CASE Crash
  BY <1>22, ArchiveConstants DEF Crash, Typed, CopyInv, Holds, Dated, Content, history
<1>23. CASE UNCHANGED vars
  BY <1>23 DEF vars, CopyInv, Holds, Dated
<1> QED BY <1>1, <1>2, <1>3, <1>4, <1>5, <1>6, <1>7, <1>8, <1>9, <1>10, <1>11, <1>12,
          <1>13, <1>14, <1>15, <1>16, <1>17, <1>18, <1>19, <1>20, <1>21, <1>22, <1>23
          DEF Next

\* A project that was never stored has nothing to vouch for, to restore or to lose.
LEMMA InitArchive ==
  ASSUME Init
  PROVE  Typed /\ IndexInv /\ RestoreInv /\ ArtefactInv /\ CopyInv
<1>1. Typed
  <2>1. changed \in BOOLEAN /\ clean \in BOOLEAN /\ loadable \in BOOLEAN
      /\ damaged \in BOOLEAN
    BY Zenon DEF Init
  <2> QED BY <2>1, ArchiveConstants
          DEF Init, Typed, ArchiveTypeOK, NewProject, Revisions, Version
<1>2. IndexInv
  BY DEF Init, IndexInv, Vouched, IsContent
<1>3. RestoreInv
  BY DEF Init, RestoreInv
<1>4. ArtefactInv
  BY DEF Init, ArtefactInv, IsContent
<1>5. CopyInv
  BY ArchiveConstants DEF Init, CopyInv, Dated
<1> QED BY <1>1, <1>2, <1>3, <1>4, <1>5

\* Files, session and history always keep to their types, and a session always has a
\* complete directory to work in.
THEOREM ArchiveTyped == Spec => []Typed
<1>1. Init => Typed
  BY InitArchive
<1>2. Typed /\ [Next]_vars => Typed'
  BY TypedKept
<1> QED BY <1>1, <1>2, PTL DEF Spec

\* An open project always answers queries for calls and flow references of functions from
\* an index of its own tables, whatever failed before it was opened: ensure_current
\* rebuilds the index before it is marked.
THEOREM IndexIsTrue == Spec => []IndexTrue
<1>1. Init => IndexInv
  BY InitArchive
<1>2. Typed /\ Typed' /\ IndexInv /\ [Next]_vars => IndexInv'
  BY IndexInvKept
<1>3. IndexInv => IndexTrue
  BY DEF IndexInv, IndexTrue
<1> QED BY <1>1, <1>2, <1>3, ArchiveTyped, PTL DEF Spec

\* A project that is opened after a complete persist, through any number of failed and
\* successful sessions that commit nothing, is the one that was closed.
THEOREM SessionsRestored == Spec => []SessionRestored
<1>1. Init => RestoreInv
  BY InitArchive
<1>2. Typed /\ Typed' /\ RestoreInv /\ [Next]_vars => RestoreInv'
  BY RestoreInvKept
<1>3. Typed /\ RestoreInv => SessionRestored
  <2>1. SUFFICES ASSUME Typed, RestoreInv, pc = "open", kept # None, ~changed
                 PROVE  [tables |-> unpacked.tables, segments |-> memory.segments,
                         revisions |-> memory.revisions,
                         artefact |-> unpacked.artefact] = kept
    BY DEF SessionRestored
  <2> QED BY <2>1 DEF Typed, ArchiveTypeOK, RestoreInv, Same
<1> QED BY <1>1, <1>2, <1>3, ArchiveTyped, PTL DEF Spec

\* As long as every persist has succeeded, load_current accepts by its revision only an
\* artefact that was made from the project as it is.
THEOREM ArtefactsCurrent == Spec => []ArtefactCurrent
<1>1. Init => ArtefactInv
  BY InitArchive
<1>2. Typed /\ Typed' /\ ArtefactInv /\ [Next]_vars => ArtefactInv'
  BY ArtefactInvKept
<1>3. ArtefactInv => ArtefactCurrent
  BY DEF ArtefactInv, Made, ArtefactCurrent, ArtefactTrue, Accepted
<1> QED BY <1>1, <1>2, <1>3, ArchiveTyped, PTL DEF Spec

\* What a complete persist wrote is in the archive or in the directory, however often the
\* process dies and whichever step fails, unless an error tore the segment metadata or
\* removed the directory in part.
THEOREM CopiesSurvive == Spec => []CopySurvives
<1>1. Init => CopyInv
  BY InitArchive
<1>2. Typed /\ Typed' /\ CopyInv /\ [Next]_vars => CopyInv'
  BY CopyInvKept
<1>3. CopyInv => CopySurvives
  BY ArchiveConstants DEF CopyInv, Holds, CopySurvives, Survives, IsContent
<1> QED BY <1>1, <1>2, <1>3, ArchiveTyped, PTL DEF Spec

-----------------------------------------------------------------------------
(* ChangeStaging: the records, and what is exact about them. *)

SemanticKinds == Kind \ {"FunctionProperties", "Symbol"}
Subject == Entry \cup Mapping \cup {"bytes", "symbol", "project"}
ChangeRecords == [kind : Kind, id : Subject, cover : SUBSET Place]

\* The shape of a staging; of the index nothing is said here.
Shaped(s) ==
  /\ DOMAIN s = {"records", "indices", "counts", "kinds", "semantic", "collapsed"}
  /\ s.records \in Seq(ChangeRecords) /\ Len(s.records) <= MaxRecords
  /\ s.counts \in [Kind -> Nat] /\ s.kinds \in SUBSET Kind
  /\ s.semantic \in Nat /\ s.collapsed \in BOOLEAN

\* How many records are of the kinds K.
At(q, K) == { i \in DOMAIN q : q[i].kind \in K }
Number(q, K) == Cardinality(At(q, K))

\* IndexExact and MetadataExact, of any staging.
Indexed(s) ==
  /\ \A i \in DOMAIN s.records :
       Keyed(s.records[i]) =>
         /\ Key(s.records[i]) \in DOMAIN s.indices
         /\ s.indices[Key(s.records[i])] = i
  /\ \A key \in DOMAIN s.indices :
       /\ s.indices[key] \in DOMAIN s.records
       /\ Keyed(s.records[s.indices[key]])
       /\ Key(s.records[s.indices[key]]) = key

CountedRight(s) ==
  /\ \A k \in Kind : s.counts[k] = Number(s.records, {k})
  /\ s.kinds = { k \in Kind : s.counts[k] > 0 }
  /\ s.semantic = Number(s.records, SemanticKinds)

Exact(s) == s.collapsed = FALSE => Indexed(s) /\ CountedRight(s)

-----------------------------------------------------------------------------
(* Numbers of records. *)

\* Positions in a sequence are finitely many.
LEMMA AtFinite ==
  ASSUME NEW q \in Seq(ChangeRecords), NEW K
  PROVE  IsFiniteSet(At(q, K)) /\ Number(q, K) \in Nat
<1>1. DOMAIN q = 1..Len(q) /\ Len(q) \in Nat
  OBVIOUS
<1>2. IsFiniteSet(1..Len(q))
  BY <1>1, FS_Interval
<1>3. At(q, K) \in SUBSET (1..Len(q))
  BY <1>1 DEF At
<1>4. IsFiniteSet(At(q, K))
  BY <1>2, <1>3, FS_Subset
<1> QED BY <1>4, FS_CardinalityType DEF Number

\* A position less.
LEMMA RemovedAt ==
  ASSUME NEW q \in Seq(ChangeRecords), NEW K, NEW i \in DOMAIN q
  PROVE  /\ IsFiniteSet(At(q, K) \ {i})
         /\ Cardinality(At(q, K) \ {i}) = Number(q, K) - One(q[i].kind \in K)
<1>1. Number(q, K) \in Nat /\ IsFiniteSet(At(q, K))
  BY AtFinite
<1>2. /\ IsFiniteSet(At(q, K) \ {i})
      /\ Cardinality(At(q, K) \ {i}) = IF i \in At(q, K) THEN Number(q, K) - 1 ELSE Number(q, K)
  BY <1>1, FS_RemoveElement DEF Number
<1>3. i \in At(q, K) <=> q[i].kind \in K
  BY DEF At
<1>4. CASE q[i].kind \in K
  BY <1>2, <1>3, <1>4 DEF One
<1>5. CASE q[i].kind \notin K
  BY <1>1, <1>2, <1>3, <1>5 DEF One
<1> QED BY <1>4, <1>5

\* One record more.
LEMMA NumberAppended ==
  ASSUME NEW q \in Seq(ChangeRecords), NEW r \in ChangeRecords, NEW K
  PROVE  Number(Append(q, r), K) = Number(q, K) + One(r.kind \in K)
<1>1. /\ DOMAIN Append(q, r) = DOMAIN q \cup {Len(q) + 1} /\ Len(q) + 1 \notin DOMAIN q
      /\ \A i \in DOMAIN q : Append(q, r)[i] = q[i]
      /\ Append(q, r)[Len(q) + 1] = r
  OBVIOUS
<1>2. CASE r.kind \in K
  <2>1. At(Append(q, r), K) = At(q, K) \cup {Len(q) + 1} /\ Len(q) + 1 \notin At(q, K)
    BY <1>1, <1>2 DEF At
  <2> QED BY <1>2, <2>1, AtFinite, FS_AddElement DEF Number, One
<1>3. CASE r.kind \notin K
  <2>1. At(Append(q, r), K) = At(q, K)
    BY <1>1, <1>3 DEF At
  <2> QED BY <1>3, <2>1, AtFinite DEF Number, One
<1> QED BY <1>2, <1>3

\* One record in place of another.
LEMMA NumberReplaced ==
  ASSUME NEW q \in Seq(ChangeRecords), NEW r \in ChangeRecords, NEW K, NEW i \in DOMAIN q
  PROVE  Number([q EXCEPT ![i] = r], K)
           = (Number(q, K) - One(q[i].kind \in K)) + One(r.kind \in K)
<1> DEFINE p == [q EXCEPT ![i] = r]
<1>1. /\ DOMAIN p = DOMAIN q /\ p[i] = r /\ \A j \in DOMAIN q : j # i => p[j] = q[j]
  OBVIOUS
<1>2. Number(q, K) \in Nat /\ IsFiniteSet(At(q, K))
  BY AtFinite
<1> HIDE DEF p
<1>3. At(p, K) = IF r.kind \in K THEN (At(q, K) \ {i}) \cup {i} ELSE At(q, K) \ {i}
  BY <1>1 DEF At
<1>4. /\ IsFiniteSet(At(q, K) \ {i})
      /\ Cardinality(At(q, K) \ {i}) = Number(q, K) - One(q[i].kind \in K)
  BY <1>2, RemovedAt
<1>5. Cardinality((At(q, K) \ {i}) \cup {i}) = Cardinality(At(q, K) \ {i}) + 1
  BY <1>4, FS_AddElement
<1>6. Number(q, K) - One(q[i].kind \in K) \in Int
  BY <1>2 DEF One
<1>7. CASE r.kind \in K
  <2>1. One(r.kind \in K) = 1
    BY <1>7 DEF One
  <2> QED BY <1>3, <1>4, <1>5, <1>7, <2>1 DEF Number, p
<1>8. CASE r.kind \notin K
  <2>1. One(r.kind \in K) = 0
    BY <1>8 DEF One
  <2>2. Number(p, K) = Number(q, K) - One(q[i].kind \in K)
    BY <1>3, <1>4, <1>8 DEF Number
  <2> QED BY <1>6, <2>1, <2>2 DEF p
<1> QED BY <1>7, <1>8

\* swap_remove, on the records alone.
SwapRemoved(q, i) == [j \in 1..(Len(q) - 1) |-> IF j = i THEN q[Len(q)] ELSE q[j]]

\* The records that swap_remove leaves, and where they are.
LEMMA SwapRemovedRecords ==
  ASSUME NEW q \in Seq(ChangeRecords), NEW i \in DOMAIN q
  PROVE  /\ SwapRemoved(q, i) \in Seq(ChangeRecords)
         /\ Len(SwapRemoved(q, i)) = Len(q) - 1 /\ Len(q) \in DOMAIN q
         /\ DOMAIN SwapRemoved(q, i) = DOMAIN q \ {Len(q)}
         /\ \A j \in DOMAIN q \ {Len(q)} : SwapRemoved(q, i)[j] = IF j = i THEN q[Len(q)] ELSE q[j]
<1>0. Len(q) \in Nat /\ DOMAIN q = 1..Len(q) /\ \A j \in DOMAIN q : q[j] \in ChangeRecords
  OBVIOUS
<1>1. Len(q) - 1 \in Nat /\ Len(q) \in DOMAIN q
  BY <1>0
<1>2. \A j \in 1..(Len(q) - 1) : (IF j = i THEN q[Len(q)] ELSE q[j]) \in ChangeRecords
  BY <1>0, <1>1
<1>3. SwapRemoved(q, i) \in [1..(Len(q) - 1) -> ChangeRecords]
  BY <1>2 DEF SwapRemoved
<1>4. SwapRemoved(q, i) \in Seq(ChangeRecords) /\ Len(SwapRemoved(q, i)) = Len(q) - 1
  BY <1>1, <1>3
<1> QED BY <1>0, <1>1, <1>4 DEF SwapRemoved

\* One record less, and the last one in its place.
LEMMA NumberSwapRemoved ==
  ASSUME NEW q \in Seq(ChangeRecords), NEW K, NEW i \in DOMAIN q
  PROVE  Number(SwapRemoved(q, i), K) = Number(q, K) - One(q[i].kind \in K)
<1> DEFINE p == SwapRemoved(q, i)
           last == Len(q)
<1>1. /\ DOMAIN p = DOMAIN q \ {last} /\ last \in DOMAIN q
      /\ \A j \in DOMAIN q \ {last} : p[j] = IF j = i THEN q[last] ELSE q[j]
  BY SwapRemovedRecords
<1>2. Number(q, K) \in Nat /\ IsFiniteSet(At(q, K))
  BY AtFinite
<1>3. /\ IsFiniteSet(At(q, K) \ {i})
      /\ Cardinality(At(q, K) \ {i}) = Number(q, K) - One(q[i].kind \in K)
  BY <1>2, RemovedAt
<1> HIDE DEF p, last
<1>4. CASE i = last
  <2>1. At(p, K) = At(q, K) \ {i}
    BY <1>1, <1>4 DEF At
  <2> QED BY <2>1, <1>3 DEF Number, p
<1>5. CASE i # last /\ q[last].kind \notin K
  <2>1. At(p, K) = At(q, K) \ {i}
    BY <1>1, <1>5 DEF At
  <2> QED BY <2>1, <1>3 DEF Number, p
<1>6. CASE i # last /\ q[last].kind \in K
  <2> DEFINE rest == (At(q, K) \ {i}) \ {last}
  <2>1. At(p, K) = rest \cup {i} /\ i \notin rest /\ last \in At(q, K) \ {i}
    BY <1>1, <1>6 DEF At
  <2>2. /\ IsFiniteSet(rest)
        /\ Cardinality(rest) = Cardinality(At(q, K) \ {i}) - 1
    BY <1>3, <2>1, FS_RemoveElement
  <2> HIDE DEF rest
  <2>3. Cardinality(rest \cup {i}) = Cardinality(rest) + 1
    BY <2>1, <2>2, FS_AddElement
  <2>4. Cardinality(At(q, K) \ {i}) \in Nat
    BY <1>3, FS_CardinalityType
  <2> QED BY <1>3, <2>1, <2>2, <2>3, <2>4 DEF Number, p
<1> QED BY <1>4, <1>5, <1>6

-----------------------------------------------------------------------------
(* Keys. *)

\* Two records have the same key when they are about the same function, or of the same other
\* kind about the same mapping, at the same places for a placement.
LEMMA SameKey ==
  ASSUME NEW e \in ChangeRecords, NEW r \in ChangeRecords, Keyed(e), Keyed(r)
  PROVE  Key(e) = Key(r) <=>
           /\ e.id = r.id
           /\ \/ e.kind \in FunctionKinds /\ r.kind \in FunctionKinds
              \/ /\ e.kind = r.kind /\ e.kind \notin FunctionKinds
                 /\ e.kind \in PlacementKinds => e.cover = r.cover
BY DEF Keyed, Key, FunctionKinds, PlacementKinds, ChangeRecords

\* coalesce leaves a record with the same key, or none of an addition and a removal.
LEMMA CoalescedKey ==
  ASSUME NEW e \in ChangeRecords, NEW r \in ChangeRecords, Keyed(e), Keyed(r), Key(e) = Key(r)
  PROVE  \/ /\ Coalesce(e, r).kind = "None"
            /\ e.kind = "FunctionAdded" /\ r.kind = "FunctionRemoved"
         \/ /\ Coalesce(e, r) \in ChangeRecords
            /\ Keyed(Coalesce(e, r)) /\ Key(Coalesce(e, r)) = Key(e)
            /\ Coalesce(e, r).kind # "None"
<1> DEFINE net == Coalesce(e, r)
<1>1. /\ net = [kind |-> Net(e.kind, r.kind), id |-> e.id,
                cover |-> IF e.kind \in FunctionKinds THEN e.cover \cup r.cover ELSE e.cover]
      /\ net.kind = Net(e.kind, r.kind) /\ net.id = e.id
      /\ net.cover = IF e.kind \in FunctionKinds THEN e.cover \cup r.cover ELSE e.cover
  BY DEF Coalesce, ChangeRecord
<1>2. e.id = r.id /\ (e.kind \in FunctionKinds \/ e.kind = r.kind)
  BY SameKey
<1>3. CASE e.kind \in FunctionKinds
  <2>1. r.kind \in FunctionKinds
    BY <1>3, SameKey
  <2>2. \/ Net(e.kind, r.kind) = "None" /\ e.kind = "FunctionAdded" /\ r.kind = "FunctionRemoved"
        \/ Net(e.kind, r.kind) \in FunctionKinds
    BY <1>3, <2>1 DEF Net, FunctionKinds
  <2>3. CASE Net(e.kind, r.kind) \in FunctionKinds
    <3>1. net.kind \in FunctionKinds /\ net \in ChangeRecords
      BY <1>1, <1>3, <2>3 DEF ChangeRecords, Kind
    <3>2. Keyed(net)
      BY <3>1 DEF Keyed
    <3>3. net.kind # "None"
      BY <3>1 DEF FunctionKinds
    <3> QED BY <1>1, <1>3, <3>1, <3>2, <3>3, SameKey
  <2> QED BY <1>1, <2>2, <2>3
<1>4. CASE e.kind \notin FunctionKinds
  <2>1. e.kind \in {"SegmentMapped", "SegmentUnmapped", "SegmentMappingChanged"}
    BY <1>4 DEF Keyed, FunctionKinds, PlacementKinds
  <2>2. Net(e.kind, r.kind) = e.kind
    BY <1>2, <1>4, <2>1 DEF Net, FunctionKinds
  <2>3. net = e
    BY <1>1, <1>4, <2>2 DEF ChangeRecords
  <2>4. e.kind # "None"
    BY <2>1
  <2> QED BY <2>3, <2>4
<1> QED BY <1>3, <1>4

-----------------------------------------------------------------------------
(* push. *)

\* What add_metadata changes.
LEMMA CountedFields ==
  ASSUME NEW s, Shaped(s), NEW r \in ChangeRecords
  PROVE  /\ DOMAIN Counted(s, r) = DOMAIN s
         /\ Counted(s, r).records = s.records /\ Counted(s, r).indices = s.indices
         /\ Counted(s, r).counts = [s.counts EXCEPT ![r.kind] = @ + 1]
         /\ Counted(s, r).kinds = s.kinds \cup {r.kind}
         /\ Counted(s, r).semantic = s.semantic + One(AffectsLiftedInputs(r))
         /\ Counted(s, r).collapsed = s.collapsed
BY DEF Counted, Shaped

\* A record changes the inputs of lifting by its kind.
LEMMA SemanticByKind ==
  ASSUME NEW r \in ChangeRecords
  PROVE  AffectsLiftedInputs(r) <=> r.kind \in SemanticKinds
BY DEF AffectsLiftedInputs, SemanticKinds, ChangeRecords

\* Adding a record to the metadata makes it right for one record more.
LEMMA CountedRightly ==
  ASSUME NEW s, Shaped(s), CountedRight(s), NEW r \in ChangeRecords,
         NEW q \in Seq(ChangeRecords),
         \A K : Number(q, K) = Number(s.records, K) + One(r.kind \in K)
  PROVE  /\ \A k \in Kind : Counted(s, r).counts[k] = Number(q, {k})
         /\ Counted(s, r).counts \in [Kind -> Nat]
         /\ Counted(s, r).kinds = { k \in Kind : Counted(s, r).counts[k] > 0 }
         /\ Counted(s, r).semantic = Number(q, SemanticKinds) /\ Counted(s, r).semantic \in Nat
<1>1. /\ Counted(s, r).counts = [s.counts EXCEPT ![r.kind] = @ + 1]
      /\ Counted(s, r).kinds = s.kinds \cup {r.kind}
      /\ Counted(s, r).semantic = s.semantic + One(AffectsLiftedInputs(r))
  BY CountedFields
<1>2. s.counts \in [Kind -> Nat] /\ s.semantic \in Nat /\ r.kind \in Kind
  BY DEF Shaped, ChangeRecords
<1>3. Counted(s, r).counts \in [Kind -> Nat]
  BY <1>1, <1>2
<1>4. \A k \in Kind : Counted(s, r).counts[k] = Number(q, {k})
  <2> TAKE k \in Kind
  <2>1. s.counts[k] = Number(s.records, {k}) /\ s.counts[k] \in Nat
    BY <1>2 DEF CountedRight
  <2>2. Number(q, {k}) = s.counts[k] + One(r.kind \in {k})
    BY <2>1
  <2>3. CASE k = r.kind
    BY <1>1, <1>2, <2>2, <2>3 DEF One
  <2>4. CASE k # r.kind
    BY <1>1, <1>2, <2>1, <2>2, <2>4 DEF One
  <2> QED BY <2>3, <2>4
<1>5. Counted(s, r).kinds = { k \in Kind : Counted(s, r).counts[k] > 0 }
  <2>1. s.kinds = { k \in Kind : s.counts[k] > 0 }
    BY DEF CountedRight
  <2> QED BY <1>1, <1>2, <2>1
<1>6. Counted(s, r).semantic = Number(q, SemanticKinds)
  <2>1. Number(q, SemanticKinds) = s.semantic + One(r.kind \in SemanticKinds)
    BY DEF CountedRight
  <2>2. One(AffectsLiftedInputs(r)) = One(r.kind \in SemanticKinds)
    BY SemanticByKind DEF One
  <2> QED BY <1>1, <2>1, <2>2
<1>7. Counted(s, r).semantic \in Nat
  BY <1>1, <1>2 DEF One
<1> QED BY <1>3, <1>4, <1>5, <1>6, <1>7

\* How many of the records are of the kinds K, without the one at position i.
Less(q, i, K) == Number(q, K) - One(q[i].kind \in K)

\* The metadata of u is right for the records of s but the one at position i.
Discounted(u, s, i) ==
  /\ \A k \in Kind : u.counts[k] = Less(s.records, i, {k})
  /\ u.counts \in [Kind -> Nat]
  /\ u.kinds = { k \in Kind : u.counts[k] > 0 }
  /\ u.semantic = Less(s.records, i, SemanticKinds) /\ u.semantic \in Nat
  /\ Shaped(u) /\ u.records = s.records /\ u.indices = s.indices /\ u.collapsed = s.collapsed

\* Taking the record at position i from the metadata makes it right for the others.
LEMMA UncountedRightly ==
  ASSUME NEW s, Shaped(s), CountedRight(s), NEW i \in DOMAIN s.records,
         NEW u, u = Uncounted(s, s.records[i])
  PROVE  Discounted(u, s, i)
<1> DEFINE r == s.records[i]
<1>0. r \in ChangeRecords /\ s.records \in Seq(ChangeRecords)
  BY DEF Shaped
<1>1. /\ u.counts = [s.counts EXCEPT ![r.kind] = @ - 1]
      /\ u.kinds = (IF s.counts[r.kind] = 1 THEN s.kinds \ {r.kind} ELSE s.kinds)
      /\ u.semantic = s.semantic - One(AffectsLiftedInputs(r))
      /\ u.records = s.records /\ u.indices = s.indices /\ u.collapsed = s.collapsed
      /\ DOMAIN u = DOMAIN s
  <2>1. u = Uncounted(s, r)
    OBVIOUS
  <2> HIDE DEF r
  <2> QED BY <1>0, <2>1 DEF Uncounted, Shaped
<1>2. s.counts \in [Kind -> Nat] /\ s.semantic \in Nat /\ r.kind \in Kind
  BY <1>0 DEF Shaped, ChangeRecords
<1>3. \A K : Less(s.records, i, K) \in Nat
  <2> TAKE K
  <2>1. IsFiniteSet(At(s.records, K) \ {i}) /\ Cardinality(At(s.records, K) \ {i}) = Less(s.records, i, K)
    BY <1>0, RemovedAt DEF Less
  <2> QED BY <2>1, FS_CardinalityType
<1> HIDE DEF r
<1>4. \A k \in Kind : u.counts[k] = Less(s.records, i, {k})
  <2> TAKE k \in Kind
  <2>1. s.counts[k] = Number(s.records, {k}) /\ s.counts[k] \in Nat
    BY <1>2 DEF CountedRight
  <2>2. CASE k = r.kind
    BY <1>1, <1>2, <2>1, <2>2 DEF One, Less, r
  <2>3. CASE k # r.kind
    BY <1>1, <1>2, <2>1, <2>3 DEF One, Less, r
  <2> QED BY <2>2, <2>3
<1>5. u.counts \in [Kind -> Nat]
  <2>1. u.counts \in [Kind -> Int]
    BY <1>1, <1>2
  <2> QED BY <1>3, <1>4, <2>1
<1>6. u.kinds = { k \in Kind : u.counts[k] > 0 }
  <2>1. s.kinds = { k \in Kind : s.counts[k] > 0 }
    BY DEF CountedRight
  <2>2. u.counts[r.kind] = s.counts[r.kind] - 1 /\ u.counts[r.kind] \in Nat /\ s.counts[r.kind] \in Nat
    BY <1>1, <1>2, <1>5
  <2>3. \A k \in Kind : k # r.kind => u.counts[k] = s.counts[k]
    BY <1>1, <1>2
  <2>4. CASE s.counts[r.kind] = 1
    BY <1>1, <2>1, <2>2, <2>3, <2>4
  <2>5. CASE s.counts[r.kind] # 1
    BY <1>1, <1>2, <2>1, <2>2, <2>3, <2>5
  <2> QED BY <2>4, <2>5
<1>7. u.semantic = Less(s.records, i, SemanticKinds)
  <2>1. One(AffectsLiftedInputs(r)) = One(r.kind \in SemanticKinds)
    BY <1>0, SemanticByKind DEF One, r
  <2> QED BY <1>1, <2>1 DEF CountedRight, Less, r
<1>8. u.semantic \in Nat
  BY <1>3, <1>7
<1>9. Shaped(u)
  BY <1>1, <1>2, <1>5, <1>8 DEF Shaped
<1> QED BY <1>1, <1>4, <1>5, <1>6, <1>7, <1>8, <1>9 DEF Discounted

\* A record with a new key, or with none, is appended.
LEMMA AppendedExact ==
  ASSUME NEW s, Shaped(s), Indexed(s), CountedRight(s), s.collapsed = FALSE,
         NEW r \in ChangeRecords, ~(Keyed(r) /\ Key(r) \in DOMAIN s.indices), Len(s.records) < MaxRecords
  PROVE  /\ Shaped(Appended(s, r)) /\ Exact(Appended(s, r)) /\ Appended(s, r).collapsed = FALSE
         /\ Appended(s, r).records = Append(s.records, r)
<1> DEFINE a == Appended(s, r)
           c == Counted(s, r)
           q == s.records
<1>1. /\ DOMAIN c = DOMAIN s /\ c.records = q /\ c.indices = s.indices /\ c.collapsed = FALSE
  BY CountedFields
<1>2. /\ DOMAIN a = DOMAIN s /\ a.records = Append(q, r) /\ a.collapsed = FALSE
      /\ a.indices = IF Keyed(r) THEN With(s.indices, Key(r), Len(q) + 1) ELSE s.indices
      /\ a.counts = c.counts /\ a.kinds = c.kinds /\ a.semantic = c.semantic
  BY <1>1 DEF Appended, Shaped
<1>3. /\ q \in Seq(ChangeRecords) /\ Append(q, r) \in Seq(ChangeRecords) /\ Len(q) \in Nat
      /\ DOMAIN q = 1..Len(q) /\ DOMAIN Append(q, r) = DOMAIN q \cup {Len(q) + 1}
      /\ Len(q) + 1 \notin DOMAIN q
      /\ \A i \in DOMAIN q : Append(q, r)[i] = q[i]
      /\ Append(q, r)[Len(q) + 1] = r /\ Len(Append(q, r)) = Len(q) + 1
  BY DEF Shaped
<1>4. \A K : Number(Append(q, r), K) = Number(q, K) + One(r.kind \in K)
  BY <1>3, NumberAppended
<1>5. /\ \A k \in Kind : a.counts[k] = Number(a.records, {k})
      /\ a.counts \in [Kind -> Nat] /\ a.kinds = { k \in Kind : a.counts[k] > 0 }
      /\ a.semantic = Number(a.records, SemanticKinds) /\ a.semantic \in Nat
  <2>1. /\ \A k \in Kind : c.counts[k] = Number(Append(q, r), {k})
        /\ c.counts \in [Kind -> Nat] /\ c.kinds = { k \in Kind : c.counts[k] > 0 }
        /\ c.semantic = Number(Append(q, r), SemanticKinds) /\ c.semantic \in Nat
    <3> DEFINE p == Append(q, r)
    <3>1. p \in Seq(ChangeRecords) /\ \A K : Number(p, K) = Number(s.records, K) + One(r.kind \in K)
      BY <1>3, <1>4
    <3> HIDE DEF p
    <3>2. /\ \A k \in Kind : Counted(s, r).counts[k] = Number(p, {k})
          /\ Counted(s, r).counts \in [Kind -> Nat]
          /\ Counted(s, r).kinds = { k \in Kind : Counted(s, r).counts[k] > 0 }
          /\ Counted(s, r).semantic = Number(p, SemanticKinds) /\ Counted(s, r).semantic \in Nat
      BY <3>1, CountedRightly
    <3> QED BY <3>2 DEF p
  <2> HIDE DEF a, c, q
  <2> QED BY <1>2, <2>1
<1>6. CountedRight(a)
  BY <1>5 DEF CountedRight
<1>7. Shaped(a)
  <2>1. Len(a.records) <= MaxRecords
    BY <1>2, <1>3, StagingAssumption
  <2>2. a.kinds \in SUBSET Kind
    BY <1>5
  <2> QED BY <1>2, <1>3, <1>5, <2>1, <2>2 DEF Shaped
<1> HIDE DEF a, c, q
<1>8. Indexed(a)
  <2>1. /\ \A i \in DOMAIN q : Keyed(q[i]) => Key(q[i]) \in DOMAIN s.indices /\ s.indices[Key(q[i])] = i
        /\ \A key \in DOMAIN s.indices :
             s.indices[key] \in DOMAIN q /\ Keyed(q[s.indices[key]]) /\ Key(q[s.indices[key]]) = key
    BY DEF Indexed, q
  <2>2. CASE ~Keyed(r)
    BY <1>2, <1>3, <2>1, <2>2 DEF Indexed
  <2>3. CASE Keyed(r)
    <3>1. /\ DOMAIN a.indices = DOMAIN s.indices \cup {Key(r)} /\ a.indices[Key(r)] = Len(q) + 1
          /\ \A key \in DOMAIN s.indices : a.indices[key] = s.indices[key] /\ key # Key(r)
      BY <1>2, <2>3 DEF With
    <3> QED BY <1>2, <1>3, <2>1, <2>3, <3>1 DEF Indexed
  <2> QED BY <2>2, <2>3
<1> QED BY <1>2, <1>6, <1>7, <1>8 DEF Exact, a, q

\* swap_remove keeps the index right.
LEMMA DroppedIndexed ==
  ASSUME NEW s, Shaped(s), Indexed(s), NEW i \in DOMAIN s.records, Keyed(s.records[i])
  PROVE  LET d == Dropped(s, i, Key(s.records[i])) IN
         /\ Indexed(d) /\ DOMAIN d = DOMAIN s
         /\ d.records = SwapRemoved(s.records, i)
         /\ d.counts = s.counts /\ d.kinds = s.kinds /\ d.semantic = s.semantic
         /\ d.collapsed = s.collapsed
<1> DEFINE q == s.records
           key == Key(q[i])
           last == Len(q)
           d == Dropped(s, i, key)
           others == Without(s.indices, key)
           moves == i < last /\ Keyed(q[last]) /\ Key(q[last]) \in DOMAIN others
<1>1. /\ DOMAIN d = DOMAIN s /\ d.records = SwapRemoved(q, i)
      /\ d.counts = s.counts /\ d.kinds = s.kinds /\ d.semantic = s.semantic
      /\ d.collapsed = s.collapsed
      /\ d.indices = IF moves THEN With(others, Key(q[last]), i) ELSE others
  BY DEF Dropped, SwapRemoved, Shaped
<1>2. /\ DOMAIN SwapRemoved(q, i) = DOMAIN q \ {last} /\ last \in DOMAIN q /\ last \in Nat
      /\ \A j \in DOMAIN q \ {last} : SwapRemoved(q, i)[j] = IF j = i THEN q[last] ELSE q[j]
      /\ \A j \in DOMAIN q : j # last => j < last
  <2>1. q \in Seq(ChangeRecords) /\ DOMAIN q = 1..last /\ last \in Nat
    BY DEF Shaped
  <2>2. \A j \in DOMAIN q : j # last => j < last
    BY <2>1
  <2>3. /\ DOMAIN SwapRemoved(q, i) = DOMAIN q \ {last} /\ last \in DOMAIN q
        /\ \A j \in DOMAIN q \ {last} : SwapRemoved(q, i)[j] = IF j = i THEN q[last] ELSE q[j]
    BY <2>1, SwapRemovedRecords
  <2> QED BY <2>1, <2>2, <2>3
<1>3. /\ \A j \in DOMAIN q : Keyed(q[j]) => Key(q[j]) \in DOMAIN s.indices /\ s.indices[Key(q[j])] = j
      /\ \A k \in DOMAIN s.indices :
           s.indices[k] \in DOMAIN q /\ Keyed(q[s.indices[k]]) /\ Key(q[s.indices[k]]) = k
  BY DEF Indexed
<1>4. /\ DOMAIN others = DOMAIN s.indices \ {key}
      /\ \A k \in DOMAIN others : others[k] = s.indices[k]
  BY DEF Without
<1>5. key \in DOMAIN s.indices /\ s.indices[key] = i
  BY <1>3
<1>6. CASE moves
  <2>1. /\ DOMAIN d.indices = DOMAIN s.indices \ {key} /\ d.indices[Key(q[last])] = i
        /\ \A k \in DOMAIN d.indices : k # Key(q[last]) => d.indices[k] = s.indices[k]
    BY <1>1, <1>4, <1>6 DEF With
  <2> HIDE DEF q, key, last, d, others, moves
  <2>2. Key(q[last]) # key /\ s.indices[Key(q[last])] = last /\ i # last /\ Keyed(q[last])
    BY <1>2, <1>3, <1>5, <1>6 DEF moves
  <2>3. \A j \in DOMAIN q \ {last} :
          Keyed(SwapRemoved(q, i)[j]) =>
            Key(SwapRemoved(q, i)[j]) \in DOMAIN d.indices /\ d.indices[Key(SwapRemoved(q, i)[j])] = j
    <3> TAKE j \in DOMAIN q \ {last}
    <3>1. CASE j = i
      BY <1>2, <1>3, <2>1, <2>2, <3>1
    <3>2. CASE j # i
      BY <1>2, <1>3, <1>5, <2>1, <2>2, <3>2
    <3> QED BY <3>1, <3>2
  <2>4. \A k \in DOMAIN d.indices :
          /\ d.indices[k] \in DOMAIN q \ {last} /\ Keyed(SwapRemoved(q, i)[d.indices[k]])
          /\ Key(SwapRemoved(q, i)[d.indices[k]]) = k
    <3> TAKE k \in DOMAIN d.indices
    <3>1. CASE k = Key(q[last])
      BY <1>2, <2>1, <2>2, <3>1 DEF q
    <3>2. CASE k # Key(q[last])
      <4>1. d.indices[k] = s.indices[k] /\ k \in DOMAIN s.indices /\ k # key
        BY <2>1, <3>2
      <4>2. s.indices[k] \in DOMAIN q /\ Keyed(q[s.indices[k]]) /\ Key(q[s.indices[k]]) = k
        BY <1>3, <4>1
      <4>3. s.indices[k] # i /\ s.indices[k] # last
        BY <3>2, <4>1, <4>2 DEF key
      <4> QED BY <1>2, <4>1, <4>2, <4>3
    <3> QED BY <3>1, <3>2
  <2> QED BY <1>1, <1>2, <2>3, <2>4 DEF Indexed, d, q, key
<1>7. CASE ~moves
  <2>1. d.indices = others
    BY <1>1, <1>7
  <2>2. i = last \/ ~Keyed(q[last])
    <3> SUFFICES ASSUME i # last, Keyed(q[last]) PROVE moves
      BY <1>7
    <3>1. i < last
      BY <1>2
    <3>2. Key(q[last]) \in DOMAIN s.indices /\ s.indices[Key(q[last])] = last
      BY <1>2, <1>3
    <3> QED BY <1>4, <1>5, <3>1, <3>2
  <2> HIDE DEF q, key, last, d, others, moves
  <2>3. \A j \in DOMAIN q \ {last} :
          Keyed(SwapRemoved(q, i)[j]) =>
            Key(SwapRemoved(q, i)[j]) \in DOMAIN d.indices /\ d.indices[Key(SwapRemoved(q, i)[j])] = j
    <3> TAKE j \in DOMAIN q \ {last}
    <3>1. CASE j = i
      BY <1>2, <2>2, <3>1
    <3>2. CASE j # i
      BY <1>2, <1>3, <1>4, <1>5, <2>1, <3>2
    <3> QED BY <3>1, <3>2
  <2>4. \A k \in DOMAIN d.indices :
          /\ d.indices[k] \in DOMAIN q \ {last} /\ Keyed(SwapRemoved(q, i)[d.indices[k]])
          /\ Key(SwapRemoved(q, i)[d.indices[k]]) = k
    <3> TAKE k \in DOMAIN d.indices
    <3>1. d.indices[k] = s.indices[k] /\ k \in DOMAIN s.indices /\ k # key
      BY <1>4, <2>1
    <3>2. s.indices[k] \in DOMAIN q /\ Keyed(q[s.indices[k]]) /\ Key(q[s.indices[k]]) = k
      BY <1>3, <3>1
    <3>3. s.indices[k] # i
      BY <3>1, <3>2 DEF key
    <3>4. s.indices[k] # last
      BY <2>2, <3>2, <3>3
    <3> QED BY <1>2, <3>1, <3>2, <3>3, <3>4
  <2> QED BY <1>1, <1>2, <2>3, <2>4 DEF Indexed, d, q, key
<1> QED BY <1>1, <1>6, <1>7

\* The record of a key is replaced by the net change.
LEMMA ReplacedExact ==
  ASSUME NEW s, Shaped(s), Indexed(s), CountedRight(s), s.collapsed = FALSE,
         NEW i \in DOMAIN s.records, Keyed(s.records[i]),
         NEW net \in ChangeRecords, Keyed(net), Key(net) = Key(s.records[i])
  PROVE  LET m == [Counted(Uncounted(s, s.records[i]), net) EXCEPT !.records[i] = net] IN
         /\ Shaped(m) /\ Exact(m) /\ m.collapsed = FALSE
         /\ m.records = [s.records EXCEPT ![i] = net]
<1> DEFINE q == s.records
           p == [q EXCEPT ![i] = net]
           u == Uncounted(s, q[i])
           c == Counted(u, net)
           m == [c EXCEPT !.records[i] = net]
<1>1. /\ \A k \in Kind : u.counts[k] = Less(q, i, {k})
      /\ u.counts \in [Kind -> Nat] /\ u.kinds = { k \in Kind : u.counts[k] > 0 }
      /\ u.semantic = Less(q, i, SemanticKinds) /\ u.semantic \in Nat
      /\ Shaped(u) /\ u.records = q /\ u.indices = s.indices /\ u.collapsed = FALSE
  <2>1. u = Uncounted(s, s.records[i])
    OBVIOUS
  <2> HIDE DEF u
  <2>2. Discounted(u, s, i)
    BY <2>1, UncountedRightly
  <2> QED BY <2>2 DEF Discounted
<1>2. /\ q \in Seq(ChangeRecords) /\ Len(q) \in Nat /\ p \in Seq(ChangeRecords) /\ Len(p) = Len(q)
      /\ DOMAIN q = 1..Len(q) /\ DOMAIN p = DOMAIN q /\ p[i] = net
      /\ \A j \in DOMAIN q : j # i => p[j] = q[j]
  BY DEF Shaped
<1>3. \A K : Number(p, K) = Less(q, i, K) + One(net.kind \in K)
  BY <1>2, NumberReplaced DEF Less
<1> HIDE DEF u
<1>4. /\ DOMAIN c = DOMAIN u /\ c.records = q /\ c.indices = s.indices /\ c.collapsed = FALSE
      /\ c.counts = [u.counts EXCEPT ![net.kind] = @ + 1]
      /\ c.kinds = u.kinds \cup {net.kind}
      /\ c.semantic = u.semantic + One(AffectsLiftedInputs(net))
  BY <1>1, CountedFields
<1>5. DOMAIN u = {"records", "indices", "counts", "kinds", "semantic", "collapsed"}
  BY <1>1 DEF Shaped
<1> HIDE DEF c
<1>6. /\ DOMAIN m = DOMAIN u /\ m.records = p /\ m.indices = s.indices /\ m.collapsed = FALSE
      /\ m.counts = c.counts /\ m.kinds = c.kinds /\ m.semantic = c.semantic
  BY <1>4, <1>5
<1> HIDE DEF m, p
<1>7. net.kind \in Kind
  BY DEF ChangeRecords
<1>8. m.counts \in [Kind -> Nat]
  BY <1>1, <1>4, <1>6, <1>7
<1>9. \A k \in Kind : m.counts[k] = Number(p, {k})
  <2> TAKE k \in Kind
  <2>1. Number(p, {k}) = u.counts[k] + One(net.kind \in {k}) /\ u.counts[k] \in Nat
    BY <1>1, <1>3
  <2>2. CASE k = net.kind
    BY <1>1, <1>4, <1>6, <2>1, <2>2 DEF One
  <2>3. CASE k # net.kind
    BY <1>1, <1>4, <1>6, <2>1, <2>3 DEF One
  <2> QED BY <2>2, <2>3
<1>10. m.kinds = { k \in Kind : m.counts[k] > 0 }
  BY <1>1, <1>4, <1>6, <1>7
<1>11. m.semantic = Number(p, SemanticKinds) /\ m.semantic \in Nat
  <2>1. One(AffectsLiftedInputs(net)) = One(net.kind \in SemanticKinds)
    BY SemanticByKind DEF One
  <2>2. m.semantic = Number(p, SemanticKinds)
    BY <1>1, <1>3, <1>4, <1>6, <2>1
  <2> QED BY <1>1, <1>4, <1>6, <2>2 DEF One
<1>12. CountedRight(m)
  BY <1>6, <1>9, <1>10, <1>11 DEF CountedRight
<1>13. Shaped(m)
  <2>1. m.kinds \in SUBSET Kind
    BY <1>10
  <2>2. Len(m.records) <= MaxRecords
    BY <1>2, <1>6 DEF Shaped
  <2> QED BY <1>2, <1>5, <1>6, <1>8, <1>11, <2>1, <2>2 DEF Shaped
<1>14. Indexed(m)
  <2>1. /\ \A j \in DOMAIN q : Keyed(q[j]) => Key(q[j]) \in DOMAIN s.indices /\ s.indices[Key(q[j])] = j
        /\ \A key \in DOMAIN s.indices :
             s.indices[key] \in DOMAIN q /\ Keyed(q[s.indices[key]]) /\ Key(q[s.indices[key]]) = key
    BY DEF Indexed
  <2>2. Key(net) = Key(q[i]) /\ Keyed(q[i])
    OBVIOUS
  <2> HIDE DEF q
  <2>3. \A j \in DOMAIN p : Keyed(p[j]) => Key(p[j]) \in DOMAIN s.indices /\ s.indices[Key(p[j])] = j
    BY <1>2, <2>1, <2>2
  <2>4. \A key \in DOMAIN s.indices :
          s.indices[key] \in DOMAIN p /\ Keyed(p[s.indices[key]]) /\ Key(p[s.indices[key]]) = key
    BY <1>2, <2>1, <2>2
  <2> QED BY <1>6, <2>3, <2>4 DEF Indexed
<1> QED BY <1>6, <1>12, <1>13, <1>14 DEF Exact, m, p, c, u

\* push of a record whose key has a record at position i.
LEMMA MergedExact ==
  ASSUME NEW s, Shaped(s), Indexed(s), CountedRight(s), s.collapsed = FALSE,
         NEW i \in DOMAIN s.records, Keyed(s.records[i]),
         NEW r \in ChangeRecords, Keyed(r), Key(s.records[i]) = Key(r)
  PROVE  LET m == Merged(s, i, r)
             net == Coalesce(s.records[i], r) IN
         /\ Shaped(m) /\ Exact(m) /\ m.collapsed = FALSE
         /\ net.kind = "None" => m.records = SwapRemoved(s.records, i)
         /\ net.kind # "None" => m.records = [s.records EXCEPT ![i] = net]
<1> DEFINE q == s.records
           e == q[i]
           net == Coalesce(e, r)
           u == Uncounted(s, e)
           m == Merged(s, i, r)
<1>1. e \in ChangeRecords /\ q \in Seq(ChangeRecords) /\ Len(q) <= MaxRecords /\ Len(q) \in Nat
  BY DEF Shaped
<1>2. \/ net.kind = "None"
      \/ net \in ChangeRecords /\ Keyed(net) /\ Key(net) = Key(e) /\ net.kind # "None"
  BY <1>1, CoalescedKey
<1>3. CASE net.kind # "None"
  <2>1. m = [Counted(u, net) EXCEPT !.records[i] = net]
    BY <1>3 DEF Merged
  <2> HIDE DEF net
  <2>2. LET n == [Counted(u, net) EXCEPT !.records[i] = net] IN
        Shaped(n) /\ Exact(n) /\ n.collapsed = FALSE /\ n.records = [q EXCEPT ![i] = net]
    BY <1>2, <1>3, ReplacedExact
  <2> HIDE DEF u, m
  <2>3. Shaped(m) /\ Exact(m) /\ m.collapsed = FALSE /\ m.records = [q EXCEPT ![i] = net]
    BY <2>1, <2>2
  <2> QED BY <1>3, <2>3 DEF net, m
<1>4. CASE net.kind = "None"
  <2>1. m = Dropped(u, i, Key(e))
    BY <1>4 DEF Merged
  <2>2. /\ \A k \in Kind : u.counts[k] = Less(q, i, {k})
        /\ u.counts \in [Kind -> Nat] /\ u.kinds = { k \in Kind : u.counts[k] > 0 }
        /\ u.semantic = Less(q, i, SemanticKinds) /\ u.semantic \in Nat
        /\ Shaped(u) /\ u.records = q /\ u.indices = s.indices /\ u.collapsed = FALSE
    <3>1. u = Uncounted(s, s.records[i])
      OBVIOUS
    <3> HIDE DEF u
    <3>2. Discounted(u, s, i)
      BY <3>1, UncountedRightly
    <3> QED BY <3>2 DEF Discounted
  <2>3. Indexed(u)
    <3> HIDE DEF u
    <3> QED BY <2>2 DEF Indexed
  <2> HIDE DEF u, m
  <2>4. /\ Indexed(m) /\ DOMAIN m = DOMAIN u
        /\ m.records = SwapRemoved(q, i)
        /\ m.counts = u.counts /\ m.kinds = u.kinds /\ m.semantic = u.semantic
        /\ m.collapsed = FALSE
    <3>1. i \in DOMAIN u.records /\ Keyed(u.records[i]) /\ e = u.records[i]
      BY <2>2
    <3>2. LET d == Dropped(u, i, Key(u.records[i])) IN
          /\ Indexed(d) /\ DOMAIN d = DOMAIN u
          /\ d.records = SwapRemoved(u.records, i)
          /\ d.counts = u.counts /\ d.kinds = u.kinds /\ d.semantic = u.semantic
          /\ d.collapsed = u.collapsed
      BY <2>2, <2>3, <3>1, DroppedIndexed
    <3> QED BY <2>1, <2>2, <3>1, <3>2
  <2>5. \A K : Number(SwapRemoved(q, i), K) = Less(q, i, K)
    BY <1>1, NumberSwapRemoved DEF Less
  <2>6. CountedRight(m)
    <3>1. \A k \in Kind : m.counts[k] = Number(m.records, {k})
      BY <2>2, <2>4, <2>5
    <3>2. m.semantic = Number(m.records, SemanticKinds)
      BY <2>2, <2>4, <2>5
    <3> QED BY <2>2, <2>4, <3>1, <3>2 DEF CountedRight
  <2>7. SwapRemoved(q, i) \in Seq(ChangeRecords) /\ Len(SwapRemoved(q, i)) = Len(q) - 1
    BY <1>1, SwapRemovedRecords
  <2>8. Shaped(m)
    <3>1. Len(m.records) <= MaxRecords
      BY <1>1, <2>4, <2>7, StagingAssumption
    <3> QED BY <2>2, <2>4, <2>7, <3>1 DEF Shaped
  <2> QED BY <1>4, <2>4, <2>6, <2>8 DEF Exact, m
<1> QED BY <1>3, <1>4

\* The detail is given up for one record.
LEMMA CollapsedExact ==
  ASSUME NEW s, Shaped(s), NEW r \in ChangeRecords
  PROVE  /\ Shaped(Summarised(s, r)) /\ Shaped(Collapsed(s, r))
         /\ Summarised(s, r).collapsed = s.collapsed /\ Collapsed(s, r).collapsed = TRUE
         /\ Summarised(s, r).semantic = s.semantic + One(AffectsLiftedInputs(r))
         /\ Collapsed(s, r).semantic = s.semantic + One(AffectsLiftedInputs(r))
<1> DEFINE t == Summarised(s, r)
           c == Collapsed(s, r)
<1>1. /\ DOMAIN t = DOMAIN s /\ t.records = s.records /\ t.counts = s.counts
      /\ t.kinds = s.kinds \cup {r.kind} /\ t.collapsed = s.collapsed
      /\ t.semantic = s.semantic + One(AffectsLiftedInputs(r))
  BY DEF Summarised, Shaped
<1>2. r.kind \in Kind /\ t.semantic \in Nat
  BY <1>1 DEF ChangeRecords, One, Shaped
<1>3. Shaped(t)
  <2> HIDE DEF t
  <2> QED BY <1>1, <1>2 DEF Shaped
<1>4. /\ DOMAIN c = DOMAIN t /\ c.records = <<Resync>> /\ c.counts = [k \in Kind |-> 0]
      /\ c.kinds = t.kinds /\ c.collapsed = TRUE /\ c.semantic = t.semantic
  <2>1. DOMAIN t = {"records", "indices", "counts", "kinds", "semantic", "collapsed"}
    BY <1>3 DEF Shaped
  <2> HIDE DEF t
  <2> QED BY <2>1 DEF Collapsed, t
<1>5. Resync \in ChangeRecords
  BY DEF Resync, ChangeRecord, ChangeRecords, Kind, Subject
<1>6. <<Resync>> \in Seq(ChangeRecords) /\ Len(<<Resync>>) <= MaxRecords
  BY <1>5, StagingAssumption
<1>7. Shaped(c)
  <2> HIDE DEF t, c
  <2>1. c.counts \in [Kind -> Nat] /\ c.records \in Seq(ChangeRecords) /\ Len(c.records) <= MaxRecords
    BY <1>4, <1>6
  <2>2. c.kinds \in SUBSET Kind /\ c.semantic \in Nat /\ c.collapsed \in BOOLEAN /\ DOMAIN c = DOMAIN t
    BY <1>3, <1>4 DEF Shaped
  <2> QED BY <1>3, <2>1, <2>2 DEF Shaped
<1> QED BY <1>1, <1>3, <1>4, <1>7

\* The position of a record with the key of r.
SharesKey(e, r) == Keyed(e) /\ Keyed(r) /\ Key(e) = Key(r)

\* What push does: it keeps the index and the metadata exact, and unless the detail is given up it
\* appends the record, or coalesces it with the one of its key.
LEMMA PushExact ==
  ASSUME NEW s, Shaped(s), Exact(s), NEW r \in ChangeRecords
  PROVE  LET p == Push(s, r)
             q == s.records IN
         /\ Shaped(p) /\ Exact(p)
         /\ \/ p.collapsed = TRUE /\ p.semantic = s.semantic + One(AffectsLiftedInputs(r))
            \/ /\ p.collapsed = FALSE /\ s.collapsed = FALSE
               /\ \/ /\ p.records = Append(q, r)
                     /\ \A j \in DOMAIN q : ~SharesKey(q[j], r)
                  \/ \E i \in DOMAIN q :
                       /\ SharesKey(q[i], r)
                       /\ Coalesce(q[i], r).kind = "None" => p.records = SwapRemoved(q, i)
                       /\ Coalesce(q[i], r).kind # "None" =>
                            p.records = [q EXCEPT ![i] = Coalesce(q[i], r)]
<1> DEFINE q == s.records
           p == Push(s, r)
<1>1. CASE s.collapsed = TRUE
  <2>1. p = Summarised(s, r)
    BY <1>1 DEF Push
  <2> HIDE DEF p
  <2>2. Shaped(p) /\ p.collapsed = TRUE /\ p.semantic = s.semantic + One(AffectsLiftedInputs(r))
    BY <1>1, <2>1, CollapsedExact
  <2> QED BY <2>2 DEF Exact, p
<1>2. CASE s.collapsed = FALSE /\ Keyed(r) /\ Key(r) \in DOMAIN s.indices
  <2> DEFINE i == s.indices[Key(r)]
  <2>1. p = Merged(s, i, r)
    BY <1>2 DEF Push
  <2>2. Indexed(s) /\ CountedRight(s)
    BY <1>2 DEF Exact
  <2>3. i \in DOMAIN q /\ Keyed(q[i]) /\ Key(q[i]) = Key(r)
    BY <1>2, <2>2 DEF Indexed
  <2> HIDE DEF i
  <2>4. LET m == Merged(s, i, r)
            net == Coalesce(q[i], r) IN
        /\ Shaped(m) /\ Exact(m) /\ m.collapsed = FALSE
        /\ net.kind = "None" => m.records = SwapRemoved(q, i)
        /\ net.kind # "None" => m.records = [q EXCEPT ![i] = net]
    BY <1>2, <2>2, <2>3, MergedExact, Zenon
  <2> HIDE DEF p
  <2>5. /\ Shaped(p) /\ Exact(p) /\ p.collapsed = FALSE
        /\ Coalesce(q[i], r).kind = "None" => p.records = SwapRemoved(q, i)
        /\ Coalesce(q[i], r).kind # "None" => p.records = [q EXCEPT ![i] = Coalesce(q[i], r)]
    BY <2>1, <2>4
  <2>6. SharesKey(q[i], r)
    BY <1>2, <2>3 DEF SharesKey
  <2> HIDE DEF q
  <2> QED BY <1>2, <2>3, <2>5, <2>6 DEF p, q
<1>3. CASE s.collapsed = FALSE /\ ~(Keyed(r) /\ Key(r) \in DOMAIN s.indices)
  <2>1. Indexed(s) /\ CountedRight(s)
    BY <1>3 DEF Exact
  <2>2. CASE Len(q) = MaxRecords
    <3>1. p = Collapsed(s, r)
      BY <1>3, <2>2 DEF Push
    <3> HIDE DEF p
    <3>2. Shaped(p) /\ p.collapsed = TRUE /\ p.semantic = s.semantic + One(AffectsLiftedInputs(r))
      BY <3>1, CollapsedExact
    <3> QED BY <3>2 DEF Exact, p
  <2>3. CASE Len(q) # MaxRecords
    <3>1. p = Appended(s, r)
      BY <1>3, <2>3 DEF Push
    <3>2. Len(q) < MaxRecords
      BY <2>3, StagingAssumption DEF Shaped
    <3> HIDE DEF p
    <3>3. Shaped(p) /\ Exact(p) /\ p.collapsed = FALSE /\ p.records = Append(q, r)
      BY <1>3, <2>1, <3>1, <3>2, AppendedExact
    <3>4. \A j \in DOMAIN q : ~SharesKey(q[j], r)
      BY <1>3, <2>1 DEF Indexed, SharesKey
    <3> QED BY <1>3, <3>3, <3>4 DEF p
  <2> QED BY <2>2, <2>3
<1>4. s.collapsed \in BOOLEAN
  BY DEF Shaped
<1> QED BY <1>1, <1>2, <1>3, <1>4

-----------------------------------------------------------------------------
(* What the records tell of a function. *)

\* The records about a function, and the positions at which they are.
Tells(q, f) == { i \in DOMAIN q : q[i].kind \in FunctionKinds /\ q[i].id = f }
Told(q, f) == { q[i] : i \in Tells(q, f) }

\* No two records are about one function.
LEMMA ToldOnce ==
  ASSUME NEW s, Shaped(s), Indexed(s), NEW f, NEW i \in Tells(s.records, f), NEW j \in Tells(s.records, f)
  PROVE  i = j
<1> DEFINE q == s.records
<1>1. i \in DOMAIN q /\ j \in DOMAIN q /\ q[i].kind \in FunctionKinds /\ q[j].kind \in FunctionKinds
      /\ q[i].id = q[j].id
  BY DEF Tells
<1>2. Key(q[i]) = Key(q[j]) /\ Keyed(q[i]) /\ Keyed(q[j])
  BY <1>1 DEF Key, Keyed
<1> QED BY <1>1, <1>2 DEF Indexed

\* How a record about f changes what is told of f: it is told, or coalesced with what was told.
Retold(T, U, r) ==
  \/ T = {} /\ U = {r}
  \/ \E e \in ChangeRecords :
       /\ e.kind \in FunctionKinds /\ T = {e}
       /\ Net(e.kind, r.kind) = "None" => U = {}
       /\ Net(e.kind, r.kind) # "None" => U = {Coalesce(e, r)}

\* The kind of what coalesce leaves.
LEMMA CoalescedFields ==
  ASSUME NEW e \in ChangeRecords, NEW r \in ChangeRecords
  PROVE  /\ Coalesce(e, r).kind = Net(e.kind, r.kind) /\ Coalesce(e, r).id = e.id
         /\ e.kind \in FunctionKinds => Coalesce(e, r).cover = e.cover \cup r.cover
BY DEF Coalesce, ChangeRecord

\* A record is about the function that another record with its key is about.
LEMMA SharedSubject ==
  ASSUME NEW e \in ChangeRecords, NEW r \in ChangeRecords, SharesKey(e, r)
  PROVE  e.id = r.id /\ (e.kind \in FunctionKinds <=> r.kind \in FunctionKinds)
BY SameKey DEF SharesKey

\* push tells what it is given of one function, and what it told of the others it still tells.
LEMMA PushTells ==
  ASSUME NEW s, Shaped(s), Exact(s), NEW r \in ChangeRecords, Push(s, r).collapsed = FALSE, NEW f
  PROVE  LET p == Push(s, r) IN
         /\ ~(r.kind \in FunctionKinds /\ r.id = f) => Told(p.records, f) = Told(s.records, f)
         /\ r.kind \in FunctionKinds /\ r.id = f => Retold(Told(s.records, f), Told(p.records, f), r)
<1> DEFINE q == s.records
           p == Push(s, r)
           v == p.records
           mine == r.kind \in FunctionKinds /\ r.id = f
<1>1. /\ s.collapsed = FALSE
      /\ \/ v = Append(q, r) /\ \A j \in DOMAIN q : ~SharesKey(q[j], r)
         \/ \E i \in DOMAIN q :
              /\ SharesKey(q[i], r)
              /\ Coalesce(q[i], r).kind = "None" => v = SwapRemoved(q, i)
              /\ Coalesce(q[i], r).kind # "None" => v = [q EXCEPT ![i] = Coalesce(q[i], r)]
  BY PushExact
<1>2. Indexed(s) /\ q \in Seq(ChangeRecords) /\ DOMAIN q = 1..Len(q) /\ \A j \in DOMAIN q : q[j] \in ChangeRecords
  BY <1>1 DEF Exact, Shaped
<1>3. \A i, j \in Tells(q, f) : i = j
  BY <1>2, ToldOnce
<1> HIDE DEF q, v
<1>4. CASE v = Append(q, r) /\ \A j \in DOMAIN q : ~SharesKey(q[j], r)
  <2>1. /\ DOMAIN v = DOMAIN q \cup {Len(q) + 1} /\ v[Len(q) + 1] = r
        /\ \A j \in DOMAIN q : v[j] = q[j]
    BY <1>2, <1>4
  <2>2. CASE mine
    <3>1. \A j \in DOMAIN q : ~(q[j].kind \in FunctionKinds /\ q[j].id = f)
      BY <1>2, <1>4, <2>2 DEF SharesKey, Keyed, Key
    <3>2. Told(q, f) = {}
      BY <3>1 DEF Told, Tells
    <3>3. Tells(v, f) = {Len(q) + 1}
      BY <2>1, <2>2, <3>1 DEF Tells
    <3>4. Told(v, f) = {r}
      BY <2>1, <3>3 DEF Told
    <3> QED BY <2>2, <3>2, <3>4 DEF Retold, v, q
  <2>3. CASE ~mine
    <3>1. Tells(v, f) = Tells(q, f)
      BY <2>1, <2>3 DEF Tells
    <3>2. Told(v, f) = Told(q, f)
      BY <2>1, <3>1 DEF Told, Tells
    <3> QED BY <2>3, <3>2 DEF v, q
  <2> QED BY <2>2, <2>3
<1>5. ASSUME NEW i \in DOMAIN q, SharesKey(q[i], r),
             Coalesce(q[i], r).kind = "None" => v = SwapRemoved(q, i),
             Coalesce(q[i], r).kind # "None" => v = [q EXCEPT ![i] = Coalesce(q[i], r)]
      PROVE  /\ ~mine => Told(v, f) = Told(q, f)
             /\ mine => Retold(Told(q, f), Told(v, f), r)
  <2> DEFINE e == q[i]
             net == Coalesce(e, r)
  <2>1. /\ e \in ChangeRecords /\ e.id = r.id /\ (e.kind \in FunctionKinds <=> r.kind \in FunctionKinds)
        /\ net.kind = Net(e.kind, r.kind) /\ net.id = e.id
    BY <1>2, <1>5, SharedSubject, CoalescedFields
  <2>2. i \in Tells(q, f) <=> mine
    BY <2>1 DEF Tells
  <2>3. mine => Told(q, f) = {e} /\ Tells(q, f) = {i}
    BY <1>3, <2>2 DEF Told
  <2>4. CASE net.kind = "None"
    <3>1. /\ DOMAIN v = DOMAIN q \ {Len(q)} /\ Len(q) \in DOMAIN q
          /\ \A j \in DOMAIN q \ {Len(q)} : v[j] = IF j = i THEN q[Len(q)] ELSE q[j]
      <4>1. /\ DOMAIN SwapRemoved(q, i) = DOMAIN q \ {Len(q)} /\ Len(q) \in DOMAIN q
            /\ \A j \in DOMAIN q \ {Len(q)} : SwapRemoved(q, i)[j] = IF j = i THEN q[Len(q)] ELSE q[j]
        BY <1>2, <1>5, SwapRemovedRecords
      <4>2. v = SwapRemoved(q, i)
        BY <1>5, <2>4
      <4> QED BY <4>1, <4>2
    <3> HIDE DEF e, net, mine
    <3>2. Told(v, f) = { q[j] : j \in Tells(q, f) \ {i} }
      <4>1. ASSUME NEW j \in Tells(v, f) PROVE \E k \in Tells(q, f) \ {i} : v[j] = q[k]
        <5>1. CASE j = i
          <6>1. Len(q) \in Tells(q, f) \ {i} /\ v[j] = q[Len(q)]
            BY <3>1, <4>1, <5>1 DEF Tells
          <6> QED BY <6>1
        <5>2. CASE j # i
          <6>1. j \in Tells(q, f) \ {i} /\ v[j] = q[j]
            BY <3>1, <4>1, <5>2 DEF Tells
          <6> QED BY <6>1
        <5> QED BY <5>1, <5>2
      <4>2. ASSUME NEW k \in Tells(q, f) \ {i} PROVE \E j \in Tells(v, f) : v[j] = q[k]
        <5>1. CASE k = Len(q)
          <6>1. i \in Tells(v, f) /\ v[i] = q[k]
            BY <1>5, <3>1, <4>2, <5>1 DEF Tells
          <6> QED BY <6>1
        <5>2. CASE k # Len(q)
          <6>1. k \in Tells(v, f) /\ v[k] = q[k]
            BY <3>1, <4>2, <5>2 DEF Tells
          <6> QED BY <6>1
        <5> QED BY <5>1, <5>2
      <4> QED BY <4>1, <4>2 DEF Told
    <3>3. CASE mine
      <4>1. Told(v, f) = {}
        BY <2>3, <3>2, <3>3
      <4> QED BY <2>1, <2>3, <2>4, <3>3, <4>1 DEF Retold, mine
    <3>4. CASE ~mine
      <4>1. Tells(q, f) \ {i} = Tells(q, f)
        BY <2>2, <3>4
      <4> QED BY <3>2, <3>4, <4>1 DEF Told, mine
    <3> QED BY <3>3, <3>4
  <2>5. CASE net.kind # "None"
    <3>0. net.kind \in FunctionKinds <=> r.kind \in FunctionKinds
      <4>1. net \in ChangeRecords /\ Keyed(net) /\ Keyed(e) /\ Key(net) = Key(e)
        BY <1>5, <2>1, <2>5, CoalescedKey DEF SharesKey
      <4> QED BY <2>1, <4>1, SharedSubject DEF SharesKey
    <3>1. /\ DOMAIN v = DOMAIN q /\ v[i] = net /\ \A j \in DOMAIN q : j # i => v[j] = q[j]
      BY <1>2, <1>5, <2>5
    <3> HIDE DEF e, net, mine
    <3>2. Tells(v, f) = Tells(q, f)
      BY <2>1, <2>2, <3>0, <3>1 DEF Tells, mine
    <3>3. CASE mine
      <4>1. Told(v, f) = {net}
        BY <2>3, <3>1, <3>2, <3>3 DEF Told
      <4> QED BY <2>1, <2>3, <2>5, <3>3, <4>1 DEF Retold, mine, net
    <3>4. CASE ~mine
      <4>1. i \notin Tells(q, f)
        BY <2>2, <3>4
      <4>2. \A j \in Tells(q, f) : v[j] = q[j]
        BY <3>1, <4>1 DEF Tells
      <4> QED BY <3>2, <3>4, <4>2 DEF Told, mine
    <3> QED BY <3>3, <3>4
  <2> QED BY <2>4, <2>5
<1> QED BY <1>1, <1>4, <1>5 DEF v, q

-----------------------------------------------------------------------------
(* The invariant: what the records tell of a function is right for the body it had before the      *)
(* record that is still to be pushed.                                                              *)

\* The kinds of record that tell of f: before the transaction, with the body b, which an operation
\* replaced if t is true.
KindsFor(f, b, t) ==
  IF Before[f] = {} THEN {"FunctionAdded"}
  ELSE IF b = {} THEN {"FunctionRemoved"}
  ELSE IF t THEN {"FunctionChanged"}
  ELSE {"FunctionChanged", "FunctionProperties"}

\* The records T tell how f came to have the body b.
Accurate(T, f, b, t) ==
  /\ Before[f] = {} /\ b = {} => T = {}
  /\ \A e \in T : e.kind \in KindsFor(f, b, t) /\ Before[f] \cup b \subseteq e.cover
  /\ t /\ (Before[f] # {} \/ b # {}) => T # {}
  /\ ~t => b = Before[f]

\* The record r tells of the change from the body b to the body c, replaced (t, u) or not.
Follows(r, b, c, t, u) ==
  /\ b \cup c \subseteq r.cover
  /\ \/ r.kind = "FunctionProperties" /\ b = c /\ b # {} /\ (t <=> u)
     \/ r.kind = "FunctionAdded" /\ b = {} /\ c # {} /\ u
     \/ r.kind = "FunctionChanged" /\ b # {} /\ c # {} /\ u
     \/ r.kind = "FunctionRemoved" /\ b # {} /\ c = {} /\ u

\* The records T told of f, and the records q to be pushed, are up to date with the body c.
Reflected(T, q, f, c, u) ==
  /\ Tells(q, f) = {} => Accurate(T, f, c, u)
  /\ \A j \in Tells(q, f) :
       \E b \in SUBSET Place, t \in BOOLEAN : Accurate(T, f, b, t) /\ Follows(q[j], b, c, t, u)

\* The semantic count n knows of a replaced body, or the records to be pushed will tell.
Known(n, q, f, c, u) ==
  u /\ (Before[f] # {} \/ c # {}) =>
    n > 0 \/ \E j \in Tells(q, f) : q[j].kind # "FunctionProperties"

StagingInv ==
  /\ Shaped(staging) /\ Exact(staging)
  /\ todo \in Seq(ChangeRecords)
  /\ body \in [Entry -> SUBSET Place] /\ rebuilt \in SUBSET Entry
  /\ placed \in [Mapping -> SUBSET Place]
  /\ \A f \in Entry :
       /\ \A i, j \in Tells(todo, f) : i = j
       /\ ~staging.collapsed => Reflected(Told(staging.records, f), todo, f, body[f], f \in rebuilt)
       /\ Known(staging.semantic, todo, f, body[f], f \in rebuilt)

\* One record about f pushed brings what is told of f up to date.
LEMMA NetStep ==
  ASSUME NEW f \in Entry, NEW T, NEW U, NEW b \in SUBSET Place, NEW c \in SUBSET Place,
         NEW t \in BOOLEAN, NEW u \in BOOLEAN, NEW r \in ChangeRecords,
         Accurate(T, f, b, t), Follows(r, b, c, t, u), Retold(T, U, r)
  PROVE  Accurate(U, f, c, u)
<1>1. CASE T = {} /\ U = {r}
  <2>1. ~t \/ (Before[f] = {} /\ b = {})
    BY <1>1 DEF Accurate
  <2>2. b = Before[f]
    BY <2>1 DEF Accurate
  <2>3. r.kind \in KindsFor(f, c, u) /\ Before[f] \cup c \subseteq r.cover
    BY <2>2, <2>1 DEF Follows, KindsFor
  <2>4. ~(Before[f] = {} /\ c = {}) /\ (~u => c = Before[f])
    BY <2>2 DEF Follows
  <2> QED BY <1>1, <2>3, <2>4 DEF Accurate
<1>2. ASSUME NEW e \in ChangeRecords, e.kind \in FunctionKinds, T = {e},
             Net(e.kind, r.kind) = "None" => U = {},
             Net(e.kind, r.kind) # "None" => U = {Coalesce(e, r)}
      PROVE  Accurate(U, f, c, u)
  <2> DEFINE n == Coalesce(e, r)
  <2>1. n.kind = Net(e.kind, r.kind) /\ n.cover = e.cover \cup r.cover
    BY <1>2, CoalescedFields
  <2>2. e.kind \in KindsFor(f, b, t) /\ Before[f] \cup b \subseteq e.cover /\ ~(Before[f] = {} /\ b = {})
    BY <1>2 DEF Accurate
  <2>3. b \cup c \subseteq r.cover
    BY DEF Follows
  <2> HIDE DEF n
  <2>4. Before[f] \cup c \subseteq n.cover
    BY <2>1, <2>2, <2>3
  <2>5. ~t => b = Before[f]
    BY DEF Accurate
  <2>6. CASE Before[f] = {}
    <3>1. e.kind = "FunctionAdded" /\ b # {}
      BY <2>2, <2>6 DEF KindsFor
    <3>2. CASE r.kind = "FunctionRemoved"
      <4>1. U = {} /\ c = {} /\ u
        BY <1>2, <3>1, <3>2 DEF Net, Follows
      <4> QED BY <2>6, <4>1 DEF Accurate
    <3>3. CASE r.kind # "FunctionRemoved"
      <4>1. c # {} /\ (u \/ (~t /\ b = c)) /\ Net(e.kind, r.kind) = "FunctionAdded"
        BY <2>5, <2>6, <3>1, <3>3 DEF Net, Follows
      <4>2. U = {n}
        BY <1>2, <4>1 DEF n
      <4> QED BY <2>1, <2>4, <2>5, <2>6, <4>1, <4>2 DEF Accurate, KindsFor
    <3> QED BY <3>2, <3>3
  <2>7. CASE Before[f] # {}
    <3>1. e.kind = IF b = {} THEN "FunctionRemoved" ELSE e.kind
      BY <2>2, <2>7 DEF KindsFor
    <3>2. b # {} => e.kind \in {"FunctionChanged", "FunctionProperties"} /\ (t => e.kind = "FunctionChanged")
      BY <2>2, <2>7 DEF KindsFor
    <3>3. Net(e.kind, r.kind) \in KindsFor(f, c, u) /\ Net(e.kind, r.kind) # "None"
      BY <2>7, <3>1, <3>2 DEF Net, Follows, KindsFor
    <3>4. ~u => c = Before[f]
      BY <2>5 DEF Follows
    <3>5. U = {n}
      BY <1>2, <3>3 DEF n
    <3> QED BY <2>1, <2>4, <2>7, <3>3, <3>4, <3>5 DEF Accurate
  <2> QED BY <2>6, <2>7
<1> QED BY <1>1, <1>2 DEF Retold

\* Taking the first record from those to be pushed.
LEMMA TailTells ==
  ASSUME NEW q \in Seq(ChangeRecords), q # << >>, NEW f
  PROVE  /\ Head(q) \in ChangeRecords /\ Tail(q) \in Seq(ChangeRecords) /\ 1 \in DOMAIN q /\ Head(q) = q[1]
         /\ \A j \in Tells(Tail(q), f) : j + 1 \in Tells(q, f) /\ j + 1 # 1 /\ Tail(q)[j] = q[j + 1] /\ j \in Nat
         /\ \A j \in Tells(q, f) : j # 1 => j - 1 \in Tells(Tail(q), f) /\ Tail(q)[j - 1] = q[j] /\ j \in Nat
         /\ 1 \in Tells(q, f) <=> q[1].kind \in FunctionKinds /\ q[1].id = f
<1>1. /\ Head(q) \in ChangeRecords /\ Tail(q) \in Seq(ChangeRecords) /\ Len(q) \in Nat \ {0}
      /\ DOMAIN q = 1..Len(q) /\ Head(q) = q[1] /\ DOMAIN Tail(q) = 1..(Len(q) - 1)
      /\ \A j \in 1..(Len(q) - 1) : Tail(q)[j] = q[j + 1]
  OBVIOUS
<1>2. \A j \in Tells(Tail(q), f) : j + 1 \in Tells(q, f) /\ j + 1 # 1 /\ Tail(q)[j] = q[j + 1] /\ j \in Nat
  BY <1>1 DEF Tells
<1>3. \A j \in Tells(q, f) : j # 1 => j - 1 \in Tells(Tail(q), f) /\ Tail(q)[j - 1] = q[j] /\ j \in Nat
  <2> TAKE j \in Tells(q, f)
  <2> HAVE j # 1
  <2>1. j \in 1..Len(q) /\ j - 1 \in 1..(Len(q) - 1) /\ (j - 1) + 1 = j /\ j \in Nat
    BY <1>1 DEF Tells
  <2>2. Tail(q)[j - 1] = q[j]
    BY <1>1, <2>1
  <2> QED BY <1>1, <2>1, <2>2 DEF Tells
<1> QED BY <1>1, <1>2, <1>3 DEF Tells

\* While the detail is kept, what is told of a replaced function counts as semantic.
LEMMA ReflectedKnown ==
  ASSUME NEW s, Shaped(s), Exact(s), s.collapsed = FALSE, NEW f \in Entry, NEW q \in Seq(ChangeRecords),
         NEW c \in SUBSET Place, NEW u \in BOOLEAN, Reflected(Told(s.records, f), q, f, c, u)
  PROVE  Known(s.semantic, q, f, c, u)
<1> DEFINE T == Told(s.records, f)
<1> SUFFICES ASSUME u, Before[f] # {} \/ c # {}
             PROVE  s.semantic > 0 \/ \E j \in Tells(q, f) : q[j].kind # "FunctionProperties"
  BY DEF Known
<1>1. ASSUME Accurate(T, f, c, u) PROVE s.semantic > 0
  <2>1. PICK e \in T : e.kind \in KindsFor(f, c, u)
    BY <1>1 DEF Accurate
  <2>2. e.kind \in SemanticKinds
    BY <2>1 DEF KindsFor, SemanticKinds, Kind, FunctionKinds
  <2>3. PICK i \in DOMAIN s.records : s.records[i] = e
    BY <2>1 DEF Told, Tells
  <2>4. At(s.records, SemanticKinds) # {} /\ s.records \in Seq(ChangeRecords)
    BY <2>2, <2>3 DEF At, Shaped
  <2>5. IsFiniteSet(At(s.records, SemanticKinds)) /\ Number(s.records, SemanticKinds) \in Nat
    BY <2>4, AtFinite
  <2>6. Number(s.records, SemanticKinds) # 0
    BY <2>4, <2>5, FS_EmptySet DEF Number
  <2> QED BY <2>5, <2>6 DEF Exact, CountedRight
<1>2. CASE Tells(q, f) = {}
  BY <1>1, <1>2 DEF Reflected
<1>3. ASSUME NEW j \in Tells(q, f), q[j].kind = "FunctionProperties" PROVE s.semantic > 0
  <2>1. PICK b \in SUBSET Place, t \in BOOLEAN : Accurate(T, f, b, t) /\ Follows(q[j], b, c, t, u)
    BY <1>3 DEF Reflected
  <2>2. b = c /\ t = u
    BY <1>3, <2>1 DEF Follows
  <2> HIDE DEF T
  <2> QED BY <1>1, <2>1, <2>2
<1> QED BY <1>2, <1>3

\* push keeps the invariant.
LEMMA PushKeeps == StagingInv /\ PushNext => StagingInv'
<1> SUFFICES ASSUME StagingInv, PushNext PROVE StagingInv'
  OBVIOUS
<1> DEFINE r == Head(todo)
           s == staging
           p == Push(s, r)
<1>1. /\ todo # << >> /\ staging' = p /\ todo' = Tail(todo)
      /\ body' = body /\ rebuilt' = rebuilt /\ placed' = placed
  BY DEF PushNext
<1>2. /\ Shaped(s) /\ Exact(s) /\ todo \in Seq(ChangeRecords)
      /\ body \in [Entry -> SUBSET Place] /\ rebuilt \in SUBSET Entry /\ placed \in [Mapping -> SUBSET Place]
  BY DEF StagingInv
<1>3. r \in ChangeRecords /\ r = todo[1] /\ Tail(todo) \in Seq(ChangeRecords)
  BY <1>1, <1>2, TailTells
<1>4. /\ Shaped(p) /\ Exact(p)
      /\ \/ p.collapsed = TRUE /\ p.semantic = s.semantic + One(AffectsLiftedInputs(r))
         \/ p.collapsed = FALSE /\ s.collapsed = FALSE
  BY <1>2, <1>3, PushExact
<1>5. ASSUME NEW f \in Entry
      PROVE  /\ \A i, j \in Tells(Tail(todo), f) : i = j
             /\ p.collapsed = FALSE => Reflected(Told(p.records, f), Tail(todo), f, body[f], f \in rebuilt)
             /\ Known(p.semantic, Tail(todo), f, body[f], f \in rebuilt)
  <2> DEFINE c == body[f]
             u == f \in rebuilt
             v == Tail(todo)
  <2>0. c \in SUBSET Place /\ u \in BOOLEAN
    BY <1>2
  <2>1. /\ \A j \in Tells(v, f) : j + 1 \in Tells(todo, f) /\ j + 1 # 1 /\ v[j] = todo[j + 1] /\ j \in Nat
        /\ \A j \in Tells(todo, f) : j # 1 => j - 1 \in Tells(v, f) /\ v[j - 1] = todo[j] /\ j \in Nat
        /\ 1 \in Tells(todo, f) <=> r.kind \in FunctionKinds /\ r.id = f
    <3>1. /\ \A j \in Tells(Tail(todo), f) :
               j + 1 \in Tells(todo, f) /\ j + 1 # 1 /\ Tail(todo)[j] = todo[j + 1] /\ j \in Nat
          /\ \A j \in Tells(todo, f) :
               j # 1 => j - 1 \in Tells(Tail(todo), f) /\ Tail(todo)[j - 1] = todo[j] /\ j \in Nat
          /\ 1 \in Tells(todo, f) <=> todo[1].kind \in FunctionKinds /\ todo[1].id = f
      BY <1>1, <1>2, TailTells
    <3> QED BY <1>3, <3>1
  <2>2. /\ \A i, j \in Tells(todo, f) : i = j
        /\ s.collapsed = FALSE => Reflected(Told(s.records, f), todo, f, c, u)
        /\ Known(s.semantic, todo, f, c, u)
    BY DEF StagingInv
  <2> HIDE DEF s, r, p, v
  <2>3. \A i, j \in Tells(v, f) : i = j
    <3> TAKE i, j \in Tells(v, f)
    <3>1. i + 1 = j + 1 /\ i \in Nat /\ j \in Nat
      BY <2>1, <2>2
    <3> QED BY <3>1
  <2>4. p.collapsed = FALSE => Reflected(Told(p.records, f), v, f, c, u)
    <3> HAVE p.collapsed = FALSE
    <3>1. /\ ~(r.kind \in FunctionKinds /\ r.id = f) => Told(p.records, f) = Told(s.records, f)
          /\ r.kind \in FunctionKinds /\ r.id = f => Retold(Told(s.records, f), Told(p.records, f), r)
      BY <1>2, <1>3, PushTells DEF p
    <3>2. Reflected(Told(s.records, f), todo, f, c, u)
      BY <1>4, <2>2
    <3> HIDE DEF c, u
    <3>3. CASE 1 \in Tells(todo, f)
      <4>1. Tells(v, f) = {}
        BY <2>1, <2>2, <3>3
      <4>2. PICK b \in SUBSET Place, t \in BOOLEAN :
              Accurate(Told(s.records, f), f, b, t) /\ Follows(r, b, c, t, u)
        BY <1>3, <3>2, <3>3 DEF Reflected, r
      <4>3. Retold(Told(s.records, f), Told(p.records, f), r)
        BY <2>1, <3>1, <3>3
      <4>4. Accurate(Told(p.records, f), f, c, u)
        BY <1>3, <2>0, <4>2, <4>3, NetStep
      <4> QED BY <4>1, <4>4 DEF Reflected
    <3>4. CASE 1 \notin Tells(todo, f)
      <4>1. Told(p.records, f) = Told(s.records, f)
        BY <2>1, <3>1, <3>4
      <4>2. Tells(v, f) = {} => Tells(todo, f) = {}
        BY <2>1, <3>4
      <4>3. \A j \in Tells(v, f) : j + 1 \in Tells(todo, f) /\ v[j] = todo[j + 1]
        BY <2>1
      <4> QED BY <3>2, <4>1, <4>2, <4>3 DEF Reflected
    <3> QED BY <3>3, <3>4
  <2>5. Known(p.semantic, v, f, c, u)
    <3>1. CASE p.collapsed = FALSE
      BY <1>3, <1>4, <2>0, <2>4, <3>1, ReflectedKnown DEF v
    <3>2. CASE p.collapsed = TRUE /\ p.semantic = s.semantic + One(AffectsLiftedInputs(r))
      <4>0. s.semantic \in Nat
        BY <1>2 DEF Shaped
      <4>1. CASE s.semantic > 0
        BY <3>2, <4>0, <4>1 DEF Known, One
      <4>2. ASSUME NEW j \in Tells(todo, f), todo[j].kind # "FunctionProperties"
            PROVE  p.semantic > 0 \/ \E i \in Tells(v, f) : v[i].kind # "FunctionProperties"
        <5>1. CASE j = 1
          <6>1. AffectsLiftedInputs(r)
            BY <1>3, <2>1, <4>2, <5>1 DEF AffectsLiftedInputs, FunctionKinds
          <6> QED BY <3>2, <4>0, <6>1 DEF One
        <5>2. CASE j # 1
          BY <2>1, <4>2, <5>2
        <5> QED BY <5>1, <5>2
      <4> HIDE DEF c, u
      <4> QED BY <2>2, <4>1, <4>2 DEF Known
    <3> QED BY <1>4, <3>1, <3>2
  <2> QED BY <2>3, <2>4, <2>5 DEF v
<1> HIDE DEF p, s, r
<1>6. \A f \in Entry :
        /\ \A i, j \in Tells(todo', f) : i = j
        /\ ~staging'.collapsed => Reflected(Told(staging'.records, f), todo', f, body'[f], f \in rebuilt')
        /\ Known(staging'.semantic, todo', f, body'[f], f \in rebuilt')
  BY <1>1, <1>4, <1>5
<1>7. Shaped(staging') /\ Exact(staging')
  BY <1>1, <1>4
<1> QED BY <1>1, <1>2, <1>3, <1>6, <1>7 DEF StagingInv

\* An operation keeps the invariant when it queues one record about each function that it changes.
LEMMA OperationKeeps ==
  ASSUME StagingInv, Ready, staging' = staging, todo' \in Seq(ChangeRecords),
         body' \in [Entry -> SUBSET Place], rebuilt' \in SUBSET Entry, placed' \in [Mapping -> SUBSET Place],
         \A f \in Entry :
           \/ Tells(todo', f) = {} /\ body'[f] = body[f] /\ (f \in rebuilt' <=> f \in rebuilt)
           \/ \E j : /\ Tells(todo', f) = {j}
                     /\ Follows(todo'[j], body[f], body'[f], f \in rebuilt, f \in rebuilt')
  PROVE  StagingInv'
<1>1. ASSUME NEW f \in Entry
      PROVE  /\ \A i, j \in Tells(todo', f) : i = j
             /\ ~staging'.collapsed => Reflected(Told(staging'.records, f), todo', f, body'[f], f \in rebuilt')
             /\ Known(staging'.semantic, todo', f, body'[f], f \in rebuilt')
  <2> DEFINE T == Told(staging.records, f)
             b == body[f]
             c == body'[f]
             t == f \in rebuilt
             u == f \in rebuilt'
             q == todo'
  <2>1. b \in SUBSET Place /\ t \in BOOLEAN /\ u \in BOOLEAN
    BY DEF StagingInv
  <2>2. Tells(todo, f) = {}
    BY DEF Ready, Tells
  <2>3. /\ ~staging.collapsed => Accurate(T, f, b, t)
        /\ t /\ (Before[f] # {} \/ b # {}) => staging.semantic > 0
    BY <2>2 DEF StagingInv, Reflected, Known
  <2>4. \/ Tells(q, f) = {} /\ c = b /\ u = t
        \/ \E j : Tells(q, f) = {j} /\ Follows(q[j], b, c, t, u)
    OBVIOUS
  <2> HIDE DEF T, b, c, t, u, q
  <2>5. \A i, j \in Tells(q, f) : i = j
    BY <2>4
  <2>6. ~staging.collapsed => Reflected(T, q, f, c, u)
    BY <2>1, <2>3, <2>4 DEF Reflected
  <2>7. Known(staging.semantic, q, f, c, u)
    <3>1. CASE Tells(q, f) = {} /\ c = b /\ u = t
      BY <2>3, <3>1 DEF Known
    <3>2. ASSUME NEW j, Tells(q, f) = {j}, Follows(q[j], b, c, t, u)
          PROVE  Known(staging.semantic, q, f, c, u)
      <4>1. CASE q[j].kind = "FunctionProperties"
        BY <2>3, <3>2, <4>1 DEF Known, Follows
      <4>2. CASE q[j].kind # "FunctionProperties"
        BY <3>2, <4>2 DEF Known
      <4> QED BY <4>1, <4>2
    <3> QED BY <2>4, <3>1, <3>2
  <2> QED BY <2>5, <2>6, <2>7 DEF T, c, u, q
<1>2. Shaped(staging') /\ Exact(staging')
  BY DEF StagingInv
<1> QED BY <1>1, <1>2 DEF StagingInv

-----------------------------------------------------------------------------
(* The records that an operation queues. *)

\* SetToSeq lists a finite set, each element once.
LEMMA Listed ==
  ASSUME NEW S, IsFiniteSet(S)
  PROVE  LET q == SetToSeq(S) IN
         /\ q \in Seq(S) /\ \A x \in S : \E i \in DOMAIN q : q[i] = x
         /\ \A i, j \in DOMAIN q : q[i] = q[j] => i = j
<1> DEFINE n == Cardinality(S)
           q == SetToSeq(S)
<1>1. n \in Nat
  BY FS_CardinalityType
<1>2. IsFiniteSet(1..n) /\ Cardinality(1..n) = n
  BY <1>1, FS_Interval
<1>3. ExistsBijection(1..n, S)
  BY <1>2, FS_SameCardinalityBij
<1>4. \E g \in [1..n -> S] : IsInjective(g)
  BY <1>3 DEF ExistsBijection, Bijection, Injection
<1>5. q \in [1..n -> S] /\ IsInjective(q)
  BY <1>4 DEF SetToSeq
<1> HIDE DEF q
<1>6. q \in Injection(1..n, S)
  BY <1>5 DEF Injection
<1>7. q \in Surjection(1..n, S)
  BY <1>2, <1>6, FS_Injection
<1>8. DOMAIN q = 1..n /\ q \in Seq(S)
  BY <1>1, <1>5
<1> QED BY <1>5, <1>7, <1>8 DEF Surjection, IsInjective, q

\* The records q tell of the removal of the functions fs, one record for each, and of no other
\* function.
Gone(q, fs) ==
  /\ q \in Seq(ChangeRecords)
  /\ \A i \in DOMAIN q : q[i].kind \in FunctionKinds =>
       q[i].kind = "FunctionRemoved" /\ q[i].id \in fs /\ q[i].cover = body[q[i].id]
  /\ \A f \in fs : \E i : Tells(q, f) = {i}

\* Records that are not about functions.
LEMMA GoneNone ==
  ASSUME NEW q \in Seq(ChangeRecords), \A i \in DOMAIN q : q[i].kind \notin FunctionKinds
  PROVE  Gone(q, {})
BY DEF Gone

\* One record that is not about a function.
LEMMA GoneOne ==
  ASSUME NEW r \in ChangeRecords, r.kind \notin FunctionKinds
  PROVE  Gone(<<r>>, {})
<1>1. <<r>> \in Seq(ChangeRecords) /\ \A i \in DOMAIN <<r>> : <<r>>[i] = r
  OBVIOUS
<1> QED BY <1>1, GoneNone

\* One list of records after another.
LEMMA GoneBoth ==
  ASSUME NEW q, NEW p, NEW fs, NEW gs, Gone(q, fs), Gone(p, gs), fs \cap gs = {}
  PROVE  Gone(q \o p, fs \cup gs)
<1> DEFINE n == Len(q)
           v == q \o p
<1>1. /\ q \in Seq(ChangeRecords) /\ p \in Seq(ChangeRecords) /\ v \in Seq(ChangeRecords)
      /\ n \in Nat /\ DOMAIN q = 1..n /\ Len(p) \in Nat /\ DOMAIN p = 1..Len(p) /\ DOMAIN v = 1..(n + Len(p))
      /\ \A i \in DOMAIN q : v[i] = q[i]
      /\ \A i \in DOMAIN v : i > n => v[i] = p[i - n]
  BY DEF Gone
<1> HIDE DEF v, n
<1>2. \A i \in DOMAIN v : (i \in DOMAIN q /\ v[i] = q[i]) \/ (i \in Nat /\ i > n /\ i - n \in DOMAIN p /\ v[i] = p[i - n])
  BY <1>1
<1>3. \A i \in DOMAIN q : i \in DOMAIN v /\ i <= n /\ v[i] = q[i]
  BY <1>1
<1>4. \A i \in DOMAIN p : i + n \in DOMAIN v /\ i + n > n /\ (i + n) - n = i /\ v[i + n] = p[i] /\ i \in Nat
  BY <1>1
<1>5. \A i \in DOMAIN v : v[i].kind \in FunctionKinds =>
        v[i].kind = "FunctionRemoved" /\ v[i].id \in fs \cup gs /\ v[i].cover = body[v[i].id]
  BY <1>2 DEF Gone
<1>6. ASSUME NEW f \in fs PROVE \E i : Tells(v, f) = {i}
  <2>1. PICK i : Tells(q, f) = {i}
    BY <1>6 DEF Gone
  <2>2. \A j \in DOMAIN p : ~(p[j].kind \in FunctionKinds /\ p[j].id = f)
    BY <1>6 DEF Gone
  <2>3. i \in Tells(v, f)
    BY <1>3, <2>1 DEF Tells
  <2>4. \A j \in Tells(v, f) : j = i
    BY <1>2, <2>1, <2>2 DEF Tells
  <2> QED BY <2>3, <2>4
<1>7. ASSUME NEW g \in gs PROVE \E i : Tells(v, g) = {i}
  <2>1. PICK i : Tells(p, g) = {i}
    BY <1>7 DEF Gone
  <2>2. \A j \in DOMAIN q : ~(q[j].kind \in FunctionKinds /\ q[j].id = g)
    BY <1>7 DEF Gone
  <2>3. i + n \in Tells(v, g)
    BY <1>4, <2>1 DEF Tells
  <2>4. ASSUME NEW j \in Tells(v, g) PROVE j = i + n
    <3>1. j \in Nat /\ j - n \in Tells(p, g)
      BY <1>2, <2>2, <2>4 DEF Tells
    <3>2. j - n = i
      BY <2>1, <3>1
    <3> QED BY <1>1, <3>1, <3>2
  <2> QED BY <2>3, <2>4
<1> QED BY <1>1, <1>5, <1>6, <1>7 DEF Gone, v

\* stage_function_removal of each of the functions fs.
LEMMA GoneRemoved ==
  ASSUME body \in [Entry -> SUBSET Place], NEW fs \in SUBSET Entry
  PROVE  Gone(Removed(fs), fs)
<1> DEFINE Rec(f) == ChangeRecord("FunctionRemoved", f, body[f])
           S == { Rec(f) : f \in fs }
           g == [f \in fs |-> Rec(f)]
           q == Removed(fs)
<1>1. IsFiniteSet(fs)
  BY FS_Subset, StagingAssumption
<1>2. g \in Surjection(fs, S)
  BY DEF Surjection
<1>3. IsFiniteSet(S)
  <2> HIDE DEF g, S
  <2> QED BY <1>1, <1>2, FS_Surjection
<1>4. \A f \in fs : Rec(f) \in ChangeRecords /\ Rec(f).kind = "FunctionRemoved" /\ Rec(f).id = f /\ Rec(f).cover = body[f]
  BY DEF ChangeRecord, ChangeRecords, Kind, FunctionKinds, Subject
<1>5. q = SetToSeq(S)
  BY DEF Removed
<1>6. S \subseteq ChangeRecords
  BY <1>4
<1> HIDE DEF Rec, q
<1>7. /\ q \in Seq(S) /\ \A x \in S : \E i \in DOMAIN q : q[i] = x
      /\ \A i, j \in DOMAIN q : q[i] = q[j] => i = j
  <2> HIDE DEF S
  <2> QED BY <1>3, <1>5, Listed
<1>8. q \in Seq(ChangeRecords) /\ \A i \in DOMAIN q : q[i] \in S
  <2> HIDE DEF S
  <2> QED BY <1>6, <1>7
<1>9. \A i \in DOMAIN q : q[i].kind = "FunctionRemoved" /\ q[i].id \in fs /\ q[i].cover = body[q[i].id] /\ q[i] = Rec(q[i].id)
  BY <1>4, <1>8
<1>10. ASSUME NEW f \in fs PROVE \E i : Tells(q, f) = {i}
  <2>1. PICK i \in DOMAIN q : q[i] = Rec(f)
    BY <1>7
  <2>2. i \in Tells(q, f)
    BY <1>4, <2>1 DEF Tells, FunctionKinds
  <2>3. \A j \in Tells(q, f) : j = i
    BY <1>7, <1>9, <2>1 DEF Tells
  <2> QED BY <2>2, <2>3
<1> QED BY <1>8, <1>9, <1>10 DEF Gone, q

\* The records of the placements of a mapping.
LEMMA GonePlacements ==
  ASSUME NEW k \in PlacementKinds, NEW m \in Mapping, NEW rs \in SUBSET Place
  PROVE  Gone(Placements(k, m, rs), {})
<1> DEFINE Rec(x) == ChangeRecord(k, m, {x})
           S == { Rec(x) : x \in rs }
           g == [x \in rs |-> Rec(x)]
           q == Placements(k, m, rs)
<1>1. IsFiniteSet(rs)
  BY FS_Subset, StagingAssumption
<1>2. g \in Surjection(rs, S)
  BY DEF Surjection
<1>3. IsFiniteSet(S)
  <2> HIDE DEF g, S
  <2> QED BY <1>1, <1>2, FS_Surjection
<1>4. \A x \in S : x \in ChangeRecords /\ x.kind = k
  BY DEF ChangeRecord, ChangeRecords, Kind, Subject
<1>5. q = SetToSeq(S)
  BY DEF Placements
<1> HIDE DEF S, q
<1>6. q \in Seq(S)
  BY <1>3, <1>5, Listed
<1>7. q \in Seq(ChangeRecords) /\ \A i \in DOMAIN q : q[i].kind = k
  BY <1>4, <1>6
<1>8. k \notin FunctionKinds
  BY DEF PlacementKinds, FunctionKinds
<1> QED BY <1>7, <1>8, GoneNone DEF q

\* An operation on the bytes or the mapping at rs keeps the invariant when it queues the removals of
\* the functions that it removes.
LEMMA InvalidatedKeeps ==
  ASSUME StagingInv, Ready, NEW rs \in SUBSET Place, Invalidated(rs), Gone(todo', Invalid(rs)),
         staging' = staging, placed' \in [Mapping -> SUBSET Place]
  PROVE  StagingInv'
<1> DEFINE fs == Invalid(rs)
<1>1. /\ body \in [Entry -> SUBSET Place] /\ rebuilt \in SUBSET Entry
      /\ body' = [f \in Entry |-> IF f \in fs THEN {} ELSE body[f]] /\ rebuilt' = rebuilt \cup fs
      /\ fs \in SUBSET Entry /\ \A f \in fs : body[f] # {}
  BY DEF StagingInv, Invalidated, Invalid
<1> HIDE DEF fs
<1>2. todo' \in Seq(ChangeRecords) /\ body' \in [Entry -> SUBSET Place] /\ rebuilt' \in SUBSET Entry
  BY <1>1 DEF Gone
<1>3. ASSUME NEW f \in Entry
      PROVE  \/ Tells(todo', f) = {} /\ body'[f] = body[f] /\ (f \in rebuilt' <=> f \in rebuilt)
             \/ \E j : /\ Tells(todo', f) = {j}
                       /\ Follows(todo'[j], body[f], body'[f], f \in rebuilt, f \in rebuilt')
  <2>1. CASE f \in fs
    <3>1. PICK j : Tells(todo', f) = {j}
      BY <2>1 DEF Gone, fs
    <3>2. /\ todo'[j].kind = "FunctionRemoved" /\ todo'[j].cover = body[f]
      BY <3>1 DEF Gone, Tells
    <3>3. body'[f] = {} /\ body[f] # {} /\ f \in rebuilt'
      BY <1>1, <2>1
    <3>4. Follows(todo'[j], body[f], body'[f], f \in rebuilt, f \in rebuilt')
      BY <3>2, <3>3 DEF Follows
    <3> QED BY <3>1, <3>4
  <2>2. CASE f \notin fs
    <3>1. Tells(todo', f) = {}
      BY <2>2 DEF Gone, Tells, fs
    <3> QED BY <1>1, <2>2, <3>1
  <2> QED BY <2>1, <2>2
<1> QED BY <1>2, <1>3, OperationKeeps

\* An operation that pushes one record.
LEMMA OneRecord ==
  ASSUME NEW r \in ChangeRecords, NEW f
  PROVE  /\ <<r>> \in Seq(ChangeRecords) /\ <<r>>[1] = r
         /\ r.kind \in FunctionKinds /\ r.id = f => Tells(<<r>>, f) = {1}
         /\ ~(r.kind \in FunctionKinds /\ r.id = f) => Tells(<<r>>, f) = {}
<1>1. <<r>> \in Seq(ChangeRecords) /\ DOMAIN <<r>> = {1} /\ <<r>>[1] = r
  OBVIOUS
<1> QED BY <1>1 DEF Tells

\* Each operation keeps the invariant.
LEMMA StagingStep == StagingInv /\ [StagingNext]_transaction => StagingInv'
<1> SUFFICES ASSUME StagingInv, [StagingNext]_transaction PROVE StagingInv'
  OBVIOUS
<1>0. /\ body \in [Entry -> SUBSET Place] /\ rebuilt \in SUBSET Entry /\ placed \in [Mapping -> SUBSET Place]
  BY DEF StagingInv
<1>1. ASSUME NEW f \in Entry, NEW cover \in (SUBSET Place) \ {{}}, StageFunction(f, cover)
      PROVE  StagingInv'
  <2> DEFINE r == ChangeRecord(IF body[f] = {} THEN "FunctionAdded" ELSE "FunctionChanged", f, body[f] \cup cover)
  <2>1. /\ Ready /\ staging' = staging /\ placed' = placed /\ todo' = <<r>>
        /\ body' = [body EXCEPT ![f] = cover] /\ rebuilt' = rebuilt \cup {f}
    BY <1>1 DEF StageFunction
  <2>2. /\ r \in ChangeRecords /\ r.kind \in FunctionKinds /\ r.id = f /\ r.cover = body[f] \cup cover
        /\ r.kind = IF body[f] = {} THEN "FunctionAdded" ELSE "FunctionChanged"
    BY <1>0, <1>1 DEF ChangeRecord, ChangeRecords, Kind, FunctionKinds, Subject
  <2> HIDE DEF r
  <2>3. Follows(r, body[f], body'[f], f \in rebuilt, f \in rebuilt')
    BY <1>0, <1>1, <2>1, <2>2 DEF Follows
  <2>4. ASSUME NEW g \in Entry
        PROVE  \/ Tells(todo', g) = {} /\ body'[g] = body[g] /\ (g \in rebuilt' <=> g \in rebuilt)
               \/ \E j : /\ Tells(todo', g) = {j}
                         /\ Follows(todo'[j], body[g], body'[g], g \in rebuilt, g \in rebuilt')
    <3>1. CASE g = f
      BY <2>1, <2>2, <2>3, <3>1, OneRecord
    <3>2. CASE g # f
      BY <1>0, <2>1, <2>2, <3>2, OneRecord
    <3> QED BY <3>1, <3>2
  <2>5. todo' \in Seq(ChangeRecords) /\ body' \in [Entry -> SUBSET Place] /\ rebuilt' \in SUBSET Entry
    BY <1>0, <1>1, <2>1, <2>2, OneRecord
  <2> QED BY <1>0, <2>1, <2>4, <2>5, OperationKeeps
<1>2. ASSUME NEW f \in Entry, UpdateFunctionProperties(f)
      PROVE  StagingInv'
  <2> DEFINE r == ChangeRecord("FunctionProperties", f, body[f])
  <2>1. /\ Ready /\ staging' = staging /\ placed' = placed /\ todo' = <<r>> /\ body[f] # {}
        /\ body' = body /\ rebuilt' = rebuilt
    BY <1>2 DEF UpdateFunctionProperties
  <2>2. /\ r \in ChangeRecords /\ r.kind \in FunctionKinds /\ r.id = f /\ r.cover = body[f]
        /\ r.kind = "FunctionProperties"
    BY <1>0, <1>2 DEF ChangeRecord, ChangeRecords, Kind, FunctionKinds, Subject
  <2> HIDE DEF r
  <2>3. Follows(r, body[f], body'[f], f \in rebuilt, f \in rebuilt')
    BY <2>1, <2>2 DEF Follows
  <2>4. ASSUME NEW g \in Entry
        PROVE  \/ Tells(todo', g) = {} /\ body'[g] = body[g] /\ (g \in rebuilt' <=> g \in rebuilt)
               \/ \E j : /\ Tells(todo', g) = {j}
                         /\ Follows(todo'[j], body[g], body'[g], g \in rebuilt, g \in rebuilt')
    <3>1. CASE g = f
      BY <2>1, <2>2, <2>3, <3>1, OneRecord
    <3>2. CASE g # f
      BY <2>1, <2>2, <3>2, OneRecord
    <3> QED BY <3>1, <3>2
  <2>5. todo' \in Seq(ChangeRecords)
    BY <2>1, <2>2, OneRecord
  <2> QED BY <1>0, <2>1, <2>4, <2>5, OperationKeeps
<1>3. ASSUME NEW f \in Entry, StageFunctionRemoval(f)
      PROVE  StagingInv'
  <2> DEFINE r == ChangeRecord("FunctionRemoved", f, body[f])
  <2>1. /\ Ready /\ staging' = staging /\ placed' = placed /\ todo' = <<r>> /\ body[f] # {}
        /\ body' = [body EXCEPT ![f] = {}] /\ rebuilt' = rebuilt \cup {f}
    BY <1>3 DEF StageFunctionRemoval
  <2>2. /\ r \in ChangeRecords /\ r.kind \in FunctionKinds /\ r.id = f /\ r.cover = body[f]
        /\ r.kind = "FunctionRemoved"
    BY <1>0, <1>3 DEF ChangeRecord, ChangeRecords, Kind, FunctionKinds, Subject
  <2> HIDE DEF r
  <2>3. Follows(r, body[f], body'[f], f \in rebuilt, f \in rebuilt')
    BY <1>0, <2>1, <2>2 DEF Follows
  <2>4. ASSUME NEW g \in Entry
        PROVE  \/ Tells(todo', g) = {} /\ body'[g] = body[g] /\ (g \in rebuilt' <=> g \in rebuilt)
               \/ \E j : /\ Tells(todo', g) = {j}
                         /\ Follows(todo'[j], body[g], body'[g], g \in rebuilt, g \in rebuilt')
    <3>1. CASE g = f
      BY <2>1, <2>2, <2>3, <3>1, OneRecord
    <3>2. CASE g # f
      BY <1>0, <2>1, <2>2, <3>2, OneRecord
    <3> QED BY <3>1, <3>2
  <2>5. todo' \in Seq(ChangeRecords) /\ body' \in [Entry -> SUBSET Place] /\ rebuilt' \in SUBSET Entry
    BY <1>0, <2>1, <2>2, OneRecord
  <2> QED BY <1>0, <2>1, <2>4, <2>5, OperationKeeps
<1>4. ASSUME NEW x \in Place, WriteBytes(x)
      PROVE  StagingInv'
  <2> DEFINE r == ChangeRecord("BytesWritten", "bytes", {x})
  <2>1. /\ Ready /\ staging' = staging /\ placed' = placed /\ Invalidated({x})
        /\ todo' = Append(Removals({x}), r)
    BY <1>4 DEF WriteBytes
  <2>2. r \in ChangeRecords /\ r.kind \notin FunctionKinds
    BY <1>4 DEF ChangeRecord, ChangeRecords, Kind, FunctionKinds, Subject
  <2> HIDE DEF r
  <2>3. Gone(<<r>>, {})
    BY <2>2, GoneOne
  <2>4. Gone(Removals({x}), Invalid({x})) /\ Removals({x}) \in Seq(ChangeRecords)
    BY <1>0, GoneRemoved DEF Removals, Invalid, Gone
  <2>5. Append(Removals({x}), r) = Removals({x}) \o <<r>>
    BY <2>2, <2>4
  <2>6. Gone(Removals({x}) \o <<r>>, Invalid({x}) \cup {})
    BY <2>3, <2>4, GoneBoth
  <2>7. Invalid({x}) \cup {} = Invalid({x})
    OBVIOUS
  <2>8. Gone(todo', Invalid({x}))
    BY <2>1, <2>5, <2>6, <2>7
  <2> QED BY <1>0, <1>4, <2>1, <2>8, InvalidatedKeeps
<1>5. ASSUME NEW m \in Mapping, NEW x \in Place, AddMappingToSpace(m, x)
      PROVE  StagingInv'
  <2> DEFINE r == ChangeRecord("SegmentMapped", m, {x})
  <2>1. /\ Ready /\ staging' = staging /\ placed' \in [Mapping -> SUBSET Place] /\ Invalidated({x})
        /\ todo' = <<r>> \o Removals({x})
    BY <1>0, <1>5 DEF AddMappingToSpace
  <2>2. r \in ChangeRecords /\ r.kind \notin FunctionKinds
    BY <1>5 DEF ChangeRecord, ChangeRecords, Kind, FunctionKinds, PlacementKinds, Subject
  <2> HIDE DEF r
  <2>3. Gone(<<r>>, {})
    BY <2>2, GoneOne
  <2>4. Gone(Removals({x}), Invalid({x}))
    BY <1>0, GoneRemoved DEF Removals, Invalid
  <2>5. Gone(<<r>> \o Removals({x}), {} \cup Invalid({x}))
    BY <2>3, <2>4, GoneBoth
  <2>6. {} \cup Invalid({x}) = Invalid({x})
    OBVIOUS
  <2>7. Gone(todo', Invalid({x}))
    BY <2>1, <2>5, <2>6
  <2> QED BY <1>5, <2>1, <2>7, InvalidatedKeeps
<1>6. ASSUME NEW m \in Mapping, NEW new \in SUBSET Place, MoveMapping(m, new)
      PROVE  StagingInv'
  <2> DEFINE old == placed[m]
             first == Placements("SegmentUnmapped", m, old)
             second == Removals(old)
             third == Placements("SegmentMapped", m, new)
             rest == Invalid(new) \ Invalid(old)
             fourth == Removed(rest)
  <2>1. /\ Ready /\ staging' = staging /\ placed' \in [Mapping -> SUBSET Place] /\ Invalidated(old \cup new)
        /\ todo' = ((first \o second) \o third) \o fourth /\ old \in SUBSET Place
    BY <1>0, <1>6 DEF MoveMapping
  <2>2. Gone(first, {}) /\ Gone(third, {})
    BY <1>6, <2>1, GonePlacements DEF PlacementKinds
  <2>3. Gone(second, Invalid(old))
    BY <1>0, GoneRemoved DEF Removals, Invalid
  <2>4. Gone(fourth, rest)
    BY <1>0, GoneRemoved DEF Invalid
  <2>5. Invalid(old) \cup rest = Invalid(old \cup new)
    BY DEF Invalid
  <2>6. {} \cap Invalid(old) = {} /\ {} \cup Invalid(old) = Invalid(old)
    OBVIOUS
  <2>7. Invalid(old) \cap {} = {} /\ Invalid(old) \cup {} = Invalid(old) /\ Invalid(old) \cap rest = {}
    OBVIOUS
  <2> HIDE DEF first, second, third, fourth, rest, old
  <2>8. Gone(first \o second, Invalid(old))
    BY <2>2, <2>3, <2>6, GoneBoth
  <2>9. Gone((first \o second) \o third, Invalid(old))
    BY <2>2, <2>7, <2>8, GoneBoth
  <2>10. Gone(todo', Invalid(old \cup new))
    <3>1. Gone(((first \o second) \o third) \o fourth, Invalid(old) \cup rest)
      BY <2>4, <2>7, <2>9, GoneBoth
    <3> QED BY <2>1, <2>5, <3>1
  <2>11. old \cup new \in SUBSET Place
    BY <1>6, <2>1
  <2> QED BY <2>1, <2>10, <2>11, InvalidatedKeeps
<1>7. ASSUME NEW m \in Mapping, UpdateMappingMetadata(m)
      PROVE  StagingInv'
  <2> DEFINE r == ChangeRecord("SegmentMappingChanged", m, placed[m])
  <2>1. /\ Ready /\ staging' = staging /\ placed' = placed /\ todo' = <<r>> /\ body' = body /\ rebuilt' = rebuilt
    BY <1>7 DEF UpdateMappingMetadata
  <2>2. r \in ChangeRecords /\ r.kind \notin FunctionKinds
    BY <1>0, <1>7 DEF ChangeRecord, ChangeRecords, Kind, FunctionKinds, Subject
  <2> HIDE DEF r
  <2>3. todo' \in Seq(ChangeRecords) /\ \A g \in Entry : Tells(todo', g) = {}
    BY <2>1, <2>2, OneRecord
  <2> QED BY <1>0, <2>1, <2>3, OperationKeeps
<1>8. ASSUME PublishSymbol PROVE StagingInv'
  <2> DEFINE r == ChangeRecord("Symbol", "symbol", {})
  <2>1. /\ Ready /\ staging' = staging /\ placed' = placed /\ todo' = <<r>> /\ body' = body /\ rebuilt' = rebuilt
    BY <1>8 DEF PublishSymbol
  <2>2. r \in ChangeRecords /\ r.kind \notin FunctionKinds
    BY DEF ChangeRecord, ChangeRecords, Kind, FunctionKinds, Subject
  <2> HIDE DEF r
  <2>3. todo' \in Seq(ChangeRecords) /\ \A g \in Entry : Tells(todo', g) = {}
    BY <2>1, <2>2, OneRecord
  <2> QED BY <1>0, <2>1, <2>3, OperationKeeps
<1>9. ASSUME UNCHANGED transaction PROVE StagingInv'
  BY <1>9 DEF transaction, StagingInv
<1> QED BY <1>1, <1>2, <1>3, <1>4, <1>5, <1>6, <1>7, <1>8, <1>9, PushKeeps DEF StagingNext

\* The invariant holds before the first operation.
LEMMA StagingStart == StagingInit => StagingInv
<1> SUFFICES ASSUME StagingInit PROVE StagingInv
  OBVIOUS
<1>1. /\ staging.records = << >> /\ DOMAIN staging.indices = {} /\ staging.counts = [k \in Kind |-> 0]
      /\ staging.kinds = {} /\ staging.semantic = 0 /\ staging.collapsed = FALSE
      /\ DOMAIN staging = {"records", "indices", "counts", "kinds", "semantic", "collapsed"}
      /\ todo = << >> /\ body = Before /\ rebuilt = {} /\ placed = Placed
  BY DEF StagingInit
<1>2. Shaped(staging)
  <2>1. staging.records \in Seq(ChangeRecords) /\ Len(staging.records) = 0 /\ 0 <= MaxRecords
    BY <1>1, StagingAssumption
  <2>2. staging.counts \in [Kind -> Nat] /\ staging.kinds \in SUBSET Kind
    BY <1>1
  <2>3. staging.semantic \in Nat /\ staging.collapsed \in BOOLEAN /\ Len(staging.records) <= MaxRecords
    <3>1. staging.semantic \in Nat
      BY <1>1
    <3>2. staging.collapsed \in BOOLEAN
      BY <1>1, Zenon
    <3>3. Len(staging.records) <= MaxRecords
      BY <2>1
    <3> QED BY <3>1, <3>2, <3>3
  <2>4. DOMAIN staging = {"records", "indices", "counts", "kinds", "semantic", "collapsed"}
    BY <1>1
  <2> QED BY <2>1, <2>2, <2>3, <2>4 DEF Shaped
<1>3. \A K : Number(staging.records, K) = 0
  <2> TAKE K
  <2>1. At(staging.records, K) = {}
    BY <1>1 DEF At
  <2> QED BY <2>1, FS_EmptySet DEF Number
<1>4. Exact(staging)
  BY <1>1, <1>3 DEF Exact, Indexed, CountedRight
<1>5. \A f : Tells(todo, f) = {} /\ Told(staging.records, f) = {}
  BY <1>1 DEF Tells, Told
<1>6. \A f \in Entry : Reflected({}, todo, f, body[f], f \in rebuilt) /\ Known(0, todo, f, body[f], f \in rebuilt)
  BY <1>1, <1>5 DEF Reflected, Accurate, Known
<1>7. todo \in Seq(ChangeRecords)
  BY <1>1
<1> QED BY <1>1, <1>2, <1>4, <1>5, <1>6, <1>7, StagingAssumption DEF StagingInv

\* The invariant holds throughout.
LEMMA StagingInvariant == StagingSpec => []StagingInv
BY StagingStart, StagingStep, PTL DEF StagingSpec

\* The index, the counts, the kinds and the semantic count of a staging describe its records, through
\* every sequence of operations, for every limit (push, swap_remove, add_metadata, remove_metadata).
THEOREM StagingStaysExact == StagingSpec => []StagingExact
<1>1. StagingInv => StagingExact
  <2> SUFFICES ASSUME StagingInv, staging.collapsed = FALSE PROVE StagingExact
    BY DEF StagingInv, Shaped, StagingExact, IndexExact, MetadataExact
  <2> DEFINE q == staging.records
  <2>1. Indexed(staging) /\ CountedRight(staging) /\ q \in Seq(ChangeRecords)
    BY DEF StagingInv, Exact, Shaped
  <2>2. IndexExact
    BY <2>1 DEF IndexExact, Indexed, Positions
  <2>3. \A k \in Kind : staging.counts[k] = Cardinality({ i \in Positions : q[i].kind = k })
    <3> TAKE k \in Kind
    <3>1. At(q, {k}) = { i \in Positions : q[i].kind = k }
      BY DEF At, Positions
    <3> QED BY <2>1, <3>1 DEF CountedRight, Number
  <2>4. staging.semantic = Cardinality({ i \in Positions : AffectsLiftedInputs(q[i]) })
    <3>1. \A i \in Positions : q[i] \in ChangeRecords
      BY <2>1 DEF Positions
    <3>2. At(q, SemanticKinds) = { i \in Positions : AffectsLiftedInputs(q[i]) }
      BY <3>1, SemanticByKind DEF At, Positions
    <3> QED BY <2>1, <3>2 DEF CountedRight, Number
  <2>5. staging.kinds = { q[i].kind : i \in Positions }
    <3>1. ASSUME NEW k \in Kind PROVE staging.counts[k] > 0 <=> \E i \in Positions : q[i].kind = k
      <4>1. staging.counts[k] = Number(q, {k}) /\ IsFiniteSet(At(q, {k})) /\ Number(q, {k}) \in Nat
        BY <2>1, AtFinite DEF CountedRight
      <4>2. Number(q, {k}) = 0 <=> At(q, {k}) = {}
        BY <4>1, FS_EmptySet DEF Number
      <4>3. At(q, {k}) = {} <=> ~\E i \in Positions : q[i].kind = k
        BY DEF At, Positions
      <4> QED BY <4>1, <4>2, <4>3
    <3>2. \A i \in Positions : q[i].kind \in Kind
      <4>1. \A i \in Positions : q[i] \in ChangeRecords
        BY <2>1 DEF Positions
      <4> QED BY <4>1 DEF ChangeRecords
    <3>3. staging.kinds = { k \in Kind : staging.counts[k] > 0 }
      BY <2>1 DEF CountedRight
    <3> HIDE DEF q
    <3> QED BY <3>1, <3>2, <3>3
  <2> QED BY <2>2, <2>3, <2>4, <2>5 DEF StagingExact, MetadataExact
<1> QED BY <1>1, StagingInvariant, PTL

\* Between operations each function that the transaction left different is told of by one record,
\* with the kind of the net change and all its places, and one that came and went by none, whatever
\* the operations and however often a function was changed (coalesce).
THEOREM NetChangesReported == StagingSpec => []NetReported
<1>1. StagingInv => NetReported
  <2> SUFFICES ASSUME StagingInv, todo = << >>, staging.collapsed = FALSE, NEW f \in Entry
               PROVE  /\ Before[f] = {} /\ body[f] = {} => About(f) = {}
                      /\ f \in rebuilt /\ (Before[f] # {} \/ body[f] # {}) =>
                           \E i \in Positions :
                             /\ About(f) = {i}
                             /\ staging.records[i].kind \in NetKinds(f)
                             /\ Before[f] \cup body[f] \subseteq staging.records[i].cover
    BY DEF StagingInv, Shaped, NetReported
  <2> DEFINE q == staging.records
             T == Told(q, f)
  <2>1. About(f) = Tells(q, f)
    BY DEF About, Positions, Tells
  <2>2. Tells(todo, f) = {}
    BY DEF Tells
  <2>3. Accurate(T, f, body[f], f \in rebuilt)
    BY <2>2 DEF StagingInv, Reflected
  <2>4. \A i, j \in Tells(q, f) : i = j
    BY ToldOnce DEF StagingInv, Exact
  <2>5. KindsFor(f, body[f], f \in rebuilt) = NetKinds(f)
    BY DEF KindsFor, NetKinds
  <2>6. Before[f] = {} /\ body[f] = {} => About(f) = {}
    BY <2>1, <2>3 DEF Accurate, Told
  <2>7. ASSUME f \in rebuilt, Before[f] # {} \/ body[f] # {}
        PROVE  \E i \in Positions :
                 /\ About(f) = {i} /\ q[i].kind \in NetKinds(f)
                 /\ Before[f] \cup body[f] \subseteq q[i].cover
    <3>1. T # {} /\ \A e \in T : e.kind \in NetKinds(f) /\ Before[f] \cup body[f] \subseteq e.cover
      BY <2>3, <2>5, <2>7 DEF Accurate
    <3>2. PICK i \in Tells(q, f) : q[i] \in T
      BY <3>1 DEF Told
    <3>3. i \in Positions /\ About(f) = {i}
      BY <2>1, <2>4, <3>2 DEF Tells, Positions
    <3> QED BY <3>1, <3>2, <3>3
  <2> QED BY <2>6, <2>7
<1> QED BY <1>1, StagingInvariant, PTL

\* A transaction that replaced or removed a function is known to have changed the inputs of lifting,
\* also after the detail of its records was given up (push, semantic).
THEOREM SemanticNeverLost == StagingSpec => []SemanticKept
<1>1. StagingInv => SemanticKept
  <2> SUFFICES ASSUME StagingInv, todo = << >>, NEW f \in rebuilt, Before[f] # {} \/ body[f] # {}
               PROVE  staging.semantic > 0
    BY DEF SemanticKept
  <2>1. f \in Entry /\ Tells(todo, f) = {}
    BY DEF StagingInv, Tells
  <2> QED BY <2>1 DEF StagingInv, Known
<1> QED BY <1>1, StagingInvariant, PTL
=============================================================================
