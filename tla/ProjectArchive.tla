----------------------------- MODULE ProjectArchive -----------------------------
(***************************************************************************)
(* The life of a stored project: its packed archive (.fdbz), the unpacked  *)
(* directory (.fdb) a session works in, and what survives when opening,    *)
(* persisting, packing or removing fails or the process dies.              *)
(*                                                                         *)
(* Contents are abstracted to versions: the tables of the entity database  *)
(* (written by every commit), the segment metadata (kept in memory until   *)
(* the project is persisted), the index of the calls and flow references   *)
(* of functions, which a rebuild restores, the derived references of       *)
(* switches and of data, which it drops, the revision both are marked for, *)
(* the stored revisions, and one lifted artefact with the inputs it was    *)
(* made from.                                                              *)
(***************************************************************************)
EXTENDS Integers

CONSTANTS
  None, Torn, Partial,   \* no file; an unfinished file; an incomplete directory
  Broken,                \* an index that was cleared and not yet rebuilt
  Faults,                \* the steps that may fail, and "crash"
  MaxChanges, MaxSessions  \* bounds of the instance

VARIABLES
  packed,    \* the archive: None, Torn or a content
  unpacked,  \* the directory: None, Partial or a content
  pc,        \* where the process is
  memory,    \* the open project: revision, semantic revision, segments
  loadable,  \* the session was started from the program and not from an archive
  kept,      \* history: what the last complete persist wrote
  changed,   \* history: something was committed since
  clean,     \* history: no persist has failed so far
  damaged,   \* history: an error tore the segment metadata, or removed half a directory
  clock, sessions

vars == <<packed, unpacked, pc, memory, loadable, kept, changed, clean, damaged, clock,
          sessions>>
files == <<packed, unpacked>>
history == <<kept, changed, clean, damaged>>

Version == 0..MaxChanges
Revisions == [rev : Nat, sem : Nat]
Artefact == [tables : Version, segments : Version, rev : Nat]
Content ==
  [standalone : BOOLEAN, tables : Version, index : Version \cup {Broken},
   derived : Version \cup {Broken}, marker : Nat \cup {None},
   revisions : Revisions \cup {None}, segments : Version \cup {Torn}, artefact : Artefact \cup {None}]

IsContent(f) == f \notin {None, Torn, Partial}

\* What stands for a missing or damaged thing is none of the things.
ASSUME ArchiveConstants ==
  /\ MaxChanges \in Nat
  /\ None \notin Content /\ Torn \notin Content /\ Partial \notin Content
  /\ None \notin Revisions /\ None \notin Artefact
  /\ None \notin Nat /\ Torn \notin Nat /\ Broken \notin Nat
  /\ None # Torn /\ None # Partial /\ Torn # Partial

\* What SegmentStorage::from_loadable and an empty database leave in the directory.
Imported ==
  [standalone |-> FALSE, tables |-> 0, index |-> Broken, derived |-> Broken,
   marker |-> None, revisions |-> None, segments |-> 0, artefact |-> None]

NewProject == [rev |-> 0, sem |-> 0]

\* The revisions a project begins with: the stored ones, or those of a new project.
LoadedRevisions(f) == IF f.revisions = None THEN NewProject ELSE f.revisions

Init ==
  /\ packed = None /\ unpacked = None
  /\ pc = "closed"
  /\ memory = [revisions |-> NewProject, segments |-> 0]
  /\ loadable = FALSE
  /\ kept = None /\ changed = FALSE /\ clean = TRUE /\ damaged = FALSE
  /\ clock = 0 /\ sessions = 0

Fails(fault) == fault \in Faults

--------------------------------------------------------------------------------
\* CompressedPersistentStorage::create: there is no archive, and the directory must
\* not exist.
Create ==
  /\ pc = "closed" /\ sessions < MaxSessions
  /\ packed = None /\ unpacked = None
  /\ unpacked' = Imported
  /\ loadable' = TRUE
  /\ pc' = "load"
  /\ sessions' = sessions + 1
  /\ UNCHANGED <<packed, memory, history, clock>>

\* unpack: with an archive, and likewise only when the directory does not exist.
Unpack ==
  /\ pc = "closed" /\ sessions < MaxSessions
  /\ packed # None /\ unpacked = None
  /\ unpacked' = Partial
  /\ loadable' = FALSE
  /\ pc' = "extract"
  /\ sessions' = sessions + 1
  /\ UNCHANGED <<packed, memory, history, clock>>

\* An error while extracting removes the directory again; a torn archive is an error.
Extract ==
  /\ pc = "extract"
  /\ \/ /\ IsContent(packed)
        /\ unpacked' = packed
        /\ pc' = "load"
     \/ /\ ~IsContent(packed) \/ Fails("extract")
        /\ unpacked' = None
        /\ pc' = "closed"
  /\ UNCHANGED <<packed, memory, loadable, history, clock, sessions>>

\* SegmentStorage::from_storage refuses torn metadata.  Nothing cleans up yet: the
\* directory stays.
LoadSegments ==
  /\ pc = "load"
  /\ IF unpacked.segments = Torn
       THEN pc' = "closed" /\ UNCHANGED memory
       ELSE /\ memory' = [memory EXCEPT !.segments = unpacked.segments]
            /\ pc' = "tables"
  /\ UNCHANGED <<files, loadable, history, clock, sessions>>

\* Project::from_storage.  From here on an error drops the StorageContainer, which packs.
LoadTables ==
  /\ pc = "tables"
  /\ IF unpacked.standalone \/ loadable
       THEN LET stored == LoadedRevisions(unpacked) IN
            /\ memory' = [memory EXCEPT !.revisions = stored]
            /\ pc' = IF unpacked.marker = stored.rev THEN "open" ELSE "rebuild"
       ELSE pc' = "drop" /\ UNCHANGED memory
  /\ UNCHANGED <<files, loadable, history, clock, sessions>>

\* Mutant: the index is marked for the revision before it is rebuilt.
RebuildClearMarked ==
  /\ pc = "rebuild"
  /\ unpacked' = [unpacked EXCEPT !.index = Broken, !.derived = Broken,
                                  !.marker = memory.revisions.rev]
  /\ pc' = "refill"
  /\ UNCHANGED <<packed, memory, loadable, history, clock, sessions>>

\* ensure_current: clear the calls and every derived reference ...
RebuildClear ==
  /\ pc = "rebuild"
  /\ unpacked' = [unpacked EXCEPT !.index = Broken, !.derived = Broken]
  /\ pc' = "refill"
  /\ UNCHANGED <<packed, memory, loadable, history, clock, sessions>>

\* ... insert again what the functions call and refer to, and no more: there is nothing
\* else to restore only while the tables are empty ...
RebuildFlush ==
  /\ pc = "refill"
  /\ unpacked' = [unpacked EXCEPT
       !.index = unpacked.tables,
       !.derived = IF unpacked.tables = 0 THEN 0 ELSE Broken]
  /\ pc' = "mark"
  /\ UNCHANGED <<packed, memory, loadable, history, clock, sessions>>

\* ... and mark both for the revision.
RebuildMark ==
  /\ pc = "mark"
  /\ unpacked' = [unpacked EXCEPT !.marker = memory.revisions.rev]
  /\ pc' = "open"
  /\ UNCHANGED <<packed, memory, loadable, history, clock, sessions>>

RebuildFails ==
  /\ pc \in {"rebuild", "refill", "mark"} /\ Fails("rebuild")
  /\ pc' = "drop"
  /\ UNCHANGED <<files, memory, loadable, history, clock, sessions>>

--------------------------------------------------------------------------------
\* ProjectRevisionState::advance
Advanced(semantic) ==
  LET rev == memory.revisions.rev + 1 IN
    [rev |-> rev, sem |-> IF semantic THEN rev ELSE memory.revisions.sem]

\* The index of tables that are changed again, with the change.
IndexedAnew(index) == IF index = unpacked.tables THEN clock + 1 ELSE Broken

\* A commit that changes the tables writes their index in the same batch.
CommitTables ==
  /\ pc = "open" /\ clock < MaxChanges
  /\ clock' = clock + 1
  /\ unpacked' = [unpacked EXCEPT
       !.tables = clock + 1,
       !.index = IndexedAnew(unpacked.index),
       !.derived = IndexedAnew(unpacked.derived)]
  /\ memory' = [memory EXCEPT !.revisions = Advanced(TRUE)]
  /\ changed' = TRUE
  /\ UNCHANGED <<packed, pc, loadable, kept, clean, damaged, sessions>>

\* Mutant: a change of segments is not counted as semantic.
CommitSegmentsQuiet ==
  /\ pc = "open" /\ clock < MaxChanges
  /\ clock' = clock + 1
  /\ memory' = [revisions |-> Advanced(FALSE), segments |-> clock + 1]
  /\ changed' = TRUE
  /\ UNCHANGED <<files, pc, loadable, kept, clean, damaged, sessions>>

\* A commit that changes segments changes them in memory alone.
CommitSegments ==
  /\ pc = "open" /\ clock < MaxChanges
  /\ clock' = clock + 1
  /\ memory' = [revisions |-> Advanced(TRUE), segments |-> clock + 1]
  /\ changed' = TRUE
  /\ UNCHANGED <<files, pc, loadable, kept, clean, damaged, sessions>>

\* replace_lifted: the artefact is stored with the semantic revision of its inputs.
CommitLifted ==
  /\ pc = "open"
  /\ LET made == [tables |-> unpacked.tables, segments |-> memory.segments,
                  rev |-> memory.revisions.sem] IN
       /\ unpacked.artefact # made
       /\ unpacked' = [unpacked EXCEPT !.artefact = made]
  /\ memory' = [memory EXCEPT !.revisions = Advanced(FALSE)]
  /\ changed' = TRUE
  /\ UNCHANGED <<packed, pc, loadable, kept, clean, damaged, clock,
                 sessions>>

--------------------------------------------------------------------------------
\* Drop for Project: persist, the tables first ...
PersistTables ==
  /\ pc = "open"
  /\ unpacked' = [unpacked EXCEPT !.standalone = TRUE]
  /\ pc' = "persist_marker"
  /\ UNCHANGED <<packed, memory, loadable, history, clock, sessions>>

\* ... then the index marker ...
PersistMarker ==
  /\ pc = "persist_marker"
  /\ unpacked' = [unpacked EXCEPT !.marker = memory.revisions.rev]
  /\ pc' = "persist_segments"
  /\ UNCHANGED <<packed, memory, loadable, history, clock, sessions>>

\* ... then the segment metadata, written over the old file if it has changed ...
PersistSegments ==
  /\ pc = "persist_segments"
  /\ unpacked' = [unpacked EXCEPT !.segments = memory.segments]
  /\ pc' = "persist_revision"
  /\ UNCHANGED <<packed, memory, loadable, history, clock, sessions>>

\* Mutant: the semantic revision is not stored with the revision.
StoredRevisionsMerged ==
  [rev |-> memory.revisions.rev, sem |-> memory.revisions.rev]

StoredRevisions ==
  memory.revisions

\* ... and the revisions last.
PersistRevision ==
  /\ pc = "persist_revision"
  /\ unpacked' = [unpacked EXCEPT !.revisions = StoredRevisions]
  /\ kept' = [tables |-> unpacked.tables, segments |-> memory.segments,
              revisions |-> memory.revisions, artefact |-> unpacked.artefact]
  /\ changed' = FALSE
  /\ pc' = "drop"
  /\ UNCHANGED <<packed, memory, loadable, clean, damaged, clock, sessions>>

\* An error ends the persisting where it is, is logged, and the drop goes on.
PersistFails ==
  /\ \/ /\ pc \in {"open", "persist_marker", "persist_segments", "persist_revision"}
        /\ Fails("persist")
        /\ UNCHANGED <<unpacked, damaged>>
     \/ /\ pc = "persist_segments" /\ memory.segments # unpacked.segments
        /\ Fails("segments")
        /\ unpacked' = [unpacked EXCEPT !.segments = Torn]
        /\ damaged' = TRUE
  /\ clean' = FALSE
  /\ pc' = "drop"
  /\ UNCHANGED <<packed, memory, loadable, kept, changed, clock, sessions>>

\* CompressedPersistentStorage::pack, when the StorageContainer is dropped: the archive
\* is written over the old one, and then the directory is removed.
PackStart ==
  /\ pc = "drop"
  /\ packed' = Torn
  /\ pc' = "pack"
  /\ UNCHANGED <<unpacked, memory, loadable, history, clock, sessions>>

\* Mutant: the directory is removed before the archive is complete.
PackDoneRemoving ==
  /\ pc = "pack"
  /\ unpacked' = None
  /\ packed' = Torn
  /\ pc' = "remove"
  /\ UNCHANGED <<memory, loadable, history, clock, sessions>>

PackDone ==
  /\ pc = "pack"
  /\ packed' = unpacked
  /\ pc' = "remove"
  /\ UNCHANGED <<unpacked, memory, loadable, history, clock, sessions>>

RemoveUnpacked ==
  /\ pc = "remove"
  /\ unpacked' = None
  /\ pc' = "closed"
  /\ UNCHANGED <<packed, memory, loadable, history, clock, sessions>>

\* cleanup_storage: any error of pack removes the archive (or fails to, and logs it).
\* A removal of the directory that fails may have removed a part of it.
PackFails ==
  /\ \/ /\ pc \in {"drop", "pack"} /\ Fails("pack")
        /\ UNCHANGED <<unpacked, damaged>>
     \/ /\ pc = "remove" /\ Fails("remove")
        /\ unpacked' = Partial
        /\ damaged' = TRUE
     \/ /\ pc = "remove" /\ Fails("remove_none")
        /\ UNCHANGED <<unpacked, damaged>>
  /\ packed' \in {None, packed}
  /\ pc' = "closed"
  /\ UNCHANGED <<memory, loadable, kept, changed, clean, clock, sessions>>

\* The process dies: the files stay as they are, the one being written or removed in
\* part.
Crash ==
  /\ pc # "closed" /\ Fails("crash")
  /\ \/ UNCHANGED unpacked
     \/ /\ pc = "persist_segments" /\ memory.segments # unpacked.segments
        /\ unpacked' = [unpacked EXCEPT !.segments = Torn]
     \/ pc = "remove" /\ unpacked' = Partial
  /\ pc' = "closed"
  /\ UNCHANGED <<packed, memory, loadable, history, clock, sessions>>

Next ==
  \/ Create \/ Unpack \/ Extract \/ LoadSegments \/ LoadTables
  \/ RebuildClear \/ RebuildFlush \/ RebuildMark \/ RebuildFails
  \/ CommitTables \/ CommitSegments \/ CommitLifted
  \/ PersistTables \/ PersistMarker \/ PersistSegments \/ PersistRevision \/ PersistFails
  \/ PackStart \/ PackDone \/ RemoveUnpacked \/ PackFails
  \/ Crash

Spec == Init /\ [][Next]_vars

--------------------------------------------------------------------------------
(***************************************************************************)
(* Properties                                                              *)
(***************************************************************************)

\* Files, session and history keep to their types.
ArchiveTypeOK ==
  /\ packed \in Content \cup {None, Torn}
  /\ unpacked \in Content \cup {None, Partial}
  /\ pc \in {"closed", "extract", "load", "tables", "rebuild", "refill", "mark", "open",
             "persist_marker", "persist_segments", "persist_revision", "drop", "pack",
             "remove"}
  /\ memory \in [revisions : Revisions, segments : Version]
  /\ loadable \in BOOLEAN /\ changed \in BOOLEAN
  /\ clean \in BOOLEAN /\ damaged \in BOOLEAN
  /\ kept \in [tables : Version, segments : Version, revisions : Revisions,
               artefact : Artefact \cup {None}] \cup {None}
  /\ clock \in Version /\ sessions \in Nat

\* The archive or the directory holds tables and segments at least as new as those of the
\* last complete persist.
Survives ==
  kept # None =>
    \E f \in {packed, unpacked} :
      /\ IsContent(f)
      /\ f.tables >= kept.tables
      /\ f.segments # Torn /\ f.segments >= kept.segments

\* What a complete persist wrote is in the archive or in the directory, whatever step fails
\* and whenever the process dies, unless an error damaged the directory itself: writing
\* the segment metadata over the old file failed halfway, and the drop packed the torn
\* file over the archive, or the directory was removed in part and cleanup_storage then
\* removed the archive.
CopySurvives == ~damaged => Survives

\* An open project answers queries for calls, and for the flow references of functions,
\* from an index of its own tables: the marker never vouches for an index that a failed
\* rebuild, a failed persist or an older session left behind (ensure_current,
\* mark_current).  The derived references of switches and data are DerivedTrue's.
IndexTrue ==
  pc = "open" => unpacked.index = unpacked.tables

\* The same of the derived references of switches and data.  It does not hold: a persist
\* that fails after the marker makes the next session rebuild, and the rebuild drops them.
DerivedTrue ==
  pc = "open" => unpacked.derived = unpacked.tables

\* A project opened after a complete persist is the one that was closed.
SessionRestored ==
  pc = "open" /\ kept # None /\ ~changed =>
    [tables |-> unpacked.tables, segments |-> memory.segments,
     revisions |-> memory.revisions, artefact |-> unpacked.artefact] = kept

\* PersistableIl::load_current accepts a stored artefact by its revision alone.
Accepted == unpacked.artefact # None /\ unpacked.artefact.rev = memory.revisions.sem

ArtefactTrue ==
  pc = "open" /\ Accepted =>
    /\ unpacked.artefact.tables = unpacked.tables
    /\ unpacked.artefact.segments = memory.segments

\* As long as every persist has succeeded, an artefact that is accepted was made from the
\* tables and segments of the project as it is, across sessions.
ArtefactCurrent == clean => ArtefactTrue
================================================================================
