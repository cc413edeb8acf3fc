------------------------------- MODULE Backup -------------------------------
(***************************************************************************)
(* Backups: internal/backup/backup.go, with internal/web/status.go and     *)
(* cmd/rss-expert/backup.go that take and restore them.                    *)
(*                                                                         *)
(* A backup is taken while the instance runs, so uploads (module Media) go *)
(* on between its steps.  It goes into a directory that may hold an earlier*)
(* one: the page names the directory after the minute, the command line    *)
(* lets the operator choose.  Two takers may therefore share a directory.  *)
(* A hash stands for what it was computed from; two partial copies of a    *)
(* file may have the same one.                                             *)
(***************************************************************************)
EXTENDS Media

CONSTANTS
  Takers,     \* the page and the command line
  MaxTakes    \* bound

VARIABLES
  dir,        \* the directory: database, files of media, manifest
  taker,      \* the backups under way
  restored,   \* the instance restored from it
  takes

all == <<vars, dir, taker, restored, takes>>

NoFiles == [c \in Contents |-> "none"]
NoDatabase == [state |-> "none", rows |-> {}]
NoManifest == [there |-> FALSE, db |-> NoDatabase, files |-> NoFiles]
NoTake == [pc |-> "idle", db |-> NoDatabase, must |-> {}, listed |-> NoFiles, file |-> None]
NotRestored == [pc |-> "none", rows |-> {}, files |-> NoFiles]

Present == {c \in Contents : disk[c] # "none"}

\* Verify: every file the manifest lists has the hash it was listed with.
Verify ==
  /\ dir.manifest.there /\ dir.db = dir.manifest.db
  /\ \A c \in Contents : dir.manifest.files[c] # "none" => dir.files[c] = dir.manifest.files[c]

-----------------------------------------------------------------------------
(* TakeWithMedia *)

\* The former database goes, the former manifest stays until the end.
Take(k) ==
  /\ taker[k].pc = "idle" /\ takes < MaxTakes /\ takes' = takes + 1
  /\ restored.pc \in {"none", "done"}
  /\ taker' = [taker EXCEPT ![k].pc = "vacuum"]
  /\ dir' = [dir EXCEPT !.db = NoDatabase]
  /\ UNCHANGED <<vars, restored>>

\* Mutant: the walk over the files begins before the snapshot.
VacuumWalked(k) ==
  /\ taker[k].pc = "vacuum" /\ dir.db = NoDatabase
  /\ taker' = [taker EXCEPT ![k].pc = "media", ![k].must = {},
                            ![k].db = [state |-> "whole", rows |-> media]]
  /\ dir' = [dir EXCEPT !.db = [state |-> "whole", rows |-> media]]
  /\ UNCHANGED <<vars, restored, takes>>

\* VACUUM INTO refuses a file that is there, which the other taker may have
\* written meanwhile; the walk over the files begins after it.
Vacuum(k) ==
  /\ taker[k].pc = "vacuum" /\ dir.db = NoDatabase
  /\ taker' = [taker EXCEPT ![k].pc = "media", ![k].must = Present,
                            ![k].db = [state |-> "whole", rows |-> media]]
  /\ dir' = [dir EXCEPT !.db = [state |-> "whole", rows |-> media]]
  /\ UNCHANGED <<vars, restored, takes>>

\* The hash and the size of a file.
Described(c) == disk[c]

\* copyMedia comes to a file and computes its hash; a copy from an earlier
\* backup with that hash stays, another one is removed.
Visit(k, c) ==
  /\ taker[k].pc = "media" /\ taker[k].listed[c] = "none" /\ disk[c] # "none"
  /\ IF dir.files[c] = Described(c)
     THEN taker' = [taker EXCEPT ![k].listed[c] = Described(c)] /\ UNCHANGED dir
     ELSE /\ taker' = [taker EXCEPT ![k].listed[c] = Described(c), ![k].pc = "copy", ![k].file = c]
          /\ dir' = [dir EXCEPT !.files[c] = "none"]
  /\ UNCHANGED <<vars, restored, takes>>

\* What is copied is what is there by now.
Copy(k) ==
  /\ taker[k].pc = "copy" /\ dir.files[taker[k].file] = "none"
  /\ dir' = [dir EXCEPT !.files[taker[k].file] = disk[taker[k].file]]
  /\ taker' = [taker EXCEPT ![k].pc = "media", ![k].file = None]
  /\ UNCHANGED <<vars, restored, takes>>

\* The walk has seen every file that was there when it began, and perhaps
\* later ones: the manifest replaces the former one.
WriteManifest(k) ==
  /\ taker[k].pc = "media" /\ \A c \in taker[k].must : taker[k].listed[c] # "none"
  /\ dir' = [dir EXCEPT !.manifest = [there |-> TRUE, db |-> taker[k].db, files |-> taker[k].listed]]
  /\ taker' = [taker EXCEPT ![k] = NoTake]
  /\ UNCHANGED <<vars, restored, takes>>

\* A taker fails, or the process stops: what it was writing stays as it is.
Abort(k) ==
  /\ taker[k].pc # "idle" /\ taker' = [taker EXCEPT ![k] = NoTake]
  /\ \/ UNCHANGED dir
     \/ taker[k].pc = "vacuum" /\ dir.db = NoDatabase /\ dir' = [dir EXCEPT !.db.state = "partial"]
     \/ taker[k].pc = "copy" /\ dir' = [dir EXCEPT !.files[taker[k].file] = "partial"]
     \/ taker[k].pc = "media" /\ dir' = [dir EXCEPT !.manifest = NoManifest]
  /\ UNCHANGED <<vars, restored, takes>>

-----------------------------------------------------------------------------
(* Restore, into an empty directory and with no backup under way *)

RestoreDatabase ==
  /\ restored.pc = "none" /\ \A k \in Takers : taker[k].pc = "idle"
  /\ Verify
  /\ restored' = [restored EXCEPT !.pc = "media", !.rows = dir.db.rows]
  /\ UNCHANGED <<vars, dir, taker, takes>>

\* Only what the manifest lists is copied.  One that stops before this is not
\* taken up again: the database is in the way of another restore.
RestoreMedia ==
  /\ restored.pc = "media"
  /\ restored' = [restored EXCEPT !.pc = "done", !.files =
                   [c \in Contents |-> IF dir.manifest.files[c] = "none" THEN "none" ELSE dir.files[c]]]
  /\ UNCHANGED <<vars, dir, taker, takes>>

BackupInit ==
  /\ Init /\ dir = [db |-> NoDatabase, files |-> NoFiles, manifest |-> NoManifest]
  /\ taker = [k \in Takers |-> NoTake] /\ restored = NotRestored /\ takes = 0

BackupNext ==
  \/ Next /\ UNCHANGED <<dir, taker, restored, takes>>
  \/ \E k \in Takers :
       \/ Take(k) \/ Vacuum(k) \/ Copy(k) \/ WriteManifest(k) \/ Abort(k)
       \/ \E c \in Contents : Visit(k, c)
  \/ RestoreDatabase \/ RestoreMedia

-----------------------------------------------------------------------------
(* Properties *)

\* An instance restored from a backup that verifies has every file its database
\* names, whole, although uploads went on while the backup was taken, backups
\* were cut off and two of them shared the directory.  A file is excepted that was
\* named while it was not whole: a writing of it was cut off, or two uploads of
\* the same content overlapped.
Restorable ==
  restored.pc = "done" =>
    \A m \in restored.rows : restored.files[m.content] = "whole" \/ m.content \in unready

=============================================================================
