------------------------------- MODULE Media --------------------------------
(***************************************************************************)
(* Uploaded files: internal/media/media.go and internal/web/media.go.      *)
(*                                                                         *)
(* A file is kept on disk under the hash of its content, once for all      *)
(* accounts, and each account that uploaded it has a row.  Put reads how   *)
(* much the account uses, looks for the file, writes it and stores the     *)
(* row: four steps, and uploads overlap.  The kind of a file, its          *)
(* dimensions and the metadata that is stripped only decide whether an     *)
(* upload gets this far.                                                   *)
(***************************************************************************)
EXTENDS Naturals, FiniteSets, FiniteSetsExt

CONSTANTS
  Tabs,       \* uploads
  Owners,     \* accounts
  Contents,   \* contents of files
  None,
  Size,       \* of each content
  Quota,
  MaxUploads, MaxBreaks   \* bounds

VARIABLES
  disk,      \* the file of each content: none, partial or whole
  media,     \* table media
  attached,  \* table post_media: which account's post shows which row of media
  put,       \* the uploads
  overlap,   \* accounts two of whose uploads overlapped (history)
  torn,      \* contents whose writing was cut off (history)
  unready,   \* contents that had a row while the file was not whole (history)
  uploads, breaks

vars == <<disk, media, attached, put, overlap, torn, unready, uploads, breaks>>

NoPut == [pc |-> "idle", owner |-> None, content |-> None]

Used(o) == FoldSet(LAMBDA m, sum : sum + Size[m.content], 0, {m \in media : m.owner = o})

Go(t, pc) == put' = [put EXCEPT ![t].pc = pc]
Named(rows) == {m.content : m \in rows}
Writers(c) == {t \in Tabs : put[t].pc = "write" /\ put[t].content = c}

Fits(o, c) == Used(o) + Size[c] <= Quota

\* uploadMedia and micropubMedia, up to the quota.
Begin(t, o, c) ==
  /\ put[t] = NoPut /\ uploads < MaxUploads /\ uploads' = uploads + 1
  /\ Fits(o, c)
  /\ put' = [put EXCEPT ![t] = [pc |-> "stat", owner |-> o, content |-> c]]
  /\ overlap' = IF \E u \in Tabs : put[u].owner = o THEN overlap \cup {o} ELSE overlap
  /\ UNCHANGED <<disk, media, attached, torn, unready, breaks>>

\* A file that is there already is not written again, whether it is whole or not.
Stat(t) ==
  /\ put[t].pc = "stat"
  /\ Go(t, IF disk[put[t].content] = "none" THEN "open" ELSE "row")
  /\ UNCHANGED <<disk, media, attached, overlap, torn, unready, uploads, breaks>>

\* WriteFile truncates what is there ...
OpenFile(t) ==
  /\ put[t].pc = "open" /\ Go(t, "write")
  /\ disk' = [disk EXCEPT ![put[t].content] = "partial"]
  /\ unready' = IF put[t].content \in Named(media) THEN unready \cup {put[t].content} ELSE unready
  /\ UNCHANGED <<media, attached, overlap, torn, uploads, breaks>>

\* ... and writes: the file is whole when all who write it are done.
WriteFile(t) ==
  /\ put[t].pc = "write" /\ Go(t, "row")
  /\ disk' = IF Writers(put[t].content) = {t} /\ put[t].content \notin torn
             THEN [disk EXCEPT ![put[t].content] = "whole"] ELSE disk
  /\ UNCHANGED <<media, attached, overlap, torn, unready, uploads, breaks>>

\* The row; a second one of the same file only changes its description.
Record(t) ==
  /\ put[t].pc = "row"
  /\ media' = media \cup {[owner |-> put[t].owner, content |-> put[t].content]}
  /\ put' = [put EXCEPT ![t] = NoPut]
  /\ unready' = IF disk[put[t].content] # "whole" THEN unready \cup {put[t].content} ELSE unready
  /\ UNCHANGED <<disk, attached, overlap, torn, uploads, breaks>>

\* The disk is full, the client is gone or the process stops.
Break(t) ==
  /\ put[t] # NoPut /\ breaks < MaxBreaks /\ breaks' = breaks + 1
  /\ torn' = IF put[t].pc = "write" THEN torn \cup {put[t].content} ELSE torn
  /\ put' = [put EXCEPT ![t] = NoPut]
  /\ UNCHANGED <<disk, media, attached, overlap, unready, uploads>>

Attachable(o, m) == m \in media /\ m.owner = o

\* attachToPost and attachByURL, to the post of an account; once per file.
Attach(o, m) ==
  /\ Attachable(o, m) /\ [by |-> o, file |-> m] \notin attached
  /\ attached' = attached \cup {[by |-> o, file |-> m]}
  /\ UNCHANGED <<disk, media, put, overlap, torn, unready, uploads, breaks>>

\* serveMedia finds the file by any account's row.
AnyBySHA(c) == \E m \in media : m.content = c
Opens(c) == disk[c] # "none"
Served(c) == AnyBySHA(c) /\ Opens(c)

Init ==
  /\ disk = [c \in Contents |-> "none"] /\ media = {} /\ attached = {}
  /\ put = [t \in Tabs |-> NoPut] /\ overlap = {} /\ torn = {} /\ unready = {} /\ uploads = 0 /\ breaks = 0

Next ==
  \/ \E t \in Tabs :
       \/ \E o \in Owners, c \in Contents : Begin(t, o, c)
       \/ Stat(t) \/ OpenFile(t) \/ WriteFile(t) \/ Record(t) \/ Break(t)
  \/ \E o \in Owners, m \in media : Attach(o, m)

Spec == Init /\ [][Next]_vars

-----------------------------------------------------------------------------
(* Properties *)

\* An account stays within its quota, unless its uploads overlapped.
QuotaKept == \A o \in Owners : o \notin overlap => Used(o) <= Quota

\* A row names a file that is there, whoever else uploads the same content
\* meanwhile, and the file is whole once nobody is writing it, unless a writing
\* was cut off: such a file stays partial however often it is uploaded anew.
Whole ==
  \A m \in media :
    /\ Served(m.content)
    /\ Writers(m.content) = {} => (disk[m.content] = "whole" \/ m.content \in torn)

\* A post only shows files of the account that wrote it, also where another
\* account uploaded the same content.
OwnFiles == \A a \in attached : a.file.owner = a.by /\ a.file \in media

=============================================================================
