------------------------------ MODULE FileStorage ------------------------------
(***************************************************************************)
(* FolderFileStorage as ScopedFileStorage uses it: the files of one        *)
(* folder tree.  A path is the scope's prefix and the file's name; of a    *)
(* file only who wrote it matters.  Every exception of the file system is  *)
(* swallowed and reported as FALSE, which no caller reads.                 *)
(***************************************************************************)
EXTENDS Integers, Functions

CONSTANTS
  Path,
  Writer,     \* whose contents a file may hold
  Truncated   \* what File.Create leaves until the contents are copied

VARIABLES
  files,    \* the contents of each file there is
  opened    \* paths a SaveFileAsync has open, each for itself alone

storage == <<files, opened>>

StorageTypeOK ==
  /\ files \in [DOMAIN files -> Writer \cup {Truncated}] /\ DOMAIN files \subseteq Path
  /\ opened \in SUBSET Path

Exists(p) == p \in DOMAIN files

With(p, content) == [q \in DOMAIN files \cup {p} |-> IF q = p THEN content ELSE files[q]]

(* SaveFileAsync: File.Create truncates what is there and keeps others     *)
(* out; CopyTo may fail half-way; closing lets the others in again.        *)
OpenFile(p) ==
  /\ p \notin opened
  /\ files' = With(p, Truncated) /\ opened' = opened \cup {p}

OpenFails(p) == UNCHANGED storage

WriteFile(p, w) ==
  /\ files' = With(p, w) /\ opened' = opened \ {p}

WriteFails(p) ==
  /\ opened' = opened \ {p} /\ UNCHANGED files

(* DeleteFileAsync: a file that is not there is deleted all the same; one  *)
(* that is open, here or in a download, stays.                             *)
DeleteFile(p) ==
  /\ p \notin opened
  /\ files' = Restrict(files, DOMAIN files \ {p}) /\ UNCHANGED opened

DeleteFails(p) == Exists(p) /\ UNCHANGED storage
================================================================================
