---------------------------- MODULE DiskManager ----------------------------
(***************************************************************************)
(* BasicDiskManager (wackdb_storage, disk_manager.rs): the pages of the    *)
(* files of the data directory, and the table of open file handles with    *)
(* the page count each handle keeps in memory.                             *)
(*                                                                         *)
(* Every operation holds the mutex of the handle table while it works, so  *)
(* each one is one action.  The table is filled lazily: the first          *)
(* operation on a file opens it and takes the page count from its length.  *)
(***************************************************************************)
EXTENDS Integers, Sequences

CONSTANTS
    Files,                      \* file ids
    MaxPages,                   \* bound: page numbers of a file
    Blank,                      \* a page of zeros
    Contents                    \* what a page may hold, Blank among it

VARIABLES
    stored,                     \* page -> what its bytes in the file are
    file_len,                   \* file -> its length, in pages
    total_pages                 \* file -> count kept by its handle, or Closed

diskVars == <<stored, file_len, total_pages>>

PageIds == Files \X (0 .. MaxPages - 1)
FileOf(p) == p[1]
NumOf(p) == p[2]

Closed == -1                    \* the file has no handle

DiskTypeOK ==
    /\ stored \in [PageIds -> Contents]
    /\ file_len \in [Files -> 0 .. MaxPages]
    /\ total_pages \in [Files -> Closed .. MaxPages]

DiskInit ==
    /\ stored = [p \in PageIds |-> Blank]
    /\ file_len = [f \in Files |-> 0]
    /\ total_pages = [f \in Files |-> Closed]

-----------------------------------------------------------------------------

Larger(a, b) == IF a > b THEN a ELSE b

(* Mutant: a file counts as empty when it is opened. *)
CountOnOpenZero(f) == IF total_pages[f] = Closed THEN 0 ELSE total_pages[f]

(* The page count a caller sees, with the file opened if it was not. *)
CountOnOpen(f) ==
    IF total_pages[f] = Closed THEN file_len[f] ELSE total_pages[f]

(* ensure_file_open: the handle exists afterwards. *)
EnsureFileOpen(f) ==
    total_pages' = [total_pages EXCEPT ![f] = CountOnOpen(f)]

(* read_page: past the end of the file the page reads as zeros. *)
PageOnDisk(p) ==
    IF NumOf(p) < file_len[FileOf(p)] THEN stored[p] ELSE Blank

ReadPage(p) ==
    /\ EnsureFileOpen(FileOf(p))
    /\ UNCHANGED <<stored, file_len>>

(* write_page: writing past the end makes the file longer; the count the   *)
(* handle keeps does not move.                                             *)
WritePage(p, content) ==
    /\ EnsureFileOpen(FileOf(p))
    /\ stored' = [stored EXCEPT ![p] = content]
    /\ file_len' = [file_len EXCEPT ![FileOf(p)] = Larger(@, NumOf(p) + 1)]

(* allocate_page: the number is the count before; the file does not grow. *)
AllocatePage(p) ==
    /\ NumOf(p) = CountOnOpen(FileOf(p))
    /\ total_pages' = [total_pages EXCEPT ![FileOf(p)] = NumOf(p) + 1]
    /\ UNCHANGED <<stored, file_len>>

(* close_all, and what a restart of the process leaves: no handle at all. *)
CloseAll ==
    /\ total_pages' = [f \in Files |-> Closed]
    /\ UNCHANGED <<stored, file_len>>

(* delete_file: the handle goes first, then the file, if it exists. *)
DeleteFile(f) ==
    /\ total_pages' = [total_pages EXCEPT ![f] = Closed]
    /\ stored' = [p \in PageIds |-> IF FileOf(p) = f THEN Blank ELSE stored[p]]
    /\ file_len' = [file_len EXCEPT ![f] = 0]

-----------------------------------------------------------------------------

(* The callers write a page only after they allocated it or found its      *)
(* number below the page count.                                            *)
DiskNext ==
    \/ \E p \in PageIds :
          \/ ReadPage(p)
          \/ AllocatePage(p)
          \/ /\ NumOf(p) < CountOnOpen(FileOf(p))
             /\ \E c \in Contents : WritePage(p, c)
    \/ CloseAll
    \/ \E f \in Files : DeleteFile(f)

DiskSpec == DiskInit /\ [][DiskNext]_diskVars

-----------------------------------------------------------------------------

(***************************************************************************)
(* allocate_page never returns a page that already holds data, whatever    *)
(* was written, closed, reopened or deleted before: the caller formats the *)
(* page it gets as a new one (dml.rs calls init on it).                    *)
(***************************************************************************)
AllocatedPageIsBlank ==
    [][\A p \in PageIds : AllocatePage(p) => stored[p] = Blank]_diskVars

=============================================================================
