------------------------------ MODULE Volumes ------------------------------
(* The three kinds of volume that are scanned without being mounted, and    *)
(* what is promised of more than one kind.                                  *)
EXTENDS FatVolume, ExtVolume, NtfsVolume

(* The free ranges are exactly what no live file holds, on a FAT volume and *)
(* on an ext one without a first data block (Unallocated).                  *)
FreeExact == UnallocatedExact /\ FreeRangesExact

(* A file goes by a name of its own: no long name is put together from two, *)
(* and no stale entry names a live inode (assembleDeletedLFN, dirEntries).  *)
NamesOwn == NamesUnmixed /\ EntriesOwn
=============================================================================
