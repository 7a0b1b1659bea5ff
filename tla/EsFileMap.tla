----------------------------- MODULE EsFileMap -----------------------------
(***************************************************************************)
(* The file map of APX-ES (src/apx/src/apx-es/file_map.c): a list of at    *)
(* most MaxNumFiles files in the order of their addresses, in an array     *)
(* that never grows.                                                       *)
(***************************************************************************)
EXTENDS Integers, SequencesExt

CONSTANTS
  MaxNumFiles,     (* APX_ES_FILEMAP_MAX_NUM_FILES                         *)
  DefinitionStart, (* 0x4000000, where the area of port data ends          *)
  UserDataStart,   (* 0x20000000, where the area of definitions ends       *)
  UserDataEnd,     (* 0x3FFFFC00, where the command area begins            *)
  PortBoundary,    (* 0x400                                                *)
  LargeBoundary    (* 0x100000, of definitions and of user data            *)

ASSUME EsFileMapAssumption ==
  /\ {MaxNumFiles, PortBoundary, LargeBoundary} \subseteq Nat \ {0}
  /\ {DefinitionStart, UserDataStart, UserDataEnd} \subseteq Nat
  /\ DefinitionStart < UserDataStart /\ UserDataStart < UserDataEnd

(* The area of a type of file: where it begins and ends, and what the       *)
(* addresses in it are multiples of.                                        *)
Area(type) ==
  CASE type \in {"out", "in"} -> [start |-> 0, end |-> DefinitionStart, boundary |-> PortBoundary]
    [] type = "apx"  -> [start |-> DefinitionStart, end |-> UserDataStart, boundary |-> LargeBoundary]
    [] type = "user" -> [start |-> UserDataStart, end |-> UserDataEnd, boundary |-> LargeBoundary]

(* A file with an address, which replaces the one it had.                   *)
At(file, address) ==
  [name |-> file.name, type |-> file.type, length |-> file.length, address |-> address]

(* apx_es_fileMap_insertAt; a full map stays as it is.                      *)
insertAt(map, file, index) ==
  IF Len(map) >= MaxNumFiles THEN map ELSE InsertAt(map, index, file)

(* apx_es_fileMap_insert: behind the last file with no higher address.      *)
apx_es_fileMap_insert(map, file) ==
  insertAt(map, file, Cardinality({i \in DOMAIN map : \A j \in 1..i : map[j].address <= file.address}) + 1)

(* apx_es_fileMap_autoInsert: behind the last file of the area, or at the   *)
(* head of the list if the area is empty, whatever precedes it in the list; *)
(* a file for which no address is left is not inserted, and nobody looks at *)
(* the result.                                                              *)
apx_es_fileMap_autoInsert(map, file) ==
  LET area  == Area(file.type)
      found == {i \in DOMAIN map : /\ map[i].address >= area.start
                                   /\ \A j \in 1..i : map[j].address < area.end}
      last  == Max(found)
      above == map[last].address + map[last].length + area.boundary - 1
      address == IF found = {} THEN area.start ELSE above - (above % area.boundary)
  IN IF found # {} /\ address >= area.end THEN map
     ELSE insertAt(map, At(file, address), IF found = {} THEN 1 ELSE last + 1)

(* apx_es_fileMap_findByAddress: the file that covers the address, if any.  *)
(* The index of the last hit is only a shortcut: files do not overlap.      *)
apx_es_fileMap_findByAddress(map, address) ==
  {f \in Range(map) : f.address <= address /\ address < f.address + f.length}
=============================================================================
