------------------------------ MODULE FileMap ------------------------------
(***************************************************************************)
(* The files of one side of a connection in the address space of the       *)
(* RemoteFile protocol (src/apx/src/file_map.c, file.c, file_info.c): how  *)
(* a new file gets its address, where it enters the list, and how a file   *)
(* is found again by an address or by its name.                            *)
(*                                                                         *)
(* A map is [files, last]: the list, in address order, and the address of  *)
(* the file that was found last, which a search tries first; a search by   *)
(* an operator returns the file and the map with the new "last".           *)
(***************************************************************************)
EXTENDS RemoteFile, SequencesExt

CONSTANTS
  PortDataAlignment,                        (* 0x400                       *)
  DefinitionStart, DefinitionAlignment,     (* 0x4000000 and 0x40000       *)
  PortCountStart, PortCountAlignment,       (* 0x8000000 and 0x400         *)
  UserStart, UserAlignment                  (* 0x20000000 and 0x1000       *)

ASSUME FileMapAssumption ==
  /\ {PortDataAlignment, DefinitionAlignment, PortCountAlignment, UserAlignment}
       \subseteq Nat \ {0}
  /\ {DefinitionStart, PortCountStart, UserStart} \subseteq Nat

(* A name is two bytes here: the base name and the extension.  The last two *)
(* extensions are the port count files, which no code outside the tests     *)
(* creates.                                                                 *)
ExtDefinition == 1      (* ".apx" *)
ExtProvide    == 2      (* ".out" *)
ExtRequire    == 3      (* ".in"  *)
ExtProvideCount == 4    (* ".cout" *)
ExtRequireCount == 5    (* ".cin"  *)
FileName(node, ext) == <<node, ext>>
BaseName(f) == f.name[1]

(* apx_file_calc_file_type: the type of a file is that of its extension.    *)
FileType(f) == f.name[Len(f.name)]

Start(f) == f.address
End(f)   == f.address + f.size
Covers(f, address) == Start(f) <= address /\ address < End(f)

(* A list in which each file ends before those that follow it begin.        *)
Apart(files) == \A i, j \in DOMAIN files : i < j => End(files[i]) <= Start(files[j])

EmptyMap == [files |-> <<>>, last |-> INVALID_ADDRESS]

-----------------------------------------------------------------------------
(* find_last_element_of_type: the last of the first files of that type that *)
(* follow each other, 0 if there is none.                                   *)
find_last_element_of_type(files, type) ==
  LET OfType(i) == FileType(files[i]) = type
      run == {i \in DOMAIN files : OfType(i) /\
                \A j, k \in 1..i : (OfType(j) /\ j <= k) => OfType(k)}
  IN IF run = {} THEN 0 ELSE Max(run)

(* find_next_available_position: the last file below the address, if any.   *)
find_next_available_position(files, address) ==
  Cardinality({i \in DOMAIN files : \A j \in 1..i : Start(files[j]) < address})

AreaStart(type) ==
  IF type = ExtDefinition THEN DefinitionStart
  ELSE IF type \in {ExtProvide, ExtRequire} THEN 0
  ELSE IF type \in {ExtProvideCount, ExtRequireCount} THEN PortCountStart ELSE UserStart
Alignment(type) ==
  IF type = ExtDefinition THEN DefinitionAlignment
  ELSE IF type \in {ExtProvide, ExtRequire} THEN PortDataAlignment
  ELSE IF type \in {ExtProvideCount, ExtRequireCount} THEN PortCountAlignment
  ELSE UserAlignment

(* The first multiple of the alignment that is not below the address.       *)
Aligned(address, alignment) == ((address + alignment - 1) \div alignment) * alignment

(* auto_assign_address                                                      *)
AutoAddress(files, type) ==
  LET left == find_last_element_of_type(files, type)
  IN IF left = 0 THEN AreaStart(type) ELSE Aligned(End(files[left]), Alignment(type))

(* Faulty variant: the file is appended instead of inserted.                *)
InsertLast(files, f, left) ==
  [result |-> "created", file |-> f, files |-> Append(files, f)]

(* insert_item: a file is put behind the one on its left, 0 for none.  The  *)
(* code asserts that the left file ends before the new one; a file that     *)
(* would reach into the next one or the command area is refused, but        *)
(* neither is looked at when the new file becomes the last of the list.     *)
insert_item(files, f, left) ==
  LET refused == /\ left < Len(files)
                 /\ (End(f) > Start(files[left + 1]) \/ End(f) > CMD_AREA_START)
  IN IF left > 0 /\ ~(End(files[left]) <= Start(f)) THEN [result |-> "assertion"]
     ELSE IF refused THEN [result |-> "refused"]
     ELSE [result |-> "created", file |-> f, files |-> InsertAt(files, left + 1, f)]

(* apx_fileMap_create_file: a file without address gets one in the area of  *)
(* its type, behind the last file of that type.                             *)
apx_fileMap_create_file(files, info) ==
  LET last == find_last_element_of_type(files, FileType(info))
      f    == IF info.address = INVALID_ADDRESS
                THEN [info EXCEPT !.address = AutoAddress(files, FileType(info))] ELSE info
      left == IF info.address = INVALID_ADDRESS /\ last # 0
                THEN last ELSE find_next_available_position(files, f.address)
  IN insert_item(files, f, left)

-----------------------------------------------------------------------------
(* A search looks at the file found last, then at the list from its         *)
(* beginning; "found" is a set of at most one file.                         *)
Search(map, fits) ==
  LET cached == {f \in Range(map.files) : Start(f) = map.last} \cap fits
      inList == {i \in DOMAIN map.files : map.files[i] \in fits}
      first  == map.files[Min(inList)]
  IN IF cached # {} THEN [found |-> cached, map |-> map]
     ELSE IF inList = {} THEN [found |-> {}, map |-> map]
     ELSE [found |-> {first}, map |-> [map EXCEPT !.last = Start(first)]]

apx_fileMap_find_by_address(map, address) ==
  Search(map, {f \in Range(map.files) : Covers(f, address)})

apx_fileMap_find_by_name(map, name) ==
  Search(map, {f \in Range(map.files) : f.name = name})
=============================================================================
