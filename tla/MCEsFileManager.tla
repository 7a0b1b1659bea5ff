---------------------------- MODULE MCEsFileManager ----------------------------
(* Device a has a definition and port data that need several messages, which *)
(* device b requests; b has small port data, written directly, for a.        *)
EXTENDS EsFileManager

File(name, type, length) == [name |-> name, type |-> type, length |-> length]
MCLocalFiles == [d \in Devices |->
  IF d = "a" THEN <<File("def", "apx", 2), File("out", "out", 9)>> ELSE <<File("bout", "out", 2)>>]
MCRequestedFiles == [d \in Devices |->
  IF d = "a" THEN <<File("bout", "in", 2)>> ELSE <<File("out", "in", 9), File("def", "apx", 2)>>]
Update(name, offset, length) == [name |-> name, offset |-> offset, length |-> length]
MCUpdates == {Update("out", 0, 9), Update("out", 1, 1), Update("out", 2, 2), Update("out", 1, 8),
              Update("bout", 1, 1)}
=============================================================================
