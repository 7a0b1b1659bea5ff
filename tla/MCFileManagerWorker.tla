------------------------ MODULE MCFileManagerWorker ------------------------
(* Two threads hand commands over to the worker of one connection.         *)
EXTENDS FileManagerWorker

CONSTANTS p, q
=============================================================================
