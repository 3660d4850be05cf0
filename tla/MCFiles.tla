------------------------------ MODULE MCFiles ------------------------------
(***************************************************************************)
(* The two modules about open files side by side: OpenFiles has the tables *)
(* and counts and leaves out the contents, FileIO has the contents of one  *)
(* file and leaves out who has it open.  They share no state, so a story   *)
(* is one of the first or one of the second.                               *)
(***************************************************************************)
EXTENDS OpenFiles, OneFile

CONSTANTS p, q

VARIABLE part

FilesInit == /\ part \in {"tables", "contents"}
             /\ TablesInit /\ (part = "contents" <=> ops = {})
             /\ IO!Init
FilesNext == /\ \/ part = "tables" /\ TablesNext /\ UNCHANGED ioVars
                \/ part = "contents" /\ IO!Next /\ UNCHANGED tableVars
             /\ UNCHANGED part
FilesSpec == FilesInit /\ [][FilesNext]_<<part, tableVars, ioVars>>

MCSessions == {{}, {"open", "create", "unlink", "rmdir", "getcwd"},
               {"open", "create", "fork", "exit"}}
=============================================================================
