------------------------------ MODULE PwtFiles ------------------------------
(***************************************************************************)
(* The files that a run of the program touches: the configuration, which   *)
(* names the log and the database; the log, which the constructor          *)
(* truncates; the database; and the destination of an export.  A file may  *)
(* have several names.  One user runs one command after another, and a run *)
(* may be killed between any two file operations.                          *)
(***************************************************************************)
EXTENDS PwtConfig

CONSTANTS
    File,   \* the files of the file system
    FileOf  \* the file that each name stands for

ASSUME FilesAssumption == FileOf \in [Path -> File]

VARIABLES
    content,  \* what is in each file
    pc, dst   \* where the program is, and the destination of its export

vars == <<configVars, content, pc, dst>>

\* "tables" is a database without tasks, "tasks" one with the user's tasks, and
\* "text" what another program has written.
Content == {"none", "empty", "tables", "tasks", "text"}

Init ==
    /\ ConfigInit
    /\ content \in {c \in [File -> Content] :
                       \A f, g \in File : c[f] = "none" \/ c[g] = "none" \/ f = g}
    /\ pc = "idle"
    /\ dst = NoText

Database == FileOf[database]

Put(name, what) == content' = [content EXCEPT ![FileOf[name]] = what]

\* The run ends: with its message, by an exception, or because it is killed.
Exit == pc' = "idle" /\ dst' = NoText /\ UNCHANGED configVars

Goto(at) == pc' = at /\ UNCHANGED <<configVars, dst>>

Run ==
    /\ pc = "idle"
    /\ NewConfig
    /\ pc' = "config"
    /\ UNCHANGED <<content, dst>>

ReadConfig ==
    /\ pc = "config"
    /\ LoadConfig
    /\ UNCHANGED <<content, pc, dst>>

ConfigThrows ==
    /\ pc = "config"
    /\ outcome \in {"open", "invalid"}
    /\ Exit
    /\ UNCHANGED content

\* The constructor of CLog truncates the log, or throws.
OpenLog ==
    /\ pc = "config"
    /\ outcome = "ok"
    /\ \/ Put(log, "empty") /\ Goto("database")
       \/ Exit /\ UNCHANGED content

\* OpenDatabase: a new or empty file becomes a database.  With a file that is
\* not a database no statement can be prepared, which is ignored.
OpenDatabase ==
    /\ pc = "database"
    /\ \/ Exit /\ UNCHANGED content
       \/ /\ IF content[Database] \in {"none", "empty"}
             THEN Put(database, "tables") ELSE UNCHANGED content
          /\ Goto("command")

IsDatabase == content[Database] \in {"tables", "tasks"}

AddTask ==
    /\ pc = "command"
    /\ IF IsDatabase THEN Put(database, "tasks") ELSE UNCHANGED content
    /\ Exit

\* Mutant: the destination is not compared with the database.
ExportOpen_Anywhere(name) ==
    /\ pc = "command"
    /\ Put(name, "empty") /\ pc' = "export" /\ dst' = name /\ UNCHANGED configVars

\* Export compares two names and truncates a file.
ExportOpen(name) ==
    /\ pc = "command"
    /\ \/ name = database /\ Exit /\ UNCHANGED content
       \/ /\ name # database
          /\ \/ /\ Put(name, "empty")
                /\ pc' = "export" /\ dst' = name /\ UNCHANGED configVars
             \/ Exit /\ UNCHANGED content

\* The rest of Export: sqlite copies the file of the database, xml writes what
\* it could select, excel writes nothing.
ExportWrite ==
    /\ pc = "export"
    /\ \/ Put(dst, content[Database])
       \/ Put(dst, "text")
       \/ UNCHANGED content
    /\ Exit

Crash == pc # "idle" /\ Exit /\ UNCHANGED content

Next ==
    \/ Run \/ ReadConfig \/ ConfigThrows
    \/ OpenLog \/ OpenDatabase
    \/ AddTask
    \/ \E name \in Path : ExportOpen(name)
    \/ ExportWrite
    \/ Crash

Spec == Init /\ [][Next]_vars

-----------------------------------------------------------------------------
(* Properties. *)

\* A name for the file of the database, other than the one in the configuration.
Alias(name) == name # database /\ FileOf[name] = Database

(* The user's tasks, and a file of another program that the configuration   *)
(* names by mistake, stay in the file of the database, whatever is exported *)
(* and wherever a run is killed or fails, unless the log or the destination *)
(* of an export is another name for that file.                              *)
TasksStay ==
    [][\/ content[Database] \notin {"tasks", "text"}
       \/ FileOf[log] = Database
       \/ pc' = "export" /\ Alias(dst')
       \/ pc = "export" /\ Alias(dst)
       \/ content'[Database] = content[Database]]_content
=============================================================================
