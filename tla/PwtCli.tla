------------------------------- MODULE PwtCli -------------------------------
(***************************************************************************)
(* The command line: main checks the arguments, runs one method and prints *)
(* one line for its result, or the text of an exception.                   *)
(***************************************************************************)
EXTENDS PwtReports

VARIABLE screen  \* what each process has printed last

cliVars == <<reportVars, screen>>

\* The arguments that each command needs.
Arguments == [add |-> 2, list |-> 1, upd |-> 2, del |-> 1, start |-> 1, stop |-> 0,
              status |-> 0, copy |-> 3, export |-> 2]

CliInit ==
    /\ ReportsInit
    /\ screen = [p \in Proc |-> <<"nothing">>]

Prints(p, text) == screen' = [screen EXCEPT ![p] = text]

\* Too few arguments, no such command, or no such type of export.
ShowUsage(p) ==
    /\ pc[p] = "idle"
    /\ \/ \E word \in DOMAIN Arguments, n \in 0..3 :
             n < Arguments[word] /\ Prints(p, <<"usage">>)
       \/ Prints(p, <<"usage">>)
       \/ Prints(p, <<"unknown type", "usage">>)
    /\ UNCHANGED reportVars

\* The constructor throws: the configuration, the log or the database could
\* not be opened.
OpenFails(p) ==
    /\ pc[p] = "createTasks"
    /\ lock[p] = "none"
    /\ Return(p, "NONE")
    /\ Prints(p, <<"exception">>)
    /\ UNCHANGED <<file, rows, dst>>

\* Mutant: CmdCopy has no case for a label that exists.
ExistsCases_AddOnly == {"add"} \X {"TASK_ALREADY_EXISTS"}

ExistsCases == {"add", "copy"} \X {"TASK_ALREADY_EXISTS"}

\* The results that the switch of each command has a case for (and two more,
\* INVALID_TASK_LABEL and INVALID_TASK_TITLE, which nothing returns).
Named ==
    ExistsCases
    \cup ({"add", "upd", "del", "start", "stop", "copy", "list", "export"} \X {"OK"})
    \cup ({"upd", "del", "start", "stop", "copy"} \X {"TASK_NOT_FOUND"})
    \cup ({"start", "status"} \X {"ALREADY_RUNNING"})
    \cup ({"stop", "status"} \X {"NOTHING_RUNNING"})

\* The default case says that the result is unknown.
Line(op, code) ==
    IF <<op, code>> \in Named THEN <<op, code>> ELSE <<"unknown result">>

\* A process prints its result when it ends, and nothing if it is killed.
PrintResults ==
    screen' = [p \in Proc |->
                  IF pc'[p] # "idle" \/ reply'[p].code = "CRASHED" THEN <<"nothing">>
                  ELSE IF pc[p] # "idle" THEN Line(cmd[p].op, reply'[p].code)
                  ELSE screen[p]]

CliNext ==
    \/ \E p \in Proc : ShowUsage(p) \/ OpenFails(p)
    \/ ReportsNext /\ PrintResults

CliSpec == CliInit /\ [][CliNext]_cliVars

-----------------------------------------------------------------------------
(* Properties. *)

\* The command of p ends with the message about an unknown result.
Unknown(p) ==
    /\ screen'[p] # screen[p]
    /\ screen'[p][1] = "unknown result"

(* Whatever a method can return in any interleaving, main has a message for *)
(* it; only failures of the database or of the file system are "unknown".   *)
UnknownMeansFailure ==
    [][\A p \in Proc : Unknown(p) =>
          reply'[p].code \in {"DATABASE_ERROR", "FILESYSTEM_ERROR"}]_cliVars
=============================================================================
