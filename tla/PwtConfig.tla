----------------------------- MODULE PwtConfig ------------------------------
(***************************************************************************)
(* LoadConfig: the loop over the children of the root of pwt.config, which *)
(* takes the paths of the log and of the database from it.  PwtFiles runs  *)
(* it at the start of every run of the program.                            *)
(***************************************************************************)
EXTENDS Naturals, SequencesExt

CONSTANTS
    Path,                        \* the names of files
    NoText,                      \* an element without a text
    DefaultLog, DefaultDatabase, \* "pwt.log" and "pwt.sqlite"
    MaxChildren                  \* bound: the children of the root

ASSUME ConfigAssumption ==
    /\ NoText \notin Path
    /\ {DefaultLog, DefaultDatabase} \subseteq Path
    /\ MaxChildren \in Nat

VARIABLES
    doc,                      \* the file, as the XML library has parsed it
    rest,                     \* the children not yet looked at
    log, database,            \* m_szLog and m_szDatabase
    foundLog, foundDatabase,
    outcome                   \* "loading", "ok", or the exception thrown

configVars == <<doc, rest, log, database, foundLog, foundDatabase, outcome>>

\* Comments, white space and other elements are "other".
Child == [name : {"log", "database"}, text : Path \cup {NoText}]
         \cup [name : {"other"}, text : {NoText}]

Document == [root : {"config", "other", "unreadable"},
             children : BoundedSeq(Child, MaxChildren)]

ConfigInit ==
    /\ doc \in Document
    /\ rest = doc.children
    /\ log = DefaultLog
    /\ database = DefaultDatabase
    /\ foundLog = FALSE
    /\ foundDatabase = FALSE
    /\ outcome = "loading"

\* The constructor, and the root of the document.
NewConfig ==
    /\ rest' = doc.children
    /\ log' = DefaultLog
    /\ database' = DefaultDatabase
    /\ foundLog' = FALSE
    /\ foundDatabase' = FALSE
    /\ outcome' = "loading"
    /\ UNCHANGED doc

\* Mutant: an element counts although it has no text.
Names_Empty(c, name) == c.name = name

\* The child c is the element name, with a text.
Names(c, name) == c.name = name /\ c.text # NoText

ParseFile ==
    /\ doc.root # "config"
    /\ outcome = "loading"
    /\ outcome' = IF doc.root = "unreadable" THEN "open" ELSE "invalid"
    /\ UNCHANGED <<doc, rest, log, database, foundLog, foundDatabase>>

\* The condition on which the loop goes on.
Looking == rest # <<>> /\ ~(foundLog /\ foundDatabase)

NextChild ==
    /\ doc.root = "config"
    /\ outcome = "loading"
    /\ Looking
    /\ LET c == Head(rest)
       IN  /\ log' = IF Names(c, "log") THEN c.text ELSE log
           /\ foundLog' = (foundLog \/ Names(c, "log"))
           /\ database' = IF Names(c, "database") THEN c.text ELSE database
           /\ foundDatabase' = (foundDatabase \/ Names(c, "database"))
    /\ rest' = Tail(rest)
    /\ UNCHANGED <<doc, outcome>>

Finish ==
    /\ doc.root = "config"
    /\ outcome = "loading"
    /\ ~Looking
    /\ outcome' = IF foundLog /\ foundDatabase THEN "ok" ELSE "invalid"
    /\ UNCHANGED <<doc, rest, log, database, foundLog, foundDatabase>>

LoadConfig == ParseFile \/ NextChild \/ Finish

-----------------------------------------------------------------------------
(* Properties. *)

\* The places before n at which a child gives a text to name.
Given(name, n) == {i \in DOMAIN doc.children :
                      /\ i <= n
                      /\ doc.children[i].name = name
                      /\ doc.children[i].text # NoText}

\* The first n children name both paths, and fewer do not.
Complete(n) ==
    /\ Given("log", n) # {} /\ Given("database", n) # {}
    /\ \A m \in 0..(n - 1) : Given("log", m) = {} \/ Given("database", m) = {}

LastGiven(name, n) ==
    doc.children[CHOOSE i \in Given(name, n) : \A j \in Given(name, n) : j <= i].text

(* A configuration that has both elements with a path is accepted, and the  *)
(* paths are the last given up to the point where both are known, whatever  *)
(* the order, the repetitions and the rest of the document.                 *)
PathsAreRead ==
    outcome # "loading" /\ doc.root = "config" =>
        \A n \in DOMAIN doc.children : Complete(n) =>
            /\ outcome = "ok"
            /\ log = LastGiven("log", n)
            /\ database = LastGiven("database", n)
=============================================================================
