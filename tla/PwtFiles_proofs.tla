-------------------------- MODULE PwtFiles_proofs --------------------------
(***************************************************************************)
(* For any configuration, names and files: LoadConfig reads what the       *)
(* document says, and the tasks in the database are lost in no other way   *)
(* than through another name of its file.                                  *)
(***************************************************************************)
EXTENDS PwtFiles, SequenceTheorems, TLAPS

\* What LoadConfig works on.
ConfigOK ==
    /\ doc.children \in Seq(Child)
    /\ rest \in Seq(Child)
    /\ log \in Path
    /\ database \in Path

\* An export that has truncated its destination has not been given the name of
\* the database.
ExportsElsewhere == pc = "export" => dst \in Path /\ dst # database

IInv == ConfigOK /\ ExportsElsewhere /\ content \in [File -> Content]

(* A document of Document has a sequence of children.                       *)
LEMMA DocumentChildren ==
    ASSUME NEW d \in Document
    PROVE  d.children \in Seq(Child)
<1>1. d.children \in BoundedSeq(Child, MaxChildren)
  BY DEF Document
<1>2. PICK n \in 0..MaxChildren : d.children \in [1..n -> Child]
  BY <1>1 DEF BoundedSeq, SeqOf
<1> QED
  BY <1>2, ConfigAssumption

(* The paths remain names of files while LoadConfig reads the document: an  *)
(* element without a text is not taken for one.                             *)
LEMMA LoadConfigKeeps ==
    ASSUME ConfigOK, LoadConfig
    PROVE  ConfigOK'
<1>1. CASE ParseFile
  BY <1>1 DEF ParseFile, ConfigOK
<1>2. CASE NextChild
  <2> DEFINE c == Head(rest)
  <2>1. rest # <<>> /\ c \in Child /\ Tail(rest) \in Seq(Child)
    BY <1>2 DEF NextChild, Looking, ConfigOK
  <2>2. ASSUME NEW name, Names(c, name)
        PROVE  c.text \in Path
    BY <2>1, <2>2 DEF Names, Child
  <2> HIDE DEF c
  <2>3. /\ log' = (IF Names(c, "log") THEN c.text ELSE log)
        /\ database' = (IF Names(c, "database") THEN c.text ELSE database)
        /\ rest' = Tail(rest)
        /\ doc' = doc
    BY <1>2 DEF NextChild, c
  <2> QED
    BY <2>1, <2>2, <2>3 DEF ConfigOK
<1>3. CASE Finish
  BY <1>3 DEF Finish, ConfigOK
<1> QED
  BY <1>1, <1>2, <1>3 DEF LoadConfig

(* A write to a named file leaves the files typed.                          *)
LEMMA PutKeeps ==
    ASSUME content \in [File -> Content], NEW name \in Path,
           NEW what \in Content, Put(name, what)
    PROVE  content' \in [File -> Content]
BY FilesAssumption DEF Put

LEMMA InitIInv == Init => IInv
<1> SUFFICES ASSUME Init PROVE IInv
  OBVIOUS
<1>1. doc.children \in Seq(Child)
  BY DocumentChildren DEF Init, ConfigInit
<1> QED
  BY <1>1, ConfigAssumption DEF Init, ConfigInit, IInv, ConfigOK, ExportsElsewhere

LEMMA StepIInv ==
    ASSUME IInv, [Next]_vars
    PROVE  IInv'
<1> USE DEF IInv
<1>0. FileOf[database] \in File /\ content[FileOf[database]] \in Content
  BY FilesAssumption DEF ConfigOK
<1>1. CASE Run
  BY <1>1, ConfigAssumption DEF Run, NewConfig, ConfigOK, ExportsElsewhere
<1>2. CASE ReadConfig
  <2>1. ConfigOK'
    BY <1>2, LoadConfigKeeps DEF ReadConfig
  <2> QED
    BY <1>2, <2>1 DEF ReadConfig, ExportsElsewhere
<1>3. CASE ConfigThrows \/ Crash
  BY <1>3 DEF ConfigThrows, Crash, Exit, configVars, ConfigOK, ExportsElsewhere
<1>4. CASE OpenLog
  <2>1. content' \in [File -> Content]
    BY <1>4, PutKeeps DEF OpenLog, ConfigOK, Content
  <2> QED
    BY <1>4, <2>1 DEF OpenLog, Goto, Exit, configVars, ConfigOK, ExportsElsewhere
<1>5. CASE OpenDatabase
  <2>1. content' \in [File -> Content]
    BY <1>5, PutKeeps DEF OpenDatabase, ConfigOK, Content
  <2> QED
    BY <1>5, <2>1 DEF OpenDatabase, Goto, Exit, configVars, ConfigOK, ExportsElsewhere
<1>6. CASE AddTask
  <2>1. content' \in [File -> Content]
    BY <1>6, PutKeeps DEF AddTask, ConfigOK, Content
  <2> QED
    BY <1>6, <2>1 DEF AddTask, Exit, configVars, ConfigOK, ExportsElsewhere
<1>7. ASSUME NEW name \in Path, ExportOpen(name)
      PROVE  IInv'
  <2>1. content' \in [File -> Content]
    BY <1>7, PutKeeps DEF ExportOpen, Content
  <2> QED
    BY <1>7, <2>1 DEF ExportOpen, Exit, configVars, ConfigOK, ExportsElsewhere
<1>8. CASE ExportWrite
  <2>1. content' \in [File -> Content]
    BY <1>0, <1>8, PutKeeps DEF ExportWrite, ExportsElsewhere, Database, Content
  <2> QED
    BY <1>8, <2>1 DEF ExportWrite, Exit, configVars, ConfigOK, ExportsElsewhere
<1>9. CASE UNCHANGED vars
  BY <1>9 DEF vars, configVars, ConfigOK, ExportsElsewhere
<1> QED
  BY <1>1, <1>2, <1>3, <1>4, <1>5, <1>6, <1>7, <1>8, <1>9 DEF Next

-----------------------------------------------------------------------------
(* A write to another file leaves the database alone.                       *)
LEMMA PutElsewhere ==
    ASSUME IInv, NEW name \in Path, NEW what, Put(name, what),
           FileOf[name] # Database
    PROVE  content'[Database] = content[Database]
BY FilesAssumption DEF IInv, ConfigOK, Put, Database

\* What TasksStay says of a step.
KeepsTasks ==
    \/ content[Database] \notin {"tasks", "text"}
    \/ FileOf[log] = Database
    \/ pc' = "export" /\ Alias(dst')
    \/ pc = "export" /\ Alias(dst)
    \/ content'[Database] = content[Database]

LEMMA StepKeepsTasks ==
    ASSUME IInv, Next
    PROVE  KeepsTasks
<1>1. CASE Run \/ ReadConfig \/ ConfigThrows \/ Crash
  BY <1>1 DEF Run, ReadConfig, ConfigThrows, Crash, KeepsTasks
<1>2. CASE OpenLog
  BY <1>2, PutElsewhere DEF OpenLog, KeepsTasks, IInv, ConfigOK
<1>3. CASE OpenDatabase
  BY <1>3 DEF OpenDatabase, KeepsTasks
<1>4. CASE AddTask
  <2>1. CASE content[Database] = "tasks"
    BY <1>4, <2>1, FilesAssumption DEF AddTask, IsDatabase, Put, Database, KeepsTasks,
                                       IInv, ConfigOK
  <2>2. CASE content[Database] # "tasks"
    BY <1>4, <2>2 DEF AddTask, IsDatabase, KeepsTasks
  <2> QED
    BY <2>1, <2>2
<1>5. ASSUME NEW name \in Path, ExportOpen(name)
      PROVE  KeepsTasks
  <2>1. CASE content' = content
    BY <2>1 DEF KeepsTasks
  <2>2. CASE content' # content
    <3>1. name # database /\ Put(name, "empty") /\ pc' = "export" /\ dst' = name
      BY <1>5, <2>2 DEF ExportOpen
    <3>2. CASE FileOf[name] = Database
      BY <3>1, <3>2 DEF KeepsTasks, Alias
    <3>3. CASE FileOf[name] # Database
      BY <3>1, <3>3, PutElsewhere DEF KeepsTasks
    <3> QED
      BY <3>2, <3>3
  <2> QED
    BY <2>1, <2>2
<1>6. CASE ExportWrite
  <2>1. pc = "export" /\ dst \in Path /\ dst # database
    BY <1>6 DEF ExportWrite, IInv, ExportsElsewhere
  <2>2. CASE FileOf[dst] = Database
    BY <2>1, <2>2 DEF KeepsTasks, Alias
  <2>3. CASE FileOf[dst] # Database
    BY <1>6, <2>1, <2>3, PutElsewhere DEF ExportWrite, KeepsTasks
  <2> QED
    BY <2>2, <2>3
<1> QED
  BY <1>1, <1>2, <1>3, <1>4, <1>5, <1>6 DEF Next

(* Whatever the configuration, the names given to exports and the files that *)
(* the names stand for, the tasks stay in the database (and a file that is  *)
(* none is left alone), unless the log or the destination is its file too.  *)
THEOREM NoTaskLost == Spec => TasksStay
<1>1. Init => IInv
  BY InitIInv
<1>2. IInv /\ [Next]_vars => IInv'
  BY StepIInv
<1>3. IInv /\ [Next]_vars => [KeepsTasks]_content
  BY StepKeepsTasks DEF vars
<1> QED
  BY <1>1, <1>2, <1>3, PTL DEF Spec, TasksStay, KeepsTasks

-----------------------------------------------------------------------------
(* What LoadConfig has read. *)

\* How many children it has looked at.
Read == Len(doc.children) - Len(rest)

\* It has found name exactly if a child that it has read gives it a text, and
\* has then the last such text.
Follows(name, found, path) ==
    /\ found \in BOOLEAN
    /\ found <=> Given(name, Read) # {}
    /\ found => path = LastGiven(name, Read)

\* rest is what remains of the document; both paths were not known earlier.
ConfigRead ==
    /\ doc.children \in Seq(Child)
    /\ rest \in Seq(Child)
    /\ Len(rest) <= Len(doc.children)
    /\ \A i \in 1..Len(rest) : rest[i] = doc.children[Read + i]
    /\ Follows("log", foundLog, log)
    /\ Follows("database", foundDatabase, database)
    /\ Given("log", Read - 1) = {} \/ Given("database", Read - 1) = {}
    /\ outcome = "ok" => foundLog /\ foundDatabase
    /\ outcome = "invalid" /\ doc.root = "config" =>
          rest = <<>> /\ ~(foundLog /\ foundDatabase)
    /\ doc.root = "config" => outcome \in {"loading", "ok", "invalid"}

(* The places that give a name are among the first ones looked at, and more  *)
(* children give no fewer.                                                  *)
LEMMA GivenPlaces ==
    ASSUME NEW name, NEW m \in Int, NEW n \in Int, m <= n, doc.children \in Seq(Child)
    PROVE  Given(name, m) \subseteq Given(name, n) /\ Given(name, n) \subseteq 1..n
BY DEF Given

(* The greatest of a set of numbers is the one that is chosen.              *)
LEMMA Greatest ==
    ASSUME NEW G, G \subseteq Int, NEW k \in G, \A j \in G : j <= k
    PROVE  (CHOOSE i \in G : \A j \in G : j <= i) = k
<1> DEFINE c == CHOOSE i \in G : \A j \in G : j <= i
<1>1. c \in G /\ \A j \in G : j <= c
  OBVIOUS
<1> HIDE DEF c
<1>2. c = k
  BY <1>1
<1> QED
  BY <1>2 DEF c

(* One child more is read.                                                  *)
LEMMA OneMore ==
    ASSUME doc.children \in Seq(Child), NEW name, NEW n \in Nat,
           n + 1 \in 1..Len(doc.children), NEW c, c = doc.children[n + 1]
    PROVE  /\ Names(c, name) => /\ Given(name, n + 1) # {}
                                /\ LastGiven(name, n + 1) = c.text
           /\ ~Names(c, name) => Given(name, n + 1) = Given(name, n)
<1>1. CASE Names(c, name)
  <2>1. n + 1 \in Given(name, n + 1)
    BY <1>1 DEF Given, Names
  <2>2. Given(name, n + 1) \subseteq Int /\ \A j \in Given(name, n + 1) : j <= n + 1
    BY DEF Given
  <2> QED
    BY <1>1, <2>1, <2>2, Greatest DEF LastGiven
<1>2. CASE ~Names(c, name)
  BY <1>2 DEF Given, Names
<1> QED
  BY <1>1, <1>2

(* Nothing is read yet.                                                     *)
LEMMA NothingRead ==
    ASSUME doc.children \in Seq(Child), rest = doc.children,
           ~foundLog, ~foundDatabase, foundLog \in BOOLEAN, foundDatabase \in BOOLEAN,
           outcome = "loading"
    PROVE  ConfigRead
<1>1. Read = 0
  BY DEF Read
<1>2. ASSUME NEW name
      PROVE  Given(name, 0) = {} /\ Given(name, -1) = {}
  BY DEF Given
<1> QED
  BY <1>1, <1>2 DEF ConfigRead, Follows

LEMMA NextChildReads ==
    ASSUME ConfigRead, NextChild
    PROVE  ConfigRead'
<1> DEFINE n == Read
           c == Head(rest)
<1>1. /\ doc.children \in Seq(Child) /\ rest \in Seq(Child) /\ rest # <<>>
      /\ doc' = doc /\ rest' = Tail(rest) /\ outcome' = "loading"
  BY DEF ConfigRead, NextChild, Looking
<1>2. /\ n \in Nat /\ n + 1 \in 1..Len(doc.children)
      /\ Len(rest) \in Nat /\ Len(rest) > 0
  BY <1>1 DEF ConfigRead, Read
<1>3. c = doc.children[n + 1]
  BY <1>1, <1>2 DEF ConfigRead
<1>4. /\ rest' \in Seq(Child) /\ Len(rest') = Len(rest) - 1
      /\ \A i \in 1..Len(rest') : rest'[i] = rest[i + 1]
  BY <1>1, <1>2
<1>5. Read' = n + 1
  BY <1>1, <1>2, <1>4 DEF Read
<1>6. \A i \in 1..Len(rest') : rest'[i] = doc.children[(n + 1) + i]
  <2> TAKE i \in 1..Len(rest')
  <2>1. i + 1 \in 1..Len(rest) /\ n + (i + 1) = (n + 1) + i
    BY <1>2, <1>4
  <2>2. rest[i + 1] = doc.children[n + (i + 1)]
    BY <2>1 DEF ConfigRead
  <2> QED
    BY <1>4, <2>1, <2>2
<1>7. /\ log' = (IF Names(c, "log") THEN c.text ELSE log)
      /\ foundLog' = (foundLog \/ Names(c, "log"))
      /\ database' = (IF Names(c, "database") THEN c.text ELSE database)
      /\ foundDatabase' = (foundDatabase \/ Names(c, "database"))
  BY DEF NextChild
<1> HIDE DEF c
<1>8. ASSUME NEW name
      PROVE  /\ Given(name, Read)' = Given(name, n + 1)
             /\ Given(name, Read - 1)' = Given(name, n)
             /\ LastGiven(name, Read)' = LastGiven(name, n + 1)
  <2> HIDE DEF n
  <2>1. Given(name, Read)' = Given(name, n + 1)
    BY <1>1, <1>5 DEF Given
  <2>2. Read' - 1 = n
    BY <1>2, <1>5
  <2>3. Given(name, Read - 1)' = Given(name, n)
    BY <1>1, <2>2 DEF Given
  <2>4. LastGiven(name, Read)' = LastGiven(name, n + 1)
    BY <1>1, <2>1 DEF LastGiven
  <2> QED
    BY <2>1, <2>3, <2>4
<1>9. ASSUME NEW name
      PROVE  /\ Names(c, name) => /\ Given(name, n + 1) # {}
                                  /\ LastGiven(name, n + 1) = c.text
             /\ ~Names(c, name) => /\ Given(name, n + 1) = Given(name, n)
                                   /\ LastGiven(name, n + 1) = LastGiven(name, n)
  <2> HIDE DEF n
  <2>1. /\ Names(c, name) => /\ Given(name, n + 1) # {}
                             /\ LastGiven(name, n + 1) = c.text
        /\ ~Names(c, name) => Given(name, n + 1) = Given(name, n)
    BY <1>1, <1>2, <1>3, OneMore
  <2> QED
    BY <2>1 DEF LastGiven
<1>10. /\ Follows("log", foundLog, log)
       /\ Follows("database", foundDatabase, database)
  BY DEF ConfigRead
<1>11. Follows("log", foundLog, log)'
  BY <1>7, <1>8, <1>9, <1>10 DEF Follows, Names
<1>12. Follows("database", foundDatabase, database)'
  BY <1>7, <1>8, <1>9, <1>10 DEF Follows, Names
<1>13. (Given("log", Read - 1) = {} \/ Given("database", Read - 1) = {})'
  BY <1>8, <1>10 DEF Follows, NextChild, Looking
<1>14. Len(rest') <= Len(doc.children)
  BY <1>1, <1>2, <1>4 DEF ConfigRead
<1> HIDE DEF n
<1>15. (\A i \in 1..Len(rest) : rest[i] = doc.children[Read + i])'
  BY <1>1, <1>5, <1>6
<1> QED
  BY <1>1, <1>4, <1>11, <1>12, <1>13, <1>14, <1>15 DEF ConfigRead

LEMMA FinishReads ==
    ASSUME ConfigRead, Finish \/ ParseFile
    PROVE  ConfigRead'
<1>1. UNCHANGED <<doc, rest, log, database, foundLog, foundDatabase>>
  BY DEF Finish, ParseFile
<1>2. ASSUME NEW name, NEW n
      PROVE  Given(name, n)' = Given(name, n) /\ LastGiven(name, n)' = LastGiven(name, n)
  BY <1>1 DEF Given, LastGiven
<1>3. Read' = Read
  BY <1>1 DEF Read
<1>4. /\ (outcome = "ok" => foundLog /\ foundDatabase)'
      /\ (outcome = "invalid" /\ doc.root = "config" =>
            rest = <<>> /\ ~(foundLog /\ foundDatabase))'
      /\ (doc.root = "config" => outcome \in {"loading", "ok", "invalid"})'
  BY <1>1 DEF Finish, ParseFile, Looking, ConfigRead, Follows
<1>5. /\ Given("log", Read)' = Given("log", Read)
      /\ Given("database", Read)' = Given("database", Read)
      /\ Given("log", Read - 1)' = Given("log", Read - 1)
      /\ Given("database", Read - 1)' = Given("database", Read - 1)
      /\ LastGiven("log", Read)' = LastGiven("log", Read)
      /\ LastGiven("database", Read)' = LastGiven("database", Read)
  BY <1>1, <1>3 DEF Given, LastGiven
<1> QED
  BY <1>1, <1>3, <1>4, <1>5 DEF ConfigRead, Follows

(* What is read of the document settles what the program accepts.           *)
LEMMA ReadSettles == ConfigRead => PathsAreRead
<1> SUFFICES ASSUME ConfigRead PROVE PathsAreRead
  OBVIOUS
<1>1. /\ doc.children \in Seq(Child) /\ rest \in Seq(Child) /\ Read \in Nat
      /\ Read <= Len(doc.children)
  BY DEF ConfigRead, Read
<1>2. ASSUME outcome = "ok"
      PROVE  /\ Read \in DOMAIN doc.children /\ Complete(Read)
             /\ log = LastGiven("log", Read) /\ database = LastGiven("database", Read)
  <2>1. /\ Given("log", Read) # {} /\ log = LastGiven("log", Read)
        /\ Given("database", Read) # {} /\ database = LastGiven("database", Read)
    BY <1>2 DEF ConfigRead, Follows
  <2>2. Read \in DOMAIN doc.children
    BY <1>1, <2>1 DEF Given
  <2>3. ASSUME NEW m \in 0..(Read - 1)
        PROVE  Given("log", m) = {} \/ Given("database", m) = {}
    <3>1. /\ Given("log", m) \subseteq Given("log", Read - 1)
          /\ Given("database", m) \subseteq Given("database", Read - 1)
      BY <1>1, GivenPlaces
    <3> QED
      BY <3>1 DEF ConfigRead
  <2> QED
    BY <2>1, <2>2, <2>3 DEF Complete
<1>3. ASSUME outcome = "invalid", doc.root = "config", NEW n \in DOMAIN doc.children
      PROVE  ~Complete(n)
  <2>1. rest = <<>> /\ ~(foundLog /\ foundDatabase)
    BY <1>3 DEF ConfigRead
  <2>2. n \in Int /\ n <= Read
    BY <1>1, <1>3, <2>1 DEF Read
  <2>3. /\ Given("log", n) \subseteq Given("log", Read)
        /\ Given("database", n) \subseteq Given("database", Read)
    BY <1>1, <2>2, GivenPlaces
  <2> QED
    BY <2>1, <2>3 DEF ConfigRead, Follows, Complete
<1>4. ASSUME NEW m \in DOMAIN doc.children, NEW n \in DOMAIN doc.children,
             Complete(m), Complete(n)
      PROVE  m = n
  <2>1. m \in Nat /\ n \in Nat /\ m \notin 0..(n - 1) /\ n \notin 0..(m - 1)
    BY <1>1, <1>4 DEF Complete
  <2> QED
    BY <2>1
<1>5. ASSUME outcome # "loading", doc.root = "config", NEW n \in DOMAIN doc.children,
             Complete(n)
      PROVE  /\ outcome = "ok" /\ log = LastGiven("log", n)
             /\ database = LastGiven("database", n)
  <2>1. outcome = "ok"
    BY <1>3, <1>5 DEF ConfigRead
  <2>2. n = Read
    BY <1>2, <1>4, <1>5, <2>1
  <2> QED
    BY <1>2, <2>1, <2>2
<1> QED
  BY <1>5 DEF PathsAreRead

LEMMA ReadInit == Init => ConfigRead
BY DocumentChildren, NothingRead DEF Init, ConfigInit

LEMMA ReadStep ==
    ASSUME ConfigRead, [Next]_vars
    PROVE  ConfigRead'
<1>1. CASE Run
  <2>1. /\ doc.children \in Seq(Child) /\ doc' = doc /\ rest' = doc.children
        /\ foundLog' = FALSE /\ foundDatabase' = FALSE /\ outcome' = "loading"
    BY <1>1 DEF Run, NewConfig, ConfigRead
  <2>2. Read' = 0
    BY <2>1 DEF Read
  <2>3. /\ Given("log", Read)' = {} /\ Given("database", Read)' = {}
        /\ Given("log", Read - 1)' = {}
    BY <2>1, <2>2 DEF Given
  <2>4. /\ doc'.children = doc.children /\ rest' \in Seq(Child)
        /\ Len(rest') = Len(doc'.children) /\ Len(rest') \in Nat
    BY <2>1
  <2>5. (\A i \in 1..Len(rest) : rest[i] = doc.children[Read + i])'
    BY <2>1, <2>2, <2>4
  <2>6. Follows("log", foundLog, log)' /\ Follows("database", foundDatabase, database)'
    BY <2>1, <2>3 DEF Follows
  <2> QED
    BY <2>1, <2>3, <2>4, <2>5, <2>6 DEF ConfigRead
<1>2. CASE ReadConfig
  BY <1>2, NextChildReads, FinishReads DEF ReadConfig, LoadConfig
<1>3. CASE UNCHANGED configVars
  <2>1. UNCHANGED <<doc, rest, log, database, foundLog, foundDatabase, outcome>>
    BY <1>3 DEF configVars
  <2> QED
    BY <2>1 DEF ConfigRead, Follows, Read, Given, LastGiven
<1>4. ASSUME NEW name \in Path, ExportOpen(name)
      PROVE  UNCHANGED configVars
  BY <1>4 DEF ExportOpen, Exit
<1> QED
  BY <1>1, <1>2, <1>3, <1>4
  DEF Next, vars, ConfigThrows, OpenLog, OpenDatabase, AddTask, ExportWrite, Crash,
      Exit, Goto

(* However many children a document has, in whatever order and however often *)
(* it names the log and the database, LoadConfig accepts it if it names     *)
(* both, and takes the last path of each up to where both are known.        *)
THEOREM ConfigIsRead == Spec => []PathsAreRead
<1>1. Init => ConfigRead
  BY ReadInit
<1>2. ConfigRead /\ [Next]_vars => ConfigRead'
  BY ReadStep
<1>3. ConfigRead => PathsAreRead
  BY ReadSettles
<1> QED
  BY <1>1, <1>2, <1>3, PTL DEF Spec
=============================================================================
