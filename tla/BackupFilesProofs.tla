------------------------- MODULE BackupFilesProofs -------------------------
(***************************************************************************)
(* Proofs about BackupFiles, for any accounts, devices, schedules, windows *)
(* and bounds: the types, in one session or in several, and that in one    *)
(* session the files implement the table of jobs.                          *)
(***************************************************************************)
EXTENDS BackupFiles, TLAPS

(* A request carries what its operation needs.                             *)
WellAsked ==
  \A w \in Window : ask[w] # NoAsk =>
    /\ ask[w].op \in {"create", "remove", "update"} => ask[w].slot \in Schedule
    /\ ask[w].op = "update" => ask[w].new \in Schedule
    /\ ask[w].op \in {"add", "remove_account", "edit_account"} => ask[w].target \in Account
    /\ ask[w].op = "edit_account" => ask[w].new \in Account

FilesInv == TypeOKFiles /\ WellAsked

Operation == {"create", "remove", "update", "add", "remove_account", "edit_account"}

-----------------------------------------------------------------------------
(* The programs, and which of them fill which file.                        *)
LEMMA Programs ==
  ASSUME NEW op \in Operation
  PROVE  /\ Len(Program[op]) \in 1..7
         /\ \A i \in 1..Len(Program[op]) :
              /\ Program[op][i] = "fill_accounts" => op \in {"add", "remove_account", "edit_account"}
              /\ Program[op][i] = "fill_jobs" => op # "add"
<1> USE DEF Program, Operation
<1>1. CASE op \in {"create", "remove", "update"}
  <2>1. Program[op] = << "read_jobs", "open_jobs", "fill_jobs" >>
    BY <1>1
  <2> QED
    BY <1>1, <2>1
<1>2. CASE op = "add"
  <2>1. Program[op] = << "read_accounts", "open_accounts", "fill_accounts" >>
    BY <1>2
  <2> QED
    BY <1>2, <2>1
<1>3. CASE op = "remove_account"
  <2>1. Program[op] = << "read_jobs", "open_jobs", "fill_jobs",
                         "read_accounts", "open_accounts", "fill_accounts" >>
    BY <1>3
  <2> QED
    BY <1>3, <2>1
<1>4. CASE op = "edit_account"
  <2>1. Program[op] = << "read_accounts", "read_jobs", "read_accounts", "open_accounts",
                         "fill_accounts", "open_jobs", "fill_jobs" >>
    BY <1>4
  <2> QED
    BY <1>4, <2>1
<1> QED
  BY <1>1, <1>2, <1>3, <1>4

USE FilesAssumption, NoAskAssumption DEF FilesInv, Target, Entry

(* A file with no accounts and no jobs is a file of the types.             *)
LEMMA EmptyIsFile == Empty \in File
BY DEF Empty, File

(* What a request writes is a file.                                        *)
LEMMA NewJobsIsFile ==
  ASSUME NEW f \in File, NEW q \in Query, q.op # "add",
         q.op = "create" => q.slot \in Schedule,
         q.op = "update" => q.new \in Schedule,
         q.op = "edit_account" => q.target \in Account /\ q.new \in Account
  PROVE  NewJobs(q, f) \in File
<1> USE DEF File, Query
<1>1. CASE q.op \in {"create", "remove", "update"}
  BY <1>1 DEF NewJobs, With, Dropped
<1>2. CASE q.op = "remove_account"
  BY <1>2 DEF NewJobs, Without, Of
<1>3. CASE q.op = "edit_account"
  <2>1. Renamed(f, q.target, q.new) \in File
    BY <1>3 DEF Renamed, Of
  <2> QED
    BY <1>3, <2>1 DEF NewJobs
<1> QED
  BY <1>1, <1>2, <1>3

(* What a request makes of the accounts is again a set of accounts.        *)
LEMMA NewAccountsAreAccounts ==
  ASSUME NEW a \in SUBSET Account, NEW q \in Query, q.target \in Account,
         q.op \in {"add", "remove_account", "edit_account"},
         q.op = "edit_account" => q.new \in Account
  PROVE  NewAccounts(q, a) \subseteq Account
BY DEF NewAccounts

(* The pages start with nothing asked.                                     *)
LEMMA InitFilesInv == InitFiles => FilesInv
BY EmptyIsFile DEF InitFiles, TypeOKFiles, WellAsked, Kind

(* A request that is submitted.                                            *)
LEMMA SendInv ==
  ASSUME FilesInv, NEW w \in Window, NEW q \in Query, Send(w, q),
         q.op \in {"create", "remove", "update"} => q.slot \in Schedule,
         q.op = "update" => q.new \in Schedule,
         q.op \in {"add", "remove_account", "edit_account"} => q.target \in Account,
         q.op = "edit_account" => q.new \in Account
  PROVE  FilesInv'
<1>1. Len(Program[q.op]) \in 1..7
  BY Programs DEF Query, Operation
<1>2. /\ ask' = [ask EXCEPT ![w] = q] /\ at' = [at EXCEPT ![w] = 1] /\ ops' \in 0..MaxOps
      /\ UNCHANGED <<fileVars, file, acc, windowVars>>
  BY DEF Send, TypeOKFiles
<1>3. WellAsked'
  BY <1>2 DEF WellAsked, TypeOKFiles
<1>4. TypeOKFiles'
  <2>1. 1 \in 1..Len(Program[q.op])
    <3>1. \A n \in 1..7 : 1 \in 1..n
      OBVIOUS
    <3> QED
      BY <1>1, <3>1, Zenon
  <2>2. /\ ask' \in [Window -> Query \cup {NoAsk}]
        /\ at' \in [Window -> 0..7]
        /\ \A v \in Window : IF ask'[v] = NoAsk THEN at'[v] = 0
                              ELSE at'[v] \in 1..Len(Program[ask'[v].op])
    BY <1>2, <2>1 DEF TypeOKFiles
  <2> QED
    BY <1>2, <2>2 DEF TypeOKFiles, fileVars, windowVars
<1> QED
  BY <1>3, <1>4

(* A window changes only what it shows and what it asks.                   *)
LEMMA WindowInv ==
  ASSUME FilesInv, NEW w \in Window, Reload(w) \/ Submit(w)
  PROVE  FilesInv'
<1>1. CASE Reload(w)
  <2>1. Entries \subseteq Entry
    BY DEF Entries, TypeOKFiles, File, Kind
  <2> QED
    BY <1>1, <2>1 DEF Reload, ShowJobs, ShowAccounts, TypeOKFiles, WellAsked, fileVars, requestVars
<1>2. CASE Submit(w)
  <2>1. known[w] \subseteq Account /\ rows[w] \subseteq Entry
    BY DEF TypeOKFiles
  <2>2. ASSUME NEW t \in known[w] \cup Device, NEW s \in Schedule,
               Send(w, [op |-> "create", target |-> t, slot |-> s, new |-> NoAsk])
        PROVE  FilesInv'
    <3>1. [op |-> "create", target |-> t, slot |-> s, new |-> NoAsk] \in Query
      BY <2>1 DEF Query
    <3> QED
      BY <2>2, <3>1, SendInv
  <2>3. ASSUME NEW e \in rows[w],
               Send(w, [op |-> "remove", target |-> e[1], slot |-> e[2], new |-> NoAsk])
        PROVE  FilesInv'
    <3>1. [op |-> "remove", target |-> e[1], slot |-> e[2], new |-> NoAsk] \in Query
      BY <2>1 DEF Query
    <3> QED
      BY <2>1, <2>3, <3>1, SendInv
  <2>4. ASSUME NEW e \in rows[w], NEW s \in Schedule,
               Send(w, [op |-> "update", target |-> e[1], slot |-> e[2], new |-> s])
        PROVE  FilesInv'
    <3>1. [op |-> "update", target |-> e[1], slot |-> e[2], new |-> s] \in Query
      BY <2>1 DEF Query
    <3> QED
      BY <2>1, <2>4, <3>1, SendInv
  <2>5. ASSUME NEW a \in Account,
               Send(w, [op |-> "add", target |-> a, slot |-> NoAsk, new |-> NoAsk])
        PROVE  FilesInv'
    <3>1. [op |-> "add", target |-> a, slot |-> NoAsk, new |-> NoAsk] \in Query
      BY DEF Query
    <3> QED
      BY <2>5, <3>1, SendInv
  <2>6. ASSUME NEW a \in known[w],
               Send(w, [op |-> "remove_account", target |-> a, slot |-> NoAsk, new |-> NoAsk])
        PROVE  FilesInv'
    <3>1. [op |-> "remove_account", target |-> a, slot |-> NoAsk, new |-> NoAsk] \in Query
      BY <2>1 DEF Query
    <3> QED
      BY <2>1, <2>6, <3>1, SendInv
  <2>7. ASSUME NEW a \in known[w], NEW b \in Account,
               Send(w, [op |-> "edit_account", target |-> a, slot |-> NoAsk, new |-> b])
        PROVE  FilesInv'
    <3>1. [op |-> "edit_account", target |-> a, slot |-> NoAsk, new |-> b] \in Query
      BY <2>1 DEF Query
    <3> QED
      BY <2>1, <2>7, <3>1, SendInv
  <2> QED
    BY <1>2, <2>2, <2>3, <2>4, <2>5, <2>6, <2>7
       DEF Submit, AskCreate, AskRemove, AskUpdate, AskAdd, AskRemoveAccount, AskEditAccount
<1> QED
  BY <1>1, <1>2

(* The position of a request after a step.                                 *)
LEMMA GoOnInv ==
  ASSUME FilesInv, NEW w \in Window, Submitted(w), GoOn(w)
  PROVE  /\ ask' \in [Window -> Query \cup {NoAsk}]
         /\ at' \in [Window -> 0..7]
         /\ \A v \in Window : IF ask'[v] = NoAsk THEN at'[v] = 0
                               ELSE at'[v] \in 1..Len(Program[ask'[v].op])
         /\ stale' \subseteq Window
         /\ WellAsked'
<1>1. ask[w] \in Query /\ at[w] \in 1..Len(Program[ask[w].op]) /\ Len(Program[ask[w].op]) \in 1..7
  <2>1. ask[w] \in Query
    BY DEF TypeOKFiles, Submitted
  <2>2. ask[w].op \in Operation
    BY <2>1 DEF Query, Operation
  <2> QED
    BY <2>1, <2>2, Programs DEF TypeOKFiles, Submitted
<1>2. CASE at[w] < Len(Program[ask[w].op])
  <2>1. at' = [at EXCEPT ![w] = @ + 1] /\ UNCHANGED <<ask, stale>>
    BY <1>2 DEF GoOn
  <2>2. at[w] + 1 \in 1..Len(Program[ask[w].op]) /\ at[w] + 1 \in 0..7
    <3>1. PICK n \in 1..7 : n = Len(Program[ask[w].op])
      BY <1>1
    <3>2. PICK i \in 1..n : i = at[w]
      BY <1>1, <3>1
    <3>3. i < n
      BY <1>2, <3>1, <3>2
    <3>4. i + 1 \in 1..n /\ i + 1 \in 0..7
      BY <3>3
    <3> QED
      BY <3>1, <3>2, <3>4
  <2> QED
    BY <1>1, <2>1, <2>2 DEF TypeOKFiles, WellAsked
<1>3. CASE ~(at[w] < Len(Program[ask[w].op]))
  <2>1. /\ at' = [at EXCEPT ![w] = 0] /\ ask' = [ask EXCEPT ![w] = NoAsk]
        /\ stale' = stale \cup {w}
    BY <1>3 DEF GoOn
  <2> QED
    BY <2>1 DEF TypeOKFiles, WellAsked
<1> QED
  BY <1>2, <1>3

(* A request that is served leaves the files within their types.           *)
LEMMA ServeInv ==
  ASSUME FilesInv, NEW w \in Window, Serve(w)
  PROVE  FilesInv'
<1>1. CASE Refuse(w)
  BY <1>1, EmptyIsFile DEF Refuse, Leave, TypeOKFiles, WellAsked, fileVars
<1>2. ASSUME Submitted(w)
      PROVE  /\ ask[w] \in Query
             /\ KindOf(ask[w].target) \in Kind
             /\ jobs[KindOf(ask[w].target)] \in File
  BY <1>2 DEF TypeOKFiles, Submitted, KindOf, Kind
<1>3. CASE ReadJobs(w)
  <2>1. Submitted(w) /\ GoOn(w)
    BY <1>3 DEF ReadJobs, Doing
  <2>2. file' \in [Window -> File]
    BY <1>2, <1>3, <2>1 DEF ReadJobs, TypeOKFiles
  <2> QED
    BY <1>3, <2>1, <2>2, GoOnInv DEF ReadJobs, TypeOKFiles, fileVars
<1>4. CASE ReadAccounts(w)
  <2>1. Submitted(w) /\ GoOn(w)
    BY <1>4 DEF ReadAccounts, Doing
  <2>2. acc' \in [Window -> SUBSET Account]
    BY <1>4 DEF ReadAccounts, TypeOKFiles
  <2> QED
    BY <1>4, <2>1, <2>2, GoOnInv DEF ReadAccounts, TypeOKFiles, fileVars
<1>5. CASE OpenJobs(w)
  <2>1. Submitted(w) /\ GoOn(w)
    BY <1>5 DEF OpenJobs, Doing
  <2>2. jobs' \in [Kind -> File] /\ exists' \subseteq Kind
    BY <1>2, <1>5, <2>1, EmptyIsFile DEF OpenJobs, TypeOKFiles
  <2> QED
    BY <1>5, <2>1, <2>2, GoOnInv DEF OpenJobs, TypeOKFiles
<1>6. CASE FillJobs(w)
  <2>1. Submitted(w) /\ GoOn(w) /\ Program[ask[w].op][at[w]] = "fill_jobs"
    BY <1>6 DEF FillJobs, Doing, Step
  <2>2. ask[w].op # "add"
    <3>1. at[w] \in 1..Len(Program[ask[w].op]) /\ ask[w].op \in Operation
      BY <1>2, <2>1 DEF TypeOKFiles, Submitted, Query, Operation
    <3> QED
      BY <2>1, <3>1, Programs
  <2>3. NewJobs(ask[w], file[w]) \in File
    <3>1. file[w] \in File /\ ask[w] # NoAsk
      BY <1>2, <2>1 DEF TypeOKFiles
    <3> QED
      BY <1>2, <2>1, <2>2, <3>1, NewJobsIsFile DEF WellAsked
  <2>4. jobs' \in [Kind -> File] /\ file' \in [Window -> File]
    BY <1>2, <1>6, <2>1, <2>3, EmptyIsFile DEF FillJobs, TypeOKFiles
  <2> QED
    BY <1>6, <2>1, <2>4, GoOnInv DEF FillJobs, TypeOKFiles
<1>7. CASE OpenAccounts(w)
  <2>1. Submitted(w) /\ GoOn(w)
    BY <1>7 DEF OpenAccounts, Doing
  <2> QED
    BY <1>7, <2>1, GoOnInv DEF OpenAccounts, TypeOKFiles
<1>8. CASE FillAccounts(w)
  <2>1. Submitted(w) /\ GoOn(w) /\ Program[ask[w].op][at[w]] = "fill_accounts"
    BY <1>8 DEF FillAccounts, Doing, Step
  <2>2. ask[w].op \in {"add", "remove_account", "edit_account"}
    <3>1. at[w] \in 1..Len(Program[ask[w].op]) /\ ask[w].op \in Operation
      BY <1>2, <2>1 DEF TypeOKFiles, Submitted, Query, Operation
    <3> QED
      BY <2>1, <3>1, Programs
  <2>3. NewAccounts(ask[w], acc[w]) \subseteq Account
    <3>1. acc[w] \in SUBSET Account /\ ask[w] # NoAsk
      BY <1>2, <2>1 DEF TypeOKFiles
    <3> QED
      BY <1>2, <2>1, <2>2, <3>1, NewAccountsAreAccounts DEF WellAsked
  <2>4. accounts' \subseteq Account /\ acc' \in [Window -> SUBSET Account]
    BY <1>8, <2>3 DEF FillAccounts, TypeOKFiles
  <2> QED
    BY <1>8, <2>1, <2>4, GoOnInv DEF FillAccounts, TypeOKFiles
<1> QED
  BY <1>1, <1>3, <1>4, <1>5, <1>6, <1>7, <1>8 DEF Serve

(* Every step of the windows and the server keeps the types.               *)
LEMMA StepFilesInv == FilesInv /\ [NextFiles]_webVars => FilesInv'
<1> SUFFICES ASSUME FilesInv, [NextFiles]_webVars PROVE FilesInv'
  OBVIOUS
<1>1. CASE UNCHANGED webVars
  BY <1>1 DEF webVars, fileVars, requestVars, windowVars, TypeOKFiles, WellAsked
<1>2. CASE NextFiles
  BY <1>2, WindowInv, ServeInv DEF NextFiles
<1> QED
  BY <1>1, <1>2

(* Types of the files, the requests and the windows.                       *)
THEOREM FilesTypeCorrect == SpecFiles => []TypeOKFiles
BY InitFilesInv, StepFilesInv, PTL DEF SpecFiles

-----------------------------------------------------------------------------
(* The refinement.  One invariant says what a request has read and that it *)
(* is still so, step for step of its program; for each action a lemma says *)
(* which step of the table it is, if any.                                  *)
JobsOp == {"create", "remove", "update", "remove_account"}

Opens == {"open_jobs", "open_accounts"}

(* Which step of which program is which.                                   *)
LEMMA StepTable ==
  ASSUME NEW op \in Operation, NEW n \in 1..Len(Program[op])
  PROVE  /\ Len(Program[op]) = IF op = "edit_account" THEN 7
                               ELSE IF op = "remove_account" THEN 6 ELSE 3
         /\ Program[op][n] = "read_jobs" <=> (op \in JobsOp /\ n = 1) \/ (op = "edit_account" /\ n = 2)
         /\ Program[op][n] = "open_jobs" <=> (op \in JobsOp /\ n = 2) \/ (op = "edit_account" /\ n = 6)
         /\ Program[op][n] = "fill_jobs" <=> (op \in JobsOp /\ n = 3) \/ (op = "edit_account" /\ n = 7)
         /\ Program[op][n] = "read_accounts" <=>
              (op = "add" /\ n = 1) \/ (op = "remove_account" /\ n = 4) \/ (op = "edit_account" /\ n \in {1, 3})
         /\ Program[op][n] = "open_accounts" <=>
              (op = "add" /\ n = 2) \/ (op = "remove_account" /\ n = 5) \/ (op = "edit_account" /\ n = 4)
         /\ Program[op][n] = "fill_accounts" <=>
              (op = "add" /\ n = 3) \/ (op = "remove_account" /\ n = 6) \/ (op = "edit_account" /\ n = 5)
<1> USE DEF Operation, JobsOp
<1>1. CASE op \in {"create", "remove", "update"}
  <2>1. Program[op] = << "read_jobs", "open_jobs", "fill_jobs" >>
    BY <1>1 DEF Program
  <2>2. Len(Program[op]) = 3
    BY <2>1
  <2>3. /\ Program[op][1] = "read_jobs" /\ Program[op][2] = "open_jobs"
        /\ Program[op][3] = "fill_jobs"
    BY <2>1
  <2>4. n \in {1, 2, 3}
    BY <2>2
  <2> QED
    BY <1>1, <2>2, <2>3, <2>4
<1>2. CASE op = "add"
  <2>1. Program[op] = << "read_accounts", "open_accounts", "fill_accounts" >>
    BY <1>2 DEF Program
  <2>2. Len(Program[op]) = 3
    BY <2>1
  <2>3. /\ Program[op][1] = "read_accounts" /\ Program[op][2] = "open_accounts"
        /\ Program[op][3] = "fill_accounts"
    BY <2>1
  <2>4. n \in {1, 2, 3}
    BY <2>2
  <2> QED
    BY <1>2, <2>2, <2>3, <2>4
<1>3. CASE op = "remove_account"
  <2>1. Program[op] = << "read_jobs", "open_jobs", "fill_jobs",
                         "read_accounts", "open_accounts", "fill_accounts" >>
    BY <1>3 DEF Program
  <2>2. Len(Program[op]) = 6
    BY <2>1
  <2>3. /\ Program[op][1] = "read_jobs" /\ Program[op][2] = "open_jobs"
        /\ Program[op][3] = "fill_jobs" /\ Program[op][4] = "read_accounts"
        /\ Program[op][5] = "open_accounts" /\ Program[op][6] = "fill_accounts"
    BY <2>1
  <2>4. n \in {1, 2, 3, 4, 5, 6}
    BY <2>2
  <2> QED
    BY <1>3, <2>2, <2>3, <2>4
<1>4. CASE op = "edit_account"
  <2>1. Program[op] = << "read_accounts", "read_jobs", "read_accounts", "open_accounts",
                         "fill_accounts", "open_jobs", "fill_jobs" >>
    BY <1>4 DEF Program
  <2>2. Len(Program[op]) = 7
    BY <2>1
  <2>3. /\ Program[op][1] = "read_accounts" /\ Program[op][2] = "read_jobs"
        /\ Program[op][3] = "read_accounts" /\ Program[op][4] = "open_accounts"
        /\ Program[op][5] = "fill_accounts" /\ Program[op][6] = "open_jobs"
        /\ Program[op][7] = "fill_jobs"
    BY <2>1
  <2>4. n \in {1, 2, 3, 4, 5, 6, 7}
    BY <2>2
  <2> QED
    BY <1>4, <2>2, <2>3, <2>4
<1> QED
  BY <1>1, <1>2, <1>3, <1>4

(* From where to where a program has begun to write and will still fill    *)
(* a file.                                                                 *)
Opened(op, n) == \E i \in 1..(n - 1) : Program[op][i] \in Opens

Ahead(op, n, step) == step \in {Program[op][i] : i \in n..Len(Program[op])}

LEMMA FillTable ==
  ASSUME NEW op \in Operation, NEW n \in 1..Len(Program[op])
  PROVE  /\ Opened(op, n) /\ Ahead(op, n, "fill_accounts") <=>
              (op = "add" /\ n = 3) \/ (op = "remove_account" /\ n \in 3..6) \/ (op = "edit_account" /\ n = 5)
         /\ Opened(op, n) /\ Ahead(op, n, "fill_jobs") <=>
              (op \in JobsOp /\ n = 3) \/ (op = "edit_account" /\ n \in 5..7)
<1> DEFINE len == IF op = "edit_account" THEN 7 ELSE IF op = "remove_account" THEN 6 ELSE 3
<1>1. Len(Program[op]) = len /\ n \in 1..len
  BY StepTable
<1>2. \A i \in 1..len : 
         /\ Program[op][i] \in Opens <=>
              \/ (op \in JobsOp /\ i = 2) \/ (op = "edit_account" /\ i \in {4, 6})
              \/ (op = "add" /\ i = 2) \/ (op = "remove_account" /\ i = 5)
         /\ Program[op][i] = "fill_jobs" <=> (op \in JobsOp /\ i = 3) \/ (op = "edit_account" /\ i = 7)
         /\ Program[op][i] = "fill_accounts" <=>
              (op = "add" /\ i = 3) \/ (op = "remove_account" /\ i = 6) \/ (op = "edit_account" /\ i = 5)
  BY <1>1, StepTable DEF Opens
<1>3. Opened(op, n) <=> IF op = "edit_account" THEN n > 4 ELSE n > 2
  <2>1. \A i \in 1..(n - 1) : i \in 1..len
    BY <1>1
  <2>2. n > 2 => 2 \in 1..(n - 1)
    BY <1>1
  <2>3. n > 4 => 4 \in 1..(n - 1)
    BY <1>1
  <2> QED
    BY <1>1, <1>2, <2>1, <2>2, <2>3 DEF Opened, Operation, JobsOp
<1>4. Ahead(op, n, "fill_jobs") <=> (op \in JobsOp /\ n <= 3) \/ op = "edit_account"
  <2>1. \A i \in n..len : i \in 1..len
    BY <1>1
  <2>2. n <= 3 => 3 \in n..len
    BY <1>1
  <2>3. op = "edit_account" => 7 \in n..len
    BY <1>1
  <2> QED
    BY <1>1, <1>2, <2>1, <2>2, <2>3 DEF Ahead, Operation, JobsOp
<1>5. Ahead(op, n, "fill_accounts") <=>
        op = "add" \/ op = "remove_account" \/ (op = "edit_account" /\ n <= 5)
  <2>1. \A i \in n..len : i \in 1..len
    BY <1>1
  <2>2. op = "add" => 3 \in n..len
    BY <1>1
  <2>3. op = "remove_account" => 6 \in n..len
    BY <1>1
  <2>4. op = "edit_account" /\ n <= 5 => 5 \in n..len
    BY <1>1
  <2> QED
    BY <1>1, <1>2, <2>1, <2>2, <2>3, <2>4 DEF Ahead, Operation, JobsOp
<1> QED
  BY <1>1, <1>3, <1>4, <1>5 DEF Operation, JobsOp

-----------------------------------------------------------------------------
(* No window but w has a request.                                          *)
AloneIs(w) == \A v \in Window : v # w => ~Submitted(v)

Other(k) == IF k = "remote" THEN "local" ELSE "remote"

(* A request has begun to write, and will fill the jobs, or the accounts:  *)
(* from what it has read, or from what it will read.                       *)
FillsJobs(w) ==
  /\ Submitted(w)
  /\ \/ ask[w].op \in JobsOp /\ at[w] = 3
     \/ ask[w].op = "edit_account" /\ at[w] \in 5..7

FillsAccounts(w) ==
  /\ Submitted(w)
  /\ \/ ask[w].op = "add" /\ at[w] = 3
     \/ ask[w].op = "remove_account" /\ at[w] = 6
     \/ ask[w].op = "edit_account" /\ at[w] = 5

WillReadAccounts(w) == Submitted(w) /\ ask[w].op = "remove_account" /\ at[w] \in 3..5

SettledAs(w) ==
  /\ SettledAccounts = IF FillsAccounts(w) THEN NewAccounts(ask[w], acc[w])
                       ELSE IF WillReadAccounts(w) THEN NewAccounts(ask[w], accounts)
                       ELSE accounts
  /\ SettledEntries = IF FillsJobs(w)
                        THEN NewJobs(ask[w], file[w]).entries
                               \cup jobs[Other(KindOf(ask[w].target))].entries
                        ELSE Entries

(* A submitted request and where it stands.                                *)
LEMMA Position ==
  ASSUME FilesInv, NEW w \in Window, Submitted(w)
  PROVE  /\ ask[w] \in Query /\ ask[w] # NoAsk /\ ask[w].op \in Operation
         /\ at[w] \in 1..Len(Program[ask[w].op])
         /\ KindOf(ask[w].target) \in Kind
<1>1. ask[w] \in Query /\ ask[w] # NoAsk /\ at[w] \in 1..Len(Program[ask[w].op])
  BY DEF TypeOKFiles, Submitted
<1> QED
  BY <1>1 DEF Query, Operation, KindOf, Kind

(* The settled files, when at most one window has a request.               *)
LEMMA Settled == FilesInv => \A w \in Window : AloneIs(w) => SettledAs(w)
<1> SUFFICES ASSUME FilesInv, NEW w \in Window, AloneIs(w) PROVE SettledAs(w)
  OBVIOUS
<1>1. \A v \in Window : \A step : WillFill(v, step) => v = w
  BY DEF WillFill, Writing, AloneIs
<1>2. ASSUME NEW step PROVE
        WillFill(w, step) <=> Submitted(w) /\ Opened(ask[w].op, at[w]) /\ Ahead(ask[w].op, at[w], step)
  BY DEF WillFill, Writing, Rest, Opened, Ahead, Opens
<1>3. WillFill(w, "fill_jobs") <=> FillsJobs(w)
  BY <1>2, Position, FillTable DEF FillsJobs
<1>4. WillFill(w, "fill_accounts") <=> FillsAccounts(w) \/ WillReadAccounts(w)
  <2>1. Submitted(w) => (WillFill(w, "fill_accounts") <=>
           \/ ask[w].op = "add" /\ at[w] = 3
           \/ ask[w].op = "remove_account" /\ at[w] \in 3..6
           \/ ask[w].op = "edit_account" /\ at[w] = 5)
    BY <1>2, Position, FillTable
  <2>2. at[w] \in 3..6 <=> at[w] \in 3..5 \/ at[w] = 6
    BY DEF TypeOKFiles
  <2> QED
    BY <1>2, <2>1, <2>2 DEF FillsAccounts, WillReadAccounts
<1>5. Submitted(w) => (Step(w) = "fill_accounts" <=>
         \/ ask[w].op = "add" /\ at[w] = 3
         \/ ask[w].op = "remove_account" /\ at[w] = 6
         \/ ask[w].op = "edit_account" /\ at[w] = 5)
  BY Position, StepTable DEF Step
<1>6. SettledAccounts = IF WillFill(w, "fill_accounts")
                          THEN NewAccounts(ask[w], IF Step(w) = "fill_accounts" THEN acc[w] ELSE accounts)
                          ELSE accounts
  <2>1. CASE WillFill(w, "fill_accounts")
    <3>1. (CHOOSE v \in Window : WillFill(v, "fill_accounts")) = w
      BY <1>1, <2>1
    <3> QED
      BY <2>1, <3>1 DEF SettledAccounts
  <2>2. CASE ~WillFill(w, "fill_accounts")
    BY <1>1, <2>2 DEF SettledAccounts
  <2> QED
    BY <2>1, <2>2
<1>7. SettledEntries = IF WillFill(w, "fill_jobs")
                         THEN NewJobs(ask[w], file[w]).entries
                                \cup jobs[Other(KindOf(ask[w].target))].entries
                         ELSE Entries
  <2>1. CASE WillFill(w, "fill_jobs")
    <3>1. (CHOOSE v \in Window : WillFill(v, "fill_jobs")) = w
      BY <1>1, <2>1
    <3> QED
      BY <2>1, <3>1 DEF SettledEntries, Other
  <2>2. CASE ~WillFill(w, "fill_jobs")
    BY <1>1, <2>2 DEF SettledEntries
  <2> QED
    BY <2>1, <2>2
<1>8. FillsAccounts(w) => Step(w) = "fill_accounts"
  BY <1>5 DEF FillsAccounts
<1>9. WillReadAccounts(w) /\ ~FillsAccounts(w) => Step(w) # "fill_accounts"
  BY <1>5 DEF FillsAccounts, WillReadAccounts
<1> QED
  BY <1>3, <1>4, <1>6, <1>7, <1>8, <1>9 DEF SettledAs

(* The same after a step.                                                  *)
LEMMA SettledNext == (FilesInv => \A w \in Window : AloneIs(w) => SettledAs(w))'
BY Settled, PTL

-----------------------------------------------------------------------------
(* The requests of one session are served one after the other.             *)
Alone == \A v, w \in Window : Submitted(v) /\ Submitted(w) => v = w

(* Each file has the jobs of its kind of targets, and a request fills it   *)
(* with such.                                                              *)
Sorted ==
  /\ \A k \in Kind : \A e \in jobs[k].entries : KindOf(e[1]) = k
  /\ \A w \in Window : FillsJobs(w) =>
       \A e \in file[w].entries : KindOf(e[1]) = KindOf(ask[w].target)

(* What a request has read is so until it begins to write, and what would  *)
(* have spoken against it is not so.                                       *)
ReadIsTrue(w) ==
  LET q == ask[w]
      f == jobs[KindOf(q.target)]
  IN  /\ q.op \in JobsOp /\ at[w] = 2 => file[w] = f
      /\ q.op = "edit_account" /\ at[w] \in 3..6 => file[w] = f
      /\ q.op = "add" /\ at[w] = 2 => acc[w] = accounts /\ q.target \notin accounts
      /\ q.op = "remove_account" /\ at[w] = 5 => acc[w] = accounts
      /\ q.op = "edit_account" /\ at[w] = 4 => acc[w] = accounts
      /\ q.op = "edit_account" /\ at[w] \in 2..4 => q.target \in accounts
      /\ q.op = "update" /\ at[w] = 2 => <<q.target, q.new>> \notin f.entries

TableInv ==
  /\ FilesInv
  /\ Alone
  /\ Sorted
  /\ \A w \in Window : Submitted(w) => ReadIsTrue(w)

USE DEF TableInv, Alone

(* At first there is no request and no job.                                *)
LEMMA InitTableInv == InitFiles => TableInv
BY InitFilesInv DEF InitFiles, Sorted, Submitted, FillsJobs, Empty, Kind

(* A request writes jobs of the kind that it has read.                     *)
LEMMA NewJobsSorted ==
  ASSUME NEW f \in File, NEW q \in Query, q.op # "add",
         q.op \in {"remove_account", "edit_account"} => q.target \in Account,
         q.op = "edit_account" => q.new \in Account,
         \A e \in f.entries : KindOf(e[1]) = KindOf(q.target)
  PROVE  \A e \in NewJobs(q, f).entries : KindOf(e[1]) = KindOf(q.target)
<1> USE DEF Query
<1>1. CASE q.op \in {"create", "remove", "update"}
  BY <1>1 DEF NewJobs, With, Dropped, File
<1>2. CASE q.op = "remove_account"
  BY <1>2 DEF NewJobs, Without, Of
<1>3. CASE q.op = "edit_account"
  <2>1. NewJobs(q, f).entries = (f.entries \ (Of(f, q.target) \cup Of(f, q.new)))
                                  \cup {<<q.new, e[2]>> : e \in Of(f, q.target)}
    BY <1>3 DEF NewJobs, Renamed
  <2> QED
    BY <1>3, <2>1 DEF Of, KindOf
<1> QED
  BY <1>1, <1>2, <1>3

(* A window that reloads or submits has no request, and no other has.      *)
LEMMA WindowTable ==
  ASSUME OneSession \/ OneWindow, TableInv, NEW w \in Window, Reload(w) \/ Submit(w)
  PROVE  TableInv' /\ UNCHANGED <<SettledAccounts, SettledEntries>>
<1>1. AloneIs(w) /\ ~Submitted(w) /\ UNCHANGED fileVars
  BY DEF AloneIs, Reload, Submit, AskCreate, AskRemove, AskUpdate, AskAdd,
         AskRemoveAccount, AskEditAccount, Send, SessionIsFree, OneWindow
<1>2. FilesInv'
  BY WindowInv
<1>3. /\ \A v \in Window : v # w => ~Submitted(v)'
      /\ Submitted(w)' => at'[w] = 1
  <2>1. CASE Reload(w)
    BY <1>1, <2>1 DEF Reload, requestVars, Submitted, AloneIs
  <2>2. CASE Submit(w)
    <3>1. at' = [at EXCEPT ![w] = 1]
      BY <2>2 DEF Submit, AskCreate, AskRemove, AskUpdate, AskAdd,
                  AskRemoveAccount, AskEditAccount, Send
    <3> QED
      BY <1>1, <3>1 DEF Submitted, AloneIs, TypeOKFiles
  <2> QED
    BY <2>1, <2>2
<1>4. AloneIs(w)' /\ ~FillsJobs(w)' /\ ~FillsAccounts(w)' /\ ~WillReadAccounts(w)'
  BY <1>3 DEF AloneIs, FillsJobs, FillsAccounts, WillReadAccounts
<1>5. Sorted'
  <2>1. UNCHANGED jobs
    BY <1>1 DEF fileVars
  <2>2. \A v \in Window : ~FillsJobs(v)'
    BY <1>3, <1>4 DEF FillsJobs
  <2> QED
    BY <2>1, <2>2 DEF Sorted
<1>6. ASSUME Submitted(w)' PROVE ReadIsTrue(w)'
  BY <1>3, <1>6 DEF ReadIsTrue
<1>7. SettledAs(w) /\ SettledAs(w)'
  BY <1>1, <1>2, <1>4, Settled, SettledNext
<1>8. UNCHANGED <<SettledAccounts, SettledEntries>>
  <2>1. ~FillsJobs(w) /\ ~FillsAccounts(w) /\ ~WillReadAccounts(w)
    BY <1>1 DEF FillsJobs, FillsAccounts, WillReadAccounts
  <2>2. UNCHANGED <<accounts, Entries>>
    BY <1>1 DEF fileVars, Entries
  <2> QED
    BY <1>4, <1>7, <2>1, <2>2 DEF SettledAs
<1> QED
  BY <1>2, <1>3, <1>5, <1>6, <1>8

-----------------------------------------------------------------------------
(* Where a request stands after a step of it.                              *)
LEMMA Arrive ==
  ASSUME FilesInv, NEW w \in Window, Submitted(w), GoOn(w)
  PROVE  IF at[w] = IF ask[w].op = "edit_account" THEN 7
                    ELSE IF ask[w].op = "remove_account" THEN 6 ELSE 3
           THEN ~Submitted(w)'
           ELSE Submitted(w)' /\ at'[w] = at[w] + 1 /\ ask'[w] = ask[w]
<1> DEFINE len == IF ask[w].op = "edit_account" THEN 7
                  ELSE IF ask[w].op = "remove_account" THEN 6 ELSE 3
<1>1. at[w] \in 1..len /\ Len(Program[ask[w].op]) = len
  BY Position, StepTable
<1>2. at \in [Window -> 0..7]
  BY DEF TypeOKFiles
<1>3. CASE at[w] < len
  BY <1>1, <1>2, <1>3 DEF GoOn, Submitted
<1>4. CASE at[w] = len
  BY <1>1, <1>2, <1>4 DEF GoOn, Submitted
<1> QED
  BY <1>1, <1>3, <1>4

(* While a request is served no other window has one.                      *)
LEMMA ServeAlone ==
  ASSUME TableInv, NEW w \in Window, Serve(w)
  PROVE  /\ Submitted(w) /\ AloneIs(w) /\ SettledAs(w)
         /\ FilesInv' /\ Alone' /\ AloneIs(w)' /\ SettledAs(w)'
<1>1. Submitted(w) /\ AloneIs(w)
  BY DEF Serve, Refuse, ReadJobs, OpenJobs, FillJobs, ReadAccounts, OpenAccounts,
         FillAccounts, Doing, AloneIs
<1>2. \A v \in Window : v # w => at'[v] = at[v]
  BY DEF Serve, Refuse, Leave, ReadJobs, OpenJobs, FillJobs, ReadAccounts,
         OpenAccounts, FillAccounts, GoOn, TypeOKFiles
<1>3. FilesInv'
  BY ServeInv
<1>4. AloneIs(w)'
  BY <1>1, <1>2 DEF AloneIs, Submitted
<1>5. Alone'
  BY <1>4 DEF AloneIs
<1> QED
  BY <1>1, <1>3, <1>4, <1>5, Settled, SettledNext

(* An invariant of the request that is served is one of all.               *)
LEMMA ServeTableInv ==
  ASSUME TableInv, NEW w \in Window, Serve(w),
         \A k \in Kind : \A e \in jobs'[k].entries : KindOf(e[1]) = k,
         FillsJobs(w)' => \A e \in file'[w].entries : KindOf(e[1]) = KindOf(ask'[w].target),
         Submitted(w)' => ReadIsTrue(w)'
  PROVE  TableInv'
<1>1. \A v \in Window : v # w => ~Submitted(v)'
  BY ServeAlone DEF AloneIs
<1>2. Sorted'
  BY <1>1 DEF Sorted, FillsJobs
<1> QED
  BY <1>1, <1>2, ServeAlone

tableVars == <<SettledAccounts, SettledEntries>>

(* A request that is refused leaves the table alone.                       *)
LEMMA RefuseTable ==
  ASSUME TableInv, NEW w \in Window, Refuse(w)
  PROVE  TableInv' /\ UNCHANGED tableVars
<1> USE DEF Refuse
<1>1. Serve(w) /\ ~Submitted(w)' /\ UNCHANGED fileVars
  BY DEF Serve, Leave, Submitted, TypeOKFiles
<1>2. TableInv'
  BY <1>1, ServeTableInv DEF FillsJobs, Sorted, fileVars
<1>3. ~FillsJobs(w) /\ ~FillsAccounts(w) /\ ~WillReadAccounts(w)
  BY DEF Refused, FillsJobs, FillsAccounts, WillReadAccounts
<1>4. ~FillsJobs(w)' /\ ~FillsAccounts(w)' /\ ~WillReadAccounts(w)'
  BY <1>1 DEF FillsJobs, FillsAccounts, WillReadAccounts
<1> QED
  BY <1>1, <1>2, <1>3, <1>4, ServeAlone DEF SettledAs, tableVars, fileVars, Entries

(* Nor does a request change the table that reads the jobs.                *)
LEMMA ReadJobsTable ==
  ASSUME TableInv, NEW w \in Window, ReadJobs(w)
  PROVE  TableInv' /\ UNCHANGED tableVars
<1> DEFINE q == ask[w]
<1>1. Serve(w) /\ Submitted(w) /\ GoOn(w) /\ Step(w) = "read_jobs"
  BY DEF Serve, ReadJobs, Doing
<1>2. (q.op \in JobsOp /\ at[w] = 1) \/ (q.op = "edit_account" /\ at[w] = 2)
  BY <1>1, Position, StepTable DEF Step
<1>3. Submitted(w)' /\ at'[w] = at[w] + 1 /\ ask'[w] = q
  BY <1>1, <1>2, Arrive DEF JobsOp
<1>4. UNCHANGED fileVars /\ acc' = acc /\ file'[w] = jobs[KindOf(q.target)]
  BY DEF ReadJobs, TypeOKFiles
<1>5. ReadIsTrue(w)'
  <2>1. q.op = "update" => <<q.target, q.new>> \notin jobs[KindOf(q.target)].entries
    BY <1>1, <1>2 DEF ReadJobs, Refused
  <2>2. q.op = "edit_account" => q.target \in accounts
    <3>1. ReadIsTrue(w)
      BY <1>1
    <3>2. q.op = "edit_account" => at[w] \in 2..4
      BY <1>2 DEF JobsOp
    <3> QED
      BY <3>1, <3>2 DEF ReadIsTrue
  <2> QED
    BY <1>2, <1>3, <1>4, <2>1, <2>2 DEF ReadIsTrue, JobsOp, fileVars
<1>6. ~FillsJobs(w) /\ ~FillsAccounts(w) /\ ~WillReadAccounts(w)
  BY <1>2 DEF FillsJobs, FillsAccounts, WillReadAccounts, JobsOp
<1>7. ~FillsJobs(w)' /\ ~FillsAccounts(w)' /\ ~WillReadAccounts(w)'
  BY <1>2, <1>3 DEF FillsJobs, FillsAccounts, WillReadAccounts, JobsOp
<1>8. TableInv'
  BY <1>1, <1>4, <1>5, <1>7, ServeTableInv DEF Sorted, fileVars
<1> QED
  BY <1>1, <1>4, <1>6, <1>7, <1>8, ServeAlone DEF SettledAs, tableVars, fileVars, Entries

(* Nor one that reads the accounts.                                        *)
LEMMA ReadAccountsTable ==
  ASSUME TableInv, NEW w \in Window, ReadAccounts(w)
  PROVE  TableInv' /\ UNCHANGED tableVars
<1> DEFINE q == ask[w]
<1>1. Serve(w) /\ Submitted(w) /\ GoOn(w) /\ Step(w) = "read_accounts"
  BY DEF Serve, ReadAccounts, Doing
<1>2. \/ q.op = "add" /\ at[w] = 1
      \/ q.op = "remove_account" /\ at[w] = 4
      \/ q.op = "edit_account" /\ at[w] \in {1, 3}
  BY <1>1, Position, StepTable DEF Step
<1>3. Submitted(w)' /\ at'[w] = at[w] + 1 /\ ask'[w] = q
  BY <1>1, <1>2, Arrive
<1>4. UNCHANGED fileVars /\ file' = file /\ acc'[w] = accounts
  BY DEF ReadAccounts, TypeOKFiles
<1>5. ReadIsTrue(w)'
  <2>1. ReadIsTrue(w)
    BY <1>1
  <2>2. q.op = "add" => q.target \notin accounts
    BY <1>1, <1>2 DEF ReadAccounts, Refused
  <2>3. q.op = "edit_account" => q.target \in accounts
    <3>1. CASE at[w] = 1
      BY <1>1, <3>1 DEF ReadAccounts, Refused
    <3>2. CASE at[w] = 3
      <4>1. at[w] \in 2..4
        BY <3>2
      <4> QED
        BY <2>1, <4>1 DEF ReadIsTrue
    <3> QED
      BY <1>2, <3>1, <3>2
  <2>4. q.op = "edit_account" /\ at[w] = 3 => file[w] = jobs[KindOf(q.target)]
    <3>1. at[w] = 3 => at[w] \in 3..6
      OBVIOUS
    <3> QED
      BY <2>1, <3>1 DEF ReadIsTrue
  <2> QED
    BY <1>2, <1>3, <1>4, <2>2, <2>3, <2>4 DEF ReadIsTrue, JobsOp, fileVars
<1>6. ~FillsJobs(w) /\ ~FillsAccounts(w) /\ (WillReadAccounts(w) <=> q.op = "remove_account")
  BY <1>1, <1>2 DEF FillsJobs, FillsAccounts, WillReadAccounts, JobsOp
<1>7. ~FillsJobs(w)' /\ ~FillsAccounts(w)' /\ (WillReadAccounts(w)' <=> q.op = "remove_account")
  BY <1>2, <1>3 DEF FillsJobs, FillsAccounts, WillReadAccounts, JobsOp
<1>8. TableInv'
  BY <1>1, <1>4, <1>5, <1>7, ServeTableInv DEF Sorted, fileVars
<1>9. UNCHANGED tableVars
  <2>1. SettledAs(w) /\ SettledAs(w)'
    BY <1>1, ServeAlone
  <2>2. UNCHANGED <<accounts, Entries>>
    BY <1>4 DEF fileVars, Entries
  <2>3. NewAccounts(ask[w], accounts)' = NewAccounts(ask[w], accounts)
    BY <1>3, <2>2 DEF NewAccounts
  <2> QED
    BY <1>6, <1>7, <2>1, <2>2, <2>3 DEF SettledAs, tableVars
<1> QED
  BY <1>8, <1>9

-----------------------------------------------------------------------------
TableStep == Table!Next \/ UNCHANGED tableVars

(* What the files hold between them.                                       *)
LEMMA EntriesOf ==
  ASSUME NEW k \in Kind
  PROVE  Other(k) \in Kind /\ Other(k) # k /\ Entries = jobs[k].entries \cup jobs[Other(k)].entries
BY DEF Kind, Other, Entries

(* What a request that writes from what the file holds makes of the table, *)
(* is what the table makes of it: the file of the other kind has nothing   *)
(* that the request names.                                                 *)
LEMMA NewEntries ==
  ASSUME FilesInv, Sorted, NEW w \in Window, Submitted(w), ask[w].op # "add",
         NEW new, new = NewJobs(ask[w], jobs[KindOf(ask[w].target)]).entries
                          \cup jobs[Other(KindOf(ask[w].target))].entries
  PROVE  LET q == ask[w]
             of(t) == {e \in Entries : e[1] = t}
         IN  /\ q.op = "create" => new = Entries \cup {<<q.target, q.slot>>}
             /\ q.op = "remove" => new = Entries \ {<<q.target, q.slot>>}
             /\ q.op = "update" => new = (Entries \ {<<q.target, q.slot>>}) \cup {<<q.target, q.new>>}
             /\ q.op = "remove_account" => new = Entries \ of(q.target)
             /\ q.op = "edit_account" =>
                  new = (Entries \ (of(q.target) \cup of(q.new)))
                          \cup {<<q.new, e[2]>> : e \in of(q.target)}
<1> DEFINE q == ask[w]
           k == KindOf(q.target)
           of(t) == {e \in Entries : e[1] = t}
<1>1. q \in Query /\ q # NoAsk /\ k \in Kind
  BY Position
<1>2. /\ q.op \in {"create", "remove", "update"} => q.slot \in Schedule
      /\ q.op = "update" => q.new \in Schedule
      /\ q.op \in {"remove_account", "edit_account"} => q.target \in Account
      /\ q.op = "edit_account" => q.new \in Account
  BY <1>1 DEF WellAsked
<1>3. /\ Entries = jobs[k].entries \cup jobs[Other(k)].entries
      /\ \A e \in jobs[k].entries : KindOf(e[1]) = k
      /\ \A e \in jobs[Other(k)].entries : KindOf(e[1]) # k
  BY <1>1, EntriesOf DEF Sorted
<1>4. ASSUME NEW t, KindOf(t) = k PROVE of(t) = Of(jobs[k], t)
  BY <1>3, <1>4 DEF Of
<1>5. ASSUME NEW s PROVE <<q.target, s>> \notin jobs[Other(k)].entries
  <2>1. <<q.target, s>>[1] = q.target
    OBVIOUS
  <2> QED
    BY <1>3, <2>1
<1>6. jobs[k] \in File
  BY <1>1 DEF TypeOKFiles
<1>7. CASE q.op = "create"
  BY <1>3, <1>7 DEF NewJobs, With
<1>8. CASE q.op = "remove"
  <2>1. NewJobs(q, jobs[k]).entries = jobs[k].entries \ {<<q.target, q.slot>>}
    BY <1>6, <1>8 DEF NewJobs, Dropped, File
  <2> QED
    BY <1>3, <1>5, <1>8, <2>1
<1>9. CASE q.op = "update"
  <2>1. NewJobs(q, jobs[k]).entries = (jobs[k].entries \ {<<q.target, q.slot>>}) \cup {<<q.target, q.new>>}
    BY <1>6, <1>9 DEF NewJobs, Dropped, With, File
  <2> QED
    BY <1>3, <1>5, <1>9, <2>1
<1>10. CASE q.op = "remove_account"
  <2>1. NewJobs(q, jobs[k]).entries = jobs[k].entries \ Of(jobs[k], q.target)
    BY <1>10 DEF NewJobs, Without
  <2>2. of(q.target) = Of(jobs[k], q.target)
    BY <1>4
  <2>3. Of(jobs[k], q.target) \cap jobs[Other(k)].entries = {}
    BY <1>3 DEF Of
  <2> QED
    BY <1>3, <1>10, <2>1, <2>2, <2>3
<1>11. CASE q.op = "edit_account"
  <2>1. KindOf(q.new) = k
    BY <1>2, <1>11 DEF KindOf
  <2>2. NewJobs(q, jobs[k]).entries =
          (jobs[k].entries \ (Of(jobs[k], q.target) \cup Of(jobs[k], q.new)))
            \cup {<<q.new, e[2]>> : e \in Of(jobs[k], q.target)}
    BY <1>11 DEF NewJobs, Renamed
  <2>3. of(q.target) = Of(jobs[k], q.target) /\ of(q.new) = Of(jobs[k], q.new)
    BY <1>4, <2>1
  <2>4. /\ Of(jobs[k], q.target) \cap jobs[Other(k)].entries = {}
        /\ Of(jobs[k], q.new) \cap jobs[Other(k)].entries = {}
    BY <1>3, <2>1 DEF Of
  <2> QED
    BY <1>3, <1>11, <2>2, <2>3, <2>4
<1> QED
  BY <1>1, <1>7, <1>8, <1>9, <1>10, <1>11 DEF Query

(* A request takes its effect on the jobs when it opens their file: a      *)
(* click is one step of the table.  An account that is edited has renamed  *)
(* its jobs before.                                                        *)
LEMMA OpenJobsTable ==
  ASSUME TableInv, NEW w \in Window, OpenJobs(w)
  PROVE  TableInv' /\ TableStep
<1> DEFINE q == ask[w]
           k == KindOf(q.target)
<1>1. Serve(w) /\ Submitted(w) /\ GoOn(w) /\ Step(w) = "open_jobs" /\ ReadIsTrue(w)
  BY DEF Serve, OpenJobs, Doing
<1>2. (q.op \in JobsOp /\ at[w] = 2) \/ (q.op = "edit_account" /\ at[w] = 6)
  BY <1>1, Position, StepTable DEF Step
<1>3. Submitted(w)' /\ at'[w] = at[w] + 1 /\ ask'[w] = q
  BY <1>1, <1>2, Arrive DEF JobsOp
<1>4. k \in Kind /\ Other(k) \in Kind /\ Other(k) # k
  BY <1>1, Position, EntriesOf
<1>5. /\ jobs' = [jobs EXCEPT ![k] = Empty] /\ jobs'[Other(k)] = jobs[Other(k)]
      /\ UNCHANGED <<accounts, file, acc>>
  BY <1>4 DEF OpenJobs, TypeOKFiles
<1>6. file[w] = jobs[k]
  <2>1. at[w] = 6 => at[w] \in 3..6
    OBVIOUS
  <2> QED
    BY <1>1, <1>2, <2>1 DEF ReadIsTrue
<1>7. FillsJobs(w)' /\ ~FillsAccounts(w)' /\ (WillReadAccounts(w)' <=> q.op = "remove_account")
  <2>1. q.op \in JobsOp => at'[w] = 3
    BY <1>2, <1>3 DEF JobsOp
  <2>2. q.op = "edit_account" => at'[w] = 7
    BY <1>2, <1>3 DEF JobsOp
  <2> QED
    BY <1>2, <1>3, <2>1, <2>2 DEF FillsJobs, FillsAccounts, WillReadAccounts, JobsOp
<1>8. TableInv'
  <2>1. \A j \in Kind : \A e \in jobs'[j].entries : KindOf(e[1]) = j
    BY <1>4, <1>5 DEF Sorted, Empty, TypeOKFiles
  <2>2. \A e \in file'[w].entries : KindOf(e[1]) = KindOf(ask'[w].target)
    BY <1>3, <1>4, <1>5, <1>6 DEF Sorted
  <2>3. ReadIsTrue(w)'
    BY <1>2, <1>3 DEF ReadIsTrue, JobsOp
  <2> QED
    BY <1>1, <2>1, <2>2, <2>3, ServeTableInv
<1>9. SettledEntries' = NewJobs(q, jobs[k]).entries \cup jobs[Other(k)].entries
  BY <1>1, <1>3, <1>5, <1>6, <1>7, ServeAlone DEF SettledAs, NewJobs
<1>10. SettledAccounts' = IF q.op = "remove_account" THEN accounts \ {q.target} ELSE accounts
  BY <1>1, <1>3, <1>5, <1>7, ServeAlone DEF SettledAs, NewAccounts
<1>11. CASE q.op = "edit_account"
  <2>1. FillsJobs(w) /\ ~FillsAccounts(w) /\ ~WillReadAccounts(w)
    BY <1>1, <1>2, <1>11 DEF FillsJobs, FillsAccounts, WillReadAccounts, JobsOp
  <2>2. SettledEntries = NewJobs(q, jobs[k]).entries \cup jobs[Other(k)].entries
    BY <1>1, <1>6, <2>1, ServeAlone DEF SettledAs
  <2>3. SettledAccounts = accounts
    BY <1>1, <2>1, ServeAlone DEF SettledAs
  <2> QED
    BY <1>8, <1>9, <1>10, <1>11, <2>2, <2>3 DEF TableStep, tableVars
<1>12. CASE q.op \in JobsOp
  <2>1. SettledEntries = Entries /\ SettledAccounts = accounts
    <3>1. ~FillsJobs(w) /\ ~FillsAccounts(w) /\ ~WillReadAccounts(w)
      BY <1>2, <1>12 DEF FillsJobs, FillsAccounts, WillReadAccounts, JobsOp
    <3> QED
      BY <1>1, <3>1, ServeAlone DEF SettledAs
  <2>2. /\ q.target \in Target
        /\ q.op \in {"create", "remove", "update"} => q.slot \in Schedule
        /\ q.op = "update" => q.new \in Schedule
        /\ q.op = "remove_account" => q.target \in Account
    BY <1>1, Position DEF WellAsked, Query
  <2>3. CASE q.op = "create"
    <3>1. SettledEntries' = SettledEntries \cup {<<q.target, q.slot>>}
      BY <1>1, <1>9, <2>1, <2>3, NewEntries
    <3>2. Table!Create(<<q.target, q.slot>>)
      BY <1>10, <2>1, <2>3, <3>1 DEF Table!Create
    <3> QED
      BY <1>8, <2>2, <2>3, <3>2 DEF TableStep, Table!Next, Table!Target
  <2>4. CASE q.op = "remove"
    <3>1. SettledEntries' = SettledEntries \ {<<q.target, q.slot>>}
      BY <1>1, <1>9, <2>1, <2>4, NewEntries
    <3>2. Table!Remove(<<q.target, q.slot>>)
      BY <1>10, <2>1, <2>4, <3>1 DEF Table!Remove
    <3> QED
      BY <1>8, <2>2, <2>4, <3>2 DEF TableStep, Table!Next, Table!Target
  <2>5. CASE q.op = "update"
    <3>1. SettledEntries' = (SettledEntries \ {<<q.target, q.slot>>}) \cup {<<q.target, q.new>>}
      BY <1>1, <1>9, <2>1, <2>5, NewEntries
    <3>2. <<q.target, q.new>> \notin SettledEntries
      <4>1. <<q.target, q.new>> \notin jobs[k].entries
        BY <1>1, <1>2, <2>5 DEF ReadIsTrue
      <4>2. <<q.target, q.new>>[1] = q.target
        OBVIOUS
      <4>3. <<q.target, q.new>> \notin jobs[Other(k)].entries
        BY <1>4, <4>2 DEF Sorted
      <4> QED
        BY <1>4, <2>1, <4>1, <4>3, EntriesOf
    <3>3. Table!Update(q.target, q.slot, q.new)
      BY <1>10, <2>1, <2>5, <3>1, <3>2 DEF Table!Update
    <3> QED
      BY <1>8, <2>2, <2>5, <3>3 DEF TableStep, Table!Next, Table!Target
  <2>6. CASE q.op = "remove_account"
    <3>1. SettledEntries' = SettledEntries \ {e \in SettledEntries : e[1] = q.target}
      BY <1>1, <1>9, <2>1, <2>6, NewEntries
    <3>2. Table!RemoveAccount(q.target)
      BY <1>10, <2>1, <2>6, <3>1 DEF Table!RemoveAccount, Table!JobsOf
    <3> QED
      BY <1>8, <2>2, <2>6, <3>2 DEF TableStep, Table!Next, Table!Target
  <2> QED
    BY <1>12, <2>3, <2>4, <2>5, <2>6 DEF JobsOp
<1> QED
  BY <1>2, <1>11, <1>12

(* When it fills the file, the file holds what the table has held since.   *)
LEMMA FillJobsTable ==
  ASSUME TableInv, NEW w \in Window, FillJobs(w)
  PROVE  TableInv' /\ UNCHANGED tableVars
<1> DEFINE q == ask[w]
           k == KindOf(q.target)
           gone == q.op # "remove_account"
<1>1. Serve(w) /\ Submitted(w) /\ GoOn(w) /\ Step(w) = "fill_jobs"
  BY DEF Serve, FillJobs, Doing
<1>2. (q.op \in JobsOp /\ at[w] = 3) \/ (q.op = "edit_account" /\ at[w] = 7)
  BY <1>1, Position, StepTable DEF Step
<1>3. IF gone THEN ~Submitted(w)' ELSE Submitted(w)' /\ at'[w] = 4 /\ ask'[w] = q
  BY <1>1, <1>2, Arrive DEF JobsOp
<1>4. k \in Kind /\ Other(k) \in Kind /\ Other(k) # k
  BY <1>1, Position, EntriesOf
<1>5. /\ jobs'[k] = NewJobs(q, file[w]) /\ \A j \in Kind \ {k} : jobs'[j] = jobs[j]
      /\ UNCHANGED accounts
  BY <1>4 DEF FillJobs, TypeOKFiles
<1>6. FillsJobs(w) /\ ~FillsAccounts(w) /\ (WillReadAccounts(w) <=> ~gone)
  <2>1. at[w] = 7 => at[w] \in 5..7
    OBVIOUS
  <2> QED
    BY <1>1, <1>2, <2>1 DEF FillsJobs, FillsAccounts, WillReadAccounts, JobsOp
<1>7. ~FillsJobs(w)' /\ ~FillsAccounts(w)' /\ (WillReadAccounts(w)' <=> ~gone)
  BY <1>3 DEF FillsJobs, FillsAccounts, WillReadAccounts, JobsOp
<1>8. \A e \in NewJobs(q, file[w]).entries : KindOf(e[1]) = k
  <2>1. /\ q \in Query /\ q # NoAsk /\ file[w] \in File
        /\ \A e \in file[w].entries : KindOf(e[1]) = k
    BY <1>1, <1>6, Position DEF Sorted, TypeOKFiles
  <2>2. /\ q.op \in {"remove_account", "edit_account"} => q.target \in Account
        /\ q.op = "edit_account" => q.new \in Account
        /\ q.op # "add"
    BY <1>2, <2>1 DEF WellAsked, JobsOp
  <2> QED
    BY <2>1, <2>2, NewJobsSorted
<1>9. TableInv'
  <2>1. \A j \in Kind : \A e \in jobs'[j].entries : KindOf(e[1]) = j
    BY <1>5, <1>8 DEF Sorted
  <2>2. Submitted(w)' => ReadIsTrue(w)'
    BY <1>3 DEF ReadIsTrue, JobsOp
  <2> QED
    BY <1>1, <1>7, <2>1, <2>2, ServeTableInv
<1>10. SettledEntries' = SettledEntries
  <2>1. SettledEntries = NewJobs(q, file[w]).entries \cup jobs[Other(k)].entries
    BY <1>1, <1>6, ServeAlone DEF SettledAs
  <2>2. SettledEntries' = Entries'
    BY <1>1, <1>7, ServeAlone DEF SettledAs
  <2>3. Entries' = jobs'[k].entries \cup jobs'[Other(k)].entries
    BY <1>4 DEF Entries, Kind, Other
  <2> QED
    BY <1>4, <1>5, <2>1, <2>2, <2>3
<1>11. SettledAccounts' = SettledAccounts
  <2>1. ~gone => NewAccounts(ask'[w], accounts) = NewAccounts(q, accounts)
    BY <1>3
  <2> QED
    BY <1>1, <1>5, <1>6, <1>7, <2>1, ServeAlone DEF SettledAs, NewAccounts
<1> QED
  BY <1>9, <1>10, <1>11 DEF tableVars

(* An account takes effect when the file is opened, too, with its jobs     *)
(* under their new name; one that is removed was gone with its jobs.       *)
LEMMA OpenAccountsTable ==
  ASSUME TableInv, NEW w \in Window, OpenAccounts(w)
  PROVE  TableInv' /\ TableStep
<1> DEFINE q == ask[w]
           k == KindOf(q.target)
<1>1. Serve(w) /\ Submitted(w) /\ GoOn(w) /\ Step(w) = "open_accounts" /\ ReadIsTrue(w)
  BY DEF Serve, OpenAccounts, Doing
<1>2. \/ q.op = "add" /\ at[w] = 2
      \/ q.op = "remove_account" /\ at[w] = 5
      \/ q.op = "edit_account" /\ at[w] = 4
  BY <1>1, Position, StepTable DEF Step
<1>3. Submitted(w)' /\ at'[w] = at[w] + 1 /\ ask'[w] = q
  BY <1>1, <1>2, Arrive
<1>4. UNCHANGED <<jobs, file, acc>>
  BY DEF OpenAccounts
<1>5. acc[w] = accounts
  BY <1>1, <1>2 DEF ReadIsTrue
<1>6. q.op = "edit_account" => file[w] = jobs[k] /\ q.target \in accounts
  <2>1. at[w] = 4 => at[w] \in 3..6 /\ at[w] \in 2..4
    OBVIOUS
  <2> QED
    BY <1>1, <1>2, <2>1 DEF ReadIsTrue
<1>7. ~FillsJobs(w) /\ ~FillsAccounts(w) /\ (WillReadAccounts(w) <=> q.op = "remove_account")
  BY <1>1, <1>2 DEF FillsJobs, FillsAccounts, WillReadAccounts, JobsOp
<1>8. (FillsJobs(w)' <=> q.op = "edit_account") /\ FillsAccounts(w)' /\ ~WillReadAccounts(w)'
  <2>1. q.op = "edit_account" => at'[w] = 5 /\ 5 \in 5..7
    BY <1>2, <1>3
  <2>2. at'[w] = IF q.op = "add" THEN 3 ELSE IF q.op = "remove_account" THEN 6 ELSE 5
    BY <1>2, <1>3
  <2> QED
    BY <1>2, <1>3, <2>1, <2>2 DEF FillsJobs, FillsAccounts, WillReadAccounts, JobsOp
<1>9. k \in Kind
  BY <1>1, Position
<1>10. TableInv'
  <2>1. \A j \in Kind : \A e \in jobs'[j].entries : KindOf(e[1]) = j
    BY <1>4 DEF Sorted
  <2>2. FillsJobs(w)' => \A e \in file'[w].entries : KindOf(e[1]) = KindOf(ask'[w].target)
    BY <1>3, <1>4, <1>6, <1>8, <1>9 DEF Sorted
  <2>3. ReadIsTrue(w)'
    BY <1>2, <1>3, <1>4, <1>6 DEF ReadIsTrue, JobsOp
  <2> QED
    BY <1>1, <2>1, <2>2, <2>3, ServeTableInv
<1>11. SettledEntries = Entries
       /\ SettledAccounts = IF q.op = "remove_account" THEN NewAccounts(q, accounts) ELSE accounts
  BY <1>1, <1>7, ServeAlone DEF SettledAs
<1>12. SettledAccounts' = NewAccounts(q, accounts)
  BY <1>1, <1>3, <1>4, <1>5, <1>8, ServeAlone DEF SettledAs
<1>13. SettledEntries' = IF q.op = "edit_account"
                           THEN NewJobs(q, jobs[k]).entries \cup jobs[Other(k)].entries
                           ELSE Entries
  <2>1. Entries' = Entries
    BY <1>4 DEF Entries
  <2> QED
    BY <1>1, <1>3, <1>4, <1>6, <1>8, <2>1, ServeAlone DEF SettledAs
<1>14. q.op \in {"add", "remove_account", "edit_account"} => q.target \in Account
  BY <1>1, Position DEF WellAsked
<1>15. CASE q.op = "add"
  <2>1. q.target \notin accounts
    BY <1>1, <1>2, <1>15 DEF ReadIsTrue
  <2>2. Table!AddAccount(q.target)
    BY <1>11, <1>12, <1>13, <1>15, <2>1 DEF Table!AddAccount, NewAccounts
  <2> QED
    BY <1>10, <1>14, <1>15, <2>2 DEF TableStep, Table!Next
<1>16. CASE q.op = "remove_account"
  BY <1>10, <1>11, <1>12, <1>13, <1>16 DEF TableStep, tableVars
<1>17. CASE q.op = "edit_account"
  <2>1. SettledEntries' =
          (SettledEntries \ ({e \in SettledEntries : e[1] = q.target}
                               \cup {e \in SettledEntries : e[1] = q.new}))
            \cup {<<q.new, e[2]>> : e \in {e \in SettledEntries : e[1] = q.target}}
    BY <1>1, <1>11, <1>13, <1>17, NewEntries
  <2>2. SettledAccounts' = (SettledAccounts \ {q.target}) \cup {q.new}
    BY <1>11, <1>12, <1>17 DEF NewAccounts
  <2>3. Table!EditAccount(q.target, q.new)
    BY <1>6, <1>11, <1>17, <2>1, <2>2 DEF Table!EditAccount, Table!JobsOf
  <2>4. q.new \in Account
    BY <1>1, <1>17, Position DEF WellAsked
  <2> QED
    BY <1>10, <1>14, <1>17, <2>3, <2>4 DEF TableStep, Table!Next
<1> QED
  BY <1>2, <1>15, <1>16, <1>17

(* And when the file is filled it holds them.                              *)
LEMMA FillAccountsTable ==
  ASSUME TableInv, NEW w \in Window, FillAccounts(w)
  PROVE  TableInv' /\ UNCHANGED tableVars
<1> DEFINE q == ask[w]
<1>1. Serve(w) /\ Submitted(w) /\ GoOn(w) /\ Step(w) = "fill_accounts" /\ ReadIsTrue(w)
  BY DEF Serve, FillAccounts, Doing
<1>2. \/ q.op = "add" /\ at[w] = 3
      \/ q.op = "remove_account" /\ at[w] = 6
      \/ q.op = "edit_account" /\ at[w] = 5
  BY <1>1, Position, StepTable DEF Step
<1>3. IF q.op = "edit_account" THEN Submitted(w)' /\ at'[w] = 6 /\ ask'[w] = q ELSE ~Submitted(w)'
  BY <1>1, <1>2, Arrive
<1>4. UNCHANGED <<jobs, file>> /\ accounts' = NewAccounts(q, acc[w])
  BY DEF FillAccounts
<1>5. (FillsJobs(w) <=> q.op = "edit_account") /\ FillsAccounts(w)
  <2>1. 5 \in 5..7
    OBVIOUS
  <2> QED
    BY <1>1, <1>2, <2>1 DEF FillsJobs, FillsAccounts, JobsOp
<1>6. (FillsJobs(w)' <=> q.op = "edit_account") /\ ~FillsAccounts(w)' /\ ~WillReadAccounts(w)'
  <2>1. 6 \in 5..7
    OBVIOUS
  <2> QED
    BY <1>3, <2>1 DEF FillsJobs, FillsAccounts, WillReadAccounts, JobsOp
<1>7. TableInv'
  <2>1. \A j \in Kind : \A e \in jobs'[j].entries : KindOf(e[1]) = j
    BY <1>4 DEF Sorted
  <2>2. FillsJobs(w)' => \A e \in file'[w].entries : KindOf(e[1]) = KindOf(ask'[w].target)
    BY <1>3, <1>4, <1>5, <1>6 DEF Sorted
  <2>3. q.op = "edit_account" => file[w] = jobs[KindOf(q.target)]
    <3>1. at[w] = 5 => at[w] \in 3..6
      OBVIOUS
    <3> QED
      BY <1>1, <1>2, <3>1 DEF ReadIsTrue
  <2>4. Submitted(w)' => ReadIsTrue(w)'
    BY <1>3, <1>4, <2>3 DEF ReadIsTrue, JobsOp
  <2> QED
    BY <1>1, <2>1, <2>2, <2>4, ServeTableInv
<1>8. SettledAccounts' = SettledAccounts
  BY <1>1, <1>4, <1>5, <1>6, ServeAlone DEF SettledAs
<1>9. SettledEntries' = SettledEntries
  <2>1. Entries' = Entries
    BY <1>4 DEF Entries
  <2> QED
    BY <1>1, <1>3, <1>4, <1>5, <1>6, <2>1, ServeAlone DEF SettledAs
<1> QED
  BY <1>7, <1>8, <1>9 DEF tableVars

(* What the windows show is not of the table.                              *)
LEMMA StutterTable == TableInv /\ UNCHANGED webVars => TableInv' /\ UNCHANGED tableVars
<1> SUFFICES ASSUME TableInv, UNCHANGED webVars PROVE TableInv' /\ UNCHANGED tableVars
  OBVIOUS
<1> USE DEF webVars, fileVars, requestVars, windowVars
<1>1. FilesInv'
  BY StepFilesInv
<1>2. Sorted' /\ Alone'
  BY DEF Sorted, FillsJobs, Submitted
<1>3. \A w \in Window : Submitted(w)' => ReadIsTrue(w)'
  BY DEF ReadIsTrue, Submitted
<1>4. UNCHANGED tableVars
  BY DEF tableVars, SettledAccounts, SettledEntries, WillFill, Writing, Rest, Submitted,
         Step, Entries
<1> QED
  BY <1>1, <1>2, <1>3, <1>4

(* Every step of the windows and the server is one of the table, or none.  *)
LEMMA StepTableInv ==
  ASSUME OneSession \/ OneWindow
  PROVE  TableInv /\ [NextFiles]_webVars => TableInv' /\ TableStep
<1> SUFFICES ASSUME TableInv, [NextFiles]_webVars PROVE TableInv' /\ TableStep
  OBVIOUS
<1>1. CASE UNCHANGED webVars
  BY <1>1, StutterTable DEF TableStep
<1>2. ASSUME NEW w \in Window, Reload(w) \/ Submit(w) PROVE TableInv' /\ TableStep
  BY <1>2, WindowTable DEF TableStep, tableVars
<1>3. ASSUME NEW w \in Window, Serve(w) PROVE TableInv' /\ TableStep
  BY <1>3, RefuseTable, ReadJobsTable, ReadAccountsTable, OpenJobsTable, FillJobsTable,
     OpenAccountsTable, FillAccountsTable
     DEF Serve, TableStep
<1> QED
  BY <1>1, <1>2, <1>3 DEF NextFiles

(* At first the table is empty.                                            *)
LEMMA InitTable == InitFiles => Table!Init
<1> SUFFICES ASSUME InitFiles PROVE Table!Init
  OBVIOUS
<1>1. \A w \in Window : \A step : ~WillFill(w, step)
  BY DEF InitFiles, WillFill, Writing, Submitted
<1>2. SettledAccounts = {} /\ SettledEntries = {}
  BY <1>1 DEF InitFiles, SettledAccounts, SettledEntries, Entries, Kind, Empty
<1> QED
  BY <1>2 DEF Table!Init

(* The requests of one session, or of one window, implement the table:     *)
(* although a request spreads over two files, and empties each before it   *)
(* fills it, what the files hold when it is through is what one step of    *)
(* the table would make of what they held.                                 *)
THEOREM FilesImplementTable ==
  ASSUME OneSession \/ OneWindow
  PROVE  SpecFiles => ImplementsTable
<1>1. TableInv /\ [NextFiles]_webVars => TableInv' /\ [Table!Next]_(Table!vars)
  BY StepTableInv DEF TableStep, tableVars, Table!vars
<1>2. SpecFiles => [][Table!Next]_(Table!vars)
  BY <1>1, InitTableInv, PTL DEF SpecFiles
<1>3. SpecFiles => Table!Init
  BY InitTable DEF SpecFiles
<1> QED
  BY <1>2, <1>3, PTL DEF ImplementsTable, Table!Spec

-----------------------------------------------------------------------------
(* What a window is given when it asks for the table.                      *)
LEMMA ReloadShows ==
  ASSUME OneSession \/ OneWindow, TableInv, NEW w \in Window, Reload(w)
  PROVE  /\ rows'[w] = SettledEntries /\ known'[w] = SettledAccounts
         /\ \A v \in Window : v # w => rows'[v] = rows[v] /\ known'[v] = known[v]
<1>1. AloneIs(w) /\ ~Submitted(w)
  BY DEF AloneIs, Reload, SessionIsFree, OneWindow
<1>2. SettledEntries = Entries /\ SettledAccounts = accounts
  <2>1. ~FillsJobs(w) /\ ~FillsAccounts(w) /\ ~WillReadAccounts(w)
    BY <1>1 DEF FillsJobs, FillsAccounts, WillReadAccounts
  <2> QED
    BY <1>1, <2>1, Settled DEF SettledAs
<1> QED
  BY <1>2 DEF Reload, ShowJobs, ShowAccounts, TypeOKFiles

(* Nothing else than a reload changes what a window shows.                 *)
LEMMA OthersShow ==
  ASSUME [NextFiles]_webVars, ~\E w \in Window : Reload(w)
  PROVE  UNCHANGED <<rows, known>>
BY DEF NextFiles, Submit, AskCreate, AskRemove, AskUpdate, AskAdd, AskRemoveAccount,
       AskEditAccount, Send, Serve, Refuse, ReadJobs, OpenJobs, FillJobs, ReadAccounts,
       OpenAccounts, FillAccounts, windowVars, webVars

(* TableInv holds in every reachable state.                                *)
LEMMA TableInvariance == ASSUME OneSession \/ OneWindow PROVE SpecFiles => []TableInv
<1>1. TableInv /\ [NextFiles]_webVars => TableInv'
  BY StepTableInv
<1> QED
  BY <1>1, InitTableInv, PTL DEF SpecFiles

(* What a window is given is the table, never a file that has been emptied *)
(* and not filled yet, nor the files between two writes of a request.      *)
THEOREM ShownIsSettledHolds ==
  ASSUME OneSession \/ OneWindow
  PROVE  SpecFiles => ShownIsSettled
<1> DEFINE Shown == \A w \in Window :
             rows'[w] # rows[w] \/ known'[w] # known[w]
               => rows'[w] = SettledEntries /\ known'[w] = SettledAccounts
<1>1. TableInv /\ [NextFiles]_webVars => [Shown]_webVars
  BY ReloadShows, OthersShow
<1>2. SpecFiles => [][Shown]_webVars
  BY <1>1, TableInvariance, PTL DEF SpecFiles
<1> QED
  BY <1>2 DEF ShownIsSettled

(* A window that is not to load the table again, and whose request has not *)
(* got past the point where it may be refused, shows the table.            *)
OwnInv ==
  OneWindow => \A w \in Window :
    \/ at[w] > 1 \/ w \in stale
    \/ rows[w] = SettledEntries /\ known[w] = SettledAccounts

(* A step of the only window or of its request.                            *)
LEMMA StepOwnInv == TableInv /\ OwnInv /\ [NextFiles]_webVars => OwnInv'
<1> SUFFICES ASSUME TableInv, OwnInv, [NextFiles]_webVars, OneWindow, NEW w \in Window
             PROVE  \/ at'[w] > 1 \/ w \in stale'
                    \/ rows'[w] = SettledEntries' /\ known'[w] = SettledAccounts'
  BY DEF OwnInv, OneWindow
<1> USE DEF OwnInv
<1>1. CASE UNCHANGED webVars
  BY <1>1, StutterTable DEF webVars, requestVars, windowVars, tableVars
<1>2. CASE Reload(w)
  BY <1>2, ReloadShows, WindowTable
<1>3. CASE Submit(w)
  <2>1. UNCHANGED <<rows, known, stale, SettledAccounts, SettledEntries>>
    BY <1>3, WindowTable
       DEF Submit, AskCreate, AskRemove, AskUpdate, AskAdd, AskRemoveAccount, AskEditAccount,
           Send, windowVars
  <2>2. at[w] = 0
    BY <1>3 DEF Submit, AskCreate, AskRemove, AskUpdate, AskAdd, AskRemoveAccount,
                AskEditAccount, Send, Submitted
  <2> QED
    BY <2>1, <2>2
<1>4. CASE Refuse(w)
  <2>1. UNCHANGED <<rows, known, SettledAccounts, SettledEntries>> /\ stale \subseteq stale'
    BY <1>4, RefuseTable DEF Refuse, tableVars
  <2>2. at[w] = 1
    BY <1>4 DEF Refuse, Refused
  <2> QED
    BY <2>1, <2>2
<1>5. CASE Serve(w) /\ ~Refuse(w)
  <2>1. GoOn(w) /\ Submitted(w)
    BY <1>5 DEF Serve, ReadJobs, OpenJobs, FillJobs, ReadAccounts, OpenAccounts, FillAccounts, Doing
  <2>2. at[w] \in 1..7 /\ at' \in [Window -> 0..7]
    BY <2>1, Position, ServeInv, <1>5 DEF TypeOKFiles, Submitted
  <2>3. CASE at[w] < Len(Program[ask[w].op])
    BY <2>1, <2>2, <2>3 DEF GoOn, TypeOKFiles
  <2>4. CASE ~(at[w] < Len(Program[ask[w].op]))
    BY <2>1, <2>4 DEF GoOn
  <2> QED
    BY <2>3, <2>4
<1> QED
  BY <1>1, <1>2, <1>3, <1>4, <1>5 DEF NextFiles, OneWindow

(* Nothing changes behind the only window, and what it has changed itself  *)
(* it loads again.                                                         *)
THEOREM OwnTableIsTrueHolds == SpecFiles => []OwnTableIsTrue
<1>1. CASE OneWindow
  <2>1. TableInv /\ OwnInv => OwnTableIsTrue
    BY DEF OwnInv, OwnTableIsTrue, Submitted, TypeOKFiles
  <2>2. InitFiles => OwnInv
    BY InitTable DEF InitFiles, OwnInv, Table!Init
  <2> QED
    BY <1>1, <2>1, <2>2, StepOwnInv, TableInvariance, PTL DEF SpecFiles
<1>2. CASE ~OneWindow
  <2>1. OwnTableIsTrue
    BY <1>2 DEF OwnTableIsTrue
  <2> QED
    BY <2>1, PTL
<1> QED
  BY <1>1, <1>2
=============================================================================
