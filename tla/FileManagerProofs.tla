------------------------- MODULE FileManagerProofs -------------------------
(***************************************************************************)
(* Proofs about FileManager, for any folders, names, files and bounds, and *)
(* any number of requests on their way.                                    *)
(***************************************************************************)
EXTENDS FileManager, SequenceTheorems, FiniteSetTheorems, TLAPS

ListIn(requests) == \E i \in DOMAIN requests : requests[i].kind = "list"

Changes(r) == r.kind \in Dialog \cup Move

(* A table that is on its way is one of its folder.                        *)
ListsAreWhole ==
  \A i \in DOMAIN answers :
    answers[i].kind = "list" => In(answers[i].to, answers[i].files) = answers[i].files

(* What the toolbar goes back to after a move matches the selection, too.  *)
OfferMatches ==
  /\ "rename" \in offered => Cardinality(sel) = 1
  /\ offered \cap {"delete", "copy", "move", "perm"} # {} => sel # {}

(* A modal dialog keeps the selection it was opened for, or has lost it.   *)
DialogKeeps == modal # "none" => sel \subseteq chosen

NoMoveIsBare == moving.op = "none" => moving = NoMove

(* What the table says of a folder: all that is in it, or nothing.         *)
TrueTable(f, listed, d) == IF listed THEN In(f, d) ELSE {}

(* If no table has been asked for that is not served yet, then the last    *)
(* one on its way is true, or there is the answer to a change behind it;   *)
(* and if no table is on its way, then there is such an answer, or the     *)
(* page was told of a failure, or shows the folder as it is.               *)
LastIsTrue ==
  \A i \in DOMAIN answers :
    /\ answers[i].kind = "list"
    /\ \A j \in DOMAIN answers : answers[j].kind = "list" => j <= i
    => \/ answers[i].files = TrueTable(answers[i].to, answers[i].ok, disk)
       \/ \E j \in DOMAIN answers : j > i /\ Changes(answers[j])

ShownIsTrue ==
  ~ListIn(answers) =>
    \/ \E j \in DOMAIN answers : Changes(answers[j])
    \/ failed
    \/ rows = TrueTable(root, ~refused, disk)

Truth == ~ListIn(sent) => LastIsTrue /\ ShownIsTrue

PageInv ==
  /\ TypeOK
  /\ RowsAreOfRoot /\ RenameStays /\ ListsAreWhole
  /\ ButtonsMatchSelection /\ OfferMatches
  /\ CoveredAwaits /\ DialogKeeps /\ NoMoveIsBare

Inv == PageInv /\ Truth

-----------------------------------------------------------------------------
(* What is left of a sequence when one of its elements is taken out.       *)
LEMMA RemoveAtProperties ==
  ASSUME NEW S, NEW s \in Seq(S), NEW i \in DOMAIN s
  PROVE  /\ RemoveAt(s, i) \in Seq(S)
         /\ DOMAIN RemoveAt(s, i) \subseteq DOMAIN s
         /\ \A j \in DOMAIN RemoveAt(s, i) : \E k \in DOMAIN s :
              k # i /\ RemoveAt(s, i)[j] = s[k]
         /\ \A k \in DOMAIN s \ {i} : \E j \in DOMAIN RemoveAt(s, i) :
              RemoveAt(s, i)[j] = s[k]
<1>1. PICK n \in Nat : n = Len(s) /\ DOMAIN s = 1..n /\ i \in 1..n
  BY LenProperties
<1>2. \A j \in 1..n : s[j] \in S
  BY <1>1, ElementOfSeq
<1>3. PICK before : before = SubSeq(s, 1, i - 1)
  OBVIOUS
<1>4. PICK after : after = SubSeq(s, i + 1, n)
  OBVIOUS
<1>5. /\ before \in Seq(S) /\ Len(before) = i - 1
      /\ \A j \in 1..(i - 1) : before[j] = s[j]
  <2>1. \A j \in 1..(i - 1) : s[j] \in S
    BY <1>1, <1>2
  <2>2. 1 \in Int /\ i - 1 \in Int /\ i - 1 - 1 + 1 = i - 1
    BY <1>1
  <2>3. /\ before \in Seq(S)
        /\ Len(before) = IF 1 <= i - 1 THEN i - 1 - 1 + 1 ELSE 0
        /\ \A j \in 1 .. (i - 1 - 1 + 1) : before[j] = s[1 + j - 1]
    BY <1>3, <2>1, <2>2, SubSeqProperties
  <2> QED
    BY <1>1, <2>2, <2>3
<1>6. /\ after \in Seq(S) /\ Len(after) = n - i
      /\ \A j \in 1..(n - i) : after[j] = s[i + j]
  <2>1. \A j \in (i + 1)..n : s[j] \in S
    BY <1>1, <1>2
  <2>2. i + 1 \in Int /\ n \in Int /\ n - (i + 1) + 1 = n - i
    BY <1>1
  <2>3. /\ after \in Seq(S)
        /\ Len(after) = IF i + 1 <= n THEN n - (i + 1) + 1 ELSE 0
        /\ \A j \in 1 .. (n - (i + 1) + 1) : after[j] = s[(i + 1) + j - 1]
    BY <1>4, <2>1, <2>2, SubSeqProperties
  <2>4. \A j \in 1..(n - i) : (i + 1) + j - 1 = i + j
    BY <1>1
  <2> QED
    BY <1>1, <2>2, <2>3, <2>4
<1>7. PICK rest : rest = before \o after
  OBVIOUS
<1>8. /\ rest \in Seq(S)
      /\ Len(rest) = n - 1
      /\ \A j \in 1..(n - 1) : rest[j] = IF j <= i - 1 THEN s[j] ELSE s[j + 1]
  <2>1. /\ rest \in Seq(S)
        /\ Len(rest) = Len(before) + Len(after)
        /\ \A j \in 1 .. Len(before) + Len(after) :
             rest[j] = IF j <= Len(before) THEN before[j] ELSE after[j - Len(before)]
    BY <1>5, <1>6, <1>7, ConcatProperties
  <2>2. Len(before) + Len(after) = n - 1
    <3>1. Len(before) = i - 1 /\ Len(after) = n - i /\ i \in Int
      BY <1>1, <1>5, <1>6
    <3> QED
      BY <3>1, Z3
  <2>3. ASSUME NEW j \in 1..(n - 1)
        PROVE  rest[j] = IF j <= i - 1 THEN s[j] ELSE s[j + 1]
    <3>1. rest[j] = IF j <= i - 1 THEN before[j] ELSE after[j - (i - 1)]
      BY <2>1, <2>2, <1>5
    <3>2. CASE j <= i - 1
      BY <3>1, <3>2, <1>1, <1>5
    <3>3. CASE ~(j <= i - 1)
      <4>1. j - (i - 1) \in 1..(n - i) /\ i + (j - (i - 1)) = j + 1
        BY <3>3, <1>1
      <4> QED
        BY <3>1, <3>3, <4>1, <1>6
    <3> QED
      BY <3>2, <3>3
  <2> QED
    BY <2>1, <2>2, <2>3
<1>9. DOMAIN rest = 1..(n - 1)
  BY <1>8, LenProperties
<1>10. ASSUME NEW j \in 1..(n - 1)
       PROVE  \E k \in 1..n : k # i /\ rest[j] = s[k]
  <2>1. CASE j <= i - 1
    BY <2>1, <1>1, <1>8
  <2>2. CASE ~(j <= i - 1)
    <3>1. j + 1 \in 1..n /\ j + 1 # i /\ rest[j] = s[j + 1]
      BY <2>2, <1>1, <1>8
    <3> QED
      BY <3>1
  <2> QED
    BY <2>1, <2>2
<1>11. ASSUME NEW k \in 1..n, k # i
       PROVE  \E j \in 1..(n - 1) : rest[j] = s[k]
  <2>1. CASE k < i
    <3>1. k \in 1..(n - 1) /\ rest[k] = s[k]
      BY <2>1, <1>1, <1>8
    <3> QED
      BY <3>1
  <2>2. CASE ~(k < i)
    <3>1. k - 1 \in 1..(n - 1) /\ ~(k - 1 <= i - 1) /\ (k - 1) + 1 = k
      BY <2>2, <1>1, <1>11
    <3>2. rest[k - 1] = s[k]
      BY <3>1, <1>8
    <3> QED
      BY <3>1, <3>2
  <2> QED
    BY <2>1, <2>2
<1>12. RemoveAt(s, i) = rest
  BY <1>1, <1>3, <1>4, <1>7 DEF RemoveAt
<1>13. 1..(n - 1) \subseteq 1..n
  BY <1>1
<1>14. \A j \in DOMAIN rest : \E k \in DOMAIN s : k # i /\ rest[j] = s[k]
  BY <1>1, <1>9, <1>10
<1>15. \A k \in DOMAIN s \ {i} : \E j \in DOMAIN rest : rest[j] = s[k]
  BY <1>1, <1>9, <1>11
<1>16. DOMAIN rest \subseteq DOMAIN s
  BY <1>1, <1>9, <1>13
<1> QED
  BY <1>8, <1>12, <1>14, <1>15, <1>16

(* What is appended to a sequence is its last element, and the others      *)
(* stay.                                                                   *)
LEMMA AppendFacts ==
  ASSUME NEW S, NEW s \in Seq(S), NEW e \in S
  PROVE  /\ Append(s, e) \in Seq(S)
         /\ Append(s, e) # << >>
         /\ DOMAIN Append(s, e) = 1..(Len(s) + 1)
         /\ DOMAIN s = 1..Len(s)
         /\ Len(s) \in Nat
         /\ Append(s, e)[Len(s) + 1] = e
         /\ \A i \in DOMAIN s : i \in DOMAIN Append(s, e) /\ Append(s, e)[i] = s[i]
         /\ \A i \in DOMAIN Append(s, e) : i # Len(s) + 1 => i \in DOMAIN s
BY AppendProperties, LenProperties

(* What is left of a sequence without its first element.                   *)
LEMMA TailFacts ==
  ASSUME NEW S, NEW s \in Seq(S), s # << >>
  PROVE  /\ Head(s) \in S /\ Head(s) = s[1] /\ 1 \in DOMAIN s
         /\ Tail(s) \in Seq(S)
         /\ DOMAIN s \subseteq Nat
         /\ \A i \in DOMAIN Tail(s) : i + 1 \in DOMAIN s /\ Tail(s)[i] = s[i + 1]
         /\ \A i \in DOMAIN s : i # 1 => i - 1 \in DOMAIN Tail(s) /\ Tail(s)[i - 1] = s[i]
<1>1. /\ Len(s) \in Nat \ {0} /\ DOMAIN s = 1..Len(s)
      /\ Head(s) \in S /\ Tail(s) \in Seq(S) /\ Len(Tail(s)) = Len(s) - 1
      /\ DOMAIN Tail(s) = 1..(Len(s) - 1)
      /\ \A i \in 1..(Len(s) - 1) : Tail(s)[i] = s[i + 1]
  BY EmptySeq, LenProperties, HeadTailProperties
<1>2. Head(s) = s[1]
  OBVIOUS
<1> QED
  BY <1>1, <1>2

-----------------------------------------------------------------------------
USE FileManagerAssumption DEF PageInv, RowsAreOfRoot, RenameStays, ListsAreWhole,
      ButtonsMatchSelection, OfferMatches, CoveredAwaits, DialogKeeps, NoMoveIsBare

(* The empty set has no elements.                                          *)
LEMMA EmptyCount == Cardinality({}) = 0
BY FS_EmptySet

(* The toolbar that Update leaves matches the selection that it looked at. *)
LEMMA StatesMatch ==
  ASSUME NEW s, NEW w, NEW readers
  PROVE  /\ States(Cardinality(s), w, readers) \subseteq Button
         /\ "rename" \in States(Cardinality(s), w, readers) => Cardinality(s) = 1
         /\ States(Cardinality(s), w, readers) \cap {"delete", "copy", "move", "perm"} # {} => s # {}
<1>1. s = {} => ~(Cardinality(s) > 0)
  BY EmptyCount
<1> QED
  BY <1>1 DEF States

(* A request that is sent is the last; the others are as they were.        *)
LEMMA AppendSent ==
  ASSUME TypeOK, RenameStays, NEW r \in Request, sent' = Append(sent, r),
         r.kind = "rename" => In(r.to, r.files) = r.files
  PROVE  sent' \in Seq(Request) /\ sent' # << >> /\ RenameStays'
<1>1. sent \in Seq(Request)
  BY DEF TypeOK
<1>2. sent' \in Seq(Request) /\ sent' # << >>
  BY <1>1, AppendFacts
<1>3. ASSUME NEW i \in DOMAIN sent', sent'[i].kind = "rename"
      PROVE  In(sent'[i].to, sent'[i].files) = sent'[i].files
  <2>1. sent'[i] = r \/ (i \in DOMAIN sent /\ sent'[i] = sent[i])
    BY <1>1, AppendFacts
  <2> QED
    BY <1>3, <2>1
<1> QED
  BY <1>2, <1>3

(* A request that is sent is the last of those on their way.               *)
LEMMA SendFacts ==
  ASSUME TypeOK, RenameStays, NEW r \in Request, Send(r),
         r.kind = "rename" => In(r.to, r.files) = r.files
  PROVE  /\ sent' \in Seq(Request) /\ sent' # << >>
         /\ RenameStays'
         /\ ops' \in 0..MaxOps
         /\ covered' = TRUE
<1>1. sent' = Append(sent, r)
  BY DEF Send
<1>2. sent' \in Seq(Request) /\ sent' # << >> /\ RenameStays'
  BY <1>1, AppendSent
<1>3. ops \in 0..MaxOps /\ ops < MaxOps /\ ops' = ops + 1
  BY DEF TypeOK, Send
<1> QED
  BY <1>2, <1>3 DEF Send

(* The table of a folder is asked for by a request.                        *)
LEMMA ListIsRequest ==
  ASSUME NEW f \in Folder, NEW tell \in BOOLEAN
  PROVE  List(f, tell) \in Request /\ List(f, tell).kind = "list"
BY DEF List, Request

(* What a sequence of one request holds.                                   *)
LEMMA OneRequest ==
  ASSUME NEW r \in Request
  PROVE  << r >> \in Seq(Request) /\ DOMAIN << r >> = {1} /\ << r >>[1] = r
OBVIOUS

(* The page loads its first table, covered.                                *)
LEMMA InitPageInv == Init => PageInv
<1> SUFFICES ASSUME Init PROVE PageInv
  OBVIOUS
<1>1. List(root, FALSE) \in Request /\ List(root, FALSE).kind = "list"
  BY ListIsRequest DEF Init
<1>2. /\ sent = << List(root, FALSE) >> /\ sent \in Seq(Request) /\ DOMAIN sent = {1}
      /\ sent[1].kind = "list"
  BY <1>1, OneRequest DEF Init
<1>3. answers \in Seq(Request) /\ DOMAIN answers = {}
  BY EmptySeq, LenProperties DEF Init
<1>4. disk \subseteq Path /\ ops \in 0..MaxOps
  BY DEF Init
<1>5. TypeOK
  BY <1>2, <1>3, <1>4 DEF Init, TypeOK, Button, Dialog, Move, NoMove
<1>6. RenameStays /\ ListsAreWhole
  BY <1>2, <1>3
<1>7. CoveredAwaits
  BY <1>2
<1>8. RowsAreOfRoot /\ ButtonsMatchSelection /\ OfferMatches /\ DialogKeeps /\ NoMoveIsBare
  BY DEF Init, In, NoMove
<1> QED
  BY <1>5, <1>6, <1>7, <1>8

(* What the user does without a request.                                   *)
LEMMA ClickInv ==
  ASSUME PageInv, Select \/ Escape \/ BeginMove \/ AbortMove
  PROVE  PageInv'
<1> USE DEF TypeOK, pageVars, barVars, netVars
<1>1. CASE Select
  <2>1. PICK s \in SUBSET rows : sel' = s /\ Update(Cardinality(s), writable, readable)
    BY <1>1 DEF Select
  <2>2. OfferMatches' /\ ButtonsMatchSelection' /\ enabled' \subseteq Button /\ offered' \subseteq Button
    BY <2>1, StatesMatch DEF Update
  <2> QED
    BY <1>1, <2>1, <2>2 DEF Select, Mouse, Keys, dialogVars, told
<1>2. CASE Escape
  BY <1>2 DEF Escape, CloseDialog, told
<1>3. CASE BeginMove
  BY <1>3 DEF BeginMove, Button, Move, Dialog, dialogVars, told
<1>4. CASE AbortMove
  BY <1>4 DEF AbortMove, Fade, NoMove, Restore, dialogVars, told
<1> QED
  BY <1>1, <1>2, <1>3, <1>4

(* A dialog is confirmed for files that are selected; if it is the modal   *)
(* one, only that.                                                         *)
LEMMA ConfirmSends ==
  ASSUME TypeOK, Confirm
  PROVE  \E d \in Dialog, files \in SUBSET sel :
           /\ Send([List(root, FALSE) EXCEPT !.kind = d, !.files = files])
           /\ modal \in {d, "none"}
<1>1. PICK d \in Reachable :
        \E files \in IF d = "mkdir" THEN {{}}
                    ELSE IF d = "rename" /\ sel # {} THEN {{p} : p \in sel}
                    ELSE {sel} :
          Send([List(root, FALSE) EXCEPT !.kind = d, !.files = files])
  BY DEF Confirm
<1>2. PICK files \in SUBSET sel :
        Send([List(root, FALSE) EXCEPT !.kind = d, !.files = files])
  BY <1>1
<1>3. d \in Dialog /\ modal \in {d, "none"}
  BY DEF Reachable, TypeOK
<1> QED
  BY <1>2, <1>3

(* What the user asks for.                                                 *)
LEMMA AskInv ==
  ASSUME PageInv, OpenFolder \/ OpenDialog \/ Confirm \/ FinishMove
  PROVE  PageInv'
<1> USE DEF pageVars, barVars, netVars, dialogVars, told
<1>1. CASE OpenFolder
  <2>1. PICK f \in Folder : Send(List(f, TRUE))
    BY <1>1 DEF OpenFolder
  <2>2. sent' \in Seq(Request) /\ sent' # << >> /\ RenameStays' /\ ops' \in 0..MaxOps
    BY <2>1, ListIsRequest, SendFacts
  <2>3. OfferMatches' /\ ButtonsMatchSelection' /\ enabled' \subseteq Button /\ offered' \subseteq Button
    BY <1>1, StatesMatch DEF Update, OpenFolder, TypeOK
  <2> QED
    BY <1>1, <2>1, <2>2, <2>3 DEF OpenFolder, Send, TypeOK
<1>2. CASE OpenDialog
  <2>1. PICK d \in Dialog \cap enabled :
          /\ dialogs' = dialogs \cup {d}
          /\ modal' = d
          /\ \/ Send([List(root, FALSE) EXCEPT !.kind = "get"])
             \/ UNCHANGED <<sent, covered, ops>>
    BY <1>2 DEF OpenDialog
  <2>2. /\ [List(root, FALSE) EXCEPT !.kind = "get"] \in Request
        /\ [List(root, FALSE) EXCEPT !.kind = "get"].kind = "get"
    BY DEF List, Request, TypeOK
  <2>3. /\ sent' \in Seq(Request) /\ RenameStays' /\ ops' \in 0..MaxOps
        /\ covered' \in BOOLEAN /\ CoveredAwaits'
    <3>1. CASE Send([List(root, FALSE) EXCEPT !.kind = "get"])
      BY <3>1, <2>2, SendFacts
    <3>2. CASE UNCHANGED <<sent, covered, ops>>
      BY <3>2, <1>2 DEF TypeOK, OpenDialog
    <3> QED
      BY <2>1, <3>1, <3>2
  <2> QED
    BY <1>2, <2>1, <2>3 DEF OpenDialog, TypeOK
<1>3. CASE Confirm
  <2>1. PICK d \in Dialog, files \in SUBSET sel :
          Send([List(root, FALSE) EXCEPT !.kind = d, !.files = files])
    BY <1>3, ConfirmSends
  <2>2. files \subseteq sel
    BY <2>1
  <2> DEFINE r == [List(root, FALSE) EXCEPT !.kind = d, !.files = files]
  <2>3. r \in Request /\ r.files = files /\ r.to = root
    BY <1>3, <2>2 DEF List, Request, TypeOK, Confirm
  <2>4. In(r.to, r.files) = r.files
    BY <2>2, <2>3 DEF In
  <2>5. sent' \in Seq(Request) /\ sent' # << >> /\ RenameStays' /\ ops' \in 0..MaxOps
    BY <2>1, <2>3, <2>4, SendFacts
  <2> QED
    BY <1>3, <2>1, <2>5 DEF Confirm, Send, TypeOK
<1>4. CASE FinishMove
  <2> DEFINE r == [List(root, FALSE) EXCEPT !.kind = moving.op, !.files = moving.files]
  <2>1. moving.op \in Move /\ moving.files \in SUBSET Path
    BY <1>4 DEF FinishMove, TypeOK
  <2>2. r \in Request /\ r.kind \in Move
    BY <2>1 DEF List, Request, TypeOK
  <2>3. Send(r)
    BY <1>4 DEF FinishMove
  <2>4. sent' \in Seq(Request) /\ sent' # << >> /\ RenameStays' /\ ops' \in 0..MaxOps
    BY <2>2, <2>3, SendFacts DEF Move
  <2> QED
    <3>1. moving' \in {moving, NoMove}
      BY <1>4 DEF FinishMove, Fade
    <3>2. moving' \in [op : Move \cup {"none"}, files : SUBSET Path] /\ NoMoveIsBare'
      BY <3>1 DEF TypeOK, NoMove
    <3> QED
      BY <1>4, <2>3, <2>4, <3>2 DEF FinishMove, Send, TypeOK
<1> QED
  BY <1>1, <1>2, <1>3, <1>4

(* The server takes one request out and appends its answer, a table of its *)
(* folder or the request with its result.                                  *)
Served(i, a) ==
  /\ i \in DOMAIN sent
  /\ sent' = RemoveAt(sent, i)
  /\ answers' = Append(answers, a)
  /\ a \in Request
  /\ a.kind = sent[i].kind
  /\ a.kind = "list" => a.to = sent[i].to /\ a.files = TrueTable(a.to, a.ok, disk) /\ UNCHANGED disk
  /\ a.kind \in {"get", "perm"} => UNCHANGED disk
  /\ disk' \subseteq Path

(* The server answers one request that is on its way.                      *)
LEMMA ServeServes ==
  ASSUME PageInv, Serve
  PROVE  \E i \in DOMAIN sent, a \in Request : Served(i, a)
<1>1. PICK i \in DOMAIN sent :
        /\ sent' = RemoveAt(sent, i)
        /\ IF sent[i].kind = "list"
             THEN /\ \E a \in Listed(sent[i]) : answers' = Append(answers, a)
                  /\ UNCHANGED disk
             ELSE \E d \in SUBSET Path, ok \in BOOLEAN :
                    /\ Effect(sent[i], d, ok)
                    /\ disk' = d
                    /\ answers' = Append(answers, [sent[i] EXCEPT !.ok = ok])
  BY DEF Serve
<1>2. sent[i] \in Request
  BY ElementOfSeq, LenProperties DEF TypeOK
<1>3. CASE sent[i].kind = "list"
  <2>0. PICK a \in Listed(sent[i]) : answers' = Append(answers, a) /\ UNCHANGED disk
    BY <1>1, <1>3
  <2>1. /\ a \in Request /\ a.kind = "list" /\ a.to = sent[i].to
        /\ a.files = TrueTable(a.to, a.ok, disk)
    <3>1. CASE a = [sent[i] EXCEPT !.files = In(sent[i].to, disk), !.ok = TRUE]
      BY <1>2, <1>3, <3>1 DEF Request, In, TypeOK, TrueTable
    <3>2. CASE a = [sent[i] EXCEPT !.files = {}, !.ok = FALSE]
      BY <1>2, <1>3, <3>2 DEF Request, TypeOK, TrueTable
    <3> QED
      BY <2>0, <3>1, <3>2 DEF Listed
  <2>2. Served(i, a)
    BY <1>1, <1>3, <2>0, <2>1 DEF Served, TypeOK
  <2> QED
    BY <2>1, <2>2
<1>4. CASE sent[i].kind # "list"
  <2>1. PICK d \in SUBSET Path, ok \in BOOLEAN :
          /\ Effect(sent[i], d, ok)
          /\ disk' = d
          /\ answers' = Append(answers, [sent[i] EXCEPT !.ok = ok])
    BY <1>1, <1>4
  <2> DEFINE a == [sent[i] EXCEPT !.ok = ok]
  <2>2. a \in Request /\ a.kind = sent[i].kind
    BY <1>2 DEF Request
  <2>3. a.kind \in {"get", "perm"} => UNCHANGED disk
    <3> SUFFICES ASSUME a.kind \in {"get", "perm"} PROVE UNCHANGED disk
      OBVIOUS
    <3>1. sent[i].kind \in {"get", "perm"}
      BY <2>2
    <3>2. d = disk
      BY <2>1, <3>1 DEF Effect, Move
    <3> QED
      BY <2>1, <3>2
  <2>4. Served(i, a)
    BY <1>1, <1>4, <2>1, <2>2, <2>3 DEF Served
  <2> QED
    BY <2>2, <2>4
<1> QED
  BY <1>3, <1>4

(* The page does not see the server work.                                  *)
LEMMA ServeInv == ASSUME PageInv, Serve PROVE PageInv'
<1>1. PICK i \in DOMAIN sent, a \in Request : Served(i, a)
  BY ServeServes
<1>2. UNCHANGED <<pageVars, barVars, covered, dialogVars, moving, told, ops>>
  BY DEF Serve
<1>3. sent \in Seq(Request) /\ answers \in Seq(Request)
  BY DEF TypeOK
<1>4. sent' \in Seq(Request) /\ \A j \in DOMAIN sent' : \E k \in DOMAIN sent : sent'[j] = sent[k]
  BY <1>1, <1>3, RemoveAtProperties DEF Served
<1>5. answers' \in Seq(Request) /\ answers' # << >>
  BY <1>1, <1>3, AppendFacts DEF Served
<1>6. \A j \in DOMAIN answers' : answers'[j] = a \/ (j \in DOMAIN answers /\ answers'[j] = answers[j])
  BY <1>1, <1>3, AppendFacts DEF Served
<1>7. TypeOK'
  BY <1>1, <1>2, <1>4, <1>5 DEF TypeOK, Served, pageVars, barVars, dialogVars, told
<1>8. RenameStays'
  BY <1>4
<1>9. a.kind = "list" => In(a.to, a.files) = a.files
  BY <1>1 DEF Served, In, TrueTable
<1>10. ListsAreWhole'
  BY <1>6, <1>9
<1> QED
  BY <1>2, <1>5, <1>7, <1>8, <1>10 DEF pageVars, barVars, dialogVars

(* A callback takes the first answer.                                      *)
LEMMA AnsweredFacts ==
  ASSUME PageInv, NEW kinds, Answered(kinds)
  PROVE  /\ Head(answers) \in Request /\ Head(answers).kind \in kinds
         /\ 1 \in DOMAIN answers /\ answers[1] = Head(answers)
         /\ answers' \in Seq(Request)
         /\ ListsAreWhole'
<1>1. answers \in Seq(Request) /\ answers # << >> /\ answers' = Tail(answers)
      /\ Head(answers).kind \in kinds
  BY DEF Answered, TypeOK
<1>2. /\ Head(answers) \in Request /\ Head(answers) = answers[1] /\ 1 \in DOMAIN answers
      /\ answers' \in Seq(Request)
      /\ \A i \in DOMAIN answers' : i + 1 \in DOMAIN answers /\ answers'[i] = answers[i + 1]
  BY <1>1, TailFacts
<1>3. ListsAreWhole'
  BY <1>2
<1> QED
  BY <1>1, <1>2, <1>3

(* After a success the request for the table is the last.                  *)
LEMMA ReloadFacts ==
  ASSUME TypeOK, RenameStays, NEW ok \in BOOLEAN, ReloadIf(ok)
  PROVE  /\ sent' \in Seq(Request) /\ RenameStays'
         /\ covered' \in BOOLEAN /\ failed' \in BOOLEAN
         /\ covered' => sent' # << >>
         /\ IF ok THEN sent' = Append(sent, List(root, FALSE)) ELSE failed' /\ UNCHANGED sent
<1>1. sent \in Seq(Request) /\ failed \in BOOLEAN
  BY DEF TypeOK
<1>2. CASE ok
  <2>1. List(root, FALSE) \in Request /\ List(root, FALSE).kind = "list"
    BY ListIsRequest DEF TypeOK
  <2>2. sent' = Append(sent, List(root, FALSE)) /\ covered' = TRUE /\ failed' = failed
    BY <1>2 DEF ReloadIf
  <2>3. sent' \in Seq(Request) /\ sent' # << >> /\ RenameStays'
    BY <2>1, <2>2, AppendSent
  <2> QED
    BY <1>1, <1>2, <2>2, <2>3
<1>3. CASE ~ok
  <2>1. sent' = sent /\ covered' = FALSE /\ failed' = TRUE
    BY <1>3 DEF ReloadIf
  <2> QED
    BY <1>1, <1>3, <2>1
<1> QED
  BY <1>2, <1>3

(* Every callback keeps the invariant of the page.                         *)
LEMMA AnswerInv == ASSUME PageInv, Answer PROVE PageInv'
<1> USE DEF pageVars, barVars, dialogVars, told
<1>1. CASE ShowList
  <2>1. /\ Head(answers) \in Request /\ Head(answers).kind = "list"
        /\ 1 \in DOMAIN answers /\ answers[1] = Head(answers)
        /\ answers' \in Seq(Request) /\ ListsAreWhole'
    BY <1>1, AnsweredFacts DEF ShowList
  <2>2. PICK w \in BOOLEAN, readers \in BOOLEAN :
          writable' = w /\ readable' = readers /\ Update(0, w, readers)
    BY <1>1, <2>1 DEF ShowList, TypeOK, Request
  <2>3. OfferMatches' /\ ButtonsMatchSelection' /\ enabled' \subseteq Button /\ offered' \subseteq Button
    BY <1>1, <2>2, EmptyCount, StatesMatch DEF Update, ShowList
  <2>4. In(root', rows') = rows'
    BY <1>1, <2>1 DEF ShowList
  <2>5. TypeOK'
    BY <1>1, <2>1, <2>2, <2>3 DEF ShowList, TypeOK, Request
  <2> QED
    BY <1>1, <2>1, <2>3, <2>4, <2>5 DEF ShowList
<1>2. CASE ShowPermissions
  <2>1. answers' \in Seq(Request) /\ ListsAreWhole'
    BY <1>2, AnsweredFacts DEF ShowPermissions
  <2> QED
    BY <1>2, <2>1 DEF ShowPermissions, TypeOK
<1>3. CASE DialogDone
  <2>1. Head(answers) \in Request /\ answers' \in Seq(Request) /\ ListsAreWhole'
    BY <1>3, AnsweredFacts DEF DialogDone
  <2>2. /\ sent' \in Seq(Request) /\ RenameStays'
        /\ covered' \in BOOLEAN /\ failed' \in BOOLEAN
        /\ covered' => sent' # << >>
    BY <1>3, <2>1, ReloadFacts DEF DialogDone, Request
  <2>3. /\ dialogs' \subseteq Dialog /\ modal' \in Dialog \cup {"none"}
        /\ chosen' \subseteq Path /\ DialogKeeps'
    BY <1>3 DEF DialogDone, CloseDialog, TypeOK
  <2> QED
    BY <1>3, <2>1, <2>2, <2>3 DEF DialogDone, TypeOK
<1>4. CASE MoveDone
  <2>1. Head(answers) \in Request /\ answers' \in Seq(Request) /\ ListsAreWhole'
    BY <1>4, AnsweredFacts DEF MoveDone
  <2>2. /\ sent' \in Seq(Request) /\ RenameStays'
        /\ covered' \in BOOLEAN /\ failed' \in BOOLEAN
        /\ covered' => sent' # << >>
    BY <1>4, <2>1, ReloadFacts DEF MoveDone, Request
  <2>3. OfferMatches' /\ ButtonsMatchSelection' /\ enabled' \subseteq Button /\ offered' \subseteq Button
    BY <1>4 DEF MoveDone, Restore, TypeOK
  <2> QED
    BY <1>4, <2>1, <2>2, <2>3 DEF MoveDone, TypeOK
<1> QED
  BY <1>1, <1>2, <1>3, <1>4 DEF Answer

(* Every step keeps the invariant of the page.                             *)
LEMMA StepPageInv == PageInv /\ [Next]_vars => PageInv'
<1> SUFFICES ASSUME PageInv, [Next]_vars PROVE PageInv'
  OBVIOUS
<1>1. CASE UNCHANGED vars
  BY <1>1 DEF vars, pageVars, barVars, netVars, dialogVars, told, TypeOK
<1>2. CASE Next
  BY <1>2, ClickInv, AskInv, ServeInv, AnswerInv DEF Next
<1> QED
  BY <1>1, <1>2

(* The invariant of the page holds in every behaviour.                     *)
THEOREM PageInvariance == Spec => []PageInv
BY InitPageInv, StepPageInv, PTL DEF Spec

-----------------------------------------------------------------------------
USE DEF Inv, Truth, TrueTable, LastIsTrue, ShownIsTrue, ListIn, Changes

(* A sequence with a request for a table keeps it when another is          *)
(* appended.                                                               *)
LEMMA AppendedList ==
  ASSUME NEW s \in Seq(Request), NEW r \in Request, r.kind = "list" \/ ListIn(s)
  PROVE  ListIn(Append(s, r))
BY AppendFacts

(* The table that the page asks for first is still on its way.             *)
LEMMA InitTruth == Init => Truth
<1> SUFFICES ASSUME Init PROVE ListIn(sent)
  OBVIOUS
<1>1. List(root, FALSE) \in Request /\ List(root, FALSE).kind = "list"
  BY ListIsRequest DEF Init
<1>2. DOMAIN sent = {1} /\ sent[1].kind = "list"
  BY <1>1, OneRequest DEF Init
<1> QED
  BY <1>2

(* A request more, and the rest of the page, do not touch what is true.    *)
LEMMA UserTruth ==
  ASSUME Inv,
         \/ Select \/ OpenFolder \/ OpenDialog \/ Escape \/ Confirm
         \/ BeginMove \/ AbortMove \/ FinishMove
         \/ UNCHANGED vars
  PROVE  Truth'
<1>1. UNCHANGED <<disk, root, rows, answers, failed, refused>>
  BY DEF Select, OpenFolder, OpenDialog, Escape, Confirm, BeginMove, AbortMove,
         FinishMove, vars, pageVars, netVars, told
<1>2. UNCHANGED sent \/ \E r \in Request : sent' = Append(sent, r)
  <2>1. CASE OpenFolder
    BY <2>1, ListIsRequest DEF OpenFolder, Send
  <2>2. CASE OpenDialog
    BY <2>2 DEF OpenDialog, Send, List, Request, TypeOK
  <2>3. CASE Confirm
    <3>1. PICK d \in Dialog, files \in SUBSET sel :
            Send([List(root, FALSE) EXCEPT !.kind = d, !.files = files])
      BY <2>3, ConfirmSends
    <3>2. [List(root, FALSE) EXCEPT !.kind = d, !.files = files] \in Request
      BY DEF List, Request, TypeOK
    <3> QED
      BY <3>1, <3>2 DEF Send
  <2>4. CASE FinishMove
    BY <2>4 DEF FinishMove, Send, List, Request, TypeOK, NoMove
  <2>5. CASE Select \/ Escape \/ BeginMove \/ AbortMove \/ UNCHANGED vars
    BY <2>5 DEF Select, Escape, BeginMove, AbortMove, vars, netVars
  <2> QED
    BY <2>1, <2>2, <2>3, <2>4, <2>5
<1>3. ListIn(sent) => ListIn(sent')
  <2>1. sent \in Seq(Request)
    BY DEF TypeOK
  <2> QED
    BY <1>2, <2>1, AppendFacts
<1> QED
  BY <1>1, <1>3

(* What the server changes, the table on its way will show.                *)
LEMMA ServeTruth == ASSUME Inv, Serve PROVE Truth'
<1>1. PICK i \in DOMAIN sent, a \in Request : Served(i, a)
  BY ServeServes
<1>2. UNCHANGED <<root, rows, failed, refused>>
  BY DEF Serve, pageVars, told
<1>3. sent \in Seq(Request) /\ answers \in Seq(Request)
  BY DEF TypeOK
<1>4. PICK n : /\ n \in DOMAIN answers' /\ answers'[n] = a /\ DOMAIN answers' \subseteq Nat
               /\ n \notin DOMAIN answers
               /\ \A j \in DOMAIN answers : j < n /\ j \in DOMAIN answers' /\ answers'[j] = answers[j]
               /\ \A j \in DOMAIN answers' : j # n => j \in DOMAIN answers
  <2>1. answers' = Append(answers, a)
    BY <1>1 DEF Served
  <2> WITNESS Len(answers) + 1
  <2> QED
    BY <2>1, <1>3, AppendFacts
<1>5. CASE a.kind = "list"
  <2>1. a.files = TrueTable(a.to, a.ok, disk) /\ UNCHANGED disk
    BY <1>1, <1>5 DEF Served
  <2>2. LastIsTrue'
    <3>1. ASSUME NEW j \in DOMAIN answers',
                 \A k \in DOMAIN answers' : answers'[k].kind = "list" => k <= j
          PROVE  answers'[j].files = TrueTable(answers'[j].to, answers'[j].ok, disk')
      <4>1. n <= j
        BY <1>4, <1>5, <3>1
      <4>2. j = n
        BY <1>4, <4>1
      <4> QED
        BY <1>4, <2>1, <4>2
    <3> QED
      BY <3>1
  <2>3. ShownIsTrue'
    BY <1>4, <1>5
  <2> QED
    BY <2>2, <2>3
<1>6. CASE a.kind # "list" /\ ~Changes(a)
  <2>1. UNCHANGED disk
    BY <1>1, <1>6 DEF Served, Request
  <2>2. ~ListIn(sent') => ~ListIn(sent)
    <3>1. sent[i].kind # "list"
      BY <1>1, <1>6 DEF Served
    <3>2. \A k \in DOMAIN sent \ {i} : \E j \in DOMAIN sent' : sent'[j] = sent[k]
      BY <1>1, <1>3, RemoveAtProperties DEF Served
    <3> QED
      BY <3>1, <3>2
  <2>3. LastIsTrue => LastIsTrue'
    <3> SUFFICES ASSUME LastIsTrue, NEW j \in DOMAIN answers', answers'[j].kind = "list",
                        \A k \in DOMAIN answers' : answers'[k].kind = "list" => k <= j
                 PROVE  \/ answers'[j].files = TrueTable(answers'[j].to, answers'[j].ok, disk')
                        \/ \E k \in DOMAIN answers' : k > j /\ Changes(answers'[k])
      OBVIOUS
    <3>1. j \in DOMAIN answers /\ answers'[j] = answers[j]
      BY <1>4, <1>6
    <3>2. \A k \in DOMAIN answers : answers[k].kind = "list" => k <= j
      BY <1>4
    <3>3. CASE answers[j].files = TrueTable(answers[j].to, answers[j].ok, disk)
      BY <2>1, <3>1, <3>3
    <3>4. CASE \E k \in DOMAIN answers : k > j /\ Changes(answers[k])
      BY <1>4, <3>4
    <3> QED
      BY <3>1, <3>2, <3>3, <3>4
  <2>4. ShownIsTrue => ShownIsTrue'
    <3>1. ListIn(answers) => ListIn(answers')
      BY <1>4
    <3>2. (\E j \in DOMAIN answers : Changes(answers[j]))
            => \E j \in DOMAIN answers' : Changes(answers'[j])
      BY <1>4
    <3> QED
      BY <1>2, <2>1, <3>1, <3>2
  <2> QED
    BY <2>2, <2>3, <2>4
<1>7. CASE Changes(a)
  <2>1. a.kind # "list"
    BY <1>7 DEF Dialog, Move
  <2>2. LastIsTrue'
    BY <1>4, <1>7, <2>1
  <2>3. ShownIsTrue'
    BY <1>4, <1>7
  <2> QED
    BY <2>2, <2>3
<1> QED
  BY <1>5, <1>6, <1>7

(* The answer that is taken, and what it was the last of.                  *)
LEMMA TailTruth ==
  ASSUME Inv, NEW kinds, Answered(kinds), ~ListIn(sent),
         Head(answers).kind # "list" \/ ListIn(answers'),
         UNCHANGED disk
  PROVE  LastIsTrue'
<1>1. answers \in Seq(Request) /\ answers # << >> /\ answers' = Tail(answers)
  BY DEF Answered, TypeOK
<1>2. /\ Head(answers) = answers[1] /\ 1 \in DOMAIN answers /\ DOMAIN answers \subseteq Nat
      /\ \A i \in DOMAIN answers' : i + 1 \in DOMAIN answers /\ answers'[i] = answers[i + 1]
      /\ \A i \in DOMAIN answers : i # 1 => i - 1 \in DOMAIN answers' /\ answers'[i - 1] = answers[i]
  BY <1>1, TailFacts
<1>3. DOMAIN answers' \subseteq Nat /\ \A i \in DOMAIN answers' : i > 0
  <2>1. answers' \in Seq(Request)
    BY <1>1, TailFacts
  <2> QED
    BY <2>1, LenProperties
<1> SUFFICES ASSUME NEW j \in DOMAIN answers', answers'[j].kind = "list",
                    \A k \in DOMAIN answers' : answers'[k].kind = "list" => k <= j
             PROVE  \/ answers'[j].files = TrueTable(answers'[j].to, answers'[j].ok, disk')
                    \/ \E k \in DOMAIN answers' : k > j /\ Changes(answers'[k])
  OBVIOUS
<1>4. j + 1 \in DOMAIN answers /\ answers[j + 1].kind = "list" /\ answers'[j] = answers[j + 1]
  BY <1>2
<1>5. ASSUME NEW k \in DOMAIN answers, answers[k].kind = "list"
      PROVE  k <= j + 1
  <2>1. CASE k = 1
    BY <2>1, <1>3
  <2>2. CASE k # 1
    <3>1. k - 1 \in DOMAIN answers' /\ answers'[k - 1].kind = "list"
      BY <2>2, <1>2, <1>5
    <3>2. k - 1 <= j
      BY <3>1
    <3> QED
      BY <3>2, <1>2, <1>3
  <2> QED
    BY <2>1, <2>2
<1>6. CASE answers[j + 1].files = TrueTable(answers[j + 1].to, answers[j + 1].ok, disk)
  BY <1>4, <1>6
<1>7. CASE \E k \in DOMAIN answers : k > j + 1 /\ Changes(answers[k])
  <2>1. PICK k \in DOMAIN answers : k > j + 1 /\ Changes(answers[k])
    BY <1>7
  <2>2. k # 1 /\ k - 1 > j
    BY <2>1, <1>2, <1>3
  <2>3. k - 1 \in DOMAIN answers' /\ answers'[k - 1] = answers[k]
    BY <1>2, <2>2
  <2> QED
    BY <2>1, <2>2, <2>3
<1> QED
  BY <1>4, <1>5, <1>6, <1>7

(* A callback shows the table it got, or leaves one on its way.            *)
LEMMA AnswerTruth == ASSUME Inv, Answer PROVE Truth'
<1> SUFFICES ASSUME ~ListIn(sent') PROVE LastIsTrue' /\ ShownIsTrue'
  OBVIOUS
<1>1. UNCHANGED disk
  BY DEF Answer, ShowList, ShowPermissions, DialogDone, MoveDone
<1>2. answers \in Seq(Request) /\ answers # << >> /\ answers' = Tail(answers)
  BY DEF Answer, ShowList, ShowPermissions, DialogDone, MoveDone, Answered, TypeOK
<1>3. /\ Head(answers) = answers[1] /\ 1 \in DOMAIN answers /\ DOMAIN answers \subseteq Nat
      /\ Head(answers) \in Request
      /\ \A i \in DOMAIN answers' : i + 1 \in DOMAIN answers /\ answers'[i] = answers[i + 1]
      /\ \A i \in DOMAIN answers : i # 1 => i - 1 \in DOMAIN answers' /\ answers'[i - 1] = answers[i]
  BY <1>2, TailFacts
<1>4. CASE ShowList
  <2>1. Answered({"list"}) /\ ~ListIn(sent)
    BY <1>4 DEF ShowList
  <2>2. /\ Head(answers).kind = "list" /\ root' = Head(answers).to
        /\ rows' = Head(answers).files /\ refused' = ~Head(answers).ok
    BY <1>4 DEF ShowList, Answered
  <2>3. LastIsTrue'
    BY <1>1, <2>1, TailTruth
  <2>4. ASSUME ~ListIn(answers'), ~ \E j \in DOMAIN answers' : Changes(answers'[j])
        PROVE  rows' = TrueTable(root', ~refused', disk')
    <3>1. ASSUME NEW j \in DOMAIN answers, j # 1
          PROVE  answers[j].kind # "list" /\ ~Changes(answers[j])
      BY <1>3, <2>4, <3>1
    <3>2. \A j \in DOMAIN answers : answers[j].kind = "list" => j <= 1
      BY <3>1
    <3>3. ~ \E j \in DOMAIN answers : j > 1 /\ Changes(answers[j])
      BY <3>1
    <3>4. answers[1].files = TrueTable(answers[1].to, answers[1].ok, disk)
      BY <1>3, <2>1, <2>2, <3>2, <3>3
    <3>5. Head(answers).ok \in BOOLEAN
      BY <1>3 DEF Request
    <3> QED
      BY <1>1, <1>3, <2>2, <3>4, <3>5
  <2> QED
    BY <2>3, <2>4
<1>5. CASE ShowPermissions
  <2>1. Answered({"get"}) /\ ~ListIn(sent) /\ UNCHANGED <<root, rows, failed, refused>>
    BY <1>5 DEF ShowPermissions, pageVars, told
  <2>2. Head(answers).kind = "get" /\ ~Changes(Head(answers))
    BY <2>1 DEF Answered, Dialog, Move
  <2>3. LastIsTrue'
    BY <1>1, <2>1, <2>2, TailTruth
  <2>4. ListIn(answers) => ListIn(answers')
    BY <1>3, <2>2
  <2>5. (\E j \in DOMAIN answers : Changes(answers[j]))
          => \E j \in DOMAIN answers' : Changes(answers'[j])
    BY <1>3, <2>2
  <2> QED
    BY <1>1, <2>1, <2>3, <2>4, <2>5
<1>6. CASE DialogDone \/ MoveDone
  <2>1. PICK kinds \in {Dialog, Move} : Answered(kinds) /\ ReloadIf(Head(answers).ok)
    BY <1>6 DEF DialogDone, MoveDone
  <2>2. Head(answers).kind # "list" /\ Head(answers).ok \in BOOLEAN
    BY <1>3, <2>1 DEF Answered, Dialog, Move, Request
  <2>3. ~Head(answers).ok
    <3> SUFFICES ASSUME Head(answers).ok PROVE ListIn(sent')
      OBVIOUS
    <3>1. sent \in Seq(Request) /\ List(root, FALSE) \in Request /\ List(root, FALSE).kind = "list"
      BY ListIsRequest DEF TypeOK
    <3>2. sent' = Append(sent, List(root, FALSE))
      BY <2>1 DEF ReloadIf
    <3> HIDE DEF ListIn
    <3> QED
      BY <3>1, <3>2, AppendedList
  <2>4. failed' = TRUE /\ sent' = sent
    BY <2>1, <2>3 DEF ReloadIf
  <2>5. LastIsTrue'
    BY <1>1, <2>1, <2>2, <2>4, TailTruth
  <2> QED
    BY <2>4, <2>5
<1> QED
  BY <1>4, <1>5, <1>6 DEF Answer

(* Every step keeps the page true to the disk.                             *)
LEMMA StepInv == Inv /\ [Next]_vars => Inv'
<1> SUFFICES ASSUME Inv, [Next]_vars PROVE Inv'
  OBVIOUS
<1>1. PageInv'
  BY StepPageInv
<1>2. Truth'
  BY UserTruth, ServeTruth, AnswerTruth DEF Next
<1> QED
  BY <1>1, <1>2

(* The whole invariant holds in every behaviour.                           *)
THEOREM Invariance == Spec => []Inv
BY InitPageInv, InitTruth, StepInv, PTL DEF Spec

-----------------------------------------------------------------------------
(* Types.                                                                  *)
THEOREM TypeCorrect == Spec => []TypeOK
BY Invariance, PTL

(* What is in the table is of the folder that the page names, what is      *)
(* selected is in the table, and a file is renamed in its own folder.      *)
THEOREM PathsAgreeHolds == Spec => []PathsAgree
BY Invariance, PTL DEF PathsAgree

(* The buttons match the selection, after any moves, dialogs and tables.   *)
THEOREM ButtonsMatchSelectionHolds == Spec => []ButtonsMatchSelection
BY Invariance, PTL

(* A page that is covered has an answer to come.                           *)
THEOREM CoveredAwaitsHolds == Spec => []CoveredAwaits
BY Invariance, PTL

(* When all is answered and the last change has not failed, the table is   *)
(* the folder, or empty if it was refused.                                 *)
THEOREM ListIsTrueHolds == Spec => []ListIsTrue
<1>1. Inv => ListIsTrue
  <2> SUFFICES ASSUME Inv, sent = << >>, answers = << >>, ~failed
               PROVE  rows = IF refused THEN {} ELSE In(root, disk)
    BY DEF ListIsTrue
  <2>1. DOMAIN sent = {} /\ DOMAIN answers = {}
    BY EmptySeq, LenProperties
  <2> QED
    BY <2>1 DEF TypeOK
<1> QED
  BY <1>1, Invariance, PTL

(* A modal dialog acts on what was selected when it was opened, or on      *)
(* less.                                                                   *)
Honest(r) == r.kind \in Dialog /\ r.kind = modal => r.files \subseteq chosen

ActsOnChosen(s, t) == \A i \in DOMAIN t \ DOMAIN s : Honest(t[i])

(* A request of a modal dialog names files that were chosen.               *)
LEMMA AppendedChosen ==
  ASSUME NEW s \in Seq(Request), NEW r \in Request, Honest(r)
  PROVE  ActsOnChosen(s, Append(s, r))
BY AppendFacts DEF ActsOnChosen

(* Every step sends only what was chosen.                                  *)
LEMMA StepChosen ==
  ASSUME TypeOK, DialogKeeps, NoMoveIsBare, Next
  PROVE  ActsOnChosen(sent, sent')
<1>1. sent \in Seq(Request)
  BY DEF TypeOK
<1>2. CASE OpenFolder
  BY <1>1, <1>2, AppendedChosen, ListIsRequest DEF OpenFolder, Send, Dialog, Honest
<1>3. CASE OpenDialog
  <2>1. UNCHANGED sent \/ sent' = Append(sent, [List(root, FALSE) EXCEPT !.kind = "get"])
    BY <1>3 DEF OpenDialog, Send
  <2>2. [List(root, FALSE) EXCEPT !.kind = "get"] \in Request
        /\ [List(root, FALSE) EXCEPT !.kind = "get"].kind \notin Dialog
    BY DEF List, Request, Dialog, TypeOK
  <2>3. UNCHANGED sent => ActsOnChosen(sent, sent')
    BY DEF ActsOnChosen
  <2> QED
    BY <1>1, <2>1, <2>2, <2>3, AppendedChosen DEF Honest
<1>4. CASE Confirm
  <2>1. PICK d \in Dialog, files \in SUBSET sel :
          Send([List(root, FALSE) EXCEPT !.kind = d, !.files = files])
    BY <1>4, ConfirmSends
  <2>2. [List(root, FALSE) EXCEPT !.kind = d, !.files = files] \in Request
    BY DEF List, Request, TypeOK
  <2>3. Honest([List(root, FALSE) EXCEPT !.kind = d, !.files = files])
    BY DEF List, Honest, Dialog
  <2> QED
    BY <1>1, <2>1, <2>2, <2>3, AppendedChosen DEF Send
<1>5. CASE FinishMove
  <2>1. sent' = Append(sent, [List(root, FALSE) EXCEPT !.kind = moving.op, !.files = moving.files])
    BY <1>5 DEF FinishMove, Send
  <2>2. [List(root, FALSE) EXCEPT !.kind = moving.op, !.files = moving.files] \in Request
        /\ [List(root, FALSE) EXCEPT !.kind = moving.op, !.files = moving.files].kind \in Move
    BY <1>5 DEF FinishMove, List, Request, TypeOK, NoMove
  <2>3. Move \cap Dialog = {}
    BY DEF Move, Dialog
  <2> QED
    BY <1>1, <2>1, <2>2, <2>3, AppendedChosen DEF Honest
<1>6. CASE Serve
  <2>1. PICK i \in DOMAIN sent : sent' = RemoveAt(sent, i)
    BY <1>6 DEF Serve
  <2> QED
    BY <1>1, <2>1, RemoveAtProperties DEF ActsOnChosen
<1>7. CASE DialogDone \/ MoveDone
  <2>1. UNCHANGED sent \/ sent' = Append(sent, List(root, FALSE))
    BY <1>7 DEF DialogDone, MoveDone, ReloadIf
  <2>2. List(root, FALSE) \in Request /\ List(root, FALSE).kind \notin Dialog
    BY DEF List, Request, TypeOK, Dialog
  <2>3. UNCHANGED sent => ActsOnChosen(sent, sent')
    BY DEF ActsOnChosen
  <2> QED
    BY <1>1, <2>1, <2>2, <2>3, AppendedChosen DEF Honest
<1>8. CASE Select \/ Escape \/ BeginMove \/ AbortMove \/ ShowList \/ ShowPermissions
  BY <1>8 DEF Select, Escape, BeginMove, AbortMove, ShowList, ShowPermissions, netVars,
              ActsOnChosen
<1> QED
  BY <1>2, <1>3, <1>4, <1>5, <1>6, <1>7, <1>8 DEF Next, Answer

(* Delete, rename and permissions act on files the user has chosen for     *)
(* them, whatever the page has loaded since, as long as the dialog is      *)
(* modal.                                                                  *)
THEOREM OnlyChosenHolds == Spec => OnlyChosen
<1>1. Inv /\ [Next]_vars =>
        [\A i \in DOMAIN sent' \ DOMAIN sent :
           LET r == sent'[i]
           IN  r.kind \in Dialog /\ r.kind = modal => r.files \subseteq chosen]_vars
  BY StepChosen DEF ActsOnChosen, Honest
<1> QED
  BY <1>1, Invariance, PTL DEF Spec, OnlyChosen
=============================================================================
