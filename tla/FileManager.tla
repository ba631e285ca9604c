---------------------------- MODULE FileManager ----------------------------
(***************************************************************************)
(* The page of the file manager in one window: the table of a folder       *)
(* (_js/jquery.ui.filemanager.js), its toolbar, dialogs and requests       *)
(* (_js/filemanager.js), what covers the page while it waits               *)
(* (_js/jquery.ui.throbber.js and $.throbber, $.dialog of _js/main.js),    *)
(* and what the requests do (controllers/Filemanager.php).                 *)
(*                                                                         *)
(* The throbber keeps the mouse off the page and not the keyboard: buttons *)
(* are reached by Tab and pressed by Enter or Space, those of a dialog     *)
(* again and again; the Escape key closes a dialog, uncovers the page, and *)
(* leaves the request on its way.  The overlay of a modal dialog keeps     *)
(* both off whatever is behind it.  Rows and links take the mouse.         *)
(*                                                                         *)
(* A file is a folder and a name; a folder in a folder counts as a file.   *)
(* Downloads, uploads and albums open windows of their own or change no    *)
(* file, and are left out.  The requests of a session are served one at a  *)
(* time, in any order, and are answered in the order they were served;     *)
(* that each is answered is assumed, and that no other user changes files. *)
(***************************************************************************)
EXTENDS Naturals, FiniteSets, SequencesExt

CONSTANTS
  Folder,       \* the folders
  Home,         \* the one that the page shows first
  Name,         \* the names a file can have
  ReadOnly,     \* the folders that cannot be written
  Closed,       \* those that cannot be listed at times: they are gone, or
                \* the user may not read them
  Disks,        \* the sets of files that there can be at first
  MaxRequests,  \* bounds the requests on their way
  MaxOps        \* bounds the requests the user makes

Path == Folder \X Name
In(f, paths) == {p \in paths : p[1] = f}

ASSUME FileManagerAssumption ==
  /\ Home \in Folder
  /\ ReadOnly \subseteq Folder
  /\ Closed \subseteq Folder
  /\ Disks \subseteq SUBSET Path
  /\ MaxRequests \in Nat \ {0}
  /\ MaxOps \in Nat

VARIABLES
  disk,      \* the files there are
  root,      \* the folder the page shows
  rows,      \* the files in the table, by path
  sel,       \* those that are selected
  writable,  \* can the folder be written, as far as the page knows?
  readable,  \* can it be read? If not, the page says "Permission denied"
  offered,   \* the buttons that are not marked as disabled
  enabled,   \* the buttons that are enabled
  covered,   \* does the throbber cover the page?
  dialogs,   \* the open dialogs
  modal,     \* the one that the overlay belongs to
  moving,    \* the files to be moved or copied, once in the right folder
  sent,      \* the requests to be served
  answers,   \* the answers on their way
  chosen,    \* what was selected when that one was opened: history
  failed,    \* was the page told of a failure since it last got its table?
  refused,   \* was the last table that it asked for refused: history
  ops        \* how many requests the user has made

pageVars == <<root, rows, sel, writable, readable>>
barVars == <<offered, enabled>>
dialogVars == <<dialogs, modal, chosen>>
netVars == <<sent, answers>>
told == <<failed, refused>>
vars == <<disk, pageVars, barVars, covered, dialogVars, moving, netVars, told, ops>>

Dialog == {"mkdir", "rename", "perm", "delete"}
Move == {"move", "copy"}
Button == Dialog \cup Move \cup {"yes"}

(* tell: does the page look what the answer says of the folder?  ok and    *)
(* files in an answer: was all done, or the folder listed; and the table.  *)
Request == [kind : Dialog \cup Move \cup {"get", "list"}, files : SUBSET Path,
            to : Folder, tell : BOOLEAN, ok : BOOLEAN]

NoMove == [op |-> "none", files |-> {}]

TypeOK ==
  /\ disk \subseteq Path
  /\ root \in Folder
  /\ rows \subseteq Path
  /\ sel \subseteq Path
  /\ writable \in BOOLEAN
  /\ readable \in BOOLEAN
  /\ offered \subseteq Button
  /\ enabled \subseteq Button
  /\ covered \in BOOLEAN
  /\ dialogs \subseteq Dialog
  /\ modal \in Dialog \cup {"none"}
  /\ moving \in [op : Move \cup {"none"}, files : SUBSET Path]
  /\ sent \in Seq(Request)
  /\ answers \in Seq(Request)
  /\ chosen \subseteq Path
  /\ failed \in BOOLEAN
  /\ refused \in BOOLEAN
  /\ ops \in 0..MaxOps

List(f, tell) ==
  [kind |-> "list", files |-> {}, to |-> f, tell |-> tell, ok |-> TRUE]

(* What the answer says of the folder is not looked at for the first table *)
(* and for those after a change.                                           *)
Init ==
  /\ disk \in Disks
  /\ root = Home
  /\ rows = {}
  /\ sel = {}
  /\ writable = TRUE
  /\ readable = TRUE
  /\ offered = {"mkdir"}
  /\ enabled = {"mkdir"}
  /\ covered = TRUE
  /\ dialogs = {}
  /\ modal = "none"
  /\ moving = NoMove
  /\ sent = << List(root, FALSE) >>
  /\ answers = << >>
  /\ chosen = {}
  /\ failed = FALSE
  /\ refused = FALSE
  /\ ops = 0

-----------------------------------------------------------------------------
(* The toolbar after a look at the number of selected rows.                *)
States(count, w, readers) ==
  {b \in Button :
     /\ b \in {"delete", "copy", "move", "perm"} => count > 0
     /\ b = "rename" => count = 1
     /\ b # "copy" => w
     /\ b # "yes" => readers}

Update(count, w, readers) ==
  /\ offered' = States(count, w, readers)
  /\ enabled' = States(count, w, readers)

(* Mutant: what was disabled for a while is simply enabled.                *)
RestoreAll == enabled' = Button /\ UNCHANGED offered

(* The button that ends a move is not in the toolbar.                      *)
Restore ==
  /\ enabled' = (offered \ {"yes"}) \cup (enabled \cap {"yes"})
  /\ UNCHANGED offered

Room == Len(sent) + Len(answers) < MaxRequests

Send(r) ==
  /\ Room /\ ops < MaxOps
  /\ sent' = Append(sent, r)
  /\ covered' = TRUE
  /\ ops' = ops + 1

-----------------------------------------------------------------------------
(* What the user does: by a key on a button, or by the mouse.              *)
Keys == modal = "none"

(* Mutant: a dialog that is not modal.                                     *)
NotModal == ~covered

Mouse == Keys /\ ~covered

(* A click, with or without the shift or the control key.                  *)
Select ==
  /\ Mouse
  /\ \E s \in SUBSET rows : sel' = s /\ Update(Cardinality(s), writable, readable)
  /\ UNCHANGED <<disk, root, rows, writable, readable, covered, dialogVars, moving,
                 netVars, told, ops>>

(* By a link of the path, or by a row or the arrow up, which looks at the  *)
(* toolbar, too.                                                           *)
OpenFolder ==
  /\ Mouse
  /\ \E f \in Folder : Send(List(f, TRUE))
  /\ UNCHANGED barVars \/ Update(Cardinality(sel), writable, readable)
  /\ UNCHANGED <<disk, pageVars, dialogVars, moving, answers, told>>

(* The dialog of permissions asks for those of the files first.  Nothing   *)
(* happens to one that is open already.                                    *)
OpenDialog ==
  /\ Keys
  /\ \E d \in (Dialog \cap enabled) \ dialogs :
       /\ dialogs' = dialogs \cup {d}
       /\ modal' = d
       /\ IF d = "perm"
            THEN Send([List(root, FALSE) EXCEPT !.kind = "get"])
            ELSE UNCHANGED <<sent, covered, ops>>
  /\ chosen' = sel
  /\ UNCHANGED <<disk, pageVars, barVars, moving, answers, told>>

(* Mutant: a closed dialog is not the same as none.                        *)
MarkClosed(d) ==
  /\ dialogs' = (dialogs \ {d}) \cup {"closed"}
  /\ modal' = "none"
  /\ chosen' = {}

(* close() does not ask whether the dialog is open.  There is one overlay, *)
(* which is put away and taken again by the next dialog: it goes whichever *)
(* dialog is closed, and leaves the page free under another that is open.  *)
CloseDialog(d) ==
  /\ dialogs' = dialogs \ {d}
  /\ modal' = "none"
  /\ chosen' = {}

Reachable == IF modal = "none" THEN dialogs ELSE dialogs \cap {modal}

(* The Escape key, or the button in the title.                             *)
Escape ==
  /\ \E d \in Reachable : CloseDialog(d)
  /\ covered' = FALSE
  /\ UNCHANGED <<disk, pageVars, barVars, moving, netVars, told, ops>>

(* The button of a dialog, or the Enter key in the field for a name; also  *)
(* again, while the request is on its way.  The files are those that are   *)
(* selected now; with none, a request without any is sent.                 *)
Confirm ==
  /\ \E d \in Reachable :
       \E files \in IF d = "mkdir" THEN {{}}
                   ELSE IF d = "rename" /\ sel # {} THEN {{p} : p \in sel}
                   ELSE {sel} :
         Send([List(root, FALSE) EXCEPT !.kind = d, !.files = files])
  /\ UNCHANGED <<disk, pageVars, barVars, dialogVars, moving, answers, told>>

(* The toolbar is disabled until the move is through, or until the next    *)
(* click on a row; a move that is begun takes the place of another.        *)
BeginMove ==
  /\ Keys
  /\ \E op \in Move \cap enabled : moving' = [op |-> op, files |-> sel]
  /\ enabled' = {"yes"}
  /\ UNCHANGED <<disk, pageVars, offered, covered, dialogVars, netVars, told, ops>>

(* Its buttons fade out, and take a key until they are gone.               *)
Fade == moving' \in {moving, NoMove}

AbortMove ==
  /\ Keys /\ moving # NoMove
  /\ Fade
  /\ Restore
  /\ UNCHANGED <<disk, pageVars, covered, dialogVars, netVars, told, ops>>

(* Into the folder the page shows.                                         *)
FinishMove ==
  /\ Keys /\ moving # NoMove /\ "yes" \in enabled
  /\ Send([List(root, FALSE) EXCEPT !.kind = moving.op, !.files = moving.files])
  /\ Fade
  /\ UNCHANGED <<disk, pageVars, barVars, dialogVars, answers, told>>

-----------------------------------------------------------------------------
(* The server.  Of several files, some may fail; what was moved or copied  *)
(* is reported as failed if it then cannot be given its owner.             *)
Landed(r, done) == {<<r.to, p[2]>> : p \in done}

(* The name that the user has given is chosen here.  If it is that of a    *)
(* folder, the file moves into it.                                         *)
Renamed(r, d) ==
  /\ r.files \cap disk # {}
  /\ \/ \E p \in In(r.to, Path \ r.files) : d = (disk \ r.files) \cup {p}
     \/ /\ In(r.to, disk \ r.files) # {}
        /\ \/ d = disk \ r.files
           \/ \E f \in Folder \ {r.to} :
                d = (disk \ r.files) \cup Landed([r EXCEPT !.to = f], r.files)

Effect(r, d, ok) ==
  \/ /\ r.kind = "get" /\ d = disk /\ ok
  \/ /\ r.kind = "perm" /\ d = disk /\ ok \in BOOLEAN
  \/ /\ r.kind = "mkdir"
     /\ \/ ~ok /\ d = disk
        \/ ok /\ \E p \in In(r.to, Path \ disk) : d = disk \cup {p}
  \/ /\ r.kind = "rename"
     /\ \/ ~ok /\ d = disk
        \/ ok \in BOOLEAN /\ Renamed(r, d)
  \/ /\ r.kind = "delete"
     /\ \E done \in SUBSET r.files :
          ok = (done = r.files /\ r.files # {}) /\ d = disk \ done
  \/ /\ r.kind \in Move
     /\ \E done \in SUBSET {p \in r.files \cap disk : p[1] # r.to} :
          /\ ok => done = r.files /\ r.files # {}
          /\ d = IF r.kind = "move" THEN (disk \ done) \cup Landed(r, done)
                                  ELSE disk \cup Landed(r, done)

(* The answer to a list that is denied has no rows.                        *)
Listed(r) ==
  {[r EXCEPT !.files = In(r.to, disk), !.ok = TRUE]}
    \cup IF r.to \in Closed THEN {[r EXCEPT !.files = {}, !.ok = FALSE]} ELSE {}

Serve ==
  \E i \in DOMAIN sent :
    /\ sent' = RemoveAt(sent, i)
    /\ IF sent[i].kind = "list"
         THEN /\ \E a \in Listed(sent[i]) : answers' = Append(answers, a)
              /\ UNCHANGED disk
         ELSE \E d \in SUBSET Path, ok \in BOOLEAN :
                /\ Effect(sent[i], d, ok)
                /\ disk' = d
                /\ answers' = Append(answers, [sent[i] EXCEPT !.ok = ok])
    /\ UNCHANGED <<pageVars, barVars, covered, dialogVars, moving, told, ops>>

-----------------------------------------------------------------------------
(* The callbacks.                                                          *)
Answered(kinds) ==
  /\ answers # << >> /\ Head(answers).kind \in kinds
  /\ answers' = Tail(answers)

(* Mutant: what was selected stays so in a new table.                      *)
ShowRows ==
  LET r == Head(answers)
  IN  /\ Answered({"list"})
      /\ root' = r.to
      /\ rows' = r.files
      /\ covered' = FALSE
      /\ failed' = FALSE
      /\ refused' = ~r.ok
      /\ UNCHANGED <<disk, sel, writable, readable, barVars, dialogVars, moving, sent, ops>>

(* The folder, its rows and the toolbar change together; that a list was   *)
(* denied is seen where the user has opened a folder, and nowhere else.    *)
ShowList ==
  LET r == Head(answers)
      w == IF r.tell THEN r.ok /\ r.to \notin ReadOnly ELSE writable
      readers == IF r.tell THEN r.ok ELSE readable
  IN  /\ Answered({"list"})
      /\ root' = r.to
      /\ rows' = r.files
      /\ sel' = {}
      /\ writable' = w
      /\ readable' = readers
      /\ Update(0, w, readers)
      /\ covered' = FALSE
      /\ failed' = FALSE
      /\ refused' = ~r.ok
      /\ UNCHANGED <<disk, dialogVars, moving, sent, ops>>

(* Mutant: the throbber is not hidden when the permissions are there.      *)
LeaveCovered ==
  /\ Answered({"get"})
  /\ UNCHANGED <<disk, pageVars, barVars, covered, dialogVars, moving, sent, told, ops>>

ShowPermissions ==
  /\ Answered({"get"})
  /\ covered' = FALSE
  /\ UNCHANGED <<disk, pageVars, barVars, dialogVars, moving, sent, told, ops>>

(* Mutant: the table is left as it was.                                    *)
NoReload(ok) == covered' = FALSE /\ failed' = ~ok /\ UNCHANGED sent

(* After a success the table is asked for again.                           *)
ReloadIf(ok) ==
  IF ok THEN /\ sent' = Append(sent, List(root, FALSE))
             /\ covered' = TRUE
             /\ UNCHANGED failed
        ELSE /\ covered' = FALSE
             /\ failed' = TRUE
             /\ UNCHANGED sent

(* The dialog that has asked is closed, although the user may have closed  *)
(* it and opened another since.                                            *)
DialogDone ==
  /\ Answered(Dialog)
  /\ CloseDialog(Head(answers).kind)
  /\ ReloadIf(Head(answers).ok)
  /\ UNCHANGED <<disk, pageVars, barVars, moving, refused, ops>>

MoveDone ==
  /\ Answered(Move)
  /\ Restore
  /\ ReloadIf(Head(answers).ok)
  /\ UNCHANGED <<disk, pageVars, dialogVars, moving, refused, ops>>

Answer == ShowList \/ ShowPermissions \/ DialogDone \/ MoveDone

Next ==
  \/ Select \/ OpenFolder \/ OpenDialog \/ Escape \/ Confirm
  \/ BeginMove \/ AbortMove \/ FinishMove
  \/ Serve \/ Answer

Spec == Init /\ [][Next]_vars

(* The server answers; the user may stop at any time.                      *)
FairSpec == Spec /\ WF_vars(Serve) /\ WF_vars(Answer)

-----------------------------------------------------------------------------
(* A path in the table is one of the folder that the page names, which is  *)
(* where new folders, renamed and moved files go; nothing is selected that *)
(* is not in the table.                                                    *)
RowsAreOfRoot == sel \subseteq rows /\ In(root, rows) = rows

(* A file is given its new name in the folder that it is in, although its  *)
(* path and the folder are two data of the request, read when the dialog   *)
(* is confirmed.                                                           *)
RenameStays ==
  \A i \in DOMAIN sent :
    sent[i].kind = "rename" => In(sent[i].to, sent[i].files) = sent[i].files

(* What is on the page and what it has asked for name the same folder.     *)
PathsAgree == RowsAreOfRoot /\ RenameStays

(* What a dialog is confirmed for was selected when it was opened, though  *)
(* the selection is looked up again, keys go through the throbber, and     *)
(* tables and answers to other dialogs arrive in the meantime.  Not if the *)
(* dialog has lost its overlay to one that was closed before: the rows     *)
(* under it can then be clicked.                                           *)
OnlyChosen ==
  [][\A i \in DOMAIN sent' \ DOMAIN sent :
       LET r == sent'[i]
       IN  r.kind \in Dialog /\ r.kind = modal => r.files \subseteq chosen]_vars

(* A button for one file, or for files, works only with as many selected,  *)
(* although it is disabled and enabled again for moves and tables.         *)
ButtonsMatchSelection ==
  /\ "rename" \in enabled => Cardinality(sel) = 1
  /\ enabled \cap {"delete", "copy", "move", "perm"} # {} => sel # {}

(* The page is not covered when nothing that could uncover it will come.   *)
CoveredAwaits == covered => sent # << >> \/ answers # << >>

(* The page does not stay covered.                                         *)
Uncovered == covered ~> ~covered

(* When nothing is on its way and the last change has not failed, the      *)
(* table shows the folder as it is; or nothing, if it was refused.         *)
ListIsTrue ==
  sent = << >> /\ answers = << >> /\ ~failed
  => rows = IF refused THEN {} ELSE In(root, disk)
=============================================================================
