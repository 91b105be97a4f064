------------------------------ MODULE SvnList ------------------------------
(***************************************************************************)
(* list_files of worker.rs: the reader that turns the XML of svn list into *)
(* the files of a package.  It is a loop over the events of quick_xml with *)
(* ten locals that outlive an event: whether it is inside an entry of kind *)
(* file, inside which element, and the five fields found so far.           *)
(*                                                                         *)
(* Texts are compared by nothing but their origin, so the text of element  *)
(* f of the n-th entry is the pair <<n, f>>, and the line break svn prints *)
(* between two elements is <<n, "blank">>.                                 *)
(***************************************************************************)
EXTENDS Naturals, Sequences

CONSTANTS
  MaxEntries,   \* bound on the entries svn lists
  None          \* a local that is None

Element == {"name", "size", "author", "date"}      \* elements with a text
Field   == Element \cup {"revision"}               \* ... an attribute of commit
Text    == Nat \X (Field \cup {"blank"})
Entry   == [kind : {"file", "dir"}, given : SUBSET Field]
File    == [Field -> Text]

ASSUME SvnListAssumption == MaxEntries \in Nat /\ None \notin Text

VARIABLES
  listed,         \* what svn has written: the kind and fields of each entry
  entry_kind,     \* the kind of the entry it is writing, "" between entries
  given,          \* the fields that entry has so far
  open,           \* the element it is in, "" between elements
  in_file_entry,  \* the locals of list_files
  in_element,     \* in_name, in_author, in_date and in_size, those that are set
  fields,         \* name, size, revision, author and date
  found,          \* files
  outcome         \* "reading", or what list_files ended with

svn   == <<listed, entry_kind, given, open>>
local == <<in_file_entry, in_element, fields, found>>
svnVars == <<svn, local, outcome>>

NoFields == [f \in Field |-> None]

SvnTypeOK ==
  /\ listed \in Seq(Entry)
  /\ entry_kind \in {"", "file", "dir"} /\ given \subseteq Field
  /\ open \in Element \cup {""}
  /\ in_file_entry \in BOOLEAN /\ in_element \subseteq Element
  /\ fields \in [Field -> Text \cup {None}]
  /\ found \in Seq(File)
  /\ outcome \in {"reading", "ok", "err", "panic"}

SvnInit ==
  /\ listed = <<>> /\ entry_kind = "" /\ given = {} /\ open = ""
  /\ in_file_entry = FALSE /\ in_element = {} /\ fields = NoFields
  /\ found = <<>> /\ outcome = "reading"

-----------------------------------------------------------------------------

Current == Len(listed) + 1

(* svn fails or cannot be run.                                             *)
SvnFails ==
  /\ outcome = "reading" /\ listed = <<>> /\ entry_kind = ""
  /\ outcome' = "err"
  /\ UNCHANGED <<svn, local>>

(* <entry kind="k">: the locals of the entry before are not touched.       *)
StartEntry(k) ==
  /\ outcome = "reading" /\ entry_kind = "" /\ Len(listed) < MaxEntries
  /\ entry_kind' = k /\ given' = {}
  /\ in_file_entry' = (k = "file")
  /\ UNCHANGED <<listed, open, in_element, fields, found, outcome>>

(* A field that cannot be decoded or parsed ends the listing by `?'.       *)
Assign(f, text) ==
  \/ fields' = [fields EXCEPT ![f] = text] /\ UNCHANGED outcome
  \/ outcome' = "err" /\ UNCHANGED fields

(* <commit revision="...">.                                                *)
StartCommit ==
  /\ outcome = "reading" /\ entry_kind # "" /\ open = "" /\ "revision" \notin given
  /\ given' = given \cup {"revision"}
  /\ IF in_file_entry THEN Assign("revision", <<Current, "revision">>)
     ELSE UNCHANGED <<fields, outcome>>
  /\ UNCHANGED <<listed, entry_kind, open, in_file_entry, in_element, found>>

StartElement(f) ==
  /\ outcome = "reading" /\ entry_kind # "" /\ open = "" /\ f \notin given
  /\ open' = f
  /\ in_element' = IF in_file_entry THEN in_element \cup {f} ELSE in_element
  /\ UNCHANGED <<listed, entry_kind, given, in_file_entry, fields, found, outcome>>

(* A text event: an element's own, which may be missing, or a blank.       *)
ReadText ==
  LET text == <<Current, IF open = "" THEN "blank" ELSE open>> IN
  /\ outcome = "reading" /\ entry_kind # "" /\ open \notin given
  /\ given' = IF open = "" THEN given ELSE given \cup {open}
  /\ IF in_element = {} THEN UNCHANGED <<fields, outcome>>
     ELSE \E f \in in_element : Assign(f, text)
  /\ UNCHANGED <<listed, entry_kind, open, in_file_entry, in_element, found>>

(* The end of an element; KeepElement would leave its flag set.            *)
KeepElement  == in_element
LeaveElement == in_element \ {open}

EndElement ==
  /\ outcome = "reading" /\ open # ""
  /\ open' = ""
  /\ in_element' = LeaveElement
  /\ UNCHANGED <<listed, entry_kind, given, in_file_entry, fields, found, outcome>>

(* An entry all of whose fields were found; Partial would take any.        *)
Partial  == TRUE
Complete == \A f \in Field : fields[f] # None

(* What the locals are after an entry; KeepRevision would forget a reset.  *)
KeepRevision == [NoFields EXCEPT !["revision"] = fields["revision"]]
ResetFields  == NoFields

(* </entry>: a file entry with all five fields is a file of the listing,   *)
(* any other is logged or ignored.                                         *)
EndEntry ==
  /\ outcome = "reading" /\ entry_kind # "" /\ open = ""
  /\ listed' = Append(listed, [kind |-> entry_kind, given |-> given])
  /\ entry_kind' = "" /\ given' = {}
  /\ found' = IF in_file_entry /\ Complete
                THEN Append(found, fields) ELSE found
  /\ in_file_entry' = FALSE
  /\ fields' = ResetFields
  /\ UNCHANGED <<open, in_element, outcome>>

Eof ==
  /\ outcome = "reading" /\ entry_kind = ""
  /\ outcome' = "ok"
  /\ UNCHANGED <<svn, local>>

(* Output that is not XML panics the task that reads it.                   *)
SvnXmlError ==
  /\ outcome = "reading"
  /\ outcome' = "panic"
  /\ UNCHANGED <<svn, local>>

SvnNext ==
  \/ SvnFails
  \/ \E k \in {"file", "dir"} : StartEntry(k)
  \/ StartCommit
  \/ \E f \in Element : StartElement(f)
  \/ ReadText \/ EndElement \/ EndEntry \/ Eof \/ SvnXmlError

SvnSpec == SvnInit /\ [][SvnNext]_svnVars

-----------------------------------------------------------------------------

Whole(n) == listed[n].kind = "file" /\ listed[n].given = Field

FileOf(n) == [f \in Field |-> <<n, f>>]

(* The listing is exactly the complete file entries of svn's output, in    *)
(* their order and each with its own five values: no value of an entry     *)
(* that was dropped, of a directory or of another element is in it.        *)
FilesAreWhole ==
  /\ \A i \in DOMAIN found : \E n \in DOMAIN listed : Whole(n) /\ found[i] = FileOf(n)
  /\ \A n \in DOMAIN listed : Whole(n) => \E i \in DOMAIN found : found[i] = FileOf(n)
  /\ \A i, j \in DOMAIN found : i < j => found[i]["name"][1] < found[j]["name"][1]

(* The flags are a picture of where the reader is, and the five locals of  *)
(* what the current entry has given so far: nothing of it when the entry is*)
(* no file, and nothing at all between two entries.                        *)
LocalsFollowEntry ==
  /\ in_file_entry <=> entry_kind = "file"
  /\ entry_kind = "" => open = "" /\ given = {}
  /\ in_element = IF in_file_entry /\ open # "" THEN {open} ELSE {}
  /\ outcome = "reading" =>
       fields = [f \in Field |-> IF in_file_entry /\ f \in given
                                 THEN <<Current, f>> ELSE None]

(* The inductive invariant.                                                *)
SvnInv == SvnTypeOK /\ LocalsFollowEntry /\ FilesAreWhole
=============================================================================
