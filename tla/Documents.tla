----------------------------- MODULE Documents -----------------------------
(***************************************************************************)
(* Uploaded documents and the files behind them: the upload, verify,       *)
(* archive and delete handlers of src/controllers/document.controller.ts   *)
(* (those of vehicles, service records and centers do the same), with      *)
(* src/services/document.service.ts and src/services/storage.service.ts.   *)
(* A file's name is drawn at random, so each document has a file of its    *)
(* own, named here by the document.                                        *)
(***************************************************************************)
EXTENDS Integers, FiniteSets

CONSTANTS
  Docs,      \* documents that may be uploaded
  Requests,  \* slots for concurrent requests
  None

DocumentConstants == None \notin Docs

VARIABLES
  rows,   \* the documents of the collection
  files,  \* those whose file is stored
  req     \* the requests in progress

vars == <<rows, files, req>>

-----------------------------------------------------------------------------
(* Types *)

Document ==
  [at : {"absent", "there"}, isDeleted : BOOLEAN, isVerified : BOOLEAN,
   status : {"active", "archived", "deleted"}]

Request ==
  [pc : {"idle", "create", "verify", "archive", "delete", "softDelete", "deleteFile"},
   doc : Docs \cup {None}, held : Document]

NoDocument == [at |-> "absent", isDeleted |-> FALSE, isVerified |-> FALSE, status |-> "active"]
Idle == [pc |-> "idle", doc |-> None, held |-> NoDocument]

TypeOK ==
  /\ rows \in [Docs -> Document]
  /\ files \subseteq Docs
  /\ req \in [Requests -> Request]

-----------------------------------------------------------------------------
(* upload() *)

SaveFile(q, d) ==
  /\ req[q].pc = "idle" /\ rows[d].at = "absent" /\ d \notin files
  /\ files' = files \cup {d}
  /\ req' = [req EXCEPT ![q] = [Idle EXCEPT !.pc = "create", !.doc = d]]
  /\ UNCHANGED rows

Create(q) ==
  /\ req[q].pc = "create"
  /\ rows' = [rows EXCEPT ![req[q].doc] = [NoDocument EXCEPT !.at = "there"]]
  /\ req' = [req EXCEPT ![q] = Idle]
  /\ UNCHANGED files

-----------------------------------------------------------------------------
(* verify(), archive() and the soft delete load the document, whether or   *)
(* not it is deleted, and save what they change of it.                     *)

Load(q, d, what) ==
  /\ req[q].pc = "idle" /\ rows[d].at = "there"
  /\ req' = [req EXCEPT ![q] = [pc |-> what, doc |-> d, held |-> rows[d]]]
  /\ UNCHANGED <<rows, files>>

(* Mutant of SaveVerified: the whole copy is written back. *)
SaveWholeCopy(q) ==
  /\ req[q].pc = "verify"
  /\ rows' = [rows EXCEPT ![req[q].doc] = [req[q].held EXCEPT !.isVerified = TRUE]]
  /\ req' = [req EXCEPT ![q] = Idle]
  /\ UNCHANGED files

SaveVerified(q) ==
  /\ req[q].pc = "verify"
  /\ rows' = [rows EXCEPT ![req[q].doc].isVerified = TRUE]
  /\ req' = [req EXCEPT ![q] = Idle]
  /\ UNCHANGED files

(* A status that was archived when it was loaded is not written again. *)
SaveArchived(q) ==
  LET d == req[q].doc
  IN  /\ req[q].pc = "archive"
      /\ rows' = IF req[q].held.status = "archived" THEN rows
                 ELSE [rows EXCEPT ![d].status = "archived"]
      /\ req' = [req EXCEPT ![q] = Idle]
      /\ UNCHANGED files

(* Mutant of Reload: the file goes before the document does. *)
DeleteFileFirst(q) ==
  /\ req[q].pc = "delete"
  /\ files' = files \ {req[q].doc}
  /\ req' = [req EXCEPT ![q] = [@ EXCEPT !.pc = "softDelete", !.held = rows[req[q].doc]]]
  /\ UNCHANGED rows

(* delete(): the controller's own load comes first, for the file's name. *)
Reload(q) ==
  /\ req[q].pc = "delete"
  /\ req' = [req EXCEPT ![q] = [@ EXCEPT !.pc = "softDelete", !.held = rows[req[q].doc]]]
  /\ UNCHANGED <<rows, files>>

SoftDelete(q) ==
  LET d == req[q].doc
  IN  /\ req[q].pc = "softDelete"
      /\ rows' = [rows EXCEPT ![d].isDeleted = TRUE,
                              ![d].status = IF req[q].held.status = "deleted" THEN @ ELSE "deleted"]
      /\ req' = [req EXCEPT ![q].pc = "deleteFile"]
      /\ UNCHANGED files

(* A file that cannot be removed stays, and nobody hears of it. *)
DeleteFile(q) ==
  /\ req[q].pc = "deleteFile"
  /\ files' \in {files, files \ {req[q].doc}}
  /\ req' = [req EXCEPT ![q] = Idle]
  /\ UNCHANGED rows

(* A call rejects, or the process dies: a file may stay without a document. *)
Abort(q) ==
  /\ req[q].pc # "idle"
  /\ req' = [req EXCEPT ![q] = Idle]
  /\ UNCHANGED <<rows, files>>

-----------------------------------------------------------------------------
Init ==
  /\ rows = [d \in Docs |-> NoDocument]
  /\ files = {}
  /\ req = [q \in Requests |-> Idle]

Next ==
  \E q \in Requests :
    \/ \E d \in Docs : SaveFile(q, d)
    \/ Create(q)
    \/ \E d \in Docs, what \in {"verify", "archive", "delete"} : Load(q, d, what)
    \/ SaveVerified(q) \/ SaveArchived(q)
    \/ Reload(q) \/ SoftDelete(q) \/ DeleteFile(q)
    \/ Abort(q)

Spec == Init /\ [][Next]_vars

-----------------------------------------------------------------------------
(* Properties *)

(* A document that is not deleted has its file in storage, whatever stops  *)
(* half-way and whatever else is saved while it is being deleted (upload   *)
(* stores the file first, delete removes it last).                         *)
LiveHasFile ==
  \A d \in Docs : rows[d].at = "there" /\ ~rows[d].isDeleted => d \in files
=============================================================================
