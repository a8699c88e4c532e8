---------------------------- MODULE DocumentShelf ----------------------------
(***************************************************************************)
(* One document of documents.service.ts: its versions, its publication and *)
(* its archive, and who finds it in which section of the list.             *)
(*                                                                         *)
(* Every change compares the version of the document when it reads it and  *)
(* then writes by id: only the index on the versions' numbers stops one of *)
(* two changes that overlap.  Left out: names, files (FileCustody), search *)
(* and order, and the number a document is given.                          *)
(***************************************************************************)
EXTENDS Naturals, Sequences

CONSTANTS
    Users, Slots, Idle,
    MaxRequests  \* bound on started requests

VARIABLES
    doc,     \* [owner, status, archived, current], current is a number of a version
    page,    \* the status of every DocumentVersion, by its number
    public,  \* confidentiality is GENERAL or INTERNAL
    acl,     \* users with a DocumentAcl entry
    near,    \* users whose allowed companies have the document's
    req, started, serial

shelf == <<doc, page, public, acl, near>>
vars  == <<shelf, req, started, serial>>

Free(s) ==
    /\ started < MaxRequests
    /\ serial => \A o \in Slots : req[o] = Idle
    /\ req[s] = Idle /\ s = CHOOSE o \in Slots : req[o] = Idle \* slots are alike
Start(s, op, n) == /\ started' = started + 1
                   /\ req' = [req EXCEPT ![s] = [op |-> op, n |-> n]]
                   /\ UNCHANGED <<shelf, serial>>
End(s)    == req' = [req EXCEPT ![s] = Idle] /\ UNCHANGED <<started, serial>>
At(s, op) == req[s] # Idle /\ req[s].op = op

\* create: the first version is a draft and current; its file need not be clean.
Init ==
    /\ \E u \in Users :
           doc = [owner |-> u, status |-> "DRAFT", archived |-> FALSE, current |-> 1]
    /\ page = <<"DRAFT">>
    /\ public \in BOOLEAN /\ acl \in SUBSET Users /\ near = Users
    /\ req = [s \in Slots |-> Idle] /\ started = 0 /\ serial \in BOOLEAN

\* A request keeps the number of the latest version it read.
BeginPublish(s) == ~doc.archived /\ doc.owner \in near /\ Start(s, "publish", Len(page))
M_CommitPublish(s) ==
    /\ At(s, "publish")
    /\ doc' = [doc EXCEPT !.status = "PUBLISHED", !.current = req[s].n]
    /\ End(s) /\ UNCHANGED <<page, public, acl, near>>
CommitPublish(s) ==
    /\ At(s, "publish")
    /\ doc' = [doc EXCEPT !.status = "PUBLISHED", !.current = req[s].n]
    /\ page' = [page EXCEPT ![req[s].n] = "PUBLISHED"]
    /\ End(s) /\ UNCHANGED <<public, acl, near>>

\* addVersion: the owner or an administrator; a number that is taken meanwhile
\* fails the transaction.
BeginAdd(s) == ~doc.archived /\ near # {} /\ Start(s, "add", Len(page) + 1)
M_Current(n) == 1
Current(n)   == n
CommitAdd(s) ==
    /\ At(s, "add") /\ req[s].n = Len(page) + 1
    /\ page' = Append(page, "DRAFT")
    /\ doc' = [doc EXCEPT !.status = "DRAFT", !.current = Current(req[s].n)]
    /\ End(s) /\ UNCHANGED <<public, acl, near>>
RefuseAdd(s) == /\ At(s, "add") /\ req[s].n <= Len(page)
                /\ End(s) /\ UNCHANGED shelf

\* archive and restore: anyone of the company.
BeginArchive(s)  == ~doc.archived /\ near # {} /\ Start(s, "archive", 0)
BeginRestore(s)  == doc.archived /\ near # {} /\ Start(s, "restore", 0)
CommitArchive(s) ==
    /\ At(s, "archive") \/ At(s, "restore")
    /\ doc' = [doc EXCEPT !.archived = req[s].op = "archive"]
    /\ End(s) /\ UNCHANGED <<page, public, acl, near>>

\* A deactivation hands the document over unless it is archived; users change company.
HandOver == \E u \in Users :
    /\ ~doc.archived /\ u # doc.owner
    /\ doc' = [doc EXCEPT !.owner = u]
    /\ UNCHANGED <<page, public, acl, near, req, started, serial>>
Move == \E u \in near :
    /\ near' = near \ {u}
    /\ UNCHANGED <<doc, page, public, acl, req, started, serial>>

Next ==
    \/ \E s \in Slots : Free(s) /\ (BeginPublish(s) \/ BeginAdd(s) \/ BeginArchive(s) \/ BeginRestore(s))
    \/ \E s \in Slots : CommitPublish(s) \/ CommitAdd(s) \/ RefuseAdd(s) \/ CommitArchive(s)
    \/ HandOver \/ Move
Spec == Init /\ [][Next]_vars

-----------------------------------------------------------------------------
Visible(u)  == doc.owner = u \/ public \/ u \in acl
M_Sections(u) == IF doc.archived THEN {"ARCHIVED"} ELSE {"ALL"}
Sections(u) == IF ~Visible(u) \/ u \notin near THEN {}
               ELSE IF doc.archived THEN {"ARCHIVED"}
               ELSE {"ALL"} \cup (IF doc.owner = u THEN {"MINE"} ELSE {"SHARED"})
                            \cup (IF doc.status = "DRAFT" THEN {"DRAFTS"} ELSE {})
Openable(u) == u \in near /\ Visible(u)

TypeOK ==
    /\ doc \in [owner : Users, status : {"DRAFT", "PUBLISHED"}, archived : BOOLEAN,
                current : 1 .. Len(page)]
    /\ page \in Seq({"DRAFT", "PUBLISHED"})
    /\ public \in BOOLEAN /\ acl \subseteq Users /\ near \subseteq Users

\* The document has the status of the version it points to, whatever overlaps.
CurrentAgrees == page[doc.current] = doc.status

\* Without overlap the document points to its latest version.  A publication
\* that overlaps a new version points back to the one before.
LatestIsCurrent == serial => doc.current = Len(page)

\* What a section shows can be opened, and the owner's documents are in no
\* other section of the kind.
SectionsFit == \A u \in Users :
    /\ Sections(u) # {} => Openable(u)
    /\ ~({"MINE", "SHARED"} \subseteq Sections(u))
=============================================================================
