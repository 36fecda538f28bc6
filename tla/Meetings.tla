------------------------------- MODULE Meetings -------------------------------
(***************************************************************************)
(* Meeting records: governing bodies, their meetings, the agenda items of  *)
(* a meeting, and the attachments and video embeds ("media") of a meeting  *)
(* or of an agenda item.  Every row but a body has one parent; rows are    *)
(* soft-deleted, and a parent's deletion is cascaded by the service.       *)
(*                                                                         *)
(* A request reads in one step and writes in a later one, as its handler   *)
(* does in one READ COMMITTED transaction; between the two, others commit. *)
(***************************************************************************)
EXTENDS Integers, FiniteSets, Sequences, SequencesExt

CONSTANTS None,        \* no row, no user
          Bodies, Meetings,
          Items,       \* agenda items: integers, in the order of their primary keys
          Attachments, \* media with a stored file
          Embeds,      \* media without one
          Trees,       \* bound on the rows, and authors of meetings, that come together
          Admins, Contributors,
          Requests,    \* bounds the requests under way at the same time
          Orders       \* display orders that a client asks for

(* Agenda items are identified by number; no row is of two kinds.          *)
MeetingsAssumption ==
  /\ Items \subseteq Int /\ IsFiniteSet(Items)
  /\ None \notin Bodies \cup Meetings \cup Items \cup Attachments \cup Embeds
  /\ Bodies \cap (Meetings \cup Items \cup Attachments \cup Embeds) = {}
  /\ Meetings \cap (Items \cup Attachments \cup Embeds) = {}
  /\ Items \cap (Attachments \cup Embeds) = {}
  /\ Attachments \cap Embeds = {}

Media   == Attachments \cup Embeds
Rows    == Bodies \cup Meetings \cup Items \cup Media
Editors == Admins \cup Contributors
Gap     == 10

VARIABLES
  row,      \* [state, parent] of every row
  approval, \* per meeting: [status, by, reason, submitter, editor]
  order,    \* agenda_items.display_order
  files,    \* attachments whose file is stored
  req,      \* what each request has read and will write
  raced     \* history: rows created while a deletion above them was under way

vars == <<row, approval, order, files, req, raced>>

Idle        == [op |-> "idle"]
Active(n)   == row[n].state = "active"
Children(p) == {n \in Rows : row[n] = [state |-> "active", parent |-> p]}
Parent(p)   == IF p = None THEN {} ELSE {row[p].parent}
NoMeeting   == [status |-> "none", by |-> None, reason |-> FALSE,
                submitter |-> None, editor |-> None]

Init == /\ row = [n \in Rows |-> [state |-> "none", parent |-> None]]
        /\ approval = [m \in Meetings |-> NoMeeting]
        /\ order = [i \in Items |-> 0]
        /\ files = {}
        /\ req = [r \in Requests |-> Idle]
        /\ raced = {}

(* The rows whose creation overlaps the deletion of a row above them.      *)
Creates(q)  == q.op \in {"upload", "create"}
NewRow(c, p, u, o) == [op |-> "create", child |-> c, parent |-> p, user |-> u, order |-> o]
Races(q) ==
  LET others == {req[s] : s \in Requests}
  IN {c.child : c \in {c \in others \cup {q} :
        Creates(c) /\ \E d \in others \cup {q} :
                         d.op = "delete" /\ d.target \in {c.parent} \cup Parent(c.parent)}}

Read(r, q) == /\ req[r] = Idle
              /\ req' = [req EXCEPT ![r] = q]
              /\ raced' = raced \cup Races(q)
              /\ UNCHANGED <<row, approval, order, files>>

Done(r) == req' = [req EXCEPT ![r] = Idle] /\ UNCHANGED raced

(* The client went away, the commit failed, or the process died.           *)
Abort(r) == /\ req[r] # Idle /\ Done(r)
            /\ UNCHANGED <<row, approval, order, files>>

Begun(n)    == row[n].state # "none" \/ \E s \in Requests : Creates(req[s]) /\ req[s].child = n
Together    == {n \in Rows : Begun(n)} \cup files \cup raced
               \cup ({approval[m].submitter : m \in Meetings} \ {None})
Bounded(by) == \E t \in Trees : by \cup Together \subseteq t
Unborn(n)   == ~Begun(n) /\ Bounded({n})

-----------------------------------------------------------------------------
(* Creation: the parent must be there when it is read; a body has none.    *)
CreateBody(r, b) ==
  /\ Unborn(b)
  /\ Read(r, NewRow(b, None, None, 0))

CreateMeeting(r, u, m, b) ==
  /\ Unborn(m) /\ Active(b) /\ Bounded({m, u})
  /\ Read(r, NewRow(m, b, u, 0))

(* An agenda item goes where the client says, or a gap after the last one. *)
CreateItem(r, i, m) ==
  /\ Unborn(i) /\ Active(m)
  /\ LET taken == {order[k] : k \in Children(m) \cap Items}
         last  == CHOOSE x \in taken \cup {0} : \A y \in taken : y <= x
     IN \E o \in Orders \cup {last + Gap} :
          Read(r, NewRow(i, m, None, o))

(* The file of an attachment is stored before the row is written.          *)
UploadAttachment(r, a, p) ==
  /\ Unborn(a) /\ Active(p)
  /\ Read(r, [NewRow(a, p, None, 0) EXCEPT !.op = "upload"])

(* Wrong variant: the row is committed, and then the file stored.          *)
SaveFileLater(r) == /\ req[r].op = "upload"
                    /\ req' = [req EXCEPT ![r].op = "create"]
                    /\ UNCHANGED <<row, approval, order, files, raced>>

SaveFile(r) == /\ req[r].op = "upload"
               /\ files' = files \cup {req[r].child}
               /\ req' = [req EXCEPT ![r].op = "create"]
               /\ UNCHANGED <<row, approval, order, raced>>

CreateEmbed(r, e, p) ==
  /\ Unborn(e) /\ Active(p)
  /\ Read(r, NewRow(e, p, None, 0))

(* Two active items of a meeting never have the same order: the commit     *)
(* fails instead.                                                          *)
OrderTaken(i, m, o) == \E k \in Children(m) \cap Items : k # i /\ order[k] = o

Insert(r) ==
  LET q == req[r] IN
  /\ q.op = "create"
  /\ q.child \in Items => ~OrderTaken(q.child, q.parent, q.order)
  /\ row' = [row EXCEPT ![q.child] = [state |-> "active", parent |-> q.parent]]
  /\ order' = IF q.child \in Items THEN [order EXCEPT ![q.child] = q.order] ELSE order
  /\ approval' = IF q.child \notin Meetings THEN approval ELSE
       [approval EXCEPT ![q.child] =
          [NoMeeting EXCEPT !.status = IF q.user \in Admins THEN "approved" ELSE "pending",
                            !.submitter = q.user, !.editor = q.user]]
  /\ Done(r) /\ UNCHANGED files

-----------------------------------------------------------------------------
(* Changes of a meeting.                                                   *)

Visible(m, u) == Active(m) /\ (u \in Admins \/ approval[m].status = "approved"
                                            \/ approval[m].submitter = u)

(* The author or an administrator edits a meeting.                         *)
UpdateMeeting(r, u, m) ==
  /\ Visible(m, u) /\ (u \in Admins \/ approval[m].submitter = u)
  /\ Read(r, [op |-> "edit", meeting |-> m, user |-> u])

Edit(r) == /\ req[r].op = "edit"
           /\ approval' = [approval EXCEPT ![req[r].meeting].editor = req[r].user]
           /\ Done(r) /\ UNCHANGED <<row, order, files>>

Pending(m) == Active(m) /\ approval[m].status = "pending"

ApproveMeeting(r, u, m) == Pending(m) /\ Read(r, [op |-> "approve", meeting |-> m, user |-> u])
RejectMeeting(r, u, m)  == Pending(m) /\ Read(r, [op |-> "reject", meeting |-> m, user |-> u])

(* Only the columns that changed since the read are written: an approval   *)
(* does not clear the reason that a concurrent rejection has just given.   *)
Approve(r) == /\ req[r].op = "approve"
              /\ LET m == req[r].meeting IN
                 approval' = [approval EXCEPT ![m].status = "approved", ![m].by = req[r].user]
              /\ Done(r) /\ UNCHANGED <<row, order, files>>

(* Wrong variant: the reason is written by a later request.                *)
RejectUnexplained(r) ==
  /\ req[r].op = "reject"
  /\ LET m == req[r].meeting IN
     approval' = [approval EXCEPT ![m].status = "rejected", ![m].by = req[r].user]
  /\ Done(r) /\ UNCHANGED <<row, order, files>>

Reject(r) == /\ req[r].op = "reject"
             /\ LET m == req[r].meeting IN
                approval' = [approval EXCEPT ![m].status = "rejected", ![m].by = req[r].user,
                                             ![m].reason = TRUE]
             /\ Done(r) /\ UNCHANGED <<row, order, files>>

-----------------------------------------------------------------------------
(* Reordering an agenda: the client names every active item once, in the   *)
(* order it wants.                                                         *)
ReorderItems(r, m, wanted) ==
  /\ Active(m)
  /\ \A j, k \in DOMAIN wanted : wanted[j] = wanted[k] => j = k
  /\ ToSet(wanted) = Children(m) \cap Items
  /\ LET target == [i \in Items |-> IF i \in ToSet(wanted)
                                      THEN Gap * (CHOOSE k \in DOMAIN wanted : wanted[k] = i)
                                      ELSE order[i]]
     IN Read(r, [op |-> "reorder", meeting |-> m, wanted |-> wanted, target |-> target,
                 changed |-> {i \in ToSet(wanted) : order[i] # target[i]},
                 read |-> order])

(* The changed rows are updated one after the other, by primary key, and   *)
(* the unique index is checked at each: row i clashes with one that has    *)
(* not moved yet, or has moved onto its place.                             *)
Fits(q) ==
  \A i \in {j \in q.changed : Active(j)} : \A k \in (Children(q.meeting) \cap Items) \ {i} :
    (IF k \in q.changed /\ k < i THEN q.target[k] ELSE order[k]) # q.target[i]

(* Wrong variant: there is no unique index.                                *)
ReorderUnindexed(r) ==
  /\ req[r].op = "reorder"
  /\ order' = [i \in Items |-> IF i \in req[r].changed THEN req[r].target[i] ELSE order[i]]
  /\ Done(r) /\ UNCHANGED <<row, approval, files>>

(* Wrong variant: every row is committed for itself, until a crash.        *)
ReorderRowByRow(r) ==
  /\ req[r].op = "reorder" /\ Fits(req[r])
  /\ \E last \in req[r].changed :
       order' = [i \in Items |-> IF i \in req[r].changed /\ i <= last THEN req[r].target[i]
                                                                      ELSE order[i]]
  /\ Done(r) /\ UNCHANGED <<row, approval, files>>

Reorder(r) == /\ req[r].op = "reorder" /\ Fits(req[r])
              /\ order' = [i \in Items |-> IF i \in req[r].changed THEN req[r].target[i]
                                                                    ELSE order[i]]
              /\ Done(r) /\ UNCHANGED <<row, approval, files>>

(* An IntegrityError: the response is a server error, nothing is written.  *)
ReorderFails(r) == /\ req[r].op = "reorder" /\ ~Fits(req[r])
                   /\ Done(r) /\ UNCHANGED <<row, approval, order, files>>

-----------------------------------------------------------------------------
(* Deletion: the row and the children read with it are stamped.  A body    *)
(* with meetings is not deleted; a meeting takes its items and its own     *)
(* media along, an item its media.                                         *)
DeleteBody(r, b)    == /\ Active(b) /\ Children(b) = {}
                       /\ Read(r, [op |-> "delete", target |-> b, kids |-> {}])
DeleteMeeting(r, m) == /\ Active(m)
                       /\ Read(r, [op |-> "delete", target |-> m, kids |-> Children(m)])

(* Wrong variant: an item's deletion forgets its media.                    *)
DeleteItemOnly(r, i) == /\ Active(i)
                        /\ Read(r, [op |-> "delete", target |-> i, kids |-> {}])

DeleteItem(r, i)    == /\ Active(i)
                       /\ Read(r, [op |-> "delete", target |-> i, kids |-> Children(i)])
DeleteMedia(r, x)   == /\ Active(x)
                       /\ Read(r, [op |-> "delete", target |-> x, kids |-> {}])

Stamp(r) == /\ req[r].op = "delete"
            /\ row' = [n \in Rows |-> IF n \in {req[r].target} \cup req[r].kids
                                        THEN [row[n] EXCEPT !.state = "deleted"] ELSE row[n]]
            /\ Done(r) /\ UNCHANGED <<approval, order, files>>

(* What a search finds: agenda items, their attachments, and attachments   *)
(* of meetings.                                                            *)
Found(u) ==
  LET seen == {m \in Meetings : Visible(m, u)} IN
  {i \in Items : Active(i) /\ row[i].parent \in seen}
  \cup {a \in Attachments :
         Active(a) /\ LET p == row[a].parent IN
                     p \in seen \/ (p \in Items /\ Active(p) /\ row[p].parent \in seen)}

-----------------------------------------------------------------------------
(* The routers: who may ask for what.                                      *)
BodiesRouter(r, u) == u \in Admins /\ \E b \in Bodies : CreateBody(r, b) \/ DeleteBody(r, b)

MeetingsRouter(r, u) ==
  \/ u \in Editors /\ \E m \in Meetings, b \in Bodies : CreateMeeting(r, u, m, b)
  \/ u \in Editors /\ \E m \in Meetings : UpdateMeeting(r, u, m)
  \/ u \in Admins /\ \E m \in Meetings : \/ ApproveMeeting(r, u, m) \/ RejectMeeting(r, u, m)
                                         \/ DeleteMeeting(r, m)

AgendaRouter(r, u) ==
  \/ u \in Editors /\ \E i \in Items, m \in Meetings : CreateItem(r, i, m)
  \/ u \in Editors /\ \E m \in Meetings :
       \E wanted \in SetToAllKPermutations(Children(m) \cap Items) : ReorderItems(r, m, wanted)
  \/ u \in Admins /\ \E i \in Items : DeleteItem(r, i)

AttachmentsRouter(r, u) ==
  \/ u \in Editors /\ \E a \in Attachments, p \in Meetings \cup Items : UploadAttachment(r, a, p)
  \/ u \in Admins /\ \E a \in Attachments : DeleteMedia(r, a)

EmbedsRouter(r, u) ==
  \/ u \in Editors /\ \E e \in Embeds, p \in Meetings \cup Items : CreateEmbed(r, e, p)
  \/ u \in Admins /\ \E e \in Embeds : DeleteMedia(r, e)

Next == \E r \in Requests :
          \/ \E u \in Editors : \/ BodiesRouter(r, u) \/ MeetingsRouter(r, u) \/ AgendaRouter(r, u)
                                \/ AttachmentsRouter(r, u) \/ EmbedsRouter(r, u)
          \/ SaveFile(r) \/ Insert(r) \/ Edit(r) \/ Approve(r) \/ Reject(r)
          \/ Reorder(r) \/ ReorderFails(r) \/ Stamp(r) \/ Abort(r)

Spec == Init /\ [][Next]_vars

-----------------------------------------------------------------------------
(* No active row is left under a deleted parent, unless it was created     *)
(* while a deletion above it was under way, or it is a medium of an agenda *)
(* item that went with its meeting (CascadeReachesAll below).              *)
NoStrays ==
  \A n \in Rows : LET p == row[n].parent IN
    Active(n) /\ p # None /\ ~Active(p)
      => n \in raced \/ (n \in Media /\ p \in Items /\ ~Active(row[p].parent))

(* Every attachment has its file, whichever step the upload stopped after, *)
(* and whatever was deleted since.                                         *)
RowsHaveFiles == \A a \in Attachments : row[a].state # "none" => a \in files

(* A search shows nothing of a deleted meeting or agenda item, not even a  *)
(* row that was left active under it.                                      *)
SearchIsClean ==
  \A u \in Editors : \A x \in Found(u) :
    Active(row[x].parent) /\ (row[x].parent \in Items => Active(row[row[x].parent].parent))

(* A contributor's meeting is seen by others after an administrator's      *)
(* approval only; a rejected one has its reason, whatever raced; nobody    *)
(* but its author and administrators has edited it.                        *)
ApprovalHolds ==
  \A m \in Meetings : LET a == approval[m] IN
    /\ a.status = "approved" => a.submitter \in Admins \/ a.by \in Admins
    /\ a.status = "rejected" => a.reason
    /\ a.editor \in Admins \cup {a.submitter}

(* Two agenda items of a meeting never have the same place, whatever was   *)
(* reordered while others were added or deleted.                           *)
PlacesDiffer ==
  \A i, k \in Items :
    i # k /\ Active(i) /\ Active(k) /\ row[i].parent = row[k].parent => order[i] # order[k]

RecordsHold == NoStrays /\ RowsHaveFiles /\ SearchIsClean /\ ApprovalHolds /\ PlacesDiffer

(* A reordering that went through leaves the items that are still there in *)
(* the order it was asked for, whatever was added, deleted or reordered    *)
(* since it read them - save for an item that it did not have to move and  *)
(* that another reordering has moved meanwhile.                            *)
Placed(q)     == {i \in Items : i \in q.changed \/ order[i] = q.read[i]}
InOrder(q, S) == \A j, k \in DOMAIN q.wanted :
                   LET i == q.wanted[j]  l == q.wanted[k] IN
                   j < k /\ {i, l} \subseteq S /\ Active(i) /\ Active(l) => order'[i] < order'[l]

Reordered(r)   == req[r].op = "reorder" /\ order' # order /\ req'[r] = Idle
AsAsked        == \A r \in Requests : Reordered(r) => InOrder(req[r], Placed(req[r]))
ReorderAsAsked == [][AsAsked]_vars

-----------------------------------------------------------------------------
(* What the specification of the feature says and the code does not do.    *)

(* specs/007-meeting-records/spec.md:73: "Given a meeting has 5 agenda     *)
(* items, When an admin reorders item 4 to position 2, Then all items      *)
(* reflect the updated order on retrieval" - also when nothing else has    *)
(* changed the agenda since.                                               *)
ReorderSucceeds ==
  [][\A r \in Requests :
       /\ req[r].op = "reorder" /\ req'[r] = Idle /\ ~Fits(req[r])
       => order # req[r].read \/ ToSet(req[r].wanted) # Children(req[r].meeting) \cap Items]_vars

(* The same sentence, for the items that a reordering leaves in place.     *)
ReorderPlacesAll == [][\A r \in Requests : Reordered(r) => InOrder(req[r], Items)]_vars

(* specs/007-meeting-records/spec.md:134: "Soft-deleting a meeting         *)
(* cascades to soft-delete all child records (agenda items, attachments,   *)
(* and video embeds)" - also when nothing raced.                           *)
CascadeReachesAll ==
  \A x \in Media : LET i == row[x].parent IN
    Active(x) /\ i \in Items /\ {x, i} \cap raced = {} => Active(row[i].parent)
=============================================================================
