---------------------------- MODULE WorkspaceTeam ----------------------------
(***************************************************************************)
(* One team workspace: its owner, its members, its invite codes and the    *)
(* Redis lock of those who join.  Each handler of WorkspaceService is one  *)
(* request, and each step of a request is one await of the handler: two    *)
(* requests run into each other, a statement fails, a pod dies.  Nothing   *)
(* but joining is locked and no handler uses a transaction.                *)
(*                                                                         *)
(* An entity is saved whole: what was loaded replaces what others wrote    *)
(* since, and a row that others deleted is inserted again.  Audit rows and *)
(* analytics events are left out.                                          *)
(***************************************************************************)
EXTENDS Integers, FiniteSets

CONSTANTS Users,
          Requests,     \* the slots in which requests run
          Codes,
          MaxMembers,   \* workspace.maxMembers, 5 by default
          MaxCodes,     \* how many invite codes may be open, 5 in the code
          MaxRows,      \* bound on the membership rows ever created
          MaxStarted,   \* bound on the requests started
          MaxFaults,    \* bound on failing statements and dying pods
          SlowJoins,    \* does a join outlive the ten seconds of its lock?
          Ops,          \* the operations that are called
          Null

AllOps == {"create", "invite", "remove", "code", "join", "leave", "delete",
           "rename", "role", "transfer"}

ASSUME TeamConstants ==
    /\ MaxMembers \in Nat \ {0} /\ MaxCodes \in Nat /\ MaxRows \in Nat
    /\ MaxStarted \in Nat /\ MaxFaults \in Nat
    /\ SlowJoins \in BOOLEAN /\ Ops \subseteq AllOps
    /\ Null \notin Users \cup Requests \cup Codes

VARIABLES
    ws,        \* the row of workspaces: its owner, or none
    rows,      \* workspace_members
    born,      \* how many membership rows were ever created
    codes,     \* invite_codes
    admitted,  \* how many members each code has brought in
    lock,      \* the request that set workspace:join-lock
    req,       \* the requests
    revived,   \* the rows deleted by one request and saved again by another
    started, faults
vars == <<ws, rows, born, codes, admitted, lock, req, revived, started, faults>>

RowIds == 1 .. MaxRows
Row == [user : Users \cup {Null}, role : {"OWNER", "ADMIN", "MEMBER"},
        status : {"PENDING", "ACTIVE"}]
ASSUME NullIsNoRow == Null \notin Row
Table == [RowIds -> Row \cup {Null}]
NoRows == [i \in RowIds |-> Null]

\* A request: whose it is, where it stands, what it has read: the owner and
\* the members of the workspace, and the row or the code it is about.
Steps == {"idle", "ownerRow", "inviteCount", "inviteSave", "removeFind", "deleteRow",
          "transition", "codeCount", "codeSave", "lock", "reread", "load", "markCode",
          "saveJoiner", "unlock", "deleteCodes", "deleteMembers", "removeWorkspace",
          "saveName", "saveRole", "promote", "demote", "saveOwner"}
Request == [at : Steps, by : Users \cup {Null}, owner : Users \cup {Null},
            seen : Table, row : RowIds \cup {Null}, code : Codes \cup {Null},
            role : {"ADMIN", "MEMBER"}]
Idle == [at |-> "idle", by |-> Null, owner |-> Null, seen |-> NoRows, row |-> Null,
         code |-> Null, role |-> "MEMBER"]

Ids(t) == {i \in RowIds : t[i] # Null}
Active(t) == {i \in Ids(t) : t[i].status = "ACTIVE"}
RowsOf(t, u) == {i \in Ids(t) : t[i].user = u}

TypeOK ==
    /\ ws \in Users \cup {Null}
    /\ rows \in Table /\ born \in 0 .. MaxRows /\ Ids(rows) \subseteq 1 .. born
    /\ codes \in [Codes -> {"unborn", "open", "used", "over"}]
    /\ admitted \in [Codes -> Nat]
    /\ lock \in Requests \cup {Null}
    /\ req \in [Requests -> Request]
    /\ revived \subseteq 1 .. born
    /\ started \in 0 .. MaxStarted /\ faults \in 0 .. MaxFaults

Init ==
    /\ ws = Null
    /\ rows = NoRows
    /\ born = 0
    /\ codes = [k \in Codes |-> "unborn"]
    /\ admitted = [k \in Codes |-> 0]
    /\ lock = Null
    /\ req = [p \in Requests |-> Idle]
    /\ revived = {}
    /\ started = 0
    /\ faults = 0

-----------------------------------------------------------------------------
\* Request p takes up an operation for user u.
Start(p, op, r) ==
    /\ op \in Ops
    /\ req[p].at = "idle"
    /\ started < MaxStarted
    /\ started' = started + 1
    /\ req' = [req EXCEPT ![p] = r]

Loaded(u, step) ==
    [Idle EXCEPT !.at = step, !.by = u, !.owner = ws, !.seen = rows]

At(p, step) == req[p].at = step
Go(p, step) == req' = [req EXCEPT ![p].at = step]
End(p) == req' = [req EXCEPT ![p] = Idle]

Insert(row) ==
    /\ born < MaxRows
    /\ born' = born + 1
    /\ rows' = [rows EXCEPT ![born'] = row]

\* memberRepo.save of a loaded row: it is inserted again if it is gone.
SaveRow(i, row) ==
    /\ rows' = [rows EXCEPT ![i] = row]
    /\ revived' = revived \cup IF rows[i] = Null THEN {i} ELSE {}

team == <<ws, rows, born>>
joining == <<codes, admitted, lock>>
bounds == <<started, faults>>
Unchanged == UNCHANGED <<team, joining, revived>>

(* create *)

\* The first workspace is the only one.
SaveWorkspace(p) ==
    /\ ws = Null /\ born = 0
    /\ \A q \in Requests : req[q].at # "ownerRow"
    /\ \E u \in Users :
        /\ Start(p, "create", [Idle EXCEPT !.at = "ownerRow", !.by = u])
        /\ ws' = u
    /\ UNCHANGED <<rows, born, joining, revived, faults>>

SaveOwnerRow(p) ==
    /\ At(p, "ownerRow")
    /\ Insert([user |-> req[p].by, role |-> "OWNER", status |-> "ACTIVE"])
    /\ End(p)
    /\ UNCHANGED <<ws, joining, revived, bounds>>

(* invite *)

StartInvite(p) ==
    /\ ws # Null
    /\ Start(p, "invite", Loaded(ws, "inviteCount"))
    /\ Unchanged /\ UNCHANGED faults

CountMembers(p) ==
    /\ At(p, "inviteCount")
    /\ IF Cardinality(Active(rows)) < MaxMembers THEN Go(p, "inviteSave") ELSE End(p)
    /\ Unchanged /\ UNCHANGED bounds

\* Bound: a row is kept for each code.
SaveInvite(p) ==
    /\ At(p, "inviteSave")
    /\ born < MaxRows - Cardinality(Codes)
    /\ Insert([user |-> Null, role |-> "MEMBER", status |-> "PENDING"])
    /\ End(p)
    /\ UNCHANGED <<ws, joining, revived, bounds>>

(* removeMember and leave *)

\* The owner may name any row, their own included.
StartRemove(p) ==
    /\ ws # Null
    /\ \E i \in Ids(rows) : Start(p, "remove", [Loaded(ws, "removeFind") EXCEPT !.row = i])
    /\ Unchanged /\ UNCHANGED faults

FindRemoved(p) ==
    /\ At(p, "removeFind")
    /\ req' = [req EXCEPT ![p].at = "deleteRow", ![p].seen = rows]
    /\ Unchanged /\ UNCHANGED bounds

StartLeave(p) ==
    /\ ws # Null
    /\ \E u \in Users : \E i \in RowsOf(rows, u) :
        /\ rows[i].role # "OWNER"
        /\ Start(p, "leave", [Loaded(u, "deleteRow") EXCEPT !.row = i])
    /\ Unchanged /\ UNCHANGED faults

DeleteRow(p) ==
    LET found == req[p].seen[req[p].row]
    IN  /\ At(p, "deleteRow")
        /\ rows' = [rows EXCEPT ![req[p].row] = Null]
        /\ IF found # Null /\ found.user # Null THEN Go(p, "transition") ELSE End(p)
        /\ UNCHANGED <<ws, born, joining, revived, bounds>>

\* TEAM_MEMBER_REMOVED, a transition of UserBilling.
ApplyRemoved(p) ==
    /\ At(p, "transition")
    /\ End(p)
    /\ Unchanged /\ UNCHANGED bounds

(* generateInviteCode *)

May(u, roles) == \E i \in RowsOf(rows, u) : rows[i].role \in roles

StartCode(p) ==
    /\ ws # Null
    /\ \E u \in Users : /\ May(u, {"OWNER", "ADMIN"})
                        /\ Start(p, "code", [Idle EXCEPT !.at = "codeCount", !.by = u])
    /\ Unchanged /\ UNCHANGED faults

Open == {k \in Codes : codes[k] = "open"}

CountCodes(p) ==
    /\ At(p, "codeCount")
    /\ IF Cardinality(Open) < MaxCodes THEN Go(p, "codeSave") ELSE End(p)
    /\ Unchanged /\ UNCHANGED bounds

SaveCode(p) ==
    /\ At(p, "codeSave")
    /\ \E k \in Codes : /\ codes[k] = "unborn"
                        /\ codes' = [codes EXCEPT ![k] = "open"]
    /\ End(p)
    /\ UNCHANGED <<team, admitted, lock, revived, bounds>>

\* Its 48 hours are over.
CodeExpires(k) ==
    /\ codes[k] = "open"
    /\ codes' = [codes EXCEPT ![k] = "over"]
    /\ UNCHANGED <<team, admitted, lock, req, revived, bounds>>

(* joinByCode *)

FindCode(p) ==
    /\ \E u \in Users, k \in Open :
        Start(p, "join", [Idle EXCEPT !.at = "lock", !.by = u, !.code = k])
    /\ Unchanged /\ UNCHANGED faults

\* Mutation: the lock is taken whoever holds it.
LockAnyway(p) ==
    /\ At(p, "lock")
    /\ lock' = p
    /\ Go(p, "reread")
    /\ UNCHANGED <<team, codes, admitted, revived, bounds>>

\* SET NX: whoever finds the lock taken is told to try again.
Lock(p) ==
    /\ At(p, "lock")
    /\ IF lock = Null THEN lock' = p /\ Go(p, "reread") ELSE lock' = lock /\ End(p)
    /\ UNCHANGED <<team, codes, admitted, revived, bounds>>

\* Mutation: the code found before the lock was taken is believed.
BelieveCode(p) ==
    /\ At(p, "reread")
    /\ Go(p, "load")
    /\ Unchanged /\ UNCHANGED bounds

RereadCode(p) ==
    /\ At(p, "reread")
    /\ Go(p, IF req[p].code \in Open THEN "load" ELSE "unlock")
    /\ Unchanged /\ UNCHANGED bounds

LoadTeam(p) ==
    LET fits == /\ ws # Null
                /\ RowsOf(rows, req[p].by) \cap Active(rows) = {}
                /\ Cardinality(Active(rows)) < MaxMembers
    IN  /\ At(p, "load")
        /\ Go(p, IF fits THEN "markCode" ELSE "unlock")
        /\ Unchanged /\ UNCHANGED bounds

\* The code is saved as used; one that was deleted meanwhile comes back.
MarkCode(p) ==
    /\ At(p, "markCode")
    /\ codes' = [codes EXCEPT ![req[p].code] = "used"]
    /\ Go(p, "saveJoiner")
    /\ UNCHANGED <<team, admitted, lock, revived, bounds>>

\* The row names the workspace, which must be there still.
SaveJoiner(p) ==
    /\ At(p, "saveJoiner")
    /\ \/ /\ ws # Null
          /\ Insert([user |-> req[p].by, role |-> "MEMBER", status |-> "ACTIVE"])
          /\ admitted' = [admitted EXCEPT ![req[p].code] = @ + 1]
       \/ /\ ws = Null
          /\ UNCHANGED <<rows, born, admitted>>
    /\ Go(p, "unlock")
    /\ UNCHANGED <<ws, codes, lock, revived, bounds>>

\* DEL, whoever holds the lock by now.
Unlock(p) ==
    /\ At(p, "unlock")
    /\ lock' = Null
    /\ End(p)
    /\ UNCHANGED <<team, codes, admitted, revived, bounds>>

Critical == {"reread", "load", "markCode", "saveJoiner", "unlock"}

\* The lock's ten seconds are over: its holder has died, or is slow.
LockExpires ==
    /\ lock # Null
    /\ SlowJoins \/ req[lock].at \notin Critical
    /\ lock' = Null
    /\ UNCHANGED <<team, codes, admitted, req, revived, bounds>>

(* deleteWorkspace *)

StartDelete(p) ==
    /\ ws # Null
    /\ \E u \in Users : /\ May(u, {"OWNER"})
                        /\ Start(p, "delete", [Idle EXCEPT !.at = "deleteCodes", !.by = u])
    /\ Unchanged /\ UNCHANGED faults

DeleteCodes(p) ==
    /\ At(p, "deleteCodes")
    /\ codes' = [k \in Codes |-> IF codes[k] = "unborn" THEN "unborn" ELSE "over"]
    /\ Go(p, "deleteMembers")
    /\ UNCHANGED <<team, admitted, lock, revived, bounds>>

DeleteMembers(p) ==
    /\ At(p, "deleteMembers")
    /\ rows' = NoRows
    /\ Go(p, "removeWorkspace")
    /\ UNCHANGED <<ws, born, joining, revived, bounds>>

\* The foreign key takes the rows of those who have joined since with it.
RemoveWorkspace(p) ==
    /\ At(p, "removeWorkspace")
    /\ ws' = Null
    /\ rows' = NoRows
    /\ End(p)
    /\ UNCHANGED <<born, joining, revived, bounds>>

(* renameWorkspace, changeMemberRole, transferOwnership *)

StartRename(p) ==
    /\ ws # Null
    /\ \E u \in Users : /\ May(u, {"OWNER", "ADMIN"})
                        /\ Start(p, "rename", Loaded(u, "saveName"))
    /\ Unchanged /\ UNCHANGED faults

\* The name comes with the owner that was loaded.
SaveName(p) ==
    /\ At(p, "saveName")
    /\ ws' = req[p].owner
    /\ End(p)
    /\ UNCHANGED <<rows, born, joining, revived, bounds>>

StartRole(p) ==
    /\ ws # Null
    /\ \E u \in Users, i \in Ids(rows), r \in {"ADMIN", "MEMBER"} :
        /\ May(u, {"OWNER"})
        /\ rows[i].role # "OWNER"
        /\ Start(p, "role", [Loaded(u, "saveRole") EXCEPT !.row = i, !.role = r])
    /\ Unchanged /\ UNCHANGED faults

\* A row needs its workspace: without it the statement fails.
SaveRole(p) ==
    /\ At(p, "saveRole")
    /\ \/ /\ ws # Null
          /\ SaveRow(req[p].row, [req[p].seen[req[p].row] EXCEPT !.role = req[p].role])
       \/ ws = Null /\ UNCHANGED <<rows, revived>>
    /\ End(p)
    /\ UNCHANGED <<ws, born, joining, bounds>>

StartTransfer(p) ==
    /\ ws # Null
    /\ \E i \in Active(rows) :
        /\ rows[i].user \notin {ws, Null}
        /\ Start(p, "transfer", [Loaded(ws, "promote") EXCEPT !.row = i])
    /\ Unchanged /\ UNCHANGED faults

Promote(p) ==
    /\ At(p, "promote")
    /\ \/ /\ ws # Null
          /\ SaveRow(req[p].row, [req[p].seen[req[p].row] EXCEPT !.role = "OWNER"])
          /\ Go(p, "demote")
       \/ ws = Null /\ End(p) /\ UNCHANGED <<rows, revived>>
    /\ UNCHANGED <<ws, born, joining, bounds>>

\* The row of the owner, if they have one with that role.
Demote(p) ==
    LET own == {i \in RowsOf(req[p].seen, req[p].by) : req[p].seen[i].role = "OWNER"}
    IN  /\ At(p, "demote")
        /\ \/ /\ own = {}
              /\ Go(p, "saveOwner") /\ UNCHANGED <<rows, revived>>
           \/ /\ ws # Null
              /\ \E i \in own : SaveRow(i, [req[p].seen[i] EXCEPT !.role = "ADMIN"])
              /\ Go(p, "saveOwner")
           \/ /\ own # {} /\ ws = Null
              /\ End(p) /\ UNCHANGED <<rows, revived>>
        /\ UNCHANGED <<ws, born, joining, bounds>>

SaveOwner(p) ==
    /\ At(p, "saveOwner")
    /\ ws' = req[p].seen[req[p].row].user
    /\ End(p)
    /\ UNCHANGED <<rows, born, joining, revived, bounds>>

-----------------------------------------------------------------------------
\* A statement fails: the handler throws, a join by way of its finally block.
Fails(p) ==
    /\ req[p].at \notin {"idle", "unlock"}
    /\ faults < MaxFaults
    /\ faults' = faults + 1
    /\ IF req[p].at \in Critical THEN Go(p, "unlock") ELSE End(p)
    /\ Unchanged /\ UNCHANGED started

\* The pod dies, or the lock cannot be deleted.
Dies(p) ==
    /\ req[p].at # "idle"
    /\ faults < MaxFaults
    /\ faults' = faults + 1
    /\ End(p)
    /\ Unchanged /\ UNCHANGED started

Begin(p) ==
    \/ SaveWorkspace(p) \/ StartInvite(p) \/ StartRemove(p) \/ StartLeave(p)
    \/ StartCode(p) \/ FindCode(p) \/ StartDelete(p) \/ StartRename(p)
    \/ StartRole(p) \/ StartTransfer(p)
Join(p) ==
    \/ Lock(p) \/ RereadCode(p) \/ LoadTeam(p) \/ MarkCode(p) \/ SaveJoiner(p) \/ Unlock(p)
Continue(p) ==
    \/ SaveOwnerRow(p) \/ CountMembers(p) \/ SaveInvite(p) \/ FindRemoved(p)
    \/ DeleteRow(p) \/ ApplyRemoved(p) \/ CountCodes(p) \/ SaveCode(p)
    \/ DeleteCodes(p) \/ DeleteMembers(p) \/ RemoveWorkspace(p) \/ SaveName(p)
    \/ SaveRole(p) \/ Promote(p) \/ Demote(p) \/ SaveOwner(p)

Next ==
    \/ \E p \in Requests : Begin(p) \/ Join(p) \/ Continue(p) \/ Fails(p) \/ Dies(p)
    \/ \E k \in Codes : CodeExpires(k)
    \/ LockExpires

Spec == Init /\ [][Next]_vars

-----------------------------------------------------------------------------
\* Joining never fills the workspace beyond its limit: not two joins at once,
\* nor one after a pod died in the middle of another.  Rows that a change of
\* role brought back from the dead do not count.
NoOverfill == Cardinality(Active(rows) \ revived) <= MaxMembers

\* An invite code lets one member in.
CodesAreSingleUse == \A k \in Codes : admitted[k] <= 1

\* workspace.service.ts, transferOwnership: "Keeping them in sync prevents the
\* half-transferred state where the new owner can pay but the old owner still
\* controls invites".
OwnershipInSync ==
    (ws # Null /\ \A p \in Requests : req[p].at = "idle") =>
        \E i \in RowsOf(rows, ws) : rows[i].role = "OWNER"
=============================================================================
