----------------------------- MODULE TeamProofs -----------------------------
(* For any requests, workers, limits and interleavings: a team is never    *)
(* overfilled and no invite code lets two in, provided that no join        *)
(* outlives its lock; the slots of AiGate are all accounted for; a report  *)
(* that says READY has its PDF; what the loops over the subscriptions sum  *)
(* up agrees, and the months that are over do not change.                  *)
EXTENDS MCTeam, FiniteSetTheorems, SequenceTheorems, WellFoundedInduction, TLAPS

-----------------------------------------------------------------------------
(* WorkspaceTeam: the lock of the joins and what they know under it        *)

\* A request that needs no membership of its own.
Early == {"idle", "inviteCount", "inviteSave", "removeFind", "deleteRow", "transition"}

\* The members that count against the limit.
Counted == Active(rows) \ revived

\* A code that has let a member in is not open, nor ever will be.
CodesFit ==
    \A k \in Codes : \/ admitted[k] = 0
                     \/ admitted[k] = 1 /\ codes[k] \in {"used", "over"}

\* What request p knows where it stands.
Fits(p) ==
    LET r == req[p]
    IN  /\ r.at \in Critical => lock = p
        /\ r.at \in Critical \cup {"lock"} => r.code \in Codes /\ codes[r.code] # "unborn"
        /\ r.at \in {"load", "markCode", "saveJoiner"} => admitted[r.code] = 0
        /\ r.at = "saveJoiner" => codes[r.code] \in {"used", "over"}
        /\ r.at \in {"markCode", "saveJoiner"} => Cardinality(Counted) < MaxMembers
        /\ r.at \in {"removeFind", "deleteRow"} => r.row \in RowIds
        /\ r.at \in {"saveRole", "promote", "demote", "saveOwner"} =>
              r.row \in Ids(r.seen)

\* A row keeps the status it was born with, whoever has loaded it: saving it
\* makes no member of a row that was none.
Agree(s, t) == \A i \in Ids(s) \cap Ids(t) : s[i].status = t[i].status
Born(t) == Ids(t) \subseteq 1 .. born
ViewsAgree ==
    \A p \in Requests : /\ Born(req[p].seen)
                        /\ Agree(rows, req[p].seen)
                        /\ \A q \in Requests : Agree(req[p].seen, req[q].seen)

\* Until the owner's row is there nobody is a member.
New == born = 0 \/ \E p \in Requests : req[p].at = "ownerRow"
NewFits ==
    /\ \A i \in Ids(rows) : rows[i].user = Null /\ rows[i].status = "PENDING"
    /\ \A k \in Codes : codes[k] = "unborn"
    /\ \A p \in Requests : req[p].at \in Early \cup {"ownerRow"}
    /\ \A p, q \in Requests :
          req[p].at = "ownerRow" /\ req[q].at = "ownerRow" => p = q

TeamInv ==
    /\ TypeOK
    /\ CodesFit
    /\ \A p \in Requests : Fits(p)
    /\ ViewsAgree
    /\ New => NewFits
    /\ NoOverfill

-----------------------------------------------------------------------------
LEMMA Shrinks ==
    ASSUME NEW S \in SUBSET RowIds, NEW T \in SUBSET S, MaxRows \in Nat
    PROVE  /\ Cardinality(S) \in Nat /\ Cardinality(T) \in Nat
           /\ Cardinality(T) <= Cardinality(S)
<1>1. IsFiniteSet(RowIds) BY FS_Interval DEF RowIds
<1>2. IsFiniteSet(S) BY <1>1, FS_Subset
<1> QED BY <1>2, FS_Subset, FS_CardinalityType

LEMMA GrowsByOne ==
    ASSUME NEW S \in SUBSET RowIds, NEW i, NEW T \in SUBSET (S \cup {i}), MaxRows \in Nat
    PROVE  /\ Cardinality(S) \in Nat /\ Cardinality(T) \in Nat
           /\ Cardinality(T) <= Cardinality(S) + 1
<1>1. IsFiniteSet(RowIds) BY FS_Interval DEF RowIds
<1>2. IsFiniteSet(S) BY <1>1, FS_Subset
<1>3. /\ IsFiniteSet(S \cup {i})
      /\ Cardinality(S \cup {i}) \in Nat
      /\ Cardinality(S \cup {i}) <= Cardinality(S) + 1
  BY <1>2, FS_AddElement, FS_CardinalityType
<1> QED BY <1>2, <1>3, FS_Subset, FS_CardinalityType

\* Only request p moves.
Moves(p) == \A q \in Requests \ {p} : req'[q] = req[q]

LEMMA GoMoves ==
    ASSUME TypeOK, NEW p \in Requests, NEW step \in Steps, Go(p, step)
    PROVE  /\ req' \in [Requests -> Request] /\ Moves(p)
           /\ req'[p] = [req[p] EXCEPT !.at = step]
           /\ req'[p].at = step /\ req'[p].seen = req[p].seen
           /\ req'[p].row = req[p].row /\ req'[p].code = req[p].code
<1>1. req[p] \in Request /\ req \in [Requests -> Request] BY DEF TypeOK
<1>2. [req[p] EXCEPT !.at = step] \in Request BY <1>1 DEF Request
<1>3. req' = [req EXCEPT ![p] = [req[p] EXCEPT !.at = step]] BY DEF Go
<1> QED BY <1>1, <1>2, <1>3 DEF Moves, Request

LEMMA IdleIsRequest == Idle \in Request /\ NoRows \in Table
  BY DEF Idle, Request, Steps, NoRows, Table

LEMMA EndMoves ==
    ASSUME TypeOK, NEW p \in Requests, End(p)
    PROVE  /\ req' \in [Requests -> Request] /\ Moves(p)
           /\ req'[p] = Idle /\ req'[p].at = "idle" /\ req'[p].seen = NoRows
<1>1. req \in [Requests -> Request] BY DEF TypeOK
<1> QED BY <1>1, IdleIsRequest DEF Moves, End, Idle

LEMMA StartMoves ==
    ASSUME TypeOK, NEW p \in Requests, NEW op, NEW r \in Request, Start(p, op, r)
    PROVE  /\ req' \in [Requests -> Request] /\ Moves(p) /\ req'[p] = r
           /\ req[p].at = "idle" /\ started' \in 0 .. MaxStarted
<1>1. req \in [Requests -> Request] /\ started \in 0 .. MaxStarted BY DEF TypeOK
<1> QED BY <1>1, TeamConstants DEF Moves, Start

\* A step of one request that leaves the rows alone: what the others have
\* read, and know, stays good.
LEMMA QuietStep ==
    ASSUME TeamInv, TypeOK', NEW p \in Requests, Moves(p),
           UNCHANGED <<rows, born, admitted, revived>>,
           \A k \in Codes : /\ codes[k] # "unborn" => codes'[k] # "unborn"
                            /\ codes[k] \in {"used", "over"} => codes'[k] \in {"used", "over"},
           \A q \in Requests \ {p} : req[q].at \in Critical => lock' = q,
           req'[p].seen \in {NoRows, rows, req[p].seen},
           req'[p].at # "ownerRow",
           NewFits => req'[p].at \in Early /\ codes' = codes,
           Fits(p)'
    PROVE  TeamInv'
<1>1. CodesFit'
  BY DEF TeamInv, TypeOK, CodesFit
<1>2. ASSUME NEW q \in Requests PROVE Fits(q)'
  <2>1. CASE q = p BY <2>1
  <2>2. CASE q # p
    <3>1. req'[q] = req[q] /\ Fits(q) BY <2>2 DEF Moves, TeamInv
    <3>2. Counted' = Counted BY DEF Counted, Active, Ids
    <3>3. req[q].at \in Critical => lock' = q BY <2>2
    <3>4. req[q].at \in Critical \cup {"lock"} =>
             /\ req[q].code \in Codes
             /\ codes[req[q].code] # "unborn" /\ codes'[req[q].code] # "unborn"
      BY <3>1 DEF Fits
    <3>5. req[q].at = "saveJoiner" => codes'[req[q].code] \in {"used", "over"}
      BY <3>1, <3>4 DEF Fits, Critical
    <3> QED BY <3>1, <3>2, <3>3, <3>4, <3>5 DEF Fits, Ids
  <2> QED BY <2>1, <2>2
<1>3. ViewsAgree'
  <2>1. Born(rows) /\ rows' = rows /\ born' = born BY DEF TeamInv, TypeOK, Born
  <2>2. \A t : Born(NoRows) /\ Agree(NoRows, t) /\ Agree(t, NoRows)
    BY DEF Born, Agree, Ids, NoRows
  <2>3. \A t : Agree(t, t) BY DEF Agree
  <2>4. \A s, t : Agree(s, t) => Agree(t, s) BY DEF Agree
  <2>5. ASSUME NEW q \in Requests
        PROVE  /\ Born(req'[q].seen) /\ Agree(rows, req'[q].seen)
               /\ req'[q].seen \in {NoRows, rows, req[q].seen}
    <3>1. req'[q].seen \in {NoRows, rows, req[q].seen} BY DEF Moves
    <3>2. Born(req[q].seen) /\ Agree(rows, req[q].seen) BY DEF TeamInv, ViewsAgree
    <3> QED BY <3>1, <3>2, <2>1, <2>2, <2>3
  <2>6. ASSUME NEW q \in Requests, NEW s \in Requests
        PROVE  Agree(req'[q].seen, req'[s].seen)
    <3>1. /\ Agree(rows, req[q].seen) /\ Agree(rows, req[s].seen)
          /\ Agree(req[q].seen, req[s].seen)
      BY DEF TeamInv, ViewsAgree
    <3> QED BY <3>1, <2>2, <2>3, <2>4, <2>5
  <2> QED BY <2>1, <2>5, <2>6 DEF ViewsAgree, Born
<1>4. (New => NewFits)'
  <2>1. New' => New BY DEF New, Moves
  <2>2. NewFits => NewFits' BY DEF NewFits, Moves, Early, Ids
  <2> QED BY <2>1, <2>2 DEF TeamInv
<1>5. NoOverfill' BY DEF TeamInv, NoOverfill, Active, Ids
<1> QED BY <1>1, <1>2, <1>3, <1>4, <1>5 DEF TeamInv

\* While the team is new nobody may do what takes a membership.
LEMMA NewHasNoMembers ==
    ASSUME TypeOK, NewFits
    PROVE  /\ \A u \in Users : RowsOf(rows, u) = {}
           /\ \A i \in Ids(rows) : rows[i].user = Null /\ rows[i].status # "ACTIVE"
  BY TeamConstants DEF NewFits, RowsOf

LEMMA LoadedIsRequest ==
    ASSUME TypeOK, NEW u \in Users, NEW step \in Steps
    PROVE  Loaded(u, step) \in Request
  BY IdleIsRequest DEF TypeOK, Loaded, Idle, Request

LEMMA BeginKeeps ==
    ASSUME TeamInv, NEW p \in Requests,
           Begin(p) /\ ~SaveWorkspace(p)
    PROVE  TeamInv'
<1> USE DEF Unchanged, team, joining
<1>1. TypeOK BY DEF TeamInv
\* What every beginning has in common.
<1>2. ASSUME NEW op, NEW r \in Request, Start(p, op, r), UNCHANGED faults,
             Unchanged,
             r.seen \in {NoRows, rows}, r.at \notin Critical \cup {"ownerRow"},
             NewFits => r.at \in Early,
             r.at = "lock" => r.code \in Open,
             r.at \in {"removeFind", "deleteRow"} => r.row \in RowIds,
             r.at \in {"saveRole", "promote", "demote", "saveOwner"} => r.row \in Ids(r.seen)
      PROVE  TeamInv'
  <2>1. /\ req' \in [Requests -> Request] /\ Moves(p) /\ req'[p] = r
        /\ req[p].at = "idle" /\ started' \in 0 .. MaxStarted
    BY <1>1, <1>2, StartMoves
  <2>2. TypeOK' BY <1>1, <1>2, <2>1 DEF TypeOK, Ids
  <2>3. Fits(p)'
    BY <1>2, <2>1 DEF Fits, Ids, Critical, Open
  <2>4. \A q \in Requests \ {p} : req[q].at \in Critical => lock' = q
    BY <1>2 DEF TeamInv, Fits
  <2> QED BY <1>2, <2>1, <2>2, <2>3, <2>4, QuietStep
<1> USE <1>1
<1>3. CASE StartInvite(p)
  <2>1. Loaded(ws, "inviteCount") \in Request /\ ws \in Users
    BY <1>3, LoadedIsRequest DEF StartInvite, TypeOK, Steps
  <2> QED BY <1>2, <1>3, <2>1
      DEF StartInvite, Loaded, Idle, Critical, Early
<1>4. CASE StartRemove(p)
  <2>1. PICK i \in Ids(rows) : Start(p, "remove", [Loaded(ws, "removeFind") EXCEPT !.row = i])
    BY <1>4 DEF StartRemove
  <2>2. Loaded(ws, "removeFind") \in Request
    BY <1>4, LoadedIsRequest DEF StartRemove, TypeOK, Steps
  <2>3. [Loaded(ws, "removeFind") EXCEPT !.row = i] \in Request /\ i \in RowIds
    BY <2>2 DEF Request, Ids
  <2> QED BY <1>2, <1>4, <2>1, <2>3
      DEF StartRemove, Loaded, Idle, Critical, Early
<1>5. CASE StartLeave(p)
  <2>0. PICK u \in Users : \E i \in RowsOf(rows, u) :
           Start(p, "leave", [Loaded(u, "deleteRow") EXCEPT !.row = i])
    BY <1>5 DEF StartLeave
  <2>1. PICK i \in RowsOf(rows, u) :
           Start(p, "leave", [Loaded(u, "deleteRow") EXCEPT !.row = i])
    BY <2>0
  <2>2. Loaded(u, "deleteRow") \in Request BY LoadedIsRequest DEF Steps
  <2>3. [Loaded(u, "deleteRow") EXCEPT !.row = i] \in Request /\ i \in RowIds
    BY <2>2 DEF Request, RowsOf, Ids
  <2> QED BY <1>2, <1>5, <2>1, <2>3
      DEF StartLeave, Loaded, Idle, Critical, Early
<1>6. CASE StartCode(p)
  <2>1. PICK u \in Users : /\ May(u, {"OWNER", "ADMIN"})
                           /\ Start(p, "code", [Idle EXCEPT !.at = "codeCount", !.by = u])
    BY <1>6 DEF StartCode
  <2>2. [Idle EXCEPT !.at = "codeCount", !.by = u] \in Request
    BY IdleIsRequest DEF Request, Steps, Idle
  <2>3. ~NewFits BY <2>1, NewHasNoMembers DEF May
  <2> QED BY <1>2, <1>6, <2>1, <2>2, <2>3 DEF StartCode, Idle, Critical
<1>7. CASE FindCode(p)
  <2>1. PICK u \in Users, k \in Open :
           Start(p, "join", [Idle EXCEPT !.at = "lock", !.by = u, !.code = k])
    BY <1>7 DEF FindCode
  <2>2. [Idle EXCEPT !.at = "lock", !.by = u, !.code = k] \in Request
    BY IdleIsRequest DEF Request, Steps, Idle, Open
  <2>3. ~NewFits BY DEF NewFits, Open
  <2> QED BY <1>2, <1>7, <2>1, <2>2, <2>3 DEF FindCode, Idle, Critical
<1>8. CASE StartDelete(p)
  <2>1. PICK u \in Users : /\ May(u, {"OWNER"})
                           /\ Start(p, "delete", [Idle EXCEPT !.at = "deleteCodes", !.by = u])
    BY <1>8 DEF StartDelete
  <2>2. [Idle EXCEPT !.at = "deleteCodes", !.by = u] \in Request
    BY IdleIsRequest DEF Request, Steps, Idle
  <2>3. ~NewFits BY <2>1, NewHasNoMembers DEF May
  <2> QED BY <1>2, <1>8, <2>1, <2>2, <2>3 DEF StartDelete, Idle, Critical
<1>9. CASE StartRename(p)
  <2>1. PICK u \in Users : /\ May(u, {"OWNER", "ADMIN"})
                           /\ Start(p, "rename", Loaded(u, "saveName"))
    BY <1>9 DEF StartRename
  <2>2. Loaded(u, "saveName") \in Request BY LoadedIsRequest DEF Steps
  <2>3. ~NewFits BY <2>1, NewHasNoMembers DEF May
  <2> QED BY <1>2, <1>9, <2>1, <2>2, <2>3 DEF StartRename, Loaded, Idle, Critical
<1>10. CASE StartRole(p)
  <2>1. PICK u \in Users, i \in Ids(rows), r \in {"ADMIN", "MEMBER"} :
           /\ May(u, {"OWNER"})
           /\ Start(p, "role", [Loaded(u, "saveRole") EXCEPT !.row = i, !.role = r])
    BY <1>10 DEF StartRole
  <2>2. Loaded(u, "saveRole") \in Request BY LoadedIsRequest DEF Steps
  <2>3. [Loaded(u, "saveRole") EXCEPT !.row = i, !.role = r] \in Request
    BY <2>2 DEF Request, Ids
  <2>4. ~NewFits BY <2>1, NewHasNoMembers DEF May
  <2> QED BY <1>2, <1>10, <2>1, <2>3, <2>4 DEF StartRole, Loaded, Idle, Critical
<1>11. CASE StartTransfer(p)
  <2>1. PICK i \in Active(rows) :
           Start(p, "transfer", [Loaded(ws, "promote") EXCEPT !.row = i])
    BY <1>11 DEF StartTransfer
  <2>2. Loaded(ws, "promote") \in Request
    BY <1>11, LoadedIsRequest DEF StartTransfer, TypeOK, Steps
  <2>3. [Loaded(ws, "promote") EXCEPT !.row = i] \in Request /\ i \in Ids(rows)
    BY <2>2 DEF Request, Active, Ids
  <2>4. ~NewFits BY <2>3, NewHasNoMembers DEF Active
  <2> QED BY <1>2, <1>11, <2>1, <2>3, <2>4 DEF StartTransfer, Loaded, Idle, Critical
<1> QED
  BY <1>3, <1>4, <1>5, <1>6, <1>7, <1>8, <1>9, <1>10, <1>11 DEF Begin

LEMMA SaveWorkspaceKeeps ==
    ASSUME TeamInv, NEW p \in Requests, SaveWorkspace(p)
    PROVE  TeamInv'
<1>1. TypeOK BY DEF TeamInv
<1>2. PICK u \in Users : /\ Start(p, "create", [Idle EXCEPT !.at = "ownerRow", !.by = u])
                         /\ ws' = u
  BY DEF SaveWorkspace
<1> DEFINE r == [Idle EXCEPT !.at = "ownerRow", !.by = u]
<1>3. r \in Request /\ r.at = "ownerRow" /\ r.seen = NoRows
  BY IdleIsRequest DEF Request, Steps, Idle
<1>4. /\ req' \in [Requests -> Request] /\ Moves(p) /\ req'[p] = r
      /\ started' \in 0 .. MaxStarted
  BY <1>1, <1>2, <1>3, StartMoves
<1> HIDE DEF r
<1>5. UNCHANGED <<rows, born, codes, admitted, lock, revived, faults>> /\ born = 0
  BY DEF SaveWorkspace, joining
<1>6. TypeOK' BY <1>1, <1>2, <1>4, <1>5 DEF TypeOK, Ids
<1>7. CodesFit' BY <1>5 DEF TeamInv, CodesFit
<1>8. NewFits BY <1>5 DEF TeamInv, New
<1>9. ASSUME NEW q \in Requests PROVE Fits(q)'
  <2>1. CASE q = p BY <1>3, <1>4, <2>1 DEF Fits, Critical
  <2>2. CASE q # p
    <3>1. req'[q] = req[q] /\ Fits(q) BY <1>4, <2>2 DEF Moves, TeamInv
    <3>2. req[q].at \in Early \cup {"ownerRow"} BY <1>8 DEF NewFits
    <3> QED BY <3>1, <3>2 DEF Fits, Early, Critical
  <2> QED BY <2>1, <2>2
<1>10. ViewsAgree'
  <2>1. \A t : Born(NoRows)' /\ Agree(NoRows, t) /\ Agree(t, NoRows)
    BY DEF Born, Agree, Ids, NoRows
  <2> QED BY <1>3, <1>4, <1>5, <2>1 DEF TeamInv, ViewsAgree, Moves, Born
<1>11. NewFits'
  BY <1>3, <1>4, <1>5, <1>8 DEF SaveWorkspace, NewFits, Moves, Ids
<1>12. NoOverfill' BY <1>5 DEF TeamInv, NoOverfill, Active, Ids
<1> QED BY <1>6, <1>7, <1>9, <1>10, <1>11, <1>12 DEF TeamInv

\* Joining, but for the row it saves.
LEMMA JoinKeeps ==
    ASSUME TeamInv, NEW p \in Requests,
           Join(p) /\ ~SaveJoiner(p)
    PROVE  TeamInv'
<1> USE DEF Unchanged, team, joining, bounds
<1>1. TypeOK /\ Fits(p) BY DEF TeamInv
<1>2. p \notin {Null} /\ req[p] \in Request BY <1>1, TeamConstants DEF TypeOK
<1>3. \A q \in Requests \ {p} : req[q].at \in Critical => lock = q /\ lock # p
  BY DEF TeamInv, Fits
<1>4. req[p].at \notin Early => ~NewFits \/ req[p].at = "ownerRow" BY DEF NewFits
<1>5. CASE Lock(p)
  <2>1. CASE lock = Null
    <3>1. Go(p, "reread") /\ lock' = p
          /\ UNCHANGED <<ws, rows, born, codes, admitted, revived, started, faults>>
      BY <1>5, <2>1 DEF Lock
    <3>2. /\ req' \in [Requests -> Request] /\ Moves(p)
          /\ req'[p].at = "reread" /\ req'[p].seen = req[p].seen
          /\ req'[p].row = req[p].row /\ req'[p].code = req[p].code
      BY <1>1, <3>1, GoMoves DEF Steps
    <3>3. TypeOK' BY <1>1, <3>1, <3>2 DEF TypeOK, Ids
    <3>4. Fits(p)' BY <1>1, <1>5, <3>1, <3>2 DEF Fits, Lock, At, Critical
    <3>5. ~NewFits BY <1>4, <1>5 DEF Lock, At, Early
    <3>6. \A q \in Requests \ {p} : req[q].at \in Critical => lock' = q
      BY <1>3, <2>1, TeamConstants
    <3> QED BY <3>1, <3>2, <3>3, <3>4, <3>5, <3>6, QuietStep
  <2>2. CASE lock # Null
    <3>1. End(p) /\ UNCHANGED <<ws, rows, born, codes, admitted, lock, revived, started, faults>>
      BY <1>5, <2>2 DEF Lock
    <3>2. /\ req' \in [Requests -> Request] /\ Moves(p)
          /\ req'[p].at = "idle" /\ req'[p].seen = NoRows
      BY <1>1, <3>1, EndMoves
    <3>3. TypeOK' BY <1>1, <3>1, <3>2 DEF TypeOK, Ids
    <3>4. Fits(p)' BY <3>2 DEF Fits, Critical
    <3> QED BY <1>3, <3>1, <3>2, <3>3, <3>4, QuietStep DEF Early
  <2> QED BY <2>1, <2>2
<1>6. CASE RereadCode(p)
  <2> DEFINE step == IF req[p].code \in Open THEN "load" ELSE "unlock"
  <2>1. Go(p, step) /\ UNCHANGED <<ws, rows, born, codes, admitted, lock, revived, started, faults>>
    BY <1>6 DEF RereadCode
  <2>2. /\ req' \in [Requests -> Request] /\ Moves(p)
        /\ req'[p].at = step /\ req'[p].seen = req[p].seen
        /\ req'[p].row = req[p].row /\ req'[p].code = req[p].code
    BY <1>1, <2>1, GoMoves DEF Steps
  <2>3. TypeOK' BY <1>1, <2>1, <2>2 DEF TypeOK, Ids
  <2>4. req[p].code \in Open => admitted[req[p].code] = 0 BY DEF TeamInv, CodesFit, Open
  <2>5. Fits(p)' BY <1>1, <1>6, <2>1, <2>2, <2>4 DEF Fits, RereadCode, At, Critical
  <2>6. ~NewFits BY <1>4, <1>6 DEF RereadCode, At, Early
  <2> QED BY <1>3, <2>1, <2>2, <2>3, <2>5, <2>6, QuietStep
<1>7. CASE LoadTeam(p)
  <2>1. PICK step \in {"markCode", "unlock"} :
           /\ Go(p, step)
           /\ step = "markCode" => Cardinality(Active(rows)) < MaxMembers
    BY <1>7 DEF LoadTeam
  <2>2. UNCHANGED <<ws, rows, born, codes, admitted, lock, revived, started, faults>>
    BY <1>7 DEF LoadTeam
  <2>3. /\ req' \in [Requests -> Request] /\ Moves(p)
        /\ req'[p].at = step /\ req'[p].seen = req[p].seen
        /\ req'[p].row = req[p].row /\ req'[p].code = req[p].code
    BY <1>1, <2>1, GoMoves DEF Steps
  <2>4. TypeOK' BY <1>1, <2>2, <2>3 DEF TypeOK, Ids
  <2>5. Cardinality(Counted) <= Cardinality(Active(rows))
    BY Shrinks, TeamConstants DEF Counted, Active, Ids
  <2>6. Cardinality(Counted) \in Nat /\ Cardinality(Active(rows)) \in Nat
    BY Shrinks, TeamConstants DEF Counted, Active, Ids
  <2>7. Counted' = Counted BY <2>2 DEF Counted, Active, Ids
  <2>8. step = "markCode" => Cardinality(Counted') < MaxMembers
    BY <2>1, <2>5, <2>6, <2>7, TeamConstants
  <2>9. Fits(p)' BY <1>1, <1>7, <2>2, <2>3, <2>8 DEF Fits, LoadTeam, At, Critical
  <2>10. ~NewFits BY <1>4, <1>7 DEF LoadTeam, At, Early
  <2> QED BY <1>3, <2>2, <2>3, <2>4, <2>9, <2>10, QuietStep
<1>8. CASE MarkCode(p)
  <2>1. Go(p, "saveJoiner")
           /\ UNCHANGED <<ws, rows, born, admitted, lock, revived, started, faults>>
        /\ codes' = [codes EXCEPT ![req[p].code] = "used"]
    BY <1>8 DEF MarkCode
  <2>2. /\ req' \in [Requests -> Request] /\ Moves(p)
        /\ req'[p].at = "saveJoiner" /\ req'[p].seen = req[p].seen
        /\ req'[p].row = req[p].row /\ req'[p].code = req[p].code
    BY <1>1, <2>1, GoMoves DEF Steps
  <2>3. TypeOK' BY <1>1, <2>1, <2>2 DEF TypeOK, Ids
  <2>4. Counted' = Counted BY <2>1 DEF Counted, Active, Ids
  <2>5. /\ lock = p /\ req[p].code \in Codes /\ admitted[req[p].code] = 0
        /\ Cardinality(Counted) < MaxMembers
    BY <1>1, <1>8 DEF Fits, MarkCode, At, Critical
  <2>6. codes'[req[p].code] = "used"
    BY <1>1, <2>1, <2>5 DEF TypeOK
  <2>7. \A k \in Codes : codes'[k] = codes[k] \/ codes'[k] = "used"
    BY <1>1, <2>1 DEF TypeOK
  <2>8. Fits(p)' BY <2>1, <2>2, <2>4, <2>5, <2>6 DEF Fits
  <2>9. ~NewFits BY <1>4, <1>8 DEF MarkCode, At, Early
  <2> QED BY <1>3, <2>1, <2>2, <2>3, <2>7, <2>8, <2>9, QuietStep
<1>9. CASE Unlock(p)
  <2>1. End(p) /\ UNCHANGED <<ws, rows, born, codes, admitted, revived, started, faults>>
        /\ lock' = Null
    BY <1>9 DEF Unlock
  <2>2. /\ req' \in [Requests -> Request] /\ Moves(p)
        /\ req'[p].at = "idle" /\ req'[p].seen = NoRows
    BY <1>1, <2>1, EndMoves
  <2>3. TypeOK' BY <1>1, <2>1, <2>2 DEF TypeOK, Ids
  <2>4. Fits(p)' BY <2>2 DEF Fits, Critical
  <2>5. lock = p BY <1>1, <1>9 DEF Fits, Unlock, At, Critical
  <2>6. \A q \in Requests \ {p} : req[q].at \notin Critical BY <1>3, <2>5
  <2> QED BY <2>1, <2>2, <2>3, <2>4, <2>6, QuietStep DEF Early
<1> QED BY <1>5, <1>6, <1>7, <1>8, <1>9 DEF Join

\* What was read before a change of the rows is still true of them after it.
LEMMA ViewsKeep ==
    ASSUME TypeOK, TypeOK', ViewsAgree, NEW p \in Requests, Moves(p),
           req'[p].seen \in {NoRows, req[p].seen},
           born \in Nat, born' \in Nat, born <= born',
           \A i \in Ids(rows)' :
              \/ i \in Ids(rows) /\ rows'[i].status = rows[i].status
              \/ i \in Ids(req[p].seen) /\ rows'[i].status = req[p].seen[i].status
              \/ i > born
    PROVE  ViewsAgree'
<1>1. \A t : Agree(NoRows, t) /\ Agree(t, NoRows)
  BY DEF Agree, Ids, NoRows
<1>2. ASSUME NEW q \in Requests PROVE Ids(req'[q].seen) \subseteq 1 .. born'
  <2>1. Ids(req[q].seen) \subseteq 1 .. born' BY DEF ViewsAgree, Born
  <2>2. Ids(NoRows) = {} BY DEF Ids, NoRows
  <2>3. req'[q].seen \in {NoRows, req[q].seen} BY DEF Moves
  <2> QED BY <2>1, <2>2, <2>3
<1>3. ASSUME NEW q \in Requests PROVE Agree(rows', req'[q].seen)
  <2>1. req'[q].seen \in {NoRows, req[q].seen} BY DEF Moves
  <2>2. Agree(rows', req[q].seen)
    <3> SUFFICES ASSUME NEW i \in Ids(rows') \cap Ids(req[q].seen)
                 PROVE  rows'[i].status = req[q].seen[i].status
      BY DEF Agree
    <3>1. /\ Agree(rows, req[q].seen) /\ Agree(req[p].seen, req[q].seen)
          /\ Born(req[q].seen)
      BY DEF ViewsAgree
    <3>2. ~(i > born) BY <3>1 DEF Born
    <3> QED BY <3>1, <3>2 DEF Agree, Ids
  <2> QED BY <1>1, <2>1, <2>2
<1>4. ASSUME NEW q \in Requests, NEW s \in Requests
      PROVE  Agree(req'[q].seen, req'[s].seen)
  <2>1. Agree(req[q].seen, req[s].seen) BY DEF ViewsAgree
  <2>2. /\ req'[q].seen \in {NoRows, req[q].seen}
        /\ req'[s].seen \in {NoRows, req[s].seen}
    BY DEF Moves
  <2> QED BY <1>1, <2>1, <2>2
<1> QED BY <1>2, <1>3, <1>4 DEF ViewsAgree, Born

\* A step of one request that changes the rows, but lets nobody in.
LEMMA RowsStep ==
    ASSUME TeamInv, TypeOK', NEW p \in Requests, Moves(p),
           UNCHANGED <<codes, admitted, lock>>,
           req'[p].seen \in {NoRows, req[p].seen},
           born <= born', Counted' \subseteq Counted,
           \A i \in Ids(rows)' :
              \/ i \in Ids(rows) /\ rows'[i].status = rows[i].status
              \/ i \in Ids(req[p].seen) /\ rows'[i].status = req[p].seen[i].status
              \/ i > born,
           req'[p].at # "ownerRow", req'[p].at \notin Critical,
           (New => NewFits)', Fits(p)'
    PROVE  TeamInv'
<1>1. born \in Nat /\ born' \in Nat BY TeamConstants DEF TeamInv, TypeOK
<1>2. ViewsAgree' BY <1>1, ViewsKeep DEF TeamInv
<1>3. CodesFit' BY DEF TeamInv, CodesFit
<1>4. /\ Cardinality(Counted) \in Nat /\ Cardinality(Counted') \in Nat
      /\ Cardinality(Counted') <= Cardinality(Counted)
  <2>1. Counted \in SUBSET RowIds BY DEF Counted, Active, Ids
  <2> QED BY <2>1, Shrinks, TeamConstants
<1>5. ASSUME NEW q \in Requests PROVE Fits(q)'
  <2>1. CASE q = p BY <2>1
  <2>2. CASE q # p
    <3>1. req'[q] = req[q] /\ Fits(q) BY <2>2 DEF Moves, TeamInv
    <3>2. Cardinality(Counted) < MaxMembers => Cardinality(Counted') < MaxMembers
      BY <1>4, TeamConstants
    <3> QED BY <3>1, <3>2 DEF Fits, Ids
  <2> QED BY <2>1, <2>2
<1>6. NoOverfill'
  <2>1. Cardinality(Counted) <= MaxMembers BY DEF TeamInv, NoOverfill, Counted
  <2>2. Cardinality(Counted') <= MaxMembers BY <1>4, <2>1, TeamConstants
  <2> QED BY <2>2 DEF NoOverfill, Counted
<1> QED BY <1>2, <1>3, <1>5, <1>6 DEF TeamInv

LEMMA InsertType ==
    ASSUME TypeOK, NEW row \in Row, Insert(row)
    PROVE  /\ born' = born + 1 /\ born' \in 0 .. MaxRows /\ rows' \in Table
           /\ Ids(rows)' = Ids(rows) \cup {born + 1} /\ born + 1 \notin Ids(rows)
           /\ rows'[born + 1] = row
           /\ \A i \in Ids(rows) : rows'[i] = rows[i]
           /\ Ids(rows)' \subseteq 1 .. born'
<1>1. /\ born \in 0 .. MaxRows /\ rows \in Table /\ MaxRows \in Nat
      /\ Ids(rows) \subseteq 1 .. born
  BY TeamConstants DEF TypeOK
<1>2. born' = born + 1 /\ born + 1 \in RowIds /\ rows' = [rows EXCEPT ![born + 1] = row]
  BY <1>1 DEF Insert, RowIds
<1>3. rows' \in Table /\ rows'[born + 1] = row
      /\ \A i \in RowIds \ {born + 1} : rows'[i] = rows[i]
  BY <1>1, <1>2 DEF Table
<1>4. born + 1 \notin Ids(rows) BY <1>1
<1>5. row # Null BY NullIsNoRow
<1>6. Ids(rows)' = Ids(rows) \cup {born + 1} BY <1>2, <1>3, <1>5 DEF Ids
<1>7. \A i \in Ids(rows) : rows'[i] = rows[i] BY <1>3, <1>4 DEF Ids
<1>8. born' \in 0 .. MaxRows BY <1>1, <1>2 DEF RowIds
<1>9. Ids(rows)' \subseteq 1 .. born'
  <2>1. 1 .. born \cup {born + 1} \subseteq 1 .. (born + 1) BY <1>1
  <2>2. Ids(rows)' \subseteq 1 .. (born + 1) BY <1>1, <1>6, <2>1, Zenon
  <2> QED BY <1>2, <2>2
<1> QED BY <1>2, <1>3, <1>4, <1>6, <1>7, <1>8, <1>9

LEMMA SaveRowType ==
    ASSUME TypeOK, TypeOK', NEW p \in Requests, NEW i \in Ids(req[p].seen), NEW row \in Row,
           row.status = req[p].seen[i].status, ViewsAgree, SaveRow(i, row)
    PROVE  /\ \A j \in Ids(rows)' :
                 \/ j \in Ids(rows) /\ rows'[j].status = rows[j].status
                 \/ j \in Ids(req[p].seen) /\ rows'[j].status = req[p].seen[j].status
           /\ Counted' \subseteq Counted
<1>1. i \in RowIds /\ rows \in [RowIds -> Row \cup {Null}] BY DEF Ids, TypeOK, Table
<1>2. rows' = [rows EXCEPT ![i] = row] BY DEF SaveRow
<1>3. rows'[i] = row /\ \A j \in RowIds \ {i} : rows'[j] = rows[j] BY <1>1, <1>2
<1>4. \A j \in Ids(rows)' :
                 \/ j \in Ids(rows) /\ rows'[j].status = rows[j].status
                 \/ j = i /\ rows'[j].status = req[p].seen[j].status
  BY <1>3 DEF Ids
<1>5. Counted' \subseteq Counted
  <2>1. CASE rows[i] = Null
    <3>1. revived' = revived \cup {i} BY <2>1 DEF SaveRow
    <3> QED BY <1>3, <3>1 DEF Counted, Active, Ids
  <2>2. CASE rows[i] # Null
    <3>1. revived' = revived BY <2>2 DEF SaveRow
    <3>2. rows'[i].status = rows[i].status
      BY <1>1, <1>3, <2>2 DEF ViewsAgree, Agree, Ids
    <3> QED BY <1>3, <2>2, <3>1, <3>2 DEF Counted, Active, Ids
  <2> QED BY <2>1, <2>2
<1> QED BY <1>4, <1>5

LEMMA SaveOwnerRowKeeps ==
    ASSUME TeamInv, NEW p \in Requests, SaveOwnerRow(p)
    PROVE  TeamInv'
<1> USE DEF team, joining, bounds
<1> DEFINE row == [user |-> req[p].by, role |-> "OWNER", status |-> "ACTIVE"]
<1>1. TypeOK /\ ViewsAgree /\ New /\ NewFits /\ req[p].at = "ownerRow"
  BY DEF TeamInv, SaveOwnerRow, At, New
<1>2. row \in Row
  <2>1. req[p] \in Request BY <1>1 DEF TypeOK
  <2> QED BY <2>1 DEF Row, Request
<1>3. Insert(row) /\ End(p) /\ UNCHANGED <<ws, codes, admitted, lock, revived, started, faults>>
  BY DEF SaveOwnerRow
<1>4. /\ req' \in [Requests -> Request] /\ Moves(p)
      /\ req'[p] = Idle /\ req'[p].at = "idle" /\ req'[p].seen = NoRows
  BY <1>1, <1>3, EndMoves
<1>5. /\ born' = born + 1 /\ born' \in 0 .. MaxRows /\ rows' \in Table /\ born \in Nat
      /\ Ids(rows)' = Ids(rows) \cup {born + 1} /\ born + 1 \notin Ids(rows)
      /\ \A i \in Ids(rows) : rows'[i] = rows[i]
      /\ Ids(rows)' \subseteq 1 .. born'
  BY <1>1, <1>2, <1>3, InsertType, TeamConstants DEF TypeOK
<1> HIDE DEF row
<1>6. TypeOK'
  <2>1. revived' \subseteq 1 .. born' BY <1>1, <1>3, <1>5 DEF TypeOK
  <2> QED BY <1>1, <1>3, <1>4, <1>5, <2>1 DEF TypeOK
<1>7. ViewsAgree' BY <1>1, <1>4, <1>5, <1>6, ViewsKeep
<1>8. CodesFit' BY <1>3 DEF TeamInv, CodesFit
<1>9. \A q \in Requests : req'[q].at \in Early
  BY <1>1, <1>4 DEF NewFits, Moves, Early
<1>10. ASSUME NEW q \in Requests PROVE Fits(q)'
  <2>1. CASE q = p BY <1>4, <2>1 DEF Fits, Critical
  <2>2. CASE q # p
    <3>1. req'[q] = req[q] /\ Fits(q) BY <1>4, <2>2 DEF Moves, TeamInv
    <3> QED BY <1>9, <3>1 DEF Fits, Early, Critical
  <2> QED BY <2>1, <2>2
<1>11. ~New' BY <1>5, <1>9 DEF New, Early
<1>12. NoOverfill'
  <2>1. Active(rows)' \subseteq {born + 1} BY <1>1, <1>5 DEF NewFits, Active
  <2>2. Counted' \subseteq {born + 1} BY <2>1 DEF Counted
  <2>3. Cardinality(Counted') <= 1 /\ Cardinality(Counted') \in Nat
    <3>1. IsFiniteSet({born + 1}) /\ Cardinality({born + 1}) = 1 BY FS_Singleton
    <3> QED BY <2>2, <3>1, FS_Subset, FS_CardinalityType
  <2>4. MaxMembers >= 1 /\ MaxMembers \in Nat BY TeamConstants
  <2> QED BY <2>3, <2>4 DEF NoOverfill, Counted
<1> QED BY <1>6, <1>7, <1>8, <1>10, <1>11, <1>12 DEF TeamInv

\* The code was marked before the member is let in, and the lock keeps all
\* others out in between.
LEMMA SaveJoinerKeeps ==
    ASSUME TeamInv, NEW p \in Requests, SaveJoiner(p)
    PROVE  TeamInv'
<1> USE DEF team, joining, bounds
<1> DEFINE row == [user |-> req[p].by, role |-> "MEMBER", status |-> "ACTIVE"]
           k == req[p].code
<1>1. TypeOK /\ ViewsAgree /\ CodesFit /\ Fits(p) /\ req[p].at = "saveJoiner"
  BY DEF TeamInv, SaveJoiner, At
<1>2. /\ lock = p /\ k \in Codes /\ admitted[k] = 0 /\ codes[k] \in {"used", "over"}
      /\ Cardinality(Counted) < MaxMembers
  BY <1>1 DEF Fits, Critical
<1>3. Go(p, "unlock") /\ UNCHANGED <<ws, codes, lock, revived, started, faults>>
  BY DEF SaveJoiner
<1>4. /\ req' \in [Requests -> Request] /\ Moves(p)
      /\ req'[p].at = "unlock" /\ req'[p].seen = req[p].seen
      /\ req'[p].row = req[p].row /\ req'[p].code = req[p].code
  BY <1>1, <1>3, GoMoves DEF Steps
<1>5. ~New
  <2>1. ~NewFits BY <1>1 DEF NewFits, Early
  <2> QED BY <2>1 DEF TeamInv
<1>6. born' \in Nat /\ born \in Nat /\ born <= born' /\ born # 0
  <2>1. born \in Nat /\ born # 0 BY <1>1, <1>5, TeamConstants DEF TypeOK, New
  <2>2. born' = born \/ born' = born + 1 BY DEF SaveJoiner, Insert
  <2> QED BY <2>1, <2>2
<1>7. ~New' BY <1>4, <1>5, <1>6 DEF New, Moves
<1>8. ASSUME NEW q \in Requests PROVE Fits(q)'
  <2>1. CASE q = p BY <1>2, <1>3, <1>4, <2>1 DEF Fits, Critical
  <2>2. CASE q # p
    <3>1. req'[q] = req[q] /\ Fits(q) BY <1>4, <2>2 DEF Moves, TeamInv
    <3>2. req[q].at \notin Critical BY <1>2, <2>2, <3>1 DEF Fits
    <3> QED BY <1>3, <3>1, <3>2 DEF Fits, Ids, Critical
  <2> QED BY <2>1, <2>2
<1>9. CASE UNCHANGED <<rows, born, admitted>>
  <2>1. TypeOK' BY <1>1, <1>3, <1>4, <1>9 DEF TypeOK, Ids
  <2>2. ViewsAgree' BY <1>1, <1>4, <1>6, <1>9, <2>1, ViewsKeep DEF Ids
  <2>3. CodesFit' BY <1>1, <1>3, <1>9 DEF CodesFit
  <2>4. NoOverfill' BY <1>3, <1>9 DEF TeamInv, NoOverfill, Active, Ids
  <2> QED BY <1>7, <1>8, <2>1, <2>2, <2>3, <2>4 DEF TeamInv
<1>10. CASE Insert(row) /\ admitted' = [admitted EXCEPT ![k] = @ + 1]
  <2>1. row \in Row
    <3>1. req[p] \in Request BY <1>1 DEF TypeOK
    <3> QED BY <3>1 DEF Row, Request
  <2>2. /\ born' = born + 1 /\ born' \in 0 .. MaxRows /\ rows' \in Table
        /\ Ids(rows)' = Ids(rows) \cup {born + 1} /\ born + 1 \notin Ids(rows)
        /\ \A i \in Ids(rows) : rows'[i] = rows[i]
        /\ Ids(rows)' \subseteq 1 .. born'
    BY <1>1, <1>10, <2>1, InsertType
  <2> HIDE DEF row
  <2>3. admitted' \in [Codes -> Nat] /\ admitted'[k] = 1
        /\ \A c \in Codes \ {k} : admitted'[c] = admitted[c]
    BY <1>1, <1>2, <1>10 DEF TypeOK
  <2>4. TypeOK'
    <3>1. revived' \subseteq 1 .. born' BY <1>1, <1>3, <2>2 DEF TypeOK
    <3> QED BY <1>1, <1>3, <1>4, <2>2, <2>3, <3>1 DEF TypeOK
  <2>5. ViewsAgree'
    <3>1. \A i \in Ids(rows)' : (i \in Ids(rows) /\ rows'[i].status = rows[i].status) \/ i > born
      BY <1>6, <2>2
    <3> QED BY <1>1, <1>4, <1>6, <2>4, <3>1, ViewsKeep
  <2>6. CodesFit' BY <1>1, <1>2, <1>3, <2>3 DEF CodesFit
  <2>7. NoOverfill'
    <3>1. Counted \in SUBSET RowIds BY DEF Counted, Active, Ids
    <3>2. Counted' \in SUBSET (Counted \cup {born + 1})
      BY <1>3, <2>2 DEF Counted, Active
    <3>3. /\ Cardinality(Counted) \in Nat /\ Cardinality(Counted') \in Nat
          /\ Cardinality(Counted') <= Cardinality(Counted) + 1
      BY <3>1, <3>2, GrowsByOne, TeamConstants
    <3>4. Cardinality(Counted') <= MaxMembers BY <1>2, <3>3, TeamConstants
    <3> QED BY <3>4 DEF NoOverfill, Counted
  <2> QED BY <1>7, <1>8, <2>4, <2>5, <2>6, <2>7 DEF TeamInv
<1> QED BY <1>9, <1>10 DEF SaveJoiner

LEMMA ContinueKeeps ==
    ASSUME TeamInv, NEW p \in Requests,
           Continue(p) /\ ~SaveOwnerRow(p)
    PROVE  TeamInv'
<1> USE DEF Unchanged, team, joining, bounds
<1>1. TypeOK /\ ViewsAgree /\ Fits(p) BY DEF TeamInv
<1>2. req[p] \in Request /\ req[p].seen \in Table BY <1>1 DEF TypeOK, Request
<1>3. \A q \in Requests \ {p} : req[q].at \in Critical => lock = q
  BY DEF TeamInv, Fits
<1>4. req[p].at \notin Early => ~NewFits \/ req[p].at = "ownerRow" BY DEF NewFits
<1>5. ASSUME NewFits, ~(req[p].at = "ownerRow") PROVE req[p].at \in Early
  BY <1>5 DEF NewFits
\* A request that ends, or goes on, without touching the rows.
<1>6. ASSUME \/ End(p)
             \/ \E step \in Steps \ (Critical \cup {"lock", "ownerRow"}) :
                   /\ Go(p, step)
                   /\ NewFits => step \in Early /\ codes' = codes
                   /\ step \in {"removeFind", "deleteRow"} => req[p].row \in RowIds
                   /\ step \in {"saveRole", "promote", "demote", "saveOwner"} =>
                         req[p].row \in Ids(req[p].seen),
             UNCHANGED <<rows, born, admitted, lock, revived, started, faults>>,
             ws' \in Users \cup {Null},
             codes' \in [Codes -> {"unborn", "open", "used", "over"}],
             NewFits => codes' = codes,
             \A k \in Codes : /\ codes[k] # "unborn" => codes'[k] # "unborn"
                              /\ codes[k] \in {"used", "over"} => codes'[k] \in {"used", "over"}
      PROVE  TeamInv'
  <2>1. CASE End(p)
    <3>1. /\ req' \in [Requests -> Request] /\ Moves(p)
          /\ req'[p].at = "idle" /\ req'[p].seen = NoRows
      BY <1>1, <2>1, EndMoves
    <3>2. TypeOK' BY <1>1, <1>6, <3>1 DEF TypeOK, Ids
    <3>3. Fits(p)' BY <3>1 DEF Fits, Critical
    <3>4. req'[p].at \in Early /\ req'[p].at # "ownerRow" BY <3>1 DEF Early
    <3> QED BY <1>3, <1>6, <3>1, <3>2, <3>3, <3>4, QuietStep
  <2>2. ASSUME NEW step \in Steps \ (Critical \cup {"lock", "ownerRow"}),
                 Go(p, step), NewFits => step \in Early,
                 step \in {"removeFind", "deleteRow"} => req[p].row \in RowIds,
                 step \in {"saveRole", "promote", "demote", "saveOwner"} =>
                         req[p].row \in Ids(req[p].seen)
        PROVE  TeamInv'
    <3>1. /\ req' \in [Requests -> Request] /\ Moves(p)
          /\ req'[p].at = step /\ req'[p].seen = req[p].seen
          /\ req'[p].row = req[p].row /\ req'[p].code = req[p].code
      BY <1>1, <2>2, GoMoves
    <3>2. TypeOK' BY <1>1, <1>6, <3>1 DEF TypeOK, Ids
    <3>3. Fits(p)' BY <2>2, <3>1 DEF Fits, Critical, Ids
    <3> QED BY <1>3, <1>6, <2>2, <3>1, <3>2, <3>3, QuietStep
  <2> QED BY <1>6, <2>1, <2>2
<1>7. CASE CountMembers(p)
  BY <1>1, <1>6, <1>7 DEF CountMembers, Steps, Critical, Early, TypeOK
<1>8. CASE FindRemoved(p)
  <2>1. req' = [req EXCEPT ![p].at = "deleteRow", ![p].seen = rows] BY <1>8 DEF FindRemoved
  <2> DEFINE r == [req[p] EXCEPT !.at = "deleteRow", !.seen = rows]
  <2>2. /\ r \in Request /\ r.at = "deleteRow" /\ r.seen = rows /\ r.row = req[p].row
    BY <1>1, <1>2 DEF TypeOK, Request, Steps
  <2>3. req' = [req EXCEPT ![p] = r] BY <2>1
  <2> HIDE DEF r
  <2>4. req' \in [Requests -> Request] /\ Moves(p) /\ req'[p] = r
    BY <1>1, <2>2, <2>3 DEF TypeOK, Moves
  <2>5. UNCHANGED <<ws, rows, born, codes, admitted, lock, revived, started, faults>>
    BY <1>8 DEF FindRemoved
  <2>6. TypeOK' BY <1>1, <2>4, <2>5 DEF TypeOK, Ids
  <2>7. Fits(p)'
    <3>1. req[p].row \in RowIds BY <1>1, <1>8 DEF Fits, FindRemoved, At
    <3> QED BY <2>2, <2>4, <3>1 DEF Fits, Critical
  <2> QED BY <1>3, <2>2, <2>4, <2>5, <2>6, <2>7, QuietStep DEF Early
<1>9. CASE ApplyRemoved(p)
  BY <1>1, <1>6, <1>9 DEF ApplyRemoved, TypeOK
<1>10. CASE CountCodes(p)
  <2>1. ~NewFits BY <1>5, <1>10 DEF CountCodes, At, Early
  <2> QED BY <1>1, <1>6, <1>10, <2>1 DEF CountCodes, Steps, Critical, Early, TypeOK
<1>11. CASE SaveCode(p)
  <2>1. ~NewFits BY <1>5, <1>11 DEF SaveCode, At, Early
  <2>2. PICK k \in Codes : codes[k] = "unborn" /\ codes' = [codes EXCEPT ![k] = "open"]
    BY <1>11 DEF SaveCode
  <2> QED BY <1>1, <1>6, <1>11, <2>1, <2>2 DEF SaveCode, TypeOK
<1>12. CASE DeleteCodes(p)
  <2>1. ~NewFits BY <1>5, <1>12 DEF DeleteCodes, At, Early
  <2> QED BY <1>1, <1>6, <1>12, <2>1 DEF DeleteCodes, Steps, Critical, TypeOK
<1>13. CASE SaveName(p)
  BY <1>1, <1>2, <1>6, <1>13 DEF SaveName, TypeOK, Request
<1>14. CASE SaveOwner(p)
  <2>1. req[p].row \in Ids(req[p].seen) BY <1>1, <1>14 DEF Fits, SaveOwner, At
  <2>2. req[p].seen[req[p].row].user \in Users \cup {Null}
    BY <1>2, <2>1 DEF Table, Row, Ids
  <2> QED BY <1>1, <1>6, <1>14, <2>2 DEF SaveOwner, TypeOK
<1>15. CASE SaveInvite(p)
  <2> DEFINE row == [user |-> Null, role |-> "MEMBER", status |-> "PENDING"]
  <2>1. row \in Row /\ row.user = Null /\ row.status = "PENDING" BY DEF Row
  <2>2. Insert(row) /\ End(p) /\ UNCHANGED <<ws, codes, admitted, lock, revived, started, faults>>
    BY <1>15 DEF SaveInvite
  <2> HIDE DEF row
  <2>3. /\ req' \in [Requests -> Request] /\ Moves(p)
        /\ req'[p].at = "idle" /\ req'[p].seen = NoRows
    BY <1>1, <2>2, EndMoves
  <2>4. /\ born' = born + 1 /\ born' \in 0 .. MaxRows /\ rows' \in Table /\ born \in Nat
        /\ Ids(rows)' = Ids(rows) \cup {born + 1} /\ born + 1 \notin Ids(rows)
        /\ rows'[born + 1] = row
        /\ \A i \in Ids(rows) : rows'[i] = rows[i]
        /\ Ids(rows)' \subseteq 1 .. born'
    BY <1>1, <2>1, <2>2, InsertType, TeamConstants DEF TypeOK
  <2>5. TypeOK'
    <3>1. revived' \subseteq 1 .. born' BY <1>1, <2>2, <2>4 DEF TypeOK
    <3> QED BY <1>1, <2>2, <2>3, <2>4, <3>1 DEF TypeOK
  <2>6. (New => NewFits)'
    <3>1. New' => New /\ NewFits BY <2>3, <2>4 DEF TeamInv, New, Moves
    <3>2. NewFits => NewFits' BY <2>1, <2>2, <2>3, <2>4 DEF NewFits, Moves, Early
    <3> QED BY <3>1, <3>2
  <2>7. Fits(p)' BY <2>3 DEF Fits, Critical
  <2>8. Counted' \subseteq Counted BY <2>1, <2>2, <2>4 DEF Counted, Active
  <2>9. \A i \in Ids(rows)' : (i \in Ids(rows) /\ rows'[i].status = rows[i].status) \/ i > born
    BY <2>4
  <2>10. born <= born' BY <2>4
  <2>11. req'[p].at \notin Critical /\ req'[p].at # "ownerRow" BY <2>3 DEF Critical
  <2> QED BY <2>2, <2>3, <2>5, <2>6, <2>7, <2>8, <2>9, <2>10, <2>11, RowsStep
\* A request that deletes rows.
<1>16. ASSUME \/ End(p)
              \/ \E step \in {"transition", "removeWorkspace"} :
                    Go(p, step) /\ (NewFits => step \in Early),
              \A i \in RowIds : rows'[i] \in {rows[i], Null},
              rows' \in Table, ws' \in Users \cup {Null},
              UNCHANGED <<born, codes, admitted, lock, revived, started, faults>>
       PROVE  TeamInv'
  <2>1. PICK step \in {"idle", "transition", "removeWorkspace"} :
           /\ req' \in [Requests -> Request] /\ Moves(p) /\ req'[p].at = step
           /\ req'[p].seen \in {NoRows, req[p].seen}
           /\ NewFits => step \in Early
    <3>1. CASE End(p) BY <1>1, <3>1, EndMoves DEF Early
    <3>2. CASE ~End(p)
      <4>1. PICK step \in {"transition", "removeWorkspace"} :
                    Go(p, step) /\ (NewFits => step \in Early)
        BY <1>16, <3>2
      <4>2. step \in Steps BY DEF Steps
      <4> QED BY <1>1, <4>1, <4>2, GoMoves
    <3> QED BY <3>1, <3>2
  <2>2. Ids(rows)' \subseteq Ids(rows) /\ \A i \in Ids(rows)' : rows'[i] = rows[i]
    BY <1>16 DEF Ids
  <2>3. TypeOK' BY <1>1, <1>16, <2>1, <2>2 DEF TypeOK
  <2>4. Counted' \subseteq Counted BY <1>16, <2>2 DEF Counted, Active
  <2>5. (New => NewFits)'
    <3>1. New' => New /\ NewFits BY <1>16, <2>1 DEF TeamInv, New, Moves
    <3>2. NewFits => NewFits' BY <1>16, <2>1, <2>2 DEF NewFits, Moves
    <3> QED BY <3>1, <3>2
  <2>6. Fits(p)' BY <2>1 DEF Fits, Critical
  <2>7. born <= born' BY <1>1, <1>16, TeamConstants DEF TypeOK
  <2>8. req'[p].at \notin Critical /\ req'[p].at # "ownerRow" BY <2>1 DEF Critical
  <2> QED BY <1>16, <2>1, <2>2, <2>3, <2>4, <2>5, <2>6, <2>7, <2>8, RowsStep
<1>17. CASE DeleteRow(p)
  <2>1. req[p].row \in RowIds BY <1>1, <1>17 DEF Fits, DeleteRow, At
  <2>2. rows' = [rows EXCEPT ![req[p].row] = Null]
        /\ UNCHANGED <<ws, born, codes, admitted, lock, revived, started, faults>>
    BY <1>17 DEF DeleteRow
  <2>3. rows' \in Table /\ \A i \in RowIds : rows'[i] \in {rows[i], Null}
    BY <1>1, <2>1, <2>2 DEF TypeOK, Table
  <2>4. End(p) \/ Go(p, "transition") BY <1>17 DEF DeleteRow
  <2>5. ws' \in Users \cup {Null} BY <1>1, <2>2 DEF TypeOK
  <2>6. "transition" \in Early BY DEF Early
  <2> QED BY <1>16, <2>2, <2>3, <2>4, <2>5, <2>6
<1>18. CASE DeleteMembers(p) \/ RemoveWorkspace(p)
  <2>1. rows' = NoRows /\ UNCHANGED <<born, codes, admitted, lock, revived, started, faults>>
        /\ (Go(p, "removeWorkspace") \/ End(p)) /\ ws' \in {ws, Null}
    BY <1>18 DEF DeleteMembers, RemoveWorkspace
  <2>2. ~NewFits BY <1>5, <1>18 DEF DeleteMembers, RemoveWorkspace, At, Early
  <2>3. rows' \in Table /\ \A i \in RowIds : rows'[i] = Null
    BY <2>1, IdleIsRequest DEF NoRows
  <2>4. ws' \in Users \cup {Null} BY <1>1, <2>1 DEF TypeOK
  <2> QED BY <1>16, <2>1, <2>2, <2>3, <2>4
\* A request that saves a row it has loaded, if the workspace is there still.
<1>19. ASSUME \/ End(p)
              \/ \E step \in {"demote", "saveOwner"} :
                    Go(p, step) /\ req[p].row \in Ids(req[p].seen),
              ~NewFits,
              \/ UNCHANGED <<rows, revived>>
              \/ \E i \in Ids(req[p].seen), r \in {"OWNER", "ADMIN", "MEMBER"} :
                    SaveRow(i, [req[p].seen[i] EXCEPT !.role = r]),
              UNCHANGED <<ws, born, codes, admitted, lock, started, faults>>
       PROVE  TeamInv'
  <2>1. PICK step \in {"idle", "demote", "saveOwner"} :
           /\ req' \in [Requests -> Request] /\ Moves(p) /\ req'[p].at = step
           /\ req'[p].seen \in {NoRows, req[p].seen}
           /\ step # "idle" => req'[p].row \in Ids(req'[p].seen)
    <3>1. CASE End(p) BY <1>1, <3>1, EndMoves
    <3>2. CASE ~End(p)
      <4>1. PICK step \in {"demote", "saveOwner"} : Go(p, step) /\ req[p].row \in Ids(req[p].seen)
        BY <1>19, <3>2
      <4>2. step \in Steps BY DEF Steps
      <4> QED BY <1>1, <4>1, <4>2, GoMoves
    <3> QED BY <3>1, <3>2
  <2>2. ~New' BY <1>19, <2>1 DEF TeamInv, New, Moves
  <2>3. Fits(p)' BY <2>1 DEF Fits, Critical, Ids
  <2>4. born <= born' BY <1>1, <1>19, TeamConstants DEF TypeOK
  <2>5. req'[p].at \notin Critical /\ req'[p].at # "ownerRow" BY <2>1 DEF Critical
  <2>6. CASE UNCHANGED <<rows, revived>>
    <3>1. TypeOK' BY <1>1, <1>19, <2>1, <2>6 DEF TypeOK, Ids
    <3>2. Counted' \subseteq Counted BY <2>6 DEF Counted, Active, Ids
    <3> QED BY <1>19, <2>1, <2>2, <2>3, <2>4, <2>5, <2>6, <3>1, <3>2, RowsStep DEF Ids
  <2>7. ASSUME NEW i \in Ids(req[p].seen), NEW r \in {"OWNER", "ADMIN", "MEMBER"},
               SaveRow(i, [req[p].seen[i] EXCEPT !.role = r])
        PROVE  TeamInv'
    <3> DEFINE row == [req[p].seen[i] EXCEPT !.role = r]
    <3>1. req[p].seen[i] \in Row /\ i \in RowIds BY <1>2 DEF Table, Ids
    <3>2. row \in Row /\ row.status = req[p].seen[i].status BY <3>1 DEF Row
    <3> HIDE DEF row
    <3>3. rows' = [rows EXCEPT ![i] = row] /\ revived' \subseteq revived \cup {i}
      BY <2>7 DEF SaveRow, row
    <3>4. i \in 1 .. born BY DEF TeamInv, ViewsAgree, Born
    <3>5. TypeOK'
      <4>1. rows' \in Table BY <1>1, <3>1, <3>2, <3>3 DEF TypeOK, Table
      <4>2. Ids(rows)' \subseteq Ids(rows) \cup {i}
        BY <1>1, <3>1, <3>3 DEF TypeOK, Table, Ids
      <4>3. Ids(rows)' \subseteq 1 .. born BY <1>1, <3>4, <4>2 DEF TypeOK
      <4>4. revived' \subseteq 1 .. born BY <1>1, <3>3, <3>4 DEF TypeOK
      <4> QED BY <1>1, <1>19, <2>1, <4>1, <4>3, <4>4 DEF TypeOK
    <3>6. /\ \A j \in Ids(rows)' :
                 \/ j \in Ids(rows) /\ rows'[j].status = rows[j].status
                 \/ j \in Ids(req[p].seen) /\ rows'[j].status = req[p].seen[j].status
          /\ Counted' \subseteq Counted
      BY <1>1, <2>7, <3>2, <3>5, SaveRowType DEF row
    <3> QED BY <1>19, <2>1, <2>2, <2>3, <2>4, <2>5, <3>5, <3>6, RowsStep
  <2> QED BY <1>19, <2>6, <2>7
<1>20. CASE SaveRole(p)
  <2>1. req[p].row \in Ids(req[p].seen) BY <1>1, <1>20 DEF Fits, SaveRole, At
  <2>2. ~NewFits BY <1>5, <1>20 DEF SaveRole, At, Early
  <2>3. req[p].role \in {"OWNER", "ADMIN", "MEMBER"} BY <1>2 DEF Request
  <2> QED BY <1>19, <1>20, <2>1, <2>2, <2>3 DEF SaveRole
<1>21. CASE Promote(p)
  <2>1. req[p].row \in Ids(req[p].seen) BY <1>1, <1>21 DEF Fits, Promote, At
  <2>2. ~NewFits BY <1>5, <1>21 DEF Promote, At, Early
  <2> QED BY <1>19, <1>21, <2>1, <2>2 DEF Promote
<1>22. CASE Demote(p)
  <2>1. req[p].row \in Ids(req[p].seen) BY <1>1, <1>22 DEF Fits, Demote, At
  <2>2. ~NewFits BY <1>5, <1>22 DEF Demote, At, Early
  <2> DEFINE own == {i \in RowsOf(req[p].seen, req[p].by) : req[p].seen[i].role = "OWNER"}
  <2>3. own \subseteq Ids(req[p].seen) BY DEF RowsOf
  <2>4. /\ End(p) \/ Go(p, "saveOwner")
        /\ \/ UNCHANGED <<rows, revived>>
           \/ \E i \in own : SaveRow(i, [req[p].seen[i] EXCEPT !.role = "ADMIN"])
        /\ UNCHANGED <<ws, born, codes, admitted, lock, started, faults>>
    BY <1>22 DEF Demote
  <2> HIDE DEF own
  <2> QED BY <1>19, <2>1, <2>2, <2>3, <2>4
<1> QED
  BY <1>7, <1>8, <1>9, <1>10, <1>11, <1>12, <1>13, <1>14, <1>15, <1>17, <1>18,
     <1>20, <1>21, <1>22 DEF Continue

LEMMA FaultsKeep ==
    ASSUME TeamInv, NEW p \in Requests, Fails(p) \/ Dies(p)
    PROVE  TeamInv'
<1> USE DEF Unchanged, team, joining
<1>1. TypeOK /\ Fits(p) BY DEF TeamInv
<1>2. UNCHANGED <<ws, rows, born, codes, admitted, lock, revived, started>>
  BY DEF Fails, Dies
<1>3. faults' \in 0 .. MaxFaults
  BY <1>1, TeamConstants DEF Fails, Dies, TypeOK
<1>4. \A q \in Requests \ {p} : req[q].at \in Critical => lock' = q
  BY <1>2 DEF TeamInv, Fits
<1>5. CASE End(p)
  <2>1. /\ req' \in [Requests -> Request] /\ Moves(p)
        /\ req'[p].at = "idle" /\ req'[p].seen = NoRows
    BY <1>1, <1>5, EndMoves
  <2>2. TypeOK' BY <1>1, <1>2, <1>3, <2>1 DEF TypeOK, Ids
  <2>3. Fits(p)' BY <2>1 DEF Fits, Critical
  <2> QED BY <1>2, <1>4, <2>1, <2>2, <2>3, QuietStep DEF Early
<1>6. CASE req[p].at \in Critical /\ Go(p, "unlock")
  <2>1. /\ req' \in [Requests -> Request] /\ Moves(p)
        /\ req'[p].at = "unlock" /\ req'[p].seen = req[p].seen
        /\ req'[p].row = req[p].row /\ req'[p].code = req[p].code
    BY <1>1, <1>6, GoMoves DEF Steps
  <2>2. TypeOK' BY <1>1, <1>2, <1>3, <2>1 DEF TypeOK, Ids
  <2>3. Fits(p)' BY <1>1, <1>2, <1>6, <2>1 DEF Fits, Critical
  <2>4. ~NewFits BY <1>6 DEF NewFits, Early, Critical
  <2> QED BY <1>2, <1>4, <2>1, <2>2, <2>3, <2>4, QuietStep
<1> QED BY <1>5, <1>6 DEF Fails, Dies

\* Nobody moves: a code or the lock runs out, or nothing happens.
LEMMA ClockKeeps ==
    ASSUME TeamInv, ~SlowJoins,
           (\E k \in Codes : CodeExpires(k)) \/ LockExpires \/ UNCHANGED vars
    PROVE  TeamInv'
<1> USE DEF team, joining, bounds, vars
<1>1. TypeOK BY DEF TeamInv
<1>2. UNCHANGED <<ws, rows, born, admitted, req, revived, started, faults>>
  BY DEF CodeExpires, LockExpires
<1>3. /\ codes' \in [Codes -> {"unborn", "open", "used", "over"}]
      /\ \A k \in Codes : codes'[k] = codes[k] \/ (codes[k] = "open" /\ codes'[k] = "over")
  <2>1. codes \in [Codes -> {"unborn", "open", "used", "over"}] BY <1>1 DEF TypeOK
  <2>2. ASSUME NEW k \in Codes, CodeExpires(k)
        PROVE  codes[k] = "open" /\ codes' = [codes EXCEPT ![k] = "over"]
    BY <2>2 DEF CodeExpires
  <2>3. ASSUME NEW k \in Codes, codes[k] = "open", codes' = [codes EXCEPT ![k] = "over"]
        PROVE  /\ codes' \in [Codes -> {"unborn", "open", "used", "over"}]
               /\ \A c \in Codes : codes'[c] = codes[c] \/ (codes[c] = "open" /\ codes'[c] = "over")
    <3>1. codes' \in [Codes -> {"unborn", "open", "used", "over"}] BY <2>1, <2>3
    <3>2. codes'[k] = "over" /\ \A c \in Codes \ {k} : codes'[c] = codes[c] BY <2>1, <2>3
    <3> QED BY <2>3, <3>1, <3>2
  <2>4. (\A k \in Codes : ~CodeExpires(k)) => codes' = codes BY DEF LockExpires
  <2>5. CASE codes' = codes BY <2>1, <2>5
  <2>6. CASE \E k \in Codes : CodeExpires(k) BY <2>2, <2>3, <2>6
  <2> QED BY <2>4, <2>5, <2>6
<1>4. lock' \in Requests \cup {Null}
      /\ \A q \in Requests : req[q].at \in Critical => lock' = q
  <2>1. \A q \in Requests : req[q].at \in Critical => lock = q BY DEF TeamInv, Fits
  <2>2. CASE LockExpires
    <3>1. lock \in Requests /\ req[lock].at \notin Critical /\ lock' = Null
      BY <1>1, <2>2 DEF TypeOK, LockExpires
    <3> QED BY <2>1, <3>1
  <2>3. CASE lock' = lock BY <1>1, <2>1, <2>3 DEF TypeOK
  <2> QED BY <2>2, <2>3 DEF CodeExpires
<1>5. TypeOK' BY <1>1, <1>2, <1>3, <1>4 DEF TypeOK, Ids
<1>6. CodesFit' BY <1>2, <1>3 DEF TeamInv, CodesFit
<1>7. ASSUME NEW q \in Requests PROVE Fits(q)'
  <2>1. Fits(q) BY DEF TeamInv
  <2>2. Counted' = Counted BY <1>2 DEF Counted, Active, Ids
  <2>3. req[q].at \in Critical \cup {"lock"} =>
           req[q].code \in Codes /\ codes'[req[q].code] # "unborn"
    BY <1>3, <2>1 DEF Fits
  <2>4. req[q].at = "saveJoiner" => codes'[req[q].code] \in {"used", "over"}
    BY <1>3, <2>1 DEF Fits, Critical
  <2> QED BY <1>2, <1>4, <2>1, <2>2, <2>3, <2>4 DEF Fits, Ids
<1>8. ViewsAgree' BY <1>2 DEF TeamInv, ViewsAgree, Agree, Born, Ids
<1>9. (New => NewFits)' BY <1>2, <1>3 DEF TeamInv, New, NewFits, Ids
<1>10. NoOverfill' BY <1>2 DEF TeamInv, NoOverfill, Active, Ids
<1> QED BY <1>5, <1>6, <1>7, <1>8, <1>9, <1>10 DEF TeamInv

LEMMA TeamInvHolds == ASSUME ~SlowJoins PROVE Spec => []TeamInv
<1>1. Init => TeamInv
  <2> SUFFICES ASSUME Init PROVE TeamInv OBVIOUS
  <2>1. Ids(rows) = {} /\ Ids(NoRows) = {} BY DEF Init, Ids, NoRows
  <2>2. TypeOK BY <2>1, TeamConstants, IdleIsRequest DEF Init, TypeOK
  <2>3. \A p \in Requests : req[p] = Idle BY DEF Init
  <2>4. \A p \in Requests : Fits(p) BY <2>3 DEF Fits, Idle, Critical
  <2>5. ViewsAgree BY <2>1, <2>3 DEF ViewsAgree, Agree, Born, Idle
  <2>6. NewFits BY <2>1, <2>3 DEF Init, NewFits, Early, Idle
  <2>7. NoOverfill
    <3>1. Active(rows) \ revived = {} BY <2>1 DEF Active
    <3> QED BY <3>1, FS_EmptySet, TeamConstants DEF NoOverfill
  <2>8. CodesFit BY DEF Init, CodesFit
  <2> QED BY <2>2, <2>4, <2>5, <2>6, <2>7, <2>8 DEF TeamInv
<1>2. TeamInv /\ [Next]_vars => TeamInv'
  <2> SUFFICES ASSUME TeamInv, [Next]_vars PROVE TeamInv' OBVIOUS
  <2>1. ASSUME NEW p \in Requests,
               Begin(p) \/ Join(p) \/ Continue(p) \/ Fails(p) \/ Dies(p)
        PROVE  TeamInv'
    BY <2>1, BeginKeeps, SaveWorkspaceKeeps, JoinKeeps, SaveJoinerKeeps, ContinueKeeps,
       SaveOwnerRowKeeps, FaultsKeep
  <2> QED BY <2>1, ClockKeeps DEF Next
<1> QED BY <1>1, <1>2, PTL DEF Spec

\* WorkspaceService.joinByCode, whatever runs beside it: while its lock lasts
\* as long as the join, as many joins, invitations, role changes, transfers
\* and deletions as there may be, failing where they may, leave the workspace
\* within its limit.
THEOREM TeamIsNeverOverfilled == ASSUME ~SlowJoins PROVE Spec => []NoOverfill
BY TeamInvHolds, PTL DEF TeamInv

\* WorkspaceService.joinByCode: under the same condition no code lets in two
\* members, even one that is marked used, deleted with its workspace or out
\* of time in the middle of a join.
THEOREM InviteCodesAreSingleUse == ASSUME ~SlowJoins PROVE Spec => []CodesAreSingleUse
<1>1. TeamInv => CodesAreSingleUse BY DEF TeamInv, CodesFit, CodesAreSingleUse
<1> QED BY <1>1, TeamInvHolds, PTL

-----------------------------------------------------------------------------
(* AiGate: holders, the queue and the counter                              *)

\* A request at the gate.
Gated == [pc : Ai!Steps, op : DOMAIN Ai!Calls \cup {"none"},
          calls : Seq({"chat", "vision", "whisper", "search"}),
          cost : Estimates \cup {0}, attempt : Nat]
Queued == {r \in Asks : ask[r].pc = "queued"}

GateInv ==
    /\ ask \in [Asks -> Gated]
    /\ \A r \in Asks : ask[r].pc # "idle" => ask[r].calls # <<>>
    /\ queue \in Seq(Asks)
    /\ active \in Nat /\ kept \in Nat /\ active <= MaxConcurrency
    /\ active = Cardinality(Ai!Holders) + kept
    /\ {queue[i] : i \in 1 .. Len(queue)} = Queued
    /\ \A i, j \in 1 .. Len(queue) : queue[i] = queue[j] => i = j
    /\ queue # <<>> => active = MaxConcurrency

LEMMA SameCardinality == \A S : Ai!Cardinality(S) = Cardinality(S)
  BY DEF Ai!Cardinality, Cardinality, Ai!IsFiniteSet, IsFiniteSet

LEMMA GateInvImplies == GateInv => Ai!SlotsAreAccounted
<1> SUFFICES ASSUME GateInv PROVE Ai!SlotsAreAccounted OBVIOUS
<1>1. DOMAIN queue = 1 .. Len(queue) BY DEF GateInv
<1>2. Ai!ToSet(queue) = Queued BY <1>1 DEF GateInv, Ai!ToSet
<1>3. Queued = {r \in Asks : Ai!At(r, "queued")} BY DEF Queued, Ai!At
<1>4. Ai!IsInjective(queue) BY <1>1 DEF GateInv, Ai!IsInjective
<1>5. active = Ai!Cardinality(Ai!Holders) + kept BY SameCardinality DEF GateInv
<1> QED BY <1>2, <1>3, <1>4, <1>5 DEF GateInv, Ai!SlotsAreAccounted

LEMMA Holders ==
    ASSUME NEW S \in SUBSET Asks, NEW r \in Asks
    PROVE  /\ IsFiniteSet(S) /\ Cardinality(S) \in Nat
           /\ r \notin S => Cardinality(S \cup {r}) = Cardinality(S) + 1
           /\ r \in S => Cardinality(S \ {r}) = Cardinality(S) - 1
<1>1. IsFiniteSet(S) BY AiConstants, FS_Subset
<1> QED BY <1>1, FS_CardinalityType, FS_AddElement, FS_RemoveElement

\* A step of one request that neither takes a slot nor gives one back.
LEMMA GateQuiet ==
    ASSUME GateInv, NEW r \in Asks, NEW x \in Gated, ask' = [ask EXCEPT ![r] = x],
           UNCHANGED <<active, queue, kept>>,
           ask[r].pc # "queued", x.pc # "queued",
           x.pc \in {"budget", "call", "backoff"} <=> ask[r].pc \in {"budget", "call", "backoff"},
           x.pc # "idle" => x.calls # <<>>
    PROVE  GateInv'
<1>1. ask' \in [Asks -> Gated] /\ ask'[r] = x /\ \A q \in Asks \ {r} : ask'[q] = ask[q]
  BY DEF GateInv
<1>2. Ai!Holders' = Ai!Holders BY <1>1 DEF Ai!Holders, Ai!Holding
<1>3. Queued' = Queued BY <1>1 DEF Queued
<1>4. \A q \in Asks : ask'[q].pc # "idle" => ask'[q].calls # <<>> BY <1>1 DEF GateInv
<1> QED BY <1>1, <1>2, <1>3, <1>4 DEF GateInv

LEMMA GateAcquires ==
    ASSUME GateInv, NEW r \in Asks, Ai!AcquireSlot(r)
    PROVE  GateInv'
<1>1. ask[r] \in Gated /\ ask[r].pc = "acquire" /\ ask[r].calls # <<>> /\ kept' = kept
  BY DEF GateInv, Ai!AcquireSlot, Ai!At
<1>2. r \notin Ai!Holders /\ r \notin Queued /\ Ai!Holders \in SUBSET Asks
  BY <1>1 DEF Ai!Holders, Ai!Holding, Queued
<1>3. CASE active < MaxConcurrency
  <2>1. active' = active + 1 /\ queue' = queue /\ ask' = [ask EXCEPT ![r].pc = Ai!Admitted(r)]
    BY <1>3 DEF Ai!AcquireSlot, Ai!Goto
  <2>2. Ai!Admitted(r) \in {"budget", "call"} BY DEF Ai!Admitted
  <2>3. /\ ask' \in [Asks -> Gated] /\ ask'[r].pc \in {"budget", "call"}
        /\ ask'[r].calls = ask[r].calls /\ \A q \in Asks \ {r} : ask'[q] = ask[q]
    BY <1>1, <2>1, <2>2 DEF GateInv, Gated, Ai!Steps
  <2>4. Ai!Holders' = Ai!Holders \cup {r} BY <2>3 DEF Ai!Holders, Ai!Holding
  <2>5. Queued' = Queued BY <1>1, <2>3 DEF Queued
  <2>6. Cardinality(Ai!Holders') = Cardinality(Ai!Holders) + 1 /\ Cardinality(Ai!Holders) \in Nat
    BY <1>2, <2>4, Holders
  <2>7. queue = <<>> BY <1>3, AiConstants DEF GateInv
  <2>8. active' = Cardinality(Ai!Holders') + kept' BY <1>1, <2>1, <2>6 DEF GateInv
  <2>9. active' \in Nat /\ active' <= MaxConcurrency BY <1>3, <2>1, AiConstants DEF GateInv
  <2>10. \A q \in Asks : ask'[q].pc # "idle" => ask'[q].calls # <<>>
    BY <1>1, <2>3 DEF GateInv
  <2> QED BY <1>1, <2>1, <2>3, <2>5, <2>7, <2>8, <2>9, <2>10 DEF GateInv
<1>4. CASE ~(active < MaxConcurrency)
  <2>1. active' = active /\ queue' = Append(queue, r) /\ ask' = [ask EXCEPT ![r].pc = "queued"]
    BY <1>4 DEF Ai!AcquireSlot, Ai!Goto
  <2>2. /\ ask' \in [Asks -> Gated] /\ ask'[r].pc = "queued"
        /\ ask'[r].calls = ask[r].calls /\ \A q \in Asks \ {r} : ask'[q] = ask[q]
    BY <1>1, <2>1 DEF GateInv, Gated, Ai!Steps
  <2>3. Ai!Holders' = Ai!Holders BY <1>1, <2>2 DEF Ai!Holders, Ai!Holding
  <2>4. Queued' = Queued \cup {r} BY <2>2 DEF Queued
  <2>5. /\ queue' \in Seq(Asks) /\ Len(queue') = Len(queue) + 1 /\ Len(queue) \in Nat
        /\ queue'[Len(queue) + 1] = r
        /\ \A i \in 1 .. Len(queue) : queue'[i] = queue[i]
    BY <2>1 DEF GateInv
  <2>6. {queue'[i] : i \in 1 .. Len(queue')} = Queued'
    <3>1. \A i \in 1 .. Len(queue') : i \in 1 .. Len(queue) \/ i = Len(queue) + 1 BY <2>5
    <3>2. \A i \in 1 .. Len(queue) : i \in 1 .. Len(queue') BY <2>5
    <3>3. Len(queue) + 1 \in 1 .. Len(queue') BY <2>5
    <3>4. {queue[i] : i \in 1 .. Len(queue)} = Queued BY DEF GateInv
    <3>5. \A x : x \in Queued' <=> \E i \in 1 .. Len(queue') : queue'[i] = x
      BY <2>4, <2>5, <3>1, <3>2, <3>3, <3>4
    <3> QED BY <3>5
  <2>7. \A i, j \in 1 .. Len(queue') : queue'[i] = queue'[j] => i = j
    <3>1. \A i \in 1 .. Len(queue) : queue[i] # r
      BY <1>2 DEF GateInv
    <3>2. \A i \in 1 .. Len(queue') : i \in 1 .. Len(queue) \/ i = Len(queue) + 1 BY <2>5
    <3>3. \A i, j \in 1 .. Len(queue) : queue[i] = queue[j] => i = j BY DEF GateInv
    <3> QED BY <2>5, <3>1, <3>2, <3>3
  <2>8. active' = MaxConcurrency BY <1>4, <2>1, AiConstants DEF GateInv
  <2>9. \A q \in Asks : ask'[q].pc # "idle" => ask'[q].calls # <<>>
    BY <1>1, <2>2 DEF GateInv
  <2> QED BY <1>1, <2>1, <2>2, <2>3, <2>5, <2>6, <2>7, <2>8, <2>9 DEF GateInv
<1> QED BY <1>3, <1>4

\* Of two sequences in one, the second comes after the first.
LEMMA OneAfterAnother ==
    ASSUME NEW S, NEW s \in Seq(S), NEW t \in Seq(S)
    PROVE  \A j \in 1 .. Len(s) + Len(t) :
              (s \o t)[j] = IF j <= Len(s) THEN s[j] ELSE t[j - Len(s)]
  OBVIOUS

LEMMA GateTimesOut ==
    ASSUME GateInv, NEW r \in Asks, Ai!TimedOut(r)
    PROVE  GateInv'
<1>1. /\ ask[r].pc = "queued" /\ ask' = [ask EXCEPT ![r] = Ai!Idle]
      /\ UNCHANGED <<active, kept>>
  BY DEF Ai!TimedOut, Ai!At, Ai!End
<1>2. PICK k \in DOMAIN queue : queue[k] = r /\ queue' = Ai!RemoveAt(queue, k)
  BY DEF Ai!TimedOut
<1>3. Ai!Idle \in Gated /\ Ai!Idle.pc = "idle" BY DEF Ai!Idle, Gated, Ai!Steps
<1>4. /\ ask' \in [Asks -> Gated] /\ ask'[r].pc = "idle"
      /\ \A q \in Asks \ {r} : ask'[q] = ask[q]
  BY <1>1, <1>3 DEF GateInv
<1>5. Ai!Holders' = Ai!Holders BY <1>1, <1>4 DEF Ai!Holders, Ai!Holding
<1>6. Queued' = Queued \ {r} BY <1>4 DEF Queued
<1> DEFINE n == Len(queue)
<1>7. queue \in Seq(Asks) /\ n \in Nat /\ k \in 1 .. n BY <1>2 DEF GateInv
<1>8. /\ queue' \in Seq(Asks) /\ Len(queue') = n - 1
      /\ \A j \in 1 .. n - 1 : queue'[j] = IF j < k THEN queue[j] ELSE queue[j + 1]
  <2> DEFINE front == SubSeq(queue, 1, k - 1)
             back == SubSeq(queue, k + 1, n)
  <2>1. front \in Seq(Asks) /\ Len(front) = k - 1 /\ \A i \in 1 .. k - 1 : front[i] = queue[i]
    BY <1>7
  <2>2. back \in Seq(Asks) /\ Len(back) = n - k /\ \A i \in 1 .. n - k : back[i] = queue[i + k]
    BY <1>7
  <2>3. queue' = front \o back BY <1>2 DEF Ai!RemoveAt
  <2> HIDE DEF front, back
  <2>4. queue' \in Seq(Asks) /\ Len(queue') = n - 1 BY <1>7, <2>1, <2>2, <2>3
  <2>5. \A j \in 1 .. n - 1 : queue'[j] = IF j < k THEN front[j] ELSE back[j - (k - 1)]
    <3>1. Len(front) + Len(back) = n - 1 BY <1>7, <2>1, <2>2
    <3>2. \A j \in 1 .. Len(front) + Len(back) :
             queue'[j] = IF j <= Len(front) THEN front[j] ELSE back[j - Len(front)]
      BY <2>1, <2>2, <2>3, OneAfterAnother
    <3>3. \A j \in 1 .. n - 1 : j <= Len(front) <=> j < k BY <1>7, <2>1
    <3> QED BY <2>1, <3>1, <3>2, <3>3
  <2>6. \A j \in 1 .. n - 1 : j < k => queue'[j] = queue[j] BY <1>7, <2>1, <2>5
  <2>7. ASSUME NEW j \in 1 .. n - 1, ~(j < k) PROVE queue'[j] = queue[j + 1]
    <3>1. j - (k - 1) \in 1 .. n - k /\ j - (k - 1) + k = j + 1 BY <1>7, <2>7
    <3> QED BY <2>2, <2>5, <2>7, <3>1
  <2> QED BY <2>4, <2>6, <2>7
<1>9. {queue'[i] : i \in 1 .. Len(queue')} = Queued'
  <2>1. \A x : x \in Queued <=> \E i \in 1 .. n : queue[i] = x BY DEF GateInv
  <2>2. \A i, j \in 1 .. n : queue[i] = queue[j] => i = j BY DEF GateInv
  <2>3. ASSUME NEW i \in 1 .. n - 1 PROVE queue'[i] \in Queued \ {r}
    BY <1>2, <1>7, <1>8, <2>1, <2>2
  <2>4. ASSUME NEW x \in Queued \ {r} PROVE \E i \in 1 .. n - 1 : queue'[i] = x
    <3>1. PICK i \in 1 .. n : queue[i] = x /\ i # k BY <1>2, <2>1
    <3>2. CASE i < k BY <1>7, <1>8, <3>1, <3>2
    <3>3. CASE i > k
      <4>1. i - 1 \in 1 .. n - 1 /\ ~(i - 1 < k) /\ (i - 1) + 1 = i BY <1>7, <3>1, <3>3
      <4>2. queue'[i - 1] = x BY <1>8, <3>1, <4>1
      <4> QED BY <4>1, <4>2
    <3> QED BY <1>7, <3>1, <3>2, <3>3
  <2> QED BY <1>6, <1>8, <2>3, <2>4
<1>10. \A i, j \in 1 .. Len(queue') : queue'[i] = queue'[j] => i = j
  <2>1. \A i, j \in 1 .. n : queue[i] = queue[j] => i = j BY DEF GateInv
  <2>2. ASSUME NEW i \in 1 .. n - 1, NEW j \in 1 .. n - 1, queue'[i] = queue'[j] PROVE i = j
    <3> DEFINE at(m) == IF m < k THEN m ELSE m + 1
    <3>1. at(i) \in 1 .. n /\ at(j) \in 1 .. n BY <1>7
    <3>2. queue'[i] = queue[at(i)] /\ queue'[j] = queue[at(j)] BY <1>8
    <3>3. at(i) = at(j) BY <2>1, <2>2, <3>1, <3>2
    <3> QED BY <1>7, <3>3
  <2>3. Len(queue') = n - 1 BY <1>8
  <2> QED BY <2>2, <2>3
<1>11. queue # <<>> BY <1>7
<1>12. \A q \in Asks : ask'[q].pc # "idle" => ask'[q].calls # <<>> BY <1>4 DEF GateInv
<1> QED BY <1>1, <1>4, <1>5, <1>8, <1>9, <1>10, <1>11, <1>12 DEF GateInv

\* releaseSlot hands the slot to the first who waits, or frees it.
LEMMA GateReleases ==
    ASSUME GateInv, NEW r \in Asks, NEW to \in Gated, Ai!Holding(r),
           to.pc \in {"idle", "acquire"}, to.pc # "idle" => to.calls # <<>>,
           Ai!Release(r, to), kept' = kept
    PROVE  GateInv'
<1>1. r \in Ai!Holders /\ r \notin Queued /\ Ai!Holders \in SUBSET Asks
  BY DEF Ai!Holders, Ai!Holding, Queued
<1>2. /\ Cardinality(Ai!Holders) \in Nat
      /\ Cardinality(Ai!Holders \ {r}) = Cardinality(Ai!Holders) - 1
      /\ Cardinality(Ai!Holders \ {r}) \in Nat
  BY <1>1, Holders
<1>3. CASE queue = <<>>
  <2>1. active' = active - 1 /\ queue' = queue /\ ask' = [ask EXCEPT ![r] = to]
    BY <1>3 DEF Ai!Release
  <2>2. /\ ask' \in [Asks -> Gated] /\ ask'[r] = to
        /\ \A q \in Asks \ {r} : ask'[q] = ask[q]
    BY <2>1 DEF GateInv
  <2>3. Ai!Holders' = Ai!Holders \ {r} BY <2>2 DEF Ai!Holders, Ai!Holding
  <2>4. Queued' = Queued BY <1>1, <2>2 DEF Queued
  <2>5. active' = Cardinality(Ai!Holders') + kept' /\ active' \in Nat /\ active' <= MaxConcurrency
    BY <1>2, <2>1, <2>3, AiConstants DEF GateInv
  <2>6. \A q \in Asks : ask'[q].pc # "idle" => ask'[q].calls # <<>> BY <2>2 DEF GateInv
  <2> QED BY <1>3, <2>1, <2>2, <2>4, <2>5, <2>6 DEF GateInv
<1>4. CASE queue # <<>>
  <2> DEFINE first == Head(queue)
             n == Len(queue)
  <2>1. /\ active' = active /\ queue' = Tail(queue)
        /\ ask' = [ask EXCEPT ![r] = to, ![first].pc = Ai!Admitted(first)]
    BY <1>4 DEF Ai!Release
  <2>2. /\ queue \in Seq(Asks) /\ n \in Nat \ {0} /\ first = queue[1] /\ first \in Queued
    <3>1. queue \in Seq(Asks) /\ n \in Nat \ {0} /\ first = queue[1] BY <1>4 DEF GateInv
    <3>2. queue[1] \in {queue[i] : i \in 1 .. n} BY <3>1
    <3> QED BY <3>1, <3>2 DEF GateInv
  <2>3. /\ first \in Asks /\ first # r /\ ask[first] \in Gated /\ ask[first].pc = "queued"
        /\ ask[first].calls # <<>>
    BY <1>1, <2>2 DEF Queued, GateInv
  <2> HIDE DEF first
  <2>4. Ai!Admitted(first) \in {"budget", "call"} BY DEF Ai!Admitted
  <2>5. /\ ask' \in [Asks -> Gated] /\ ask'[r] = to
        /\ ask'[first].pc \in {"budget", "call"} /\ ask'[first].calls = ask[first].calls
        /\ \A q \in Asks \ {r, first} : ask'[q] = ask[q]
    <3>1. [ask[first] EXCEPT !.pc = Ai!Admitted(first)] \in Gated
      BY <2>3, <2>4 DEF Gated, Ai!Steps
    <3>2. ask' = [ask EXCEPT ![r] = to, ![first] = [ask[first] EXCEPT !.pc = Ai!Admitted(first)]]
      BY <2>1, <2>3 DEF GateInv
    <3> QED BY <2>3, <2>4, <3>1, <3>2 DEF GateInv, Gated
  <2>6. Ai!Holders' = (Ai!Holders \ {r}) \cup {first}
    BY <2>3, <2>5 DEF Ai!Holders, Ai!Holding
  <2>7. first \notin Ai!Holders \ {r} BY <2>3 DEF Ai!Holders, Ai!Holding
  <2>8. Cardinality(Ai!Holders') = Cardinality(Ai!Holders)
    <3>1. Ai!Holders \ {r} \in SUBSET Asks BY <1>1
    <3>2. Cardinality((Ai!Holders \ {r}) \cup {first}) = Cardinality(Ai!Holders \ {r}) + 1
      BY <2>3, <2>7, <3>1, Holders
    <3> QED BY <1>2, <2>6, <3>2
  <2>9. Queued' = Queued \ {first} BY <1>1, <2>3, <2>5 DEF Queued
  <2>10. /\ queue' \in Seq(Asks) /\ Len(queue') = n - 1
         /\ \A i \in 1 .. n - 1 : queue'[i] = queue[i + 1]
    BY <1>4, <2>1, <2>2
  <2>11. {queue'[i] : i \in 1 .. Len(queue')} = Queued'
    <3>1. \A x : x \in Queued <=> \E i \in 1 .. n : queue[i] = x BY DEF GateInv
    <3>2. \A i, j \in 1 .. n : queue[i] = queue[j] => i = j BY DEF GateInv
    <3>3. ASSUME NEW i \in 1 .. n - 1 PROVE queue'[i] \in Queued \ {first}
      BY <2>2, <2>10, <3>1, <3>2
    <3>4. ASSUME NEW x \in Queued \ {first} PROVE \E i \in 1 .. n - 1 : queue'[i] = x
      <4>1. PICK i \in 1 .. n : queue[i] = x /\ i # 1 BY <2>2, <3>1
      <4>2. i - 1 \in 1 .. n - 1 /\ (i - 1) + 1 = i BY <2>2, <4>1
      <4>3. queue'[i - 1] = x BY <2>10, <4>1, <4>2
      <4> QED BY <4>2, <4>3
    <3> QED BY <2>9, <2>10, <3>3, <3>4
  <2>12. \A i, j \in 1 .. Len(queue') : queue'[i] = queue'[j] => i = j
    <3>1. \A i, j \in 1 .. n : queue[i] = queue[j] => i = j BY DEF GateInv
    <3>2. ASSUME NEW i \in 1 .. n - 1, NEW j \in 1 .. n - 1, queue'[i] = queue'[j] PROVE i = j
      <4>1. i + 1 \in 1 .. n /\ j + 1 \in 1 .. n BY <2>2
      <4>2. i + 1 = j + 1 BY <2>10, <3>1, <3>2, <4>1
      <4> QED BY <4>2
    <3>3. Len(queue') = n - 1 BY <2>10
    <3> HIDE DEF n
    <3> QED BY <3>2, <3>3
  <2>13. \A q \in Asks : ask'[q].pc # "idle" => ask'[q].calls # <<>>
    BY <2>3, <2>5 DEF GateInv
  <2> QED BY <1>4, <2>1, <2>5, <2>8, <2>10, <2>11, <2>12, <2>13 DEF GateInv
<1> QED BY <1>3, <1>4

\* wizardWithWebSearch keeps its slot.
LEMMA GateSearches ==
    ASSUME GateInv, NEW r \in Asks, Ai!Searched(r)
    PROVE  GateInv'
<1>1. /\ ask[r].pc = "call" /\ ask' = [ask EXCEPT ![r] = Ai!Idle]
      /\ UNCHANGED <<active, queue>> /\ kept' = kept + 1
  BY DEF Ai!Searched, Ai!At, Ai!End, Ai!gate
<1>2. Ai!Idle \in Gated /\ Ai!Idle.pc = "idle" BY DEF Ai!Idle, Gated, Ai!Steps
<1>3. /\ ask' \in [Asks -> Gated] /\ ask'[r].pc = "idle"
      /\ \A q \in Asks \ {r} : ask'[q] = ask[q]
  BY <1>1, <1>2 DEF GateInv
<1>4. Ai!Holders' = Ai!Holders \ {r} /\ r \in Ai!Holders /\ Ai!Holders \in SUBSET Asks
  BY <1>1, <1>3 DEF Ai!Holders, Ai!Holding
<1>5. Cardinality(Ai!Holders') = Cardinality(Ai!Holders) - 1 /\ Cardinality(Ai!Holders) \in Nat
  BY <1>4, Holders
<1>6. Queued' = Queued BY <1>1, <1>3 DEF Queued
<1>7. active' = Cardinality(Ai!Holders') + kept' /\ kept' \in Nat BY <1>1, <1>5 DEF GateInv
<1>8. \A q \in Asks : ask'[q].pc # "idle" => ask'[q].calls # <<>> BY <1>3 DEF GateInv
<1> QED BY <1>1, <1>3, <1>6, <1>7, <1>8 DEF GateInv

LEMMA GateNext == GateInv /\ [Ai!Next]_Ai!vars => GateInv'
<1> SUFFICES ASSUME GateInv, [Ai!Next]_Ai!vars PROVE GateInv' OBVIOUS
<1> USE DEF Ai!gate
<1>1. ASSUME NEW r \in Asks, NEW op \in DOMAIN Ai!Calls, NEW cost \in Estimates,
             Ai!Start(r, op, cost)
      PROVE  GateInv'
  <2> DEFINE x == [pc |-> "acquire", op |-> op, calls |-> Ai!Calls[op],
                   cost |-> cost, attempt |-> 1]
  <2>1. Ai!Calls[op] \in Seq({"chat", "vision", "whisper", "search"}) /\ Ai!Calls[op] # <<>>
    <3>1. op \in {"lookup", "text", "wizard", "screenshot", "transcribe", "voice"}
      BY DEF Ai!Calls
    <3>2. op \in {"lookup", "text", "wizard"} => Ai!Calls[op] = <<"chat">> BY DEF Ai!Calls
    <3>3. op = "screenshot" => Ai!Calls[op] = <<"vision">> BY DEF Ai!Calls
    <3>4. op = "transcribe" => Ai!Calls[op] = <<"whisper">> BY DEF Ai!Calls
    <3>5. op = "voice" => Ai!Calls[op] = <<"whisper", "chat">> BY DEF Ai!Calls
    <3>6. \A c, d \in {"chat", "vision", "whisper", "search"} :
             /\ <<c>> \in Seq({"chat", "vision", "whisper", "search"}) /\ <<c>> # <<>>
             /\ <<c, d>> \in Seq({"chat", "vision", "whisper", "search"}) /\ <<c, d>> # <<>>
      OBVIOUS
    <3>7. op \in {"lookup", "text", "wizard"} \/ op = "screenshot" \/ op = "transcribe"
             \/ op = "voice"
      BY <3>1
    <3>8. \E c, d \in {"chat", "vision", "whisper", "search"} :
             Ai!Calls[op] = <<c>> \/ Ai!Calls[op] = <<c, d>>
      BY <3>2, <3>3, <3>4, <3>5, <3>7
    <3> QED BY <3>6, <3>8
  <2>2. x \in Gated /\ x.pc = "acquire" /\ x.calls # <<>> BY <2>1 DEF Gated, Ai!Steps
  <2>3. /\ ask[r].pc = "idle" /\ ask' = [ask EXCEPT ![r] = x]
        /\ UNCHANGED <<active, queue, kept>>
    BY <1>1 DEF Ai!Start, Ai!At
  <2> HIDE DEF x
  <2> QED BY <2>2, <2>3, GateQuiet
<1>2. ASSUME NEW r \in Asks, Ai!Book(r) \/ Ai!RateLimited(r) \/ Ai!Retry(r)
      PROVE  GateInv'
  <2>1. ask[r] \in Gated /\ ask[r].pc \in {"budget", "call", "backoff"} /\ ask[r].calls # <<>>
    BY <1>2 DEF GateInv, Ai!Book, Ai!RateLimited, Ai!Retry, Ai!At
  <2>2. PICK pc \in {"budget", "call", "backoff"}, n \in Nat :
           ask' = [ask EXCEPT ![r] = [ask[r] EXCEPT !.pc = pc, !.attempt = n]]
    <3>1. ask[r].attempt \in Nat /\ ask \in [Asks -> Gated] BY <2>1 DEF Gated, GateInv
    <3>2. CASE Ai!Book(r)
      <4>1. ask' = [ask EXCEPT ![r].pc = "call"] BY <3>2 DEF Ai!Book, Ai!Goto
      <4>2. ask' = [ask EXCEPT ![r] = [ask[r] EXCEPT !.pc = "call", !.attempt = ask[r].attempt]]
        BY <2>1, <3>1, <4>1 DEF Gated
      <4> QED BY <3>1, <4>2
    <3>3. CASE Ai!RateLimited(r)
      <4>1. ask' = [ask EXCEPT ![r].pc = "backoff"] BY <3>3 DEF Ai!RateLimited, Ai!Goto
      <4>2. ask' = [ask EXCEPT ![r] = [ask[r] EXCEPT !.pc = "backoff", !.attempt = ask[r].attempt]]
        BY <2>1, <3>1, <4>1 DEF Gated
      <4> QED BY <3>1, <4>2
    <3>4. CASE Ai!Retry(r)
      <4>1. ask' = [ask EXCEPT ![r].pc = "budget", ![r].attempt = @ + 1] BY <3>4 DEF Ai!Retry
      <4>2. ask' = [ask EXCEPT ![r] = [ask[r] EXCEPT !.pc = "budget", !.attempt = ask[r].attempt + 1]]
        BY <2>1, <3>1, <4>1 DEF Gated
      <4>3. ask[r].attempt + 1 \in Nat /\ "budget" \in {"budget", "call", "backoff"} BY <3>1
      <4> USE <4>3
      <4> WITNESS "budget" \in {"budget", "call", "backoff"}, ask[r].attempt + 1 \in Nat
      <4> QED BY <4>2
    <3> QED BY <1>2, <3>2, <3>3, <3>4
  <2>3. [ask[r] EXCEPT !.pc = pc, !.attempt = n] \in Gated BY <2>1 DEF Gated, Ai!Steps
  <2>4. /\ [ask[r] EXCEPT !.pc = pc, !.attempt = n].pc = pc
        /\ [ask[r] EXCEPT !.pc = pc, !.attempt = n].calls # <<>>
    BY <2>1 DEF Gated
  <2>5. UNCHANGED <<active, queue, kept>>
    BY <1>2 DEF Ai!Book, Ai!RateLimited, Ai!Retry
  <2> QED BY <2>1, <2>2, <2>3, <2>4, <2>5, GateQuiet
<1>3. ASSUME NEW r \in Asks, Ai!Answered(r) \/ Ai!Unsure(r) \/ Ai!Fails(r)
      PROVE  GateInv'
  <2>1. /\ ask[r] \in Gated /\ ask[r].pc = "call" /\ ask[r].calls # <<>> /\ kept' = kept
    BY <1>3 DEF GateInv, Ai!Answered, Ai!Unsure, Ai!Fails, Ai!At
  <2>2. Ai!Holding(r) BY <2>1 DEF Ai!Holding
  <2>3. Ai!Idle \in Gated /\ Ai!Idle.pc = "idle" BY DEF Ai!Idle, Gated, Ai!Steps
  <2>4. ask[r].calls \in Seq({"chat", "vision", "whisper", "search"}) BY <2>1 DEF Gated
  <2>5. ASSUME NEW calls \in Seq({"chat", "vision", "whisper", "search"})
        PROVE  /\ [ask[r] EXCEPT !.pc = "acquire", !.calls = calls] \in Gated
               /\ [ask[r] EXCEPT !.pc = "acquire", !.calls = calls].pc = "acquire"
               /\ [ask[r] EXCEPT !.pc = "acquire", !.calls = calls].calls = calls
    BY <2>1 DEF Gated, Ai!Steps
  <2>6. CASE Ai!Answered(r)
    <3> DEFINE rest == Tail(ask[r].calls)
               to == IF rest = <<>> THEN Ai!Idle
                     ELSE [ask[r] EXCEPT !.pc = "acquire", !.calls = rest]
    <3>1. rest \in Seq({"chat", "vision", "whisper", "search"}) BY <2>1, <2>4
    <3>2. Ai!Release(r, to) BY <2>6 DEF Ai!Answered
    <3> HIDE DEF rest
    <3>3. to \in Gated /\ to.pc \in {"idle", "acquire"} /\ (to.pc # "idle" => to.calls # <<>>)
      BY <2>3, <2>5, <3>1
    <3> HIDE DEF to
    <3> QED BY <2>1, <2>2, <3>2, <3>3, GateReleases
  <2>7. CASE Ai!Unsure(r)
    <3>1. <<"search">> \in Seq({"chat", "vision", "whisper", "search"}) /\ <<"search">> # <<>>
      OBVIOUS
    <3>2. Ai!Release(r, [ask[r] EXCEPT !.pc = "acquire", !.calls = <<"search">>])
      BY <2>7 DEF Ai!Unsure
    <3> QED BY <2>1, <2>2, <2>5, <3>1, <3>2, GateReleases
  <2>8. CASE Ai!Fails(r)
    <3>1. Ai!Release(r, Ai!Idle) BY <2>8 DEF Ai!Fails
    <3> QED BY <2>1, <2>2, <2>3, <3>1, GateReleases
  <2> QED BY <1>3, <2>6, <2>7, <2>8
<1>4. CASE Ai!Tick \/ Ai!CacheExpires \/ UNCHANGED Ai!vars
  <2>1. UNCHANGED <<active, queue, ask, kept>>
    BY <1>4 DEF Ai!Tick, Ai!CacheExpires, Ai!vars
  <2>2. Ai!Holders' = Ai!Holders /\ Queued' = Queued
    BY <2>1 DEF Ai!Holders, Ai!Holding, Queued
  <2> QED BY <2>1, <2>2 DEF GateInv
<1>5. CASE Ai!Restart
  <2>1. active' = 0 /\ queue' = <<>> /\ kept' = 0 /\ ask' = [r \in Asks |-> Ai!Idle]
    BY <1>5 DEF Ai!Restart
  <2>2. Ai!Idle \in Gated /\ Ai!Idle.pc = "idle" BY DEF Ai!Idle, Gated, Ai!Steps
  <2>3. Ai!Holders' = {} /\ Queued' = {} BY <2>1, <2>2 DEF Ai!Holders, Ai!Holding, Queued
  <2> QED BY <2>1, <2>2, <2>3, FS_EmptySet, AiConstants DEF GateInv
<1> QED
  BY <1>1, <1>2, <1>3, <1>4, <1>5, GateAcquires, GateTimesOut, GateSearches DEF Ai!Next

LEMMA GateInit == Ai!Init => GateInv
<1> SUFFICES ASSUME Ai!Init PROVE GateInv OBVIOUS
<1>1. active = 0 /\ queue = <<>> /\ kept = 0 /\ ask = [r \in Asks |-> Ai!Idle]
  BY DEF Ai!Init
<1>2. Ai!Idle \in Gated /\ Ai!Idle.pc = "idle" BY DEF Ai!Idle, Gated, Ai!Steps
<1>3. Ai!Holders = {} /\ Queued = {} BY <1>1, <1>2 DEF Ai!Holders, Ai!Holding, Queued
<1> QED BY <1>1, <1>2, <1>3, FS_EmptySet, AiConstants DEF GateInv

\* acquireSlot, releaseSlot and the waiters' timers: for any limit and any
\* number of requests, each step leaves the counter, the queue and the requests
\* in agreement.
THEOREM SlotsAlwaysAccounted == MCSpec => []SlotsAreAccounted
<1>1. MCInit => GateInv BY GateInit DEF MCInit
<1>2. ASSUME [MCNext]_<<part, vars, spend, accounts, gate, pdfs>> PROVE [Ai!Next]_Ai!vars
  BY <1>2 DEF MCNext, TeamNext, SpendNext, AccountsNext, AiNext, ReportsNext, gate, Ai!vars
<1>3. GateInv => SlotsAreAccounted BY GateInvImplies DEF SlotsAreAccounted
<1>4. GateInv /\ [MCNext]_<<part, vars, spend, accounts, gate, pdfs>> => GateInv'
  BY <1>2, GateNext
<1> QED BY <1>1, <1>3, <1>4, PTL DEF MCSpec

-----------------------------------------------------------------------------
(* Reports: each worker stores before it marks                             *)

\* Of several workers on one report, each marks it READY only after it has
\* stored the PDF itself, and nothing puts a PDF back to "none".
ReadyInv ==
    /\ Pdf!ReadyHasPdf
    /\ report \in [Reports -> {"none", "PENDING", "GENERATING", "READY", "FAILED"}]
    /\ pdf \in [Reports -> {"none", "kept", "expired"}]
    /\ work \in [Workers -> [at : {"idle", "start", "build", "store", "ready", "fail"},
                             report : Reports \cup {Null}]]
    /\ \A w \in Workers : work[w].at # "idle" => work[w].report \in Reports
    /\ \A w \in Workers : work[w].at = "ready" => pdf[work[w].report] # "none"

\* At first there is no row and no PDF.
LEMMA InitReady == Pdf!Init => ReadyInv
BY DEF Pdf!Init, ReadyInv, Pdf!ReadyHasPdf, Pdf!Resting

\* A step of one worker on its report.
LEMMA WorkerReady ==
    ASSUME ReadyInv, NEW w \in Workers,
           \/ \E r \in Reports : Pdf!Take(w, r)
           \/ Pdf!StartBuild(w) \/ Pdf!StartFails(w) \/ Pdf!BuildPdf(w)
              \/ Pdf!StorePdf(w) \/ Pdf!MarkReady(w)
           \/ Pdf!Throws(w) \/ Pdf!MarkFailed(w) \/ Pdf!MarkFailedFails(w) \/ Pdf!WorkerDies(w)
    PROVE  ReadyInv'
<1> USE DEF ReadyInv, Pdf!ReadyHasPdf, Pdf!At, Pdf!Resting
<1>1. ASSUME NEW r \in Reports, Pdf!Take(w, r) PROVE ReadyInv'
  BY <1>1 DEF Pdf!Take
<1>2. ASSUME Pdf!StartBuild(w) PROVE ReadyInv'
  BY <1>2 DEF Pdf!StartBuild, Pdf!Mark, Pdf!Goto
<1>3. ASSUME Pdf!StartFails(w) \/ Pdf!MarkFailedFails(w) \/ Pdf!WorkerDies(w) PROVE ReadyInv'
  BY <1>3 DEF Pdf!StartFails, Pdf!MarkFailedFails, Pdf!WorkerDies, Pdf!EndJob
<1>4. ASSUME Pdf!BuildPdf(w) \/ Pdf!Throws(w) PROVE ReadyInv'
  BY <1>4 DEF Pdf!BuildPdf, Pdf!Throws, Pdf!Goto
<1>5. ASSUME Pdf!StorePdf(w) PROVE ReadyInv'
  BY <1>5 DEF Pdf!StorePdf, Pdf!Goto
<1>6. ASSUME Pdf!MarkReady(w) PROVE ReadyInv'
  BY <1>6 DEF Pdf!MarkReady, Pdf!Mark, Pdf!EndJob
<1>7. ASSUME Pdf!MarkFailed(w) PROVE ReadyInv'
  BY <1>7 DEF Pdf!MarkFailed, Pdf!Mark, Pdf!EndJob
<1> QED
  BY <1>1, <1>2, <1>3, <1>4, <1>5, <1>6, <1>7

\* Workers, users, the clean-up and the clock.
LEMMA NextReady == ReadyInv /\ [Pdf!Next]_Pdf!vars => ReadyInv'
<1> SUFFICES ASSUME ReadyInv, [Pdf!Next]_Pdf!vars PROVE ReadyInv'
  OBVIOUS
<1>1. ASSUME NEW w \in Workers,
             \/ \E r \in Reports : Pdf!Take(w, r)
             \/ Pdf!StartBuild(w) \/ Pdf!StartFails(w) \/ Pdf!BuildPdf(w)
                \/ Pdf!StorePdf(w) \/ Pdf!MarkReady(w)
             \/ Pdf!Throws(w) \/ Pdf!MarkFailed(w) \/ Pdf!MarkFailedFails(w) \/ Pdf!WorkerDies(w)
      PROVE  ReadyInv'
  BY <1>1, WorkerReady
<1> USE DEF ReadyInv, Pdf!ReadyHasPdf
<1>2. ASSUME NEW c \in Callers, NEW r \in Reports, Pdf!Save(c, r) PROVE ReadyInv'
  BY <1>2 DEF Pdf!Save
<1>3. ASSUME UNCHANGED <<report, pdf, work>> PROVE ReadyInv'
  BY <1>3
<1>4. ASSUME NEW r \in Reports, Pdf!PdfExpires(r) PROVE ReadyInv'
  BY <1>4 DEF Pdf!PdfExpires
<1> QED
  <2>1. CASE UNCHANGED Pdf!vars
    BY <2>1, <1>3 DEF Pdf!vars
  <2>2. CASE Pdf!PlanChanges
    BY <2>2, <1>3 DEF Pdf!PlanChanges
  <2>3. ASSUME NEW c \in Callers, NEW t \in BOOLEAN, Pdf!Generate(c, t) PROVE ReadyInv'
    BY <2>3, <1>3 DEF Pdf!Generate
  <2>4. ASSUME NEW c \in Callers, Pdf!AddJob(c) \/ Pdf!GiveUp(c) PROVE ReadyInv'
    BY <2>4, <1>3 DEF Pdf!AddJob, Pdf!GiveUp
  <2>5. ASSUME NEW r \in Reports, Pdf!Stalled(r) PROVE ReadyInv'
    BY <2>5, <1>3 DEF Pdf!Stalled
  <2> HIDE DEF ReadyInv
  <2> QED
    BY <1>1, <1>2, <1>4, <2>1, <2>2, <2>3, <2>4, <2>5 DEF Pdf!Next

\* A report that says READY has a PDF, or had one until its hour was over, for
\* any number of workers on it (buildAndStorePdf).
THEOREM ReadyReports == MCSpec => []ReadyHasPdf
<1>1. MCInit => ReadyInv
  <2> SUFFICES ASSUME Pdf!Init PROVE ReadyInv BY DEF MCInit
  <2> QED BY InitReady
<1>2. ReadyInv => ReadyHasPdf
  BY DEF ReadyInv, ReadyHasPdf
<1>3. ASSUME [MCNext]_<<part, vars, spend, accounts, gate, pdfs>> PROVE [Pdf!Next]_Pdf!vars
  BY <1>3 DEF MCNext, TeamNext, SpendNext, AccountsNext, AiNext, ReportsNext, pdfs, Pdf!vars
<1>4. ReadyInv /\ [MCNext]_<<part, vars, spend, accounts, gate, pdfs>> => ReadyInv'
  BY <1>3, NextReady
<1> QED
  BY <1>1, <1>2, <1>4, PTL DEF MCSpec

-----------------------------------------------------------------------------
(* Spend                                                                   *)

\* A family of finite sets has one that includes no other.
LEMMA LeastSubset ==
    ASSUME NEW S, IsFiniteSet(S), NEW F, F \subseteq SUBSET S, F # {}
    PROVE  \E T \in F : \A U \in F : U \subseteq T => U = T
<1>1. FiniteSubsetsOf(S) = SUBSET S
  BY FS_FiniteSubsetsOfFinite
<1>2. IsWellFoundedOn(StrictSubsetOrdering(S), SUBSET S)
  BY <1>1, FS_StrictSubsetOrderingWellFounded
<1>3. PICK T \in F : \A U \in F : ~(<<U, T>> \in StrictSubsetOrdering(S))
  BY <1>2, WFMin, Zenon
<1>4. ASSUME NEW U \in F, U \subseteq T PROVE U = T
  <2>1. <<U, T>> \in (SUBSET S) \X (SUBSET S)
    OBVIOUS
  <2>2. <<U, T>>[1] = U /\ <<U, T>>[2] = T
    OBVIOUS
  <2>3. ~(U \subseteq T /\ U # T)
    BY <1>3, <2>1, <2>2, Zenon DEF StrictSubsetOrdering
  <2> QED BY <1>4, <2>3
<1> QED BY <1>4

Chosen(s) == CHOOSE x \in s : TRUE

\* Sums of f over the subsets of S, taken one element at a time.
IsSums(g, f, S) ==
    g = [s \in SUBSET S |-> IF s = {} THEN 0 ELSE f[Chosen(s)] + g[s \ {Chosen(s)}]]
Sums(f, S) == CHOOSE g : IsSums(g, f, S)

SumOver(f, S) == Sums(f, S)[S]

LEMMA SumIs == \A f, S : Money!SumFunctionOnSet(f, S) = SumOver(f, S)
  BY DEF Money!SumFunctionOnSet, Money!FoldFunctionOnSet, Money!MapThenFoldSet, SumOver, Sums,
     IsSums, Chosen

LEMMA ChosenIsIn == ASSUME NEW s, s # {} PROVE Chosen(s) \in s
  BY DEF Chosen

LEMMA SumsStep ==
    ASSUME NEW f, NEW S, NEW g, IsSums(g, f, S), NEW s \in SUBSET S
    PROVE  g[s] = IF s = {} THEN 0 ELSE f[Chosen(s)] + g[s \ {Chosen(s)}]
<1> DEFINE step(k) == IF k = {} THEN 0 ELSE f[Chosen(k)] + g[k \ {Chosen(k)}]
<1>1. g = [k \in SUBSET S |-> step(k)]
  BY DEF IsSums
<1> HIDE DEF step
<1>2. g[s] = step(s)
  BY <1>1
<1> QED BY <1>2 DEF step

\* The sums are the same whatever they are taken in.
LEMMA SumsAgree ==
    ASSUME NEW f, NEW S, NEW T, NEW g, NEW h, IsSums(g, f, S), IsSums(h, f, T), IsFiniteSet(S),
           NEW s \in SUBSET S, s \subseteq T
    PROVE  g[s] = h[s]
<1> DEFINE F == {k \in SUBSET S : k \subseteq T /\ g[k] # h[k]}
<1> SUFFICES ASSUME F # {} PROVE FALSE OBVIOUS
<1>1. PICK k \in F : \A U \in F : U \subseteq k => U = k
  <2>1. F \subseteq SUBSET S
    OBVIOUS
  <2> HIDE DEF F
  <2> QED BY <2>1, LeastSubset
<1>2. k \in SUBSET S /\ k \in SUBSET T /\ g[k] # h[k]
  BY <1>1
<1>3. CASE k = {}
  BY <1>2, <1>3, SumsStep
<1>4. CASE k # {}
  <2> DEFINE U == k \ {Chosen(k)}
  <2>1. U \subseteq k /\ U # k
    BY <1>4, ChosenIsIn
  <2>2. g[U] = h[U]
    BY <1>1, <1>2, <2>1
  <2>3. g[k] = f[Chosen(k)] + g[U] /\ h[k] = f[Chosen(k)] + h[U]
    BY <1>2, <1>4, SumsStep
  <2> QED BY <1>2, <2>2, <2>3
<1> QED BY <1>3, <1>4

\* They exist: those over a set are one step from those over smaller ones.
LEMMA SumsExist ==
    ASSUME NEW f, NEW S, IsFiniteSet(S)
    PROVE  IsSums(Sums(f, S), f, S)
<1> SUFFICES \E g : IsSums(g, f, S) BY Zenon DEF Sums
<1> DEFINE F == {T \in SUBSET S : ~ \E g : IsSums(g, f, T)}
<1> SUFFICES ASSUME F # {} PROVE FALSE OBVIOUS
<1>1. PICK T \in F : \A U \in F : U \subseteq T => U = T
  <2>1. F \subseteq SUBSET S
    OBVIOUS
  <2> HIDE DEF F
  <2> QED BY <2>1, LeastSubset
<1>2. T \in SUBSET S /\ ~ \E g : IsSums(g, f, T)
  BY <1>1
<1>3. ASSUME NEW U \in SUBSET T, U # T PROVE IsSums(Sums(f, U), f, U)
  <2>1. \E g : IsSums(g, f, U)
    BY <1>1, <1>2, <1>3
  <2> QED BY <2>1, Zenon DEF Sums
<1> DEFINE less(s) == s \ {Chosen(s)}
           g == [s \in SUBSET T |-> IF s = {} THEN 0 ELSE f[Chosen(s)] + SumOver(f, less(s))]
<1>4. ASSUME NEW s \in SUBSET T, s # {}
      PROVE  SumOver(f, less(s)) = g[less(s)]
  <2> DEFINE k == less(s)
             next == less(k)
  <2>1. k \in SUBSET T /\ k # T
    BY <1>4, ChosenIsIn
  <2>2. SumOver(f, k) = IF k = {} THEN 0 ELSE f[Chosen(k)] + Sums(f, k)[next]
    <3>1. IsSums(Sums(f, k), f, k) /\ k \in SUBSET k
      BY <1>3, <2>1
    <3> HIDE DEF k
    <3> QED BY <3>1, SumsStep DEF SumOver
  <2>3. g[k] = IF k = {} THEN 0 ELSE f[Chosen(k)] + SumOver(f, next)
    BY <2>1
  <2>4. Sums(f, k)[next] = SumOver(f, next)
    <3>1. next \in SUBSET T /\ next # T /\ next \subseteq k /\ IsFiniteSet(k)
      BY <1>2, <2>1, FS_Subset
    <3> QED BY <1>3, <2>1, <3>1, SumsAgree DEF SumOver
  <2> QED BY <2>2, <2>3, <2>4
<1>5. IsSums(g, f, T)
  <2>1. \A s \in SUBSET T : (IF s = {} THEN 0 ELSE f[Chosen(s)] + SumOver(f, less(s)))
                          = (IF s = {} THEN 0 ELSE f[Chosen(s)] + g[less(s)])
    BY <1>4
  <2> DEFINE step(s) == IF s = {} THEN 0 ELSE f[Chosen(s)] + g[less(s)]
  <2>2. \A s \in SUBSET T : g[s] = step(s)
    BY <2>1
  <2>3. g = [s \in SUBSET T |-> g[s]]
    OBVIOUS
  <2> HIDE DEF g, less
  <2>4. g = [s \in SUBSET T |-> step(s)]
    BY <2>2, <2>3
  <2> QED BY <2>4 DEF IsSums, less
<1> QED BY <1>2, <1>5

\* Nothing adds up to zero.
LEMMA SumOfNone == \A f : SumOver(f, {}) = 0
<1> SUFFICES ASSUME NEW f PROVE SumOver(f, {}) = 0 OBVIOUS
<1>1. IsSums(Sums(f, {}), f, {})
  BY SumsExist, FS_EmptySet
<1> QED BY <1>1, SumsStep DEF SumOver

\* A sum is its chosen element's value and the sum of the rest.
LEMMA SumFromChosen ==
    ASSUME NEW f, NEW S, IsFiniteSet(S), S # {}
    PROVE  SumOver(f, S) = f[Chosen(S)] + SumOver(f, S \ {Chosen(S)})
<1> DEFINE T == S \ {Chosen(S)}
<1>1. IsSums(Sums(f, S), f, S) /\ IsSums(Sums(f, T), f, T)
  BY SumsExist, FS_Subset
<1>2. SumOver(f, S) = f[Chosen(S)] + Sums(f, S)[T]
  BY <1>1, SumsStep DEF SumOver
<1>3. Sums(f, S)[T] = Sums(f, T)[T]
  BY <1>1, SumsAgree
<1> QED BY <1>2, <1>3 DEF SumOver

\* Sums of numbers are numbers.
LEMMA SumIsNumber ==
    ASSUME NEW D \in {Nat, Int}, NEW f, NEW S, IsFiniteSet(S), \A x \in S : f[x] \in D
    PROVE  SumOver(f, S) \in D
<1> DEFINE F == {T \in SUBSET S : SumOver(f, T) \notin D}
<1> SUFFICES ASSUME F # {} PROVE FALSE OBVIOUS
<1>1. PICK T \in F : \A U \in F : U \subseteq T => U = T
  <2>1. F \subseteq SUBSET S
    OBVIOUS
  <2> HIDE DEF F
  <2> QED BY <2>1, LeastSubset
<1>2. T \in SUBSET S /\ SumOver(f, T) \notin D /\ IsFiniteSet(T)
  BY <1>1, FS_Subset
<1>3. CASE T = {}
  BY <1>2, <1>3, SumOfNone
<1>4. CASE T # {}
  <2> DEFINE U == T \ {Chosen(T)}
  <2>1. Chosen(T) \in T /\ f[Chosen(T)] \in D
    BY <1>2, <1>4, ChosenIsIn
  <2>2. SumOver(f, U) \in D
    BY <1>1, <1>2, <2>1
  <2>3. SumOver(f, T) = f[Chosen(T)] + SumOver(f, U)
    BY <1>2, <1>4, SumFromChosen
  <2>4. \A a, b \in D : a + b \in D
    OBVIOUS
  <2> QED BY <1>2, <2>1, <2>2, <2>3, <2>4
<1> QED BY <1>3, <1>4

\* Any element can be taken first.
LEMMA SumFromAny ==
    ASSUME NEW f, NEW S, IsFiniteSet(S), \A y \in S : f[y] \in Int
    PROVE  \A x \in S : SumOver(f, S) = f[x] + SumOver(f, S \ {x})
<1> DEFINE AnyFirst(T) == \A x \in T : SumOver(f, T) = f[x] + SumOver(f, T \ {x})
           F == {T \in SUBSET S : ~AnyFirst(T)}
<1> SUFFICES ASSUME F # {} PROVE FALSE OBVIOUS
<1>1. PICK T \in F : \A U \in F : U \subseteq T => U = T
  <2>1. F \subseteq SUBSET S
    OBVIOUS
  <2> HIDE DEF F
  <2> QED BY <2>1, LeastSubset
<1>2. PICK x \in T : ~(SumOver(f, T) = f[x] + SumOver(f, T \ {x}))
  BY <1>1
<1>3. T \in SUBSET S /\ IsFiniteSet(T) /\ \A U \in SUBSET T : U # T => AnyFirst(U)
  BY <1>1, FS_Subset
<1>4. PICK c \in T : SumOver(f, T) = f[c] + SumOver(f, T \ {c})
  <2>1. T # {}
    BY <1>2
  <2>2. SumOver(f, T) = f[Chosen(T)] + SumOver(f, T \ {Chosen(T)})
    BY <1>3, <2>1, SumFromChosen
  <2> QED BY <2>1, <2>2, ChosenIsIn
<1>5. c # x
  BY <1>2, <1>4
<1> HIDE DEF F
<1> DEFINE rest == SumOver(f, (T \ {c}) \ {x})
<1>6. SumOver(f, T \ {c}) = f[x] + rest
  <2>1. AnyFirst(T \ {c})
    BY <1>3
  <2> QED BY <1>5, <2>1
<1>7. SumOver(f, T \ {x}) = f[c] + rest
  <2>1. AnyFirst(T \ {x})
    BY <1>3
  <2>2. (T \ {x}) \ {c} = (T \ {c}) \ {x}
    OBVIOUS
  <2>3. SumOver(f, T \ {x}) = f[c] + SumOver(f, (T \ {x}) \ {c})
    BY <1>5, <2>1
  <2> QED BY <2>2, <2>3
<1>8. f[x] \in Int /\ f[c] \in Int /\ rest \in Int
  <2>1. (T \ {c}) \ {x} \in SUBSET S /\ IsFiniteSet((T \ {c}) \ {x})
    BY <1>3, FS_Subset
  <2> QED BY <1>3, <2>1, SumIsNumber
<1> HIDE DEF rest
<1> QED BY <1>2, <1>4, <1>6, <1>7, <1>8

\* What is alike adds up alike.
LEMMA SumOfAlike ==
    ASSUME NEW f, NEW g, NEW S, IsFiniteSet(S), \A x \in S : f[x] = g[x]
    PROVE  SumOver(f, S) = SumOver(g, S)
<1> DEFINE F == {T \in SUBSET S : SumOver(f, T) # SumOver(g, T)}
<1> SUFFICES ASSUME F # {} PROVE FALSE OBVIOUS
<1>1. PICK T \in F : \A U \in F : U \subseteq T => U = T
  <2>1. F \subseteq SUBSET S
    OBVIOUS
  <2> HIDE DEF F
  <2> QED BY <2>1, LeastSubset
<1>2. T \in SUBSET S /\ SumOver(f, T) # SumOver(g, T) /\ IsFiniteSet(T)
  BY <1>1, FS_Subset
<1>3. T # {}
  BY <1>2, SumOfNone
<1> DEFINE U == T \ {Chosen(T)}
<1>4. Chosen(T) \in T
  BY <1>3, ChosenIsIn
<1>5. SumOver(f, U) = SumOver(g, U)
  BY <1>1, <1>2, <1>4
<1>6. /\ SumOver(f, T) = f[Chosen(T)] + SumOver(f, U)
      /\ SumOver(g, T) = g[Chosen(T)] + SumOver(g, U)
  BY <1>2, <1>3, SumFromChosen
<1> QED BY <1>2, <1>4, <1>5, <1>6

\* Smaller values add up to no more.
LEMMA SumOfLess ==
    ASSUME NEW f, NEW g, NEW S, IsFiniteSet(S),
           \A x \in S : f[x] \in Int /\ g[x] \in Int /\ f[x] <= g[x]
    PROVE  SumOver(f, S) <= SumOver(g, S)
<1> DEFINE F == {T \in SUBSET S : ~(SumOver(f, T) <= SumOver(g, T))}
<1> SUFFICES ASSUME F # {} PROVE FALSE OBVIOUS
<1>1. PICK T \in F : \A U \in F : U \subseteq T => U = T
  <2>1. F \subseteq SUBSET S
    OBVIOUS
  <2> HIDE DEF F
  <2> QED BY <2>1, LeastSubset
<1>2. T \in SUBSET S /\ ~(SumOver(f, T) <= SumOver(g, T)) /\ IsFiniteSet(T)
  BY <1>1, FS_Subset
<1>3. T # {}
  BY <1>2, SumOfNone
<1> DEFINE U == T \ {Chosen(T)}
<1>4. Chosen(T) \in T
  BY <1>3, ChosenIsIn
<1>5. SumOver(f, U) <= SumOver(g, U)
  BY <1>1, <1>2, <1>4
<1>6. /\ SumOver(f, T) = f[Chosen(T)] + SumOver(f, U)
      /\ SumOver(g, T) = g[Chosen(T)] + SumOver(g, U)
  BY <1>2, <1>3, SumFromChosen
<1>7. /\ SumOver(f, U) \in Int /\ SumOver(g, U) \in Int
      /\ f[Chosen(T)] \in Int /\ g[Chosen(T)] \in Int /\ f[Chosen(T)] <= g[Chosen(T)]
  <2>1. U \in SUBSET S /\ IsFiniteSet(U)
    BY <1>2, FS_Subset
  <2> QED BY <1>2, <1>4, <2>1, SumIsNumber
<1> HIDE DEF U
<1> QED BY <1>2, <1>5, <1>6, <1>7

\* Values that are at most half a cent above others add up to at most as many
\* half cents above.
LEMMA SumNear ==
    ASSUME NEW f, NEW g, NEW S, IsFiniteSet(S),
           \A x \in S : f[x] \in Int /\ g[x] \in Int /\ Money!AboveBy(f[x], g[x], 1)
    PROVE  Money!AboveBy(SumOver(f, S), SumOver(g, S), Cardinality(S))
<1> DEFINE Holds(T) == Money!AboveBy(SumOver(f, T), SumOver(g, T), Cardinality(T))
           F == {T \in SUBSET S : ~Holds(T)}
<1> SUFFICES ASSUME F # {} PROVE FALSE OBVIOUS
<1>1. PICK T \in F : \A U \in F : U \subseteq T => U = T
  <2>1. F \subseteq SUBSET S
    OBVIOUS
  <2> HIDE DEF F
  <2> QED BY <2>1, LeastSubset
<1>2. T \in SUBSET S /\ ~Holds(T) /\ IsFiniteSet(T)
  BY <1>1, FS_Subset
<1>3. T # {}
  <2>1. Cardinality({}) = 0 /\ \A g1 : SumOver(g1, {}) = 0
    BY SumOfNone, FS_EmptySet
  <2>2. Money!AboveBy(0, 0, 0)
    BY DEF Money!AboveBy, Money!Cent
  <2> QED BY <1>2, <2>1, <2>2
<1> DEFINE U == T \ {Chosen(T)}
<1>4. Chosen(T) \in T
  BY <1>3, ChosenIsIn
<1>5. Holds(U)
  BY <1>1, <1>2, <1>4
<1>6. /\ SumOver(f, T) = f[Chosen(T)] + SumOver(f, U)
      /\ SumOver(g, T) = g[Chosen(T)] + SumOver(g, U)
  BY <1>2, <1>3, SumFromChosen
<1>7. /\ SumOver(f, U) \in Int /\ SumOver(g, U) \in Int
      /\ f[Chosen(T)] \in Int /\ g[Chosen(T)] \in Int
      /\ Money!AboveBy(f[Chosen(T)], g[Chosen(T)], 1)
  <2>1. U \in SUBSET S /\ IsFiniteSet(U)
    BY <1>2, FS_Subset
  <2> QED BY <1>2, <1>4, <2>1, SumIsNumber
<1>8. Cardinality(T) \in Nat /\ Cardinality(U) = Cardinality(T) - 1
  BY <1>2, <1>4, FS_RemoveElement, FS_CardinalityType
<1> HIDE DEF U
<1> QED BY <1>2, <1>5, <1>6, <1>7, <1>8 DEF Money!AboveBy, Money!Cent

\* Two parts add up to the whole.
LEMMA SumOfParts ==
    ASSUME NEW f, NEW S, IsFiniteSet(S), \A x \in S : f[x] \in Int, NEW A \in SUBSET S
    PROVE  SumOver(f, S) = SumOver(f, A) + SumOver(f, S \ A)
<1> DEFINE B == S \ A
           F == {T \in SUBSET A : SumOver(f, T \cup B) # SumOver(f, T) + SumOver(f, B)}
<1>1. \A T \in SUBSET S : IsFiniteSet(T) /\ SumOver(f, T) \in Int
  BY FS_Subset, SumIsNumber
<1>2. F = {}
  <2> SUFFICES ASSUME F # {} PROVE FALSE OBVIOUS
  <2>1. PICK T \in F : \A U \in F : U \subseteq T => U = T
    <3>1. F \subseteq SUBSET A /\ IsFiniteSet(A)
      BY <1>1
    <3> HIDE DEF F
    <3> QED BY <3>1, LeastSubset
  <2>2. T \in SUBSET A /\ SumOver(f, T \cup B) # SumOver(f, T) + SumOver(f, B)
    BY <2>1
  <2>3. T # {}
    <3>1. {} \cup B = B /\ SumOver(f, B) \in Int
      BY <1>1
    <3> QED BY <2>2, <3>1, SumOfNone
  <2>4. PICK x \in T : TRUE
    BY <2>3
  <2>5. SumOver(f, (T \ {x}) \cup B) = SumOver(f, T \ {x}) + SumOver(f, B)
    <3>1. T \ {x} \in SUBSET A /\ T \ {x} \subseteq T /\ T \ {x} # T
      BY <2>2, <2>4
    <3>2. T \ {x} \notin F
      BY <2>1, <3>1
    <3> HIDE DEF B
    <3> QED BY <3>1, <3>2
  <2>6. SumOver(f, T \cup B) = f[x] + SumOver(f, (T \ {x}) \cup B)
    <3>1. (T \cup B) \ {x} = (T \ {x}) \cup B /\ T \cup B \in SUBSET S /\ x \in T \cup B
      BY <2>2, <2>4
    <3> HIDE DEF B
    <3>2. SumOver(f, T \cup B) = f[x] + SumOver(f, (T \cup B) \ {x})
      BY <1>1, <3>1, SumFromAny
    <3> QED BY <3>1, <3>2
  <2>7. SumOver(f, T) = f[x] + SumOver(f, T \ {x})
    BY <1>1, <2>2, <2>4, SumFromAny
  <2>8. f[x] \in Int /\ SumOver(f, T \ {x}) \in Int /\ SumOver(f, B) \in Int
    BY <1>1, <2>2, <2>4
  <2> QED BY <2>2, <2>5, <2>6, <2>7, <2>8
<1>3. A \cup B = S
  OBVIOUS
<1> QED BY <1>2, <1>3

\* So do the parts that a key tells apart.
LEMMA SumByKey ==
    ASSUME NEW f, NEW key, NEW S, IsFiniteSet(S), \A x \in S : f[x] \in Int,
           NEW K, IsFiniteSet(K)
    PROVE  SumOver([k \in K |-> SumOver(f, {x \in S : key[x] = k})], K)
             = SumOver(f, {x \in S : key[x] \in K})
<1> DEFINE Of(k) == {x \in S : key[x] = k}
           In(T) == {x \in S : key[x] \in T}
           g == [k \in K |-> SumOver(f, Of(k))]
           F == {T \in SUBSET K : SumOver(g, T) # SumOver(f, In(T))}
<1> SUFFICES ASSUME F # {} PROVE FALSE OBVIOUS
<1>1. PICK T \in F : \A U \in F : U \subseteq T => U = T
  <2>1. F \subseteq SUBSET K
    OBVIOUS
  <2> HIDE DEF F
  <2> QED BY <2>1, LeastSubset
<1>2. T \in SUBSET K /\ SumOver(g, T) # SumOver(f, In(T)) /\ IsFiniteSet(T)
  BY <1>1, FS_Subset
<1>3. T # {}
  <2>1. In({}) = {}
    OBVIOUS
  <2> QED BY <1>2, <2>1, SumOfNone
<1>4. PICK c \in T : SumOver(g, T) = g[c] + SumOver(g, T \ {c})
  BY <1>2, <1>3, ChosenIsIn, SumFromChosen
<1>5. SumOver(g, T \ {c}) = SumOver(f, In(T \ {c}))
  BY <1>1, <1>2
<1>6. g[c] = SumOver(f, Of(c))
  BY <1>2
<1>7. SumOver(f, In(T)) = SumOver(f, Of(c)) + SumOver(f, In(T \ {c}))
  <2>1. /\ In(T) \in SUBSET S /\ Of(c) \in SUBSET In(T)
        /\ In(T) \ Of(c) = In(T \ {c})
    OBVIOUS
  <2>2. IsFiniteSet(In(T)) /\ \A x \in In(T) : f[x] \in Int
    BY <2>1, FS_Subset
  <2> HIDE DEF In, Of
  <2> QED BY <2>1, <2>2, SumOfParts
<1> HIDE DEF g, In, Of
<1> QED BY <1>2, <1>4, <1>5, <1>6, <1>7

-----------------------------------------------------------------------------

LEMMA RowFields ==
    ASSUME NEW r \in Money!Row
    PROVE  /\ r.amount \in Amounts /\ r.period \in Periods
           /\ r.currency \in Currencies /\ r.category \in Categories
           /\ r.start \in Starts \cup {Null} /\ r.createdAt \in 1 .. MaxDay
           /\ \A s \in Money!Statuses : [r EXCEPT !.status = s] \in Money!Row
           /\ \A c \in Currencies : [r EXCEPT !.currency = c] \in Money!Row
           /\ \A b \in BOOLEAN : [r EXCEPT !.carded = b] \in Money!Row
           /\ \A s \in Money!Statuses, d \in (1 .. MaxDay) \cup {Null} :
                 [r EXCEPT !.status = s, !.cancelledAt = d] \in Money!Row
  BY DEF Money!Row, Money!RowOf

\* No row is made on a day to come.
MadeBefore == \A i \in Money!Present : sub[i].createdAt <= day
MoneyInv == Money!TypeOK /\ MadeBefore

LEMMA MoneyKept ==
    ASSUME MoneyInv, [Money!Next]_(Money!vars)
    PROVE  MoneyInv'
<1> USE DEF MoneyInv, Money!TypeOK
<1>1. ASSUME NEW i \in Bills, NEW r \in Money!Row, r.createdAt <= day, Money!Put(i, r)
      PROVE  MoneyInv'
  BY <1>1 DEF Money!Put, Money!Present, MadeBefore
<1>2. \A i \in Money!Present : /\ i \in Bills /\ sub[i] \in Money!Row
                               /\ sub[i].createdAt <= day
  BY DEF Money!Present, MadeBefore
<1>3. ASSUME NEW i \in Bills, Money!Create(i) PROVE MoneyInv'
  <2>1. PICK r \in Money!RowOf({day}, {Null}) : Money!Put(i, r)
    BY <1>3 DEF Money!Create
  <2>2. r \in Money!Row /\ r.createdAt = day
    BY <2>1 DEF Money!Row, Money!RowOf
  <2>3. day <= day
    OBVIOUS
  <2> QED BY <1>1, <2>1, <2>2, <2>3
<1>4. ASSUME NEW i \in Bills, Money!Update(i) PROVE MoneyInv'
  <2>1. /\ \A s : [sub[i] EXCEPT !.status = s].createdAt = sub[i].createdAt
        /\ \A c : [sub[i] EXCEPT !.currency = c].createdAt = sub[i].createdAt
        /\ \A b : [sub[i] EXCEPT !.carded = b].createdAt = sub[i].createdAt
    BY <1>2, <1>4 DEF Money!Update, Money!Row, Money!RowOf
  <2> QED BY <1>1, <1>2, <1>4, <2>1, RowFields DEF Money!Update
<1>5. ASSUME NEW i \in Bills, Money!UpdateStatus(i) PROVE MoneyInv'
  <2>1. day \in (1 .. MaxDay) \cup {Null} /\ Null \in (1 .. MaxDay) \cup {Null}
        /\ {"CANCELLED", "ACTIVE"} \subseteq Money!Statuses
    BY DEF Money!Statuses
  <2>2. \A s, d : [sub[i] EXCEPT !.status = s, !.cancelledAt = d].createdAt = sub[i].createdAt
    BY <1>2, <1>5 DEF Money!UpdateStatus, Money!Row, Money!RowOf
  <2> QED BY <1>1, <1>2, <1>5, <2>1, <2>2, RowFields DEF Money!UpdateStatus
<1>6. ASSUME NEW i \in Bills, Money!Remove(i) PROVE MoneyInv'
  BY <1>6 DEF Money!Remove, Money!Put, Money!Present, MadeBefore
<1>7. ASSUME NEW u \in Payers, Money!RemoveCard(u) PROVE MoneyInv'
  <2>1. \A i \in Money!Present :
           /\ [sub[i] EXCEPT !.carded = FALSE] \in Money!Row
           /\ [sub[i] EXCEPT !.carded = FALSE].createdAt = sub[i].createdAt
    <3>1. \A r \in Money!Row : [r EXCEPT !.carded = FALSE].createdAt = r.createdAt
      BY DEF Money!Row, Money!RowOf
    <3> QED BY <1>2, <3>1, RowFields
  <2>2. /\ sub' = [i \in Bills |-> IF i \in Money!Present /\ sub[i].user = u
                                 THEN [sub[i] EXCEPT !.carded = FALSE] ELSE sub[i]]
        /\ day' = day /\ rates' = rates
    BY <1>7 DEF Money!RemoveCard
  <2>3. \A i \in Bills : /\ i \in Money!Present => /\ sub'[i] \in Money!Row
                                                   /\ sub'[i].createdAt = sub[i].createdAt
                         /\ i \notin Money!Present => sub'[i] = Null
    BY <1>2, <2>1, <2>2 DEF Money!Present
  <2>4. Money!TypeOK'
    <3>1. \A i \in Bills : sub'[i] \in Money!Row \cup {Null}
      BY <2>3
    <3>2. sub' \in [Bills -> Money!Row \cup {Null}]
      BY <2>2, <3>1
    <3> QED BY <2>2, <3>2
  <2>5. MadeBefore'
    BY <1>2, <2>2, <2>3 DEF MadeBefore, Money!Present
  <2> QED BY <2>4, <2>5
<1>8. CASE Money!NextDay
  <2>1. MaxDay \in Nat /\ \A i \in Money!Present : sub[i].createdAt \in 1 .. MaxDay
    BY <1>2, RowFields, MoneyFits DEF Money!SpendConstants
  <2> QED BY <1>8, <2>1 DEF Money!NextDay, MadeBefore, Money!Present
<1>9. CASE Money!RatesChange
  BY <1>9 DEF Money!RatesChange, MadeBefore, Money!Present
<1>10. CASE UNCHANGED Money!vars
  BY <1>10 DEF Money!vars, MadeBefore, Money!Present
<1> QED BY <1>3, <1>4, <1>5, <1>6, <1>7, <1>8, <1>9, <1>10 DEF Money!Next

\* Rounding moves by no more than half a cent.
LEMMA Rounding ==
    ASSUME NEW x \in Int
    PROVE  /\ Money!RoundCents(x) \in Int /\ (x \in Nat => Money!RoundCents(x) \in Nat)
           /\ Money!Near(Money!RoundCents(x), x, 1)
<1>1. PICK q \in Int : q = (x + 600) \div 1200
  OBVIOUS
<1>2. 1200 * q <= x + 600 /\ x + 600 < 1200 * q + 1200 /\ (x \in Nat => q \in Nat)
  BY <1>1
<1> QED BY <1>1, <1>2 DEF Money!RoundCents, Money!Cent, Money!Near, Money!AboveBy

\* No amount is negative.
LEMMA AmountsAreNumbers ==
    ASSUME Money!TypeOK, NEW to \in Currencies, NEW i \in Money!Present
    PROVE  /\ Money!ConvertAmount(i, to) \in Nat /\ Money!ConvertSafe(i, to) \in Nat
           /\ rates = Currencies => Money!Near(Money!ConvertAmount(i, to), Money!ConvertSafe(i, to), 1)
<1>1. /\ sub[i].amount \in Nat /\ sub[i].period \in Periods /\ sub[i].currency \in Currencies
  BY RowFields, MoneyFits DEF Money!TypeOK, Money!Present, Money!SpendConstants
<1>2. PICK a \in Nat : a = Money!MonthlyOf(i)
  <2>1. PICK x \in Nat : x = sub[i].amount
    BY <1>1
  <2>2. x * 5196 \in Nat /\ x * 1200 \in Nat /\ x * 400 \in Nat /\ x * 100 \in Nat
    OBVIOUS
  <2>3. Money!ToMonthlyAmount(x, sub[i].period) \in Nat
    BY <1>1, <2>2, MoneyFits DEF Money!SpendConstants, Money!ToMonthlyAmount
  <2> QED BY <2>1, <2>3 DEF Money!MonthlyOf
<1>3. \A c : Money!Rate(c) \in {1, 2}
  BY DEF Money!Rate
<1>4. \A n \in Nat, x, y \in {1, 2} : (n * x) \div y \in Nat
  OBVIOUS
<1>5. \A c, d : Money!Convert(a, c, d) \in Nat
  BY <1>3, <1>4 DEF Money!Convert
<1>6. PICK b \in Nat : b = Money!Convert(a, sub[i].currency, to)
  BY <1>5
<1>7. Money!RoundCents(b) \in Nat /\ Money!Near(Money!RoundCents(b), b, 1)
  BY Rounding
<1>8. Money!Near(a, a, 1)
  BY DEF Money!Near, Money!AboveBy, Money!Cent
<1>9. sub[i].currency = to => b = a
  BY <1>6 DEF Money!Convert
<1>10. rates = Currencies => rates # {} /\ Money!Convertible(sub[i].currency, to)
  BY <1>1 DEF Money!Convertible
<1> QED BY <1>2, <1>6, <1>7, <1>8, <1>9, <1>10 DEF Money!ConvertAmount, Money!ConvertSafe

LEMMA LeastOfNumbers ==
    ASSUME NEW S, S \subseteq Nat, S # {}
    PROVE  Money!Min(S) \in S
<1>1. PICK x \in S : \A y \in S : ~(<<y, x>> \in OpToRel(<, Nat))
  BY NatLessThanWellFounded, WFMin
<1>2. \A y \in S : ~(y < x)
  BY <1>1, Zenon DEF OpToRel
<1>3. \A y \in S : x <= y
  BY <1>2
<1> QED BY <1>3 DEF Money!Min

LEMMA MoneyCardinality == \A S : Money!Cardinality(S) = Cardinality(S)
  BY DEF Money!Cardinality, Cardinality

LEMMA FiniteTables == IsFiniteSet(Bills) /\ IsFiniteSet(Categories)
<1>1. \A S : Money!IsFiniteSet(S) <=> IsFiniteSet(S)
  BY DEF Money!IsFiniteSet, IsFiniteSet
<1> QED BY <1>1, MoneyFits DEF Money!SpendConstants

\* What one user is told, in one currency.
LEMMA OneTotal ==
    ASSUME Money!TypeOK, NEW u \in Payers, NEW to \in Currencies
    PROVE  LET summary == Money!Summary(u, to)
               lines == Cardinality(Categories)
           IN
           /\ summary = Money!Forecast30d(u, to)
           /\ Money!Near(summary, Money!Sum(Money!ByCategory(u, to)), lines + 1)
           /\ Money!Near(summary, Money!ByCard(u, to).card + Money!ByCard(u, to).unassigned, 3)
           /\ Money!AboveBy(Money!Savings(u, to), summary, lines + 1)
<1> DEFINE all == Money!Active(Money!Own(u))
           f == [i \in Money!Present |-> Money!ConvertAmount(i, to)]
           summary == Money!Summary(u, to)
           R(x) == Money!RoundCents(x)
           lines == Cardinality(Categories)
<1>1. all \subseteq Money!Present /\ all \subseteq Bills
  BY DEF Money!Active, Money!Own, Money!Present
<1>2. \A S \in SUBSET all : IsFiniteSet(S) /\ \A i \in S : f[i] \in Nat /\ f[i] \in Int
  <2>1. IsFiniteSet(Bills)
    BY FiniteTables
  <2>2. \A i \in Money!Present : f[i] \in Nat
    BY AmountsAreNumbers
  <2> HIDE DEF f, all
  <2> QED BY <1>1, <2>1, <2>2, FS_Subset
<1>3. \A S : Money!Total(S, to) = SumOver(f, S)
  BY SumIs DEF Money!Total
<1>4. \A S \in SUBSET all : SumOver(f, S) \in Nat
  <2> HIDE DEF f, all
  <2> QED BY <1>2, SumIsNumber
<1>5. PICK total \in Nat : total = SumOver(f, all)
  BY <1>4
<1>6. summary = R(total) /\ summary \in Int /\ Money!Near(summary, total, 1)
  BY <1>3, <1>5, Rounding DEF Money!Summary
<1>7. summary = Money!Forecast30d(u, to)
  <2>1. {i \in Money!Present : sub[i].user = u /\ sub[i].status \in {"ACTIVE", "TRIAL"}} = all
    BY DEF Money!Active, Money!Own
  <2> QED BY <2>1 DEF Money!Forecast30d, Money!Summary
<1> DEFINE key == [i \in Money!Present |-> sub[i].category]
           of(c) == {i \in all : sub[i].category = c}
           g == [c \in Categories |-> SumOver(f, of(c))]
           rounded == [c \in Categories |-> R(SumOver(f, of(c)))]
<1>8. total = SumOver(g, Categories)
  <2>1. \A c : of(c) = {i \in all : key[i] = c}
    BY <1>1
  <2>2. \A i \in all : key[i] \in Categories
    BY <1>1, RowFields DEF Money!TypeOK, Money!Present
  <2>3. all = {i \in all : key[i] \in Categories}
    BY <2>2
  <2>4. g = [c \in Categories |-> SumOver(f, {i \in all : key[i] = c})]
    BY <2>1
  <2>5. IsFiniteSet(Categories)
    BY FiniteTables
  <2> HIDE DEF all, key, f, g
  <2> QED BY <1>2, <1>5, <2>3, <2>4, <2>5, SumByKey
<1>9. /\ IsFiniteSet(Categories) /\ lines \in Nat
      /\ \A c \in Categories : g[c] \in Nat /\ g[c] = SumOver(f, of(c))
  BY <1>4, FiniteTables, FS_CardinalityType
<1>10. Money!Near(summary, Money!Sum(Money!ByCategory(u, to)), lines + 1)
  <2>1. Money!Sum(Money!ByCategory(u, to)) = SumOver(rounded, Categories)
    BY <1>3, SumIs DEF Money!Sum, Money!ByCategory
  <2>2. \A c \in Categories : /\ rounded[c] \in Int /\ g[c] \in Int
                              /\ Money!AboveBy(rounded[c], g[c], 1)
                              /\ Money!AboveBy(g[c], rounded[c], 1)
    <3>1. ASSUME NEW c \in Categories
          PROVE  /\ rounded[c] \in Int /\ g[c] \in Int
                 /\ Money!AboveBy(rounded[c], g[c], 1) /\ Money!AboveBy(g[c], rounded[c], 1)
      <4>1. PICK x \in Nat : x = SumOver(f, of(c))
        BY <1>9
      <4>2. rounded[c] = R(x) /\ g[c] = x
        BY <4>1
      <4> HIDE DEF rounded, g, f, of
      <4> QED BY <4>2, Rounding DEF Money!Near
    <3> QED BY <3>1
  <2> HIDE DEF rounded, g, f, all, summary
  <2>3. SumOver(rounded, Categories) \in Int
    BY <1>9, <2>2, SumIsNumber
  <2>4. /\ Money!AboveBy(SumOver(rounded, Categories), total, lines)
        /\ Money!AboveBy(total, SumOver(rounded, Categories), lines)
    BY <1>8, <1>9, <2>2, SumNear
  <2> QED BY <1>6, <1>9, <2>1, <2>3, <2>4 DEF Money!Near, Money!AboveBy, Money!Cent
<1>11. Money!Near(summary, Money!ByCard(u, to).card + Money!ByCard(u, to).unassigned, 3)
  <2> DEFINE carded == {i \in all : sub[i].carded}
  <2>1. {i \in all : ~sub[i].carded} = all \ carded /\ carded \in SUBSET all
    OBVIOUS
  <2>2. /\ Money!ByCard(u, to).card = R(SumOver(f, carded))
        /\ Money!ByCard(u, to).unassigned = R(SumOver(f, all \ carded))
    BY <1>3, <2>1 DEF Money!ByCard
  <2>3. PICK x \in Nat, y \in Nat : x = SumOver(f, carded) /\ y = SumOver(f, all \ carded)
    <3> HIDE DEF f, all, carded
    <3> QED BY <1>4, <2>1
  <2> HIDE DEF carded, all, f
  <2>4. total = x + y
    <3>1. IsFiniteSet(all) /\ \A i \in all : f[i] \in Int
      BY <1>2
    <3>2. SumOver(f, all) = SumOver(f, carded) + SumOver(f, all \ carded)
      BY <2>1, <3>1, SumOfParts
    <3> QED BY <1>5, <2>3, <3>2
  <2>5. R(x) \in Int /\ Money!Near(R(x), x, 1) /\ R(y) \in Int /\ Money!Near(R(y), y, 1)
    BY Rounding
  <2>6. PICK card \in Int, unassigned \in Int : card = R(x) /\ unassigned = R(y)
    BY <2>5
  <2> HIDE DEF R, summary
  <2>7. /\ Money!ByCard(u, to).card = card /\ Money!ByCard(u, to).unassigned = unassigned
        /\ Money!Near(card, x, 1) /\ Money!Near(unassigned, y, 1)
    BY <2>2, <2>3, <2>5, <2>6
  <2> QED BY <1>6, <2>4, <2>7 DEF Money!Near, Money!AboveBy, Money!Cent
<1> DEFINE least(c) == Money!Min({Money!ConvertAmount(i, to) : i \in of(c)})
           h == [c \in Categories |->
                   IF of(c) = {} THEN 0 ELSE R(SumOver(f, of(c)) - least(c))]
<1>12. Money!Savings(u, to) = SumOver(h, Categories)
  BY <1>3, SumIs DEF Money!Savings, Money!Sum
<1>13. ASSUME NEW c \in Categories
       PROVE  g[c] \in Int /\ h[c] \in Int /\ Money!AboveBy(h[c], g[c], 1)
  <2>1. PICK x \in Nat : g[c] = x /\ SumOver(f, of(c)) = x
    BY <1>9
  <2>2. CASE of(c) = {}
    <3>1. h[c] = 0
      BY <2>2
    <3> HIDE DEF h, g, f, of
    <3> QED BY <2>1, <3>1 DEF Money!AboveBy, Money!Cent
  <2>3. CASE of(c) # {}
    <3>1. PICK l \in Nat : l = least(c)
      <4> DEFINE amounts == {Money!ConvertAmount(i, to) : i \in of(c)}
      <4>1. amounts # {}
        BY <2>3
      <4>2. amounts \subseteq Nat
        BY <1>1, AmountsAreNumbers
      <4> HIDE DEF amounts
      <4>3. Money!Min(amounts) \in Nat
        BY <4>1, <4>2, LeastOfNumbers
      <4> QED BY <4>3 DEF amounts
    <3>2. h[c] = R(x - l)
      BY <2>1, <2>3, <3>1
    <3> HIDE DEF f, of, least, g, h
    <3>3. R(x - l) \in Int /\ Money!Near(R(x - l), x - l, 1)
      BY Rounding
    <3>4. PICK r \in Int : r = R(x - l)
      BY <3>3
    <3> HIDE DEF R
    <3> QED BY <2>1, <3>2, <3>3, <3>4 DEF Money!Near, Money!AboveBy, Money!Cent
  <2> QED BY <2>2, <2>3
<1>14. Money!AboveBy(Money!Savings(u, to), summary, lines + 1)
  <2> HIDE DEF g, h, summary
  <2>1. SumOver(h, Categories) \in Int
    BY <1>9, <1>13, SumIsNumber
  <2>2. Money!AboveBy(SumOver(h, Categories), total, lines)
    BY <1>8, <1>9, <1>13, SumNear
  <2> QED BY <1>6, <1>9, <1>12, <2>1, <2>2 DEF Money!Near, Money!AboveBy, Money!Cent
<1> QED BY <1>7, <1>10, <1>11, <1>14

\* The bar of this month, for one who has nothing cancelled, paused or ahead, and
\* nothing that was made on its last day and has no start.
LEMMA ThisMonth ==
    ASSUME MoneyInv, NEW u \in Payers, NEW to \in Currencies,
           \A i \in Money!Own(u) :
              /\ sub[i].status \in {"ACTIVE", "TRIAL"} /\ sub[i].cancelledAt = Null
              /\ \/ sub[i].start # Null /\ sub[i].start <= day
                 \/ sub[i].start = Null /\ sub[i].createdAt # Money!LastDay(Money!MonthOf(day))
    PROVE  Money!Monthly(u, to, Money!MonthOf(day)) = Money!Summary(u, to)
<1> DEFINE m == Money!MonthOf(day)
<1>1. PICK last \in Int : last = Money!LastDay(m) /\ day <= last
  <2>1. PICK d \in Nat, n \in Nat \ {0} : d = day /\ n = Days /\ d >= 1
    BY MoneyFits DEF MoneyInv, Money!TypeOK, Money!SpendConstants
  <2>2. PICK q \in Int : q = (d - 1) \div n /\ d - 1 < n * q + n
    BY <2>1
  <2>3. (q + 1) * n \in Int /\ (q + 1) * n = n * q + n
    BY <2>2
  <2> QED BY <2>1, <2>2, <2>3 DEF Money!LastDay, Money!MonthOf
<1>2. ASSUME NEW i \in Money!Own(u) PROVE Money!InMonth(i, m)
  <2>1. i \in Money!Present /\ sub[i] \in Money!Row
    BY DEF MoneyInv, Money!TypeOK, Money!Own, Money!Present
  <2>2. sub[i].createdAt <= day /\ sub[i].createdAt \in Int /\ day \in Int
    <3>1. sub[i].createdAt \in 1 .. MaxDay /\ day \in 1 .. MaxDay
      BY <2>1, RowFields DEF MoneyInv, Money!TypeOK
    <3> QED BY <2>1, <3>1 DEF MoneyInv, MadeBefore
  <2>3. sub[i].start # Null => sub[i].start \in Int
    <3>1. Starts \subseteq Nat
      BY MoneyFits DEF Money!SpendConstants
    <3>2. PICK x \in Starts \cup {Null} : x = sub[i].start
      BY <2>1, RowFields
    <3>3. x # Null => x \in Int
      BY <3>1
    <3> QED BY <3>2, <3>3, Zenon
  <2>4. Money!Begun(i, m)
    BY <1>1, <2>2, <2>3 DEF Money!Begun
  <2> QED BY <2>4 DEF Money!InMonth
<1>3. {i \in Money!Own(u) : Money!InMonth(i, m)} = Money!Active(Money!Own(u))
  BY <1>2 DEF Money!Active
<1> QED BY <1>3 DEF Money!Monthly, Money!Summary

\* The team screen, where every currency has a rate.
LEMMA TeamTotals ==
    ASSUME Money!TypeOK, NEW u \in Payers, NEW to \in Currencies, rates = Currencies
    PROVE  Money!Near(Money!TeamScreen(to)[u].monthly, Money!Summary(u, to),
                      Money!TeamScreen(to)[u].count + 2)
<1> DEFINE all == Money!Active(Money!Own(u))
           f == [i \in Money!Present |-> Money!ConvertAmount(i, to)]
           g == [i \in Money!Present |-> Money!ConvertSafe(i, to)]
<1>1. all \subseteq Money!Present /\ IsFiniteSet(all)
  <2>1. all \subseteq Bills /\ IsFiniteSet(Bills)
    BY FiniteTables DEF Money!Active, Money!Own, Money!Present
  <2>2. all \subseteq Money!Present
    BY DEF Money!Active, Money!Own
  <2> HIDE DEF all
  <2> QED BY <2>1, <2>2, FS_Subset
<1>2. /\ Money!Summary(u, to) = Money!RoundCents(SumOver(f, all))
      /\ Money!TeamScreen(to)[u].monthly = Money!RoundCents(SumOver(g, all))
      /\ Money!TeamScreen(to)[u].count = Cardinality(all)
  BY SumIs, MoneyCardinality
  DEF Money!Summary, Money!TeamScreen, Money!Total, Money!TeamTotal
<1>3. \A i \in all : /\ f[i] \in Int /\ g[i] \in Int
                     /\ Money!AboveBy(f[i], g[i], 1) /\ Money!AboveBy(g[i], f[i], 1)
  BY <1>1, AmountsAreNumbers DEF Money!Near
<1> HIDE DEF all, f, g
<1>4. PICK x \in Int, y \in Int : x = SumOver(f, all) /\ y = SumOver(g, all)
  BY <1>1, <1>3, SumIsNumber
<1>5. Money!AboveBy(x, y, Cardinality(all)) /\ Money!AboveBy(y, x, Cardinality(all))
  BY <1>1, <1>3, <1>4, SumNear
<1>6. PICK told \in Int, shown \in Int :
         /\ told = Money!RoundCents(x) /\ shown = Money!RoundCents(y)
         /\ Money!Near(told, x, 1) /\ Money!Near(shown, y, 1)
  BY Rounding
<1>7. PICK n \in Nat : n = Cardinality(all)
  BY <1>1, FS_CardinalityType
<1>8. Money!Near(shown, told, n + 2)
  BY <1>5, <1>6, <1>7 DEF Money!Near, Money!AboveBy, Money!Cent
<1> QED BY <1>2, <1>4, <1>6, <1>7, <1>8

\* The screen counts what the two lists do.
LEMMA TeamCounts ==
    ASSUME NEW u \in Payers, NEW to \in Currencies
    PROVE  /\ Money!TeamScreen(to)[u].count = Money!ListMembers[u]
           /\ Money!ListMembers[u] = Cardinality(Money!MemberSubscriptions(u))
<1> DEFINE all == Money!Active(Money!Own(u))
           live == Money!Active({i \in Money!Present : sub[i].user \in Payers})
           counts == [v \in {sub[i].user : i \in live} |->
                        Cardinality({i \in live : sub[i].user = v})]
<1>1. all = Money!MemberSubscriptions(u)
  BY DEF Money!Active, Money!Own, Money!MemberSubscriptions
<1>2. {i \in live : sub[i].user = u} = all
  BY DEF Money!Active, Money!Own
<1>3. Money!TeamScreen(to)[u].count = Cardinality(all)
  BY MoneyCardinality DEF Money!TeamScreen
<1>4. Money!ListMembers[u] = IF u \in DOMAIN counts THEN counts[u] ELSE 0
  BY MoneyCardinality DEF Money!ListMembers, Money!MemberCounts
<1> HIDE DEF all
<1>5. CASE u \in {sub[i].user : i \in live}
  BY <1>1, <1>2, <1>3, <1>4, <1>5
<1>6. CASE u \notin {sub[i].user : i \in live}
  <2>1. all = {}
    BY <1>2, <1>6
  <2> QED BY <1>1, <1>3, <1>4, <1>6, <2>1, FS_EmptySet
<1> QED BY <1>5, <1>6

\* AnalyticsService and WorkspaceService, for any rows, users, prices, categories,
\* days and rates, whatever is created, edited, cancelled and removed: the loops
\* that sum up what a user or a team spends agree with one another, but for the
\* half cents that each of them rounds away.
THEOREM TotalsAlwaysAddUp == Money!Spec => [](Money!TotalsAddUp /\ TotalsAddUp)
<1>1. Money!Init => MoneyInv
  BY MoneyFits DEF Money!Init, MoneyInv, Money!TypeOK, Money!SpendConstants, MadeBefore,
     Money!Present
<1>2. MoneyInv => Money!TotalsAddUp
  BY OneTotal, ThisMonth, TeamTotals, TeamCounts, MoneyCardinality
  DEF Money!TotalsAddUp, MoneyInv
<1>3. Money!TotalsAddUp => TotalsAddUp
  BY DEF TotalsAddUp
<1> QED BY <1>1, <1>2, <1>3, MoneyKept, PTL DEF Money!Spec

\* Rounding keeps the order.
LEMMA RoundingGrows ==
    ASSUME NEW x \in Int, NEW y \in Int, x <= y
    PROVE  Money!RoundCents(x) <= Money!RoundCents(y)
<1>1. PICK p \in Int, q \in Int : p = (x + 600) \div 1200 /\ q = (y + 600) \div 1200
  OBVIOUS
<1>2. p <= q
  BY <1>1
<1> QED BY <1>1, <1>2 DEF Money!RoundCents, Money!Cent

\* A bar over more rows is no lower.
LEMMA MoreRows ==
    ASSUME NEW f, NEW g, NEW S, NEW T, S \subseteq T, IsFiniteSet(T),
           \A x \in T : g[x] \in Nat, \A x \in S : f[x] = g[x]
    PROVE  Money!RoundCents(SumOver(f, S)) <= Money!RoundCents(SumOver(g, T))
<1>1. IsFiniteSet(S) /\ IsFiniteSet(T \ S) /\ (\A x \in T : g[x] \in Int) /\ S \in SUBSET T
  BY FS_Subset
<1>2. SumOver(f, S) = SumOver(g, S)
  BY <1>1, SumOfAlike
<1>3. SumOver(g, T) = SumOver(g, S) + SumOver(g, T \ S)
  BY <1>1, SumOfParts
<1>4. PICK a \in Nat, b \in Nat : a = SumOver(g, S) /\ b = SumOver(g, T \ S)
  BY <1>1, SumIsNumber
<1>5. Money!RoundCents(a) <= Money!RoundCents(a + b)
  BY RoundingGrows
<1> QED BY <1>2, <1>3, <1>4, <1>5

\* The first and the last day of a month.
LEMMA MonthEnds ==
    ASSUME NEW d \in Nat, NEW m \in Nat
    PROVE  /\ m <= Money!MonthOf(d) => Money!FirstDay(m) <= d
           /\ m < Money!MonthOf(d) => Money!LastDay(m) < d
<1>1. PICK n \in Nat \ {0} : n = Days
  BY MoneyFits DEF Money!SpendConstants
<1>2. PICK q \in Int : q = (d - 1) \div n /\ n * q <= d - 1
  BY <1>1
<1>3. \A k \in Int : k <= q => n * k <= n * q
  <2>1. \A k \in Int : k <= q => n * (q - k) >= 0 /\ n * (q - k) = n * q - n * k
    OBVIOUS
  <2>2. \A k \in Int : n * k \in Int /\ n * q \in Int
    OBVIOUS
  <2> QED BY <2>1, <2>2
<1>4. /\ m * n = n * m /\ (m + 1) * n = n * (m + 1) /\ n * m \in Int /\ n * (m + 1) \in Int
      /\ n * q \in Int
  OBVIOUS
<1>5. m <= q => m * n + 1 <= d
  BY <1>2, <1>3, <1>4
<1>6. m < q => (m + 1) * n < d
  <2>1. m < q => n * (m + 1) <= n * q
    BY <1>3
  <2> QED BY <1>2, <1>4, <2>1
<1> QED BY <1>1, <1>2, <1>5, <1>6 DEF Money!MonthOf, Money!FirstDay, Money!LastDay

\* Monthly, as a sum.
LEMMA BarIsSum ==
    ASSUME NEW u, NEW to, NEW m
    PROVE  Money!Monthly(u, to, m)
             = Money!RoundCents(SumOver([i \in Money!Present |-> Money!ConvertAmount(i, to)],
                                       {i \in Money!Own(u) : Money!InMonth(i, m)}))
  BY SumIs DEF Money!Monthly, Money!Total

\* What an amount is computed from.
LEMMA SameAmount ==
    ASSUME NEW i, NEW to, sub'[i].amount = sub[i].amount, sub'[i].period = sub[i].period,
           sub'[i].currency = sub[i].currency, rates' = rates
    PROVE  Money!ConvertAmount(i, to)' = Money!ConvertAmount(i, to)
<1>1. Money!MonthlyOf(i)' = Money!MonthlyOf(i)
  BY DEF Money!MonthlyOf, Money!ToMonthlyAmount
<1>2. \A c, d : Money!Convertible(c, d)' = Money!Convertible(c, d)
  BY DEF Money!Convertible
<1> QED BY <1>1, <1>2 DEF Money!ConvertAmount, Money!Convert, Money!Rate, Money!RoundCents, Money!Cent

Changed(r, s, d) == [r EXCEPT !.status = s, !.cancelledAt = d]
LEMMA StatusFields ==
    ASSUME NEW r \in Money!Row, NEW s \in {"CANCELLED", "ACTIVE"}, NEW d \in (1 .. MaxDay) \cup {Null}
    PROVE  /\ Changed(r, s, d) \in Money!Row
           /\ Changed(r, s, d).status = s /\ Changed(r, s, d).cancelledAt = d
           /\ Changed(r, s, d).user = r.user /\ Changed(r, s, d).amount = r.amount
           /\ Changed(r, s, d).period = r.period /\ Changed(r, s, d).currency = r.currency
           /\ Changed(r, s, d).start = r.start /\ Changed(r, s, d).createdAt = r.createdAt
  BY DEF Changed, Money!Row, Money!RowOf, Money!Statuses

\* Cancelling or restoring a subscription takes it out of no month so far.
LEMMA StatusKeepsPast ==
    ASSUME MoneyInv, MoneyInv', NEW j \in Bills, Money!UpdateStatus(j),
           NEW u \in Payers, NEW to \in Currencies, NEW m \in 0 .. Money!MonthOf(day)
    PROVE  Money!Monthly(u, to, m)' >= Money!Monthly(u, to, m)
<1> DEFINE f == [i \in Money!Present |-> Money!ConvertAmount(i, to)]
           S == {i \in Money!Own(u) : Money!InMonth(i, m)}
<1>1. /\ sub' \in [Bills -> Money!Row \cup {Null}] /\ sub \in [Bills -> Money!Row \cup {Null}]
      /\ sub[j] \in Money!Row /\ sub[j] # Null /\ day' = day /\ rates' = rates
      /\ \A i \in Bills \ {j} : sub'[i] = sub[i]
  BY DEF MoneyInv, Money!TypeOK, Money!UpdateStatus, Money!Present, Money!Put
<1>2. /\ sub'[j].user = sub[j].user /\ sub'[j].amount = sub[j].amount
      /\ sub'[j].period = sub[j].period /\ sub'[j].currency = sub[j].currency
      /\ sub'[j].start = sub[j].start /\ sub'[j].createdAt = sub[j].createdAt
      /\ sub'[j].status \in {"ACTIVE", "CANCELLED"}
      /\ sub'[j].cancelledAt = Null \/ sub'[j].cancelledAt = day
      /\ sub'[j] \in Money!Row
  <2>1. PICK r \in Money!Row : r = sub[j]
    BY <1>1
  <2>2. \/ sub'[j] = [r EXCEPT !.status = "CANCELLED", !.cancelledAt = day]
        \/ sub'[j] = [r EXCEPT !.status = "ACTIVE", !.cancelledAt = Null]
    BY <1>1, <2>1 DEF Money!UpdateStatus, Money!Put
  <2>3. day \in (1 .. MaxDay) \cup {Null} /\ Null \in (1 .. MaxDay) \cup {Null}
    BY DEF MoneyInv, Money!TypeOK
  <2>4. PICK s \in {"CANCELLED", "ACTIVE"}, d \in (1 .. MaxDay) \cup {Null} :
           sub'[j] = Changed(r, s, d) /\ (d = Null \/ d = day)
    BY <2>2, <2>3 DEF Changed
  <2> QED BY <2>1, <2>4, StatusFields
<1>3. Null \notin Money!Row
  BY MoneyFits DEF Money!SpendConstants
<1>4. Money!Present' = Money!Present /\ Money!Own(u)' = Money!Own(u)
  <2>1. \A i \in Bills : sub'[i] = Null <=> sub[i] = Null
    <3>1. sub'[j] # Null
      BY <1>2, <1>3
    <3> QED BY <1>1, <3>1
  <2>2. Money!Present' = Money!Present
    BY <2>1 DEF Money!Present
  <2>3. \A i \in Money!Present : sub'[i].user = sub[i].user
    BY <1>1, <1>2 DEF Money!Present
  <2> QED BY <2>2, <2>3 DEF Money!Own
<1>5. \A i \in Money!Present : Money!ConvertAmount(i, to)' = Money!ConvertAmount(i, to)
  <2>1. \A i \in Money!Present : /\ sub'[i].amount = sub[i].amount
                               /\ sub'[i].period = sub[i].period
                               /\ sub'[i].currency = sub[i].currency
    BY <1>1, <1>2 DEF Money!Present
  <2> QED BY <1>1, <2>1, SameAmount
<1>6. ASSUME NEW i \in S PROVE Money!InMonth(i, m)'
  <2>1. CASE i # j
    BY <1>1, <1>6, <2>1 DEF Money!InMonth, Money!Begun, Money!LastDay, Money!FirstDay, Money!Own,
       Money!Present
  <2>2. CASE i = j
    <3>1. day \in Nat /\ m \in Nat /\ m <= Money!MonthOf(day)
      <4>1. day \in Nat /\ day >= 1 /\ Days \in Nat \ {0}
        BY MoneyFits DEF MoneyInv, Money!TypeOK, Money!SpendConstants
      <4>2. Money!MonthOf(day) \in Int
        BY <4>1 DEF Money!MonthOf
      <4> QED BY <4>1, <4>2
    <3>2. Money!FirstDay(m) <= day
      BY <3>1, MonthEnds
    <3>3. Money!FirstDay(m) \in Int
      BY <3>1, MoneyFits DEF Money!FirstDay, Money!SpendConstants
    <3>4. sub'[j].cancelledAt = Null \/ sub'[j].cancelledAt >= Money!FirstDay(m)
      BY <1>2, <3>1, <3>2, <3>3
    <3>5. Money!Begun(j, m)'
      BY <1>2, <1>6, <2>2 DEF Money!InMonth, Money!Begun, Money!LastDay
    <3> QED BY <1>2, <2>2, <3>4, <3>5 DEF Money!InMonth, Money!FirstDay
  <2> QED BY <2>1, <2>2
<1>7. S \subseteq S'
  BY <1>4, <1>6
<1>8. /\ S' \subseteq Money!Present /\ IsFiniteSet(S') /\ S \subseteq Money!Present
  <2>1. S' \subseteq Money!Present /\ S' \subseteq Bills /\ S \subseteq Money!Present
    BY <1>4 DEF Money!Own, Money!Present
  <2> HIDE DEF S
  <2> QED BY <2>1, FiniteTables, FS_Subset
<1>9. \A i \in S' : f[i] \in Nat
  BY <1>8, AmountsAreNumbers DEF MoneyInv
<1>10. f' = f
  BY <1>4, <1>5
<1>11. /\ Money!Monthly(u, to, m) = Money!RoundCents(SumOver(f, S))
       /\ Money!Monthly(u, to, m)' = Money!RoundCents(SumOver(f', S'))
  <2>1. Money!Monthly(u, to, m) = Money!RoundCents(SumOver(f, S))
    BY BarIsSum
  <2>2. Money!Monthly(u, to, m)' = Money!RoundCents(SumOver(f', S'))
    BY SumIs DEF Money!Monthly, Money!Total
  <2> QED BY <2>1, <2>2
<1> DEFINE T == S'
<1>12. SumOver(f', S') = SumOver(f, T)
  BY <1>10
<1>13. S \subseteq T /\ IsFiniteSet(T) /\ \A i \in T : f[i] \in Nat
  BY <1>7, <1>8, <1>9
<1> HIDE DEF f, S, T
<1>14. Money!RoundCents(SumOver(f, S)) <= Money!RoundCents(SumOver(f, T))
  BY <1>13, MoreRows
<1>15. /\ Money!RoundCents(SumOver(f, S)) \in Int /\ Money!RoundCents(SumOver(f, T)) \in Int
  <2>1. IsFiniteSet(S) /\ \A i \in S : f[i] \in Nat
    BY <1>13, FS_Subset
  <2>2. SumOver(f, S) \in Nat /\ SumOver(f, T) \in Nat
    BY <1>13, <2>1, SumIsNumber
  <2> QED BY <2>2, Rounding
<1> QED BY <1>11, <1>12, <1>14, <1>15

\* A new subscription is in no month before the one it starts in.
LEMMA CreationKeepsPast ==
    ASSUME MoneyInv, NEW j \in Bills \ Money!Present, NEW r \in Money!Row, Money!Put(j, r),
           NEW u \in Payers, NEW to \in Currencies, NEW m \in Nat,
           m < Money!MonthOf(IF r.start # Null THEN r.start ELSE r.createdAt)
    PROVE  Money!Monthly(u, to, m)' = Money!Monthly(u, to, m)
<1> DEFINE f == [i \in Money!Present |-> Money!ConvertAmount(i, to)]
           S == {i \in Money!Own(u) : Money!InMonth(i, m)}
<1>1. /\ sub' = [sub EXCEPT ![j] = r] /\ day' = day /\ rates' = rates
      /\ sub \in [Bills -> Money!Row \cup {Null}]
  BY DEF Money!Put, MoneyInv, Money!TypeOK
<1>2. sub'[j] = r /\ \A i \in Bills \ {j} : sub'[i] = sub[i]
  BY <1>1
<1>3. j \in Money!Own(u)' => ~Money!InMonth(j, m)'
  <2>1. Starts \subseteq Nat /\ MaxDay \in Nat
    BY MoneyFits DEF Money!SpendConstants
  <2>2. PICK since \in Nat : since = IF r.start # Null THEN r.start ELSE r.createdAt
    <3>1. PICK start \in Starts \cup {Null}, made \in 1 .. MaxDay :
             start = r.start /\ made = r.createdAt
      BY RowFields
    <3>2. made \in Nat /\ (start # Null => start \in Nat)
      BY <2>1
    <3>3. CASE start = Null
      BY <3>1, <3>2, <3>3
    <3>4. CASE start # Null
      BY <3>1, <3>2, <3>4
    <3> QED BY <3>3, <3>4
  <2>3. Money!LastDay(m) < since
    BY <2>2, MonthEnds
  <2>4. Money!LastDay(m) \in Int
    BY MoneyFits DEF Money!LastDay, Money!SpendConstants
  <2>5. ~(since <= Money!LastDay(m)) /\ ~(since < Money!LastDay(m))
    BY <2>3, <2>4
  <2>6. ~Money!Begun(j, m)'
    BY <1>2, <2>2, <2>5 DEF Money!Begun, Money!LastDay
  <2> QED BY <2>6 DEF Money!InMonth
<1>4. \A i \in Money!Present : /\ i \in Money!Present' /\ i # j /\ i \in Bills
                              /\ Money!ConvertAmount(i, to)' = Money!ConvertAmount(i, to)
  <2>1. \A i \in Money!Present : i \in Bills /\ i # j /\ sub'[i] = sub[i] /\ sub[i] # Null
    BY <1>2 DEF Money!Present
  <2>2. \A i \in Money!Present : i \in Money!Present'
    BY <2>1 DEF Money!Present
  <2> QED BY <1>1, <2>1, <2>2, SameAmount
<1>5. S' = S
  BY <1>2, <1>3, <1>4 DEF Money!InMonth, Money!Begun, Money!LastDay, Money!FirstDay,
     Money!Own, Money!Present
<1>6. IsFiniteSet(S) /\ S \subseteq Money!Present
  <2>1. S \subseteq Money!Present /\ S \subseteq Bills
    BY DEF Money!Own, Money!Present
  <2> HIDE DEF S
  <2> QED BY <2>1, FiniteTables, FS_Subset
<1> DEFINE g == f'
<1>7. \A i \in S : f[i] = g[i]
  BY <1>4, <1>6
<1>8. /\ Money!Monthly(u, to, m) = Money!RoundCents(SumOver(f, S))
      /\ Money!Monthly(u, to, m)' = Money!RoundCents(SumOver(f', S'))
  <2>1. Money!Monthly(u, to, m) = Money!RoundCents(SumOver(f, S))
    BY BarIsSum
  <2>2. Money!Monthly(u, to, m)' = Money!RoundCents(SumOver(f', S'))
    BY SumIs DEF Money!Monthly, Money!Total
  <2> QED BY <2>1, <2>2
<1>9. SumOver(f', S') = SumOver(g, S)
  BY <1>5
<1> HIDE DEF f, g, S
<1>10. SumOver(f, S) = SumOver(g, S)
  BY <1>6, <1>7, SumOfAlike
<1> QED BY <1>8, <1>9, <1>10

\* AnalyticsService.getMonthly, for any rows, days, prices and rates: what the
\* months so far are said to have cost does not shrink when a subscription is
\* cancelled or restored, and does not change when one is added that starts later.
THEOREM PastSpendIsKept == Money!Spec => PastSpendKept
<1>1. Money!Init => MoneyInv
  BY MoneyFits DEF Money!Init, MoneyInv, Money!TypeOK, Money!SpendConstants, MadeBefore,
     Money!Present
<1>2. ASSUME MoneyInv, MoneyInv', Money!Next, NEW u \in Payers, NEW to \in Currencies,
             NEW m \in 0 .. Money!MonthOf(day)
      PROVE  /\ (\E i \in Bills : Money!UpdateStatus(i))
                   => Money!Monthly(u, to, m)' >= Money!Monthly(u, to, m)
             /\ \A i \in Bills \ Money!Present :
                   LET row == sub'[i]
                       since == IF row.start # Null THEN row.start ELSE row.createdAt
                   IN  row # Null /\ m < Money!MonthOf(since)
                         => Money!Monthly(u, to, m)' = Money!Monthly(u, to, m)
  <2>1. ASSUME NEW i \in Bills, Money!UpdateStatus(i)
        PROVE  Money!Monthly(u, to, m)' >= Money!Monthly(u, to, m)
    BY <1>2, <2>1, StatusKeepsPast
  <2>2. ASSUME NEW i \in Bills \ Money!Present, sub'[i] # Null
        PROVE  \E r \in Money!Row : Money!Put(i, r) /\ sub'[i] = r
    <3>1. sub[i] = Null /\ sub \in [Bills -> Money!Row \cup {Null}]
      BY <1>2 DEF MoneyInv, Money!TypeOK, Money!Present
    <3>2. Money!Create(i)
      <4>1. ASSUME NEW j \in Bills, NEW r, Money!Put(j, r), j # i PROVE FALSE
        BY <2>2, <3>1, <4>1 DEF Money!Put
      <4>2. sub' # sub
        BY <2>2, <3>1
      <4>3. \A u1 \in Payers : ~Money!RemoveCard(u1)
        BY <2>2, <3>1 DEF Money!RemoveCard, Money!Present
      <4> QED BY <1>2, <2>2, <4>1, <4>2, <4>3
        DEF Money!Next, Money!NextDay, Money!RatesChange, Money!Create, Money!Update,
            Money!UpdateStatus, Money!Remove, Money!Present
    <3>3. PICK r \in Money!RowOf({day}, {Null}) : Money!Put(i, r)
      BY <3>2 DEF Money!Create
    <3>4. r \in Money!Row
      BY <1>2 DEF Money!Row, Money!RowOf, MoneyInv, Money!TypeOK
    <3>5. sub'[i] = r
      BY <3>1, <3>3 DEF Money!Put
    <3> QED BY <3>3, <3>4, <3>5
  <2>3. m \in Nat
    OBVIOUS
  <2>4. ASSUME NEW i \in Bills \ Money!Present, sub'[i] # Null,
               m < Money!MonthOf(IF sub'[i].start # Null THEN sub'[i].start ELSE sub'[i].createdAt)
        PROVE  Money!Monthly(u, to, m)' = Money!Monthly(u, to, m)
    BY <1>2, <2>2, <2>3, <2>4, CreationKeepsPast
  <2> QED BY <2>1, <2>4
<1>3. MoneyInv /\ MoneyInv' /\ [Money!Next]_(Money!vars)
        => [sub' # sub /\ rates' = rates => \A u \in Payers, to \in Currencies, m \in 0 .. Money!MonthOf(day) :
              /\ (\E i \in Bills : Money!UpdateStatus(i))
                    => Money!Monthly(u, to, m)' >= Money!Monthly(u, to, m)
              /\ \A i \in Bills \ Money!Present :
                    LET row == sub'[i]
                        since == IF row.start # Null THEN row.start ELSE row.createdAt
                    IN  row # Null /\ m < Money!MonthOf(since)
                          => Money!Monthly(u, to, m)' = Money!Monthly(u, to, m)]_(Money!vars)
  BY <1>2
<1> QED BY <1>1, MoneyKept, <1>3, PTL DEF Money!Spec, PastSpendKept, Money!PastSpendKept
=============================================================================
