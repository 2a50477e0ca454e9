------------------------------ MODULE TeamProofs ------------------------------
(***************************************************************************)
(* That the workspace keeps an Owner, that no session outlives the access  *)
(* it shows and that nobody joins by a link that is no longer good, for    *)
(* every number of people, teams, projects and invitations.                *)
(*                                                                         *)
(* TeamInv says what a transaction between its checks and its writes may   *)
(* rely on: the rows it checked (Checked, Admitted), because the lock of   *)
(* the workspace keeps other Owners and everybody who joins out (LockInv). *)
(* A commit therefore has to show the rows only, as nobody else's checks   *)
(* are left to hold (AfterCommit); a visitor's step and the passing of     *)
(* time have to keep the checks of those who hold a lock (Weaker).         *)
(***************************************************************************)
EXTENDS Team, FiniteSetTheorems, TLAPS

\* Where a request is when it holds the lock of the workspace, and where a
\* visitor can be.
Works ==
    {"saveMember", "deleteMember", "saveTeam", "trash", "restore", "invite", "reissue", "revoke"}
Places == {"out", "registering", "accepting", "enrolled", "joining"}

\* One transaction of an Owner, or several people who join, never both.
LockInv ==
    /\ \A r, s \in Exclusive : r = s
    /\ Exclusive # {} => Shared = {}

\* What the rows say of each other.
RowsInv ==
    /\ \A p \in People : member[p] # None =>
          account[p] # "none" /\ member[p].teams \subseteq teams
    /\ \A p \in People : session[p] # None => account[p] # "none"
    /\ \A x \in Projects : link[x] \subseteq teams

\* What the transaction of r still finds as its checks found it.
Checked(r) ==
    LET op == owner[r].op IN
    /\ owner[r].at = "saveMember" =>
          /\ op.who \in People /\ member[op.who] # None
          /\ op.new \in Members /\ op.new.teams \subseteq teams
          /\ IsOwner(op.who) /\ ~(op.new.role = "owner" /\ op.new.active) =>
                Owners \ {op.who} # {}
    /\ owner[r].at = "deleteMember" => op.who \in People /\ Owners \ {op.who} # {}
    /\ owner[r].at = "saveTeam" =>
          /\ op.team \in Teams
          /\ \A p \in op.members : p \in People /\ member[p] # None
          /\ op.projects \subseteq Projects \ trashed
          /\ op.team \in teams => \A x \in Projects \ (trashed \cup op.projects) :
                op.team \in link[x] => link[x] # {op.team}
    /\ owner[r].at \in {"trash", "restore"} => op.project \in Projects
    /\ owner[r].at = "invite" =>
          /\ op.id \in Ids /\ invitation[op.id] = None
          /\ op.new \in Invitations
          /\ op.new.by = owner[r].by /\ op.new.gone = gone[op.new.to]
          /\ \A j \in Ids : Usable(j) => invitation[j].to # op.new.to
    /\ owner[r].at = "reissue" => op.id \in Ids /\ Changeable(op.id) /\ Alone(op.id)
    /\ owner[r].at = "revoke" => op.id \in Ids /\ Changeable(op.id)

OwnersInv ==
    /\ owner = [r \in OwnerRequests |-> owner[r]]
    /\ \A r \in OwnerRequests :
          /\ {"at", "by", "live"} \subseteq DOMAIN owner[r]
          /\ owner[r].at \in {"out", "asked"} \cup Works
          /\ owner[r].at # "out" => owner[r].by \in People
          /\ owner[r].at \in Works => "op" \in DOMAIN owner[r] /\ IsOwner(owner[r].by)
          /\ owner[r].at \in Works => Checked(r)

\* What a visitor who is let through still finds.
Admitted(v) ==
    LET i == visitor[v].id IN
    /\ Pending(i) /\ invitation[i].rev = visitor[v].rev
    /\ invitation[i].teams \subseteq teams
    /\ member[invitation[i].to] = None
    /\ visitor[v].by # None =>
          visitor[v].by = invitation[i].to /\ account[invitation[i].to] # "none"

\* Where a visitor is, and what holds there.
Position(v) ==
    /\ {"at", "by", "live"} \subseteq DOMAIN visitor[v]
    /\ visitor[v].at \in Places
    /\ visitor[v].at # "out" => {"id", "rev"} \subseteq DOMAIN visitor[v]
    /\ visitor[v].at # "out" => visitor[v].id \in Ids
    /\ visitor[v].at = "accepting" =>
          visitor[v].by \in People /\ (visitor[v].live => account[visitor[v].by] # "none")
    /\ visitor[v].at = "enrolled" =>
          /\ visitor[v].by = None
          /\ LET e == enrollment[visitor[v].id] IN
             e # None /\ e.by = v => e.rev = visitor[v].rev
    /\ visitor[v].at = "registering" => visitor[v].by = None
    /\ visitor[v].at = "joining" => Admitted(v)

VisitorsInv ==
    /\ visitor = [v \in Visitors |-> visitor[v]]
    /\ \A v \in Visitors : Position(v)
    /\ \A v, w \in Shared : visitor[v].id = visitor[w].id => v = w

TeamInv ==
    /\ TypeOK /\ LockInv /\ RowsInv /\ OwnersInv /\ VisitorsInv
    /\ OwnerRemains /\ SessionsWithinAccess /\ EveryProjectHasTeam
    /\ NoLinkFromBefore /\ OnePendingPerPerson

-----------------------------------------------------------------------------

USE TeamAssumption DEF shape, invites, people

\* Sessions that end leave the requests that hold them where they are.
OwnersStay ==
    /\ owner' = [r \in OwnerRequests |-> owner'[r]]
    /\ \A r \in OwnerRequests :
          /\ DOMAIN owner'[r] = DOMAIN owner[r]
          /\ owner'[r].at = owner[r].at /\ owner'[r].by = owner[r].by
          /\ "op" \in DOMAIN owner[r] => owner'[r].op = owner[r].op

VisitorsStay(P) ==
    /\ visitor' = [v \in Visitors |-> visitor'[v]]
    /\ \A v \in Visitors :
          /\ DOMAIN visitor'[v] = DOMAIN visitor[v]
          /\ visitor'[v].at = visitor[v].at /\ visitor'[v].by = visitor[v].by
          /\ "id" \in DOMAIN visitor[v] => visitor'[v].id = visitor[v].id
          /\ "rev" \in DOMAIN visitor[v] => visitor'[v].rev = visitor[v].rev
          /\ visitor'[v].live => visitor[v].live /\ visitor[v].by \notin P

LEMMA CutOwners == ASSUME OwnersInv, NEW P, owner' = Cut(owner, P) PROVE OwnersStay
<1>1. owner' = [r \in OwnerRequests |->
          IF owner[r].by \in P THEN [owner[r] EXCEPT !.live = FALSE] ELSE owner[r]]
  BY DEF Cut, OwnersInv
<1>2. ASSUME NEW r \in OwnerRequests
      PROVE  /\ DOMAIN owner'[r] = DOMAIN owner[r]
             /\ owner'[r].at = owner[r].at /\ owner'[r].by = owner[r].by
             /\ "op" \in DOMAIN owner[r] => owner'[r].op = owner[r].op
  <2>1. {"at", "by", "live"} \subseteq DOMAIN owner[r]
    BY DEF OwnersInv
  <2>2. owner'[r] = [owner[r] EXCEPT !.live = FALSE] \/ owner'[r] = owner[r]
    BY <1>1
  <2>3. QED
    BY <2>1, <2>2
<1>3. QED
  BY <1>1, <1>2 DEF OwnersStay

LEMMA CutVisitors == ASSUME VisitorsInv, NEW P, visitor' = Cut(visitor, P) PROVE VisitorsStay(P)
<1>1. visitor' = [v \in Visitors |->
          IF visitor[v].by \in P THEN [visitor[v] EXCEPT !.live = FALSE] ELSE visitor[v]]
  BY DEF Cut, VisitorsInv, Position
<1>2. ASSUME NEW v \in Visitors
      PROVE  /\ DOMAIN visitor'[v] = DOMAIN visitor[v]
             /\ visitor'[v].at = visitor[v].at /\ visitor'[v].by = visitor[v].by
             /\ "id" \in DOMAIN visitor[v] => visitor'[v].id = visitor[v].id
             /\ "rev" \in DOMAIN visitor[v] => visitor'[v].rev = visitor[v].rev
             /\ visitor'[v].live => visitor[v].live /\ visitor[v].by \notin P
  <2>1. {"at", "by", "live"} \subseteq DOMAIN visitor[v]
    BY DEF VisitorsInv, Position
  <2>2. \/ visitor[v].by \in P /\ visitor'[v] = [visitor[v] EXCEPT !.live = FALSE]
        \/ visitor[v].by \notin P /\ visitor'[v] = visitor[v]
    BY <1>1
  <2>3. QED
    BY <2>1, <2>2
<1>3. QED
  BY <1>1, <1>2 DEF VisitorsStay

\* What was checked for a request stays true while its rows do not change.
LEMMA SameChecks ==
    ASSUME NEW r \in OwnerRequests, Checked(r),
           UNCHANGED <<member, trashed, teams, link, invitation, gone>>,
           owner'[r].at = owner[r].at, owner'[r].by = owner[r].by, owner'[r].op = owner[r].op
    PROVE  Checked(r)'
<1>1. Owners' = Owners /\ \A p \in People : IsOwner(p)' <=> IsOwner(p)
  BY DEF Owners, IsOwner
<1>2. \A i \in Ids : /\ Usable(i)' <=> Usable(i)
                     /\ Changeable(i)' <=> Changeable(i)
  BY DEF Usable, Pending, Changeable
<1>3. ASSUME NEW i \in Ids PROVE Alone(i)' <=> Alone(i)
  BY <1>2 DEF Alone
<1>4. QED
  BY <1>1, <1>2, <1>3 DEF Checked

\* The other parts of the invariant, when none of the rows they speak of changes.
LEMMA SamePeople ==
    ASSUME TeamInv, UNCHANGED <<account, member, session, teams, link>>
    PROVE  RowsInv' /\ OwnerRemains' /\ SessionsWithinAccess' /\ EveryProjectHasTeam'
  BY DEF TeamInv, RowsInv, OwnerRemains, Owners, IsOwner, SessionsWithinAccess, Sees,
         EveryProjectHasTeam

LEMMA SameInvitations ==
    ASSUME TeamInv, UNCHANGED <<invitation, gone, account>>
    PROVE  NoLinkFromBefore' /\ OnePendingPerPerson'
  BY DEF TeamInv, NoLinkFromBefore, OnePendingPerPerson, Pending

LEMMA SameVisitors ==
    ASSUME TeamInv, UNCHANGED <<visitor, account, member, teams, invitation, enrollment>>
    PROVE  VisitorsInv'
  BY DEF TeamInv, VisitorsInv, Position, Admitted, Pending, Shared

LEMMA SameAdmission ==
    ASSUME TeamInv, NEW w \in Visitors, visitor[w].at = "joining", visitor'[w] = visitor[w],
           UNCHANGED <<account, member, teams, invitation>>
    PROVE  Admitted(w)'
<1>1. Admitted(w)
  BY DEF TeamInv, VisitorsInv, Position
<1>2. QED
  BY <1>1 DEF Admitted, Pending

LEMMA SameOwners ==
    ASSUME TeamInv, UNCHANGED <<owner, member, trashed, teams, link, invitation, gone>>
    PROVE  OwnersInv'
<1>1. OwnersInv /\ owner' = owner
  BY DEF TeamInv
<1>2. ASSUME NEW r \in OwnerRequests, Checked(r) PROVE Checked(r)'
  BY <1>2, SameChecks
<1>3. \A p : IsOwner(p)' <=> IsOwner(p)
  BY DEF IsOwner
<1>4. QED
  BY ONLY <1>1, <1>2, <1>3 DEF OwnersInv

LEMMA SameTypes ==
    ASSUME TeamInv, UNCHANGED <<people, shape, invites, session, changes>>
    PROVE  TypeOK'
  BY DEF TeamInv, TypeOK

LEMMA SignInKeeps == ASSUME TeamInv, NEW p \in People, SignIn(p) PROVE TeamInv'
<1>1. UNCHANGED <<account, member, gone, teams, link, trashed, invitation, enrollment, owner,
                  visitor, changes>>
  BY DEF SignIn
<1>2. session' = [session EXCEPT ![p] = View(p)] /\ account[p] = "mfa"
  BY DEF SignIn
<1>3. View(p) \in Sessions /\ View(p).owner = IsOwner(p) /\ View(p).sees = Sees(p)
  BY DEF View, Sessions, IsOwner, Sees, TeamInv, TypeOK
<1> HIDE DEF View
<1>4. TypeOK' /\ RowsInv'
  BY <1>1, <1>2, <1>3 DEF TeamInv, TypeOK, RowsInv
<1>5. SessionsWithinAccess'
  <2>1. \A q \in People : (IsOwner(q) <=> IsOwner(q)') /\ Sees(q)' = Sees(q)
    BY <1>1 DEF IsOwner, Sees
  <2>2. QED
    BY <1>2, <1>3, <2>1 DEF TeamInv, TypeOK, SessionsWithinAccess
<1>6. LockInv' /\ OwnerRemains' /\ EveryProjectHasTeam'
  BY <1>1 DEF TeamInv, LockInv, Exclusive, Shared, OwnerRemains, Owners, IsOwner,
              EveryProjectHasTeam
<1>7. QED
  BY <1>1, <1>4, <1>5, <1>6, SameInvitations, SameVisitors, SameOwners DEF TeamInv

LEMMA SignOutKeeps == ASSUME TeamInv, NEW p \in People, SignOut(p) PROVE TeamInv'
<1>1. UNCHANGED <<account, member, gone, teams, link, trashed, invitation, enrollment>>
  BY DEF SignOut
<1>2. /\ session' = [session EXCEPT ![p] = None] /\ changes' = changes + 1
      /\ owner' = Cut(owner, {p}) /\ visitor' = Cut(visitor, {p})
  BY DEF SignOut
<1>3. TypeOK' /\ RowsInv' /\ EveryProjectHasTeam'
  BY <1>1, <1>2 DEF TeamInv, TypeOK, RowsInv, EveryProjectHasTeam
<1>4. SessionsWithinAccess' /\ OwnerRemains'
  <2>1. \A q \in People : (IsOwner(q) <=> IsOwner(q)') /\ Sees(q)' = Sees(q)
    BY <1>1 DEF IsOwner, Sees
  <2>2. QED
    BY <1>1, <1>2, <2>1 DEF TeamInv, TypeOK, SessionsWithinAccess, OwnerRemains, Owners
<1>5. OwnersStay /\ VisitorsStay({p})
  BY <1>2, CutOwners, CutVisitors DEF TeamInv
<1>6. OwnersInv'
  <2>1. ASSUME NEW r \in OwnerRequests, owner[r].at \in Works PROVE Checked(r)'
    BY <1>1, <1>5, <2>1, SameChecks DEF OwnersStay, TeamInv, OwnersInv
  <2>2. QED
    BY <1>1, <1>5, <2>1 DEF OwnersStay, TeamInv, OwnersInv, IsOwner
<1>7. VisitorsInv'
  <2>1. ASSUME NEW v \in Visitors, visitor[v].at = "joining" PROVE Admitted(v)'
    BY <1>1, <1>5, <2>1 DEF VisitorsStay, TeamInv, VisitorsInv, Position, Admitted, Pending
  <2>2. Shared' = Shared
    BY <1>5 DEF VisitorsStay, Shared
  <2>3. QED
    BY <1>1, <1>5, <2>1, <2>2 DEF VisitorsStay, TeamInv, VisitorsInv, Position, Shared
<1>8. LockInv'
  BY <1>5 DEF OwnersStay, VisitorsStay, TeamInv, LockInv, Exclusive, Shared
<1>9. QED
  BY <1>1, <1>3, <1>4, <1>6, <1>7, <1>8, SameInvitations DEF TeamInv

\* Requests of Owners before they write.
LEMMA AskKeeps ==
    ASSUME TeamInv, NEW r \in OwnerRequests, NEW p \in People, Ask(r, p) PROVE TeamInv'
<1>1. UNCHANGED <<people, shape, invites, session, visitor, changes>>
  BY DEF Ask
<1>2. /\ owner[r].at = "out"
      /\ owner' = [owner EXCEPT ![r] = At("asked", p)]
  BY DEF Ask
<1>3. LockInv'
  BY <1>1, <1>2 DEF TeamInv, LockInv, Exclusive, Shared, At, OwnersInv
<1>4. OwnersInv'
  <2>1. \A s \in OwnerRequests \ {r} : owner'[s] = owner[s]
    BY <1>2 DEF TeamInv, OwnersInv
  <2>2. ASSUME NEW s \in OwnerRequests \ {r}, owner[s].at \in Works PROVE Checked(s)'
    BY <1>1, <2>1, <2>2, SameChecks DEF TeamInv, OwnersInv
  <2>3. QED
    BY <1>1, <1>2, <2>1, <2>2 DEF TeamInv, OwnersInv, At, Works, IsOwner
<1>5. QED
  BY <1>1, <1>3, <1>4, SamePeople, SameInvitations, SameVisitors, SameTypes DEF TeamInv

LEMMA RefuseKeeps == ASSUME TeamInv, NEW r \in OwnerRequests, Refuse(r) PROVE TeamInv'
<1>1. UNCHANGED <<people, shape, invites, session, visitor, changes>>
  BY DEF Refuse
<1>2. owner' = [owner EXCEPT ![r] = Out]
  BY DEF Refuse
<1>3. LockInv'
  BY <1>1, <1>2 DEF TeamInv, LockInv, Exclusive, Shared, Out, OwnersInv
<1>4. OwnersInv'
  <2>1. \A s \in OwnerRequests \ {r} : owner'[s] = owner[s]
    BY <1>2 DEF TeamInv, OwnersInv
  <2>2. ASSUME NEW s \in OwnerRequests \ {r}, owner[s].at \in Works PROVE Checked(s)'
    BY <1>1, <2>1, <2>2, SameChecks DEF TeamInv, OwnersInv
  <2>3. QED
    BY <1>1, <1>2, <2>1, <2>2 DEF TeamInv, OwnersInv, Out, Works, IsOwner
<1>5. QED
  BY <1>1, <1>3, <1>4, SamePeople, SameInvitations, SameVisitors, SameTypes DEF TeamInv


\* A transaction takes its lock when its checks have passed.
LEMMA Begun ==
    ASSUME TeamInv, NEW r \in OwnerRequests, NEW op, op.do \in Works, Begin(r, op), Checked(r)'
    PROVE  TeamInv'
<1>1. UNCHANGED <<people, shape, invites, session, visitor, changes>>
  BY DEF Begin
<1>2. /\ owner[r].at = "asked" /\ Exclusive = {} /\ Shared = {} /\ IsOwner(owner[r].by)
      /\ owner' = [owner EXCEPT ![r] =
             [at |-> op.do, op |-> op, by |-> owner[r].by, live |-> owner[r].live]]
  BY DEF Begin, LockWorkspace, StillOwner
<1>3. \A s \in OwnerRequests : owner[s].at \in {"out", "asked"}
  BY <1>2 DEF Exclusive
<1>4. \A s \in OwnerRequests \ {r} : owner'[s] = owner[s]
  BY <1>2 DEF TeamInv, OwnersInv
<1>5. LockInv'
  BY <1>1, <1>2, <1>3, <1>4 DEF LockInv, Exclusive, Shared, Works
<1>6. OwnersInv'
  BY <1>1, <1>2, <1>3, <1>4 DEF TeamInv, OwnersInv, Works, IsOwner
<1>7. QED
  BY <1>1, <1>5, <1>6, SamePeople, SameInvitations, SameVisitors, SameTypes DEF TeamInv

\* What the request of r is about to write.
LEMMA Holds ==
    ASSUME TeamInv, NEW r \in OwnerRequests, NEW op, Begin(r, op)
    PROVE  /\ owner'[r].at = op.do /\ owner'[r].op = op /\ owner'[r].by = owner[r].by
           /\ owner[r].by \in People /\ IsOwner(owner[r].by)
           /\ UNCHANGED <<people, shape, invites>>
  BY DEF Begin, StillOwner, TeamInv, OwnersInv

LEMMA Others ==
    ASSUME TeamInv, NEW p \in People, Cardinality(Owners) > 1 PROVE Owners \ {p} # {}
<1>1. SUFFICES ASSUME Owners \subseteq {p} PROVE FALSE
  OBVIOUS
<1>2. Cardinality(Owners) <= Cardinality({p})
  BY <1>1, FS_Singleton, FS_Subset
<1>3. Cardinality({p}) = 1 /\ Cardinality(Owners) \in Nat
  BY <1>1, FS_Singleton, FS_Subset, FS_CardinalityType
<1>4. QED
  BY <1>2, <1>3

LEMMA AskSaveMemberKeeps ==
    ASSUME TeamInv, NEW r \in OwnerRequests, NEW p \in People, NEW role \in Roles,
           NEW on \in BOOLEAN, NEW ts \in Choices, AskSaveMember(r, p, role, on, ts)
    PROVE  TeamInv'
<1> DEFINE op == [do |-> "saveMember", who |-> p, new |-> Membership(role, on, ts)]
<1>1. Begin(r, op) /\ member[p] # None /\ ts \subseteq teams
  BY DEF AskSaveMember
<1>2. IsOwner(p) /\ ~(role = "owner" /\ on) => Owners \ {p} # {}
  BY Others DEF AskSaveMember
<1>3. /\ op.do = "saveMember" /\ op.who = p /\ op.new \in Members
      /\ op.new.role = role /\ op.new.active = on /\ op.new.teams = ts
  BY <1>1 DEF Membership, Members
<1> HIDE DEF op
<1>4. Checked(r)'
  BY <1>1, <1>2, <1>3, Holds DEF Checked, IsOwner, Owners
<1>5. QED
  BY <1>1, <1>3, <1>4, Begun DEF Works

LEMMA AskDeleteMemberKeeps ==
    ASSUME TeamInv, NEW r \in OwnerRequests, NEW p \in People, AskDeleteMember(r, p) PROVE TeamInv'
<1> DEFINE op == [do |-> "deleteMember", who |-> p]
<1>1. Begin(r, op) /\ Owners \ {p} # {}
  BY DEF AskDeleteMember
<1>2. op.do = "deleteMember" /\ op.who = p
  OBVIOUS
<1> HIDE DEF op
<1>3. Checked(r)'
  BY <1>1, <1>2, Holds DEF Checked, IsOwner, Owners
<1>4. QED
  BY <1>1, <1>2, <1>3, Begun DEF Works

LEMMA AskSaveTeamKeeps ==
    ASSUME TeamInv, NEW r \in OwnerRequests, NEW t \in Teams, NEW ms \in SUBSET People,
           NEW xs \in SUBSET Projects, AskSaveTeam(r, t, ms, xs)
    PROVE  TeamInv'
<1> DEFINE op == [do |-> "saveTeam", team |-> t, members |-> ms, projects |-> xs]
<1>1. /\ Begin(r, op) /\ \A p \in ms : member[p] # None
      /\ xs \cap trashed = {}
      /\ t \in teams => \A x \in Projects \ (trashed \cup xs) : t \in link[x] => link[x] # {t}
  BY DEF AskSaveTeam
<1>2. op.do = "saveTeam" /\ op.team = t /\ op.members = ms /\ op.projects = xs
  OBVIOUS
<1> HIDE DEF op
<1>3. Checked(r)'
  BY <1>1, <1>2, Holds DEF Checked
<1>4. QED
  BY <1>1, <1>2, <1>3, Begun DEF Works

LEMMA AskTrashKeeps ==
    ASSUME TeamInv, NEW r \in OwnerRequests, NEW x \in Projects, AskTrash(r, x) \/ AskRestore(r, x)
    PROVE  TeamInv'
<1>1. PICK do \in {"trash", "restore"} : Begin(r, [do |-> do, project |-> x])
  BY DEF AskTrash, AskRestore
<1> DEFINE op == [do |-> do, project |-> x]
<1>2. op.do = do /\ op.project = x
  OBVIOUS
<1>3. Begin(r, op)
  BY <1>1
<1> HIDE DEF op
<1>4. Checked(r)'
  BY <1>1, <1>2, <1>3, Holds DEF Checked
<1>5. QED
  BY <1>1, <1>2, <1>3, <1>4, Begun DEF Works

LEMMA AskInviteKeeps ==
    ASSUME TeamInv, NEW r \in OwnerRequests, NEW i \in Ids, NEW p \in People,
           NEW role \in Invitable, NEW ts \in Choices, AskInvite(r, i, p, role, ts)
    PROVE  TeamInv'
<1> DEFINE new == Invitation(p, role, ts, owner[r].by)
<1> DEFINE op == [do |-> "invite", id |-> i, new |-> new]
<1>1. /\ Begin(r, op) /\ invitation[i] = None /\ \A j \in Ids : Usable(j) => invitation[j].to # p
  BY DEF AskInvite
<1>2. /\ new \in Invitations /\ new.to = p /\ new.by = owner[r].by /\ new.gone = gone[p]
  BY <1>1, Holds DEF Invitation, Invitations, TeamInv, TypeOK
<1> HIDE DEF new
<1>3. op.do = "invite" /\ op.id = i /\ op.new = new
  OBVIOUS
<1> HIDE DEF op
<1>4. Checked(r)'
  BY <1>1, <1>2, <1>3, Holds DEF Checked, Usable, Pending
<1>5. QED
  BY <1>1, <1>3, <1>4, Begun DEF Works

LEMMA AskReissueKeeps ==
    ASSUME TeamInv, NEW r \in OwnerRequests, NEW i \in Ids, AskReissue(r, i) PROVE TeamInv'
<1> DEFINE op == [do |-> "reissue", id |-> i]
<1>1. Begin(r, op) /\ Changeable(i) /\ Alone(i)
  BY DEF AskReissue
<1>2. op.do = "reissue" /\ op.id = i
  OBVIOUS
<1> HIDE DEF op
<1>3. Checked(r)'
  BY <1>1, <1>2, Holds DEF Checked, Changeable, Alone, Usable, Pending
<1>4. QED
  BY <1>1, <1>2, <1>3, Begun DEF Works

LEMMA AskRevokeKeeps ==
    ASSUME TeamInv, NEW r \in OwnerRequests, NEW i \in Ids, AskRevoke(r, i) PROVE TeamInv'
<1> DEFINE op == [do |-> "revoke", id |-> i]
<1>1. Begin(r, op) /\ Changeable(i)
  BY DEF AskRevoke
<1>2. op.do = "revoke" /\ op.id = i
  OBVIOUS
<1> HIDE DEF op
<1>3. Checked(r)'
  BY <1>1, <1>2, Holds DEF Checked, Changeable
<1>4. QED
  BY <1>1, <1>2, <1>3, Begun DEF Works

(* Transactions that write.                                                *)

\* The request of r is over, and the others are where they were.
Released(r) ==
    /\ owner' = [s \in OwnerRequests |-> owner'[s]]
    /\ owner'[r] = Out
    /\ \A s \in OwnerRequests \ {r} :
          /\ DOMAIN owner'[s] = DOMAIN owner[s]
          /\ owner'[s].at = owner[s].at /\ owner'[s].by = owner[s].by

LEMMA EndsReleases ==
    ASSUME TeamInv, NEW r \in OwnerRequests, Ends(r) PROVE Released(r)
<1>1. owner' = [s \in OwnerRequests |-> IF s = r THEN Out ELSE owner[s]]
  BY DEF Ends, TeamInv, OwnersInv
<1>2. QED
  BY <1>1 DEF Released

LEMMA DropReleases ==
    ASSUME TeamInv, NEW r \in OwnerRequests, NEW P, DropSessions(P, r)
    PROVE  Released(r) /\ VisitorsStay(P)
<1>1. VisitorsStay(P)
  BY CutVisitors DEF DropSessions, TeamInv
<1> DEFINE cut == Cut(owner, P)
<1>2. owner' = [cut EXCEPT ![r] = Out]
  BY DEF DropSessions
<1>3. /\ cut = [s \in OwnerRequests |->
             IF owner[s].by \in P THEN [owner[s] EXCEPT !.live = FALSE] ELSE owner[s]]
  BY DEF Cut, TeamInv, OwnersInv
<1>4. ASSUME NEW s \in OwnerRequests
      PROVE  DOMAIN cut[s] = DOMAIN owner[s] /\ cut[s].at = owner[s].at /\ cut[s].by = owner[s].by
  <2>1. {"at", "by", "live"} \subseteq DOMAIN owner[s]
    BY DEF TeamInv, OwnersInv
  <2>2. cut[s] = [owner[s] EXCEPT !.live = FALSE] \/ cut[s] = owner[s]
    BY <1>3
  <2>3. QED
    BY <2>1, <2>2
<1>5. DOMAIN cut = OwnerRequests
  BY <1>3
<1> HIDE DEF cut
<1>6. owner' = [s \in OwnerRequests |-> IF s = r THEN Out ELSE cut[s]]
  BY <1>2, <1>5, DOMAIN owner' = OwnerRequests
<1>7. QED
  BY <1>1, <1>4, <1>6 DEF Released

\* The transaction was alone, so nobody's checks are left to hold.
LEMMA AfterCommit ==
    ASSUME TeamInv, NEW r \in OwnerRequests, owner[r].at \in Works, Released(r),
           \A v \in Visitors : visitor'[v].at = visitor[v].at
    PROVE  OwnersInv' /\ LockInv' /\ Shared = {} /\ Shared' = {}
<1>1. r \in Exclusive
  BY DEF Exclusive, Works
<1>2. Shared = {} /\ Shared' = {}
  BY <1>1 DEF TeamInv, LockInv, Shared
<1>3. \A s \in OwnerRequests \ {r} : owner[s].at \in {"out", "asked"}
  BY <1>1 DEF TeamInv, LockInv, Exclusive
<1>4. \A s \in OwnerRequests : owner'[s].at \in {"out", "asked"} /\ owner'[s].at \notin Works
  BY <1>3 DEF Released, Out, Works
<1>5. Exclusive' = {}
  BY <1>4 DEF Exclusive
<1>6. ASSUME NEW s \in OwnerRequests
      PROVE  /\ {"at", "by", "live"} \subseteq DOMAIN owner'[s]
             /\ owner'[s].at # "out" => owner'[s].by \in People
  BY DEF Released, TeamInv, OwnersInv, Out
<1>7. OwnersInv'
  BY <1>4, <1>6 DEF OwnersInv, Released
<1>8. QED
  BY <1>2, <1>5, <1>7 DEF LockInv

LEMMA AfterVisitors ==
    ASSUME TeamInv, NEW P, VisitorsStay(P), Shared' = {},
           \A q \in People \ P : account'[q] = account[q],
           \A i \in Ids : enrollment'[i] \in {None, enrollment[i]}
    PROVE  VisitorsInv'
<1>1. ASSUME NEW v \in Visitors
      PROVE  /\ {"at", "by", "live"} \subseteq DOMAIN visitor'[v]
             /\ visitor'[v].at \in Places \ {"joining"}
             /\ visitor'[v].at # "out" => {"id", "rev"} \subseteq DOMAIN visitor'[v]
             /\ visitor'[v].at # "out" => visitor'[v].id \in Ids
  <2>1. visitor'[v].at # "joining"
    BY DEF Shared
  <2>2. QED
    BY <2>1 DEF VisitorsStay, TeamInv, VisitorsInv, Position
<1>2. ASSUME NEW v \in Visitors
      PROVE  /\ visitor'[v].at = "accepting" =>
                visitor'[v].by \in People /\ (visitor'[v].live => account'[visitor'[v].by] # "none")
             /\ visitor'[v].at = "registering" => visitor'[v].by = None
  BY DEF VisitorsStay, TeamInv, VisitorsInv, Position
<1>3. ASSUME NEW v \in Visitors, visitor'[v].at = "enrolled"
      PROVE  /\ visitor'[v].by = None
             /\ enrollment'[visitor'[v].id] # None /\ enrollment'[visitor'[v].id].by = v =>
                    enrollment'[visitor'[v].id].rev = visitor'[v].rev
  <2>1. /\ visitor[v].at = "enrolled" /\ visitor'[v].by = visitor[v].by
        /\ visitor'[v].id = visitor[v].id /\ visitor'[v].rev = visitor[v].rev
        /\ visitor[v].id \in Ids
    BY <1>3 DEF VisitorsStay, TeamInv, VisitorsInv, Position
  <2>2. QED
    BY <2>1 DEF TeamInv, VisitorsInv, Position
<1>4. QED
  BY <1>1, <1>2, <1>3 DEF VisitorsInv, Position, VisitorsStay, Places

\* What a transaction that leaves the visitors alone has to show.
LEMMA Rest ==
    ASSUME TeamInv, NEW r \in OwnerRequests, owner[r].at \in Works, Released(r),
           UNCHANGED visitor, UNCHANGED account,
           \A i \in Ids : enrollment'[i] \in {None, enrollment[i]}
    PROVE  OwnersInv' /\ LockInv' /\ VisitorsInv'
<1>1. VisitorsStay({})
  BY DEF VisitorsStay, TeamInv, VisitorsInv, Position
<1>2. QED
  BY <1>1, AfterCommit, AfterVisitors

LEMMA SaveMemberKeeps ==
    ASSUME TeamInv, NEW r \in OwnerRequests, SaveMember(r) PROVE TeamInv'
<1> DEFINE op == owner[r].op
           p == op.who
<1>1. /\ owner[r].at = "saveMember" /\ changes' = changes + 1
      /\ member' = [member EXCEPT ![p] = op.new] /\ DropSessions({p}, r)
      /\ UNCHANGED <<account, gone, teams, link, trashed, invitation, enrollment>>
  BY DEF SaveMember, Commits
<1>2. /\ p \in People /\ member[p] # None /\ op.new \in Members /\ op.new.teams \subseteq teams
      /\ IsOwner(p) /\ ~(op.new.role = "owner" /\ op.new.active) => Owners \ {p} # {}
  <2>1. Checked(r)
    BY <1>1 DEF TeamInv, OwnersInv, Works
  <2>2. QED
    BY <1>1, <2>1 DEF Checked
<1> HIDE DEF op
<1>3. session' = [q \in People |-> IF q = p THEN None ELSE session[q]]
  BY <1>1 DEF DropSessions
<1>4. \A q \in People \ {p} : member'[q] = member[q]
  BY <1>1
<1>5. member'[p] = op.new /\ op.new # None
  BY <1>1, <1>2 DEF TeamInv, TypeOK
<1>6. TypeOK'
  BY <1>1, <1>2, <1>3 DEF TeamInv, TypeOK
<1>7. RowsInv' /\ EveryProjectHasTeam'
  BY <1>1, <1>2, <1>3, <1>4, <1>5 DEF TeamInv, RowsInv, EveryProjectHasTeam
<1>8. OwnerRemains'
  <2>1. \A q \in Owners \ {p} : q \in Owners' /\ account'[q] # "none"
    BY <1>1, <1>4 DEF Owners, IsOwner, TeamInv, RowsInv
  <2>2. CASE Owners \ {p} # {}
    BY <2>1, <2>2 DEF OwnerRemains
  <2>3. CASE Owners \ {p} = {}
    <3>1. IsOwner(p)
      BY <2>3 DEF TeamInv, OwnerRemains, Owners
    <3>2. p \in Owners' /\ account'[p] # "none"
      BY <1>1, <1>2, <1>5, <2>3, <3>1 DEF Owners, IsOwner, TeamInv, RowsInv
    <3>3. QED
      BY <3>2 DEF OwnerRemains
  <2>4. QED
    BY <2>2, <2>3
<1>9. SessionsWithinAccess'
  <2>1. \A q \in People \ {p} : (IsOwner(q) <=> IsOwner(q)') /\ Sees(q)' = Sees(q)
    BY <1>1, <1>4 DEF IsOwner, Sees
  <2>2. QED
    BY <1>3, <2>1 DEF TeamInv, SessionsWithinAccess
<1>10. OwnersInv' /\ LockInv' /\ VisitorsInv'
  <2>1. Released(r) /\ VisitorsStay({p})
    BY <1>1, DropReleases
  <2>2. OwnersInv' /\ LockInv' /\ Shared' = {}
    BY <1>1, <2>1, AfterCommit DEF VisitorsStay, Works
  <2>3. QED
    BY <1>1, <2>1, <2>2, AfterVisitors
<1>11. QED
  BY <1>1, <1>6, <1>7, <1>8, <1>9, <1>10, SameInvitations DEF TeamInv

LEMMA DeleteMemberKeeps ==
    ASSUME TeamInv, NEW r \in OwnerRequests, DeleteMember(r) PROVE TeamInv'
<1> DEFINE op == owner[r].op
           p == op.who
           lost == {i \in Ids : invitation[i] # None /\ Of(i, p)}
<1>1. /\ owner[r].at = "deleteMember" /\ changes' = changes + 1
      /\ account' = [account EXCEPT ![p] = "none"]
      /\ member' = [member EXCEPT ![p] = None]
      /\ gone' = [gone EXCEPT ![p] = @ + 1]
      /\ invitation' = [i \in Ids |-> IF i \in lost THEN None ELSE invitation[i]]
      /\ enrollment' = [i \in Ids |-> IF i \in lost THEN None ELSE enrollment[i]]
      /\ DropSessions({p}, r)
      /\ UNCHANGED <<teams, link, trashed>>
  BY DEF DeleteMember, Commits
<1>2. p \in People /\ Owners \ {p} # {}
  <2>1. Checked(r)
    BY <1>1 DEF TeamInv, OwnersInv, Works
  <2>2. QED
    BY <1>1, <2>1 DEF Checked
<1> HIDE DEF op
<1>3. session' = [q \in People |-> IF q = p THEN None ELSE session[q]]
  BY <1>1 DEF DropSessions
<1>4. \A q \in People \ {p} :
          member'[q] = member[q] /\ account'[q] = account[q] /\ gone'[q] = gone[q]
  BY <1>1 DEF TeamInv, TypeOK
<1>5. member'[p] = None
  BY <1>1, <1>2 DEF TeamInv, TypeOK
<1>6. TypeOK'
  BY <1>1, <1>2, <1>3 DEF TeamInv, TypeOK
<1>7. RowsInv' /\ EveryProjectHasTeam'
  BY <1>1, <1>2, <1>3, <1>4, <1>5 DEF TeamInv, RowsInv, EveryProjectHasTeam
<1>8. OwnerRemains'
  <2>1. \A q \in Owners \ {p} : q \in Owners' /\ account'[q] # "none"
    BY <1>1, <1>4 DEF Owners, IsOwner, TeamInv, RowsInv
  <2>2. QED
    BY <1>2, <2>1 DEF OwnerRemains
<1>9. SessionsWithinAccess'
  <2>1. \A q \in People \ {p} : (IsOwner(q) <=> IsOwner(q)') /\ Sees(q)' = Sees(q)
    BY <1>1, <1>4 DEF IsOwner, Sees
  <2>2. QED
    BY <1>3, <2>1 DEF TeamInv, SessionsWithinAccess
<1>10. OwnersInv' /\ LockInv' /\ VisitorsInv'
  <2>1. Released(r) /\ VisitorsStay({p})
    BY <1>1, DropReleases
  <2>2. OwnersInv' /\ LockInv' /\ Shared' = {}
    BY <1>1, <2>1, AfterCommit DEF VisitorsStay, Works
  <2>3. QED
    BY <1>1, <1>4, <2>1, <2>2, AfterVisitors
<1>11. NoLinkFromBefore' /\ OnePendingPerPerson'
  <2>1. ASSUME NEW i \in Ids, invitation'[i] # None
        PROVE  invitation'[i] = invitation[i] /\ invitation[i].to # p /\ invitation[i].by # p
    BY <1>1, <2>1 DEF Of
  <2>2. ASSUME NEW i \in Ids, invitation'[i] # None
        PROVE  /\ invitation'[i].gone = gone'[invitation'[i].to]
               /\ account'[invitation'[i].by] # "none"
    <3>1. /\ invitation[i] # None
          /\ invitation[i].to \in People \ {p} /\ invitation[i].by \in People \ {p}
      BY <2>1, <2>2 DEF TeamInv, TypeOK, Invitations
    <3>2. QED
      BY <1>4, <2>1, <2>2, <3>1 DEF TeamInv, NoLinkFromBefore
  <2>3. OnePendingPerPerson'
    BY <2>1 DEF TeamInv, OnePendingPerPerson, Pending
  <2>4. QED
    BY <2>2, <2>3 DEF NoLinkFromBefore
<1>12. QED
  BY <1>6, <1>7, <1>8, <1>9, <1>10, <1>11 DEF TeamInv

\* A change of the teams of a project changes what others than the members of
\* the team see only where the team is new, and then they see as much as before.
LEMMA SaveTeamKeeps ==
    ASSUME TeamInv, NEW r \in OwnerRequests, SaveTeam(r) PROVE TeamInv'
<1> DEFINE op == owner[r].op
           t == op.team
           signedOut == IF t \in teams THEN Affected(t, op.members) ELSE {}
<1>1. /\ owner[r].at = "saveTeam" /\ changes' = changes + 1
      /\ teams' = teams \cup {t}
      /\ member' = [p \in People |->
             IF p \in op.members THEN [member[p] EXCEPT !.teams = @ \cup {t}]
             ELSE IF p \in InTeam(t) THEN [member[p] EXCEPT !.teams = @ \ {t}]
             ELSE member[p]]
      /\ link' = Relink(t, op.projects)
      /\ DropSessions(signedOut, r)
      /\ UNCHANGED <<account, gone, trashed, invitation, enrollment>>
  BY DEF SaveTeam, Commits
<1>2. /\ t \in Teams
      /\ \A p \in op.members : p \in People /\ member[p] # None
      /\ op.projects \subseteq Projects \ trashed
      /\ t \in teams => \A x \in Projects \ (trashed \cup op.projects) :
            t \in link[x] => link[x] # {t}
  <2>1. Checked(r)
    BY <1>1 DEF TeamInv, OwnersInv, Works
  <2>2. QED
    BY <1>1, <2>1 DEF Checked
<1>3. session' = [q \in People |-> IF q \in signedOut THEN None ELSE session[q]]
  BY <1>1 DEF DropSessions
<1>4. ASSUME NEW p \in People
      PROVE  \/ member[p] = None /\ member'[p] = None
             \/ /\ member[p] # None /\ member'[p] \in Members /\ member'[p] # None
                /\ member'[p].role = member[p].role /\ member'[p].active = member[p].active
                /\ member'[p].teams = IF p \in op.members THEN member[p].teams \cup {t}
                                      ELSE member[p].teams \ {t}
  <2>1. CASE member[p] = None
    BY <1>1, <1>2, <2>1 DEF InTeam
  <2>2. CASE member[p] # None
    <3>1. member[p] \in Members
      BY <2>2 DEF TeamInv, TypeOK
    <3>2. CASE p \in op.members
      <4>1. member'[p] = [member[p] EXCEPT !.teams = @ \cup {t}]
        BY <1>1, <3>2
      <4>2. QED
        BY <1>2, <2>2, <3>1, <3>2, <4>1 DEF Members
    <3>3. CASE p \notin op.members /\ t \in member[p].teams
      <4>1. member'[p] = [member[p] EXCEPT !.teams = @ \ {t}]
        BY <1>1, <2>2, <3>3 DEF InTeam
      <4>2. QED
        BY <1>2, <2>2, <3>1, <3>3, <4>1 DEF Members
    <3>4. CASE p \notin op.members /\ t \notin member[p].teams
      <4>1. member'[p] = member[p]
        BY <1>1, <3>4 DEF InTeam
      <4>2. QED
        BY <2>2, <3>1, <3>4, <4>1
    <3>5. QED
      BY <3>2, <3>3, <3>4
  <2>3. QED
    BY <2>1, <2>2
<1>5. ASSUME NEW x \in Projects
      PROVE  link'[x] = IF x \in op.projects THEN link[x] \cup {t}
                        ELSE IF x \in trashed THEN link[x] ELSE link[x] \ {t}
  BY <1>1 DEF Relink
<1>6. \A p \in People : IsOwner(p) <=> IsOwner(p)'
  BY <1>4 DEF IsOwner
<1>7. TypeOK'
  <2>1. member' \in [People -> Members \cup {None}]
    BY <1>1, <1>4
  <2>2. link' \in [Projects -> SUBSET Teams]
    BY <1>1, <1>2, <1>5 DEF Relink, TeamInv, TypeOK
  <2>3. QED
    <3>1. /\ account' \in [People -> {"none", "plain", "mfa"}]
          /\ teams' \subseteq Teams /\ trashed' \subseteq Projects
          /\ gone' \in [People -> Nat] /\ changes' \in Nat
      BY <1>1, <1>2 DEF TeamInv, TypeOK
    <3>2. session' \in [People -> Sessions \cup {None}]
      BY <1>3 DEF TeamInv, TypeOK
    <3>3. /\ invitation' \in [Ids -> Invitations \cup {None}]
          /\ enrollment' \in [Ids -> Enrollments \cup {None}]
      BY <1>1 DEF TeamInv, TypeOK
    <3>4. QED
      BY <2>1, <2>2, <3>1, <3>2, <3>3 DEF TypeOK
<1>8. RowsInv'
  <2>1. ASSUME NEW p \in People, member'[p] # None
        PROVE  account'[p] # "none" /\ member'[p].teams \subseteq teams'
    <3>1. member[p] # None /\ account[p] # "none" /\ member[p].teams \subseteq teams
      BY <1>4, <2>1 DEF TeamInv, RowsInv
    <3>2. member'[p].teams \subseteq member[p].teams \cup {t}
      BY <1>4, <2>1
    <3>3. QED
      BY <1>1, <3>1, <3>2
  <2>2. \A x \in Projects : link'[x] \subseteq teams'
    BY <1>1, <1>5 DEF TeamInv, RowsInv
  <2>3. \A p \in People : session'[p] # None => account'[p] # "none"
    BY <1>1, <1>3 DEF TeamInv, RowsInv
  <2>4. QED
    BY <2>1, <2>2, <2>3 DEF RowsInv
<1>9. OwnerRemains'
  BY <1>1, <1>6 DEF TeamInv, OwnerRemains, Owners
<1>10. EveryProjectHasTeam'
  <2>1. ASSUME NEW x \in Projects PROVE link'[x] # {}
    <3>1. link[x] # {} /\ link[x] \subseteq teams
      BY DEF TeamInv, EveryProjectHasTeam, RowsInv
    <3>2. CASE x \in op.projects \/ x \in trashed
      BY <1>5, <3>1, <3>2
    <3>3. CASE x \notin op.projects /\ x \notin trashed
      <4>1. t \in link[x] => link[x] # {t}
        BY <1>2, <3>1, <3>3
      <4>2. QED
        BY <1>5, <3>1, <3>3, <4>1
    <3>4. QED
      BY <3>2, <3>3
  <2>2. QED
    BY <2>1 DEF EveryProjectHasTeam
<1>11. ASSUME NEW p \in People, p \notin signedOut PROVE Sees(p) \subseteq Sees(p)'
  <2>1. CASE member[p] = None \/ IsOwner(p) \/ ~member[p].active
    BY <1>4, <1>6, <2>1 DEF Sees
  <2>2. CASE member[p] # None /\ ~IsOwner(p) /\ member[p].active
    <3>1. /\ member'[p] # None /\ ~IsOwner(p)' /\ member'[p].active
          /\ member'[p].teams = IF p \in op.members THEN member[p].teams \cup {t}
                                ELSE member[p].teams \ {t}
      BY <1>4, <1>6, <2>2
    <3>2. ASSUME NEW x \in Projects, link[x] \cap member[p].teams # {}
          PROVE  link'[x] \cap member'[p].teams # {}
      <4>1. CASE t \in teams
        <5>1. p \notin op.members /\ t \notin member[p].teams
          BY <1>11, <2>2, <4>1 DEF Affected, InTeam
        <5>2. PICK y \in link[x] \cap member[p].teams : TRUE
          BY <3>2
        <5>3. y # t /\ y \in link'[x] /\ y \in member'[p].teams
          BY <1>5, <3>1, <5>1, <5>2
        <5>4. QED
          BY <5>3
      <4>2. CASE t \notin teams
        <5>1. t \notin member[p].teams /\ t \notin link[x]
          BY <2>2, <4>2 DEF TeamInv, RowsInv
        <5>2. link[x] \subseteq link'[x] /\ member[p].teams \subseteq member'[p].teams
          BY <1>5, <3>1, <5>1
        <5>3. QED
          BY <3>2, <5>2
      <4>3. QED
        BY <4>1, <4>2
    <3>3. Sees(p) = {x \in Projects : link[x] \cap member[p].teams # {}}
      BY <2>2 DEF Sees
    <3>4. Sees(p)' = {x \in Projects : link'[x] \cap member'[p].teams # {}}
      BY <3>1 DEF Sees
    <3>5. QED
      BY <3>2, <3>3, <3>4
  <2>3. QED
    BY <2>1, <2>2
<1>12. SessionsWithinAccess'
  <2>1. ASSUME NEW p \in People, session'[p] # None
        PROVE  (session'[p].owner => IsOwner(p)') /\ session'[p].sees \subseteq Sees(p)'
    <3>1. p \notin signedOut /\ session'[p] = session[p]
      BY <1>3, <2>1
    <3>2. (session[p].owner => IsOwner(p)) /\ session[p].sees \subseteq Sees(p)
      BY <2>1, <3>1 DEF TeamInv, SessionsWithinAccess
    <3>3. QED
      BY <1>6, <1>11, <3>1, <3>2
  <2>2. QED
    BY <2>1 DEF SessionsWithinAccess
<1>13. OwnersInv' /\ LockInv' /\ VisitorsInv'
  <2> HIDE DEF op, signedOut
  <2>1. Released(r) /\ VisitorsStay(signedOut)
    BY <1>1, DropReleases
  <2>2. OwnersInv' /\ LockInv' /\ Shared' = {}
    BY <1>1, <2>1, AfterCommit DEF VisitorsStay, Works
  <2>3. QED
    BY <1>1, <2>1, <2>2, AfterVisitors
<1>14. QED
  BY <1>1, <1>7, <1>8, <1>9, <1>10, <1>12, <1>13, SameInvitations DEF TeamInv

LEMMA TrashKeeps ==
    ASSUME TeamInv, NEW r \in OwnerRequests, Trash(r) \/ Restore(r) PROVE TeamInv'
<1>1. /\ owner[r].at \in {"trash", "restore"} /\ changes' = changes + 1 /\ Ends(r)
      /\ trashed' \in {trashed \cup {owner[r].op.project}, trashed \ {owner[r].op.project}}
      /\ UNCHANGED <<people, teams, link, invites, session, visitor>>
  BY DEF Trash, Restore, Commits
<1>2. owner[r].op.project \in Projects
  <2>1. Checked(r)
    BY <1>1 DEF TeamInv, OwnersInv, Works
  <2>2. QED
    BY <1>1, <2>1 DEF Checked
<1>3. TypeOK'
  BY <1>1, <1>2 DEF TeamInv, TypeOK
<1>4. QED
  BY <1>1, <1>3, EndsReleases, Rest, SamePeople, SameInvitations DEF TeamInv, Works

LEMMA InviteKeeps ==
    ASSUME TeamInv, NEW r \in OwnerRequests, Invite(r) PROVE TeamInv'
<1> DEFINE op == owner[r].op
<1>1. /\ owner[r].at = "invite" /\ changes' = changes + 1 /\ Ends(r)
      /\ invitation' = Expire(op.new.to, op.id, op.new)
      /\ UNCHANGED <<people, shape, enrollment, session, visitor>>
  BY DEF Invite, Commits
<1>2. /\ op.id \in Ids /\ invitation[op.id] = None
      /\ op.new \in Invitations
      /\ op.new.by = owner[r].by /\ op.new.gone = gone[op.new.to]
      /\ \A j \in Ids : Usable(j) => invitation[j].to # op.new.to
      /\ owner[r].by \in People /\ IsOwner(owner[r].by)
  <2>1. Checked(r) /\ owner[r].by \in People /\ IsOwner(owner[r].by)
    BY <1>1 DEF TeamInv, OwnersInv, Works
  <2>2. QED
    BY <1>1, <2>1 DEF Checked
<1> HIDE DEF op
<1>3. ASSUME NEW j \in Ids \ {op.id}
      PROVE  /\ invitation'[j] # None => invitation[j] # None
             /\ invitation'[j] # None =>
                   /\ invitation'[j] \in Invitations
                   /\ invitation'[j].to = invitation[j].to /\ invitation'[j].by = invitation[j].by
                   /\ invitation'[j].gone = invitation[j].gone
             /\ Pending(j)' => Pending(j) /\ ~(invitation[j].to = op.new.to /\ invitation[j].lapsed)
  <2>1. invitation[j] \in Invitations \cup {None}
    BY DEF TeamInv, TypeOK
  <2>2. CASE Pending(j) /\ invitation[j].to = op.new.to /\ invitation[j].lapsed
    <3>1. /\ invitation'[j] = [invitation[j] EXCEPT !.status = "expired"]
          /\ invitation[j] \in Invitations
      BY <1>1, <2>1, <2>2 DEF Expire, Pending
    <3>2. QED
      BY <2>2, <3>1 DEF Invitations, Pending
  <2>3. CASE ~(Pending(j) /\ invitation[j].to = op.new.to /\ invitation[j].lapsed)
    <3>1. invitation'[j] = invitation[j]
      BY <1>1, <2>3 DEF Expire
    <3>2. QED
      BY <2>1, <2>3, <3>1 DEF Pending
  <2>4. QED
    BY <2>2, <2>3
<1>4. invitation'[op.id] = op.new /\ DOMAIN invitation' = Ids /\ op.new # None
  BY <1>1, <1>2 DEF Expire
<1>5. TypeOK'
  <2>1. invitation' = [j \in Ids |-> invitation'[j]]
    BY <1>1 DEF Expire
  <2>2. \A j \in Ids : invitation'[j] \in Invitations \cup {None}
    BY <1>2, <1>3, <1>4
  <2>3. QED
    BY <1>1, <2>1, <2>2 DEF TeamInv, TypeOK
<1>6. NoLinkFromBefore'
  <2>1. account[owner[r].by] # "none"
    BY <1>2 DEF TeamInv, RowsInv, IsOwner
  <2>2. QED
    BY <1>1, <1>2, <1>3, <1>4, <2>1 DEF TeamInv, NoLinkFromBefore
<1>7. OnePendingPerPerson'
  <2>1. ASSUME NEW i \in Ids, NEW j \in Ids, Pending(i)', Pending(j)',
               invitation'[i].to = invitation'[j].to, i # j
        PROVE  FALSE
    <3>1. CASE i # op.id /\ j # op.id
      <4>1. Pending(i) /\ Pending(j) /\ invitation[i].to = invitation[j].to
        BY <1>3, <2>1, <3>1 DEF Pending
      <4>2. QED
        BY <2>1, <4>1 DEF TeamInv, OnePendingPerPerson
    <3>2. ASSUME NEW k \in Ids \ {op.id}, Pending(k)', invitation'[k].to = op.new.to PROVE FALSE
      <4>1. Pending(k) /\ invitation[k].to = op.new.to /\ ~invitation[k].lapsed
        BY <1>3, <3>2 DEF Pending
      <4>2. QED
        BY <1>2, <4>1 DEF Usable
    <3>3. QED
      BY <1>4, <2>1, <3>1, <3>2
  <2>2. QED
    BY <2>1 DEF OnePendingPerPerson
<1>8. QED
  BY <1>1, <1>5, <1>6, <1>7, EndsReleases, Rest, SamePeople DEF TeamInv, Works

\* Invitation rows that are made and changed.
LEMMA Made ==
    ASSUME NEW to \in People, NEW role \in Invitable, NEW ts \in SUBSET Teams, NEW by \in People,
           NEW status \in {"pending", "expired", "revoked", "accepted"},
           NEW rev \in Nat, NEW was \in Nat
    PROVE  [to |-> to, role |-> role, teams |-> ts, by |-> by, status |-> status,
            rev |-> rev, lapsed |-> FALSE, gone |-> was] \in Invitations
  BY DEF Invitations
Revised(e, s) == [e EXCEPT !.rev = @ + 1, !.status = s, !.lapsed = FALSE]

LEMMA Revision ==
    ASSUME NEW e \in Invitations, NEW s \in {"pending", "revoked"}
    PROVE  /\ Revised(e, s) \in Invitations
           /\ Revised(e, s).to = e.to /\ Revised(e, s).by = e.by
           /\ Revised(e, s).gone = e.gone /\ Revised(e, s).status = s
<1> DEFINE new == Revised(e, s)
<1>0. new = [e EXCEPT !.rev = @ + 1, !.status = s, !.lapsed = FALSE]
  BY DEF Revised
<1> HIDE DEF new
<1>1. new = [to |-> e.to, role |-> e.role, teams |-> e.teams, by |-> e.by,
             status |-> s, rev |-> e.rev + 1, lapsed |-> FALSE, gone |-> e.gone]
  BY <1>0 DEF Invitations
<1>2. /\ e.to \in People /\ e.role \in Invitable /\ e.teams \in SUBSET Teams /\ e.by \in People
      /\ e.rev + 1 \in Nat /\ e.gone \in Nat
  BY DEF Invitations
<1>3. s \in {"pending", "expired", "revoked", "accepted"}
  OBVIOUS
<1>4. [to |-> e.to, role |-> e.role, teams |-> e.teams, by |-> e.by, status |-> s,
       rev |-> e.rev + 1, lapsed |-> FALSE, gone |-> e.gone] \in Invitations
  BY <1>2, <1>3, Made
<1>5. QED
  BY <1>1, <1>4 DEF new

\* Whoever changes an invitation leaves every other row as it was or expired.
LEMMA ReissueKeeps ==
    ASSUME TeamInv, NEW r \in OwnerRequests, Reissue(r) PROVE TeamInv'
<1> DEFINE i == owner[r].op.id
           new == Revised(invitation[i], "pending")
           p == invitation[i].to
<1>1. /\ owner[r].at = "reissue" /\ changes' = changes + 1 /\ Ends(r)
      /\ enrollment' = [enrollment EXCEPT ![i] = None]
      /\ invitation' = Expire(p, i, new)
      /\ UNCHANGED <<people, shape, session, visitor>>
  BY DEF Reissue, Commits, Revised
<1>2. i \in Ids /\ Changeable(i) /\ Alone(i)
  <2>1. Checked(r)
    BY <1>1 DEF TeamInv, OwnersInv, Works
  <2>2. QED
    BY <1>1, <2>1 DEF Checked
<1>3. /\ new \in Invitations /\ new.to = p /\ new.by = invitation[i].by
      /\ new.gone = invitation[i].gone /\ invitation[i] # None
  <2>1. invitation[i] # None /\ invitation[i] \in Invitations
    BY <1>2 DEF Changeable, TeamInv, TypeOK
  <2>2. QED
    BY <2>1, Revision
<1> HIDE DEF i, new
<1>4. ASSUME NEW j \in Ids \ {i}
      PROVE  /\ invitation'[j] # None => invitation[j] # None
             /\ invitation'[j] # None =>
                   /\ invitation'[j] \in Invitations
                   /\ invitation'[j].to = invitation[j].to /\ invitation'[j].by = invitation[j].by
                   /\ invitation'[j].gone = invitation[j].gone
             /\ Pending(j)' => Pending(j) /\ ~(invitation[j].to = p /\ invitation[j].lapsed)
  <2> HIDE DEF p
  <2>1. invitation[j] \in Invitations \cup {None}
    BY DEF TeamInv, TypeOK
  <2>2. CASE Pending(j) /\ invitation[j].to = p /\ invitation[j].lapsed
    <3>1. /\ invitation'[j] = [invitation[j] EXCEPT !.status = "expired"]
          /\ invitation[j] \in Invitations
      BY <1>1, <2>1, <2>2 DEF Expire, Pending
    <3>2. QED
      BY <2>2, <3>1 DEF Invitations, Pending
  <2>3. CASE ~(Pending(j) /\ invitation[j].to = p /\ invitation[j].lapsed)
    <3>1. invitation'[j] = invitation[j]
      BY <1>1, <2>3 DEF Expire
    <3>2. QED
      BY <2>1, <2>3, <3>1 DEF Pending
  <2>4. QED
    BY <2>2, <2>3
<1>5. invitation'[i] = new /\ new # None
  BY <1>1, <1>2, <1>3 DEF Expire
<1>6. TypeOK'
  <2>1. invitation' = [j \in Ids |-> invitation'[j]]
    BY <1>1 DEF Expire
  <2>2. \A j \in Ids : invitation'[j] \in Invitations \cup {None}
    BY <1>3, <1>4, <1>5
  <2>3. enrollment' \in [Ids -> Enrollments \cup {None}]
    BY <1>1 DEF TeamInv, TypeOK
  <2>4. QED
    BY <1>1, <2>1, <2>2, <2>3 DEF TeamInv, TypeOK
<1>7. NoLinkFromBefore'
  BY <1>1, <1>2, <1>3, <1>4, <1>5 DEF TeamInv, NoLinkFromBefore
<1>8. OnePendingPerPerson'
  <2>1. ASSUME NEW a \in Ids, NEW b \in Ids, Pending(a)', Pending(b)',
               invitation'[a].to = invitation'[b].to, a # b
        PROVE  FALSE
    <3>1. CASE a # i /\ b # i
      <4>1. Pending(a) /\ Pending(b) /\ invitation[a].to = invitation[b].to
        BY <1>4, <2>1, <3>1 DEF Pending
      <4>2. QED
        BY <2>1, <4>1 DEF TeamInv, OnePendingPerPerson
    <3>2. ASSUME NEW k \in Ids \ {i}, Pending(k)', invitation'[k].to = p PROVE FALSE
      <4>1. Pending(k) /\ invitation[k].to = p /\ ~invitation[k].lapsed
        BY <1>4, <3>2 DEF Pending
      <4>2. QED
        BY <1>2, <4>1 DEF Usable, Alone
    <3>3. QED
      BY <1>3, <1>5, <2>1, <3>1, <3>2
  <2>2. QED
    BY <2>1 DEF OnePendingPerPerson
<1>9. \A j \in Ids : enrollment'[j] \in {None, enrollment[j]}
  BY <1>1 DEF TeamInv, TypeOK
<1>10. QED
  BY <1>1, <1>6, <1>7, <1>8, <1>9, EndsReleases, Rest, SamePeople DEF TeamInv, Works

LEMMA RevokeKeeps ==
    ASSUME TeamInv, NEW r \in OwnerRequests, Revoke(r) PROVE TeamInv'
<1> DEFINE i == owner[r].op.id
           new == Revised(invitation[i], "revoked")
<1>1. /\ owner[r].at = "revoke" /\ changes' = changes + 1 /\ Ends(r)
      /\ enrollment' = [enrollment EXCEPT ![i] = None]
      /\ invitation' = [invitation EXCEPT ![i].rev = @ + 1, ![i].status = "revoked",
                                          ![i].lapsed = FALSE]
      /\ UNCHANGED <<people, shape, session, visitor>>
  BY DEF Revoke, Commits
<1>2. i \in Ids /\ invitation[i] \in Invitations
  <2>1. Checked(r)
    BY <1>1 DEF TeamInv, OwnersInv, Works
  <2>2. i \in Ids /\ Changeable(i)
    BY <1>1, <2>1 DEF Checked
  <2>3. QED
    BY <2>2 DEF Changeable, TeamInv, TypeOK
<1>3. /\ new \in Invitations /\ new.to = invitation[i].to /\ new.by = invitation[i].by
      /\ new.gone = invitation[i].gone /\ new.status = "revoked"
  <2>1. QED
    BY <1>2, Revision
<1>4. invitation' = [invitation EXCEPT ![i] = new]
  <2>1. invitation \in [Ids -> Invitations \cup {None}]
    BY DEF TeamInv, TypeOK
  <2>2. QED
    BY <1>1, <1>2, <2>1 DEF Invitations, Revised
<1> HIDE DEF i, new
<1>5. TypeOK'
  <2>1. enrollment' \in [Ids -> Enrollments \cup {None}]
    BY <1>1 DEF TeamInv, TypeOK
  <2>2. invitation' \in [Ids -> Invitations \cup {None}]
    BY <1>3, <1>4 DEF TeamInv, TypeOK
  <2>3. QED
    BY <1>1, <2>1, <2>2 DEF TeamInv, TypeOK
<1>6. NoLinkFromBefore' /\ OnePendingPerPerson'
  BY SMTT(100), <1>1, <1>2, <1>3, <1>4 DEF TeamInv, TypeOK, NoLinkFromBefore, OnePendingPerPerson, Pending
<1>7. \A j \in Ids : enrollment'[j] \in {None, enrollment[j]}
  BY <1>1 DEF TeamInv, TypeOK
<1>8. QED
  BY <1>1, <1>5, <1>6, <1>7, EndsReleases, Rest, SamePeople DEF TeamInv, Works

(* Visitors.                                                               *)

LEMMA SameExclusive ==
    ASSUME TeamInv, UNCHANGED owner, NEW v \in Visitors,
           \A w \in Visitors \ {v} : visitor'[w].at = visitor[w].at,
           visitor'[v].at = "joining" => Exclusive = {}
    PROVE  LockInv'
<1>1. Exclusive' = Exclusive /\ \A r, s \in Exclusive : r = s
  BY DEF Exclusive, TeamInv, LockInv
<1>2. Exclusive # {} => Shared' = {}
  BY DEF TeamInv, LockInv, Shared
<1>3. QED
  BY <1>1, <1>2 DEF LockInv

\* A visitor who only holds a link, or nothing.
LEMMA FindKeeps ==
    ASSUME TeamInv, NEW v \in Visitors, NEW i \in Ids, NEW p,
           NEW place \in {"registering", "accepting"},
           visitor' = [visitor EXCEPT ![v] = Holding(place, p, i, invitation[i].rev)],
           place = "registering" => p = None,
           place = "accepting" => p \in People /\ session[p] # None,
           UNCHANGED <<people, shape, invites, session, owner, changes>>
    PROVE  TeamInv'
<1>1. UNCHANGED <<people, shape, invites, session, owner, changes>>
  OBVIOUS
<1>2. /\ visitor' = [visitor EXCEPT ![v] = Holding(place, p, i, invitation[i].rev)]
      /\ place = "registering" => p = None
      /\ place = "accepting" => p \in People /\ session[p] # None
  OBVIOUS
<1> DEFINE new == Holding(place, p, i, invitation[i].rev)
<1>3. /\ DOMAIN new = {"at", "by", "live", "id", "rev"}
      /\ new.at = place /\ new.by = p /\ new.id = i
  BY DEF Holding
<1> HIDE DEF new
<1>4. visitor' = [w \in Visitors |-> IF w = v THEN new ELSE visitor[w]]
  BY <1>2 DEF new, TeamInv, VisitorsInv, Position
<1>5. LockInv'
  BY <1>1, <1>3, <1>4, SameExclusive
<1>6. Shared' \subseteq Shared
  BY <1>3, <1>4 DEF Shared
<1>7. VisitorsInv'
  <2>1. ASSUME NEW w \in Visitors \ {v}, visitor[w].at = "joining" PROVE Admitted(w)'
    BY <1>1, <1>4, <2>1, SameAdmission
  <2>2. \A a, b \in Shared' : visitor'[a].id = visitor'[b].id => a = b
    BY <1>3, <1>4, <1>6 DEF TeamInv, VisitorsInv, Position, Shared
  <2>3. p \in People => (place = "accepting" => account[p] # "none")
    BY <1>2 DEF TeamInv, RowsInv
  <2>4. ASSUME NEW w \in Visitors PROVE Position(w)'
    <3>1. CASE w = v
      BY <1>1, <1>2, <1>3, <1>4, <2>3, <3>1 DEF Places, Position
    <3>2. CASE w # v
      BY <1>1, <1>4, <2>1, <3>2 DEF TeamInv, VisitorsInv, Position
    <3>3. QED
      BY <3>1, <3>2
  <2>5. QED
    BY <1>4, <2>2, <2>4 DEF VisitorsInv, Position
<1>8. QED
  BY <1>1, <1>5, <1>7, SamePeople, SameInvitations, SameOwners, SameTypes DEF TeamInv

LEMMA FindToRegisterKeeps ==
    ASSUME TeamInv, NEW v \in Visitors, NEW i \in Ids, FindToRegister(v, i) PROVE TeamInv'
<1>1. /\ visitor' = [visitor EXCEPT ![v] = Holding("registering", None, i, invitation[i].rev)]
      /\ UNCHANGED <<people, shape, invites, session, owner, changes>>
  BY DEF FindToRegister, Visit
<1>2. QED
  BY <1>1, FindKeeps

LEMMA FindToAcceptKeeps ==
    ASSUME TeamInv, NEW v \in Visitors, NEW i \in Ids, NEW p \in People, FindToAccept(v, i, p)
    PROVE  TeamInv'
<1>1. /\ visitor' = [visitor EXCEPT ![v] = Holding("accepting", p, i, invitation[i].rev)]
      /\ UNCHANGED <<people, shape, invites, session, owner, changes>> /\ session[p] # None
  BY DEF FindToAccept, Visit
<1>2. QED
  BY <1>1, FindKeeps

LEMMA LeaveKeeps == ASSUME TeamInv, NEW v \in Visitors, Leave(v) PROVE TeamInv'
<1>1. /\ UNCHANGED <<people, shape, invites, session, owner, changes>>
      /\ visitor' = [visitor EXCEPT ![v] = Out]
  BY DEF Leave, Visit
<1>2. visitor' = [w \in Visitors |-> IF w = v THEN Out ELSE visitor[w]]
  BY <1>1 DEF TeamInv, VisitorsInv, Position
<1>3. LockInv'
  BY <1>1, <1>2, SameExclusive DEF Out
<1>4. Shared' \subseteq Shared
  BY <1>2 DEF Shared, Out
<1>5. VisitorsInv'
  <2>1. ASSUME NEW w \in Visitors \ {v}, visitor[w].at = "joining" PROVE Admitted(w)'
    BY <1>1, <1>2, <2>1, SameAdmission
  <2>2. \A a, b \in Shared' : visitor'[a].id = visitor'[b].id => a = b
    BY <1>2, <1>4 DEF TeamInv, VisitorsInv, Position, Shared, Out
  <2>3. ASSUME NEW w \in Visitors PROVE Position(w)'
    <3>1. CASE w = v
      BY <1>2, <3>1 DEF Places, Position, Out
    <3>2. CASE w # v
      BY <1>1, <1>2, <2>1, <3>2 DEF TeamInv, VisitorsInv, Position
    <3>3. QED
      BY <3>1, <3>2
  <2>4. QED
    BY <1>2, <2>2, <2>3 DEF VisitorsInv, Position
<1>6. QED
  BY <1>1, <1>3, <1>5, SamePeople, SameInvitations, SameOwners, SameTypes DEF TeamInv

\* The row is replaced: whoever was enrolled by it before no longer is.
LEMMA BeginRegistrationKeeps ==
    ASSUME TeamInv, NEW v \in Visitors, BeginRegistration(v) PROVE TeamInv'
<1> DEFINE i == visitor[v].id
           e == [rev |-> invitation[i].rev, by |-> v, lapsed |-> FALSE]
<1>1. /\ visitor[v].at = "registering" /\ Lock(i) /\ Current(v)
      /\ enrollment' = [enrollment EXCEPT ![i] = e]
      /\ visitor' = [visitor EXCEPT ![v] = [visitor[v] EXCEPT !.at = "enrolled"]]
      /\ UNCHANGED <<people, shape, invitation, session, owner, changes>>
  BY DEF BeginRegistration, Visit
<1>2. i \in Ids /\ visitor[v].by = None
  BY <1>1 DEF TeamInv, VisitorsInv, Position
<1>3. invitation[i] # None /\ invitation[i] \in Invitations /\ invitation[i].rev = visitor[v].rev
  BY <1>1, <1>2 DEF Lock, Usable, Pending, TeamInv, TypeOK, Current
<1> DEFINE new == [visitor[v] EXCEPT !.at = "enrolled"]
<1>4. /\ DOMAIN new = DOMAIN visitor[v] /\ {"at", "by", "live", "id", "rev"} \subseteq DOMAIN new
      /\ new.at = "enrolled" /\ new.by = None /\ new.id = i /\ new.rev = visitor[v].rev
  BY <1>1, <1>2 DEF TeamInv, VisitorsInv, Position
<1> HIDE DEF new
<1>5. visitor' = [w \in Visitors |-> IF w = v THEN new ELSE visitor[w]]
  BY <1>1 DEF TeamInv, VisitorsInv, Position, new
<1>6. e \in Enrollments /\ e # None /\ e.by = v /\ e.rev = visitor[v].rev
  <2>1. invitation[i].rev \in Nat
    BY <1>3 DEF Invitations
  <2>2. \A n \in Nat : [rev |-> n, by |-> v, lapsed |-> FALSE] \in Enrollments
    BY DEF Enrollments
  <2>3. e \in Enrollments /\ e.by = v /\ e.rev = visitor[v].rev
    BY <1>3, <2>1, <2>2
  <2>4. QED
    BY <2>3
<1> HIDE DEF e
<1>7. TypeOK'
  BY <1>1, <1>6 DEF TeamInv, TypeOK
<1>8. LockInv'
  BY <1>1, <1>4, <1>5, SameExclusive
<1>9. Shared' \subseteq Shared
  BY <1>4, <1>5 DEF Shared
<1>10. \A j \in Ids : enrollment'[j] = IF j = i THEN e ELSE enrollment[j]
  BY <1>1, <1>2 DEF TeamInv, TypeOK
<1> HIDE DEF i
<1>11. VisitorsInv'
  <2>1. ASSUME NEW w \in Visitors \ {v}, visitor[w].at = "joining" PROVE Admitted(w)'
    BY <1>1, <1>5, <2>1, SameAdmission
  <2>2. \A a, b \in Shared' : visitor'[a].id = visitor'[b].id => a = b
    BY <1>4, <1>5, <1>9 DEF TeamInv, VisitorsInv, Position, Shared
  <2>3. ASSUME NEW w \in Visitors PROVE Position(w)'
    <3>1. CASE w = v
      BY <1>2, <1>4, <1>5, <1>6, <1>10, <3>1 DEF Places, Position
    <3>2. CASE w # v
      BY <1>1, <1>5, <1>6, <1>10, <2>1, <3>2 DEF TeamInv, VisitorsInv, Position
    <3>3. QED
      BY <3>1, <3>2
  <2>4. QED
    BY <1>5, <2>2, <2>3 DEF VisitorsInv, Position
<1>12. QED
  BY <1>1, <1>7, <1>8, <1>11, SamePeople, SameInvitations, SameOwners DEF TeamInv

\* The visitor takes the lock on the invitation alone, and it is still good.
LEMMA JoiningKeeps ==
    ASSUME TeamInv, NEW v \in Visitors, AskFinish(v) \/ AskAccept(v) PROVE TeamInv'
<1> DEFINE i == visitor[v].id
<1>1. /\ visitor[v].at \in {"enrolled", "accepting"} /\ Lock(i)
      /\ member[invitation[i].to] = None /\ invitation[i].teams \subseteq teams
      /\ visitor' = [visitor EXCEPT ![v] = [visitor[v] EXCEPT !.at = "joining"]]
      /\ UNCHANGED <<people, shape, invites, session, owner, changes>>
  BY DEF AskFinish, AskAccept, Visit
<1>2. i \in Ids /\ Pending(i) /\ Exclusive = {} /\ \A w \in Shared : visitor[w].id # i
  BY <1>1 DEF TeamInv, VisitorsInv, Position, Lock, ShareWorkspace, Usable
<1>3. invitation[i].rev = visitor[v].rev
  BY DEF AskFinish, AskAccept, Enrolled, Current, TeamInv, VisitorsInv, Position
<1>4. visitor[v].by # None =>
          visitor[v].by = invitation[i].to /\ account[invitation[i].to] # "none"
  BY DEF AskFinish, AskAccept, TeamInv, VisitorsInv, Position
<1> DEFINE new == [visitor[v] EXCEPT !.at = "joining"]
<1>5. /\ DOMAIN new = DOMAIN visitor[v] /\ {"at", "by", "live", "id", "rev"} \subseteq DOMAIN new
      /\ new.at = "joining" /\ new.by = visitor[v].by /\ new.id = i /\ new.rev = visitor[v].rev
  BY <1>1 DEF TeamInv, VisitorsInv, Position
<1> HIDE DEF new
<1>6. visitor' = [w \in Visitors |-> IF w = v THEN new ELSE visitor[w]]
  BY <1>1 DEF TeamInv, VisitorsInv, Position, new
<1>7. LockInv'
  BY <1>1, <1>2, <1>6, SameExclusive
<1>8. \A a \in Shared' : a = v \/ a \in Shared
  BY <1>6 DEF Shared
<1>9. VisitorsInv'
  <2>1. ASSUME NEW w \in Visitors \ {v}, visitor[w].at = "joining" PROVE Admitted(w)'
    BY <1>1, <1>6, <2>1, SameAdmission
  <2>2. Admitted(v)'
    BY <1>1, <1>2, <1>3, <1>4, <1>5, <1>6 DEF Admitted, Pending
  <2>3. \A a, b \in Shared' : visitor'[a].id = visitor'[b].id => a = b
    BY <1>2, <1>5, <1>6, <1>8 DEF TeamInv, VisitorsInv, Position, Shared
  <2>4. QED
    BY SMTT(100), <1>1, <1>2, <1>5, <1>6, <2>1, <2>2, <2>3 DEF TeamInv, VisitorsInv, Position, Places
<1>10. QED
  BY <1>1, <1>7, <1>9, SamePeople, SameInvitations, SameOwners, SameTypes DEF TeamInv

LEMMA StatusSet ==
    ASSUME NEW e \in Invitations, NEW s \in {"expired", "accepted"}
    PROVE  LET new == [e EXCEPT !.status = s] IN
           /\ new \in Invitations /\ new # None
           /\ new.to = e.to /\ new.by = e.by /\ new.gone = e.gone /\ new.rev = e.rev
           /\ new.teams = e.teams /\ new.status = s
  BY DEF Invitations

LEMMA MemberRow ==
    ASSUME NEW role \in Roles, NEW ts \in SUBSET Teams
    PROVE  LET m == Membership(role, TRUE, ts) IN
           m \in Members /\ m # None /\ m.role = role /\ m.active /\ m.teams = ts
<1> DEFINE m == Membership(role, TRUE, ts)
<1>1. m \in Members
  BY DEF Membership, Members
<1>2. m.role = role /\ m.active /\ m.teams = ts
  BY DEF Membership
<1> HIDE DEF m
<1>3. m # None
  BY <1>1
<1>4. QED
  BY <1>1, <1>2, <1>3 DEF m

LEMMA ViewOfNewcomer ==
    ASSUME NEW S \in SUBSET Projects
    PROVE  LET view == [owner |-> FALSE, sees |-> S] IN
           view \in Sessions /\ ~view.owner /\ view.sees = S
  BY DEF Sessions

\* Nobody else joins by this invitation, nor for the same person: at most one
\* invitation to the person is pending.
LEMMA JoinsKeeps ==
    ASSUME TeamInv, NEW v \in Visitors, Join(v), NEW i, i = visitor[v].id,
           NEW p, p = invitation[i].to
    PROVE  TeamInv'
<1> DEFINE e == invitation[i]
           m == Membership(e.role, TRUE, e.teams)
           new == [e EXCEPT !.status = "accepted"]
           view == [owner |-> FALSE, sees |-> {x \in Projects : link[x] \cap m.teams # {}}]
<1>1. /\ visitor[v].at = "joining"
      /\ member' = [member EXCEPT ![p] = m]
      /\ invitation' = [invitation EXCEPT ![i].status = "accepted"]
      /\ enrollment' = [enrollment EXCEPT ![i] = None]
      /\ visitor' = [visitor EXCEPT ![v] = Out]
      /\ UNCHANGED <<gone, shape, owner, changes>>
  BY DEF Join, Visit
<1>2. \/ /\ visitor[v].by = None
         /\ account' = [account EXCEPT ![p] = "mfa"] /\ session' = [session EXCEPT ![p] = view]
      \/ visitor[v].by # None /\ UNCHANGED <<account, session>>
  BY DEF Join
<1>3. /\ i \in Ids /\ Pending(i) /\ e.teams \subseteq teams /\ member[p] = None
      /\ visitor[v].by # None => account[p] # "none"
  BY <1>1 DEF TeamInv, VisitorsInv, Position, Admitted
<1>4. e \in Invitations /\ p \in People /\ e # None
  BY <1>3 DEF Pending, TeamInv, TypeOK, Invitations
<1>5. /\ m \in Members /\ m # None /\ m.teams = e.teams /\ m.active /\ m.role # "owner"
  <2>1. e.role \in Invitable /\ e.teams \subseteq Teams
    BY <1>4 DEF Invitations
  <2>2. \A role \in Roles, ts \in SUBSET Teams :
            LET a == [role |-> role, active |-> TRUE, teams |-> ts] IN
            a \in Members /\ a.role = role /\ a.active /\ a.teams = ts
    BY DEF Members
  <2>3. QED
    BY <2>1, <2>2 DEF Membership, Invitable
<1>6. view \in Sessions /\ ~view.owner /\ view # None
      /\ view.sees = {x \in Projects : link[x] \cap m.teams # {}}
  BY ViewOfNewcomer
<1>7. /\ new \in Invitations /\ new # None
      /\ new.to = p /\ new.by = e.by /\ new.gone = e.gone /\ new.status = "accepted"
  BY <1>4, StatusSet
<1>8. invitation' = [j \in Ids |-> IF j = i THEN new ELSE invitation[j]]
  BY <1>1 DEF TeamInv, TypeOK
<1>9. Exclusive = {} /\ v \in Shared
  BY <1>1 DEF TeamInv, LockInv, Shared
<1> HIDE DEF e, m, new, view
<1>10. \A q \in People : member'[q] = IF q = p THEN m ELSE member[q]
  BY <1>1 DEF TeamInv, TypeOK
<1>11. \A q \in People \ {p} : account'[q] = account[q] /\ session'[q] = session[q]
  BY <1>2 DEF TeamInv, TypeOK
<1>12. account'[p] # "none" /\ \A q \in People : account[q] # "none" => account'[q] # "none"
  BY <1>2, <1>3, <1>4 DEF TeamInv, TypeOK
<1>13. TypeOK'
  <2>1. member' \in [People -> Members \cup {None}]
    BY <1>1, <1>4, <1>5 DEF TeamInv, TypeOK
  <2>2. /\ account' \in [People -> {"none", "plain", "mfa"}]
        /\ session' \in [People -> Sessions \cup {None}]
    BY <1>2, <1>4, <1>6 DEF TeamInv, TypeOK
  <2>3. invitation' \in [Ids -> Invitations \cup {None}]
    BY <1>7, <1>8 DEF TeamInv, TypeOK
  <2>4. enrollment' \in [Ids -> Enrollments \cup {None}]
    BY <1>1 DEF TeamInv, TypeOK
  <2>5. QED
    BY <1>1, <2>1, <2>2, <2>3, <2>4 DEF TeamInv, TypeOK
<1>14. RowsInv' /\ EveryProjectHasTeam'
  BY <1>1, <1>3, <1>5, <1>10, <1>11, <1>12 DEF TeamInv, RowsInv, EveryProjectHasTeam
<1>15. \A q \in People : IsOwner(q) <=> IsOwner(q)'
  BY <1>3, <1>5, <1>10 DEF IsOwner
<1>16. OwnerRemains'
  BY <1>12, <1>15 DEF TeamInv, OwnerRemains, Owners
<1>17. SessionsWithinAccess'
  <2>1. ASSUME NEW q \in People \ {p} PROVE Sees(q)' = Sees(q)
    <3>1. member'[q] = member[q] /\ (IsOwner(q) <=> IsOwner(q)') /\ link' = link
      BY <1>1, <1>10, <1>15
    <3>2. QED
      BY <3>1 DEF Sees
  <2>2. ~IsOwner(p) /\ Sees(p) = {}
    BY <1>3 DEF IsOwner, Sees
  <2>3. Sees(p)' = {x \in Projects : link[x] \cap m.teams # {}}
    <3>1. member'[p] = m /\ member'[p] # None /\ member'[p].active /\ ~IsOwner(p)'
      BY <1>4, <1>5, <1>10, <1>15, <2>2
    <3>2. Sees(p)' = {x \in Projects : link'[x] \cap member'[p].teams # {}}
      BY <3>1 DEF Sees
    <3>3. QED
      BY <1>1, <3>1, <3>2
  <2>4. ASSUME session'[p] # None
        PROVE  (session'[p].owner => IsOwner(p)') /\ session'[p].sees \subseteq Sees(p)'
    <3>1. CASE session'[p] = view
      BY <1>6, <2>3, <3>1
    <3>2. CASE session'[p] = session[p]
      BY <1>4, <1>15, <2>2, <2>4, <3>2 DEF TeamInv, SessionsWithinAccess
    <3>3. QED
      <4>1. session = [q \in People |-> session[q]]
        BY DEF TeamInv, TypeOK
      <4>2. session'[p] = view \/ session'[p] = session[p]
        BY <1>2, <1>4, <4>1
      <4>3. QED
        BY <4>2, <3>1, <3>2
  <2>5. ASSUME NEW q \in People, session'[q] # None
        PROVE  (session'[q].owner => IsOwner(q)') /\ session'[q].sees \subseteq Sees(q)'
    <3>1. CASE q # p
      BY <1>11, <1>15, <2>1, <2>5, <3>1 DEF TeamInv, SessionsWithinAccess
    <3>2. QED
      BY <2>4, <2>5, <3>1
  <2>6. QED
    BY <2>5 DEF SessionsWithinAccess
<1>18. NoLinkFromBefore' /\ OnePendingPerPerson'
  <2>1. \A j \in Ids : invitation'[j] # None =>
            /\ invitation[j] # None /\ invitation'[j].to = invitation[j].to
            /\ invitation'[j].by = invitation[j].by /\ invitation'[j].gone = invitation[j].gone
    BY <1>4, <1>7, <1>8 DEF e
  <2>2. \A j \in Ids : Pending(j)' => Pending(j) /\ j # i
    BY <1>7, <1>8 DEF Pending
  <2>3. \A j \in Ids : invitation[j] # None => invitation[j].by \in People
    BY DEF TeamInv, TypeOK, Invitations
  <2>4. NoLinkFromBefore'
    BY <1>1, <1>12, <2>1, <2>3 DEF TeamInv, NoLinkFromBefore
  <2>5. OnePendingPerPerson'
    BY <2>1, <2>2 DEF TeamInv, OnePendingPerPerson, Pending
  <2>6. QED
    BY <2>4, <2>5
<1>19. LockInv'
  BY <1>1, SameExclusive DEF Out, TeamInv, VisitorsInv, Position
<1>20. OwnersInv'
  <2>1. \A r \in OwnerRequests : owner[r].at \notin Works
    BY <1>9 DEF Exclusive, Works
  <2>2. QED
    BY <1>1, <2>1 DEF TeamInv, OwnersInv
<1>21. visitor' = [w \in Visitors |-> IF w = v THEN Out ELSE visitor[w]]
  BY <1>1 DEF TeamInv, VisitorsInv, Position
<1>22. ASSUME NEW w \in Visitors \ {v}, visitor[w].at = "joining" PROVE Admitted(w)'
  <2> DEFINE j == visitor[w].id
  <2>1. Admitted(w) /\ j \in Ids /\ j # i
    BY <1>9, <1>22 DEF TeamInv, VisitorsInv, Position, Shared
  <2>2. Pending(j) /\ invitation[j].to # p
    BY <1>3, <2>1 DEF TeamInv, OnePendingPerPerson, Admitted, e
  <2>3. invitation'[j] = invitation[j] /\ visitor'[w] = visitor[w] /\ invitation[j].to \in People
    BY <1>8, <1>21, <2>1, <2>2 DEF TeamInv, TypeOK, Pending, Invitations
  <2>4. QED
    BY <1>1, <1>10, <1>12, <2>1, <2>2, <2>3 DEF Admitted, Pending
<1>23. VisitorsInv'
  <2>1. Shared' \subseteq Shared
    BY <1>21 DEF Shared, Out
  <2>2. \A a, b \in Shared' : visitor'[a].id = visitor'[b].id => a = b
    BY <1>21, <2>1 DEF TeamInv, VisitorsInv, Position, Shared, Out
  <2>3. \A j \in Ids : enrollment'[j] \in {None, enrollment[j]}
    BY <1>1 DEF TeamInv, TypeOK
  <2>4. ASSUME NEW w \in Visitors PROVE Position(w)'
    <3>1. CASE w = v
      BY <1>21, <3>1 DEF Places, Position, Out
    <3>2. CASE w # v
      BY <1>12, <1>21, <1>22, <2>3, <3>2 DEF TeamInv, VisitorsInv, Position
    <3>3. QED
      BY <3>1, <3>2
  <2>5. QED
    BY <1>21, <2>2, <2>4 DEF VisitorsInv, Position
<1>24. QED
  BY <1>13, <1>14, <1>16, <1>17, <1>18, <1>19, <1>20, <1>23 DEF TeamInv

LEMMA JoinKeeps == ASSUME TeamInv, NEW v \in Visitors, Join(v) PROVE TeamInv'
<1>1. PICK i : i = visitor[v].id
  OBVIOUS
<1>2. PICK p : p = invitation[i].to
  OBVIOUS
<1>3. QED
  BY <1>1, <1>2, JoinsKeeps

(* Time.                                                                   *)

\* Rows that run out or are purged let nobody in whom they kept out, and the
\* purge skips the invitations that are locked.
Weaker ==
    /\ UNCHANGED <<people, shape, session, owner, visitor, changes>>
    /\ \A i \in Ids :
          /\ invitation'[i] = None <=> invitation[i] = None
          /\ invitation[i] # None =>
                /\ invitation'[i].to = invitation[i].to /\ invitation'[i].by = invitation[i].by
                /\ invitation'[i].gone = invitation[i].gone
                /\ invitation'[i].rev = invitation[i].rev
                /\ invitation'[i].teams = invitation[i].teams
          /\ (Pending(i)' => Pending(i)) /\ (Usable(i)' => Usable(i))
          /\ Changeable(i) => Changeable(i)'
          /\ Pending(i) /\ (\E v \in Shared : visitor[v].id = i) => Pending(i)'
          /\ enrollment'[i] # None =>
                /\ enrollment[i] # None /\ enrollment'[i].rev = enrollment[i].rev
                /\ enrollment'[i].by = enrollment[i].by

LEMMA WeakerKeeps == ASSUME TeamInv, Weaker, TypeOK' PROVE TeamInv'
<1>1. UNCHANGED <<people, shape, session, owner, visitor, changes>>
  BY DEF Weaker
<1>2. LockInv'
  BY <1>1 DEF TeamInv, LockInv, Exclusive, Shared
<1>3. NoLinkFromBefore' /\ OnePendingPerPerson'
  <2>1. NoLinkFromBefore'
    BY <1>1 DEF Weaker, TeamInv, NoLinkFromBefore
  <2>2. OnePendingPerPerson'
    BY DEF Weaker, TeamInv, OnePendingPerPerson, Pending
  <2>3. QED
    BY <2>1, <2>2
<1>4. OwnersInv'
  <2>1. ASSUME NEW r \in OwnerRequests, owner[r].at \in Works PROVE Checked(r)'
    <3>1. Checked(r)
      BY <2>1 DEF TeamInv, OwnersInv
    <3>2. \A i \in Ids : Alone(i) /\ invitation[i] # None => Alone(i)'
      BY <1>1 DEF Weaker, Alone, Usable, Pending
    <3>3. \A i \in Ids : Changeable(i) => Changeable(i)' /\ invitation[i] # None
      BY DEF Weaker, Changeable
    <3>4. CASE owner[r].at = "invite"
      BY <1>1, <3>1, <3>4 DEF Checked, Weaker, Usable, Pending
    <3>5. CASE owner[r].at \in {"reissue", "revoke"}
      BY <1>1, <3>1, <3>2, <3>3, <3>5 DEF Checked
    <3>6. CASE owner[r].at \notin {"invite", "reissue", "revoke"}
      BY <1>1, <3>1, <3>6 DEF Checked, IsOwner, Owners
    <3>7. QED
      BY <3>4, <3>5, <3>6
  <2>2. QED
    BY <1>1, <2>1 DEF TeamInv, OwnersInv, IsOwner
<1>5. VisitorsInv'
  <2>1. ASSUME NEW v \in Visitors, visitor[v].at = "joining" PROVE Admitted(v)'
    <3> DEFINE i == visitor[v].id
    <3>1. Admitted(v) /\ i \in Ids /\ v \in Shared
      BY <2>1 DEF TeamInv, VisitorsInv, Position, Shared
    <3>2. invitation[i] # None
      BY <3>1 DEF Admitted, Pending
    <3>3. /\ Pending(i)' /\ invitation'[i].rev = invitation[i].rev
          /\ invitation'[i].to = invitation[i].to /\ invitation'[i].teams = invitation[i].teams
      BY <3>1, <3>2 DEF Weaker, Admitted
    <3>4. QED
      BY <1>1, <3>1, <3>3 DEF Admitted
  <2>2. Shared' = Shared
    BY <1>1 DEF Shared
  <2>3. ASSUME NEW v \in Visitors, visitor[v].at = "enrolled"
        PROVE  /\ visitor[v].by = None
               /\ enrollment'[visitor[v].id] # None /\ enrollment'[visitor[v].id].by = v =>
                      enrollment'[visitor[v].id].rev = visitor[v].rev
    <3>1. visitor[v].id \in Ids
      BY <2>3 DEF TeamInv, VisitorsInv, Position
    <3>2. QED
      BY <2>3, <3>1 DEF TeamInv, VisitorsInv, Position, Weaker
  <2>4. QED
    BY <1>1, <2>1, <2>2, <2>3 DEF TeamInv, VisitorsInv, Position, Shared
<1>6. QED
  BY <1>1, <1>2, <1>3, <1>4, <1>5, SamePeople DEF TeamInv

LEMMA LapseKeeps == ASSUME TeamInv, NEW i \in Ids, Lapse(i) PROVE TeamInv'
<1>1. UNCHANGED <<people, shape, session, owner, visitor, changes>>
  BY DEF Lapse
<1>2. CASE Usable(i) /\ invitation' = [invitation EXCEPT ![i].lapsed = TRUE] /\ UNCHANGED enrollment
  <2> DEFINE new == [invitation[i] EXCEPT !.lapsed = TRUE]
  <2>1. invitation[i] \in Invitations
    BY <1>2 DEF Usable, Pending, TeamInv, TypeOK
  <2>2. /\ new \in Invitations /\ new # None /\ new.to = invitation[i].to
        /\ new.by = invitation[i].by /\ new.gone = invitation[i].gone
        /\ new.rev = invitation[i].rev /\ new.teams = invitation[i].teams
        /\ new.status = invitation[i].status /\ new.lapsed
    BY <2>1 DEF Invitations
  <2>3. invitation' = [j \in Ids |-> IF j = i THEN new ELSE invitation[j]]
    BY <1>2 DEF TeamInv, TypeOK
  <2> HIDE DEF new
  <2>4. TypeOK'
    <3>1. invitation' \in [Ids -> Invitations \cup {None}]
      BY <2>2, <2>3 DEF TeamInv, TypeOK
    <3>2. QED
      BY <1>1, <1>2, <3>1 DEF TeamInv, TypeOK
  <2>5. Weaker
    BY <1>1, <1>2, <2>2, <2>3 DEF Weaker, Usable, Pending, Changeable
  <2>6. QED
    BY <2>4, <2>5, WeakerKeeps
<1>3. CASE /\ enrollment[i] # None /\ enrollment' = [enrollment EXCEPT ![i].lapsed = TRUE]
           /\ UNCHANGED invitation
  <2> DEFINE new == [enrollment[i] EXCEPT !.lapsed = TRUE]
  <2>1. enrollment[i] \in Enrollments
    BY <1>3 DEF TeamInv, TypeOK
  <2>2. /\ new \in Enrollments /\ new # None
        /\ new.rev = enrollment[i].rev /\ new.by = enrollment[i].by
    BY <2>1 DEF Enrollments
  <2>3. enrollment' = [j \in Ids |-> IF j = i THEN new ELSE enrollment[j]]
    BY <1>3 DEF TeamInv, TypeOK
  <2> HIDE DEF new
  <2>4. TypeOK'
    BY ZenonT(60), <1>1, <1>3, <2>2, <2>3 DEF TeamInv, TypeOK
  <2>5. Weaker
    BY <1>1, <1>3, <2>2, <2>3 DEF Weaker, Usable, Pending, Changeable
  <2>6. QED
    BY <2>4, <2>5, WeakerKeeps
<1>4. QED
  BY <1>2, <1>3 DEF Lapse

LEMMA PurgeKeeps == ASSUME TeamInv, Purge PROVE TeamInv'
<1> DEFINE free == {i \in Ids : \A v \in Shared : visitor[v].id # i}
<1>1. /\ UNCHANGED <<people, shape, session, owner, visitor, changes>>
      /\ invitation' = [i \in Ids |->
             IF i \in free /\ Pending(i) /\ invitation[i].lapsed
             THEN [invitation[i] EXCEPT !.status = "expired"] ELSE invitation[i]]
      /\ enrollment' = [i \in Ids |->
             IF i \in free /\ enrollment[i] # None /\ enrollment[i].lapsed
             THEN None ELSE enrollment[i]]
  BY DEF Purge
<1>2. ASSUME NEW i \in Ids
      PROVE  \/ invitation'[i] = invitation[i]
             \/ /\ i \in free /\ Pending(i) /\ invitation[i] \in Invitations
                /\ invitation'[i] \in Invitations /\ invitation'[i] # None
                /\ invitation'[i].to = invitation[i].to /\ invitation'[i].by = invitation[i].by
                /\ invitation'[i].gone = invitation[i].gone
                /\ invitation'[i].rev = invitation[i].rev
                /\ invitation'[i].teams = invitation[i].teams /\ invitation'[i].status = "expired"
  <2>1. CASE i \in free /\ Pending(i) /\ invitation[i].lapsed
    <3>1. invitation[i] \in Invitations
      BY <2>1 DEF Pending, TeamInv, TypeOK
    <3>2. invitation'[i] = [invitation[i] EXCEPT !.status = "expired"]
      BY <1>1, <2>1
    <3> DEFINE new == [invitation[i] EXCEPT !.status = "expired"]
    <3>3. /\ new \in Invitations /\ new # None
          /\ new.to = invitation[i].to /\ new.by = invitation[i].by
          /\ new.gone = invitation[i].gone /\ new.rev = invitation[i].rev
          /\ new.teams = invitation[i].teams /\ new.status = "expired"
      BY <3>1, StatusSet
    <3>4. invitation'[i] = new
      BY <3>2
    <3> HIDE DEF new
    <3>5. QED
      BY <2>1, <3>1, <3>3, <3>4
  <2>2. CASE ~(i \in free /\ Pending(i) /\ invitation[i].lapsed)
    BY <1>1, <2>2
  <2>3. QED
    BY <2>1, <2>2
<1>3. TypeOK'
  <2>1. \A i \in Ids : invitation'[i] \in Invitations \cup {None}
    BY <1>2 DEF TeamInv, TypeOK
  <2>2. invitation' \in [Ids -> Invitations \cup {None}]
    BY <1>1, <2>1
  <2>3. enrollment' \in [Ids -> Enrollments \cup {None}]
    BY <1>1 DEF TeamInv, TypeOK
  <2>4. QED
    BY <1>1, <2>2, <2>3 DEF TeamInv, TypeOK
<1>4. Weaker
  <2>1. \A i \in Ids : enrollment'[i] \in {None, enrollment[i]}
    BY <1>1
  <2>2. ASSUME NEW i \in Ids
        PROVE  /\ invitation'[i] = None <=> invitation[i] = None
               /\ invitation[i] # None =>
                     /\ invitation'[i].to = invitation[i].to /\ invitation'[i].by = invitation[i].by
                     /\ invitation'[i].gone = invitation[i].gone
                     /\ invitation'[i].rev = invitation[i].rev
                     /\ invitation'[i].teams = invitation[i].teams
               /\ (Pending(i)' => Pending(i)) /\ (Usable(i)' => Usable(i))
               /\ Changeable(i) => Changeable(i)'
               /\ Pending(i) /\ (\E v \in Shared : visitor[v].id = i) => Pending(i)'
    <3>1. CASE invitation'[i] = invitation[i]
      BY <3>1 DEF Usable, Pending, Changeable
    <3>2. CASE invitation'[i] # invitation[i]
      BY <1>2, <3>2 DEF Usable, Pending, Changeable
    <3>3. QED
      BY <3>1, <3>2
  <2>3. QED
    BY <1>1, <2>1, <2>2 DEF Weaker
<1>5. QED
  BY <1>3, <1>4, WeakerKeeps

-----------------------------------------------------------------------------
(* The invariant holds initially and is kept by every step.                *)

LEMMA InitInv == ASSUME Init PROVE TeamInv
<1>1. /\ gone = [p \in People |-> 0] /\ teams = {First} /\ link = [x \in Projects |-> {First}]
      /\ trashed = {} /\ enrollment = [i \in Ids |-> None]
      /\ owner = [r \in OwnerRequests |-> Out] /\ visitor = [v \in Visitors |-> Out]
      /\ changes = 0
      /\ session = [p \in People |-> IF account[p] = "mfa" THEN View(p) ELSE None]
  BY DEF Init
<1>2. PICK others \in {"none", "mfa", "plain"} :
          /\ account = [p \in People |-> IF p \in Founders THEN "mfa" ELSE others]
          /\ member = [p \in People |->
                 IF p \in Founders THEN Membership("owner", TRUE, {First})
                 ELSE IF others = "plain" THEN Membership("developer", TRUE, {First})
                 ELSE None]
          /\ Invited(others)
  BY DEF Init
<1>3. ASSUME NEW role \in {"owner", "developer"}
      PROVE  LET m == Membership(role, TRUE, {First}) IN
             m \in Members /\ m # None /\ m.role = role /\ m.active /\ m.teams = {First}
  <2>1. role \in Roles /\ {First} \in SUBSET Teams
    BY DEF Roles
  <2>2. QED
    BY <2>1, MemberRow
<1>4. ASSUME NEW p \in People
      PROVE  /\ member[p] = None \/ (member[p] \in Members /\ member[p].teams = {First})
             /\ member[p] # None => account[p] # "none"
             /\ p \in Founders => IsOwner(p)
  <2>1. /\ p \in Founders => member[p] = Membership("owner", TRUE, {First})
        /\ p \notin Founders => member[p] \in {None, Membership("developer", TRUE, {First})}
        /\ member[p] # None => account[p] # "none"
    BY <1>2
  <2>2. CASE p \in Founders
    <3>1. member[p] = Membership("owner", TRUE, {First})
      BY <2>1, <2>2
    <3>2. /\ member[p] \in Members /\ member[p] # None /\ member[p].role = "owner"
          /\ member[p].active /\ member[p].teams = {First}
      BY <1>3, <3>1
    <3>3. QED
      BY <2>1, <3>2 DEF IsOwner
  <2>3. CASE p \notin Founders /\ member[p] # None
    <3>1. member[p] = Membership("developer", TRUE, {First})
      BY <2>1, <2>3
    <3>2. member[p] \in Members /\ member[p].teams = {First}
      BY <1>3, <3>1
    <3>3. QED
      BY <2>1, <2>3, <3>2
  <2>4. CASE p \notin Founders /\ member[p] = None
    BY <2>4
  <2>5. QED
    BY <2>2, <2>3, <2>4
<1>5. \A p \in People : View(p) \in Sessions
  BY DEF View, Sessions, IsOwner, Sees
<1>6. ASSUME NEW p \in People, NEW by \in Founders, NEW i \in Ids
      PROVE  LET e == Invitation(p, "developer", {First}, by) IN
             e \in Invitations /\ e # None /\ e.to = p /\ e.by = by /\ e.gone = gone[p]
  <2> DEFINE e == Invitation(p, "developer", {First}, by)
  <2>1. e = [to |-> p, role |-> "developer", teams |-> {First}, by |-> by, status |-> "pending",
             rev |-> 1, lapsed |-> FALSE, gone |-> gone[p]]
    BY DEF Invitation
  <2>2. /\ "developer" \in Invitable /\ by \in People /\ {First} \in SUBSET Teams
        /\ "pending" \in {"pending", "expired", "revoked", "accepted"}
        /\ gone[p] \in Nat /\ 1 \in Nat
    BY <1>1 DEF Invitable, Roles
  <2>3. [to |-> p, role |-> "developer", teams |-> {First}, by |-> by, status |-> "pending",
         rev |-> 1, lapsed |-> FALSE, gone |-> gone[p]] \in Invitations
    BY <2>2, Made
  <2>4. e \in Invitations /\ e # None
    BY <2>1, <2>3
  <2>5. e.to = p /\ e.by = by /\ e.gone = gone[p]
    BY <2>1
  <2>6. QED
    BY <2>4, <2>5
<1>7. ASSUME NEW j \in Ids PROVE invitation[j] \in Invitations \cup {None}
  <2>1. CASE invitation = [i \in Ids |-> None]
    BY <2>1
  <2>2. CASE \E i \in Ids, by \in Founders, p \in People \ Founders :
                invitation = [k \in Ids |->
                    IF k = i THEN Invitation(p, "developer", {First}, by) ELSE None]
    <3>1. PICK i \in Ids, by \in Founders, p \in People \ Founders :
              invitation = [k \in Ids |->
                  IF k = i THEN Invitation(p, "developer", {First}, by) ELSE None]
      BY <2>2
    <3>2. Invitation(p, "developer", {First}, by) \in Invitations
      BY <1>6
    <3>3. QED
      BY <3>1, <3>2
  <2>3. QED
    BY ZenonT(60), <1>2, <2>1, <2>2 DEF Invited
<1>8. TypeOK
  <2>1. invitation \in [Ids -> Invitations \cup {None}]
    BY <1>2, <1>7 DEF Invited
  <2>2. /\ member \in [People -> Members \cup {None}]
        /\ account \in [People -> {"none", "plain", "mfa"}]
    BY <1>2, <1>4
  <2>3. session \in [People -> Sessions \cup {None}]
    BY <1>1, <1>5
  <2>4. QED
    BY <1>1, <2>1, <2>2, <2>3 DEF TypeOK
<1>9. LockInv
  BY <1>1 DEF LockInv, Exclusive, Shared, Out
<1>10. RowsInv
  BY <1>1, <1>4 DEF RowsInv
<1>11. OwnersInv
  BY <1>1 DEF OwnersInv, Out, Works
<1>12. VisitorsInv
  BY <1>1 DEF VisitorsInv, Position, Out, Places, Shared
<1>13. OwnerRemains
  <2>1. PICK p \in Founders : p \in People
    OBVIOUS
  <2>2. QED
    BY <1>2, <1>4, <2>1 DEF OwnerRemains, Owners
<1>14. SessionsWithinAccess
  <2>1. \A p \in People : session[p] # None => session[p] = View(p)
    BY <1>1
  <2>2. \A p \in People : View(p).owner = IsOwner(p) /\ View(p).sees = Sees(p)
    BY DEF View
  <2>3. QED
    BY <2>1, <2>2 DEF SessionsWithinAccess
<1>15. EveryProjectHasTeam
  BY <1>1 DEF EveryProjectHasTeam
<1>16. NoLinkFromBefore /\ OnePendingPerPerson
  <2>1. CASE invitation = [i \in Ids |-> None]
    BY <2>1 DEF NoLinkFromBefore, OnePendingPerPerson, Pending
  <2>2. ASSUME NEW i \in Ids, NEW by \in Founders, NEW p \in People \ Founders,
               invitation = [j \in Ids |->
                   IF j = i THEN Invitation(p, "developer", {First}, by) ELSE None]
        PROVE  NoLinkFromBefore /\ OnePendingPerPerson
    <3>1. invitation[i].to = p /\ invitation[i].by = by /\ invitation[i].gone = gone[p]
      BY ZenonT(60), <1>6, <2>2
    <3>2. \A j \in Ids \ {i} : invitation[j] = None
      BY <2>2
    <3>3. account[by] # "none"
      BY <1>2
    <3>4. QED
      BY <3>1, <3>2, <3>3 DEF NoLinkFromBefore, OnePendingPerPerson, Pending
  <2>3. QED
    BY <1>2, <2>1, <2>2 DEF Invited
<1>17. QED
  BY <1>8, <1>9, <1>10, <1>11, <1>12, <1>13, <1>14, <1>15, <1>16 DEF TeamInv

LEMMA StutterKeeps == ASSUME TeamInv, UNCHANGED vars PROVE TeamInv'
<1>1. UNCHANGED <<people, shape, invites, session, owner, visitor, changes>>
  BY DEF vars
<1>2. LockInv'
  BY <1>1 DEF TeamInv, LockInv, Exclusive, Shared
<1>3. QED
  BY <1>1, <1>2, SamePeople, SameInvitations, SameVisitors, SameOwners, SameTypes DEF TeamInv

LEMMA OwnerKeeps ==
    ASSUME TeamInv, NEW r \in OwnerRequests, OwnerStep(r) PROVE TeamInv'
<1>1. CASE \E p \in People :
          \/ Ask(r, p) \/ AskDeleteMember(r, p)
          \/ \E role \in Roles, on \in BOOLEAN, ts \in Choices : AskSaveMember(r, p, role, on, ts)
          \/ \E i \in Ids, role \in Invitable, ts \in Choices : AskInvite(r, i, p, role, ts)
  BY <1>1, AskKeeps, AskDeleteMemberKeeps, AskSaveMemberKeeps, AskInviteKeeps
<1>2. CASE \E t \in Teams, ms \in SUBSET People, xs \in SUBSET Projects : AskSaveTeam(r, t, ms, xs)
  BY <1>2, AskSaveTeamKeeps
<1>3. CASE \E x \in Projects : AskTrash(r, x) \/ AskRestore(r, x)
  BY <1>3, AskTrashKeeps
<1>4. CASE \E i \in Ids : AskReissue(r, i) \/ AskRevoke(r, i)
  BY <1>4, AskReissueKeeps, AskRevokeKeeps
<1>5. CASE SaveMember(r) \/ DeleteMember(r) \/ SaveTeam(r) \/ Trash(r) \/ Restore(r)
  BY <1>5, SaveMemberKeeps, DeleteMemberKeeps, SaveTeamKeeps, TrashKeeps
<1>6. CASE Invite(r) \/ Reissue(r) \/ Revoke(r) \/ Refuse(r)
  BY <1>6, InviteKeeps, ReissueKeeps, RevokeKeeps, RefuseKeeps
<1>7. QED
  BY <1>1, <1>2, <1>3, <1>4, <1>5, <1>6 DEF OwnerStep

LEMMA VisitorKeeps ==
    ASSUME TeamInv, NEW v \in Visitors, VisitorStep(v) PROVE TeamInv'
<1>1. CASE \E i \in Ids : FindToRegister(v, i) \/ \E p \in People : FindToAccept(v, i, p)
  BY <1>1, FindToRegisterKeeps, FindToAcceptKeeps
<1>2. CASE BeginRegistration(v) \/ AskFinish(v) \/ AskAccept(v) \/ Join(v) \/ Leave(v)
  BY <1>2, BeginRegistrationKeeps, JoiningKeeps, JoinKeeps, LeaveKeeps
<1>3. QED
  BY <1>1, <1>2 DEF VisitorStep

LEMMA StepKeeps == ASSUME TeamInv, [Next]_vars PROVE TeamInv'
<1>1. CASE \E p \in People : SignIn(p) \/ SignOut(p)
  BY <1>1, SignInKeeps, SignOutKeeps
<1>2. CASE \E r \in OwnerRequests : OwnerStep(r)
  BY <1>2, OwnerKeeps
<1>3. CASE \E v \in Visitors : VisitorStep(v)
  BY <1>3, VisitorKeeps
<1>4. CASE (\E i \in Ids : Lapse(i)) \/ Purge
  BY <1>4, LapseKeeps, PurgeKeeps
<1>5. CASE UNCHANGED vars
  BY <1>5, StutterKeeps
<1>6. QED
  BY <1>1, <1>2, <1>3, <1>4, <1>5 DEF Next

-----------------------------------------------------------------------------
(* The theorems.                                                           *)

\* The invariant holds of everything that can happen: whoever is between the
\* checks and the writes of a transaction finds the rows as they were checked.
THEOREM Invariance == Spec => []TeamInv
<1>1. Init => TeamInv
  BY InitInv
<1>2. TeamInv /\ [Next]_vars => TeamInv'
  BY StepKeeps
<1>3. QED
  BY <1>1, <1>2, PTL DEF Spec

\* Whatever Owners do to each other at the same time, an active Owner with an
\* account remains, and what is written is written for somebody who is an Owner
\* then (members.ts: the last_owner checks under ownerTransaction's lock).
THEOREM AnOwnerGoverns == Spec => []OwnersGovern
<1>1. TeamInv => OwnersGovern
  <2>1. SUFFICES ASSUME TeamInv PROVE OwnersGovern
    OBVIOUS
  <2>2. ASSUME NEW r \in Exclusive PROVE IsOwner(owner[r].by)
    <3>1. owner[r].at \in Works
      BY <2>1 DEF TeamInv, OwnersInv, Exclusive
    <3>2. QED
      BY <2>1, <3>1 DEF TeamInv, OwnersInv, Exclusive
  <2>3. QED
    BY <2>1, <2>2 DEF OwnersGovern, ChangesByOwners, TeamInv
<1>2. QED
  BY <1>1, Invariance, PTL

\* No session shows more than its person may see now, however sign-ins,
\* registrations and changes of roles and teams overlap (saveMember, saveTeam).
THEOREM SessionsStayWithinAccess == Spec => []SessionsWithinAccess
<1>1. TeamInv => SessionsWithinAccess
  BY DEF TeamInv
<1>2. QED
  BY <1>1, Invariance, PTL

\* Whoever joins does so by the current revision of a pending invitation that
\* nobody else uses (lock() and the second look at the token in service.ts).
THEOREM JoiningIsByCurrentLink == Spec => []JoinsByCurrentLink
<1>1. TeamInv => JoinsByCurrentLink
  BY DEF TeamInv, VisitorsInv, Position, Admitted, JoinsByCurrentLink, Shared
<1>2. QED
  BY <1>1, Invariance, PTL

\* Every project keeps a team, also while it is in the trash (saveTeam).
THEOREM ProjectsKeepTeams == Spec => []EveryProjectHasTeam
<1>1. TeamInv => EveryProjectHasTeam
  BY DEF TeamInv
<1>2. QED
  BY <1>1, Invariance, PTL

\* The unique index on pending invitations never refuses what the checks of
\* create and reissue let through.
THEOREM PendingIsUnique == Spec => []OnePendingPerPerson
<1>1. TeamInv => OnePendingPerPerson
  BY DEF TeamInv
<1>2. QED
  BY <1>1, Invariance, PTL

\* Only what is pending or expired is ever changed.
LEMMA SettledStep ==
    ASSUME TeamInv, [Next]_vars, NEW i \in Ids, invitation[i] # None,
           invitation[i].status \in {"revoked", "accepted"}
    PROVE  invitation'[i] = None \/ invitation'[i].status = invitation[i].status
<1>1. CASE invitation' = invitation
  BY <1>1
<1>2. ~Pending(i) /\ ~Usable(i) /\ ~Changeable(i)
  BY DEF Pending, Usable, Changeable
<1>3. ASSUME NEW r \in OwnerRequests, OwnerStep(r), invitation' # invitation
      PROVE  \/ DeleteMember(r) /\ owner[r].at = "deleteMember"
             \/ Invite(r) /\ owner[r].at = "invite"
             \/ Reissue(r) /\ owner[r].at = "reissue"
             \/ Revoke(r) /\ owner[r].at = "revoke"
  BY ZenonT(60), <1>3 DEF OwnerStep, Ask, AskDeleteMember, AskSaveMember, AskInvite, AskSaveTeam, AskTrash,
              AskRestore, AskReissue, AskRevoke, Begin, SaveMember, SaveTeam, Trash, Restore,
              Refuse, DeleteMember, Invite, Reissue, Revoke, Commits
<1>4. ASSUME NEW r \in OwnerRequests, OwnerStep(r), invitation' # invitation
      PROVE  invitation'[i] = None \/ invitation'[i].status = invitation[i].status
  <2>1. Checked(r)
    BY <1>3, <1>4 DEF TeamInv, OwnersInv, Works
  <2>2. CASE DeleteMember(r)
    BY <2>2 DEF DeleteMember
  <2>3. CASE Invite(r) /\ owner[r].at = "invite"
    BY <1>2, <2>1, <2>3 DEF Invite, Expire, Checked
  <2>4. CASE Reissue(r) /\ owner[r].at = "reissue"
    <3>1. owner[r].op.id # i
      BY <1>2, <2>1, <2>4 DEF Checked
    <3>2. QED
      BY <1>2, <2>4, <3>1 DEF Reissue, Expire
  <2>5. CASE Revoke(r) /\ owner[r].at = "revoke"
    <3>1. owner[r].op.id # i
      BY <1>2, <2>1, <2>5 DEF Checked
    <3>2. QED
      BY <2>5, <3>1 DEF Revoke, TeamInv, TypeOK
  <2>6. QED
    BY <1>3, <1>4, <2>2, <2>3, <2>4, <2>5
<1>5. ASSUME NEW v \in Visitors, VisitorStep(v), invitation' # invitation
      PROVE  invitation'[i] = None \/ invitation'[i].status = invitation[i].status
  <2>1. Join(v) /\ visitor[v].at = "joining"
    BY <1>5 DEF VisitorStep, FindToRegister, FindToAccept, BeginRegistration, AskFinish, AskAccept,
                Leave, Join
  <2>2. visitor[v].id # i
    BY <1>2, <2>1 DEF TeamInv, VisitorsInv, Position, Admitted
  <2>3. QED
    BY <2>1, <2>2 DEF Join, TeamInv, TypeOK
<1>6. ASSUME NEW j \in Ids, Lapse(j), invitation' # invitation
      PROVE  invitation'[i] = invitation[i]
  BY <1>2, <1>6 DEF Lapse, TeamInv, TypeOK
<1>7. ASSUME Purge PROVE invitation'[i] = invitation[i]
  BY <1>2, <1>7 DEF Purge
<1>8. CASE (\E p \in People : SignIn(p) \/ SignOut(p)) \/ UNCHANGED vars
  BY <1>1, <1>8 DEF SignIn, SignOut, vars
<1>9. QED
  BY <1>1, <1>4, <1>5, <1>6, <1>7, <1>8 DEF Next

\* An invitation that was revoked or accepted stays so until it is deleted.
THEOREM InvitationsStaySettled == Spec => SettledStays
<1>1. TeamInv /\ [Next]_vars =>
          \A i \in Ids :
              invitation[i] # None /\ invitation[i].status \in {"revoked", "accepted"} =>
                  invitation'[i] = None \/ invitation'[i].status = invitation[i].status
  BY SettledStep
<1>2. QED
  BY <1>1, Invariance, PTL DEF Spec, SettledStays

==============================================================================
