--------------------------------- MODULE Team ---------------------------------
(***************************************************************************)
(* Members, teams and invitations of the workspace (apps/web/src/server:   *)
(* members.ts, invitations/service.ts, owner-transaction.ts, access.ts and *)
(* what projects.ts does to the links between projects and teams).         *)
(*                                                                         *)
(* Every change by an Owner is one transaction that holds the workspace    *)
(* row FOR UPDATE; accepting an invitation holds it FOR SHARE, and the     *)
(* invitation FOR UPDATE.  Each transaction has two steps here, the one    *)
(* that takes its locks and checks, and the one that writes, so that what  *)
(* the locks exclude is a guard and not the shape of the model.  What is   *)
(* read before the transaction (the Owner's session, the visitor's link)   *)
(* is a step of its own.  A person is an e-mail address and a token the    *)
(* invitation and revision it was issued for.  Of the roles, the viewer    *)
(* is left out: the code here tells only Owners apart.                     *)
(***************************************************************************)
EXTENDS Integers, FiniteSets

CONSTANTS
    People,
    Founders,       \* Owners at the beginning
    Teams, Projects,
    First,          \* the team that exists at the beginning
    Ids,            \* invitation ids
    OwnerRequests, Visitors,
    Choices,        \* bound of the model: the sets of teams given to a person
    MaxChanges,     \* bound of the model: changes made by Owners, and sign-outs
    None

Roles == {"owner", "developer"}
\* Nobody is invited as an Owner (invitations/schemas.ts).
Invitable == Roles \ {"owner"}

Members == [role : Roles, active : BOOLEAN, teams : SUBSET Teams]
Sessions == [owner : BOOLEAN, sees : SUBSET Projects]
Invitations ==
    [to : People, role : Invitable, teams : SUBSET Teams, by : People,
     status : {"pending", "expired", "revoked", "accepted"},
     rev : Nat, lapsed : BOOLEAN, gone : Nat]
Enrollments == [rev : Nat, by : Visitors, lapsed : BOOLEAN]

ASSUME TeamAssumption ==
    /\ Founders \subseteq People /\ Founders # {}
    /\ First \in Teams
    /\ IsFiniteSet(People)
    /\ Choices \subseteq SUBSET Teams
    /\ MaxChanges \in Nat
    /\ None \notin People \cup Members \cup Sessions \cup Invitations \cup Enrollments

VARIABLES
    account,        \* user rows: "none", "plain" (no second factor) or "mfa"
    member,         \* member and team_member rows
    teams,          \* team rows
    link,           \* project_team rows: the teams of a project
    trashed,        \* projects with deletedAt
    invitation,     \* invitation rows
    enrollment,     \* invitation_enrollment rows, one per invitation
    session,        \* what a person could see when the session was opened
    owner,          \* requests of Owners
    visitor,        \* requests that register or accept
    changes,        \* how many of those were made
    gone            \* how often each person was deleted

shape == <<teams, link, trashed>>
invites == <<invitation, enrollment>>
people == <<account, member, gone>>
vars == <<people, shape, invites, session, owner, visitor, changes>>

Membership(role, on, ts) == [role |-> role, active |-> on, teams |-> ts]
Out == [at |-> "out", by |-> None, live |-> FALSE]
At(place, by) == [at |-> place, by |-> by, live |-> TRUE]

IsOwner(p) == member[p] # None /\ member[p].role = "owner" /\ member[p].active
Owners == {p \in People : IsOwner(p)}

\* projectScope, with the projects in the trash: they may come back.
Sees(p) ==
    IF member[p] = None \/ ~member[p].active THEN {}
    ELSE IF IsOwner(p) THEN Projects
    ELSE {x \in Projects : link[x] \cap member[p].teams # {}}

\* What a session opened now shows.
View(p) == [owner |-> IsOwner(p), sees |-> Sees(p)]

Pending(i) == invitation[i] # None /\ invitation[i].status = "pending"
Usable(i) == Pending(i) /\ ~invitation[i].lapsed

Invitation(p, role, ts, by) ==
    [to |-> p, role |-> role, teams |-> ts, by |-> by, status |-> "pending",
     rev |-> 1, lapsed |-> FALSE, gone |-> gone[p]]

\* A person who was invited before the model begins, or nobody.
Invited(others) ==
    \/ invitation = [i \in Ids |-> None]
    \/ \E i \in Ids, by \in Founders, p \in People \ Founders :
          /\ others # "plain"
          /\ invitation = [j \in Ids |->
                 IF j = i THEN Invitation(p, "developer", {First}, by) ELSE None]

\* Beside the Owners there is at most one more person: unknown, known without
\* a membership, or a member from before the second factor was required.
Init ==
    /\ gone = [p \in People |-> 0]
    /\ \E others \in {"none", "mfa", "plain"} :
          /\ account = [p \in People |-> IF p \in Founders THEN "mfa" ELSE others]
          /\ member = [p \in People |->
                 IF p \in Founders THEN Membership("owner", TRUE, {First})
                 ELSE IF others = "plain" THEN Membership("developer", TRUE, {First})
                 ELSE None]
          /\ Invited(others)
    /\ teams = {First}
    /\ link = [x \in Projects |-> {First}]
    /\ trashed = {}
    /\ enrollment = [i \in Ids |-> None]
    /\ session = [p \in People |->
           IF account[p] = "mfa" THEN View(p) ELSE None]
    /\ owner = [r \in OwnerRequests |-> Out]
    /\ visitor = [v \in Visitors |-> Out]
    /\ changes = 0

-----------------------------------------------------------------------------
(* Locks.                                                                  *)

\* The requests that hold the workspace row FOR UPDATE, and FOR SHARE.
Exclusive == {r \in OwnerRequests : owner[r].at \notin {"out", "asked"}}
Shared == {v \in Visitors : visitor[v].at = "joining"}

\* Mutant: ownerTransaction does not lock the workspace.
MutLockWorkspace == TRUE

LockWorkspace == Exclusive = {} /\ Shared = {}

ShareWorkspace == Exclusive = {}

\* lock() of invitations/service.ts, for a link that is still good.
Lock(i) ==
    /\ ShareWorkspace
    /\ \A v \in Shared : visitor[v].id # i
    /\ Usable(i)

\* Requests under way count as the changes they may make.
Budget == changes + Cardinality({r \in OwnerRequests : owner[r].at # "out"}) < MaxChanges

-----------------------------------------------------------------------------
(* Sessions.                                                               *)

\* External: login shares the workspace row while it opens a session.
SignIn(p) ==
    /\ account[p] = "mfa" /\ session[p] = None /\ Exclusive = {}
    /\ session' = [session EXCEPT ![p] = View(p)]
    /\ UNCHANGED <<people, shape, invites, owner, visitor, changes>>

\* Requests that hold a session of these people lose it.
Cut(requests, P) ==
    [r \in DOMAIN requests |->
        IF requests[r].by \in P THEN [requests[r] EXCEPT !.live = FALSE]
        ELSE requests[r]]

\* session.deleteMany of these people, at the end of the request r.
DropSessions(P, r) ==
    /\ session' = [p \in People |-> IF p \in P THEN None ELSE session[p]]
    /\ owner' = [Cut(owner, P) EXCEPT ![r] = Out]
    /\ visitor' = Cut(visitor, P)

\* Sign-out, or the end of a session for whatever reason.
SignOut(p) ==
    /\ session[p] # None
    /\ Budget
    /\ changes' = changes + 1
    /\ session' = [session EXCEPT ![p] = None]
    /\ owner' = Cut(owner, {p})
    /\ visitor' = Cut(visitor, {p})
    /\ UNCHANGED <<people, shape, invites>>

-----------------------------------------------------------------------------
(* Transactions of an Owner.                                               *)

\* authorize(), before the transaction.
Ask(r, p) ==
    /\ owner[r].at = "out"
    /\ Budget
    /\ session[p] # None /\ IsOwner(p)
    /\ owner' = [owner EXCEPT ![r] = At("asked", p)]
    /\ UNCHANGED <<people, shape, invites, session, visitor, changes>>

StillOwner(r) == IsOwner(owner[r].by) /\ owner[r].live

\* The beginning of every transaction: op is what it is going to write.
Begin(r, op) ==
    /\ owner[r].at = "asked"
    /\ LockWorkspace
    /\ StillOwner(r)
    /\ owner' = [owner EXCEPT ![r] = [at |-> op.do, op |-> op, by |-> @.by, live |-> @.live]]
    /\ UNCHANGED <<people, shape, invites, session, visitor, changes>>

\* A request that fails a check changes nothing.
Refuse(r) ==
    /\ owner[r].at = "asked"
    /\ owner' = [owner EXCEPT ![r] = Out]
    /\ UNCHANGED <<people, shape, invites, session, visitor, changes>>

Commits(r, do) == owner[r].at = do /\ changes' = changes + 1
Ends(r) == owner' = [owner EXCEPT ![r] = Out]

AskSaveMember(r, p, role, on, ts) ==
    /\ member[p] # None
    /\ ts \subseteq teams
    /\ IsOwner(p) /\ (role # "owner" \/ ~on) => Cardinality(Owners) > 1
    /\ role = "owner" /\ on => account[p] = "mfa"
    /\ Begin(r, [do |-> "saveMember", who |-> p, new |-> Membership(role, on, ts)])

SaveMember(r) ==
    LET op == owner[r].op IN
    /\ Commits(r, "saveMember")
    /\ member' = [member EXCEPT ![op.who] = op.new]
    /\ DropSessions({op.who}, r)
    /\ UNCHANGED <<account, gone, shape, invites>>

AskDeleteMember(r, p) ==
    /\ member[p] # None /\ p # owner[r].by
    /\ \E q \in Owners \ {p} : account[q] = "mfa"
    /\ Begin(r, [do |-> "deleteMember", who |-> p])

\* Invitations to the person and by the person.
Of(i, p) == invitation[i].to = p \/ invitation[i].by = p

\* The user row is deleted, and with it the membership and the sessions.
DeleteMember(r) ==
    LET p == owner[r].op.who
        lost == {i \in Ids : invitation[i] # None /\ Of(i, p)} IN
    /\ Commits(r, "deleteMember")
    /\ account' = [account EXCEPT ![p] = "none"]
    /\ member' = [member EXCEPT ![p] = None]
    /\ gone' = [gone EXCEPT ![p] = @ + 1]
    /\ invitation' = [i \in Ids |-> IF i \in lost THEN None ELSE invitation[i]]
    /\ enrollment' = [i \in Ids |-> IF i \in lost THEN None ELSE enrollment[i]]
    /\ DropSessions({p}, r)
    /\ UNCHANGED shape

InTeam(t) == {p \in People : member[p] # None /\ t \in member[p].teams}

\* saveTeam checks the members and the projects, and on an update that no
\* project is left without a team.
AskSaveTeam(r, t, ms, xs) ==
    /\ \A p \in ms : member[p] # None
    /\ xs \cap trashed = {}
    /\ t \in teams => \A x \in Projects \ (trashed \cup xs) :
                          t \in link[x] => link[x] # {t}
    /\ Begin(r, [do |-> "saveTeam", team |-> t, members |-> ms, projects |-> xs])

\* Mutant: only the new members lose their sessions.
MutAffected(t, ms) == {p \in ms : ~IsOwner(p)}

Affected(t, ms) == {p \in ms \cup InTeam(t) : ~IsOwner(p)}

\* The links of projects in the trash stay.
Relink(t, xs) ==
    [x \in Projects |-> IF x \in xs THEN link[x] \cup {t}
                        ELSE IF x \in trashed THEN link[x] ELSE link[x] \ {t}]

SaveTeam(r) ==
    LET op == owner[r].op
        t == op.team IN
    /\ Commits(r, "saveTeam")
    /\ teams' = teams \cup {t}
    /\ member' = [p \in People |->
           IF p \in op.members THEN [member[p] EXCEPT !.teams = @ \cup {t}]
           ELSE IF p \in InTeam(t) THEN [member[p] EXCEPT !.teams = @ \ {t}]
           ELSE member[p]]
    /\ link' = Relink(t, op.projects)
    /\ DropSessions(IF t \in teams THEN Affected(t, op.members) ELSE {}, r)
    /\ UNCHANGED <<account, gone, trashed, invites>>

AskTrash(r, x) ==
    /\ x \notin trashed
    /\ Begin(r, [do |-> "trash", project |-> x])

AskRestore(r, x) ==
    /\ x \in trashed
    /\ Begin(r, [do |-> "restore", project |-> x])

\* deleteProject and restoreProject: the links stay.
Trash(r) ==
    /\ Commits(r, "trash") /\ Ends(r)
    /\ trashed' = trashed \cup {owner[r].op.project}
    /\ UNCHANGED <<people, teams, link, invites, session, visitor>>

Restore(r) ==
    /\ Commits(r, "restore") /\ Ends(r)
    /\ trashed' = trashed \ {owner[r].op.project}
    /\ UNCHANGED <<people, teams, link, invites, session, visitor>>

-----------------------------------------------------------------------------
(* Invitations.                                                            *)

\* Invitations to the same person that ran out are marked before another one
\* becomes pending.
Expire(p, i, new) ==
    [j \in Ids |->
        IF j = i THEN new
        ELSE IF Pending(j) /\ invitation[j].to = p /\ invitation[j].lapsed
             THEN [invitation[j] EXCEPT !.status = "expired"]
        ELSE invitation[j]]

AskInvite(r, i, p, role, ts) ==
    /\ invitation[i] = None
    /\ ts # {} /\ ts \subseteq teams
    /\ member[p] = None
    /\ \A j \in Ids : Usable(j) => invitation[j].to # p
    /\ Begin(r, [do |-> "invite", id |-> i,
                 new |-> Invitation(p, role, ts, owner[r].by)])

Invite(r) ==
    LET op == owner[r].op IN
    /\ Commits(r, "invite") /\ Ends(r)
    /\ invitation' = Expire(op.new.to, op.id, op.new)
    /\ UNCHANGED <<people, shape, enrollment, session, visitor>>

Changeable(i) ==
    invitation[i] # None /\ invitation[i].status \in {"pending", "expired"}

Alone(i) ==
    /\ member[invitation[i].to] = None
    /\ \A j \in Ids \ {i} : Usable(j) => invitation[j].to # invitation[i].to

AskReissue(r, i) ==
    /\ Changeable(i) /\ Alone(i)
    /\ Begin(r, [do |-> "reissue", id |-> i])

AskRevoke(r, i) ==
    /\ Changeable(i)
    /\ Begin(r, [do |-> "revoke", id |-> i])

\* change(): a new revision, and nobody's enrollment is kept.
Reissue(r) ==
    LET i == owner[r].op.id IN
    /\ Commits(r, "reissue") /\ Ends(r)
    /\ enrollment' = [enrollment EXCEPT ![i] = None]
    /\ invitation' = Expire(invitation[i].to, i,
           [invitation[i] EXCEPT !.rev = @ + 1, !.status = "pending", !.lapsed = FALSE])
    /\ UNCHANGED <<people, shape, session, visitor>>

Revoke(r) ==
    LET i == owner[r].op.id IN
    /\ Commits(r, "revoke") /\ Ends(r)
    /\ enrollment' = [enrollment EXCEPT ![i] = None]
    /\ invitation' = [invitation EXCEPT ![i].rev = @ + 1, ![i].status = "revoked",
                                        ![i].lapsed = FALSE]
    /\ UNCHANGED <<people, shape, session, visitor>>

-----------------------------------------------------------------------------
(* Visitors with a link.                                                   *)

Visit(v, new) ==
    /\ visitor' = [visitor EXCEPT ![v] = new]
    /\ UNCHANGED <<shape, owner, changes>>

Holding(place, by, i, rev) ==
    [at |-> place, by |-> by, live |-> TRUE, id |-> i, rev |-> rev]

\* find(): the link is looked up before any transaction, to register ...
FindToRegister(v, i) ==
    /\ visitor[v].at = "out"
    /\ Usable(i) /\ account[invitation[i].to] = "none"
    /\ Visit(v, Holding("registering", None, i, invitation[i].rev))
    /\ UNCHANGED <<people, invites, session>>

\* ... or to accept with the account that is signed in.
FindToAccept(v, i, p) ==
    /\ visitor[v].at = "out"
    /\ Usable(i) /\ session[p] # None
    /\ Visit(v, Holding("accepting", p, i, invitation[i].rev))
    /\ UNCHANGED <<people, invites, session>>

\* Mutant: the token is not compared with the row again.
MutCurrent(v) == TRUE

Current(v) == invitation[visitor[v].id].rev = visitor[v].rev

\* beginRegistration's transaction replaces the enrollment of the invitation.
BeginRegistration(v) ==
    LET i == visitor[v].id IN
    /\ visitor[v].at = "registering"
    /\ Lock(i) /\ Current(v)
    /\ account[invitation[i].to] = "none"
    /\ enrollment' = [enrollment EXCEPT ![i] =
           [rev |-> invitation[i].rev, by |-> v, lapsed |-> FALSE]]
    /\ Visit(v, [visitor[v] EXCEPT !.at = "enrolled"])
    /\ UNCHANGED <<people, invitation, session>>

\* enrollment(): the visitor's own, not expired, of the current revision.
Enrolled(v) ==
    LET i == visitor[v].id IN
    /\ enrollment[i] # None
    /\ enrollment[i].by = v /\ ~enrollment[i].lapsed
    /\ Usable(i) /\ enrollment[i].rev = invitation[i].rev

\* finishRegistration up to the check of the code; join()'s checks.
AskFinish(v) ==
    LET i == visitor[v].id IN
    /\ visitor[v].at = "enrolled"
    /\ Lock(i) /\ Enrolled(v)
    /\ account[invitation[i].to] = "none" /\ member[invitation[i].to] = None
    /\ invitation[i].teams \subseteq teams
    /\ Visit(v, [visitor[v] EXCEPT !.at = "joining"])
    /\ UNCHANGED <<people, invites, session>>

\* accept up to the writes.
AskAccept(v) ==
    LET i == visitor[v].id IN
    /\ visitor[v].at = "accepting"
    /\ Lock(i) /\ Current(v)
    /\ invitation[i].to = visitor[v].by /\ visitor[v].live
    /\ member[invitation[i].to] = None
    /\ invitation[i].teams \subseteq teams
    /\ Visit(v, [visitor[v] EXCEPT !.at = "joining"])
    /\ UNCHANGED <<people, invites, session>>

\* join() and, after a registration, the new account and its session.
Join(v) ==
    LET i == visitor[v].id
        p == invitation[i].to
        m == Membership(invitation[i].role, TRUE, invitation[i].teams) IN
    /\ visitor[v].at = "joining"
    /\ member' = [member EXCEPT ![p] = m]
    /\ invitation' = [invitation EXCEPT ![i].status = "accepted"]
    /\ enrollment' = [enrollment EXCEPT ![i] = None]
    /\ IF visitor[v].by = None
       THEN /\ account' = [account EXCEPT ![p] = "mfa"]
            /\ session' = [session EXCEPT ![p] =
                   [owner |-> FALSE,
                    sees |-> {x \in Projects : link[x] \cap m.teams # {}}]]
       ELSE UNCHANGED <<account, session>>
    /\ Visit(v, Out)
    /\ UNCHANGED gone

\* A visitor that is refused, or never comes back.
Leave(v) ==
    /\ visitor[v].at # "out"
    /\ Visit(v, Out)
    /\ UNCHANGED <<people, invites, session>>

\* Time passes: an invitation or an enrollment runs out.
Lapse(i) ==
    /\ \/ /\ Usable(i)
          /\ invitation' = [invitation EXCEPT ![i].lapsed = TRUE]
          /\ UNCHANGED enrollment
       \/ /\ enrollment[i] # None /\ ~enrollment[i].lapsed
          /\ enrollment' = [enrollment EXCEPT ![i].lapsed = TRUE]
          /\ UNCHANGED invitation
    /\ UNCHANGED <<people, shape, session, owner, visitor, changes>>

\* purge_expired_auth_batch, which skips rows that are locked.
Purge ==
    LET free == {i \in Ids : \A v \in Shared : visitor[v].id # i} IN
    /\ invitation' = [i \in Ids |->
           IF i \in free /\ Pending(i) /\ invitation[i].lapsed
           THEN [invitation[i] EXCEPT !.status = "expired"] ELSE invitation[i]]
    /\ enrollment' = [i \in Ids |->
           IF i \in free /\ enrollment[i] # None /\ enrollment[i].lapsed
           THEN None ELSE enrollment[i]]
    /\ UNCHANGED <<people, shape, session, owner, visitor, changes>>

OwnerStep(r) ==
    \/ \E p \in People :
          \/ Ask(r, p) \/ AskDeleteMember(r, p)
          \/ \E role \in Roles, on \in BOOLEAN, ts \in Choices :
                AskSaveMember(r, p, role, on, ts)
          \/ \E i \in Ids, role \in Invitable, ts \in Choices :
                AskInvite(r, i, p, role, ts)
    \/ \E t \in Teams, ms \in SUBSET People, xs \in SUBSET Projects :
          AskSaveTeam(r, t, ms, xs)
    \/ \E x \in Projects : AskTrash(r, x) \/ AskRestore(r, x)
    \/ \E i \in Ids : AskReissue(r, i) \/ AskRevoke(r, i)
    \/ SaveMember(r) \/ DeleteMember(r) \/ SaveTeam(r) \/ Trash(r) \/ Restore(r)
    \/ Invite(r) \/ Reissue(r) \/ Revoke(r) \/ Refuse(r)

VisitorStep(v) ==
    \/ \E i \in Ids :
          \/ FindToRegister(v, i)
          \/ \E p \in People : FindToAccept(v, i, p)
    \/ BeginRegistration(v) \/ AskFinish(v) \/ AskAccept(v) \/ Join(v) \/ Leave(v)

Next ==
    \/ \E p \in People : SignIn(p) \/ SignOut(p)
    \/ \E r \in OwnerRequests : OwnerStep(r)
    \/ \E v \in Visitors : VisitorStep(v)
    \/ \E i \in Ids : Lapse(i)
    \/ Purge

Spec == Init /\ [][Next]_vars

-----------------------------------------------------------------------------
(* Properties.                                                             *)

\* Every variable keeps its type.
TypeOK ==
    /\ account \in [People -> {"none", "plain", "mfa"}]
    /\ member \in [People -> Members \cup {None}]
    /\ session \in [People -> Sessions \cup {None}]
    /\ teams \subseteq Teams
    /\ link \in [Projects -> SUBSET Teams]
    /\ trashed \subseteq Projects
    /\ invitation \in [Ids -> Invitations \cup {None}]
    /\ enrollment \in [Ids -> Enrollments \cup {None}]
    /\ changes \in Nat
    /\ gone \in [People -> Nat]

\* The workspace always has an active Owner whose account exists, although two
\* Owners may remove or demote each other, or themselves, at the same time
\* (the last_owner checks of members.ts under the lock of ownerTransaction).
OwnerRemains == \E p \in Owners : account[p] # "none"

\* An Owner's change is written for somebody who still is an Owner when it is
\* written: no demotion, deletion or sign-out came between (ownerTransaction).
ChangesByOwners ==
    \A r \in Exclusive : IsOwner(owner[r].by)

\* The workspace is governed by its Owners, and never left without one.
OwnersGovern == OwnerRemains /\ ChangesByOwners

\* Nothing is seen through a session that its person may not see now: changes of
\* roles, of teams and of the projects of a team sign out whom they concern, and
\* no sign-in or registration that overlaps them keeps the old access
\* (saveMember, saveTeam, the FOR SHARE lock of login and of lock()).
SessionsWithinAccess ==
    \A p \in People : session[p] # None =>
        /\ session[p].owner => IsOwner(p)
        /\ session[p].sees \subseteq Sees(p)

\* A project keeps a team through every change of teams, also while it is in the
\* trash and may be restored (saveTeam).
EveryProjectHasTeam == \A x \in Projects : link[x] # {}

\* After a person was deleted no link from before admits anybody: neither one to
\* the person nor one issued by the person is left (deleteMember's comment).
NoLinkFromBefore ==
    \A i \in Ids : invitation[i] # None =>
        /\ invitation[i].gone = gone[invitation[i].to]
        /\ account[invitation[i].by] # "none"

\* Whoever is joining does so by the link that is current: the invitation was not
\* revoked, reissued, accepted or deleted since, nobody else is using it, and it
\* is of the present life of the account it invites
\* (lock(), the repeated look at the token, enrollment()'s revision).
JoinsByCurrentLink ==
    /\ NoLinkFromBefore
    /\ \A v \in Shared :
          LET i == visitor[v].id IN
          /\ Pending(i)
          /\ invitation[i].rev = visitor[v].rev
          /\ member[invitation[i].to] = None
          /\ \A w \in Shared \ {v} : visitor[w].id # i

\* At most one invitation to an address is pending, as the unique index demands:
\* no create or reissue is refused by the database after its own checks passed.
OnePendingPerPerson ==
    \A i, j \in Ids :
        Pending(i) /\ Pending(j) /\ invitation[i].to = invitation[j].to => i = j

\* An invitation that was revoked or accepted stays so until it is deleted.
SettledStays ==
    [][\A i \in Ids :
          invitation[i] # None /\ invitation[i].status \in {"revoked", "accepted"} =>
              invitation'[i] = None \/ invitation'[i].status = invitation[i].status]_vars

=============================================================================
