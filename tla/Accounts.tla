------------------------------- MODULE Accounts -------------------------------
(***************************************************************************)
(* Accounts of the dashboard (apps/web/src/server/auth-service.ts, mfa.ts, *)
(* crypto.ts, identity.ts): the one-time setup of an installation, sign-in *)
(* with a password and a second factor, enrollment of accounts that have   *)
(* none, sessions and their renewed proof, the rate limit of attempts, and *)
(* the retention job that deletes what expired (purge_expired_auth_batch). *)
(*                                                                         *)
(* Requests are HTTP requests and Browsers visitors of the setup page; each*)
(* keeps what it read before its transaction began.  A transaction is      *)
(* split only where no lock of the code makes it one step.  One unit of    *)
(* time is one period of the authenticator, 30 seconds.  A secret is the   *)
(* request or preparation that generated it, a code a secret and a period, *)
(* so two periods never share six digits; passwords are right or wrong.    *)
(* Audit rows are left out.                                                *)
(***************************************************************************)
EXTENDS Integers, FiniteSets

CONSTANTS
    Requests,       \* each performs at most one operation
    Browsers,       \* each could become the Owner of the installation
    Veterans,       \* accounts of an upgraded installation with a factor
    Legacies,       \* ... and without one
    Ips,
    IpOf,           \* [Requests \cup Browsers -> Ips]
    RecoveryCodes,  \* ten codes per account in the code
    SetupTTL,       \* 15 minutes: a setup session, a pending secret
    BootstrapTTL,
    FreshTTL,       \* 5 minutes: a proof recent enough for an Owner's change
    IdleTTL,        \* 30 minutes
    TouchAfter,     \* 60 seconds between two updates of lastSeenAt
    SessionTTL,     \* 8 hours
    RateWindow,     \* 5 minutes
    RateLimit,      \* 10 attempts
    MaxNow,         \* bound of the model: periods
    MaxPrepares,    \* bound of the model: preparations by one browser
    MaxEra,         \* bound of the model: changes of a membership
    None

ASSUME AccountsAssumption ==
    /\ None \notin Requests \cup Browsers
    /\ Browsers \cap (Veterans \cup Legacies) = {} /\ Veterans \cap Legacies = {}
    /\ IpOf \in [Requests \cup Browsers -> Ips]
    /\ {SetupTTL, BootstrapTTL, FreshTTL, IdleTTL, TouchAfter, SessionTTL,
        RateLimit, MaxNow, MaxPrepares, MaxEra} \subseteq Nat
    /\ RateWindow \in Nat \ {0}

Users == Browsers \cup Veterans \cup Legacies
Times == 0..MaxNow
Steps == 0..(MaxNow + 1)
Secrets == Requests \cup (Browsers \X (1..MaxPrepares)) \cup Veterans

VARIABLES
    now,
    installed,      \* the system_setting row exists
    bootstrap,      \* bootstrap_token: its expiry, None when deleted
    setup,          \* setup_session rows
    visit,          \* where each browser is in the setup
    setupLock,      \* the browser whose transaction holds the bootstrap row
    account,        \* user rows: exists, mfa (twoFactorEnabled), member (active)
    pending,        \* mfa_credential rows, state pending
    active,         \* mfa_credential rows, state active
    recovery,       \* unused recovery codes
    sessions,       \* session rows, by the request that created them
    req,            \* what each request has done and read so far
    hits,           \* auth_rate_bucket rows
    \* bookkeeping
    accepted,       \* one-time codes that were accepted, and by whom
    spent,          \* recovery codes that were accepted
    activated,      \* browsers that were told the setup is complete
    era,            \* number of changes made to each membership
    passed          \* the window, action and account each request was counted in

setupVars == <<installed, bootstrap, setup, visit, setupLock, activated>>
factors == <<account, pending, active, recovery, accepted, spent>>
vars == <<now, setupVars, factors, sessions, req, hits, era, passed>>

NoAccount == [exists |-> FALSE, mfa |-> FALSE, member |-> FALSE]
Idle == [at |-> "idle", op |-> None, user |-> None, session |-> None,
         fresh |-> FALSE, era |-> 0]

Init ==
    /\ now = 0
    /\ installed \in BOOLEAN
    /\ bootstrap = IF installed THEN None ELSE BootstrapTTL
    /\ setup = [b \in Browsers |-> None]
    /\ visit = [b \in Browsers |-> [at |-> "out", secret |-> None]]
    /\ setupLock = None
    /\ account = [u \in Users |->
           IF installed /\ u \notin Browsers
           THEN [exists |-> TRUE, mfa |-> u \in Veterans, member |-> TRUE]
           ELSE NoAccount]
    /\ pending = [u \in Users |-> None]
    /\ active = [u \in Users |->
           IF installed /\ u \in Veterans THEN [secret |-> u, last |-> -1] ELSE None]
    /\ recovery = [u \in Users |->
           IF installed /\ u \in Veterans THEN RecoveryCodes ELSE {}]
    /\ sessions = [r \in Requests |-> None]
    /\ req = [r \in Requests |-> Idle]
    /\ hits = [b \in {} |-> 0]
    /\ accepted = {}
    /\ spent = {}
    /\ activated = {}
    /\ era = [u \in Users |-> 0]
    /\ passed = [r \in Requests |-> None]

-----------------------------------------------------------------------------
(* The rate limit: two buckets per attempt, both counted, either blocks.   *)

Window == now \div RateWindow

Buckets(action, who, ip) ==
    {[win |-> Window, act |-> action, on |-> x] : x \in {who, ip}}

Hits(b) == IF b \in DOMAIN hits THEN hits[b] ELSE 0

\* Counts saturate one above the limit, which is all the code compares.
Counted(bs) ==
    [b \in DOMAIN hits \cup bs |->
        IF b \in bs /\ Hits(b) <= RateLimit THEN Hits(b) + 1 ELSE Hits(b)]

Blocked(bs) == \E b \in bs : Counted(bs)[b] > RateLimit

\* Mutant: a bucket expires with the beginning of its window.
MutBucketExpiry(b) == b.win * RateWindow

BucketExpiry(b) == (b.win + 2) * RateWindow

-----------------------------------------------------------------------------
(* Second factors.                                                         *)

Codes == [secret : Secrets, step : Steps]

\* Mutant: the last used period is accepted again.
MutVerifies(code, secret, last) ==
    /\ code.secret = secret
    /\ code.step \in (now - 1)..(now + 1)
    /\ code.step >= last

\* verifyTotp: the period before, this one or the next, later than the last used.
Verifies(code, secret, last) ==
    /\ code.secret = secret
    /\ code.step \in (now - 1)..(now + 1)
    /\ code.step > last

Acceptance(u, step, by, session) ==
    [user |-> u, step |-> step, by |-> by, session |-> session, at |-> now]

\* consumeFactor with a one-time code.
ConsumeCode(u, code, r, session) ==
    /\ active[u] # None
    /\ Verifies(code, active[u].secret, active[u].last)
    /\ active' = [active EXCEPT ![u].last = code.step]
    /\ accepted' = accepted \cup {Acceptance(u, code.step, r, session)}
    /\ UNCHANGED <<recovery, spent>>

\* consumeFactor with a recovery code.
ConsumeRecovery(u, code, r) ==
    /\ active[u] # None
    /\ code \in recovery[u]
    /\ recovery' = [recovery EXCEPT ![u] = @ \ {code}]
    /\ spent' = spent \cup {[user |-> u, code |-> code, by |-> r]}
    /\ UNCHANGED <<active, accepted>>

\* A new credential becomes active together with fresh recovery codes.
Activate(u, secret, code, by) ==
    /\ active' = [active EXCEPT ![u] = [secret |-> secret, last |-> code.step]]
    /\ pending' = [pending EXCEPT ![u] = None]
    /\ recovery' = [recovery EXCEPT ![u] = RecoveryCodes]
    /\ accepted' = accepted \cup {Acceptance(u, code.step, by, None)}
    /\ UNCHANGED spent

-----------------------------------------------------------------------------
(* Setup.                                                                  *)

SetupLive(b) == setup[b] # None /\ now < setup[b].exp /\ ~installed

\* A session whose secret and password were prepared.
Prepared(b) == SetupLive(b) /\ setup[b].prepared > 0

Goes(b, place) == visit' = [visit EXCEPT ![b] = [at |-> place, secret |-> None]]

\* A call of the setup API is counted first; a blocked one changes nothing else.
SetupAttempt(b, action, who, next) ==
    LET bs == Buckets(action, who, IpOf[b]) IN
    /\ hits' = Counted(bs)
    /\ IF Blocked(bs) THEN UNCHANGED visit ELSE Goes(b, next)
    /\ UNCHANGED <<now, installed, bootstrap, setup, setupLock, activated,
                   factors, sessions, req, era, passed>>

\* setupAccess: the token and the absence of an installation are read (a refused
\* attempt leaves only its count, and is not generated) ...
AskAccess(b) ==
    /\ visit[b].at = "out"
    /\ ~installed /\ bootstrap # None /\ now < bootstrap
    /\ SetupAttempt(b, "setup", "setup", "asked")

\* ... and the session is inserted later, whatever happened in between.
GrantAccess(b) ==
    /\ visit[b].at = "asked"
    /\ setup' = [setup EXCEPT ![b] = [exp |-> now + SetupTTL, prepared |-> 0]]
    /\ Goes(b, "in")
    /\ UNCHANGED <<now, installed, bootstrap, setupLock, activated, factors,
                   sessions, req, hits, era, passed>>

\* prepareSetup reads the session before it hashes the password ...
BeginPrepare(b) ==
    /\ visit[b].at = "in"
    /\ SetupLive(b)
    /\ setup[b].prepared < MaxPrepares
    /\ SetupAttempt(b, "setup_prepare", b, "preparing")

\* ... and writes a new secret into its row, if the row is still there.
EndPrepare(b) ==
    /\ visit[b].at = "preparing"
    /\ setup' = IF setup[b] = None THEN setup
                ELSE [setup EXCEPT ![b].prepared = @ + 1]
    /\ Goes(b, "in")
    /\ UNCHANGED <<now, installed, bootstrap, setupLock, activated, factors,
                   sessions, req, hits, era, passed>>

AskFinish(b) ==
    /\ visit[b].at = "in"
    /\ setup[b] # None
    /\ SetupAttempt(b, "setup_activate", "setup", "finishing")

\* Mutant: the row is read without FOR UPDATE.
MutLockBootstrap(b) ==
    /\ bootstrap # None /\ now < bootstrap
    /\ UNCHANGED setupLock

\* The bootstrap row is locked before anything else is read.
LockBootstrap(b) ==
    /\ setupLock = None
    /\ bootstrap # None /\ now < bootstrap
    /\ setupLock' = b

\* finishSetup up to the check of the code; any failure rolls back.
BeginFinish(b) ==
    /\ visit[b].at = "finishing"
    /\ \/ /\ LockBootstrap(b)
          /\ Prepared(b)
          /\ \E step \in Steps :
                LET secret == <<b, setup[b].prepared>>
                    code == [secret |-> secret, step |-> step] IN
                /\ Verifies(code, secret, -1)
                /\ visit' = [visit EXCEPT ![b] = [at |-> "creating", secret |-> code]]
       \/ Goes(b, "in") /\ UNCHANGED setupLock
    /\ UNCHANGED <<now, installed, bootstrap, setup, activated, factors,
                   sessions, req, hits, era, passed>>

\* The rest of the transaction: account, workspace, credential, codes, settings.
CommitFinish(b) ==
    /\ visit[b].at = "creating"
    /\ account' = [account EXCEPT ![b] = [exists |-> TRUE, mfa |-> TRUE, member |-> TRUE]]
    /\ Activate(b, visit[b].secret.secret, visit[b].secret, b)
    /\ installed' = TRUE
    /\ bootstrap' = None
    /\ setup' = [x \in Browsers |-> None]
    /\ setupLock' = None
    /\ activated' = activated \cup {b}
    /\ Goes(b, "done")
    /\ UNCHANGED <<now, sessions, req, hits, era, passed>>

-----------------------------------------------------------------------------
(* Sessions.                                                               *)

\* authenticate(): the session and its account, as they are now.
Alive(s) ==
    /\ sessions[s] # None
    /\ LET x == sessions[s] IN
       /\ account[x.user].exists /\ account[x.user].mfa
       /\ now - x.created < SessionTTL
       /\ now - x.seen <= IdleTTL
       /\ x.verified # None
       /\ x.method \in {"totp", "recovery"}

\* authorize(recent): proven with a one-time code not long ago.
Recent(s) ==
    /\ Alive(s)
    /\ sessions[s].method = "totp"
    /\ now - sessions[s].verified <= FreshTTL

\* authenticateEnrollment(): a session that may only finish the enrollment.
Enrolling(s) ==
    /\ sessions[s] # None
    /\ LET x == sessions[s] IN
       /\ account[x.user].exists /\ ~account[x.user].mfa /\ account[x.user].member
       /\ x.method = "enrollment" /\ x.verified = None
       /\ now - x.created < SessionTTL
       /\ now - x.created <= SetupTTL

Touched(s) ==
    IF now - sessions[s].seen > TouchAfter
    THEN [sessions EXCEPT ![s].seen = now] ELSE sessions

\* Any dashboard request of a signed-in person.
Use(s) ==
    /\ Alive(s)
    /\ sessions' = Touched(s)
    /\ UNCHANGED <<now, setupVars, factors, req, hits, era, passed>>

SignOut(s) ==
    /\ sessions[s] # None
    /\ sessions' = [sessions EXCEPT ![s] = None]
    /\ UNCHANGED <<now, setupVars, factors, req, hits, era, passed>>

SessionOf(u, method, e) ==
    [user |-> u, method |-> method, created |-> now, seen |-> now,
     verified |-> IF method = "enrollment" THEN None ELSE now, era |-> e]

-----------------------------------------------------------------------------
(* Requests.  An attempt is counted and, when not blocked, goes on.        *)

Ends(r) == req' = [req EXCEPT ![r] = [Idle EXCEPT !.at = "done"]]

Attempt(r, op, u, s) ==
    LET bs == Buckets(op, u, IpOf[r]) IN
    /\ req[r].at = "idle"
    /\ hits' = Counted(bs)
    /\ req' = [req EXCEPT ![r] =
                   IF Blocked(bs) THEN [Idle EXCEPT !.at = "done"]
                   ELSE [Idle EXCEPT !.at = "limited", !.op = op, !.user = u, !.session = s]]
    /\ passed' = IF Blocked(bs) THEN passed
                 ELSE [passed EXCEPT ![r] = [win |-> Window, act |-> op, user |-> u]]
    /\ UNCHANGED <<now, setupVars, factors, era>>

\* Attempts at accounts that do not exist are not generated.
AskLogin(r, u) ==
    /\ account[u].exists
    /\ Attempt(r, "login", u, None)
    /\ UNCHANGED sessions

AskStepUp(r, s) ==
    /\ Alive(s) /\ account[sessions[s].user].member
    /\ Attempt(r, "step_up", sessions[s].user, s)
    /\ sessions' = Touched(s)

AskEnrollment(r, s) ==
    /\ Enrolling(s)
    /\ Attempt(r, "mfa_finish", sessions[s].user, s)
    /\ UNCHANGED sessions

\* password(): the account exists and the password is right.  No account
\* disappears here, so the check moves to the step that follows it.
PasswordChecked(u) == account[u].exists

\* Mutant: the workspace row is not locked.
MutSharing == {}

\* login's transaction shares the workspace row, then reads the account again.
Sharing == {r \in Requests : req[r].at = "begun"}

BeginLogin(r) ==
    /\ req[r].at = "limited" /\ req[r].op = "login"
    /\ \/ /\ PasswordChecked(req[r].user)
          /\ req' = [req EXCEPT ![r] = [@ EXCEPT !.at = "begun",
                                          !.fresh = account[req[r].user].mfa,
                                          !.era = era[req[r].user]]]
       \/ Ends(r)                                   \* a wrong password
    /\ UNCHANGED <<now, setupVars, factors, sessions, hits, era, passed>>

\* Mutant: the account is not read again.
MutAdmits(r, method) ==
    LET u == account[req[r].user] IN
    /\ u.exists
    /\ method = "enrollment" => ~req[r].fresh /\ u.member

\* The hook of identity.ts reads the account once more before a session exists.
Admits(r, method) ==
    LET u == account[req[r].user] IN
    /\ u.exists
    /\ IF method = "enrollment" THEN ~u.mfa /\ u.member ELSE u.mfa

Opens(r, method) ==
    /\ Admits(r, method)
    /\ sessions' = [sessions EXCEPT ![r] = SessionOf(req[r].user, method, req[r].era)]

LoginWithFactor(r) ==
    /\ req[r].fresh
    /\ \/ \E code \in Codes : /\ ConsumeCode(req[r].user, code, r, r)
                              /\ Opens(r, "totp")
       \/ \E code \in RecoveryCodes : /\ ConsumeRecovery(req[r].user, code, r)
                                      /\ Opens(r, "recovery")
    /\ UNCHANGED pending

\* Without a factor the account gets a new pending secret and may only enroll.
LoginToEnroll(r) ==
    /\ ~req[r].fresh
    /\ pending' = [pending EXCEPT ![req[r].user] =
                      [secret |-> r, exp |-> now + SetupTTL]]
    /\ Opens(r, "enrollment")
    /\ UNCHANGED <<active, recovery, accepted, spent>>

CommitLogin(r) ==
    /\ req[r].at = "begun"
    /\ \/ LoginWithFactor(r)
       \/ LoginToEnroll(r)
       \/ UNCHANGED <<factors, sessions>>           \* rolled back
    /\ Ends(r)
    /\ UNCHANGED <<now, setupVars, account, hits, era, passed>>

\* stepUp's transaction: the session row must still be there to be updated.
CommitStepUp(r) ==
    LET s == req[r].session IN
    /\ req[r].at = "limited" /\ req[r].op = "step_up"
    /\ \/ /\ PasswordChecked(req[r].user)
          /\ sessions[s] # None
          /\ \E code \in Codes : ConsumeCode(req[r].user, code, r, s)
          /\ sessions' = [sessions EXCEPT ![s].verified = now, ![s].method = "totp"]
          /\ UNCHANGED pending
       \/ UNCHANGED <<factors, sessions>>
    /\ Ends(r)
    /\ UNCHANGED <<now, setupVars, account, hits, era, passed>>

\* mfa.ts finish(): everything is read again under the lock of the account.
MayEnroll(u, s) ==
    /\ account[u].exists /\ ~account[u].mfa /\ account[u].member
    /\ sessions[s] # None
    /\ sessions[s].method = "enrollment" /\ sessions[s].verified = None
    /\ pending[u] # None /\ now < pending[u].exp

CommitEnrollment(r) ==
    LET u == req[r].user IN
    /\ req[r].at = "limited" /\ req[r].op = "mfa_finish"
    /\ \/ /\ MayEnroll(u, req[r].session)
          /\ \E code \in Codes :
                /\ Verifies(code, pending[u].secret, -1)
                /\ Activate(u, pending[u].secret, code, r)
          /\ account' = [account EXCEPT ![u].mfa = TRUE]
          /\ sessions' = [s \in Requests |->
                 IF sessions[s] # None /\ sessions[s].user = u THEN None ELSE sessions[s]]
       \/ UNCHANGED <<factors, sessions>>
    /\ Ends(r)
    /\ UNCHANGED <<now, setupVars, hits, era, passed>>

-----------------------------------------------------------------------------
(* What other parts do to accounts, time and retention.                    *)

\* An Owner changes a membership (saveMember), holding the workspace row.
AccessChanged(u) ==
    /\ Sharing = {}
    /\ account[u].exists /\ era[u] < MaxEra
    /\ \E on \in BOOLEAN : account' = [account EXCEPT ![u].member = on]
    /\ sessions' = [s \in Requests |->
           IF sessions[s] # None /\ sessions[s].user = u THEN None ELSE sessions[s]]
    /\ era' = [era EXCEPT ![u] = @ + 1]
    /\ UNCHANGED <<now, setupVars, pending, active, recovery, accepted, spent,
                   req, hits, passed>>

PurgeExpired ==
    /\ sessions' = [s \in Requests |->
           IF sessions[s] # None /\ now - sessions[s].created > SessionTTL
           THEN None ELSE sessions[s]]
    /\ setup' = [b \in Browsers |->
           IF setup[b] # None /\ setup[b].exp < now THEN None ELSE setup[b]]
    /\ bootstrap' = IF bootstrap # None /\ bootstrap < now /\ setupLock = None
                    THEN None ELSE bootstrap
    /\ pending' = [u \in Users |->
           IF pending[u] # None /\ pending[u].exp < now THEN None ELSE pending[u]]
    /\ hits' = [b \in {x \in DOMAIN hits : BucketExpiry(x) >= now} |-> hits[b]]
    /\ UNCHANGED <<now, installed, visit, setupLock, activated, account, active,
                   recovery, accepted, spent, req, era, passed>>

\* Buckets of past windows are never read again: the model forgets them at once.
Tick ==
    /\ now < MaxNow
    /\ now' = now + 1
    /\ hits' = [b \in {x \in DOMAIN hits : x.win = now' \div RateWindow} |-> hits[b]]
    /\ UNCHANGED <<setupVars, factors, sessions, req, era, passed>>

Next ==
    \/ \E b \in Browsers :
          \/ AskAccess(b) \/ GrantAccess(b) \/ BeginPrepare(b) \/ EndPrepare(b)
          \/ AskFinish(b) \/ BeginFinish(b) \/ CommitFinish(b)
    \/ \E r \in Requests :
          \/ \E u \in Users : AskLogin(r, u)
          \/ \E s \in Requests : AskStepUp(r, s) \/ AskEnrollment(r, s)
          \/ BeginLogin(r) \/ CommitLogin(r)
          \/ CommitStepUp(r) \/ CommitEnrollment(r)
    \/ \E s \in Requests : Use(s) \/ SignOut(s)
    \/ \E u \in Users : AccessChanged(u)
    \/ PurgeExpired
    \/ Tick

Spec == Init /\ [][Next]_vars

-----------------------------------------------------------------------------
(* Properties.                                                             *)

SessionRows ==
    [user : Users, method : {"totp", "recovery", "enrollment"}, created : Times,
     seen : Times, verified : Times \cup {None}, era : 0..MaxEra]

\* Every variable keeps its type.
TypeOK ==
    /\ now \in Times
    /\ installed \in BOOLEAN
    /\ bootstrap \in {BootstrapTTL, None}
    /\ setupLock \in Browsers \cup {None}
    /\ activated \subseteq Browsers
    /\ account \in [Users -> [exists : BOOLEAN, mfa : BOOLEAN, member : BOOLEAN]]
    /\ \A u \in Users :
          /\ active[u] # None => active[u] \in [secret : Secrets, last : Steps \cup {-1}]
          /\ pending[u] # None => pending[u].secret \in Requests
    /\ recovery \in [Users -> SUBSET RecoveryCodes]
    /\ \A s \in Requests : sessions[s] # None => sessions[s] \in SessionRows
    /\ \A b \in DOMAIN hits : hits[b] \in 1..(RateLimit + 1)
    /\ era \in [Users -> 0..MaxEra]

\* A one-time code is accepted once: no period of an account's authenticator
\* serves two requests, whichever of setup, enrollment, sign-in and renewed
\* proof they are and however they interleave (crypto.ts verifyTotp,
\* auth-service.ts consumeFactor).
StepsUsedOnce ==
    \A a, b \in accepted : a.user = b.user /\ a.step = b.step => a = b

\* A recovery code opens one session (consumeFactor's guarded update).
RecoverySpentOnce ==
    \A a, b \in spent : a.user = b.user /\ a.code = b.code => a = b

\* No code of either kind proves anything twice.
CodesUsedOnce == StepsUsedOnce /\ RecoverySpentOnce

\* However many visitors hold a setup session, one of them becomes the Owner
\* (finishSetup's lock of the bootstrap row).
SetupOnce == Cardinality(activated) <= 1

\* Once an account has a second factor nothing remains of its enrollment: no
\* pending secret and no session that was opened without a factor, even when a
\* sign-in was under way while the enrollment finished.
EnrollmentEnds ==
    \A u \in Users : account[u].mfa =>
        /\ pending[u] = None
        /\ \A s \in Requests : ~ (/\ sessions[s] # None /\ sessions[s].user = u
                                  /\ sessions[s].method = "enrollment")

\* What an Owner may change with a recent proof was proven: this very session
\* had a one-time code of its own account accepted when the session says.
RecentIsProven ==
    \A s \in Requests : Recent(s) =>
        \E a \in accepted : /\ a.user = sessions[s].user
                            /\ a.session = s
                            /\ a.at = sessions[s].verified

\* No session outlives a change of its account's membership, also when the
\* sign-in that opened it began before the change.
SessionsSeeCurrentAccess ==
    \A s \in Requests : sessions[s] # None => sessions[s].era = era[sessions[s].user]

\* Of one account no more attempts than the limit go on in one window, although
\* requests are counted by replicas that share nothing but the rows, and
\* retention deletes rows meanwhile.
AttemptsBounded ==
    \A r \in Requests : passed[r] # None =>
        Cardinality({x \in Requests : passed[x] = passed[r]}) <= RateLimit

=============================================================================
