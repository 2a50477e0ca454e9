---------------------------- MODULE AccountsProofs ----------------------------
(***************************************************************************)
(* Theorems about Accounts, for any requests, visitors, accounts, terms    *)
(* and limits.  The invariant ties every accepted code to the credential   *)
(* it was accepted for, every session and every request under way to the   *)
(* present state of its account, and the setup to the one bootstrap row.   *)
(***************************************************************************)
EXTENDS Accounts, FiniteSetTheorems, TLAPS

\* Who holds the one bootstrap row, and who became the Owner with it.
SetupInv ==
    /\ setupLock # None => bootstrap # None
    /\ visit = [b \in Browsers |-> visit[b]]
    /\ \A b \in Browsers : visit[b].at = "creating" =>
          setupLock = b /\ visit[b].secret.step \in Int
    /\ activated # {} => bootstrap = None
    /\ activated \subseteq Browsers
    /\ \A b, c \in activated : b = c
    /\ \A b \in Browsers \ activated : ~account[b].exists /\ ~account[b].mfa

\* What a credential and the rows that refer to an account look like.
Credential(x) == x = [secret |-> x.secret, last |-> x.last] /\ x.last \in Int

FactorTypes ==
    /\ account \in [Users -> [exists : BOOLEAN, mfa : BOOLEAN, member : BOOLEAN]]
    /\ active = [u \in Users |-> active[u]]
    /\ pending = [u \in Users |-> pending[u]]
    /\ recovery \in [Users -> SUBSET RecoveryCodes]

\* An account with a factor has its credential and nothing left of enrolling.
Enabled(u) ==
    /\ active[u] # None => account[u].mfa
    /\ account[u].mfa => Credential(active[u]) /\ pending[u] = None /\ account[u].exists

\* Every accepted code is at or before the last one used, every spent one is gone.
CodeGone(a) ==
    a.user \in Users /\ account[a.user].mfa /\ a.step \in Int /\ a.step <= active[a.user].last
RecoveryGone(x) == x.user \in Users /\ account[x.user].mfa /\ x.code \notin recovery[x.user]

FactorInv ==
    /\ FactorTypes
    /\ \A u \in Users : Enabled(u)
    /\ \A a \in accepted : CodeGone(a)
    /\ \A x \in spent : RecoveryGone(x)

SessionFields == {"user", "method", "created", "seen", "verified", "era"}
RequestFields == {"at", "op", "user", "session", "fresh", "era"}

SessionInv ==
    /\ sessions = [s \in Requests |-> sessions[s]]
    /\ \A s \in Requests : sessions[s] # None =>
          /\ SessionFields \subseteq DOMAIN sessions[s]
          /\ sessions[s].user \in Users
          /\ account[sessions[s].user].exists
          /\ sessions[s].method = "enrollment" => ~account[sessions[s].user].mfa
          /\ sessions[s].era = era[sessions[s].user]

RequestInv ==
    /\ req = [r \in Requests |-> req[r]]
    /\ era \in [Users -> Nat]
    /\ \A r \in Requests :
          /\ RequestFields \subseteq DOMAIN req[r]
          /\ req[r].at \in {"idle", "limited", "begun", "done"}
          /\ req[r].at \in {"limited", "begun"} => req[r].user \in Users
          /\ req[r].at = "begun" => req[r].era = era[req[r].user]

AccountsInv ==
    /\ now \in Nat
    /\ SetupInv /\ FactorInv /\ SessionInv /\ RequestInv
    /\ StepsUsedOnce /\ RecoverySpentOnce

USE AccountsAssumption
USE DEF setupVars, factors, Goes, Ends, NoAccount, Idle, Steps, Times, Users, Credential

LEMMA InitFactor == Init => FactorInv
<1> SUFFICES ASSUME Init PROVE FactorInv
  OBVIOUS
<1>1. FactorTypes
  BY DEF Init, FactorTypes
<1>2. ASSUME NEW u \in Users PROVE Enabled(u)
  <2>1. account[u].mfa => installed /\ u \in Veterans \ Browsers /\ account[u].exists
    BY DEF Init
  <2>2. IF installed /\ u \in Veterans
        THEN active[u] = [secret |-> u, last |-> -1] ELSE active[u] = None
    BY DEF Init
  <2>3. pending[u] = None
    BY DEF Init
  <2>4. installed /\ u \in Veterans => account[u].mfa
    BY DEF Init
  <2>5. QED
    BY <2>1, <2>2, <2>3, <2>4 DEF Enabled
<1>3. QED
  BY <1>1, <1>2 DEF Init, FactorInv

\* A one-time code of the active credential is accepted.
LEMMA CodeConsumed ==
    ASSUME AccountsInv, NEW u \in Users, NEW code \in Codes, NEW r, NEW s,
           ConsumeCode(u, code, r, s), UNCHANGED <<account, pending>>
    PROVE  FactorInv' /\ StepsUsedOnce' /\ RecoverySpentOnce'
<1> DEFINE n == Acceptance(u, code.step, r, s)
<1> DEFINE c == [active[u] EXCEPT !.last = code.step]
<1>1. active[u] # None /\ account[u].mfa /\ Credential(active[u])
  BY DEF ConsumeCode, AccountsInv, FactorInv, Enabled
<1>2. code.step > active[u].last
  BY DEF ConsumeCode, Verifies
<1>3. code.step \in Int
  BY DEF Codes
<1>4. n.user = u /\ n.step = code.step
  BY DEF Acceptance
<1>5. /\ active' = [active EXCEPT ![u] = c]
      /\ accepted' = accepted \cup {n} /\ UNCHANGED <<account, pending, recovery, spent>>
  BY DEF ConsumeCode
<1>6. Credential(c) /\ c.last = code.step
  BY <1>1, <1>3
<1> HIDE DEF n, c
<1>7. active' = [x \in Users |-> IF x = u THEN c ELSE active[x]]
  BY <1>5 DEF AccountsInv, FactorInv, FactorTypes
<1>8. \A a \in accepted : a.user = u => a.step < code.step
  BY <1>1, <1>2, <1>3 DEF AccountsInv, FactorInv, CodeGone
<1>9. FactorInv'
  <2>1. FactorTypes'
    BY <1>5, <1>7 DEF AccountsInv, FactorInv, FactorTypes
  <2>2. ASSUME NEW x \in Users PROVE Enabled(x)'
    BY <1>1, <1>5, <1>6, <1>7 DEF AccountsInv, FactorInv, Enabled
  <2>3. ASSUME NEW a \in accepted' PROVE CodeGone(a)'
    <3>1. CASE a = n
      BY <1>1, <1>3, <1>4, <1>5, <1>6, <1>7, <3>1 DEF CodeGone
    <3>2. CASE a \in accepted
      BY <1>5, <1>6, <1>7, <1>8, <3>2, <1>3 DEF AccountsInv, FactorInv, CodeGone
    <3>3. QED
      BY <1>5, <3>1, <3>2
  <2>4. ASSUME NEW x \in spent' PROVE RecoveryGone(x)'
    BY <1>5 DEF AccountsInv, FactorInv, RecoveryGone
  <2>5. QED
    BY <2>1, <2>2, <2>3, <2>4 DEF FactorInv
<1>10. StepsUsedOnce'
  BY <1>3, <1>4, <1>5, <1>8 DEF AccountsInv, FactorInv, CodeGone, StepsUsedOnce
<1>11. QED
  BY <1>5, <1>9, <1>10 DEF AccountsInv, RecoverySpentOnce

\* A recovery code is accepted.
LEMMA RecoveryConsumed ==
    ASSUME AccountsInv, NEW u \in Users, NEW code, NEW r,
           ConsumeRecovery(u, code, r), UNCHANGED <<account, pending>>
    PROVE  FactorInv' /\ StepsUsedOnce' /\ RecoverySpentOnce'
<1> DEFINE n == [user |-> u, code |-> code, by |-> r]
<1>1. account[u].mfa /\ code \in recovery[u]
  BY DEF ConsumeRecovery, AccountsInv, FactorInv, Enabled
<1>2. n.user = u /\ n.code = code
  OBVIOUS
<1>3. /\ recovery' = [recovery EXCEPT ![u] = recovery[u] \ {code}]
      /\ spent' = spent \cup {n} /\ UNCHANGED <<account, pending, active, accepted>>
  BY DEF ConsumeRecovery
<1> HIDE DEF n
<1>4. recovery' = [x \in Users |-> IF x = u THEN recovery[u] \ {code} ELSE recovery[x]]
  BY <1>3 DEF AccountsInv, FactorInv, FactorTypes
<1>5. FactorInv'
  <2>1. FactorTypes'
    BY <1>3, <1>4 DEF AccountsInv, FactorInv, FactorTypes
  <2>2. ASSUME NEW x \in Users PROVE Enabled(x)'
    BY <1>3 DEF AccountsInv, FactorInv, Enabled
  <2>3. ASSUME NEW a \in accepted' PROVE CodeGone(a)'
    BY <1>3 DEF AccountsInv, FactorInv, CodeGone
  <2>4. ASSUME NEW x \in spent' PROVE RecoveryGone(x)'
    BY <1>1, <1>2, <1>3, <1>4 DEF AccountsInv, FactorInv, RecoveryGone
  <2>5. QED
    BY <2>1, <2>2, <2>3, <2>4 DEF FactorInv
<1>6. RecoverySpentOnce'
  BY <1>1, <1>2, <1>3 DEF AccountsInv, FactorInv, RecoveryGone, RecoverySpentOnce
<1>7. QED
  BY <1>3, <1>5, <1>6 DEF AccountsInv, StepsUsedOnce

\* An account gets its credential.
LEMMA Activated ==
    ASSUME AccountsInv, NEW u \in Users, ~account[u].mfa, NEW code, code.step \in Int,
           NEW secret, NEW by, Activate(u, secret, code, by),
           NEW row \in [exists : BOOLEAN, mfa : BOOLEAN, member : BOOLEAN], row.mfa, row.exists,
           account' = [account EXCEPT ![u] = row]
    PROVE  FactorInv' /\ StepsUsedOnce' /\ RecoverySpentOnce'
<1> DEFINE n == Acceptance(u, code.step, by, None)
<1> DEFINE c == [secret |-> secret, last |-> code.step]
<1>1. /\ Credential(c) /\ c.last = code.step
      /\ n.user = u /\ n.step = code.step /\ code.step \in Int
  BY DEF Acceptance
<1>2. /\ active' = [active EXCEPT ![u] = c] /\ pending' = [pending EXCEPT ![u] = None]
      /\ recovery' = [recovery EXCEPT ![u] = RecoveryCodes]
      /\ accepted' = accepted \cup {n} /\ UNCHANGED spent
  BY DEF Activate
<1> HIDE DEF n, c
<1>3. /\ \A a \in accepted : a.user # u
      /\ \A x \in spent : x.user # u
  BY DEF AccountsInv, FactorInv, CodeGone, RecoveryGone
<1>4. /\ account' = [x \in Users |-> IF x = u THEN row ELSE account[x]]
      /\ active' = [x \in Users |-> IF x = u THEN c ELSE active[x]]
      /\ pending' = [x \in Users |-> IF x = u THEN None ELSE pending[x]]
      /\ recovery' = [x \in Users |-> IF x = u THEN RecoveryCodes ELSE recovery[x]]
  BY <1>2 DEF AccountsInv, FactorInv, FactorTypes
<1>5. FactorInv'
  <2>1. FactorTypes'
    BY <1>4 DEF AccountsInv, FactorInv, FactorTypes
  <2>2. ASSUME NEW x \in Users PROVE Enabled(x)'
    BY <1>1, <1>4 DEF AccountsInv, FactorInv, Enabled
  <2>3. ASSUME NEW a \in accepted' PROVE CodeGone(a)'
    BY <1>1, <1>2, <1>3, <1>4 DEF AccountsInv, FactorInv, CodeGone
  <2>4. ASSUME NEW x \in spent' PROVE RecoveryGone(x)'
    BY <1>2, <1>3, <1>4 DEF AccountsInv, FactorInv, RecoveryGone
  <2>5. QED
    BY <2>1, <2>2, <2>3, <2>4 DEF FactorInv
<1>6. StepsUsedOnce'
  BY <1>1, <1>2, <1>3 DEF AccountsInv, StepsUsedOnce
<1>7. QED
  BY <1>2, <1>5, <1>6 DEF AccountsInv, RecoverySpentOnce

(* What is left alone stays as it is.                                       *)

LEMMA SameFactors ==
    ASSUME AccountsInv, UNCHANGED factors
    PROVE  FactorInv' /\ StepsUsedOnce' /\ RecoverySpentOnce'
  BY DEF AccountsInv, FactorInv, FactorTypes, Enabled, CodeGone, RecoveryGone,
         StepsUsedOnce, RecoverySpentOnce

LEMMA SameSetup == ASSUME AccountsInv, UNCHANGED <<setupVars, account>> PROVE SetupInv'
  BY DEF AccountsInv, SetupInv

LEMMA SameSessions == ASSUME AccountsInv, UNCHANGED <<sessions, account, era>> PROVE SessionInv'
  BY DEF AccountsInv, SessionInv

LEMMA SameRequests == ASSUME AccountsInv, UNCHANGED <<req, era>> PROVE RequestInv'
  BY DEF AccountsInv, RequestInv

\* A request ends.
LEMMA Ended == ASSUME AccountsInv, NEW r \in Requests, Ends(r), UNCHANGED era PROVE RequestInv'
  BY DEF AccountsInv, RequestInv, RequestFields

\* Rows of sessions and requests after some of their fields changed.
LEMMA SeenRow ==
    ASSUME NEW x, SessionFields \subseteq DOMAIN x, NEW y
    PROVE  LET q == [x EXCEPT !.seen = y] IN
           /\ SessionFields \subseteq DOMAIN q
           /\ q.user = x.user /\ q.method = x.method /\ q.era = x.era
           /\ q.verified = x.verified
  BY DEF SessionFields

LEMMA ProvenRow ==
    ASSUME NEW x, SessionFields \subseteq DOMAIN x, NEW y
    PROVE  LET q == [[x EXCEPT !.verified = y] EXCEPT !.method = "totp"] IN
           /\ SessionFields \subseteq DOMAIN q
           /\ q.user = x.user /\ q.method = "totp" /\ q.era = x.era
           /\ q.verified = y
  BY DEF SessionFields

LEMMA BegunRow ==
    ASSUME NEW x, RequestFields \subseteq DOMAIN x, NEW y, NEW z
    PROVE  LET q == [x EXCEPT !.at = "begun", !.fresh = y, !.era = z] IN
           /\ RequestFields \subseteq DOMAIN q
           /\ q.at = "begun" /\ q.user = x.user /\ q.era = z /\ q.op = x.op /\ q.session = x.session
  BY DEF RequestFields

LEMMA TouchedRows ==
    ASSUME SessionInv, NEW s \in Requests, sessions[s] # None, sessions' = Touched(s)
    PROVE  /\ sessions' = [x \in Requests |-> sessions'[x]]
           /\ \A x \in Requests : sessions'[x] # None =>
                 /\ sessions[x] # None
                 /\ SessionFields \subseteq DOMAIN sessions'[x]
                 /\ sessions'[x].user = sessions[x].user
                 /\ sessions'[x].method = sessions[x].method
                 /\ sessions'[x].era = sessions[x].era
                 /\ sessions'[x].verified = sessions[x].verified
<1>1. CASE sessions' = sessions
  BY <1>1 DEF SessionInv
<1>2. CASE sessions' = [sessions EXCEPT ![s] = [sessions[s] EXCEPT !.seen = now]]
  <2> DEFINE q == [sessions[s] EXCEPT !.seen = now]
  <2>1. /\ SessionFields \subseteq DOMAIN q
        /\ q.user = sessions[s].user /\ q.method = sessions[s].method /\ q.era = sessions[s].era
        /\ q.verified = sessions[s].verified
    BY SeenRow DEF SessionInv
  <2> HIDE DEF q
  <2>2. sessions' = [x \in Requests |-> IF x = s THEN q ELSE sessions[x]]
    BY <1>2 DEF SessionInv, q
  <2>3. QED
    BY <2>1, <2>2 DEF SessionInv
<1>3. QED
  BY <1>1, <1>2 DEF Touched

LEMMA UseSession == ASSUME AccountsInv, NEW s \in Requests, Use(s) PROVE SessionInv'
<1>1. sessions[s] # None /\ sessions' = Touched(s) /\ UNCHANGED <<account, era>>
  BY DEF Use, Alive
<1>2. QED
  BY <1>1, TouchedRows DEF AccountsInv, SessionInv

LEMMA StepUpSession ==
    ASSUME AccountsInv, NEW r \in Requests, NEW s \in Requests, AskStepUp(r, s)
    PROVE  SessionInv'
<1>1. sessions[s] # None /\ sessions' = Touched(s) /\ UNCHANGED <<account, era>>
  BY DEF AskStepUp, Alive, Attempt
<1>2. QED
  BY <1>1, TouchedRows DEF AccountsInv, SessionInv

LEMMA StepUpRequest ==
    ASSUME AccountsInv, NEW r \in Requests, NEW s \in Requests, AskStepUp(r, s)
    PROVE  RequestInv'
<1>1. sessions[s].user \in Users /\ UNCHANGED era
  BY DEF AskStepUp, Alive, Attempt, AccountsInv, SessionInv
<1>2. QED
  BY <1>1 DEF AskStepUp, Attempt, AccountsInv, RequestInv, RequestFields

LEMMA SignOutSession == ASSUME AccountsInv, NEW s \in Requests, SignOut(s) PROVE SessionInv'
<1>1. UNCHANGED <<account, era>>
  BY DEF SignOut
<1>2. QED
  BY <1>1 DEF SignOut, AccountsInv, SessionInv

LEMMA BeginLoginRequest == ASSUME AccountsInv, NEW r \in Requests, BeginLogin(r) PROVE RequestInv'
<1> DEFINE q == [req[r] EXCEPT !.at = "begun", !.fresh = account[req[r].user].mfa,
                               !.era = era[req[r].user]]
<1>1. UNCHANGED era /\ req[r].at = "limited"
  BY DEF BeginLogin
<1>2. CASE req' = [req EXCEPT ![r] = q]
  <2>1. /\ RequestFields \subseteq DOMAIN q
        /\ q.at = "begun" /\ q.user = req[r].user /\ q.era = era[req[r].user]
    BY BegunRow DEF AccountsInv, RequestInv
  <2> HIDE DEF q
  <2>2. QED
    BY <1>1, <1>2, <2>1 DEF AccountsInv, RequestInv
<1>3. CASE Ends(r)
  BY <1>1, <1>3 DEF AccountsInv, RequestInv, RequestFields
<1>4. QED
  BY <1>2, <1>3 DEF BeginLogin

LEMMA AccessChangedFactor ==
    ASSUME AccountsInv, NEW u \in Users, AccessChanged(u)
    PROVE  /\ FactorInv' /\ StepsUsedOnce' /\ RecoverySpentOnce'
           /\ \A x \in Users :
                 account'[x].mfa = account[x].mfa /\ account'[x].exists = account[x].exists
<1>1. PICK on \in BOOLEAN : account' = [account EXCEPT ![u] = [account[u] EXCEPT !.member = on]]
  BY DEF AccessChanged
<1> DEFINE c == [account[u] EXCEPT !.member = on]
<1>2. /\ c \in [exists : BOOLEAN, mfa : BOOLEAN, member : BOOLEAN]
      /\ c.mfa = account[u].mfa /\ c.exists = account[u].exists
  BY DEF AccountsInv, FactorInv, FactorTypes
<1> HIDE DEF c
<1>3. account' = [x \in Users |-> IF x = u THEN c ELSE account[x]]
  BY <1>1 DEF AccountsInv, FactorInv, FactorTypes, c
<1>4. \A x \in Users : account'[x].mfa = account[x].mfa /\ account'[x].exists = account[x].exists
  BY <1>2, <1>3
<1>5. UNCHANGED <<active, pending, recovery, accepted, spent>>
  BY DEF AccessChanged
<1>6. FactorTypes'
  BY <1>2, <1>3, <1>5 DEF AccountsInv, FactorInv, FactorTypes
<1>7. QED
  BY <1>4, <1>5, <1>6
     DEF AccountsInv, FactorInv, Enabled, CodeGone, RecoveryGone, StepsUsedOnce, RecoverySpentOnce

LEMMA AccessChangedRequest ==
    ASSUME AccountsInv, NEW u \in Users, AccessChanged(u) PROVE RequestInv'
<1>1. \A r \in Requests : req[r].at # "begun"
  BY DEF AccessChanged, Sharing
<1>2. era' \in [Users -> Nat] /\ UNCHANGED req
  BY DEF AccessChanged, AccountsInv, RequestInv
<1>3. QED
  BY <1>1, <1>2 DEF AccountsInv, RequestInv

(* Setup.                                                                  *)

LEMMA Attempted ==
    ASSUME AccountsInv, NEW b \in Browsers, NEW action, NEW who, NEW next,
           next # "creating", SetupAttempt(b, action, who, next)
    PROVE  AccountsInv'
<1>1. UNCHANGED <<now, factors, sessions, req, era>>
  BY DEF SetupAttempt
<1>2. SetupInv'
  BY DEF SetupAttempt, AccountsInv, SetupInv
<1>3. QED
  BY <1>1, <1>2, SameFactors, SameSessions, SameRequests DEF AccountsInv

LEMMA AskAccessKeeps == ASSUME AccountsInv, NEW b \in Browsers, AskAccess(b) PROVE AccountsInv'
  BY Attempted DEF AskAccess

LEMMA BeginPrepareKeeps ==
    ASSUME AccountsInv, NEW b \in Browsers, BeginPrepare(b) PROVE AccountsInv'
  BY Attempted DEF BeginPrepare

LEMMA AskFinishKeeps == ASSUME AccountsInv, NEW b \in Browsers, AskFinish(b) PROVE AccountsInv'
  BY Attempted DEF AskFinish

LEMMA GrantAccessKeeps == ASSUME AccountsInv, NEW b \in Browsers, GrantAccess(b) PROVE AccountsInv'
<1>1. SetupInv'
  BY DEF GrantAccess, AccountsInv, SetupInv
<1>2. QED
  BY <1>1, SameFactors, SameSessions, SameRequests DEF GrantAccess, AccountsInv

LEMMA EndPrepareKeeps == ASSUME AccountsInv, NEW b \in Browsers, EndPrepare(b) PROVE AccountsInv'
<1>1. SetupInv'
  BY DEF EndPrepare, AccountsInv, SetupInv
<1>2. QED
  BY <1>1, SameFactors, SameSessions, SameRequests DEF EndPrepare, AccountsInv

LEMMA BeginFinishKeeps == ASSUME AccountsInv, NEW b \in Browsers, BeginFinish(b) PROVE AccountsInv'
<1>1. UNCHANGED <<bootstrap, activated, account>>
  BY DEF BeginFinish
<1>2. CASE Goes(b, "in") /\ UNCHANGED setupLock
  <2>1. SetupInv'
    BY <1>1, <1>2 DEF AccountsInv, SetupInv
  <2>2. QED
    BY <2>1, SameFactors, SameSessions, SameRequests DEF BeginFinish, AccountsInv
<1>3. ASSUME LockBootstrap(b), NEW code, code.step \in Int,
             visit' = [visit EXCEPT ![b] = [at |-> "creating", secret |-> code]]
      PROVE  AccountsInv'
  <2>1. setupLock = None /\ setupLock' = b /\ bootstrap # None
    BY <1>3 DEF LockBootstrap
  <2>2. \A c \in Browsers : visit[c].at # "creating"
    BY <2>1 DEF AccountsInv, SetupInv
  <2>3. SetupInv'
    BY <1>1, <1>3, <2>1, <2>2 DEF AccountsInv, SetupInv
  <2>4. QED
    BY <2>3, SameFactors, SameSessions, SameRequests DEF BeginFinish, AccountsInv
<1>4. ASSUME LockBootstrap(b), NEW step \in Steps,
             visit' = [visit EXCEPT ![b] =
                 [at |-> "creating",
                  secret |-> [secret |-> <<b, setup[b].prepared>>, step |-> step]]]
      PROVE  AccountsInv'
  <2> DEFINE code == [secret |-> <<b, setup[b].prepared>>, step |-> step]
  <2>1. code.step \in Int /\ visit' = [visit EXCEPT ![b] = [at |-> "creating", secret |-> code]]
    BY <1>4
  <2> HIDE DEF code
  <2>2. QED
    BY <1>3, <1>4, <2>1
<1>5. QED
  BY <1>2, <1>4 DEF BeginFinish

LEMMA CommitFinishKeeps ==
    ASSUME AccountsInv, NEW b \in Browsers, CommitFinish(b) PROVE AccountsInv'
<1> DEFINE row == [exists |-> TRUE, mfa |-> TRUE, member |-> TRUE]
<1> DEFINE code == visit[b].secret
<1>1. /\ setupLock = b /\ code.step \in Int /\ bootstrap # None /\ activated = {}
      /\ ~account[b].mfa /\ ~account[b].exists
      /\ \A c \in Browsers : visit[c].at = "creating" => c = b
  BY DEF CommitFinish, AccountsInv, SetupInv
<1>2. /\ account' = [account EXCEPT ![b] = row] /\ Activate(b, code.secret, code, b)
      /\ bootstrap' = None /\ setupLock' = None /\ activated' = {b}
      /\ visit' = [visit EXCEPT ![b] = [at |-> "done", secret |-> None]]
      /\ UNCHANGED <<now, sessions, req, era>>
  BY <1>1 DEF CommitFinish
<1>3. row \in [exists : BOOLEAN, mfa : BOOLEAN, member : BOOLEAN] /\ row.mfa /\ row.exists
  OBVIOUS
<1> HIDE DEF row, code
<1>4. FactorInv' /\ StepsUsedOnce' /\ RecoverySpentOnce'
  BY <1>1, <1>2, <1>3, Activated
<1>5. account' = [x \in Users |-> IF x = b THEN row ELSE account[x]]
  BY <1>2 DEF AccountsInv, FactorInv, FactorTypes
<1>6. SetupInv'
  BY <1>1, <1>2, <1>5 DEF AccountsInv, SetupInv
<1>7. SessionInv'
  BY <1>1, <1>2, <1>3, <1>5 DEF AccountsInv, SessionInv
<1>8. QED
  BY <1>2, <1>4, <1>6, <1>7, SameRequests DEF AccountsInv

(* Requests.                                                               *)

LEMMA AskLoginKeeps ==
    ASSUME AccountsInv, NEW r \in Requests, NEW u \in Users, AskLogin(r, u) PROVE AccountsInv'
<1>1. RequestInv'
  BY DEF AskLogin, Attempt, AccountsInv, RequestInv, RequestFields
<1>2. QED
  BY <1>1, SameFactors, SameSetup, SameSessions DEF AskLogin, Attempt, AccountsInv

LEMMA AskStepUpKeeps ==
    ASSUME AccountsInv, NEW r \in Requests, NEW s \in Requests, AskStepUp(r, s) PROVE AccountsInv'
  BY StepUpSession, StepUpRequest, SameFactors, SameSetup DEF AskStepUp, Attempt, AccountsInv

LEMMA AskEnrollmentKeeps ==
    ASSUME AccountsInv, NEW r \in Requests, NEW s \in Requests, AskEnrollment(r, s)
    PROVE  AccountsInv'
<1>1. sessions[s].user \in Users
  BY DEF AskEnrollment, Enrolling, AccountsInv, SessionInv
<1>2. RequestInv'
  BY <1>1 DEF AskEnrollment, Attempt, AccountsInv, RequestInv, RequestFields
<1>3. QED
  BY <1>2, SameFactors, SameSetup, SameSessions DEF AskEnrollment, Attempt, AccountsInv

LEMMA BeginLoginKeeps == ASSUME AccountsInv, NEW r \in Requests, BeginLogin(r) PROVE AccountsInv'
  BY BeginLoginRequest, SameFactors, SameSetup, SameSessions DEF BeginLogin, AccountsInv

\* A session is opened for an account that may have one of this kind.
LEMMA Opened ==
    ASSUME AccountsInv, NEW r \in Requests, req[r].at = "begun",
           NEW method \in {"totp", "recovery", "enrollment"}, Opens(r, method),
           UNCHANGED <<account, era>>
    PROVE  SessionInv'
<1> DEFINE n == SessionOf(req[r].user, method, req[r].era)
<1>1. /\ SessionFields \subseteq DOMAIN n
      /\ n.user = req[r].user /\ n.method = method /\ n.era = req[r].era
  BY DEF SessionOf, SessionFields
<1>2. /\ req[r].user \in Users /\ account[req[r].user].exists
      /\ method = "enrollment" => ~account[req[r].user].mfa
      /\ req[r].era = era[req[r].user]
  BY DEF Opens, Admits, AccountsInv, RequestInv
<1>3. sessions' = [sessions EXCEPT ![r] = n]
  BY DEF Opens
<1> HIDE DEF n
<1>4. QED
  BY <1>1, <1>2, <1>3 DEF AccountsInv, SessionInv

LEMMA CommitLoginKeeps == ASSUME AccountsInv, NEW r \in Requests, CommitLogin(r) PROVE AccountsInv'
<1>1. /\ req[r].at = "begun" /\ req[r].user \in Users /\ Ends(r)
      /\ UNCHANGED <<now, setupVars, account, era>>
  BY DEF CommitLogin, AccountsInv, RequestInv
<1>2. SetupInv' /\ RequestInv'
  BY <1>1, SameSetup, Ended
<1>3. ASSUME NEW code \in Codes, ConsumeCode(req[r].user, code, r, r), Opens(r, "totp"),
             UNCHANGED pending
      PROVE  AccountsInv'
  BY <1>1, <1>2, <1>3, CodeConsumed, Opened DEF AccountsInv
<1>4. ASSUME NEW code, ConsumeRecovery(req[r].user, code, r), Opens(r, "recovery"),
             UNCHANGED pending
      PROVE  AccountsInv'
  BY <1>1, <1>2, <1>4, RecoveryConsumed, Opened DEF AccountsInv
<1>5. CASE LoginToEnroll(r)
  <2>1. Opens(r, "enrollment") /\ UNCHANGED <<active, recovery, accepted, spent>>
    BY <1>5 DEF LoginToEnroll
  <2>2. ~account[req[r].user].mfa
    BY <2>1 DEF Opens, Admits
  <2>3. PICK n : pending' = [pending EXCEPT ![req[r].user] = n]
    BY <1>5 DEF LoginToEnroll
  <2>4. FactorInv'
    BY ZenonT(60), <1>1, <2>1, <2>2, <2>3
       DEF AccountsInv, FactorInv, FactorTypes, Enabled, CodeGone, RecoveryGone
  <2>5. QED
    BY <1>1, <1>2, <2>1, <2>4, Opened DEF AccountsInv, StepsUsedOnce, RecoverySpentOnce
<1>6. CASE UNCHANGED <<factors, sessions>>
  BY <1>1, <1>2, <1>6, SameFactors, SameSessions DEF AccountsInv
<1>7. QED
  BY <1>3, <1>4, <1>5, <1>6 DEF CommitLogin, LoginWithFactor

LEMMA CommitStepUpKeeps ==
    ASSUME AccountsInv, NEW r \in Requests, CommitStepUp(r) PROVE AccountsInv'
<1> DEFINE s == req[r].session
<1> DEFINE row == [[sessions[s] EXCEPT !.verified = now] EXCEPT !.method = "totp"]
<1>1. /\ req[r].at = "limited" /\ req[r].user \in Users /\ Ends(r)
      /\ UNCHANGED <<now, setupVars, account, era>>
  BY DEF CommitStepUp, AccountsInv, RequestInv
<1>2. SetupInv' /\ RequestInv'
  BY <1>1, SameSetup, Ended
<1>3. ASSUME sessions[s] # None, NEW code \in Codes, ConsumeCode(req[r].user, code, r, s),
             sessions' = [sessions EXCEPT ![s].verified = now, ![s].method = "totp"],
             UNCHANGED pending
      PROVE  AccountsInv'
  <2>1. FactorInv' /\ StepsUsedOnce' /\ RecoverySpentOnce'
    BY <1>1, <1>3, CodeConsumed
  <2>2. SessionInv'
    <3>1. \A x \in Requests \ {s} : sessions'[x] = sessions[x]
      BY <1>3 DEF AccountsInv, SessionInv
    <3>2. sessions' = [x \in Requests |-> sessions'[x]]
      BY <1>3 DEF AccountsInv, SessionInv
    <3>3. ASSUME s \in Requests
          PROVE  /\ SessionFields \subseteq DOMAIN sessions'[s]
                 /\ sessions'[s].user = sessions[s].user /\ sessions'[s].method = "totp"
                 /\ sessions'[s].era = sessions[s].era
      <4>1. SessionFields \subseteq DOMAIN sessions[s]
        BY <1>3, <3>3 DEF AccountsInv, SessionInv
      <4>2. sessions'[s] = row
        BY <1>3, <3>3 DEF AccountsInv, SessionInv
      <4>3. QED
        BY <4>1, <4>2, ProvenRow
    <3>4. ASSUME NEW x \in Requests, sessions'[x] # None
          PROVE  /\ SessionFields \subseteq DOMAIN sessions'[x]
                 /\ sessions[x] # None /\ sessions'[x].user = sessions[x].user
                 /\ sessions'[x].era = sessions[x].era
                 /\ sessions'[x].method = "enrollment" => sessions[x].method = "enrollment"
      <4>1. CASE x = s
        BY <1>3, <3>3, <4>1
      <4>2. CASE x # s
        BY <3>1, <3>4, <4>2 DEF AccountsInv, SessionInv
      <4>3. QED
        BY <4>1, <4>2
    <3>5. QED
      BY <1>1, <3>2, <3>4 DEF AccountsInv, SessionInv
  <2>3. QED
    BY <1>1, <1>2, <2>1, <2>2 DEF AccountsInv
<1>4. CASE UNCHANGED <<factors, sessions>>
  BY <1>1, <1>2, <1>4, SameFactors, SameSessions DEF AccountsInv
<1>5. QED
  BY <1>3, <1>4 DEF CommitStepUp

LEMMA CommitEnrollmentKeeps ==
    ASSUME AccountsInv, NEW r \in Requests, CommitEnrollment(r) PROVE AccountsInv'
<1> DEFINE u == req[r].user
<1> DEFINE row == [account[u] EXCEPT !.mfa = TRUE]
<1>1. /\ req[r].at = "limited" /\ u \in Users /\ Ends(r)
      /\ UNCHANGED <<now, setupVars, era>>
  BY DEF CommitEnrollment, AccountsInv, RequestInv
<1>2. RequestInv'
  BY <1>1, Ended
<1>3. CASE UNCHANGED <<factors, sessions>>
  BY <1>1, <1>2, <1>3, SameFactors, SameSessions, SameSetup DEF AccountsInv
<1>4. ASSUME MayEnroll(u, req[r].session), NEW code \in Codes,
             Activate(u, pending[u].secret, code, r),
             account' = [account EXCEPT ![u].mfa = TRUE],
             sessions' = [s \in Requests |->
                 IF sessions[s] # None /\ sessions[s].user = u THEN None ELSE sessions[s]]
      PROVE  AccountsInv'
  <2>1. ~account[u].mfa /\ account[u].exists /\ code.step \in Int
    BY <1>4 DEF MayEnroll, Codes
  <2>2. /\ row \in [exists : BOOLEAN, mfa : BOOLEAN, member : BOOLEAN] /\ row.mfa /\ row.exists
        /\ account' = [account EXCEPT ![u] = row]
    BY ZenonT(100), <1>1, <1>4, <2>1 DEF AccountsInv, FactorInv, FactorTypes
  <2> HIDE DEF row
  <2>3. FactorInv' /\ StepsUsedOnce' /\ RecoverySpentOnce'
    BY <1>1, <1>4, <2>1, <2>2, Activated
  <2>4. account' = [x \in Users |-> IF x = u THEN row ELSE account[x]]
    BY <1>1, <2>2 DEF AccountsInv, FactorInv, FactorTypes
  <2>5. SetupInv'
    BY <1>1, <2>1, <2>4 DEF AccountsInv, SetupInv
  <2>6. SessionInv'
    BY <1>1, <1>4, <2>2, <2>4 DEF AccountsInv, SessionInv
  <2>7. QED
    BY <1>1, <1>2, <2>3, <2>5, <2>6 DEF AccountsInv
<1>5. QED
  BY <1>3, <1>4 DEF CommitEnrollment

(* Sessions, access, retention and time.                                   *)

LEMMA UseKeeps == ASSUME AccountsInv, NEW s \in Requests, Use(s) PROVE AccountsInv'
  BY UseSession, SameFactors, SameSetup, SameRequests DEF Use, AccountsInv

LEMMA SignOutKeeps == ASSUME AccountsInv, NEW s \in Requests, SignOut(s) PROVE AccountsInv'
  BY SignOutSession, SameFactors, SameSetup, SameRequests DEF SignOut, AccountsInv

LEMMA AccessChangedKeeps == ASSUME AccountsInv, NEW u \in Users, AccessChanged(u) PROVE AccountsInv'
<1>1. UNCHANGED <<now, setupVars>>
  BY DEF AccessChanged
<1>2. SetupInv'
  BY <1>1, AccessChangedFactor DEF AccountsInv, SetupInv
<1>3. SessionInv'
  BY AccessChangedFactor DEF AccessChanged, AccountsInv, SessionInv, RequestInv
<1>4. QED
  BY <1>1, <1>2, <1>3, AccessChangedFactor, AccessChangedRequest DEF AccountsInv

LEMMA PurgeExpiredKeeps == ASSUME AccountsInv, PurgeExpired PROVE AccountsInv'
<1>1. UNCHANGED <<now, visit, setupLock, activated, account, active, recovery, accepted, spent,
                  req, era>>
  BY DEF PurgeExpired
<1>2. SetupInv'
  BY <1>1 DEF PurgeExpired, AccountsInv, SetupInv
<1>3. FactorInv'
  BY ZenonT(60), <1>1 DEF PurgeExpired, AccountsInv, FactorInv, FactorTypes, Enabled, CodeGone, RecoveryGone
<1>4. SessionInv'
  BY <1>1 DEF PurgeExpired, AccountsInv, SessionInv
<1>5. QED
  BY <1>1, <1>2, <1>3, <1>4, SameRequests DEF AccountsInv, StepsUsedOnce, RecoverySpentOnce

LEMMA TickKeeps == ASSUME AccountsInv, Tick PROVE AccountsInv'
  BY SameFactors, SameSetup, SameSessions, SameRequests DEF Tick, AccountsInv

-----------------------------------------------------------------------------

LEMMA InitHolds == Init => AccountsInv
<1>1. Init => SetupInv
  BY DEF Init, SetupInv
<1>2. Init => SessionInv /\ RequestInv
  BY DEF Init, SessionInv, RequestInv, RequestFields
<1>3. QED
  BY <1>1, <1>2, InitFactor DEF Init, AccountsInv, StepsUsedOnce, RecoverySpentOnce

\* Every step of visitors, requests, Owners, retention and time keeps it.
LEMMA StepKeeps == AccountsInv /\ [Next]_vars => AccountsInv'
<1>1. ASSUME AccountsInv, Next PROVE AccountsInv'
  BY <1>1, AskAccessKeeps, GrantAccessKeeps, BeginPrepareKeeps, EndPrepareKeeps, AskFinishKeeps,
     BeginFinishKeeps, CommitFinishKeeps, AskLoginKeeps, AskStepUpKeeps, AskEnrollmentKeeps,
     BeginLoginKeeps, CommitLoginKeeps, CommitStepUpKeeps, CommitEnrollmentKeeps, UseKeeps,
     SignOutKeeps, AccessChangedKeeps, PurgeExpiredKeeps, TickKeeps
     DEF Next
<1>2. ASSUME AccountsInv, UNCHANGED vars PROVE AccountsInv'
  BY <1>2, SameFactors, SameSetup, SameSessions, SameRequests DEF vars, AccountsInv
<1>3. QED
  BY <1>1, <1>2

\* The invariant holds of everything that can happen: what is accepted stays
\* within what was spent, and sessions and requests within the rows they were
\* made from.
THEOREM Invariance == Spec => []AccountsInv
<1>1. QED
  BY InitHolds, StepKeeps, PTL DEF Spec

\* verifyTotp and consumeFactor: no one-time code and no recovery code proves
\* anything twice, whichever requests present it and however they interleave.
THEOREM CodesWorkOnce == Spec => []CodesUsedOnce
<1>1. AccountsInv => CodesUsedOnce
  BY DEF AccountsInv, CodesUsedOnce
<1>2. QED
  BY <1>1, Invariance, PTL

\* finishSetup: an installation gets one Owner by setup, however many visitors
\* hold a setup session.
THEOREM OneOwnerBySetup == Spec => []SetupOnce
<1>1. ASSUME AccountsInv PROVE SetupOnce
  <2>1. CASE activated = {}
    BY <2>1, FS_EmptySet DEF SetupOnce
  <2>2. CASE activated # {}
    <3>1. PICK b : b \in activated
      BY <2>2
    <3>2. activated = {b}
      BY <1>1, <3>1 DEF AccountsInv, SetupInv
    <3>3. QED
      BY <3>2, FS_Singleton DEF SetupOnce
  <2>3. QED
    BY <2>1, <2>2
<1>2. QED
  BY <1>1, Invariance, PTL

\* mfa.ts finish() and the hook of identity.ts: an account with a second factor
\* has no pending secret and no session that was opened without the factor.
THEOREM NothingLeftOfEnrollment == Spec => []EnrollmentEnds
<1>1. AccountsInv => EnrollmentEnds
  BY DEF AccountsInv, FactorInv, Enabled, SessionInv, EnrollmentEnds
<1>2. QED
  BY <1>1, Invariance, PTL

\* login's FOR SHARE lock and saveMember's deletion of sessions: no session was
\* opened under a membership that has changed since.
THEOREM SessionsAreCurrent == Spec => []SessionsSeeCurrentAccess
<1>1. AccountsInv => SessionsSeeCurrentAccess
  BY DEF AccountsInv, SessionInv, SessionsSeeCurrentAccess
<1>2. QED
  BY <1>1, Invariance, PTL

-----------------------------------------------------------------------------
(* What a recent proof is worth.                                           *)

\* A session is opened once, by the request whose name it has, so a renewed
\* proof that is under way still finds its own session or none.
ProvenInv ==
    /\ \A s \in Requests : sessions[s] # None => req[s].at = "done"
    /\ \A r \in Requests : req[r].at = "limited" /\ req[r].op = "step_up" =>
          LET s == req[r].session IN
          /\ s \in Requests /\ req[s].at = "done"
          /\ sessions[s] # None => sessions[s].user = req[r].user
    /\ \A s \in Requests : sessions[s] # None /\ sessions[s].method = "totp" =>
          \E a \in accepted : /\ a.user = sessions[s].user
                              /\ a.session = s
                              /\ a.at = sessions[s].verified

\* A step that opens no session and renews no proof.
Follows ==
    /\ accepted \subseteq accepted'
    /\ \A s \in Requests : sessions'[s] # None =>
          /\ sessions[s] # None /\ sessions'[s].user = sessions[s].user
          /\ sessions'[s].method = sessions[s].method
          /\ sessions'[s].verified = sessions[s].verified
    /\ \A r \in Requests : req[r].at = "done" => req'[r].at = "done"
    /\ \A r \in Requests : req'[r].at = "limited" /\ req'[r].op = "step_up" =>
          \/ req'[r] = req[r]
          \/ /\ req'[r].session \in Requests /\ sessions[req'[r].session] # None
             /\ sessions[req'[r].session].user = req'[r].user

LEMMA FollowsKeeps == ASSUME ProvenInv, Follows PROVE ProvenInv'
<1>1. \A s \in Requests : sessions'[s] # None => req'[s].at = "done"
  BY DEF ProvenInv, Follows
<1>2. ASSUME NEW r \in Requests, req'[r].at = "limited", req'[r].op = "step_up"
      PROVE  LET s == req'[r].session IN
             /\ s \in Requests /\ req'[s].at = "done"
             /\ sessions'[s] # None => sessions'[s].user = req'[r].user
  BY <1>2 DEF ProvenInv, Follows
<1>3. ASSUME NEW s \in Requests, sessions'[s] # None, sessions'[s].method = "totp"
      PROVE  \E a \in accepted' : /\ a.user = sessions'[s].user
                                  /\ a.session = s
                                  /\ a.at = sessions'[s].verified
  BY <1>3 DEF ProvenInv, Follows
<1>4. QED
  BY <1>1, <1>2, <1>3 DEF ProvenInv

LEMMA SameSessionsFollow ==
    ASSUME accepted \subseteq accepted', UNCHANGED <<sessions, req>> PROVE Follows
  BY DEF Follows

LEMMA DroppedFollow ==
    ASSUME accepted \subseteq accepted', UNCHANGED req,
           \A s \in Requests : sessions'[s] \in {None, sessions[s]}
    PROVE  Follows
  BY DEF Follows

LEMMA RequestEnds ==
    ASSUME AccountsInv, NEW r \in Requests, Ends(r)
    PROVE  /\ req'[r].at = "done"
           /\ \A x \in Requests \ {r} : req'[x] = req[x]
  BY DEF AccountsInv, RequestInv

LEMMA EndFollows ==
    ASSUME AccountsInv, NEW r \in Requests, Ends(r), accepted \subseteq accepted',
           \A s \in Requests : sessions'[s] \in {None, sessions[s]}
    PROVE  Follows
  BY RequestEnds DEF Follows

LEMMA AskFollows ==
    ASSUME AccountsInv, NEW r \in Requests, NEW op, NEW u, NEW s, Attempt(r, op, u, s),
           op = "step_up" => s \in Requests /\ sessions[s] # None /\ sessions[s].user = u,
           \A x \in Requests : sessions'[x] # None =>
              /\ sessions[x] # None /\ sessions'[x].user = sessions[x].user
              /\ sessions'[x].method = sessions[x].method
              /\ sessions'[x].verified = sessions[x].verified
    PROVE  Follows
<1> DEFINE p == [Idle EXCEPT !.at = "limited", !.op = op, !.user = u, !.session = s]
<1> DEFINE q == [Idle EXCEPT !.at = "done"]
<1>1. /\ p.at = "limited" /\ p.op = op /\ p.user = u /\ p.session = s
      /\ q.at = "done" /\ req[r].at = "idle" /\ UNCHANGED accepted
  BY DEF Attempt
<1>2. req' = [req EXCEPT ![r] = p] \/ req' = [req EXCEPT ![r] = q]
  BY DEF Attempt
<1> HIDE DEF p, q
<1>3. /\ req'[r] \in {p, q}
      /\ \A x \in Requests \ {r} : req'[x] = req[x]
  BY <1>2 DEF AccountsInv, RequestInv
<1>4. QED
  BY <1>1, <1>3 DEF Follows

\* A session is opened by the sign-in r.
LEMMA OpenedIsProven ==
    ASSUME AccountsInv, ProvenInv, NEW r \in Requests, req[r].at = "begun", Ends(r),
           accepted \subseteq accepted', NEW n, sessions' = [sessions EXCEPT ![r] = n],
           n.method = "totp" => \E a \in accepted' : /\ a.user = n.user
                                                     /\ a.session = r
                                                     /\ a.at = n.verified
    PROVE  ProvenInv'
<1>1. /\ req'[r].at = "done"
      /\ \A x \in Requests \ {r} : req'[x] = req[x]
  BY RequestEnds
<1>2. /\ sessions'[r] = n
      /\ \A x \in Requests \ {r} : sessions'[x] = sessions[x]
  BY DEF AccountsInv, SessionInv
<1>3. \A s \in Requests : sessions'[s] # None => req'[s].at = "done"
  BY <1>1, <1>2 DEF ProvenInv
<1>4. ASSUME NEW x \in Requests, req'[x].at = "limited", req'[x].op = "step_up"
      PROVE  LET s == req'[x].session IN
             /\ s \in Requests /\ req'[s].at = "done"
             /\ sessions'[s] # None => sessions'[s].user = req'[x].user
  <2>1. x # r /\ req'[x] = req[x]
    BY <1>1, <1>4
  <2>2. req[x].session \in Requests /\ req[x].session # r
    BY <1>4, <2>1 DEF ProvenInv
  <2>3. QED
    BY <1>1, <1>2, <1>4, <2>1, <2>2 DEF ProvenInv
<1>5. ASSUME NEW s \in Requests, sessions'[s] # None, sessions'[s].method = "totp"
      PROVE  \E a \in accepted' : /\ a.user = sessions'[s].user
                                  /\ a.session = s
                                  /\ a.at = sessions'[s].verified
  <2>1. CASE s = r
    BY <1>2, <1>5, <2>1
  <2>2. CASE s # r
    BY <1>2, <1>5, <2>2 DEF ProvenInv
  <2>3. QED
    BY <2>1, <2>2
<1>6. QED
  BY <1>3, <1>4, <1>5 DEF ProvenInv

LEMMA LoginIsProven ==
    ASSUME AccountsInv, ProvenInv, NEW r \in Requests, CommitLogin(r) PROVE ProvenInv'
<1>1. req[r].at = "begun" /\ Ends(r)
  BY DEF CommitLogin
<1>2. ASSUME NEW code \in Codes, ConsumeCode(req[r].user, code, r, r), Opens(r, "totp")
      PROVE  ProvenInv'
  <2> DEFINE n == SessionOf(req[r].user, "totp", req[r].era)
  <2> DEFINE a == Acceptance(req[r].user, code.step, r, r)
  <2>1. n.user = a.user /\ a.session = r /\ a.at = n.verified
    BY DEF SessionOf, Acceptance
  <2>2. sessions' = [sessions EXCEPT ![r] = n] /\ accepted' = accepted \cup {a}
    BY <1>2 DEF Opens, ConsumeCode
  <2> HIDE DEF n, a
  <2>3. QED
    BY <1>1, <2>1, <2>2, OpenedIsProven
<1>3. ASSUME NEW method \in {"recovery", "enrollment"}, Opens(r, method), UNCHANGED accepted
      PROVE  ProvenInv'
  <2> DEFINE n == SessionOf(req[r].user, method, req[r].era)
  <2>1. n.method # "totp"
    BY <1>3 DEF SessionOf
  <2>2. sessions' = [sessions EXCEPT ![r] = n]
    BY <1>3 DEF Opens
  <2> HIDE DEF n
  <2>3. QED
    BY <1>1, <1>3, <2>1, <2>2, OpenedIsProven
<1>4. CASE UNCHANGED <<factors, sessions>>
  BY <1>1, <1>4, EndFollows, FollowsKeeps
<1>5. QED
  BY <1>2, <1>3, <1>4 DEF CommitLogin, LoginWithFactor, LoginToEnroll, ConsumeRecovery

LEMMA StepUpIsProven ==
    ASSUME AccountsInv, ProvenInv, NEW r \in Requests, CommitStepUp(r) PROVE ProvenInv'
<1> DEFINE s == req[r].session
<1> DEFINE row == [[sessions[s] EXCEPT !.verified = now] EXCEPT !.method = "totp"]
<1>1. Ends(r) /\ s \in Requests /\ req[s].at = "done" /\ s # r
  BY DEF CommitStepUp, ProvenInv
<1>2. CASE UNCHANGED <<factors, sessions>>
  BY <1>1, <1>2, EndFollows, FollowsKeeps
<1>3. ASSUME sessions[s] # None, NEW code \in Codes, ConsumeCode(req[r].user, code, r, s),
             sessions' = [sessions EXCEPT ![s].verified = now, ![s].method = "totp"]
      PROVE  ProvenInv'
  <2> DEFINE n == Acceptance(req[r].user, code.step, r, s)
  <2>1. sessions[s].user = req[r].user
    BY <1>3 DEF CommitStepUp, ProvenInv
  <2>2. row.user = sessions[s].user /\ row.verified = now
    <3>1. SessionFields \subseteq DOMAIN sessions[s]
      BY <1>1, <1>3 DEF AccountsInv, SessionInv
    <3>2. QED
      BY <3>1, ProvenRow
  <2>3. /\ sessions'[s] = row
        /\ \A x \in Requests \ {s} : sessions'[x] = sessions[x]
    BY <1>1, <1>3 DEF AccountsInv, SessionInv
  <2>4. accepted' = accepted \cup {n} /\ n.user = req[r].user /\ n.session = s /\ n.at = now
    BY <1>3 DEF ConsumeCode, Acceptance
  <2>5. /\ req'[r].at = "done"
        /\ \A x \in Requests \ {r} : req'[x] = req[x]
    BY <1>1, RequestEnds
  <2> HIDE DEF row, n, s
  <2>6. \A x \in Requests : sessions'[x] # None => req'[x].at = "done"
    BY <1>1, <2>3, <2>5 DEF ProvenInv
  <2>7. ASSUME NEW x \in Requests, req'[x].at = "limited", req'[x].op = "step_up"
        PROVE  LET t == req'[x].session IN
               /\ t \in Requests /\ req'[t].at = "done"
               /\ sessions'[t] # None => sessions'[t].user = req'[x].user
    <3>1. x # r /\ req'[x] = req[x]
      BY <2>5, <2>7
    <3>2. /\ req[x].session \in Requests /\ req[req[x].session].at = "done"
          /\ sessions[req[x].session] # None => sessions[req[x].session].user = req[x].user
      BY <2>7, <3>1 DEF ProvenInv
    <3>3. req'[req[x].session].at = "done"
      BY <2>5, <3>2
    <3>4. sessions'[req[x].session] # None => sessions'[req[x].session].user = req[x].user
      BY <1>3, <2>2, <2>3, <3>2
    <3>5. QED
      BY <3>1, <3>2, <3>3, <3>4
  <2>8. ASSUME NEW x \in Requests, sessions'[x] # None, sessions'[x].method = "totp"
        PROVE  \E a \in accepted' : /\ a.user = sessions'[x].user
                                    /\ a.session = x
                                    /\ a.at = sessions'[x].verified
    <3>1. CASE x = s
      BY <2>1, <2>2, <2>3, <2>4, <3>1
    <3>2. CASE x # s
      BY <2>3, <2>4, <2>8, <3>2 DEF ProvenInv
    <3>3. QED
      BY <3>1, <3>2
  <2>9. QED
    BY <2>6, <2>7, <2>8 DEF ProvenInv
<1>4. QED
  BY <1>2, <1>3 DEF CommitStepUp

LEMMA EnrollmentFollows ==
    ASSUME AccountsInv, NEW r \in Requests, CommitEnrollment(r) PROVE Follows
<1>1. accepted \subseteq accepted'
  BY DEF CommitEnrollment, Activate
<1>2. \A s \in Requests : sessions'[s] \in {None, sessions[s]}
  BY DEF CommitEnrollment
<1>3. QED
  BY <1>1, <1>2, EndFollows DEF CommitEnrollment

LEMMA BeginLoginFollows ==
    ASSUME AccountsInv, NEW r \in Requests, BeginLogin(r) PROVE Follows
<1> DEFINE q == [req[r] EXCEPT !.at = "begun", !.fresh = account[req[r].user].mfa,
                               !.era = era[req[r].user]]
<1>1. UNCHANGED <<sessions, accepted>> /\ req[r].at = "limited"
  BY DEF BeginLogin
<1>2. CASE req' = [req EXCEPT ![r] = q]
  <2>1. q.at = "begun"
    BY BegunRow DEF AccountsInv, RequestInv
  <2> HIDE DEF q
  <2>2. /\ req'[r] = q
        /\ \A x \in Requests \ {r} : req'[x] = req[x]
    BY <1>2 DEF AccountsInv, RequestInv
  <2>3. QED
    BY <1>1, <2>1, <2>2 DEF Follows
<1>3. CASE Ends(r)
  BY <1>1, <1>3, EndFollows
<1>4. QED
  BY <1>2, <1>3 DEF BeginLogin

LEMMA AskStepUpFollows ==
    ASSUME AccountsInv, NEW r \in Requests, NEW s \in Requests, AskStepUp(r, s) PROVE Follows
<1>1. sessions[s] # None /\ sessions' = Touched(s)
  BY DEF AskStepUp, Alive
<1>2. Attempt(r, "step_up", sessions[s].user, s)
  BY DEF AskStepUp
<1>3. QED
  BY <1>1, <1>2, AskFollows, TouchedRows DEF AccountsInv

LEMMA UseFollows == ASSUME AccountsInv, NEW s \in Requests, Use(s) PROVE Follows
<1>1. sessions[s] # None /\ sessions' = Touched(s) /\ UNCHANGED <<req, accepted>>
  BY DEF Use, Alive
<1>2. QED
  BY <1>1, TouchedRows DEF AccountsInv, Follows

LEMMA VisitFollows ==
    ASSUME AccountsInv, NEW b \in Browsers,
           \/ AskAccess(b) \/ GrantAccess(b) \/ BeginPrepare(b) \/ EndPrepare(b)
           \/ AskFinish(b) \/ BeginFinish(b) \/ CommitFinish(b)
    PROVE  Follows
  BY SameSessionsFollow
     DEF AskAccess, GrantAccess, BeginPrepare, EndPrepare, AskFinish, BeginFinish, CommitFinish,
         SetupAttempt, Activate

LEMMA OthersFollow ==
    ASSUME AccountsInv,
           \/ \E s \in Requests : SignOut(s)
           \/ \E u \in Users : AccessChanged(u)
           \/ PurgeExpired \/ Tick
    PROVE  Follows
<1>1. UNCHANGED <<req, accepted>>
  BY DEF SignOut, AccessChanged, PurgeExpired, Tick
<1>2. \A s \in Requests : sessions'[s] \in {None, sessions[s]}
  BY DEF SignOut, AccessChanged, PurgeExpired, Tick, AccountsInv, SessionInv
<1>3. QED
  BY <1>1, <1>2, DroppedFollow

LEMMA ProvenStep == ASSUME AccountsInv, ProvenInv, [Next]_vars PROVE ProvenInv'
<1>1. ASSUME NEW r \in Requests, NEW u \in Users, AskLogin(r, u) PROVE ProvenInv'
  BY <1>1, AskFollows, FollowsKeeps DEF AskLogin
<1>2. ASSUME NEW r \in Requests, NEW s \in Requests, AskEnrollment(r, s) PROVE ProvenInv'
  BY <1>2, AskFollows, FollowsKeeps DEF AskEnrollment
<1>3. CASE UNCHANGED vars
  BY <1>3, SameSessionsFollow, FollowsKeeps DEF vars
<1>4. CASE Next
  BY <1>1, <1>2, <1>4, VisitFollows, AskStepUpFollows, BeginLoginFollows, LoginIsProven,
     StepUpIsProven, EnrollmentFollows, UseFollows, OthersFollow, FollowsKeeps DEF Next
<1>5. QED
  BY <1>3, <1>4

\* stepUp and login: an Owner's change with a recent proof rests on a one-time
\* code of that very account, accepted for that very session at the time its
\* row says.
THEOREM RecentProofIsProven == Spec => []RecentIsProven
<1>1. Init => ProvenInv
  BY DEF Init, ProvenInv
<1>2. AccountsInv /\ ProvenInv /\ [Next]_vars => ProvenInv'
  BY ProvenStep
<1>3. ProvenInv => RecentIsProven
  BY DEF ProvenInv, RecentIsProven, Recent, Alive
<1>4. QED
  BY <1>1, <1>2, <1>3, Invariance, PTL DEF Spec

(* The limit of attempts.  Each request that passed was counted in a bucket  *)
(* of its account; the bucket of the current window still counts them all,   *)
(* whatever retention deletes, and an earlier window takes no more requests. *)

Key(p) == [win |-> p.win, act |-> p.act, on |-> p.user]
Together(p) == {x \in Requests : passed[x] = p}

Covered(p) ==
    /\ p.win \in Nat /\ p.win <= Window
    /\ IsFiniteSet(Together(p)) /\ Cardinality(Together(p)) <= RateLimit
    /\ p.win = Window => /\ Key(p) \in DOMAIN hits
                         /\ Cardinality(Together(p)) <= hits[Key(p)]

AttemptInv ==
    /\ passed = [r \in Requests |-> passed[r]]
    /\ \A b \in DOMAIN hits : hits[b] \in Nat
    /\ \A r \in Requests : req[r].at = "idle" => passed[r] = None
    /\ \A p \in {passed[r] : r \in Requests} \ {None} : Covered(p)

\* What every step but an attempt keeps: the counts of the window it is in, and
\* a request that has started has started.
CountsStay ==
    /\ \A b \in DOMAIN hits' : hits'[b] \in Nat
    /\ \A b \in DOMAIN hits : b.win = Window' =>
          b \in DOMAIN hits' /\ hits[b] <= hits'[b]
    /\ \A r \in Requests : req'[r].at = "idle" => req[r].at = "idle"

LEMMA WindowOf == ASSUME now \in Nat PROVE Window \in Nat
  BY DEF Window

LEMMA NextWindow == ASSUME now \in Nat, now' = now + 1 PROVE Window' \in Nat /\ Window <= Window'
<1>1. \A a \in Nat, w \in Nat \ {0} :
          (a \div w) \in Nat /\ ((a + 1) \div w) \in Nat /\ (a \div w) <= ((a + 1) \div w)
  OBVIOUS
<1>2. QED
  BY <1>1 DEF Window

LEMMA CurrentIsKept == ASSUME now \in Nat, NEW b, b.win = Window PROVE BucketExpiry(b) >= now
<1>1. \A a \in Nat, w \in Nat \ {0} : ((a \div w) + 2) * w >= a
  OBVIOUS
<1>2. QED
  BY <1>1 DEF Window, BucketExpiry

LEMMA CoveredStays ==
    ASSUME AttemptInv, CountsStay, NEW p, Covered(p), Together(p)' = Together(p),
           Window \in Nat, Window' \in Nat, Window <= Window'
    PROVE  Covered(p)'
<1>1. Cardinality(Together(p)) \in Nat
  BY FS_CardinalityType DEF Covered
<1>2. p.win \in Nat /\ p.win <= Window'
  BY DEF Covered
<1>3. ASSUME p.win = Window'
      PROVE  Key(p) \in DOMAIN hits' /\ Cardinality(Together(p)) <= hits'[Key(p)]
  <2>1. p.win = Window
    BY <1>2, <1>3 DEF Covered
  <2>2. Key(p) \in DOMAIN hits /\ Cardinality(Together(p)) <= hits[Key(p)]
    BY <2>1 DEF Covered
  <2>3. Key(p) \in DOMAIN hits' /\ hits[Key(p)] <= hits'[Key(p)]
    BY <1>3, <2>2 DEF CountsStay, Key
  <2>4. hits[Key(p)] \in Nat /\ hits'[Key(p)] \in Nat
    BY <2>2, <2>3 DEF AttemptInv, CountsStay
  <2>5. QED
    BY <1>1, <2>2, <2>3, <2>4
<1>4. QED
  BY <1>2, <1>3 DEF Covered

LEMMA StayKeeps ==
    ASSUME AttemptInv, CountsStay, UNCHANGED passed,
           Window \in Nat, Window' \in Nat, Window <= Window'
    PROVE  AttemptInv'
<1>1. \A p : Together(p)' = Together(p)
  BY DEF Together
<1>2. \A p \in {passed'[r] : r \in Requests} \ {None} : Covered(p)'
  BY <1>1, CoveredStays DEF AttemptInv
<1>3. QED
  BY <1>2 DEF AttemptInv, CountsStay

LEMMA CountedGrows ==
    ASSUME AttemptInv, NEW bs, NEW b \in bs
    PROVE  /\ \A x \in DOMAIN Counted(bs) : Counted(bs)[x] \in Nat
           /\ \A x \in DOMAIN hits : x \in DOMAIN Counted(bs) /\ hits[x] <= Counted(bs)[x]
           /\ b \in DOMAIN Counted(bs)
           /\ ~ Blocked(bs) => /\ Counted(bs)[b] <= RateLimit
                               /\ Counted(bs)[b] = Hits(b) + 1
           /\ Hits(b) \in Nat
<1>1. \A x : Hits(x) \in Nat
  BY DEF AttemptInv, Hits
<1>2. DOMAIN Counted(bs) = DOMAIN hits \cup bs
  BY DEF Counted
<1>3. \A x \in DOMAIN hits \cup bs :
          Counted(bs)[x] = IF x \in bs /\ Hits(x) <= RateLimit THEN Hits(x) + 1 ELSE Hits(x)
  BY DEF Counted
<1>4. \A x \in DOMAIN hits : Hits(x) = hits[x]
  BY DEF Hits
<1>5. RateLimit \in Nat
  OBVIOUS
<1>6. ASSUME ~ Blocked(bs) PROVE Counted(bs)[b] <= RateLimit /\ Counted(bs)[b] = Hits(b) + 1
  <2>1. ~ (Counted(bs)[b] > RateLimit)
    BY <1>6 DEF Blocked
  <2>2. QED
    BY <1>1, <1>3, <1>5, <2>1
<1>7. QED
  BY <1>1, <1>2, <1>3, <1>4, <1>6

\* One more request goes on together with those counted before it.
LEMMA AttemptKeeps ==
    ASSUME AccountsInv, AttemptInv, NEW r \in Requests, NEW op, NEW u, NEW s, Attempt(r, op, u, s)
    PROVE  AttemptInv'
<1>1. PICK n : n = [win |-> Window, act |-> op, user |-> u]
  OBVIOUS
<1> DEFINE bs == Buckets(op, u, IpOf[r])
<1>2. /\ hits' = Counted(bs) /\ UNCHANGED now
      /\ passed' = IF Blocked(bs) THEN passed ELSE [passed EXCEPT ![r] = n]
      /\ req[r].at = "idle"
  BY <1>1 DEF Attempt
<1>3. \A x \in Requests : req'[x].at = "idle" => x # r /\ req[x].at = "idle"
  BY DEF Attempt, AccountsInv, RequestInv
<1>4. Key(n) \in bs /\ n.win = Window
  BY <1>1 DEF Key, Buckets
<1>5. Window' = Window /\ Window \in Nat
  BY <1>2, WindowOf DEF AccountsInv, Window
<1> HIDE DEF bs
<1>6. CountsStay
  BY <1>2, <1>3, <1>4, CountedGrows DEF CountsStay
<1>7. CASE passed' = passed
  BY <1>5, <1>6, <1>7, StayKeeps
<1>8. CASE ~ Blocked(bs) /\ n # None
  <2>1. passed[r] = None /\ passed' = [x \in Requests |-> IF x = r THEN n ELSE passed[x]]
    BY <1>2, <1>8 DEF AttemptInv
  <2>2. Key(n) \in DOMAIN hits' /\ hits'[Key(n)] <= RateLimit /\ hits'[Key(n)] = Hits(Key(n)) + 1
    BY <1>2, <1>4, <1>8, CountedGrows
  <2>3. Hits(Key(n)) \in Nat
    BY <1>4, CountedGrows
  <2>4. Together(n)' = Together(n) \cup {r} /\ r \notin Together(n)
    BY <1>8, <2>1 DEF Together
  <2>5. /\ IsFiniteSet(Together(n)) /\ Cardinality(Together(n)) \in Nat
        /\ Cardinality(Together(n)) <= Hits(Key(n))
    <3>1. CASE Together(n) = {}
      BY <2>3, <3>1, FS_EmptySet
    <3>2. CASE Together(n) # {}
      <4>1. Covered(n)
        BY <1>8, <3>2 DEF AttemptInv, Together
      <4>2. QED
        BY <1>4, <4>1, FS_CardinalityType DEF Covered, Hits
    <3>3. QED
      BY <3>1, <3>2
  <2>6. /\ IsFiniteSet(Together(n) \cup {r})
        /\ Cardinality(Together(n) \cup {r}) = Cardinality(Together(n)) + 1
    BY <2>4, <2>5, FS_AddElement
  <2>7. Covered(n)'
    BY <1>4, <1>5, <2>2, <2>3, <2>4, <2>5, <2>6 DEF Covered
  <2>8. ASSUME NEW p \in {passed'[x] : x \in Requests} \ {None}, p # n PROVE Covered(p)'
    <3>1. Covered(p)
      BY <2>1, <2>8 DEF AttemptInv
    <3>2. Together(p)' = Together(p)
      BY <2>1, <2>8 DEF Together
    <3>3. QED
      BY <1>5, <1>6, <3>1, <3>2, CoveredStays
  <2>9. QED
    BY <1>3, <1>6, <2>1, <2>7, <2>8 DEF AttemptInv, CountsStay
<1>9. CASE ~ Blocked(bs) /\ n = None
  BY <1>2, <1>7, <1>9 DEF AttemptInv
<1>10. QED
  BY <1>2, <1>7, <1>8, <1>9

LEMMA SameCounts ==
    ASSUME AccountsInv, AttemptInv, UNCHANGED <<now, hits, passed>>,
           \A r \in Requests : req'[r].at = "idle" => req[r].at = "idle"
    PROVE  AttemptInv'
<1>1. CountsStay
  BY DEF AttemptInv, CountsStay
<1>2. Window' = Window /\ Window \in Nat
  BY WindowOf DEF AccountsInv, Window
<1>3. QED
  BY <1>1, <1>2, StayKeeps

LEMMA VisitCounts ==
    ASSUME AccountsInv, AttemptInv, NEW b \in Browsers, NEW action, NEW who, NEW next,
           SetupAttempt(b, action, who, next)
    PROVE  AttemptInv'
<1> DEFINE bs == Buckets(action, who, IpOf[b])
<1>1. hits' = Counted(bs) /\ UNCHANGED <<now, req, passed>>
  BY DEF SetupAttempt
<1>2. PICK x : x \in bs
  BY DEF Buckets
<1>3. Window' = Window /\ Window \in Nat
  BY <1>1, WindowOf DEF AccountsInv, Window
<1> HIDE DEF bs
<1>4. CountsStay
  BY <1>1, <1>2, CountedGrows DEF CountsStay
<1>5. QED
  BY <1>1, <1>3, <1>4, StayKeeps

LEMMA PurgeCounts == ASSUME AccountsInv, AttemptInv, PurgeExpired PROVE AttemptInv'
<1>1. hits' = [b \in {x \in DOMAIN hits : BucketExpiry(x) >= now} |-> hits[b]]
  BY DEF PurgeExpired
<1>2. UNCHANGED <<now, req, passed>>
  BY DEF PurgeExpired
<1>3. Window' = Window /\ Window \in Nat
  BY <1>2, WindowOf DEF AccountsInv, Window
<1>4. \A b \in DOMAIN hits : b.win = Window => BucketExpiry(b) >= now
  BY CurrentIsKept DEF AccountsInv
<1>5. CountsStay
  BY <1>1, <1>2, <1>3, <1>4 DEF AttemptInv, CountsStay
<1>6. QED
  BY <1>2, <1>3, <1>5, StayKeeps

LEMMA TickCounts == ASSUME AccountsInv, AttemptInv, Tick PROVE AttemptInv'
<1>1. hits' = [b \in {x \in DOMAIN hits : x.win = Window'} |-> hits[b]]
  BY DEF Tick, Window
<1>2. now' = now + 1 /\ UNCHANGED <<req, passed>>
  BY DEF Tick
<1>3. Window \in Nat /\ Window' \in Nat /\ Window <= Window'
  BY <1>2, WindowOf, NextWindow DEF AccountsInv
<1>4. CountsStay
  BY <1>1, <1>2 DEF AttemptInv, CountsStay
<1>5. QED
  BY <1>2, <1>3, <1>4, StayKeeps

\* The other steps leave the counts alone, and no request starts again.
LEMMA OthersCount ==
    ASSUME AccountsInv, AttemptInv,
           \/ \E b \in Browsers : GrantAccess(b) \/ EndPrepare(b) \/ BeginFinish(b) \/ CommitFinish(b)
           \/ \E r \in Requests : \/ BeginLogin(r) \/ CommitLogin(r)
                                  \/ CommitStepUp(r) \/ CommitEnrollment(r)
           \/ \E s \in Requests : Use(s) \/ SignOut(s)
           \/ \E u \in Users : AccessChanged(u)
           \/ UNCHANGED vars
    PROVE  AttemptInv'
<1>1. UNCHANGED <<now, hits, passed>>
  BY DEF GrantAccess, EndPrepare, BeginFinish, CommitFinish, BeginLogin, CommitLogin,
         CommitStepUp, CommitEnrollment, Use, SignOut, AccessChanged, vars
<1>2. ASSUME NEW r \in Requests, BeginLogin(r)
      PROVE  \A x \in Requests : req'[x].at = "idle" => req[x].at = "idle"
  <2>1. PICK q : req' = [req EXCEPT ![r] = q] /\ q.at # "idle"
    <3> DEFINE n == [req[r] EXCEPT !.at = "begun", !.fresh = account[req[r].user].mfa,
                                   !.era = era[req[r].user]]
    <3>1. n.at = "begun"
      BY BegunRow DEF AccountsInv, RequestInv
    <3>2. req' = [req EXCEPT ![r] = n] \/ Ends(r)
      BY <1>2 DEF BeginLogin
    <3> HIDE DEF n
    <3>3. QED
      BY <3>1, <3>2
  <2>2. \A x \in Requests : req'[x] = IF x = r THEN q ELSE req[x]
    BY <2>1 DEF AccountsInv, RequestInv
  <2>3. QED
    BY <2>1, <2>2
<1>3. ASSUME NEW r \in Requests, CommitLogin(r) \/ CommitStepUp(r) \/ CommitEnrollment(r)
      PROVE  \A x \in Requests : req'[x].at = "idle" => req[x].at = "idle"
  <2>1. Ends(r)
    BY <1>3 DEF CommitLogin, CommitStepUp, CommitEnrollment
  <2>2. QED
    BY <2>1 DEF AccountsInv, RequestInv
<1>4. (~ \E r \in Requests : \/ BeginLogin(r) \/ CommitLogin(r)
                             \/ CommitStepUp(r) \/ CommitEnrollment(r)) => UNCHANGED req
  BY DEF GrantAccess, EndPrepare, BeginFinish, CommitFinish, Use, SignOut, AccessChanged, vars
<1>5. \A x \in Requests : req'[x].at = "idle" => req[x].at = "idle"
  BY <1>2, <1>3, <1>4
<1>6. QED
  BY <1>1, <1>5, SameCounts

LEMMA AttemptStep == ASSUME AccountsInv, AttemptInv, [Next]_vars PROVE AttemptInv'
<1>1. ASSUME NEW b \in Browsers, AskAccess(b) \/ BeginPrepare(b) \/ AskFinish(b)
      PROVE  AttemptInv'
  BY <1>1, VisitCounts DEF AskAccess, BeginPrepare, AskFinish
<1>2. ASSUME NEW r \in Requests, NEW u \in Users, AskLogin(r, u) PROVE AttemptInv'
  BY <1>2, AttemptKeeps DEF AskLogin
<1>3. ASSUME NEW r \in Requests, NEW s \in Requests, AskStepUp(r, s) \/ AskEnrollment(r, s)
      PROVE  AttemptInv'
  BY <1>3, AttemptKeeps DEF AskStepUp, AskEnrollment
<1>4. QED
  BY <1>1, <1>2, <1>3, OthersCount, PurgeCounts, TickCounts DEF Next

\* rateLimit, purge_expired_auth_batch: of one account no more attempts
\* than the limit go on in one window, whichever requests make them and
\* whenever retention deletes rows of buckets.
THEOREM AttemptsAreBounded == Spec => []AttemptsBounded
<1>1. Init => AttemptInv
  BY DEF Init, AttemptInv
<1>2. AccountsInv /\ AttemptInv /\ [Next]_vars => AttemptInv'
  BY AttemptStep
<1>3. AttemptInv => AttemptsBounded
  BY DEF AttemptInv, AttemptsBounded, Covered, Together
<1>4. QED
  BY <1>1, <1>2, <1>3, Invariance, PTL DEF Spec

=============================================================================
