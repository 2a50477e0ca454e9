----------------------------- MODULE ProjectsProofs -----------------------------
(***************************************************************************)
(* Theorems about Projects, for any projects, recovery and grace periods,  *)
(* limits and number of changes.                                           *)
(***************************************************************************)
EXTENDS Projects, TLAPS

ProjectRows == [slug : Slugs, deletedAt : Nat \cup {None}]

RowTypes ==
    /\ now \in Nat
    /\ project \in [Projects -> ProjectRows \cup {None}]
    /\ data \in [Projects -> 0 .. Batches]
    /\ DOMAIN holder = Projects /\ holder = [p \in Projects |-> holder[p]]

\* The purge holds only what nobody may restore any more, the restoration only
\* what the purge has not begun with, and what may be restored is whole.
Whole(p) ==
    /\ holder[p] \in {None, "restore", "purge"}
    /\ holder[p] = "purge" => Expired(p)
    /\ holder[p] = "restore" => restoring = p
    /\ restoring = p => holder[p] = "restore" /\ data[p] = Batches
    /\ p \in Live => data[p] = Batches
    /\ p \in Trash /\ now < PurgeAt(p) => data[p] = Batches

WholeInv == RowTypes /\ \A p \in Projects : Whole(p)

-----------------------------------------------------------------------------
(* Restoration and purge.                                                  *)

LEMMA RowsInit == Init => WholeInv
  BY ProjectsAssumption DEF Init, WholeInv, Whole, RowTypes, Live, Trash, Exists

\* What a step says of one project leaves the others as they are.
LEMMA OneProject ==
    ASSUME WholeInv, NEW p \in Projects, RowTypes', Whole(p)',
           now' = now,
           \A q \in Projects \ {p} :
              /\ project'[q] = project[q] /\ data'[q] = data[q] /\ holder'[q] = holder[q]
              /\ restoring' = q <=> restoring = q
    PROVE  WholeInv'
<1>1. ASSUME NEW q \in Projects \ {p} PROVE Whole(q)'
  BY DEF WholeInv, Whole, Expired, Live, Trash, Exists, PurgeAt
<1>2. QED
  BY <1>1 DEF WholeInv

\* Steps that leave the rows and the locks alone.
LEMMA RowsUntouched ==
    ASSUME WholeInv, UNCHANGED <<now, rows, locks>>
    PROVE  WholeInv'
  BY DEF WholeInv, Whole, RowTypes, Expired, Live, Trash, Exists, PurgeAt, rows, locks

\* A row is written: the project exists, is not being purged and is whole.
LEMMA RowWritten ==
    ASSUME WholeInv, NEW p \in Projects, NEW row \in ProjectRows,
           project' = [project EXCEPT ![p] = row],
           data' = [data EXCEPT ![p] = Batches],
           UNCHANGED <<now, locks>>, holder[p] = None
    PROVE  WholeInv'
<1>1. RowTypes'
  BY ProjectsAssumption DEF WholeInv, RowTypes, locks
<1>2. Whole(p)'
  BY ProjectsAssumption DEF WholeInv, Whole, RowTypes, locks
<1>3. QED
  BY <1>1, <1>2, OneProject DEF WholeInv, RowTypes, locks

LEMMA OwnerKeepsWhole ==
    ASSUME WholeInv, NEW p \in Projects, OwnerStep(p)
    PROVE  WholeInv'
<1>1. ASSUME NEW s \in Slugs, CreateProject(p, s) PROVE WholeInv'
  <2>1. [slug |-> s, deletedAt |-> None] \in ProjectRows
    BY DEF ProjectRows
  <2>2. holder[p] = None
    BY <1>1, ProjectsAssumption DEF CreateProject, Workspace, WholeInv, Whole, Expired, Trash, Exists
  <2>3. QED
    BY <1>1, <2>1, <2>2, RowWritten DEF CreateProject, locks
<1>2. ASSUME NEW s \in Slugs, UpdateProject(p, s) PROVE WholeInv'
  <2> DEFINE row == [project[p] EXCEPT !.slug = s]
  <2>1. project[p] \in ProjectRows /\ p \in Live
    BY <1>2 DEF UpdateProject, WholeInv, RowTypes, Live, Exists
  <2>2. row \in ProjectRows
    BY <2>1 DEF ProjectRows
  <2>3. project' = [project EXCEPT ![p] = row] /\ holder[p] = None
    BY <1>2, <2>1 DEF UpdateProject, Free, WholeInv, RowTypes
  <2>4. data' = [data EXCEPT ![p] = Batches]
    BY <1>2, <2>1 DEF UpdateProject, WholeInv, Whole, RowTypes
  <2> HIDE DEF row
  <2>5. QED
    BY <1>2, <2>2, <2>3, <2>4, RowWritten DEF UpdateProject
<1>3. CASE DeleteProject(p)
  <2> DEFINE row == [project[p] EXCEPT !.deletedAt = now]
  <2>1. project[p] \in ProjectRows /\ p \in Live
    BY <1>3 DEF DeleteProject, WholeInv, RowTypes, Live, Exists
  <2>2. row \in ProjectRows
    BY <2>1 DEF ProjectRows, WholeInv, RowTypes
  <2>3. project' = [project EXCEPT ![p] = row] /\ holder[p] = None
    BY <1>3, <2>1 DEF DeleteProject, Free, WholeInv, RowTypes
  <2>4. data' = [data EXCEPT ![p] = Batches]
    BY <1>3, <2>1 DEF DeleteProject, WholeInv, Whole, RowTypes
  <2> HIDE DEF row
  <2>5. QED
    BY <1>3, <2>2, <2>3, <2>4, RowWritten DEF DeleteProject
<1>4. CASE RestoreCheck(p)
  <2>1. /\ holder' = [holder EXCEPT ![p] = "restore"] /\ restoring' = p /\ restoring = None
        /\ UNCHANGED <<now, project, data>>
        /\ p \in Trash /\ now < PurgeAt(p)
    BY <1>4 DEF RestoreCheck, Held, Recoverable, Workspace, rows
  <2>2. RowTypes' /\ Whole(p)'
    BY <2>1, ProjectsAssumption DEF WholeInv, Whole, RowTypes, Live, Trash, Exists, PurgeAt
  <2>3. QED
    BY <2>1, <2>2, OneProject, ProjectsAssumption DEF WholeInv, RowTypes
<1>5. CASE RestoreProject(p)
  <2> DEFINE row == [project[p] EXCEPT !.deletedAt = None]
  <2>1. restoring = p /\ project[p] \in ProjectRows
    BY <1>5 DEF RestoreProject, WholeInv, RowTypes, Trash, Exists
  <2>2. row \in ProjectRows
    BY <2>1 DEF ProjectRows
  <2>3. /\ project' = [project EXCEPT ![p] = row] /\ restoring' = None
        /\ holder' = [holder EXCEPT ![p] = None]
        /\ UNCHANGED <<now, data>>
    BY <1>5, <2>1 DEF RestoreProject, WholeInv, RowTypes
  <2> HIDE DEF row
  <2>4. RowTypes' /\ Whole(p)'
    BY <2>1, <2>2, <2>3, ProjectsAssumption DEF WholeInv, Whole, RowTypes
  <2>5. QED
    BY <2>1, <2>3, <2>4, OneProject, ProjectsAssumption DEF WholeInv, RowTypes
<1>6. CASE UNCHANGED <<now, rows, locks>>
  BY <1>6, RowsUntouched
<1>7. QED
  BY <1>1, <1>2, <1>3, <1>4, <1>5, <1>6
  DEF OwnerStep, RotateIngestionKey, RevokeIngestionKey, CreateSourceMapToken,
      RevokeSourceMapToken, UpdateSourceMapPolicy

LEMMA PurgeKeepsWhole ==
    ASSUME WholeInv, NEW p \in Projects, PurgeLock(p) \/ PurgeBatch(p) \/ Unlock(p)
    PROVE  WholeInv'
<1>1. CASE PurgeLock(p)
  <2>1. /\ holder' = [holder EXCEPT ![p] = "purge"] /\ holder[p] = None
        /\ UNCHANGED <<now, project, data, restoring>> /\ Expired(p)
    BY <1>1 DEF PurgeLock, Purgeable, Free, rows
  <2>2. RowTypes' /\ Whole(p)'
    BY <2>1, ProjectsAssumption DEF WholeInv, Whole, RowTypes, Live, Trash, Exists, PurgeAt, Expired
  <2>3. QED
    BY <2>1, <2>2, OneProject DEF WholeInv, RowTypes
<1>2. CASE PurgeBatch(p)
  <2>1. /\ holder' = [holder EXCEPT ![p] = None] /\ holder[p] = "purge"
        /\ UNCHANGED <<now, restoring>>
        /\ Expired(p) /\ restoring # p
    BY <1>2, ProjectsAssumption DEF PurgeBatch, WholeInv, Whole
  <2>2. CASE data[p] > 0
    <3>1. data' = [data EXCEPT ![p] = @ - 1] /\ project' = project
      BY <1>2, <2>2 DEF PurgeBatch
    <3>2. RowTypes' /\ Whole(p)'
      BY <2>1, <2>2, <3>1, ProjectsAssumption
      DEF WholeInv, Whole, RowTypes, ProjectRows, Live, Trash, Exists, PurgeAt, Expired
    <3>3. QED
      BY <2>1, <3>1, <3>2, OneProject DEF WholeInv, RowTypes
  <2>3. CASE ~(data[p] > 0)
    <3>1. project' = [project EXCEPT ![p] = None] /\ data' = data
      BY <1>2, <2>3 DEF PurgeBatch
    <3>2. RowTypes' /\ Whole(p)'
      BY <2>1, <3>1, ProjectsAssumption DEF WholeInv, Whole, RowTypes, Live, Trash, Exists, Expired
    <3>3. QED
      BY <2>1, <3>1, <3>2, OneProject DEF WholeInv, RowTypes
  <2>4. QED
    BY <2>2, <2>3
<1>3. CASE Unlock(p)
  <2>1. /\ holder' = [holder EXCEPT ![p] = None]
        /\ UNCHANGED <<now, project, data>>
        /\ restoring' = IF holder[p] = "restore" THEN None ELSE restoring
    BY <1>3 DEF Unlock, rows
  <2>2. RowTypes' /\ Whole(p)'
    BY <2>1, ProjectsAssumption DEF WholeInv, Whole, RowTypes, Live, Trash, Exists, PurgeAt
  <2>3. holder[p] = "restore" => restoring = p
    BY DEF WholeInv, Whole
  <2>4. QED
    BY <2>1, <2>2, <2>3, OneProject, ProjectsAssumption DEF WholeInv, RowTypes
<1>4. QED
  BY <1>1, <1>2, <1>3

LEMMA WholeStep == ASSUME WholeInv, [Next]_vars PROVE WholeInv'
<1>1. CASE UNCHANGED <<now, rows, locks>>
  BY <1>1, RowsUntouched
<1>2. CASE Tick
  <2>1. now' = now + 1 /\ UNCHANGED <<project, data, holder, restoring>>
    BY <1>2 DEF Tick, rows, locks
  <2>2. ASSUME NEW p \in Projects PROVE Whole(p)'
    BY <2>1, ProjectsAssumption
    DEF WholeInv, Whole, RowTypes, ProjectRows, Expired, Live, Trash, Exists, PurgeAt
  <2>3. QED
    BY <2>1, <2>2 DEF WholeInv, RowTypes
<1>3. ASSUME NEW c \in Clients, RequestStep(c) PROVE WholeInv'
  <2>1. UNCHANGED <<now, rows, locks>>
    BY ZenonT(60), <1>3 DEF RequestStep, Present, IdentityExpires, ReadBody, AuthorizeAgain, Land, Fail
  <2>2. QED
    BY <2>1, RowsUntouched
<1>4. QED
  BY <1>1, <1>2, <1>3, OwnerKeepsWhole, PurgeKeepsWhole DEF Next, vars, Restart, RetainUpload

\* Whatever a restoration brings back has lost nothing to the purge.
THEOREM RestoredStaysWhole == Spec => []RestoredIsWhole
<1>1. WholeInv => RestoredIsWhole
  BY DEF WholeInv, Whole, RestoredIsWhole, Live, Exists
<1>2. QED
  BY <1>1, RowsInit, WholeStep, PTL DEF Spec

-----------------------------------------------------------------------------
(* Replaced ingestion keys.                                                *)

KeyRows ==
    [id : Nat, expires : Nat \cup {None}, revoked : BOOLEAN, replaced : Nat \cup {None}]

\* A replaced key has an end, which no later rotation moves.
Ends(k) ==
    k.replaced # None =>
        /\ k.replaced <= now
        /\ k.revoked \/ (k.expires # None /\ k.expires <= k.replaced + Grace)

KeysInv ==
    /\ now \in Nat /\ minted \in [keys : Nat, tokens : Nat] /\ DOMAIN keys = Projects
    /\ \A p \in Projects : \A k \in keys[p] : k \in KeyRows /\ Ends(k)

LEMMA KeysInit == Init => KeysInv
  BY DEF Init, KeysInv

LEMMA NewKeyEnds ==
    ASSUME minted.keys \in Nat
    PROVE  NewKey \in KeyRows /\ NewKey.replaced = None
  BY DEF NewKey, KeyRows

LEMMA RevokedKeyEnds ==
    ASSUME NEW k \in KeyRows, Ends(k)
    PROVE  [k EXCEPT !.revoked = TRUE] \in KeyRows /\ Ends([k EXCEPT !.revoked = TRUE])
  BY DEF KeyRows, Ends

LEMMA ReplacedKeyEnds ==
    ASSUME now \in Nat, NEW k \in KeyRows, Ends(k)
    PROVE  Replaced(k) \in KeyRows /\ Ends(Replaced(k))
<1> USE ProjectsAssumption DEF KeyRows, Ends
<1>1. CASE ~(~k.revoked /\ (k.expires = None \/ k.expires > now + Grace))
  BY <1>1 DEF Replaced
<1>2. CASE ~k.revoked /\ (k.expires = None \/ k.expires > now + Grace)
  <2>1. k.replaced = None
    BY <1>2
  <2>2. Replaced(k) = [k EXCEPT !.expires = now + Grace, !.replaced = now]
    BY <1>2, <2>1 DEF Replaced
  <2>3. now + Grace \in Nat /\ now + Grace # None
    OBVIOUS
  <2> DEFINE q == [k EXCEPT !.expires = now + Grace, !.replaced = now]
  <2>4. q \in KeyRows
    BY <2>3
  <2>5. q.replaced = now /\ q.expires = now + Grace
    BY DEF KeyRows
  <2> HIDE DEF q
  <2>6. Ends(q)
    BY <2>3, <2>5
  <2>7. QED
    BY <2>2, <2>4, <2>6 DEF q
<1>3. QED
  BY <1>1, <1>2

\* The keys of one project change, and nothing else that matters here.
LEMMA KeysChanged ==
    ASSUME KeysInv, NEW p \in Projects, NEW new,
           keys' = [keys EXCEPT ![p] = new], now' = now,
           minted' \in [keys : Nat, tokens : Nat],
           \A k \in new : k \in KeyRows /\ Ends(k)
    PROVE  KeysInv'
  BY DEF KeysInv, Ends

LEMMA KeysStep == ASSUME KeysInv, [Next]_vars PROVE KeysInv'
<1>1. ASSUME UNCHANGED <<now, keys>>, minted' \in [keys : Nat, tokens : Nat] PROVE KeysInv'
  BY <1>1 DEF KeysInv, Ends
<1>2. CASE UNCHANGED <<now, secrets>>
  BY <1>1, <1>2 DEF KeysInv, secrets
<1>3. CASE Tick
  BY <1>3 DEF Tick, KeysInv, Ends, KeyRows, secrets
<1>4. ASSUME NEW p \in Projects, NEW new, UNCHANGED now,
             keys' = [keys EXCEPT ![p] = new], minted' = [minted EXCEPT !.keys = @ + 1],
             \A k \in new : k = NewKey \/ (k \in KeyRows /\ Ends(k))
      PROVE  KeysInv'
  <2>1. \A k \in new : k \in KeyRows /\ Ends(k)
    BY <1>4, NewKeyEnds DEF KeysInv, Ends
  <2>2. minted' \in [keys : Nat, tokens : Nat]
    BY <1>4 DEF KeysInv
  <2>3. QED
    BY <1>4, <2>1, <2>2, KeysChanged
<1>5. ASSUME NEW p \in Projects, NEW s \in Slugs, CreateProject(p, s) PROVE KeysInv'
  <2>1. \A k \in {NewKey} : k = NewKey \/ (k \in KeyRows /\ Ends(k))
    OBVIOUS
  <2>2. QED
    BY <1>4, <1>5, <2>1 DEF CreateProject
<1>6. ASSUME NEW p \in Projects, NEW now1 \in BOOLEAN, RotateIngestionKey(p, now1) PROVE KeysInv'
  <2> DEFINE new == {IF now1 THEN [k EXCEPT !.revoked = TRUE] ELSE Replaced(k) : k \in keys[p]}
                        \cup {NewKey}
  <2>1. \A k \in new : k = NewKey \/ (k \in KeyRows /\ Ends(k))
    BY RevokedKeyEnds, ReplacedKeyEnds DEF KeysInv
  <2>2. keys' = [keys EXCEPT ![p] = new]
    BY <1>6 DEF RotateIngestionKey, KeysInv
  <2> HIDE DEF new
  <2>3. QED
    BY <1>4, <1>6, <2>1, <2>2 DEF RotateIngestionKey
<1>7. ASSUME NEW p \in Projects, NEW k \in keys[p], RevokeIngestionKey(p, k) PROVE KeysInv'
  <2>1. \A x \in Revoked(keys[p], k) : x \in KeyRows /\ Ends(x)
    BY RevokedKeyEnds DEF KeysInv, Revoked
  <2>2. QED
    BY <1>7, <2>1, KeysChanged DEF RevokeIngestionKey, KeysInv
<1>8. ASSUME NEW p \in Projects, PurgeBatch(p) PROVE KeysInv'
  <2>1. CASE UNCHANGED keys
    BY <1>1, <1>8, <2>1 DEF PurgeBatch, KeysInv
  <2>2. CASE keys' = [keys EXCEPT ![p] = {}]
    <3>1. now' = now /\ minted' \in [keys : Nat, tokens : Nat]
      BY <1>8 DEF PurgeBatch, KeysInv
    <3>2. \A k \in {} : k \in KeyRows /\ Ends(k)
      OBVIOUS
    <3>3. QED
      BY <2>2, <3>1, <3>2, KeysChanged
  <2>3. QED
    BY <1>8, <2>1, <2>2 DEF PurgeBatch
<1>9. ASSUME NEW p \in Projects,
             \/ CreateSourceMapToken(p)
             \/ \E t \in tokens[p] : RevokeSourceMapToken(p, t)
      PROVE  KeysInv'
  BY <1>1, <1>9 DEF CreateSourceMapToken, RevokeSourceMapToken, KeysInv
<1>10. ASSUME NEW p \in Projects,
              \/ OwnerStep(p) \/ PurgeLock(p) \/ PurgeBatch(p) \/ Unlock(p)
       PROVE  KeysInv'
  BY <1>2, <1>5, <1>6, <1>7, <1>8, <1>9, <1>10
  DEF OwnerStep, UpdateProject, DeleteProject, RestoreCheck, RestoreProject,
      UpdateSourceMapPolicy, PurgeLock, Unlock
<1>11. ASSUME NEW c \in Clients, RequestStep(c) PROVE KeysInv'
  <2>1. UNCHANGED <<now, secrets>>
    BY ZenonT(60), <1>11 DEF RequestStep, Present, IdentityExpires, ReadBody, AuthorizeAgain, Land, Fail
  <2>2. QED
    BY <2>1, <1>2
<1>12. QED
  BY <1>2, <1>3, <1>10, <1>11 DEF Next, vars, Restart, RetainUpload

\* No sequence of rotations keeps a replaced key alive for longer than the grace
\* period it got when it was replaced first (ingestion-keys.ts).
THEOREM ReplacedKeysStop == Spec => []ReplacedKeysEnd
<1>1. KeysInv => ReplacedKeysEnd
  <2>1. ASSUME KeysInv, NEW p \in Projects, NEW k \in keys[p], k.replaced # None, Working(k)
        PROVE  now < k.replaced + Grace
    <3>1. k \in KeyRows /\ Ends(k) /\ now \in Nat
      BY <2>1 DEF KeysInv
    <3>2. k.expires # None /\ k.expires <= k.replaced + Grace /\ k.expires > now
      BY <2>1, <3>1 DEF Ends, Working, Unexpired
    <3>3. k.expires \in Nat /\ k.replaced \in Nat
      BY <2>1, <3>1, <3>2 DEF KeyRows
    <3>4. QED
      BY <3>1, <3>2, <3>3, ProjectsAssumption
  <2>2. QED
    BY <2>1 DEF ReplacedKeysEnd
<1>2. QED
  BY <1>1, KeysInit, KeysStep, PTL DEF Spec

-----------------------------------------------------------------------------
(* Requests and their credentials.                                         *)

TokenRows == [id : Nat, expires : Nat, revoked : BOOLEAN]

Creds == [job : Jobs \cup {None}, token : Nat \cup {None}]

Requests ==
    [op : {"begin", "put", "finish", "release"}, project : Projects, cred : Creds,
     build : [binding : Bindings, job : Jobs], late : BOOLEAN, spent : BOOLEAN,
     stage : {"reading", "read", "permitted"}]

TokenTypes ==
    /\ now \in Nat /\ minted \in [keys : Nat, tokens : Nat]
    /\ DOMAIN tokens = Projects
    /\ \A p \in Projects : \A t \in tokens[p] : t \in TokenRows /\ t.id <= minted.tokens

\* A request that came too late stays too late: its credential is dead, and no
\* token made later has its id.
Honest(r) ==
    /\ r \in Requests
    /\ r.cred.job = None => r.cred.token \in Nat /\ r.cred.token <= minted.tokens
    /\ r.late => Dead(r) /\ r.stage # "permitted"

CredInv ==
    /\ TokenTypes
    /\ DOMAIN request = Clients
    /\ \A c \in Clients : request[c] # None => Honest(request[c])

LEMMA CredInit == Init => CredInv
  BY DEF Init, CredInv, TokenTypes

\* Credentials die for good.
DeathIsFinal ==
    \A r \in Requests :
        r.cred.job = None /\ r.cred.token \in Nat /\ r.cred.token <= minted.tokens /\ Dead(r)
            => Dead(r)'

LEMMA CredsAge ==
    ASSUME CredInv, TokenTypes', DeathIsFinal, minted.tokens <= minted'.tokens,
           request' = request
    PROVE  CredInv'
<1>1. ASSUME NEW c \in Clients, request[c] # None PROVE Honest(request[c])'
  <2>1. Honest(request[c])
    BY <1>1 DEF CredInv
  <2>2. CASE request[c].cred.job = None
    BY <2>1, <2>2 DEF Honest, DeathIsFinal, CredInv, TokenTypes
  <2>3. CASE request[c].cred.job # None
    BY <2>1, <2>3 DEF Honest, Dead
  <2>4. QED
    BY <2>2, <2>3
<1>2. QED
  BY <1>1 DEF CredInv

LEMMA OneRequestChanged ==
    ASSUME CredInv, NEW c \in Clients, NEW r, r = None \/ Honest(r),
           request' = [request EXCEPT ![c] = r], UNCHANGED <<now, tokens, minted>>
    PROVE  CredInv'
<1>1. TokenTypes' /\ DOMAIN request' = Clients
  BY DEF CredInv, TokenTypes
<1>2. ASSUME NEW d \in Clients, request'[d] # None PROVE Honest(request[d])'
  <2>1. Honest(request'[d])
    BY <1>2 DEF CredInv
  <2>2. QED
    BY <2>1 DEF Honest, Dead, Working, Unexpired
<1>3. QED
  BY <1>1, <1>2 DEF CredInv

LEMMA TokensAge ==
    ASSUME CredInv, UNCHANGED <<request>>,
           \/ UNCHANGED <<now, tokens>> /\ minted' \in [keys : Nat, tokens : Nat]
                /\ minted'.tokens = minted.tokens
           \/ Tick
           \/ \E p \in Projects :
                 \/ CreateSourceMapToken(p)
                 \/ \E t \in tokens[p] : RevokeSourceMapToken(p, t)
                 \/ UNCHANGED <<now, minted>> /\ tokens' = [tokens EXCEPT ![p] = {}]
    PROVE  CredInv'
<1> USE ProjectsAssumption DEF Dead, Working, Unexpired
<1>1. CASE UNCHANGED <<now, tokens>> /\ minted' \in [keys : Nat, tokens : Nat]
             /\ minted'.tokens = minted.tokens
  <2>1. TokenTypes' /\ DeathIsFinal
    BY <1>1 DEF CredInv, TokenTypes, DeathIsFinal
  <2>2. QED
    BY <1>1, <2>1, CredsAge DEF CredInv, TokenTypes
<1>2. CASE Tick
  <2>1. now' = now + 1 /\ UNCHANGED <<tokens, minted>>
    BY <1>2 DEF Tick, secrets
  <2>2. TokenTypes'
    BY <2>1 DEF CredInv, TokenTypes
  <2>3. ASSUME NEW t \in TokenRows, Working(t)' PROVE Working(t)
    BY <2>1, <2>3 DEF CredInv, TokenTypes, TokenRows
  <2>4. DeathIsFinal
    BY <2>1, <2>3 DEF DeathIsFinal, CredInv, TokenTypes, Requests
  <2>5. QED
    BY <2>1, <2>2, <2>4, CredsAge DEF CredInv, TokenTypes
<1>3. ASSUME NEW p \in Projects, CreateSourceMapToken(p) PROVE CredInv'
  <2> DEFINE t == [id |-> minted.tokens + 1, expires |-> now + TokenLife, revoked |-> FALSE]
  <2>1. /\ now' = now /\ minted' = [minted EXCEPT !.tokens = @ + 1]
        /\ tokens' = [tokens EXCEPT ![p] = @ \cup {t}]
    BY <1>3 DEF CreateSourceMapToken
  <2>2. t \in TokenRows /\ t.id = minted.tokens + 1
    BY DEF CredInv, TokenTypes, TokenRows
  <2> HIDE DEF t
  <2>3. TokenTypes' /\ minted.tokens <= minted'.tokens
    BY <2>1, <2>2 DEF CredInv, TokenTypes, TokenRows
  <2>4. DeathIsFinal
    BY <2>1, <2>2 DEF DeathIsFinal, CredInv, TokenTypes, TokenRows, Requests
  <2>5. QED
    BY <2>3, <2>4, CredsAge
<1>4. ASSUME NEW p \in Projects, NEW t \in tokens[p], RevokeSourceMapToken(p, t) PROVE CredInv'
  <2> DEFINE u == [t EXCEPT !.revoked = TRUE]
  <2>1. /\ UNCHANGED <<now, minted>>
        /\ tokens' = [tokens EXCEPT ![p] = (tokens[p] \ {t}) \cup {u}]
    BY <1>4 DEF RevokeSourceMapToken, Revoked, CredInv, TokenTypes
  <2>6. t \in TokenRows
    BY DEF CredInv, TokenTypes
  <2>2. u \in TokenRows /\ u.id = t.id /\ u.revoked
    BY <2>6 DEF TokenRows
  <2> HIDE DEF u
  <2>3. TokenTypes'
    BY <2>1, <2>2 DEF CredInv, TokenTypes
  <2>4. DeathIsFinal
    BY <2>1, <2>2 DEF DeathIsFinal, CredInv, TokenTypes, Requests
  <2>5. QED
    BY <2>1, <2>3, <2>4, CredsAge DEF CredInv, TokenTypes
<1>5. ASSUME NEW p \in Projects, UNCHANGED <<now, minted>>, tokens' = [tokens EXCEPT ![p] = {}]
      PROVE  CredInv'
  <2>1. TokenTypes' /\ DeathIsFinal
    BY <1>5 DEF CredInv, TokenTypes, DeathIsFinal, Requests
  <2>2. QED
    BY <1>5, <2>1, CredsAge DEF CredInv, TokenTypes
<1>6. QED
  BY <1>1, <1>2, <1>3, <1>4, <1>5

LEMMA RequestKeepsHonest ==
    ASSUME CredInv, NEW c \in Clients, RequestStep(c)
    PROVE  CredInv'
<1>1. UNCHANGED <<now, tokens, minted>>
  BY ZenonT(60) DEF RequestStep, Present, IdentityExpires, ReadBody, AuthorizeAgain, Land, Fail, secrets
<1> DEFINE r == request[c]
<1>2. ASSUME NEW op \in {"begin", "put", "finish", "release"}, NEW p \in Live,
             NEW cred \in Credentials(p), NEW b \in Bindings, NEW j \in Jobs,
             Present(c, op, p, cred, [binding |-> b, job |-> j])
      PROVE  CredInv'
  <2> DEFINE q == [op |-> op, project |-> p, cred |-> cred, build |-> [binding |-> b, job |-> j],
                   late |-> FALSE, spent |-> FALSE,
                   stage |-> IF op = "finish" THEN "permitted" ELSE "reading"]
  <2>1. request' = [request EXCEPT ![c] = q]
    BY <1>2 DEF Present
  <2>2. /\ cred \in Creds
        /\ cred.job = None => cred.token \in Nat /\ cred.token <= minted.tokens
    BY ProjectsAssumption
    DEF Credentials, Creds, CredInv, TokenTypes, TokenRows, Live, Exists
  <2>3. Honest(q)
    BY <2>2 DEF Honest, Requests, Live, Exists
  <2> HIDE DEF q
  <2>4. QED
    BY <1>1, <2>1, <2>3, OneRequestChanged
<1>3. ASSUME r # None PROVE Honest(r) /\ r \in Requests
  BY <1>3 DEF CredInv, Honest
<1>4. CASE IdentityExpires(c)
  <2> DEFINE q == [r EXCEPT !.spent = TRUE]
  <2>1. r # None /\ r.cred.job # None /\ r \in Requests /\ Honest(r)
    BY <1>3, <1>4 DEF IdentityExpires
  <2>2. request' = [request EXCEPT ![c] = q]
    BY <1>4 DEF IdentityExpires, CredInv
  <2>3. q \in Requests
    BY <2>1 DEF Requests
  <2>4. q.cred = r.cred /\ q.spent /\ q.late = r.late /\ q.stage = r.stage
    BY <2>1 DEF Requests
  <2> HIDE DEF q, r
  <2>5. Honest(q)
    BY <2>1, <2>3, <2>4 DEF Honest, Dead
  <2>6. QED
    BY <1>1, <2>2, <2>5, OneRequestChanged
<1>5. CASE ReadBody(c)
  <2> DEFINE q == [r EXCEPT !.stage = "read", !.late = Dead(r)]
  <2>1. r # None /\ r \in Requests /\ Honest(r)
    BY <1>3, <1>5 DEF ReadBody
  <2>2. request' = [request EXCEPT ![c] = q]
    BY <1>5 DEF ReadBody, CredInv
  <2>3. Dead(r) \in BOOLEAN
    BY <2>1 DEF Dead, Requests
  <2>4. q \in Requests
    BY <2>1, <2>3 DEF Requests
  <2>5. /\ q.cred = r.cred /\ q.spent = r.spent /\ q.project = r.project
        /\ q.late = Dead(r) /\ q.stage = "read"
    BY <2>1 DEF Requests
  <2> HIDE DEF q, r
  <2>6. Honest(q)
    BY <2>1, <2>4, <2>5 DEF Honest, Dead
  <2>7. QED
    BY <1>1, <2>2, <2>6, OneRequestChanged
<1>6. CASE AuthorizeAgain(c)
  <2> DEFINE q == [r EXCEPT !.stage = "permitted"]
  <2>1. r # None /\ r \in Requests /\ Honest(r)
    BY <1>3, <1>6 DEF AuthorizeAgain
  <2>2. \/ request' = [request EXCEPT ![c] = q] /\ StillAuthorized(r)
        \/ request' = [request EXCEPT ![c] = None]
    BY <1>6 DEF AuthorizeAgain
  <2>3. q \in Requests
    BY <2>1 DEF Requests
  <2>4. q.cred = r.cred /\ q.late = r.late
    BY <2>1 DEF Requests
  <2> HIDE DEF q, r
  <2>5. ASSUME StillAuthorized(r) PROVE ~Dead(r)
    BY <2>1, <2>5 DEF StillAuthorized, Authorized, TokenWorks, Dead
  <2>6. ASSUME StillAuthorized(r) PROVE Honest(q)
    BY <2>1, <2>3, <2>4, <2>5, <2>6 DEF Honest
  <2>7. QED
    BY <1>1, <2>2, <2>6, OneRequestChanged
<1>7. CASE Land(c) \/ Fail(c)
  BY <1>1, <1>7, OneRequestChanged DEF Land, Fail
<1>8. QED
  BY <1>2, <1>4, <1>5, <1>6, <1>7 DEF RequestStep

LEMMA CredStep == ASSUME CredInv, [Next]_vars PROVE CredInv'
<1>1. CASE UNCHANGED <<now, secrets, request>>
  BY <1>1, TokensAge DEF secrets, CredInv, TokenTypes
<1>2. CASE Tick
  BY <1>2, TokensAge DEF Tick, ci
<1>3. ASSUME NEW p \in Projects, NEW b, Restart(p, b) PROVE CredInv'
  BY <1>3 DEF Restart, CredInv, TokenTypes, secrets
<1>4. ASSUME NEW p \in Projects, OwnerStep(p) PROVE CredInv'
  <2>1. ASSUME UNCHANGED <<now, tokens, request>>, minted' = [minted EXCEPT !.keys = @ + 1]
        PROVE  CredInv'
    BY <2>1, TokensAge DEF CredInv, TokenTypes
  <2>2. ASSUME NEW s \in Slugs, CreateProject(p, s) PROVE CredInv'
    BY <2>1, <2>2 DEF CreateProject, ci
  <2>3. ASSUME NEW atOnce \in BOOLEAN, RotateIngestionKey(p, atOnce) PROVE CredInv'
    BY <2>1, <2>3 DEF RotateIngestionKey, ci
  <2>4. ASSUME NEW k \in keys[p], RevokeIngestionKey(p, k) PROVE CredInv'
    BY <2>4, TokensAge DEF RevokeIngestionKey, ci, CredInv, TokenTypes
  <2>5. CASE CreateSourceMapToken(p)
    BY <2>5, TokensAge DEF CreateSourceMapToken, ci
  <2>6. ASSUME NEW t \in tokens[p], RevokeSourceMapToken(p, t) PROVE CredInv'
    BY <2>6, TokensAge DEF RevokeSourceMapToken, ci
  <2>7. QED
    BY <1>1, <1>4, <2>2, <2>3, <2>4, <2>5, <2>6
    DEF OwnerStep, UpdateProject, DeleteProject, RestoreCheck, RestoreProject,
        UpdateSourceMapPolicy, ci
<1>5. ASSUME NEW p \in Projects, PurgeBatch(p) PROVE CredInv'
  <2>1. CASE UNCHANGED tokens
    BY <1>5, <2>1, TokensAge DEF PurgeBatch, CredInv, TokenTypes
  <2>2. CASE tokens' = [tokens EXCEPT ![p] = {}]
    BY <1>5, <2>2, TokensAge DEF PurgeBatch
  <2>3. QED
    BY <1>5, <2>1, <2>2 DEF PurgeBatch
<1>6. QED
  BY <1>1, <1>2, <1>3, <1>4, <1>5, RequestKeepsHonest
  DEF Next, vars, PurgeLock, Unlock, RetainUpload, ci

\* Nothing is written for a token or a job identity that had ended when the body
\* of the request had been read, whatever else is revoked, made or purged.
THEOREM NothingIsWrittenLate == Spec => []NothingAfterRevocation
<1>1. CredInv => NothingAfterRevocation
  BY DEF CredInv, Honest, NothingAfterRevocation, Writing
<1>2. QED
  BY <1>1, CredInit, CredStep, PTL DEF Spec

-----------------------------------------------------------------------------
(* The grace period of a replaced key.                                     *)

\* An end is set by the first replacement only, and is 24 hours after it.
Paired(k) ==
    /\ k.expires = None <=> k.replaced = None
    /\ k.expires # None => k.expires = k.replaced + Grace

Distinct(all, last) ==
    /\ \A k \in all : k.id <= last
    /\ \A k, l \in all : k.id = l.id => k = l

GraceInv ==
    /\ KeysInv
    /\ \A p \in Projects : Distinct(keys[p], minted.keys) /\ \A k \in keys[p] : Paired(k)

\* What may become of a key that worked.
Over(k, time) == k.revoked \/ (k.replaced # None /\ time >= k.replaced + Grace)

LEMMA GraceInit == Init => GraceInv
  BY KeysInit DEF Init, GraceInv, Distinct

LEMMA RevokedIsPaired ==
    ASSUME NEW k \in KeyRows, Paired(k)
    PROVE  LET q == [k EXCEPT !.revoked = TRUE]
           IN Paired(q) /\ q.id = k.id /\ Over(q, now)
  BY DEF KeyRows, Paired, Over

LEMMA ReplacedIsPaired ==
    ASSUME now \in Nat, NEW k \in KeyRows, Ends(k), Paired(k)
    PROVE  LET q == Replaced(k)
           IN Paired(q) /\ q.id = k.id /\ (Working(k) => Working(q) \/ Over(q, now))
<1> USE ProjectsAssumption DEF KeyRows, Ends, Paired
<1>1. CASE ~(~k.revoked /\ (k.expires = None \/ k.expires > now + Grace))
  BY <1>1 DEF Replaced
<1>2. CASE ~k.revoked /\ (k.expires = None \/ k.expires > now + Grace)
  <2>1. k.replaced = None
    BY <1>2
  <2> DEFINE q == [k EXCEPT !.expires = now + Grace, !.replaced = now]
  <2>2. Replaced(k) = q
    BY <1>2, <2>1 DEF Replaced
  <2>3. now + Grace \in Nat /\ now + Grace # None /\ now # None
    OBVIOUS
  <2>4. q.replaced = now /\ q.expires = now + Grace /\ q.id = k.id /\ q.revoked = k.revoked
    OBVIOUS
  <2> HIDE DEF q
  <2>5. Paired(q)
    BY <2>3, <2>4
  <2>6. Working(q) \/ Over(q, now)
    BY <1>2, <2>3, <2>4 DEF Working, Unexpired, Over
  <2>7. QED
    BY <2>2, <2>4, <2>5, <2>6
<1>3. QED
  BY <1>1, <1>2

\* What a step does to the keys of a project.
KeysGoOn(p) ==
    /\ Distinct(keys'[p], minted'.keys)
    /\ \A after \in keys'[p] : Paired(after)
    /\ \A k \in keys[p] : Working(k) =>
          \A after \in keys'[p] : after.id = k.id => Working(after)' \/ Over(after, now')

\* The time is the same and so are the keys.
LEMMA SameKeys ==
    ASSUME GraceInv, NEW p \in Projects, keys'[p] = keys[p], now' = now,
           minted.keys <= minted'.keys, minted' \in [keys : Nat, tokens : Nat]
    PROVE  KeysGoOn(p)
<1>1. Distinct(keys'[p], minted'.keys)
  BY DEF GraceInv, Distinct, KeysInv, KeyRows
<1>2. QED
  BY <1>1 DEF GraceInv, KeysGoOn, Distinct, Working, Unexpired

\* Keys that may follow those of a project.
Succeed(new, p) ==
    \A k \in keys[p], after \in new :
        Working(k) /\ after.id = k.id => Working(after) \/ Over(after, now)

\* The keys of one project change, and nothing else that matters here.
LEMMA SuccessorKeys ==
    ASSUME GraceInv, NEW p \in Projects, NEW new, now' = now,
           keys' = [keys EXCEPT ![p] = new],
           minted' \in [keys : Nat, tokens : Nat], minted.keys <= minted'.keys,
           Distinct(new, minted'.keys), \A after \in new : Paired(after), Succeed(new, p)
    PROVE  \A q \in Projects : KeysGoOn(q)
<1>1. keys'[p] = new
  BY DEF GraceInv, KeysInv
<1>2. KeysGoOn(p)
  BY <1>1 DEF KeysGoOn, Succeed, Working, Unexpired
<1>3. ASSUME NEW q \in Projects \ {p} PROVE KeysGoOn(q)
  BY SameKeys DEF GraceInv, KeysInv
<1>4. QED
  BY <1>2, <1>3

LEMMA TickKeepsGrace ==
    ASSUME GraceInv, Tick, NEW p \in Projects
    PROVE  KeysGoOn(p)
<1>1. now' = now + 1 /\ keys' = keys /\ minted' = minted
  BY DEF Tick, secrets
<1>2. Distinct(keys'[p], minted'.keys) /\ \A after \in keys'[p] : Paired(after)
  BY <1>1 DEF GraceInv
<1>3. ASSUME NEW k \in keys[p], Working(k) PROVE Working(k)' \/ Over(k, now')
  <2>1. k \in KeyRows /\ Paired(k) /\ now \in Nat
    BY DEF GraceInv, KeysInv
  <2>2. ~k.revoked /\ (k.expires = None \/ k.expires > now)
    BY <1>3 DEF Working, Unexpired
  <2>3. CASE k.expires = None
    BY <2>2, <2>3 DEF Working, Unexpired
  <2>4. CASE k.expires # None /\ k.expires > now'
    BY <2>2, <2>4 DEF Working, Unexpired
  <2>5. CASE k.expires # None /\ ~(k.expires > now')
    BY <1>1, <2>1, <2>5, ProjectsAssumption DEF KeyRows, Paired, Over
  <2>6. QED
    BY <2>3, <2>4, <2>5
<1>4. QED
  BY <1>1, <1>2, <1>3 DEF KeysGoOn, GraceInv, Distinct

LEMMA NewKeyGoesOn ==
    ASSUME GraceInv, NEW p \in Projects, now' = now,
           keys' = [keys EXCEPT ![p] = {NewKey}], minted' = [minted EXCEPT !.keys = @ + 1]
    PROVE  \A q \in Projects : KeysGoOn(q)
<1>1. /\ minted.keys \in Nat /\ minted'.keys = minted.keys + 1
      /\ minted' \in [keys : Nat, tokens : Nat] /\ minted.keys <= minted'.keys
  BY DEF GraceInv, KeysInv
<1>2. NewKey.id = minted.keys + 1 /\ Paired(NewKey)
  BY DEF NewKey, Paired
<1>3. Distinct({NewKey}, minted'.keys) /\ \A after \in {NewKey} : Paired(after)
  BY <1>1, <1>2 DEF Distinct
<1>4. Succeed({NewKey}, p)
  BY <1>1, <1>2 DEF GraceInv, KeysInv, Distinct, KeyRows, Succeed
<1> HIDE DEF NewKey
<1>5. QED
  BY <1>1, <1>2, <1>3, <1>4, SuccessorKeys

LEMMA RotationGoesOn ==
    ASSUME GraceInv, NEW p \in Projects, NEW atOnce \in BOOLEAN, RotateIngestionKey(p, atOnce)
    PROVE  \A q \in Projects : KeysGoOn(q)
<1> DEFINE F(k) == IF atOnce THEN [k EXCEPT !.revoked = TRUE] ELSE Replaced(k)
           new == {F(k) : k \in keys[p]} \cup {NewKey}
<1>1. /\ minted.keys \in Nat /\ minted'.keys = minted.keys + 1
      /\ minted' \in [keys : Nat, tokens : Nat] /\ minted.keys <= minted'.keys
      /\ now' = now /\ keys' = [keys EXCEPT ![p] = new]
  BY DEF RotateIngestionKey, GraceInv, KeysInv
<1>2. NewKey.id = minted.keys + 1 /\ Paired(NewKey)
  BY DEF NewKey, Paired
<1>3. ASSUME NEW k \in keys[p]
      PROVE  /\ F(k).id = k.id /\ Paired(F(k)) /\ (Working(k) => Working(F(k)) \/ Over(F(k), now))
             /\ k.id \in Nat /\ k.id <= minted.keys
  <2>1. k \in KeyRows /\ Ends(k) /\ Paired(k) /\ now \in Nat /\ k.id <= minted.keys
    BY DEF GraceInv, KeysInv, Distinct
  <2>2. QED
    BY <2>1, RevokedIsPaired, ReplacedIsPaired DEF KeyRows
<1>4. \A k, l \in keys[p] : k.id = l.id => k = l
  BY DEF GraceInv, Distinct
<1>5. \A after \in new : after = NewKey \/ \E k \in keys[p] : after = F(k)
  OBVIOUS
<1> HIDE DEF F, new, NewKey
<1>6. \A after \in new : after.id <= minted'.keys /\ Paired(after)
  BY <1>1, <1>2, <1>3, <1>5
<1>7. ASSUME NEW a \in new, NEW b \in new, a.id = b.id PROVE a = b
  BY <1>1, <1>2, <1>3, <1>4, <1>5, <1>7
<1>8. Succeed(new, p)
  BY <1>1, <1>2, <1>3, <1>4, <1>5 DEF Succeed
<1>9. Distinct(new, minted'.keys) /\ \A after \in new : Paired(after)
  BY <1>6, <1>7 DEF Distinct
<1>10. QED
  BY <1>1, <1>8, <1>9, SuccessorKeys

LEMMA RevocationGoesOn ==
    ASSUME GraceInv, NEW p \in Projects, NEW k \in keys[p], RevokeIngestionKey(p, k)
    PROVE  \A q \in Projects : KeysGoOn(q)
<1> DEFINE gone == [k EXCEPT !.revoked = TRUE]
           new == (keys[p] \ {k}) \cup {gone}
<1>1. /\ minted' = minted /\ minted' \in [keys : Nat, tokens : Nat] /\ now' = now
      /\ minted.keys <= minted'.keys
      /\ keys' = [keys EXCEPT ![p] = new]
  BY DEF RevokeIngestionKey, Revoked, GraceInv, KeysInv
<1>2. gone.id = k.id /\ Paired(gone) /\ Over(gone, now)
  BY RevokedIsPaired DEF GraceInv, KeysInv
<1>3. Distinct(keys[p], minted.keys) /\ \A x \in keys[p] : Paired(x)
  BY DEF GraceInv
<1>4. \A after \in new : after = gone \/ (after \in keys[p] /\ after # k)
  OBVIOUS
<1> HIDE DEF gone, new
<1>5. Distinct(new, minted'.keys)
  BY <1>1, <1>2, <1>3, <1>4 DEF Distinct
<1>6. \A after \in new : Paired(after)
  BY <1>2, <1>3, <1>4
<1>7. Succeed(new, p)
  BY <1>2, <1>3, <1>4 DEF Distinct, Succeed
<1>8. QED
  BY <1>1, <1>5, <1>6, <1>7, SuccessorKeys

LEMMA KeysGoOnStep ==
    ASSUME GraceInv, [Next]_vars
    PROVE  \A p \in Projects : KeysGoOn(p)
<1>1. ASSUME UNCHANGED <<now, keys>>, minted'.keys = minted.keys,
             minted' \in [keys : Nat, tokens : Nat]
      PROVE  \A p \in Projects : KeysGoOn(p)
  BY <1>1, SameKeys DEF GraceInv, KeysInv
<1>2. CASE UNCHANGED <<now, secrets>>
  BY <1>1, <1>2 DEF GraceInv, KeysInv, secrets
<1>3. ASSUME NEW p \in Projects, NEW s \in Slugs, CreateProject(p, s)
      PROVE  \A q \in Projects : KeysGoOn(q)
  BY <1>3, NewKeyGoesOn DEF CreateProject
<1>4. ASSUME NEW p \in Projects, PurgeBatch(p) PROVE \A q \in Projects : KeysGoOn(q)
  <2>1. now' = now /\ minted' = minted /\ minted \in [keys : Nat, tokens : Nat]
    BY <1>4 DEF PurgeBatch, GraceInv, KeysInv
  <2>2. CASE UNCHANGED keys
    BY <1>1, <2>1, <2>2
  <2>3. CASE keys' = [keys EXCEPT ![p] = {}]
    <3>1. Distinct({}, minted'.keys) /\ Succeed({}, p)
      BY DEF Distinct, Succeed
    <3>2. minted.keys <= minted'.keys
      BY <2>1
    <3>3. QED
      BY <2>1, <2>3, <3>1, <3>2, SuccessorKeys
  <2>4. QED
    BY <1>4, <2>2, <2>3 DEF PurgeBatch
<1>5. ASSUME NEW p \in Projects,
             \/ CreateSourceMapToken(p)
             \/ \E t \in tokens[p] : RevokeSourceMapToken(p, t)
      PROVE  \A q \in Projects : KeysGoOn(q)
  BY <1>1, <1>5 DEF CreateSourceMapToken, RevokeSourceMapToken, GraceInv, KeysInv
<1>6. ASSUME NEW p \in Projects, OwnerStep(p) \/ PurgeLock(p) \/ PurgeBatch(p) \/ Unlock(p)
      PROVE  \A q \in Projects : KeysGoOn(q)
  BY <1>2, <1>3, <1>4, <1>5, <1>6, RotationGoesOn, RevocationGoesOn
  DEF OwnerStep, UpdateProject, DeleteProject, RestoreCheck, RestoreProject,
      UpdateSourceMapPolicy, PurgeLock, Unlock
<1>7. ASSUME NEW c \in Clients, RequestStep(c) PROVE \A q \in Projects : KeysGoOn(q)
  <2>1. UNCHANGED <<now, secrets>>
    BY ZenonT(60), <1>7 DEF RequestStep, Present, IdentityExpires, ReadBody, AuthorizeAgain, Land, Fail
  <2>2. QED
    BY <2>1, <1>2
<1>8. QED
  BY <1>2, <1>6, <1>7, TickKeepsGrace DEF Next, vars, Restart, RetainUpload

LEMMA GraceStep == ASSUME GraceInv, [Next]_vars PROVE GraceInv'
<1>1. KeysInv'
  BY KeysStep DEF GraceInv
<1>2. ASSUME NEW p \in Projects
      PROVE  Distinct(keys[p], minted.keys)' /\ (\A k \in keys[p] : Paired(k))'
  BY KeysGoOnStep DEF KeysGoOn, Distinct, Paired
<1>3. QED
  BY <1>1, <1>2 DEF GraceInv

\* No rotation cuts a sender off: whatever else is rotated, revoked or purged, a
\* key works until it is revoked itself or 24 hours have gone by since it was
\* replaced first (ingestion-keys.ts).
THEOREM GraceIsAlwaysKept == Spec => GraceIsKept
<1>1. ASSUME GraceInv, [Next]_vars
      PROVE  \A p \in Projects : \A k \in keys[p] : Working(k) =>
                \A after \in keys'[p] : after.id = k.id =>
                    \/ Working(after)' \/ after.revoked
                    \/ after.replaced # None /\ now' >= after.replaced + Grace
  BY <1>1, KeysGoOnStep DEF KeysGoOn, Over
<1>2. QED
  BY <1>1, GraceInit, GraceStep, PTL DEF Spec, GraceIsKept

-----------------------------------------------------------------------------
(* Who writes.                                                             *)

\* The bound repository, or a fork an Owner trusted for this very binding.
Trusted(p, j) ==
    /\ trust[p] # None /\ Identified(p, j) /\ Placed(p, j)
    /\ Primary(p, j) \/ <<p, trust[p], Claims[j].path>> \in allowed

\* What the last check of a request found is true until the web restarts.
Vouched(r) ==
    IF r.cred.job = None THEN trust[r.project] = None
    ELSE /\ Trusted(r.project, r.cred.job)
         /\ r.build.binding = trust[r.project]
         /\ r.op # "release" => r.build.job = r.cred.job
         /\ \A f \in {"sha", "environment", "review"} :
                Claims[r.build.job][f] = Claims[r.cred.job][f]

\* Every fork in a policy was allowed for its binding.
Consented(p) ==
    policy[p] # None => \A s \in policy[p].sources : <<p, policy[p].binding, s>> \in allowed

TrustInv ==
    /\ CredInv
    /\ DOMAIN trust = Projects /\ DOMAIN policy = Projects
    /\ \A p \in Projects : Consented(p)
    /\ \A c \in Writing : Vouched(request[c])

LEMMA TrustInit == Init => TrustInv
  BY CredInit DEF Init, TrustInv, Consented, Writing

\* The answer of "ci context" admits only jobs that are trusted (gitlab.ts).
LEMMA ContextTrusts ==
    ASSUME NEW p \in Projects, NEW j \in Jobs, Consented(p), Context(p, j) \in {"build", "maps"}
    PROVE  Trusted(p, j)
<1>1. /\ trust[p] # None /\ Identified(p, j) /\ Placed(p, j)
      /\ Primary(p, j) \/ Claims[j].path \in EffectivePolicy(p).sources
  BY DEF Context
<1>2. ASSUME Claims[j].path \in EffectivePolicy(p).sources
      PROVE  <<p, trust[p], Claims[j].path>> \in allowed
  BY <1>2 DEF EffectivePolicy, DefaultPolicy, Consented
<1>3. QED
  BY <1>1, <1>2 DEF Trusted

\* A check that succeeds vouches for the request.
LEMMA CheckVouches ==
    ASSUME NEW r \in Requests, Consented(r.project), NEW operation \in {"maps", "release"},
           Authorized(r.project, r.cred, operation), InScope(r.project, r.op, r.build, r.cred)
    PROVE  Vouched(r)
<1>1. r.project \in Projects /\ r.cred.job \in Jobs \cup {None}
  BY DEF Requests, Creds
<1>2. CASE r.cred.job = None
  BY <1>2 DEF Authorized, Vouched
<1>3. CASE r.cred.job # None
  <2>1. Trusted(r.project, r.cred.job)
    BY <1>1, <1>3, ContextTrusts DEF Authorized
  <2>2. CASE r.op = "release"
    BY <1>3, <2>1, <2>2 DEF InScope, ReleaseScope, Vouched
  <2>3. CASE r.op # "release"
    <3>1. r.build = [binding |-> trust[r.project], job |-> r.cred.job]
      BY <1>3, <2>3 DEF InScope, UploadScope, Build
    <3>2. r.build.binding = trust[r.project] /\ r.build.job = r.cred.job
      BY <3>1
    <3>3. QED
      BY <1>3, <2>1, <2>3, <3>2 DEF Vouched
  <2>4. QED
    BY <2>2, <2>3
<1>4. QED
  BY <1>2, <1>3

\* More forks may be allowed: what was vouched for still is.
LEMMA VouchedStays ==
    ASSUME NEW r, Vouched(r), trust' = trust, allowed \subseteq allowed'
    PROVE  Vouched(r)'
<1>1. ASSUME NEW p, NEW j, Trusted(p, j) PROVE Trusted(p, j)'
  BY <1>1 DEF Trusted, Identified, Placed, Primary
<1>2. QED
  BY <1>1 DEF Vouched

LEMMA TrustKept ==
    ASSUME TrustInv, CredInv', trust' = trust, allowed \subseteq allowed', request' = request,
           DOMAIN policy' = Projects, \A p \in Projects : Consented(p)'
    PROVE  TrustInv'
<1>1. ASSUME NEW c \in Writing PROVE Vouched(request[c])'
  BY VouchedStays DEF TrustInv
<1>2. \A c \in Writing' : c \in Writing
  BY DEF Writing
<1>3. \A c \in Writing' : Vouched(request[c])'
  BY <1>1, <1>2
<1>4. QED
  BY <1>3 DEF TrustInv

\* One request changes: it is vouched for, or it does not write.
LEMMA OneRequestVouched ==
    ASSUME TrustInv, CredInv', NEW c \in Clients, NEW r,
           UNCHANGED <<trust, policy, allowed>>, request' = [request EXCEPT ![c] = r],
           r = None \/ r.stage # "permitted" \/ Vouched(r)
    PROVE  TrustInv'
<1>1. ASSUME NEW d \in Writing' PROVE Vouched(request[d])'
  <2>1. d \in Clients /\ request'[d] # None /\ request'[d].stage = "permitted"
    BY DEF Writing
  <2>2. CASE d = c
    <3>1. request'[d] = r /\ Vouched(r)
      BY <2>1, <2>2 DEF TrustInv, CredInv
    <3>2. Vouched(r)'
      BY <3>1, VouchedStays
    <3>3. QED
      BY <3>1, <3>2 DEF Vouched
  <2>3. CASE d # c
    <3>1. request'[d] = request[d] /\ d \in Writing
      BY <2>1, <2>3 DEF TrustInv, CredInv, Writing
    <3>2. Vouched(request[d])
      BY <3>1 DEF TrustInv
    <3>3. Vouched(request'[d])
      BY <3>1, <3>2
    <3>4. QED
      BY <3>3, VouchedStays DEF Vouched
  <2>4. QED
    BY <2>2, <2>3
<1>2. \A p \in Projects : Consented(p)'
  BY DEF TrustInv, Consented
<1>3. QED
  BY <1>1, <1>2 DEF TrustInv

LEMMA RequestKeepsTrust ==
    ASSUME TrustInv, NEW c \in Clients, RequestStep(c)
    PROVE  TrustInv'
<1>1. UNCHANGED <<trust, policy, allowed>>
  BY ZenonT(60) DEF RequestStep, Present, IdentityExpires, ReadBody, AuthorizeAgain, Land, Fail, consent
<1>2. CredInv'
  BY RequestKeepsHonest DEF TrustInv
<1> DEFINE r == request[c]
<1>3. ASSUME r # None
      PROVE  /\ r \in Requests /\ Consented(r.project)
             /\ r.stage = "permitted" => Vouched(r)
  <2>1. r \in Requests
    BY <1>3 DEF TrustInv, CredInv, Honest
  <2>2. r.project \in Projects
    BY <2>1 DEF Requests
  <2>3. QED
    BY <1>3, <2>1, <2>2 DEF TrustInv, Writing
<1>4. ASSUME NEW op \in {"begin", "put", "finish", "release"}, NEW p \in Live,
             NEW cred \in Credentials(p), NEW b \in Bindings, NEW j \in Jobs,
             Present(c, op, p, cred, [binding |-> b, job |-> j])
      PROVE  TrustInv'
  <2> DEFINE build == [binding |-> b, job |-> j]
             q == [op |-> op, project |-> p, cred |-> cred, build |-> build,
                   late |-> FALSE, spent |-> FALSE,
                   stage |-> IF op = "finish" THEN "permitted" ELSE "reading"]
  <2>1. request' = [request EXCEPT ![c] = q]
    BY <1>4 DEF Present
  <2>2. cred \in Creds /\ p \in Projects
    BY ProjectsAssumption
    DEF Credentials, Creds, TrustInv, CredInv, TokenTypes, TokenRows, Live, Exists
  <2>3. q \in Requests
    BY <2>2 DEF Requests
  <2>4. /\ q.op = op /\ q.project = p /\ q.cred = cred /\ q.build = build
        /\ q.stage = IF op = "finish" THEN "permitted" ELSE "reading"
    OBVIOUS
  <2>5. Authorized(p, cred, "maps") /\ (op = "finish" => UploadScope(p, build, cred))
    BY <1>4 DEF Present, FirstCheck
  <2>6. Consented(p)
    BY <2>2 DEF TrustInv
  <2> HIDE DEF q, build
  <2>7. CASE op = "finish"
    <3>1. InScope(q.project, q.op, q.build, q.cred)
      BY <2>4, <2>5, <2>7 DEF InScope
    <3>2. Vouched(q)
      BY <2>3, <2>4, <2>5, <2>6, <3>1, CheckVouches
    <3>3. QED
      BY <1>1, <1>2, <2>1, <3>2, OneRequestVouched
  <2>8. CASE op # "finish"
    <3>1. q.stage # "permitted"
      BY <2>4, <2>8
    <3>2. QED
      BY <1>1, <1>2, <2>1, <3>1, OneRequestVouched
  <2>9. QED
    BY <2>7, <2>8
<1>5. CASE IdentityExpires(c)
  <2> DEFINE q == [r EXCEPT !.spent = TRUE]
  <2>1. r # None /\ r \in Requests
    BY <1>3, <1>5 DEF IdentityExpires
  <2>2. request' = [request EXCEPT ![c] = q]
    BY <1>5 DEF IdentityExpires, TrustInv, CredInv
  <2>3. /\ q.project = r.project /\ q.cred = r.cred /\ q.build = r.build
        /\ q.op = r.op /\ q.stage = r.stage
    BY <2>1 DEF Requests
  <2>4. r.stage = "permitted" => Vouched(r)
    BY <1>3, <2>1
  <2> HIDE DEF q, r
  <2>5. q.stage # "permitted" \/ Vouched(q)
    BY <2>3, <2>4 DEF Vouched
  <2>6. QED
    BY <1>1, <1>2, <2>2, <2>5, OneRequestVouched
<1>6. CASE ReadBody(c)
  <2> DEFINE q == [r EXCEPT !.stage = "read", !.late = Dead(r)]
  <2>1. r # None /\ r \in Requests
    BY <1>3, <1>6 DEF ReadBody
  <2>2. request' = [request EXCEPT ![c] = q]
    BY <1>6 DEF ReadBody, TrustInv, CredInv
  <2>3. q.stage = "read"
    BY <2>1 DEF Requests
  <2>4. q.stage # "permitted"
    BY <2>3
  <2> HIDE DEF q, r
  <2>5. QED
    BY <1>1, <1>2, <2>2, <2>4, OneRequestVouched
<1>7. CASE AuthorizeAgain(c)
  <2> DEFINE q == [r EXCEPT !.stage = "permitted"]
  <2>1. r # None /\ r \in Requests /\ Consented(r.project)
    BY <1>3, <1>7 DEF AuthorizeAgain
  <2>2. \/ /\ request' = [request EXCEPT ![c] = q] /\ StillAuthorized(r)
           /\ InScope(r.project, r.op, r.build, r.cred)
        \/ request' = [request EXCEPT ![c] = None]
    BY <1>7 DEF AuthorizeAgain
  <2>3. /\ q.project = r.project /\ q.cred = r.cred /\ q.build = r.build /\ q.op = r.op
    BY <2>1 DEF Requests
  <2> HIDE DEF q, r
  <2>4. ASSUME StillAuthorized(r), InScope(r.project, r.op, r.build, r.cred) PROVE Vouched(q)
    <3>1. Vouched(r)
      BY <2>1, <2>4, CheckVouches DEF StillAuthorized
    <3>2. QED
      BY <2>3, <3>1 DEF Vouched
  <2>5. QED
    BY <1>1, <1>2, <2>2, <2>4, OneRequestVouched
<1>8. CASE Land(c) \/ Fail(c)
  BY <1>1, <1>2, <1>8, OneRequestVouched DEF Land, Fail
<1>9. QED
  BY <1>4, <1>5, <1>6, <1>7, <1>8 DEF RequestStep

LEMMA TrustStep == ASSUME TrustInv, [Next]_vars PROVE TrustInv'
<1>1. CredInv' /\ DOMAIN policy = Projects
  BY CredStep DEF TrustInv
<1>2. ASSUME UNCHANGED <<trust, policy, allowed, request>> PROVE TrustInv'
  BY <1>1, <1>2, TrustKept DEF TrustInv, Consented
<1>3. CASE UNCHANGED <<trust, consent, request>>
  BY <1>2, <1>3 DEF consent
<1>4. ASSUME NEW p \in Projects, NEW preview \in BOOLEAN, NEW sources \in SUBSET Forks,
             UpdateSourceMapPolicy(p, preview, sources)
      PROVE  TrustInv'
  <2>1. /\ trust' = trust /\ request' = request
        /\ policy' = [policy EXCEPT ![p] =
                [binding |-> trust[p], preview |-> preview, sources |-> sources]]
        /\ allowed' = allowed \cup {<<p, trust[p], s>> : s \in sources}
    BY <1>4 DEF UpdateSourceMapPolicy, ci
  <2>2. DOMAIN policy' = Projects /\ allowed \subseteq allowed'
    BY <1>1, <2>1
  <2>3. ASSUME NEW q \in Projects PROVE Consented(q)'
    BY <1>1, <2>1 DEF TrustInv, Consented
  <2>4. QED
    BY <1>1, <2>1, <2>2, <2>3, TrustKept
<1>5. ASSUME NEW p \in Projects, PurgeBatch(p) PROVE TrustInv'
  <2>1. UNCHANGED <<trust, allowed, request>>
    BY <1>5 DEF PurgeBatch
  <2>2. policy' = policy \/ policy' = [policy EXCEPT ![p] = None]
    BY <1>5 DEF PurgeBatch
  <2>3. DOMAIN policy' = Projects /\ \A q \in Projects : Consented(q)'
    BY <1>1, <2>1, <2>2 DEF TrustInv, Consented
  <2>4. QED
    BY <1>1, <2>1, <2>3, TrustKept
<1>6. ASSUME NEW p \in Projects, NEW b, Restart(p, b) PROVE TrustInv'
  <2>1. /\ trust' = [trust EXCEPT ![p] = b] /\ request' = [c \in Clients |-> None]
        /\ UNCHANGED <<policy, allowed>>
    BY <1>6 DEF Restart, consent
  <2>2. Writing' = {}
    BY <2>1 DEF Writing
  <2>3. QED
    BY <1>1, <2>1, <2>2 DEF TrustInv, Consented
<1>7. ASSUME NEW p \in Projects, OwnerStep(p) PROVE TrustInv'
  BY <1>2, <1>4, <1>7
  DEF OwnerStep, CreateProject, UpdateProject, DeleteProject, RestoreCheck, RestoreProject,
      RotateIngestionKey, RevokeIngestionKey, CreateSourceMapToken, RevokeSourceMapToken,
      consent, ci
<1>8. QED
  BY <1>2, <1>3, <1>5, <1>6, <1>7, RequestKeepsTrust
  DEF Next, vars, PurgeLock, Unlock, RetainUpload, Tick, consent, ci

\* Claims of a job that is trusted and of the build it names.
LEMMA VouchedKeeps ==
    ASSUME NEW c \in Clients, request[c] \in Requests, Vouched(request[c])
    PROVE  /\ KeepsToItsBuild(c)
           /\ request[c].cred.job # None =>
                \/ Claims[request[c].cred.job].path = Repository[trust[request[c].project]]
                \/ <<request[c].project, trust[request[c].project],
                     Claims[request[c].cred.job].path>> \in allowed
<1> DEFINE r == request[c]
           self == Claims[r.cred.job]
           built == Claims[r.build.job]
           main == Repository[trust[r.project]]
<1>1. CASE r.cred.job = None
  BY <1>1 DEF KeepsToItsBuild
<1>2. CASE r.cred.job # None
  <2>1. /\ Trusted(r.project, r.cred.job)
        /\ r.build.binding = trust[r.project]
        /\ r.op # "release" => r.build.job = r.cred.job
        /\ built.sha = self.sha /\ built.environment = self.environment
    BY <1>2 DEF Vouched
  <2>2. self.id = main <=> self.path = main
    BY <2>1 DEF Trusted, Identified
  <2>3. /\ self.id = main \/ <<r.project, trust[r.project], self.path>> \in allowed
        /\ Placed(r.project, r.cred.job)
    BY <2>1 DEF Trusted, Primary
  <2>4. self.environment = "production" =>
            self.id = main /\ self.event # "merge_request_event" /\ self.release
    BY <2>3 DEF Placed, Primary
  <2>5. KeepsToItsBuild(c)
    BY <2>1, <2>2, <2>4 DEF KeepsToItsBuild
  <2>6. QED
    BY <2>2, <2>3, <2>5
<1>3. QED
  BY <1>1, <1>2

\* Whatever Owners, operators and the purge do between the checks of a request and
\* its transaction, what is written is a trusted job's, under its own build, or a
\* token's while no GitLab project is bound (authorization.ts, gitlab.ts).
THEOREM WritersAreTrusted == Spec => []WrittenByTrusted
<1>1. TrustInv => WrittenByTrusted
  <2>1. ASSUME TrustInv, NEW c \in Writing
        PROVE  c \in Clients /\ request[c] \in Requests /\ Vouched(request[c])
    BY <2>1 DEF TrustInv, CredInv, Honest, Writing
  <2>2. ASSUME TrustInv, NEW c \in Writing, request[c].cred.job = None
        PROVE  trust[request[c].project] = None
    BY <2>1, <2>2 DEF Vouched
  <2>3. QED
    BY <2>1, <2>2, VouchedKeeps DEF WrittenByTrusted
<1>2. QED
  BY <1>1, TrustInit, TrustStep, PTL DEF Spec

=============================================================================
